\* The owner alone: the detailed specification implements RunLifecycle.
SPECIFICATION Spec
CONSTANTS
  Owner = owner
  Cancellers = {}
  MaxNotes = 3
PROPERTIES
  FollowsLifecycle
CHECK_DEADLOCK FALSE
