\* One cancellation racing the request that executes the run.
SPECIFICATION Spec
CONSTANTS
  Owner = owner
  Cancellers = {c1}
  MaxNotes = 1
INVARIANTS
  CancelledIsFinal
CHECK_DEADLOCK FALSE
