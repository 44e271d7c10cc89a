\* Two updates, a recall, a reinforcement and a delete of one memory.
SPECIFICATION Spec
CONSTANTS
  Recalls = {c1}
  Reinforces = {b1}
  Updates = {e1, e2}
  Deletes = {d1}
  MaxAmount = 2
  Edits <- MCEdits
SYMMETRY UpdateSymmetry
INVARIANTS
  TypeOK
  EditsAreWhole
  CountIsWithinEvents
PROPERTIES
  DeletedIsFinal
CHECK_DEADLOCK FALSE
