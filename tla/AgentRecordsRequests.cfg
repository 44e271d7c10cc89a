\* Three requests of any kind for two definitions and a run.
SPECIFICATION Spec
CONSTANTS
  r1 = r1  r2 = r2  r3 = r3
  d1 = d1  d2 = d2
  k1 = k1  k2 = k2
  Requests = {r1, r2, r3}
  Definitions = {d1, d2}
  Keys = {k1, k2}
  Null = Null
  Same = Same
  Sequences = {2}
  NoNumber = NoNumber
  Indexes = {0, 1}
  MaxSteps = 1
  MaxEvents = 2
SYMMETRY MCSymmetry
INVARIANTS
  TypeOK
  RowAgreesWithLog
PROPERTIES
  ExcessAndErrorsHaveACause
  ArchivesAreUndoneOnPurpose
CHECK_DEADLOCK FALSE
