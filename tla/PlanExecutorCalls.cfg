\* Three calls on one instance, two for the same run, with an event limit some plans reach.
SPECIFICATION FairSpec
CONSTANTS
  c1 = c1  c2 = c2  c3 = c3
  r1 = r1  r2 = r2
  Calls = {c1, c2, c3}
  NoCall = NoCall
  Runs = {r1, r2}
  RunOf <- MCRunOf
  MaxSteps = 2
  MaxEvents = 7
  DeniedTypes = {"instruction"}
INVARIANTS
  TypeOK
  ExecutionsAreSound
PROPERTIES
  ExecutionEnds
  NoStepAfterCancel
CHECK_DEADLOCK FALSE
