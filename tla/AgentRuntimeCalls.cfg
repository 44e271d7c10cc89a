\* Three calls on one instance, two for the same run, up to the event limit.
SPECIFICATION RuntimeSpec
CONSTANTS
  c1 = c1  c2 = c2  c3 = c3
  r1 = r1  r2 = r2
  Calls = {c1, c2, c3}
  NoCall = NoCall
  Runs = {r1, r2}
  RunOf <- MCRunOf
  MaxEvents = 6
INVARIANTS
  RuntimeTypeOK
  AttemptsAreSound
CHECK_DEADLOCK FALSE
