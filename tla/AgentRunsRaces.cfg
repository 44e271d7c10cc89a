\* The owner and two concurrent cancellations, with crashes.
SPECIFICATION FairSpec
CONSTANTS
  Owner = owner
  Cancellers = {c1, c2}
  MaxNotes = 1
INVARIANTS
  TypeOK
  SequencesAreExact
  RecordsAgree
  AnswersAreTrue
PROPERTIES
  OnlyStaleCopiesLeaveTheTable
  EveryRequestEnds
CHECK_DEADLOCK FALSE
