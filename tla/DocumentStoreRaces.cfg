\* Two uploads, two deletes and a search that is given at most three hits.
SPECIFICATION Spec
CONSTANTS
  u1 = u1  u2 = u2
  d1 = d1  d2 = d2
  s1 = s1
  Uploads = {u1, u2}
  Deletes = {d1, d2}
  Searches = {s1}
  Chunks = {0, 1}
  TopK = 3
  NoDocument = NoDocument
SYMMETRY RequestSymmetry
INVARIANTS
  TypeOK
  StoresDifferOnlyUnanswered
  AnswersHold
CHECK_DEADLOCK FALSE
