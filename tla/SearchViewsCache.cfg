SPECIFICATION Spec
CONSTANTS
  Keyword = {1, 2}
  Reader = {r1, r2}
  None = None
  MaxRecords = 2
  MaxId = 3
  Room = TRUE
  CacheResults = TRUE
SYMMETRY Symmetry
INVARIANT AnswerComplete
