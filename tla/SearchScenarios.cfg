SPECIFICATION MCSpec
CONSTANTS
  Keyword = {1, 2}
  Reader = {r1, r2}
  None = None
  MaxRecords = 2
  MaxId = 3
  Room = TRUE
  CacheResults = FALSE
  TightReader = {r1}
  TightRecords = 3
  Docs = {1, 2, 3}
  Term = {1, 2}
  Word = {1, 2}
  Distance <- Distances
  Similarity <- Similarities
  Boost <- Boosts
  Matching <- Matchings
  K = 2
  CacheKey = {"a", "b", "c", "d"}
  Hash <- Hashes
  Bytes = {1, 2, 4}
  Budget = 4
  Null = Null
INVARIANT TypesOK
INVARIANT RoomComplete
INVARIANT RoomSound
INVARIANT TightOffsets
INVARIANT IdsAgree
INVARIANT NoDeadEntries
INVARIANT AnswersQuery
INVARIANT BestFirst
INVARIANT CacheConsistent
PROPERTY ImplementsRecency
