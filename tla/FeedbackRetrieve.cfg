SPECIFICATION Spec
CONSTANTS
  Query <- Queries
  Record = {1, 2}
  Searcher = {s1}
  None = None
  MaxQueries = 2
  MaxInfo = 1
  Capacity = 1
  MaxAdds = 4
CHECK_DEADLOCK FALSE
INVARIANT RetrievesOwn
