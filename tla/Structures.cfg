SPECIFICATION MCSpec
CONSTANTS
  Keyword = {1, 2, 3, 4}
  MaxId = 21
  MaxKeywordId = 40
  Sparsity = 2
  MaxWeight = 4
  MaxWaits = 7
  None = None
  Query <- Queries
  Record = {1}
  Searcher = {s1}
  MaxQueries = 2
  MaxInfo = 1
  Capacity = 1
  MaxAdds = 6
  Char = {"a", "b", "c", "w"}
  Wide = {"w"}
  MaxTyped = 3
  Thresholds = {0, 1, 2}
  Child = {0, 1}
  MaxDepth = 4
  MaxMade = 3
  MaxNodes = 9
CHECK_DEADLOCK FALSE
INVARIANTS TypesOK OrderPreserved RoomUntilRemoval AgeOrder
INVARIANTS SearchExact ViewsIntact WriteExact
