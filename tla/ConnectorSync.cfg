SPECIFICATION FairSpec
CONSTANTS
  Key = {"a", "b"}
  Tables = {{"a"}}
  Kinds = {"sqlite", "oracle", "sqlserver", "mongo", "mysql"}
  Limits = {1, 2}
  MaxChanges = 2
  MaxTime = 2
  MaxStarts = 2
  MaxErrors = 1
  Stops = TRUE
INVARIANTS TypeOK OnlyKnownLosses
PROPERTIES CatchesUp
CHECK_DEADLOCK FALSE
