SPECIFICATION MCSpec
CONSTANTS
  Key = {k1, k2}
  Client = {c1}
  Reader = {r1, r2}
  None = None
  InitCapacity = 1
  MaxId = 3
  DocumentLimit = 5
  Upsert = TRUE
  Overlap = TRUE
  RecoverKey = {k1, k2, k3}
  RecoverClient = {c1, c2}
  RecoverReader = {r1}
  RecoverLimit = 1
INVARIANTS TypesOK OverlapSafe OverlapKeys ListsOwned
INVARIANTS RecoveredConsistent RecoveredLimit
PROPERTY DeletedReleased
