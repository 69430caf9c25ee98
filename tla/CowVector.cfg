SPECIFICATION MCSpec
CONSTANTS
  r1 = r1 r2 = r2
  v1 = v1 v2 = v2 v3 = v3 v4 = v4 v5 = v5
  a1 = a1 a2 = a2 a3 = a3
  Reader <- Readers2
  View <- Views5
  Array <- Arrays3
  Value = {1}
  Garbage = Garbage
  None = None
  InitCapacity = 1
  MaxLen = 4
  MaxStored = 2
  Usage = "managed"
  InPlace = TRUE
SYMMETRY Symmetric
CHECK_DEADLOCK FALSE
INVARIANTS TypesOK NoUseAfterFree SingleOwner NoLeak SizeWithinCapacity
PROPERTY ImplementsSnapshots
