SPECIFICATION MCSpec
CONSTANTS
  MergeEveryMWrites = 2
  MaxWrites = 4
  Reader = {r1, r2}
  View = {v1, v2, v3, v4, v5}
  Array = {a1, a2, a3}
  Value = {1}
  Garbage = Garbage
  None = None
  InitCapacity = 1
  MaxLen = 2
  MaxStored = 1
CHECK_DEADLOCK FALSE
INVARIANTS TypeOK NoMissedSignal CounterExact SavedAtExit
PROPERTIES Published Joined Reclaimed
