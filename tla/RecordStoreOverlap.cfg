SPECIFICATION Spec
CONSTANTS
  Key = {k1, k2}
  Client = {c1, c2}
  Reader = {r1}
  None = None
  InitCapacity = 1
  MaxId = 4
  DocumentLimit = 1
  Upsert = FALSE
  Overlap = TRUE
SYMMETRY Symmetry
INVARIANT ValidHasList
