SPECIFICATION Spec
CONSTANTS
  Location <- Places
  Child = {0, 1}
  MaxDepth = 2
  LeafSize = 1
  Reader = {s1}
  MaxMade = 3
  MaxNodes = 7
  NoNode = NoNode
CHECK_DEADLOCK FALSE
INVARIANT ViewsFrozen
