SPECIFICATION Spec
CONSTANTS
  Char = {"a", "b"}
  Wide = {}
  Words <- FuzzyWords
  MaxTyped = 3
  Thresholds = {0, 1, 2}
CHECK_DEADLOCK FALSE
INVARIANT PrefixExact
