SPECIFICATION Spec
CONSTANTS
  MergeEveryMWrites = 2
  MaxWrites = 2
CHECK_DEADLOCK FALSE
INVARIANT FeedbackSavedAtExit
