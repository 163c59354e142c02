CONSTANTS
  PipeCap = 2
  MaxLines = 4
  LogCap = 1
SPECIFICATION FairSpec
CHECK_DEADLOCK FALSE
INVARIANTS
  OneScanner RightAnswer
PROPERTIES
  FetchReturns NothingStays
