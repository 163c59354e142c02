CONSTANTS
  MaxKeys = 2
  Interval = 2
  MaxFetch = 2
  Scripts <- TwoKeys
SPECIFICATION WatchFairSpec
CHECK_DEADLOCK FALSE
INVARIANTS
  KeysAccounted TerminalRestored QuitIsLast
PROPERTIES
  KeyArrives EofNoticed GoroutinesEnd CancelEndsWatch QuitEndsPollingWatch KeepsRefreshing
