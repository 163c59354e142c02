CONSTANTS
  MaxKeys = 1
  Interval = 2
  MaxFetch = 2
  Scripts <- OneKey
SPECIFICATION WatchFairSpec
CHECK_DEADLOCK FALSE
PROPERTY
  QuitEndsWatch
