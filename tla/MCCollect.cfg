CONSTANTS
  Adapters = {a1, a2, a3}
  Slots = 2
  Timeouts = {0, 1}
  UseCache = TRUE
  MaxWork = 2
  MaxRuns = 2
  Detections <- UpOrDown
SPECIFICATION FairSpec
CHECK_DEADLOCK FALSE
INVARIANTS
  SlotDiscipline ResultsComplete GuardNeverCached ResultsFresh RunBounded
PROPERTIES
  NeverBlocked CacheAdvances ImplementsFanOut RunReturns
