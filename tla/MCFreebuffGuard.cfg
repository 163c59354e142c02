CONSTANTS
  Pids = {p1, p2}
  MaxStarts = 2
SPECIFICATION FairSpec
INVARIANTS
  GuardSound
PROPERTY
  GuardReleases
