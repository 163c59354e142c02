CONSTANTS
  Procs = {p1, p2}
  Ttls = {0, 1}
  MaxPuts = 3
  MaxFaults = 2
  Old = 2
SPECIFICATION FairSpec
CHECK_DEADLOCK FALSE
INVARIANTS
  AnswersCurrent
PROPERTY
  TornIsDropped
