CONSTANTS
  Paths = 2
  Ids = {1, 2}
  Models = {1, 2, 3}
  Sessions = {1, 2}
  MaxLines = 4
  Lines <- Streamed
SPECIFICATION Spec
CHECK_DEADLOCK FALSE
INVARIANTS
  FinalTallies ModelStable
