CONSTANTS
  Setups <- AllSetups
SPECIFICATION Spec
CHECK_DEADLOCK FALSE
INVARIANTS
  NothingDisappears SameFigures NothingInvented Explained TodaysFigures
