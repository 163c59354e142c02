CONSTANTS
  Setups <- AiderAlone
SPECIFICATION Spec
CHECK_DEADLOCK FALSE
INVARIANTS
  OneBadEventBreaksNothing
