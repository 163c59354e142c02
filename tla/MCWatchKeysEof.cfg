CONSTANT
  MaxKeys = 1
SPECIFICATION KeysSpec
CHECK_DEADLOCK FALSE
INVARIANT
  EofNeverOutranksKey
