CONSTANT
  Ips = {a, b, c}
SPECIFICATION DialFairSpec
CHECK_DEADLOCK FALSE
INVARIANTS
  ErrorIfNoneConnects
PROPERTIES
  NeverStalls GoroutinesEnd
