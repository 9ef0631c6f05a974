SPECIFICATION Spec
CONSTANTS
  IPs = {a, b}
  Rate = 1
  Burst = 5
  Cost = 2
  StaleAge = 5
  MaxTime = 8
INVARIANTS
  TypeOK
  WindowBound
PROPERTIES
  ImplementsTokenBucket
CHECK_DEADLOCK FALSE
