SPECIFICATION Spec
CONSTANTS
  Callers = {c1, c2}
  CounterMax = 2
  Moments = {0, 1, 2}
  Calls = 6
CHECK_DEADLOCK FALSE
INVARIANTS TypeOK TimeOrdered NoNearTwin
