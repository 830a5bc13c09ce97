CONSTANTS
  w1 = w1
  w2 = w2
  Waiters = {w1}
  Types = {"a", "b"}
  Directions = {"in", "out"}
  Asked <- MCAsked
  MaxRecords = 3
  MaxClears = 0
SPECIFICATION Spec
CHECK_DEADLOCK FALSE
INVARIANT NoLostWakeup
