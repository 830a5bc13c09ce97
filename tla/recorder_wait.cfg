CONSTANTS
  w1 = w1
  w2 = w2
  Waiters = {w1, w2}
  Types = {"a", "b"}
  Directions = {"in", "out"}
  Asked <- MCAsked
  MaxRecords = 2
  MaxClears = 1
SPECIFICATION FairSpec
CHECK_DEADLOCK FALSE
INVARIANTS
  TypeOK
  NoLostWakeupUnfiltered
  NoneOnlyAfterDeadline
  NoLeakedWaiter
PROPERTIES
  RecordedIsReturned
  WaitReturns
