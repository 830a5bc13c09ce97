CONSTANTS
  t1 = t1
  t2 = t2
  c1 = c1
  c2 = c2
  c3 = c3
  NoThread = NoThread
  Threads = {t1, t2}
  Conns = {c1, c2, c3}
  Drives <- MCSeparate
  MaxCalls = 3
  MaxChunks = 2
  MayRaise = TRUE
SPECIFICATION Spec
CHECK_DEADLOCK FALSE
INVARIANTS
  TypeOK
  NoSelfDeadlock
  NoNestedDelivery
  FramesInOrder
PROPERTY SocketSafe
