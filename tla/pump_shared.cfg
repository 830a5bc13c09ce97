CONSTANTS
  t1 = t1
  t2 = t2
  c1 = c1
  c2 = c2
  c3 = c3
  NoThread = NoThread
  Threads = {t1, t2}
  Conns = {c1, c2}
  Drives <- MCShared
  MaxCalls = 4
  MaxChunks = 1
  MayRaise = FALSE
SPECIFICATION FairSpec
CHECK_DEADLOCK FALSE
PROPERTY EveryCallReturns
