CONSTANTS
  MaxConnects = 4
  MaxSends = 2
SPECIFICATION FairSpec
CHECK_DEADLOCK FALSE
INVARIANTS
  TypeOK
  LiveFramesDecode
  NothingSurvivesClose
  NoGhostClient
PROPERTIES
  ConnectReturnsSecured
  EveryCallReturns
