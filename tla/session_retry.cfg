CONSTANTS
  MaxConnects = 3
  MaxSends = 0
SPECIFICATION FairSpec
CHECK_DEADLOCK FALSE
PROPERTIES
  RetriedConnectSecures
