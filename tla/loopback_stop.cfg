CONSTANTS
  low = low
  high = high
  old = old
  new = new
  Instances = {low}
  Clients = {old, new}
  FloorOf <- MCFloorOf
  VersionOf <- MCVersionOf
  MaxRuns = 2
SPECIFICATION FairSpec
INVARIANT
  NoGhostPeers
PROPERTY
  StoppedServerEnds
