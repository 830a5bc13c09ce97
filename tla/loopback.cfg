CONSTANTS
  low = low
  high = high
  old = old
  new = new
  Instances = {low, high}
  Clients = {old}
  FloorOf <- MCFloorOf
  VersionOf <- MCVersionOf
  MaxRuns = 2
SPECIFICATION Spec
INVARIANTS
  TypeOK
  OneServerPerInstance
  PeersMeetTheFloor
  HeldThreadServes
