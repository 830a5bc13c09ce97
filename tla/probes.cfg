SPECIFICATION Spec
CONSTANTS
  s1 = s1
  s2 = s2
  k1 = k1
  k2 = k2
  Master = Master
  NoPeer = NoPeer
  NoKind = NoKind
  Satellites <- MCSatellites
  Kinds <- MCKinds
  Count <- MCCount
  Timeout = 1
  Settle = 1
  MaxProbes = 2
  MaxClock = 4
SYMMETRY Symmetry
CHECK_DEADLOCK FALSE
INVARIANTS TypeOK  AdmissionJudged
PROPERTY FailIsLate
