CONSTANTS
  k1 = k1
  k2 = k2
  h1 = h1
  h2 = h2
  y1 = y1
  Keys = {k1, k2}
  Types = {y1}
  Holders = {h1, h2}
  MaxClients = 4
SYMMETRY Symmetry
SPECIFICATION Spec
CHECK_DEADLOCK FALSE
INVARIANTS
  TypeOK
  RefreshKeepsClient
  NoForkedClient

