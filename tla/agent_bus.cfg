CONSTANTS
  p1 = p1
  p2 = p2
  c1 = c1
  c2 = c2
  c3 = c3
  NoProtocol = NoProtocol
  Protocols = {p1, p2}
  Peers = {c1, c2, c3}
  Home <- MCHome
  Queries = {q1}
  MaxDepth = 1
  MaxChunks = 2
SPECIFICATION Spec
INVARIANTS
  TypeOK
  LiveProtocolsRecord
  AnswersInOrder
PROPERTIES
  RootedReachesAll
  QueryEnds
