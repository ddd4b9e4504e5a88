SPECIFICATION Spec
CONSTANTS
  h1 = h1
  c1 = c1
  Streams = {h1, c1}
  Http = {h1}
  Chunks = 1
  InCap = 1
  QueueCap = 1
  InboundCap = 1
  MaxStreams = 1
  MaxConns = 1
  MaxEvents = 1
  Nobody = Nobody
INVARIANTS
  TypeOK
  CleanEndIsWhole
  RequestBeforeFin
  SlotsReturned
  Answered
PROPERTIES
  ImplementsRelay
CHECK_DEADLOCK FALSE
