SPECIFICATION FairSpec
CONSTANTS
  m1 = m1
  m2 = m2
  c1 = c1
  c2 = c2
  p1 = p1
  p2 = p2
  w1 = w1
  w2 = w2
  Messages = {m1, m2}
  Conns = {c1, c2}
  Room <- MCRoom
  PoolWorkers = {p1, p2}
  FanoutWorkers = {w1, w2}
  BufferSize = 1
  ConnBufferSize = 1
  MayShutdown = TRUE
  MayFail = TRUE
  MayRace = TRUE
INVARIANTS
  MessageConservation
  RegistryConsistent
  NoUnrecoveredPanic
PROPERTIES
  ImplementsDelivery
  AckedIsSettled
  ShutdownEnds
CHECK_DEADLOCK FALSE
