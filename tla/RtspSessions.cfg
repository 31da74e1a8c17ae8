SPECIFICATION Spec
CONSTANTS
  c1 = c1
  c2 = c2
  Conns = {c1, c2}
  MaxConnections = 1
  MayStall = TRUE
  MayUdp = TRUE
  Python311 = TRUE
SYMMETRY Symmetry
INVARIANT TypeOK
INVARIANT AtMostMax
INVARIANT SubscriberHasPump
INVARIANT SocketsOwned
INVARIANT PumpHasTransport
INVARIANT NoZombie
INVARIANT LockHeld
