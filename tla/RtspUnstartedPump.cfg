SPECIFICATION Spec
CONSTANTS
  c1 = c1
  Conns = {c1}
  MaxConnections = 1
  MayStall = TRUE
  MayUdp = TRUE
  Python311 = FALSE
INVARIANT SubscriberHasPump
