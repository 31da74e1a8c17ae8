SPECIFICATION FairSpec
CONSTANTS
  c1 = c1
  t1 = t1
  t2 = t2
  Conns = {c1}
  MaxConnections = 1
  MayStall = FALSE
  MayUdp = FALSE
  Python311 = TRUE
  Tasks = {t1, t2}
  NoTask = NoTask
  Frames <- Keyframes
  QMax = 1
  AlwaysOn = FALSE
  Linger = 0
  DescribeTimeout = 1
  BackoffStart = 1
  BackoffCap = 1
  StableReset = 0
  DriverMayCrash = FALSE
  OtherStreams = FALSE
INVARIANT TypeOK
INVARIANT OneHolder
PROPERTY DeviceReleased
PROPERTY ShutdownEnds
PROPERTY ConnectionsEnd
PROPERTY BridgeKeepsSlot
