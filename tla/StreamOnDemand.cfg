SPECIFICATION Spec
CONSTANTS
  c1 = c1
  c2 = c2
  t1 = t1
  t2 = t2
  Clients = {c1, c2}
  Tasks = {t1, t2}
  NoTask = NoTask
  QMax = 1
  AlwaysOn = FALSE
  Linger = 1
  DescribeTimeout = 1
  BackoffStart = 1
  BackoffCap = 4
  StableReset = 1
  DriverMayCrash = TRUE
  Quiesced = TRUE
  Frames <- MCFrames
SYMMETRY Symmetry
INVARIANT TypeOK
INVARIANT OneConnection
INVARIANT ReadyBacked
INVARIANT NotIdledWhileDescribing
INVARIANT NoGapWithinConnection
PROPERTY ViewerKeepsStream
PROPERTY ImplementsDeviceSlot
