SPECIFICATION Spec
CONSTANTS
  c1 = c1
  c2 = c2
  t1 = t1
  t2 = t2
  Clients = {c1, c2}
  Tasks = {t1, t2}
  NoTask = NoTask
  QMax = 1
  AlwaysOn = FALSE
  Linger = 1
  DescribeTimeout = 1
  BackoffStart = 1
  BackoffCap = 2
  StableReset = 1
  DriverMayCrash = FALSE
  Quiesced = TRUE
  Frames <- MCFrames
SYMMETRY Symmetry
INVARIANT Decodable
