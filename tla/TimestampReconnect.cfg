SPECIFICATION Spec
CONSTANTS
  MsMod = 12
  RtpMod = 16
  MaxDelta = 3
  TypicalMs = 2
  Rate = 2
  MaxElapsed = 5
  Reconnects = 1
PROPERTY TimelineForward
