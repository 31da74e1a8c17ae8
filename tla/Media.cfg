SPECIFICATION MediaSpec
CONSTANTS
  MsMod = 6
  RtpMod = 13
  MaxDelta = 3
  TypicalMs = 2
  Rate = 2
  MaxElapsed = 4
  Reconnects = 1
  Mtu = 4
  SeqSpace = 7
  AccessUnits <- MCUnits
INVARIANT MediaTypeOK
INVARIANT NalsArrive
INVARIANT UnitFramed
INVARIANT NoGapSeen
PROPERTY MapperForward
PROPERTY ClocklessAdvance
