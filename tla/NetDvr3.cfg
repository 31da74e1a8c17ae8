SPECIFICATION Spec
CONSTANTS
  Lead = 2
  LenMod = 4
  Chunk = 4
  MaxPreamble = 6
  MaxFrame = 14
  Preambles = {2}
  Leads <- MCLeads
  Bodies <- MCBodies
  Garbage <- MCGarbage
  MaxSegments = 4
CHECK_DEADLOCK FALSE
INVARIANT TypeOK
INVARIANT NoSplice
INVARIANT SoundKept
INVARIANT HeaderUnderMagic
INVARIANT BufferBounded
PROPERTY YieldedInOrder
PROPERTY ImplementsFrameSource
