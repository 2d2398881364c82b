SPECIFICATION Spec
CONSTANTS
  SeqSpace = 4
  RocMod = 4
  TsMod = 12
  Noise = Noise
  FrameLen = 2
  MaxGap = 4
  MtuPayload = 3
  MaxReassembly = 8
  Copies = 2
  TimestampStep = 1
  Kinds <- MCKinds
  Delay = 2
  MaxPackets = 8
  MaxExtras = 1
  Lens <- MCLens
  Bodies <- MCBodies
  MaxReactions = 3
INVARIANTS
  DecryptsInStep
  ReportIsTrue
  PlaysInOrder
  NeverAhead
  AccessUnitWhole
  ReactionsOnce
PROPERTY CloseReturns
CHECK_DEADLOCK FALSE
