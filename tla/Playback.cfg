SPECIFICATION Spec
CONSTANTS
  c1 = c1
  c2 = c2
  p1 = p1
  f1 = f1
  f2 = f2
  m1 = m1
  None = None
  Calls = {c1, c2}
  Players = {p1}
  Files = {f1, f2}
  Mics = {m1}
  FileFrames = 1
  MicQueue = 1
  MaxOps = 3
INVARIANTS
  FinishedOnce
  OneFrameAfterPause
PROPERTY SourcesAreReleased
CHECK_DEADLOCK FALSE
