CONSTANTS
  Slices = {c1, c2}
  Threads = {t1, t2}
  MaxCrashes = 3
  BufferSize = 5
  Frames <- MCFrames
SPECIFICATION MCSpec
INVARIANTS
  DebuggerFindsForked
  LoggedAsSaid
  StalemateExplained
PROPERTIES
  CrashedDies
  GdbEnds
CHECK_DEADLOCK FALSE
