CONSTANTS
  NumConnections = 2
  Size = 2
  BufferSize = 2
  IntMax = 5
  Supported = FALSE
  DivideLoop = TRUE
  TornCheck = FALSE
  SlowSetup = FALSE
  CrashPoints <- OutsideSave
  MaxFaults = 1
  MaxRuns = 1
SPECIFICATION Spec
INVARIANTS BytesInPlace
CHECK_DEADLOCK FALSE
