CONSTANTS
  NumConnections = 2
  Size = 4
  BufferSize = 2
  IntMax = 6
  Supported = TRUE
  DivideLoop = FALSE
  TornCheck = FALSE
  SlowSetup = FALSE
  CrashPoints <- OutsideSave
  MaxFaults = 0
  MaxRuns = 1
SPECIFICATION FairSpec
PROPERTIES Finishes
CHECK_DEADLOCK FALSE
