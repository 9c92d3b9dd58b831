CONSTANTS
  NumConnections = 2
  Size = 4
  BufferSize = 2
  IntMax = 6
  Supported = TRUE
  DivideLoop = TRUE
  TornCheck = FALSE
  SlowSetup = FALSE
  CrashPoints <- OutsideSave
  MaxFaults = 1
  MaxRuns = 2
SPECIFICATION FairSpec
PROPERTIES Finishes
CHECK_DEADLOCK FALSE
