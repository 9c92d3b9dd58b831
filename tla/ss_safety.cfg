CONSTANTS
  NumConnections = 2
  Size = 3
  BufferSize = 2
  IntMax = 6
  Supported = TRUE
  DivideLoop = TRUE
  TornCheck = TRUE
  SlowSetup = TRUE
  CrashPoints <- OutsideSave
  MaxFaults = 2
  MaxRuns = 2
SPECIFICATION Spec
INVARIANTS TypeOK NothingSkipped StateFileHonest CountMatches ReadyMeansWhole BytesInPlace HeaderReadSparesData
CHECK_DEADLOCK FALSE
