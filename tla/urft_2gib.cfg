CONSTANTS
  Size = 5
  MaxSize = 2
  IntMax = 3
  FinTries = 2
  DiskFails = FALSE
SPECIFICATION FairSpec
PROPERTIES Ends
CHECK_DEADLOCK FALSE
