CONSTANTS
  Size = 5
  MaxSize = 2
  IntMax = 7
  FinTries = 3
  DiskFails = FALSE
SPECIFICATION FairSpec
INVARIANTS TypeOK InOrder ConfirmedIsStored FinMeansWhole
PROPERTIES KeepsPromise Ends
CHECK_DEADLOCK FALSE
