CONSTANTS
  Blocks = 3
  MaxRetransmission = 2
  MaxTable = 2
  OnWire = 1
  Window = 1
  MaxRequests = 2
SPECIFICATION FairSpec
INVARIANTS TypeOK GaplessIsWhole MissingIsRequested
PROPERTIES KeepsPromise Ends
CHECK_DEADLOCK FALSE
