CONSTANTS
  Blocks = 4
  Capacity = 3
  Faults = {"recv", "disk", "control"}
SPECIFICATION FairSpec
INVARIANTS TypeOK ReceivedIsKept FeedbackGoesOn EndsWhole
PROPERTIES KeepsOrder HeldSlotIsStable Ends
CHECK_DEADLOCK FALSE
