SPECIFICATION FairSpec
CONSTANTS
  NumScans = 2
  NumBatches = 2
  NumThreads = 1
  SlowCopies = TRUE
  Packed = FALSE
  Stops = TRUE
  Faults <- GrabFaults
INVARIANTS LeftOutIsMarked
PROPERTIES QueuedIsPosted
CHECK_DEADLOCK FALSE
