SPECIFICATION Spec
CONSTANTS
  NumScans = 1
  NumBatches = 2
  NumThreads = 1
  SlowCopies = TRUE
  Packed = FALSE
  Stops = FALSE
  Faults <- NoFaults
INVARIANTS InspectsCopied
CHECK_DEADLOCK FALSE
