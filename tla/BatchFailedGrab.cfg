SPECIFICATION Spec
CONSTANTS
  NumScans = 1
  NumBatches = 2
  NumThreads = 1
  SlowCopies = FALSE
  Packed = FALSE
  Stops = FALSE
  Faults <- RetryFaults
INVARIANTS PassedMeansInspected
CHECK_DEADLOCK FALSE
