SPECIFICATION Spec
CONSTANTS
  NumScans = 2
  NumBatches = 2
  NumThreads = 2
  SlowCopies = FALSE
  Packed = FALSE
  Stops = FALSE
  Faults <- AllFaults
INVARIANTS TypeOK InspectsCopied PostedOnce InspectedWasGrabbed LeftOutIsMarked
PROPERTIES PromiseSpec
CHECK_DEADLOCK FALSE
