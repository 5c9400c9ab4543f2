SPECIFICATION FairSpec
CONSTANTS
  NumModules = 2
  NumBuffers = 3
  NumThreads = 1
  Window = 2
  UseGrabHold = FALSE
  FaiFails <- NoneFails
  Faults <- NoFaults
PROPERTIES
  QueuedIsReported
CHECK_DEADLOCK FALSE
