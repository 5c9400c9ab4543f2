SPECIFICATION Spec
CONSTANTS
  NumModules = 2
  NumBuffers = 3
  NumThreads = 1
  Window = 2
  UseGrabHold = TRUE
  FaiFails <- NoneFails
  Faults <- NoFaults
PROPERTIES
  HoldWaits
CHECK_DEADLOCK FALSE
