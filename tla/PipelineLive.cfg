SPECIFICATION FairSpec
CONSTANTS
  NumModules = 2
  NumBuffers = 3
  NumThreads = 1
  Window = 2
  UseGrabHold = TRUE
  FaiFails <- NoneFails
  Faults <- GrabFaults
PROPERTIES
  ReportedUnlessStranded
  ThreadsEnd
CHECK_DEADLOCK FALSE
