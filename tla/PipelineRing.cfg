SPECIFICATION Spec
CONSTANTS
  NumModules = 3
  NumBuffers = 3
  NumThreads = 1
  Window = 1
  UseGrabHold = FALSE
  FaiFails <- SecondFails
  Faults <- AllFaults
INVARIANTS
  NoOverrun
  FailedGrabNeverPasses
  SecondReportIsAlarm
PROPERTIES
  LineSpec
CHECK_DEADLOCK FALSE
