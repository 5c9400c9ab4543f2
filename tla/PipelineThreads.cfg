SPECIFICATION Spec
CONSTANTS
  NumModules = 2
  NumBuffers = 2
  NumThreads = 2
  Window = 2
  UseGrabHold = FALSE
  FaiFails <- SecondFails
  Faults <- ThreadFaults
INVARIANTS
  TypeOK
  ReportedInScanOrder
  NoResultRace
  PermitsBalanced
PROPERTIES
  NoSecondSaver
CHECK_DEADLOCK FALSE
