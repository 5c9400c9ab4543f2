SPECIFICATION Spec
CONSTANTS
  lotA = lotA
  lotB = lotB
  None = None
  Lots <- MCLots
  Modules <- MCModules
  NumSlots = 2
  MaxStarts = 2
  MaxTasks = 2
  MaxReloads = 1
  MaxEnds = 1
INVARIANTS TypeOK
PROPERTIES OwedIsRerun SavedResultNotRerun
CHECK_DEADLOCK FALSE
