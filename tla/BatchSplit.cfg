SPECIFICATION Spec
CONSTANTS
  MaxImages = 4
  MaxCount = 2
  Places <- TaughtPlaces
  MoveOffset = 1
  Parked <- ParkedAway
INVARIANTS TypeOK BatchesTile WalksMeet
PROPERTIES GrabbedInPlace NoJumpInBatch EndsUnlessEmptySequence
CHECK_DEADLOCK FALSE
