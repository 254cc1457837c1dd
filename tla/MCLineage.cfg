SPECIFICATION FairSpec
CONSTANTS
  MaxEvents = 5
  Size <- Sizes
  MaxBytes = 2
  QueueMax = 1
  Poison = {3}
  MaxFaults = 1
INVARIANTS
  Accounted
  WithinCap
  ReplayInOrder
PROPERTIES
  SpoolDrains
CHECK_DEADLOCK FALSE
