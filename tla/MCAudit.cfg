SPECIFICATION FairSpec
CONSTANTS
  MaxRecords = 4
  MaxFile = 1
  MaxFiles = 1
  SpoolCap = 2
  CompactAt = 1
  BatchMax = 2
  StartAts = {"beginning", "now"}
  MaxFaults = 2
INVARIANTS
  ChainVerifies
  NothingLost
PROPERTIES
  SpoolDrains
CHECK_DEADLOCK FALSE
