SPECIFICATION FairSpec
CONSTANTS
  Holders = {h1, h2}
  NoHolder = NoHolder
  NoHandle = NoHandle
  Paths = {1, 2, 3, 4, 5}
  TTL = 2
  MaxTime = 2
  MaxAttempts = 1
  MaxFaults = 1
  MaxCrashes = 1
  Fresh = FALSE
  Late = TRUE
INVARIANTS
  OneLiveRow
PROPERTIES
  ImplementsLeaseCell
  AbandonedIsStolen
