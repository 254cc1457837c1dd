SPECIFICATION Spec
CONSTANTS
  Holders = {h1, h2}
  NoHolder = NoHolder
  NoHandle = NoHandle
  Paths = {1, 2, 3, 4, 5, 6}
  TTL = 2
  MaxTime = 5
  MaxAttempts = 2
  MaxFaults = 2
  MaxCrashes = 1
  Fresh = FALSE
  Late = FALSE
INVARIANTS
  Exclusion
PROPERTIES
  ReleaseSparesOthers
SYMMETRY LeaseSymmetry
