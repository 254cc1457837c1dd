SPECIFICATION FairSpec
CONSTANTS
  s1 = s1
  s2 = s2
  s3 = s3
  Stmts = {s1, s2}
  Mixes <- NothingRemoved
  Seed = Seed
  MaxAttempts = 3
  MaxInner = 1
  Faults = {"load", "auth", "unknown", "late", "transport", "cancel"}
  MaxFaults = 2
INVARIANTS
  AppliedOnce
PROPERTIES
  StatementsEnd
