SPECIFICATION FairSpec
CONSTANTS
  t1 = t1
  t2 = t2
  t3 = t3
  t4 = t4
  c1 = c1
  c2 = c2
  Txns = {x1}
  Tables = {t1, t2, t3, t4}
  Procs = {p1}
  Catalogs = {c1, c2}
  CatalogOf <- MixedCatalogs
  Atomic = {c1}
  NoKey = NoKey
  Outside = Outside
  Nonempty = {t1, t2, t3, t4}
  Maintained = {t1, t3}
  MaxWrites = 2
  MaxOutside = 1
  MaxAttempts = 2
  MaxFaults = 2
  Faults = {"crash", "lost_reply", "user_drop", "cancel", "session_end", "forget"}
  Concurrent = FALSE
INVARIANTS
  EndIsExclusive
  CommittedIsVisible
  ReadsOwnWrites
  BranchContinuesBase
  HoldsPublishable
PROPERTIES
  EndsOnce
  MainGrows
  PublishesOnce
  RequestsEnd
  StagedWritesGo
