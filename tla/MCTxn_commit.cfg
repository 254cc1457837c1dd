SPECIFICATION Spec
CONSTANTS
  t1 = t1
  t2 = t2
  t3 = t3
  t4 = t4
  c1 = c1
  c2 = c2
  Txns = {x1, x2}
  Tables = {t1, t2}
  Procs = {p1, p2}
  Catalogs = {c1}
  CatalogOf <- OneCatalog
  Atomic = {c1}
  NoKey = NoKey
  Outside = Outside
  Nonempty = {t1}
  Maintained = {}
  MaxWrites = 2
  MaxOutside = 0
  MaxAttempts = 2
  MaxFaults = 0
  Faults = {}
  Concurrent = FALSE
SYMMETRY TxnSymmetry
INVARIANTS
  RolledBackIsInvisible
PROPERTIES
  ImplementsAtomicCommit
