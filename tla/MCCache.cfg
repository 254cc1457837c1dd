SPECIFICATION Spec
CONSTANTS
  Tokens = {u1}
  Tables = {t1}
  Loads = {p1, p2}
  Writers = {w1}
  MaxKeys = 1
  MaxTime = 2
  MaxStamps = 2
  Overlap = FALSE
INVARIANTS
  NoLastingStaleness
SYMMETRY CacheSymmetry
CHECK_DEADLOCK FALSE
