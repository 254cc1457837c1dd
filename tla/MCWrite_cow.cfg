SPECIFICATION Spec
CONSTANTS
  s1 = s1
  s2 = s2
  s3 = s3
  Stmts = {s1, s2}
  Mixes <- TwoRewrites
  Seed = Seed
  MaxAttempts = 2
  MaxInner = 1
  Faults = {}
  MaxFaults = 0
SYMMETRY WriteSymmetry
INVARIANTS
  OneRowPerKey
