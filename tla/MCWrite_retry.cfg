SPECIFICATION Spec
CONSTANTS
  s1 = s1
  s2 = s2
  s3 = s3
  Stmts = {s1, s2, s3}
  Mixes <- Compatible
  Seed = Seed
  MaxAttempts = 3
  MaxInner = 1
  Faults = {"load", "auth", "unknown"}
  MaxFaults = 2
SYMMETRY WriteSymmetry
INVARIANTS
  FilesExist
  AnswersAreTrue
  OneRowPerKey
  ChangesSurvive
