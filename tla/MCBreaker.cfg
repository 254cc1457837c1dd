SPECIFICATION FairSpec
CONSTANTS
  Callers <- Three
  Threshold = 2
  Recovery = 1
  Lease = 1
  MaxTurns = 2
  MaxDrops = 1
INVARIANTS
  NoStampede
PROPERTIES
  NeverLatched
  FollowsBackend
