SPECIFICATION FairSpec
CONSTANTS
  Urls = {"a", "b"}
  Seeds = {"b"}
  Beating = {"a"}
  Configured = {"b"}
  Caps = {1, 2}
  Threshold = 2
  Builds <- RunBuilds
  MaxHellos = 2
  MaxFaults = 1
  Fragments = {"f"}
  Batches = 2
  MaxRetries = 1
INVARIANTS
  CleanPrefix
  LoadIsLive
  NoTrackerLeak
  FailuresReported
PROPERTIES
  PoolConverges
  FragmentsEnd
