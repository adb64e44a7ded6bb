SPECIFICATION FairStartUp
CONSTANTS
  Port = "unset"
  Scheme = "unset"
  InitTimeout = 4
  InitBackoff = 3
  ProbeMax = 1
  ProviderIDs <- SomeProviderIDs
  CloudTimeout = 3
  QueryMax = 2
  QueryBackoff = 1
  Configs <- SomeConfigs
INVARIANTS
  InTimeIsFound
  GivesUpInTime
  TriesEveryWay
  LoopIsReady
  CloudIsBestEffort
PROPERTIES
  EventuallyStarts
