SPECIFICATION KubeletSpec
CONSTANTS
  Nodes = {"node"}
  Pods = {"pod"}
  Names <- MCNames
  Physical <- MCPhysical
  Metrics <- MCMetrics
  EntityStats <- MCStats
  Populations <- MCPopulations
  RouteFiles <- MCRouteFiles
  VacuumInterval = 2
  NoIface = NoIface
  StoreKeys <- MCStoreKeys
  Values <- MCValues
  TTL = 2
  Interval = 3
  NoEntry = NoEntry
  PodNames = {"p", "q"}
  Gone = Gone
  Shapes <- SomeShapes
  NodeConditions <- SomeConditions
INVARIANTS
  RatesOfOneInterface
  BaselineKept
  BaselineNotStale
  JoinedOnListing
  NodeTotalsOfListing
  ConditionsAgree
PROPERTIES
  SettlesOnRoute
