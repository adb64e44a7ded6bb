SPECIFICATION KSMSpec
CONSTANTS
  Hosts <- MCHosts
  Addresses <- MCAddresses
  Ports <- MCPorts
  HostPort <- MCHostPort
  SliceSets <- MCSliceSets
  Configs <- MCConfigs
  Timeout = 4
  BackoffDelay = 2
  NoURL = NoURL
  NoPort = NoPort
  f1 = f1
  f2 = f2
  f3 = f3
  q1 = q1
  q2 = q2
  q3 = q3
  Families = {f1, f2, f3}
  Bodies <- MCBodies
  NoName = NoName
  Queries = {q1, q2, q3}
  MetricName <- MCMetricName
  Responses <- SomeResponses
  Listings <- SomeListings
  Allowances <- SomeAllowances
INVARIANTS
  CompleteOnSuccess
  ErrorsAreGenuine
  ReportedOnce
  NoEndpointMissed
  EveryObjectAccounted
  QuotaSplitByResource
  LabelsOfNearest
  SelectorsReported
PROPERTIES
  BothEnd
  RunReturns
  KeepsReporting
