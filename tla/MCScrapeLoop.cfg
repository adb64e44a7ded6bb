SPECIFICATION FairSpec
CONSTANTS
  n1 = n1
  v1 = v1
  v2 = v2
  v3 = v3
  Absent = Absent
  NoNamespace = NoNamespace
  Namespaces = {n1}
  Versions = {v1, v2, v3}
  Filters = {"ksm", "kubelet"}
  HasMatchLabels = FALSE
  MatchLabels <- NoLabels
  MatchExpressions <- TwoExpressions
  Configs <- SomeConfigs
  HasSelector = TRUE
  Entities <- SomeEntities
  ScraperMaxReruns = 0
  VacuumInterval = 2
  CountMod = 3
  Interval = 3
  MaxTotal = 7
INVARIANTS
  PayloadOfOneCycle
  OneVerdictPerPayload
  VerdictsAreFresh
  InterfaceEntryExpires
  ScrapesStayOnGrid
PROPERTIES
  ImplementsReports
  VerdictsCatchUp
  FailuresEventuallyFatal
