SPECIFICATION FairSpec
CONSTANTS
  u1 = u1
  u2 = u2
  kubeSystem = kubeSystem
  labelA = labelA
  labelB = labelB
  NoNamespace = NoNamespace
  BadSelector = BadSelector
  URLs = {u1, u2}
  PodNamespaces = {kubeSystem}
  Selectors = {labelA, labelB}
  Components <- AllComponents
  Static <- MCStatic
  Autodiscover <- MCAutodiscover
INVARIANTS
  NothingReportedOnError
  FirstUsableEndpoint
  ErrorsAreConfigured

  
