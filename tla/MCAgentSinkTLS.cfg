SPECIFICATION Spec
CONSTANTS
  ProbeTimeout = 6
  ProbeBackoff = 3
  Retries = 2
  MaxPayloads = 1
INVARIANTS
  PublishesOverTLS
