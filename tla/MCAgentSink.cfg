SPECIFICATION FairSpec
CONSTANTS
  ProbeTimeout = 6
  ProbeBackoff = 3
  Retries = 2
  MaxPayloads = 2
INVARIANTS
  PublishedInOrder
  DuplicatesBounded
  ProbesTwice
PROPERTIES
  LoopsEnd
