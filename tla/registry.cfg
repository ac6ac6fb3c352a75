CONSTANTS
  ma = ma
  mb = mb
  Master <- MCMaster
  Neighbour <- MCNeighbour
  NumRun = 2
  Vlan <- TwoVlan
  Home <- TwoHome
  NodeId <- TwoId
  Byte = {0, 1}
  GossipLimit = 2
  MaxBucket = 3
  MaxTry <- OneRetry
SPECIFICATION Spec
INVARIANTS
  TypeOK
  NoDuplicateIds
  AckedIsFindable
  StuckOnlyWhenFull
PROPERTIES
  RegistrationSpreads
CHECK_DEADLOCK FALSE
