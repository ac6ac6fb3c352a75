CONSTANTS
  ma = ma
  mb = mb
  Master <- MCMaster
  Neighbour <- MCNeighbour
  NumRun = 2
  Vlan <- RestartVlan
  Home <- RestartHome
  NodeId <- TwoId
  Byte = {0}
  GossipLimit = 3
  MaxBucket = 3
  MaxTry <- FourTries
SPECIFICATION Spec
INVARIANTS
  NewestEverywhere
CHECK_DEADLOCK FALSE
