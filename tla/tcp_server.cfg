SPECIFICATION Spec
CONSTANTS
  ca = ca
  cb = cb
  Client <- TwoClients
  Roles <- TwoRoles
  MaxConnections = 1
  PoolGrow = 2
  Script <- Mixed
  Window = 1
  RateLimited = TRUE
INVARIANTS TypeOK ConnectionsTracked ReaderFollowsStream NothingLeftOpen
PROPERTIES ImplementsTracker RequestsAnswered StopReturns
