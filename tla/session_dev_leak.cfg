CONSTANTS
  pa = pa
  pb = pb
  Peer <- MCPeer
  NumDev <- OneSession
  MaxFlight = 1
  MaxCrash <- NoCrash
SPECIFICATION FairSpec
PROPERTIES
  BrokenSessionReturns
