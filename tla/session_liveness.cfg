CONSTANTS
  pa = pa
  pb = pb
  Peer <- MCPeer
  NumDev <- Returning
  MaxFlight = 1
  MaxCrash <- NoCrash
SPECIFICATION FairSpec
PROPERTIES
  SessionEstablished
