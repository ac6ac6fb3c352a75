CONSTANTS
  pa = pa
  pb = pb
  Peer <- MCPeer
  NumDev <- OneSided
  MaxFlight = 1
  MaxCrash <- CrashOfB
SPECIFICATION FairSpec
PROPERTIES
  DeadPeerDetected
