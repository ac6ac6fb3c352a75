CONSTANTS
  pa = pa
  pb = pb
  Peer <- MCPeer
  NumDev <- Returning
  MaxFlight = 1
  MaxCrash <- CrashOnce
SPECIFICATION Spec
INVARIANTS
  CreditBound
PROPERTIES
  BreakOnlyAfterThree
