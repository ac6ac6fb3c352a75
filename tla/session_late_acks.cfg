CONSTANTS
  pa = pa
  pb = pb
  Peer <- MCPeer
  NumDev <- SecondSession
  MaxFlight = 1
  MaxCrash <- NoCrash
SPECIFICATION Spec
INVARIANTS
  ThreeUnackedMeansBroken
