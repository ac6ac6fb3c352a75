CONSTANTS
  pa = pa
  pb = pb
  Peer <- MCPeer
  NumDev <- OneSession
  MaxFlight = 1
  MaxCrash <- CrashOnce
SPECIFICATION Spec
SYMMETRY Symmetry
INVARIANTS
  TypeOK
  TimerDiscipline
  TunFollowsSession
  MutualKnowledge
PROPERTIES
  BreakOnlyAfterThree
