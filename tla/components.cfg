SPECIFICATION Spec
CONSTANTS
  ServerArgs <- Servers
  ClientModes <- AllModes
  MapClasses <- AllMaps
  FilterClasses <- AllFilters
  StreamOptions <- Options
  Pieces <- Five
  ServerFiles <- ServerLists
  HostAdapters <- Adapters
  Fd <- ThreeSockets
  MaxDrop = 2
  ConfFiles <- Files
INVARIANTS
  TypeOK
  BehaviorRight
  FilteringNeverTooOpen
  ExactWhenPrompt
  NatVerdictSound
  ChunkingIrrelevant
  AnswerReadsBack
  OnlyAuthorized
  ServersAllOrNone
  PollConsistent
  ConfExact
  DfaFollowsMatrix
PROPERTIES
  DiscoveryEnds
  EveryoneGetsATurn
CHECK_DEADLOCK FALSE
