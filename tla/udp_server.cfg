SPECIFICATION Spec
CONSTANTS
  Roles <- TwoRoles
  Source <- OneSource
  Self = 2
  QueueMax = 1
  TableSize = 1
  Times <- SomeTimes
  MaxFailures = 2
  MIN_COUNT_FOR_CONSIDERATION = 3
  RESET_INTERVAL_SECONDS = 1
  PENALTY_TIME_SECONDS = 1
  CountCap = 4
INVARIANTS TypeOK LimiterSound RefusedOnlyFlooders
PROPERTIES NoSocketStarves StopReturns
