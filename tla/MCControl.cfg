CONSTANTS
  Configs <- HttpConfigs
  CacheSize = 2
  Versions <- ConfigVersions
  Handlers = {h1, h2}
  Routes <- SomeRoutes
  CheckData <- Requests
  Statuses = {"OK", "PERMISSION_DENIED"}
  ReportInfos <- Responses
  MaxContexts = 4
  MatchedPatterns <- Matched
  TcpConfigs <- SomeTcpConfigs
  TcpCheckData <- Connections
  TcpStatuses = {"OK", "RESOURCE_EXHAUSTED"}
  MaxBytes = 2
SYMMETRY Symm
SPECIFICATION Spec
INVARIANTS QuotasMatchSent ObservedWins VerdictReported OneContextPerService DeltasAddUp
PROPERTIES HandlerGetsItsConfig
CHECK_DEADLOCK FALSE
