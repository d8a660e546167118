CONSTANTS
  Dict <- MCDict
  BaseSize = 1
  Reports <- MCReports
  BatchLimits = {0, 3}
  MaxReports = 4
SPECIFICATION Spec
CHECK_DEADLOCK FALSE
INVARIANTS TypeOK NothingLostInBatch BatchIsTimed BatchBelowLimit
PROPERTIES LogSpec FallsBackToBase EveryReportSent
