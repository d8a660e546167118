CONSTANTS
  WindowSize = 2
  SlotDuration = 1
  InitQueueSize = 2
  MinPrefetch = 2
  CloseWait = 1
  MaxExpiration = 2
  CheckAmounts = {1, 2}
  Expirations = {1}
  Skew = 1
  MaxTime = 3
  MaxSlots = 3
  MaxPending = 2
  MaxWindow = 4
SPECIFICATION Spec
CHECK_DEADLOCK FALSE
INVARIANTS TokensConserved SlotIdsDistinct
PROPERTIES OpenNeverRejectsOne TakesExactly RejectsOnlyWhenShortOrFull
