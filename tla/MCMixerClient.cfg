CONSTANTS
  QuotaNames = {"rps", "total"}
  QuotaMatches <- PerSource
  Elems = {1, 2, 3, 4}
  IdleExpiry = TRUE
  Calls = {c1, c2}
  Requests <- OneSource
  QuotaLists <- BothQuotas
  EntryLimits = {0, 1}
  FailOpens = {FALSE}
  MaxChecks = 4
SYMMETRY Symm
SPECIFICATION Spec
CHECK_DEADLOCK FALSE
INVARIANTS TypeOK ElemsOwnedOnce  
PROPERTIES DictionarySettles DeniedTakesNothing
