CONSTANTS
  QuotaNames = {"rps", "total"}
  QuotaMatches <- PerSource
  Elems = {1, 2, 3, 4}
  IdleExpiry = FALSE
  Calls = {c1, c2}
  Requests <- OneSource
  QuotaLists <- BothQuotas
  EntryLimits = {1}
  FailOpens = {TRUE}
  MaxChecks = 3
SYMMETRY Symm
SPECIFICATION Spec
CHECK_DEADLOCK FALSE
INVARIANTS AnswerFindsElem
