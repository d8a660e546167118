CONSTANTS
  Threads = {t1, t2}
  Requests <- AllRequests
  Policy <- BySource
  EntryLimits = {2}
  Durations = {2}
  UseCounts <- Uses
  MaxTime = 0
SPECIFICATION Spec
INVARIANT HitIsServersVerdict
