CONSTANTS
  Threads = {t1, t2}
  Requests <- WithMap
  Policy <- ByHeader
  EntryLimits = {0, 2}
  Durations = {0}
  UseCounts <- Uses
  MaxTime = 1
SYMMETRY Symm
SPECIFICATION Spec
INVARIANTS HitIsServersVerdict HitWithinLease EntriesReachable
