--------------------------- MODULE SimpleLRUCache ---------------------------
(***************************************************************************)
(* utils/simple_lru_cache_inl.h, the cache under CheckCache and            *)
(* QuotaCache: values are pinned by Lookup and unpinned by Release, an     *)
(* entry removed while pinned waits in defer_ for its last Release, and    *)
(* unpinned entries are evicted in LRU (or age) order when the cache is    *)
(* overfull and when they have been idle for too long.                     *)
(*                                                                         *)
(* A value stands for its Elem.  The cache is one record, so that the      *)
(* operations can call each other as they do in the code; lru_list is the  *)
(* circular list from head_.prev, the next to evict, to head_.next.        *)
(***************************************************************************)
EXTENDS Integers, SequencesExt

CONSTANTS
  Keys, Values,
  NoKey,          \* the key of a value that is not in the cache
  UnitSizes,      \* sizes of entries
  MaxSizes,       \* arguments of SetMaxSize and of the constructor
  IdleTimes,      \* arguments of SetMaxIdleSeconds / SetAgeBasedEviction, < 0: never
  UpdateOrder,    \* values of SimpleLRUCacheOptions::update_eviction_order
  MaxTime, MaxPins   \* bounds: the clock, and pins a value may have

ASSUME LRUAssumption ==
  /\ UnitSizes \subseteq Nat /\ MaxSizes \subseteq Nat
  /\ IdleTimes \subseteq Int /\ UpdateOrder \subseteq BOOLEAN
  /\ {MaxTime, MaxPins} \subseteq Nat /\ IsFiniteSet(Values)

VARIABLES
  cache,   \* elem, lru_list, units (units_), pinned (pinned_units_)
  lru,     \* lru_: LRU mode, not age-based
  max,     \* max_units_
  idle,    \* max_idle_
  now,     \* SimpleCycleTimer::Now()
  held     \* history: pins the callers hold, by value and option

vars == <<cache, lru, max, idle, now, held>>

NoElem == [at |-> "none", key |-> NoKey, pin |-> 0, units |-> 0, last_use |-> 0]

Init ==
  /\ cache = [elem |-> [v \in Values |-> NoElem], lru_list |-> <<>>,
              units |-> 0, pinned |-> 0]
  /\ lru = TRUE /\ max \in MaxSizes /\ idle = -1
  /\ now = 0
  /\ held = [v \in Values |-> [o \in UpdateOrder |-> 0]]

-----------------------------------------------------------------------------
(* The parts operations are made of; each maps the cache to the cache *)

InTable(c, k) == {v \in Values : c.elem[v].at = "table" /\ c.elem[v].key = k}

Unlink(c, v) == [c EXCEPT !.lru_list = RemoveFirst(@, v)]
\* Mutant: linked where the next entry to evict is.
LinkAtOldEnd(c, v) == [c EXCEPT !.lru_list = <<v>> \o @]

Link(c, v) == [c EXCEPT !.lru_list = Append(@, v)]
Overfull(c, m) == c.units > m

\* Mutant: units_ is not reduced.
DiscardKeepsUnits(c, v) == [c EXCEPT !.elem[v] = NoElem]

Discard(c, v) == [c EXCEPT !.units = @ - c.elem[v].units, !.elem[v] = NoElem]

\* Mutant: a pinned entry is discarded as well.
RemoveElemPinned(c, v) == Discard(Unlink(c, v), v)
\* Remove(Elem*): a pinned entry goes to the deferred table.
RemoveElem(c, v) ==
  LET u == Unlink(c, v)
  IN IF u.elem[v].pin > 0
     THEN [u EXCEPT !.elem[v].at = "defer", !.pinned = @ - u.elem[v].units]
     ELSE Discard(u, v)

\* Remove(const Key&).
RemoveKey(c, k) ==
  IF InTable(c, k) = {} THEN c ELSE RemoveElem(c, CHOOSE v \in InTable(c, k) : TRUE)

\* Mutant: evicts from the recently used end.
GarbageCollectMru(c, m) ==
  FoldLeft(LAMBDA d, v : IF Overfull(d, m) /\ d.elem[v].pin = 0
                         THEN Discard(Unlink(d, v), v) ELSE d, c, Reverse(c.lru_list))
GarbageCollect(c, m) ==
  FoldLeft(LAMBDA d, v : IF Overfull(d, m) /\ d.elem[v].pin = 0
                         THEN Discard(Unlink(d, v), v) ELSE d, c, c.lru_list)

\* DiscardIdle: from the old end up to the first entry used at the threshold or
\* later, whatever its pins.
DiscardIdle(c, maxIdle) ==
  LET old(v) == c.elem[v].last_use < now - maxIdle
      young == {i \in 1..Len(c.lru_list) : ~old(c.lru_list[i])}
      n == IF young = {} THEN Len(c.lru_list) ELSE Min(young) - 1
  IN IF maxIdle < 0 THEN c
     ELSE FoldLeft(LAMBDA d, v : RemoveKey(d, d.elem[v].key), c, SubSeq(c.lru_list, 1, n))

\* LookupWithOptions on an entry it has found.
Pin(c, v, o) ==
  LET u == IF c.elem[v].pin = 0 /\ lru /\ o THEN Unlink(c, v) ELSE c
  IN [u EXCEPT !.elem[v].pin = @ + 1,
               !.pinned = @ + (IF c.elem[v].pin = 0 THEN c.elem[v].units ELSE 0)]

\* Mutant: the last Release leaves the cache overfull.
UnpinKeeps(c, v, o) ==
  LET d == [c EXCEPT !.elem[v].pin = @ - 1,
                     !.elem[v].last_use = IF lru /\ o THEN now ELSE @]
      e == IF lru /\ o THEN Link(d, v) ELSE d
  IN IF d.elem[v].pin > 0 THEN d
     ELSE IF d.elem[v].at = "defer" THEN Discard(d, v)
     ELSE [e EXCEPT !.pinned = @ - e.elem[v].units]

\* ReleaseWithOptions: of a deferred entry, or of one in the table.
Unpin(c, v, o) ==
  LET deferred == c.elem[v].at = "defer"
      f == [c.elem[v] EXCEPT !.pin = @ - 1,
                             !.last_use = IF ~deferred /\ lru /\ o THEN now ELSE @]
      d == [c EXCEPT !.elem[v] = f]
      l == IF lru /\ o THEN Link(d, v) ELSE d
      free == [l EXCEPT !.pinned = @ - f.units]
  IN IF f.pin > 0 THEN d
     ELSE IF deferred THEN Discard(d, v)
     ELSE IF Overfull(free, max) THEN RemoveKey(free, f.key) ELSE free

InsertPinned(c, k, v, u) ==
  LET d == RemoveKey(c, k)
      e == [d EXCEPT !.elem[v] = [at |-> "table", key |-> k, pin |-> 1,
                                  units |-> u, last_use |-> now],
                     !.units = @ + u, !.pinned = @ + u]
  IN GarbageCollect(IF lru THEN e ELSE Link(e, v), max)

\* What RemoveAll and RemoveUnpinned leave.
WithoutAll(c) ==
  FoldSet(LAMBDA v, d : RemoveElem(d, v), c, {v \in Values : c.elem[v].at = "table"})
WithoutUnpinned(c) ==
  FoldLeft(LAMBDA d, v : IF d.elem[v].pin = 0 THEN RemoveKey(d, d.elem[v].key) ELSE d,
           c, c.lru_list)

-----------------------------------------------------------------------------
(* The operations *)

LookupWithOptions(k, o) ==
  LET c == DiscardIdle(cache, idle)
      found == InTable(c, k)
  IN IF found = {}
     THEN cache' = c /\ UNCHANGED <<lru, max, idle, now, held>>
     ELSE \E v \in found :
            /\ c.elem[v].pin < MaxPins
            /\ cache' = Pin(c, v, o)
            /\ held' = [held EXCEPT ![v][o] = @ + 1]
            /\ UNCHANGED <<lru, max, idle, now>>

\* The caller releases with the options it looked up with, as ScopedLookup does.
ReleaseWithOptions(v, o) ==
  /\ held[v][o] > 0
  /\ cache' = Unpin(cache, v, o)
  /\ held' = [held EXCEPT ![v][o] = @ - 1]
  /\ UNCHANGED <<lru, max, idle, now>>

\* The caller keeps the pin of InsertPinned, or releases it at once (Insert).
InsertNew(k, v, u, keep) ==
  /\ cache.elem[v].at = "none"
  /\ IF keep
     THEN cache' = InsertPinned(cache, k, v, u) /\ held' = [held EXCEPT ![v][TRUE] = 1]
     ELSE cache' = Unpin(InsertPinned(cache, k, v, u), v, TRUE) /\ UNCHANGED held
  /\ UNCHANGED <<lru, max, idle, now>>

\* UpdateSize of a given value, in the table or deferred.
UpdateSize(v, u) ==
  LET e == cache.elem[v]
  IN /\ e.at # "none"
     /\ cache' = GarbageCollect(
          [cache EXCEPT !.elem[v].units = u, !.units = @ - e.units + u,
                        !.pinned = @ + (IF e.at = "table" /\ e.pin > 0
                                        THEN u - e.units ELSE 0)], max)
     /\ UNCHANGED <<lru, max, idle, now, held>>

RemoveEntry(k) == cache' = RemoveKey(cache, k) /\ UNCHANGED <<lru, max, idle, now, held>>

RemoveAll == cache' = WithoutAll(cache) /\ UNCHANGED <<lru, max, idle, now, held>>

RemoveUnpinned == cache' = WithoutUnpinned(cache) /\ UNCHANGED <<lru, max, idle, now, held>>

\* Clear requires that nothing is pinned.
Clear ==
  /\ \A v \in Values : cache.elem[v].pin = 0
  /\ cache' = [elem |-> [v \in Values |-> NoElem], lru_list |-> <<>>,
               units |-> 0, pinned |-> 0]
  /\ UNCHANGED <<lru, max, idle, now, held>>

SetMaxSize(m) ==
  /\ max' = m
  /\ cache' = GarbageCollect(cache, m)
  /\ UNCHANGED <<lru, idle, now, held>>

\* SetMaxIdleSeconds (mode: LRU) and SetAgeBasedEviction.  Callers change the mode
\* of an empty cache only: entries are not moved to the other mode's list.  With a
\* time-out in the other mode the call is ignored (an assert in debug builds).
SetTimeout(s, mode) ==
  /\ mode # lru => \A v \in Values : cache.elem[v].at = "none"
  /\ IF s >= 0 /\ idle >= 0 /\ mode # lru
     THEN UNCHANGED <<cache, lru, idle>>
     ELSE /\ lru' = mode
          /\ idle' = IF s < 0 THEN -1 ELSE s
          /\ cache' = DiscardIdle(cache, idle')
  /\ UNCHANGED <<max, now, held>>

RemoveExpiredEntries ==
  /\ cache' = DiscardIdle(cache, idle)
  /\ UNCHANGED <<lru, max, idle, now, held>>

\* The clock (external).
Tick == now < MaxTime /\ now' = now + 1 /\ UNCHANGED <<cache, lru, max, idle, held>>

Next ==
  \/ \E k \in Keys :
       \/ RemoveEntry(k)
       \/ \E o \in UpdateOrder : LookupWithOptions(k, o)
       \/ \E v \in Values, u \in UnitSizes, keep \in BOOLEAN : InsertNew(k, v, u, keep)
  \/ \E v \in Values :
       \/ \E o \in UpdateOrder : ReleaseWithOptions(v, o)
       \/ \E u \in UnitSizes : UpdateSize(v, u)
  \/ RemoveAll \/ RemoveUnpinned \/ Clear \/ RemoveExpiredEntries \/ Tick
  \/ \E m \in MaxSizes : SetMaxSize(m)
  \/ \E s \in IdleTimes, mode \in BOOLEAN : SetTimeout(s, mode)

Spec == Init /\ [][Next]_vars

-----------------------------------------------------------------------------
(* Properties *)

Alive(v) == cache.elem[v].at # "none"
Pins(v) == SumFunction(held[v])
UnitsOf(S) == SumFunction([v \in S |-> cache.elem[v].units])

\* A value somebody looked up is not deleted before the last Release, through
\* eviction, replacement, idle time-out and RemoveAll; pin counts the callers
\* exactly, and what waits in defer_ waits for somebody ("Each Elem in defer_ has
\* a non-zero pin count", line 547).
PinnedValuesStay ==
  \A v \in Values :
    /\ Pins(v) > 0 => Alive(v)
    /\ cache.elem[v].pin = Pins(v)
    /\ cache.elem[v].at = "defer" => Pins(v) > 0

\* units_ is the size of every live entry, deferred ones included, and
\* pinned_units_ that of the pinned entries of the table (lines 534-536).
UnitsExact ==
  /\ cache.units = UnitsOf({v \in Values : Alive(v)})
  /\ cache.pinned = UnitsOf({v \in Values : cache.elem[v].at = "table" /\ Pins(v) > 0})

\* "LRU list contains elements in table_ that can be removed to free space" (line
\* 546): each unpinned entry of the table once and, in LRU mode, nothing else; in
\* age-based mode every entry of the table once.  It is sorted by last use, which
\* DiscardIdle's early stop relies on.  The table has one entry per key at most.
ListOK ==
  LET list == cache.lru_list
  IN /\ \A k \in Keys : Cardinality(InTable(cache, k)) <= 1
     /\ IsInjective(list)
     /\ ToSet(list) =
          {v \in Values : cache.elem[v].at = "table" /\ (lru => cache.elem[v].pin = 0)}
     /\ \A i, j \in 1..Len(list) :
          i < j => cache.elem[list[i]].last_use <= cache.elem[list[j]].last_use

\* The cache is over its limit only because of pinned entries: nothing that could
\* be evicted is left (GarbageCollect, ReleaseWithOptions).
OverfullOnlyByPins ==
  cache.units > max => \A v \in Values : Alive(v) => cache.elem[v].pin > 0

\* The steps that make room for a new entry or a larger one.
MakesRoom ==
  \/ \E k \in Keys, v \in Values, u \in UnitSizes, keep \in BOOLEAN : InsertNew(k, v, u, keep)
  \/ \E v \in Values, u \in UnitSizes : UpdateSize(v, u)

\* young is still there, or what was inserted has replaced it.
StaysOrReplaced(young) ==
  \/ cache'.elem[young].at # "none"
  \/ \E v \in Values : cache.elem[v].at = "none" /\ cache'.elem[v].at # "none"
                       /\ cache'.elem[v].key = cache.elem[young].key

OldestGoes ==
  \A i, j \in 1..Len(cache.lru_list) :
    LET old == cache.lru_list[i]
    IN i < j /\ cache.elem[old].pin = 0 /\ cache'.elem[old].at # "none"
         => StaysOrReplaced(cache.lru_list[j])

\* Making room evicts the entry unused for the longest time: when an insertion or
\* a change of size drops an unpinned entry, every entry before it on the list
\* goes too (unless it is pinned).
EvictsOldestFirst == [][MakesRoom => OldestGoes]_vars
=============================================================================
