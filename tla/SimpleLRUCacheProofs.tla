------------------------ MODULE SimpleLRUCacheProofs ------------------------
(***************************************************************************)
(* Theorems about the LRU cache, for every set of keys and values, all     *)
(* sizes and time-outs, and any number of pins, when callers look up with  *)
(* one option (UpdateOrder = {TRUE}), as everything in this library does.  *)
(*                                                                         *)
(* Good says what every operation can rely on and keeps: where an entry    *)
(* is, the two sums of units, and the eviction list.  Removing an entry    *)
(* keeps it and only takes away (Less); garbage collection and the         *)
(* discarding of idle entries do so once for each entry of a list, so they *)
(* are inductions over the fold.                                           *)
(***************************************************************************)
EXTENDS SimpleLRUCache, DataTheorems

-----------------------------------------------------------------------------
(* What the cache is between two operations, in the given mode at time t *)

ElemSet == [at : {"none", "table", "defer"}, key : Keys \cup {NoKey}, pin : Nat,
            units : Nat, last_use : Int]

Caches == [elem : [Values -> ElemSet], lru_list : Seq(Values), units : Int, pinned : Int]

\* A value outside the cache has the empty entry; what waits in defer_ is pinned;
\* nothing was used in the future.
ElemOK(e, t) ==
  /\ e.at = "none" => e = NoElem
  /\ e.at = "defer" => e.pin > 0
  /\ e.at # "none" => e.last_use <= t

ElemsOK(c, t) == \A v \in Values : ElemOK(c.elem[v], t)

\* The table has one entry for a key.
OneEach(c) ==
  \A v, w \in Values : /\ c.elem[v].at = "table" /\ c.elem[w].at = "table"
                       /\ c.elem[v].key = c.elem[w].key
                       => v = w

\* What each value contributes to units_ and to pinned_units_.
Size(c) == [v \in Values |-> c.elem[v].units]
PinnedUnits(e) == IF e.at = "table" /\ e.pin > 0 THEN e.units ELSE 0
PinnedSize(c) == [v \in Values |-> PinnedUnits(c.elem[v])]

SumsOK(c) ==
  /\ c.units = SumFunctionOnSet(Size(c), Values)
  /\ c.pinned = SumFunctionOnSet(PinnedSize(c), Values)

\* The entries that belong on the eviction list.
ToEvict(e, mode) == e.at = "table" /\ (mode => e.pin = 0)
Evictable(c, mode) == {v \in Values : ToEvict(c.elem[v], mode)}

Sorted(c) ==
  \A i, j \in 1..Len(c.lru_list) :
    i < j => c.elem[c.lru_list[i]].last_use <= c.elem[c.lru_list[j]].last_use

OrderOK(c, mode) ==
  IsInjective(c.lru_list) /\ ToSet(c.lru_list) = Evictable(c, mode) /\ Sorted(c)

Good(c, mode, t) ==
  c \in Caches /\ ElemsOK(c, t) /\ OneEach(c) /\ SumsOK(c) /\ OrderOK(c, mode)

\* Nothing unpinned is left in an overfull cache.
FullOfPins(c, m) ==
  c.units > m => \A v \in Values : c.elem[v].at # "none" => c.elem[v].pin > 0

\* The inductive invariant: pins are the callers', and the cache is good.
LRUInv ==
  /\ lru \in BOOLEAN /\ now \in Nat /\ max \in Nat /\ idle \in Int
  /\ held \in [Values -> [UpdateOrder -> Nat]]
  /\ \A v \in Values, o \in UpdateOrder : cache.elem[v].pin = held[v][o]
  /\ Good(cache, lru, now)
  /\ FullOfPins(cache, max)

-----------------------------------------------------------------------------
(* One entry changes *)

\* The entry of v becomes f, with what this means for the sums.
Becomes(c, d, v, f) ==
  /\ d.elem = [c.elem EXCEPT ![v] = f]
  /\ d.units = c.units + (f.units - c.elem[v].units)
  /\ d.pinned = c.pinned + (PinnedUnits(f) - PinnedUnits(c.elem[v]))

\* The kinds of the parts.
LEMMA CacheTypes ==
  ASSUME NEW c \in Caches
  PROVE  /\ c.elem \in [Values -> ElemSet] /\ c.lru_list \in Seq(Values)
         /\ c.units \in Int /\ c.pinned \in Int
         /\ \A v \in Values :
              /\ c.elem[v] \in ElemSet
              /\ c.elem[v].at \in {"none", "table", "defer"} /\ c.elem[v].pin \in Nat
              /\ c.elem[v].units \in Nat /\ c.elem[v].last_use \in Int
              /\ PinnedUnits(c.elem[v]) \in Nat
BY DEF Caches, ElemSet, PinnedUnits

\* The other entries and the sums, when one entry changes.
LEMMA OneChanged ==
  ASSUME NEW t \in Int, NEW c \in Caches, ElemsOK(c, t), OneEach(c), SumsOK(c),
         NEW v \in Values, NEW f \in ElemSet, ElemOK(f, t),
         \A w \in Values \ {v} : f.at = "table" /\ c.elem[w].at = "table" => c.elem[w].key # f.key,
         NEW d \in Caches, Becomes(c, d, v, f)
  PROVE  ElemsOK(d, t) /\ OneEach(d) /\ SumsOK(d)
<1>1. d.elem[v] = f /\ \A w \in Values \ {v} : d.elem[w] = c.elem[w]
  BY CacheTypes DEF Becomes
<1>2. ElemsOK(d, t)
  BY <1>1 DEF ElemsOK
<1>3. OneEach(d)
  BY <1>1 DEF OneEach
<1>4. /\ \A w \in Values : Size(c)[w] \in Int /\ Size(d)[w] \in Int
      /\ \A w \in Values : PinnedSize(c)[w] \in Int /\ PinnedSize(d)[w] \in Int
  BY CacheTypes DEF Size, PinnedSize
<1>5. SumFunctionOnSet(Size(d), Values)
        = SumFunctionOnSet(Size(c), Values) + (Size(d)[v] - Size(c)[v])
  <2>1. \A w \in Values : w # v => Size(c)[w] \in Int /\ Size(d)[w] = Size(c)[w]
    BY <1>1, <1>4 DEF Size
  <2> QED BY <1>4, <2>1, LRUAssumption, SumUpdate
<1>6. SumFunctionOnSet(PinnedSize(d), Values)
        = SumFunctionOnSet(PinnedSize(c), Values) + (PinnedSize(d)[v] - PinnedSize(c)[v])
  <2>1. \A w \in Values : w # v => PinnedSize(c)[w] \in Int /\ PinnedSize(d)[w] = PinnedSize(c)[w]
    BY <1>1, <1>4 DEF PinnedSize
  <2> QED BY <1>4, <2>1, LRUAssumption, SumUpdate
<1>7. /\ Size(d)[v] = f.units /\ Size(c)[v] = c.elem[v].units
      /\ PinnedSize(d)[v] = PinnedUnits(f) /\ PinnedSize(c)[v] = PinnedUnits(c.elem[v])
  BY <1>1 DEF Size, PinnedSize
<1>8. SumsOK(d)
  BY <1>5, <1>6, <1>7 DEF SumsOK, Becomes
<1> QED BY <1>2, <1>3, <1>8

\* The list after Unlink: v is gone and the others keep their order.
LEMMA UnlinkedList ==
  ASSUME NEW s \in Seq(Values), IsInjective(s), NEW v, NEW r, r = RemoveFirst(s, v)
  PROVE  /\ r \in Seq(Values) /\ IsInjective(r) /\ ToSet(r) = ToSet(s) \ {v}
         /\ \A i, j \in 1..Len(r) : i < j =>
              \E k, l \in 1..Len(s) : k < l /\ r[i] = s[k] /\ r[j] = s[l]
<1>1. r \in Seq(Values) /\ IsInjective(r) /\ ToSet(r) = ToSet(s) \ {v} /\ Len(s) \in Nat
  BY Without1, LenProperties
<1>2. \/ v \notin ToSet(s) /\ r = s
      \/ \E k \in 1..Len(s) :
           /\ s[k] = v /\ \A i \in 1..k - 1 : s[i] # v
           /\ r \in Seq(Values) /\ Len(r) = Len(s) - 1
           /\ \A i \in 1..Len(s) - 1 : r[i] = IF i < k THEN s[i] ELSE s[i + 1]
  BY RemovedFirst
<1>3. ASSUME NEW i \in 1..Len(r), NEW j \in 1..Len(r), i < j
      PROVE  \E k, l \in 1..Len(s) : k < l /\ r[i] = s[k] /\ r[j] = s[l]
  <2>1. CASE r = s
    BY <1>3, <2>1
  <2>2. ASSUME NEW k \in 1..Len(s), Len(r) = Len(s) - 1,
               \A n \in 1..Len(s) - 1 : r[n] = IF n < k THEN s[n] ELSE s[n + 1]
        PROVE  \E m, l \in 1..Len(s) : m < l /\ r[i] = s[m] /\ r[j] = s[l]
    <3> DEFINE b(n) == IF n < k THEN n ELSE n + 1
    <3>1. b(i) \in 1..Len(s) /\ b(j) \in 1..Len(s) /\ b(i) < b(j)
      BY <1>1, <1>3, <2>2
    <3>2. r[i] = s[b(i)] /\ r[j] = s[b(j)]
      BY <1>1, <2>2
    <3> HIDE DEF b
    <3> QED BY <3>1, <3>2
  <2> QED BY <1>2, <2>1, <2>2
<1> QED BY <1>1, <1>3

\* The list when an entry leaves it, when none does, and when one comes to its end.
LEMMA OrderShrinks ==
  ASSUME NEW mode, NEW c \in Caches, OrderOK(c, mode), NEW v \in Values, NEW f,
         ~ToEvict(f, mode), NEW d \in Caches, Becomes(c, d, v, f),
         d.lru_list = RemoveFirst(c.lru_list, v)
  PROVE  OrderOK(d, mode)
<1>1. d.elem[v] = f /\ \A w \in Values \ {v} : d.elem[w] = c.elem[w]
  BY CacheTypes DEF Becomes
<1>2. /\ IsInjective(d.lru_list) /\ ToSet(d.lru_list) = ToSet(c.lru_list) \ {v}
      /\ \A i, j \in 1..Len(d.lru_list) : i < j =>
           \E k, l \in 1..Len(c.lru_list) :
             k < l /\ d.lru_list[i] = c.lru_list[k] /\ d.lru_list[j] = c.lru_list[l]
  <2> DEFINE s == c.lru_list
             r == d.lru_list
  <2>1. s \in Seq(Values) /\ IsInjective(s) /\ r = RemoveFirst(s, v)
    BY CacheTypes DEF OrderOK
  <2> HIDE DEF s, r
  <2>2. /\ r \in Seq(Values) /\ IsInjective(r) /\ ToSet(r) = ToSet(s) \ {v}
        /\ \A i, j \in 1..Len(r) : i < j =>
             \E k, l \in 1..Len(s) : k < l /\ r[i] = s[k] /\ r[j] = s[l]
    BY <2>1, UnlinkedList
  <2> QED BY <2>2 DEF s, r
<1>3. Evictable(d, mode) = Evictable(c, mode) \ {v}
  BY <1>1 DEF Evictable
<1>4. \A i \in 1..Len(d.lru_list) : d.lru_list[i] \in Values \ {v}
  BY <1>2, CacheTypes, SetOfSeq
<1>5. Sorted(d)
  <2> SUFFICES ASSUME NEW i \in 1..Len(d.lru_list), NEW j \in 1..Len(d.lru_list), i < j
               PROVE  d.elem[d.lru_list[i]].last_use <= d.elem[d.lru_list[j]].last_use
    BY DEF Sorted
  <2>1. PICK k \in 1..Len(c.lru_list), l \in 1..Len(c.lru_list) :
          k < l /\ d.lru_list[i] = c.lru_list[k] /\ d.lru_list[j] = c.lru_list[l]
    BY <1>2
  <2>2. c.elem[c.lru_list[k]].last_use <= c.elem[c.lru_list[l]].last_use
    BY <2>1 DEF OrderOK, Sorted
  <2> QED BY <1>1, <1>4, <2>1, <2>2
<1> QED BY <1>2, <1>3, <1>5 DEF OrderOK

LEMMA OrderStays ==
  ASSUME NEW mode, NEW c \in Caches, OrderOK(c, mode), NEW v \in Values, NEW f,
         ToEvict(f, mode) <=> ToEvict(c.elem[v], mode),
         ToEvict(f, mode) => f.last_use = c.elem[v].last_use,
         NEW d \in Caches, Becomes(c, d, v, f), d.lru_list = c.lru_list
  PROVE  OrderOK(d, mode)
<1>1. d.elem[v] = f /\ \A w \in Values \ {v} : d.elem[w] = c.elem[w]
  BY CacheTypes DEF Becomes
<1>2. Evictable(d, mode) = Evictable(c, mode)
  BY <1>1 DEF Evictable
<1>3. \A w \in Evictable(c, mode) : d.elem[w].last_use = c.elem[w].last_use
  BY <1>1 DEF Evictable
<1>4. \A i \in 1..Len(c.lru_list) : c.lru_list[i] \in Evictable(c, mode)
  BY CacheTypes, SetOfSeq DEF OrderOK
<1>5. Sorted(d)
  BY <1>3, <1>4 DEF Sorted, OrderOK
<1> QED BY <1>2, <1>5 DEF OrderOK

LEMMA OrderGrows ==
  ASSUME NEW mode, NEW t \in Int, NEW c \in Caches, ElemsOK(c, t), OrderOK(c, mode),
         NEW v \in Values, ~ToEvict(c.elem[v], mode), NEW f, ToEvict(f, mode), f.last_use = t,
         NEW d \in Caches, Becomes(c, d, v, f), d.lru_list = Append(c.lru_list, v)
  PROVE  OrderOK(d, mode)
<1> DEFINE s == c.lru_list
<1>1. d.elem[v] = f /\ \A w \in Values \ {v} : d.elem[w] = c.elem[w]
  BY CacheTypes DEF Becomes
<1>2. Evictable(d, mode) = Evictable(c, mode) \cup {v} /\ v \notin Evictable(c, mode)
  BY <1>1 DEF Evictable
<1>3. s \in Seq(Values) /\ v \notin ToSet(s) /\ IsInjective(s) /\ Len(s) \in Nat
  BY <1>2, CacheTypes, LenProperties DEF OrderOK
<1>4. /\ Len(d.lru_list) = Len(s) + 1 /\ ToSet(d.lru_list) = ToSet(s) \cup {v}
      /\ IsInjective(d.lru_list)
      /\ d.lru_list[Len(s) + 1] = v /\ \A i \in 1..Len(s) : d.lru_list[i] = s[i]
  BY <1>3, Appended, AppendProperties
<1>5. \A i \in 1..Len(s) : s[i] \in Values \ {v} /\ c.elem[s[i]].at = "table"
  BY <1>2, <1>3, SetOfSeq DEF OrderOK, Evictable, ToEvict
<1>6. \A i \in 1..Len(s) : c.elem[s[i]].last_use <= t
  BY <1>5 DEF ElemsOK, ElemOK
<1>7. Sorted(d)
  <2> SUFFICES ASSUME NEW i \in 1..Len(s) + 1, NEW j \in 1..Len(s) + 1, i < j
               PROVE  d.elem[d.lru_list[i]].last_use <= d.elem[d.lru_list[j]].last_use
    BY <1>4 DEF Sorted
  <2>1. i \in 1..Len(s) /\ d.lru_list[i] = s[i] /\ d.elem[s[i]] = c.elem[s[i]]
    BY <1>1, <1>3, <1>4, <1>5
  <2>2. CASE j = Len(s) + 1
    BY <1>1, <1>4, <1>6, <2>1, <2>2
  <2>3. CASE j \in 1..Len(s)
    <3>1. d.lru_list[j] = s[j] /\ d.elem[s[j]] = c.elem[s[j]]
      BY <1>1, <1>4, <1>5, <2>3
    <3>2. c.elem[s[i]].last_use <= c.elem[s[j]].last_use
      BY <2>1, <2>3 DEF OrderOK, Sorted
    <3> QED BY <2>1, <3>1, <3>2
  <2> QED BY <1>3, <2>2, <2>3
<1> QED BY <1>2, <1>4, <1>7 DEF OrderOK

-----------------------------------------------------------------------------
(* Taking entries away *)

\* An entry stays, is dropped if it is not pinned, or waits for its last release.
LessElem(e, f) ==
  \/ f = e
  \/ f = NoElem /\ e.pin = 0
  \/ e.at = "table" /\ e.pin > 0 /\ f = [e EXCEPT !.at = "defer"]

\* d is c with less in it, whatever order that took.
Less(c, d) ==
  d.units <= c.units /\ \A v \in Values : LessElem(c.elem[v], d.elem[v])

LEMMA LessSelf ==
  ASSUME NEW c \in Caches
  PROVE  Less(c, c)
BY CacheTypes DEF Less, LessElem

\* Less and less.
LEMMA LessTwice ==
  ASSUME NEW c \in Caches, NEW d \in Caches, NEW e \in Caches, Less(c, d), Less(d, e)
  PROVE  Less(c, e)
<1>1. c.units \in Int /\ d.units \in Int /\ e.units \in Int
  BY CacheTypes
<1>2. ASSUME NEW v \in Values PROVE LessElem(c.elem[v], e.elem[v])
  <2>1. LessElem(c.elem[v], d.elem[v]) /\ LessElem(d.elem[v], e.elem[v])
    BY DEF Less
  <2>2. c.elem[v] \in ElemSet
    BY CacheTypes
  <2> QED BY <2>1, <2>2 DEF LessElem, NoElem, ElemSet
<1> QED BY <1>1, <1>2 DEF Less

LEMMA NoElemType == NoElem \in ElemSet /\ PinnedUnits(NoElem) = 0 /\ NoElem.units = 0 /\ NoElem.pin = 0
BY DEF NoElem, ElemSet, PinnedUnits

\* An entry that is not pinned is unlinked and discarded (Remove, GarbageCollect).
LEMMA Dropped ==
  ASSUME NEW mode, NEW t \in Int, NEW c, Good(c, mode, t), NEW v \in Values, c.elem[v].pin = 0,
         NEW d, d = Discard(Unlink(c, v), v)
  PROVE  /\ Good(d, mode, t) /\ d.elem = [c.elem EXCEPT ![v] = NoElem] /\ Less(c, d)
         /\ d.units = c.units - c.elem[v].units
<1>0. c \in Caches /\ ElemsOK(c, t) /\ OneEach(c) /\ SumsOK(c) /\ OrderOK(c, mode)
  BY DEF Good
<1>1. /\ d = [elem |-> [c.elem EXCEPT ![v] = NoElem], lru_list |-> RemoveFirst(c.lru_list, v),
              units |-> c.units - c.elem[v].units, pinned |-> c.pinned]
  BY <1>0 DEF Caches, Discard, Unlink
<1>2. RemoveFirst(c.lru_list, v) \in Seq(Values)
  BY <1>0, CacheTypes, Without1 DEF OrderOK
<1>3. d \in Caches
  BY <1>0, <1>1, <1>2, CacheTypes, NoElemType DEF Caches
<1>4. Becomes(c, d, v, NoElem)
  <2>1. PinnedUnits(c.elem[v]) = 0
    BY <1>0, CacheTypes DEF PinnedUnits
  <2> QED BY <1>0, <1>1, <2>1, CacheTypes, NoElemType DEF Becomes
<1>5. ElemOK(NoElem, t) /\ ~ToEvict(NoElem, mode) /\ NoElem.at # "table"
  BY DEF ElemOK, ToEvict, NoElem
<1>6. ElemsOK(d, t) /\ OneEach(d) /\ SumsOK(d)
  BY <1>0, <1>3, <1>4, <1>5, OneChanged, NoElemType
<1>7. OrderOK(d, mode)
  <2>1. d.lru_list = RemoveFirst(c.lru_list, v)
    BY <1>1
  <2> QED BY <1>0, <1>3, <1>4, <1>5, <2>1, OrderShrinks
<1>8. Less(c, d)
  <2>1. d.units <= c.units
    BY <1>0, <1>1, CacheTypes
  <2>2. \A w \in Values : LessElem(c.elem[w], d.elem[w])
    BY <1>0, <1>1, CacheTypes DEF LessElem
  <2> QED BY <2>1, <2>2 DEF Less
<1> QED BY <1>1, <1>3, <1>6, <1>7, <1>8 DEF Good

\* Of two entries left on the list the older is before the younger, as it was.
KeepsOrder(c, d) ==
  \A i, j \in 1..Len(d.lru_list) : i < j =>
    \E k, l \in 1..Len(c.lru_list) :
      k < l /\ d.lru_list[i] = c.lru_list[k] /\ d.lru_list[j] = c.lru_list[l]

LEMMA UnlinkKeepsOrder ==
  ASSUME NEW c \in Caches, IsInjective(c.lru_list), NEW v, NEW d,
         d.lru_list = RemoveFirst(c.lru_list, v)
  PROVE  KeepsOrder(c, d)
<1> DEFINE s == c.lru_list
           r == d.lru_list
<1>1. s \in Seq(Values) /\ IsInjective(s) /\ r = RemoveFirst(s, v)
  BY CacheTypes
<1> HIDE DEF s, r
<1>2. \A i, j \in 1..Len(r) : i < j =>
        \E k, l \in 1..Len(s) : k < l /\ r[i] = s[k] /\ r[j] = s[l]
  BY <1>1, UnlinkedList
<1> QED BY <1>2 DEF KeepsOrder, s, r

\* An entry of the table is removed: a pinned one waits in defer_.
LEMMA Removed ==
  ASSUME NEW mode, NEW t \in Int, NEW c, Good(c, mode, t), NEW v \in Values,
         c.elem[v].at = "table", NEW d, d = RemoveElem(c, v)
  PROVE  /\ Good(d, mode, t) /\ Less(c, d) /\ d.elem[v].at # "table"
         /\ \A w \in Values \ {v} : d.elem[w] = c.elem[w]
         /\ c.elem[v].pin = 0 => d.elem[v] = NoElem
         /\ KeepsOrder(c, d)
<1>0. c \in Caches /\ ElemsOK(c, t) /\ OneEach(c) /\ SumsOK(c) /\ OrderOK(c, mode)
  BY DEF Good
<1>1. Unlink(c, v) \in Caches /\ Unlink(c, v).elem = c.elem
  <2>1. RemoveFirst(c.lru_list, v) \in Seq(Values)
    BY <1>0, CacheTypes, Without1 DEF OrderOK
  <2> QED BY <1>0, <2>1 DEF Caches, Unlink
<1>2. CASE c.elem[v].pin = 0
  <2>1. d = Discard(Unlink(c, v), v)
    BY <1>1, <1>2 DEF RemoveElem
  <2>2. Good(d, mode, t) /\ d.elem = [c.elem EXCEPT ![v] = NoElem] /\ Less(c, d)
    BY <1>2, <2>1, Dropped
  <2>3. KeepsOrder(c, d)
    <3>1. d.lru_list = RemoveFirst(c.lru_list, v)
      BY <1>0, <2>1 DEF Caches, Discard, Unlink
    <3> QED BY <1>0, <3>1, UnlinkKeepsOrder DEF OrderOK
  <2> QED BY <1>0, <2>2, <2>3, CacheTypes DEF NoElem
<1>3. CASE c.elem[v].pin > 0
  <2> DEFINE e == c.elem[v]
             f == [e EXCEPT !.at = "defer"]
  <2>1. d = [elem |-> [c.elem EXCEPT ![v] = f], lru_list |-> RemoveFirst(c.lru_list, v),
             units |-> c.units, pinned |-> c.pinned - e.units]
    BY <1>0, <1>3 DEF Caches, RemoveElem, Unlink
  <2>2. RemoveFirst(c.lru_list, v) \in Seq(Values)
    BY <1>0, CacheTypes, Without1 DEF OrderOK
  <2>3. /\ f \in ElemSet /\ f.at = "defer" /\ f.pin = e.pin /\ f.units = e.units
        /\ f.last_use = e.last_use /\ e.units \in Nat
    BY <1>0, CacheTypes DEF ElemSet
  <2>4. PinnedUnits(f) = 0 /\ PinnedUnits(e) = e.units
    BY <1>3, <2>3 DEF PinnedUnits
  <2>5. ElemOK(f, t) /\ ~ToEvict(f, mode)
    BY <1>0, <1>3, <2>3 DEF ElemsOK, ElemOK, ToEvict
  <2>6. Less(c, d)
    <3>1. LessElem(e, f)
      BY <1>3 DEF LessElem
    <3>3. d.elem[v] = f /\ \A w \in Values \ {v} : d.elem[w] = c.elem[w]
      <4> HIDE DEF e, f
      <4> QED BY <1>0, <2>1, CacheTypes
    <3>4. \A w \in Values : LessElem(c.elem[w], d.elem[w])
      <4> HIDE DEF f
      <4> QED BY <3>1, <3>3 DEF LessElem
    <3>2. d.units = c.units /\ c.units \in Int
      BY <1>0, <2>1, CacheTypes
    <3> QED BY <3>2, <3>4 DEF Less
  <2> HIDE DEF f, e
  <2>7. d \in Caches
    BY <1>0, <2>1, <2>2, <2>3, CacheTypes DEF Caches
  <2>8. Becomes(c, d, v, f)
    BY <1>0, <2>1, <2>3, <2>4, CacheTypes DEF Becomes, e
  <2>9. ElemsOK(d, t) /\ OneEach(d) /\ SumsOK(d)
    BY <1>0, <2>3, <2>5, <2>7, <2>8, OneChanged
  <2>10. OrderOK(d, mode)
    <3>1. d.lru_list = RemoveFirst(c.lru_list, v)
      BY <2>1
    <3> QED BY <1>0, <2>5, <2>7, <2>8, <3>1, OrderShrinks
  <2>11. KeepsOrder(c, d)
    <3>1. d.lru_list = RemoveFirst(c.lru_list, v)
      BY <2>1
    <3> QED BY <1>0, <3>1, UnlinkKeepsOrder DEF OrderOK
  <2> QED BY <1>0, <1>3, <2>1, <2>3, <2>6, <2>7, <2>9, <2>10, <2>11, CacheTypes DEF Good
<1> QED BY <1>0, <1>2, <1>3, CacheTypes

\* Remove of a key: whatever is found under it goes.
LEMMA RemovedKey ==
  ASSUME NEW mode, NEW t \in Int, NEW c, Good(c, mode, t), NEW k, NEW d, d = RemoveKey(c, k)
  PROVE  /\ Good(d, mode, t) /\ Less(c, d) /\ InTable(d, k) = {}
         /\ \A w \in Values : c.elem[w].key # k \/ c.elem[w].at # "table" => d.elem[w] = c.elem[w]
         /\ \A w \in InTable(c, k) : c.elem[w].pin = 0 => d.elem[w] = NoElem
         /\ KeepsOrder(c, d)
<1>0. c \in Caches /\ OneEach(c)
  BY DEF Good
<1>1. CASE InTable(c, k) = {}
  <2>1. d = c
    BY <1>1 DEF RemoveKey
  <2>2. KeepsOrder(c, d)
    BY <2>1 DEF KeepsOrder
  <2> QED BY <1>0, <1>1, <2>1, <2>2, LessSelf
<1>2. CASE InTable(c, k) # {}
  <2>1. PICK v \in InTable(c, k) : d = RemoveElem(c, v)
    BY <1>2 DEF RemoveKey
  <2>2. v \in Values /\ c.elem[v].at = "table" /\ c.elem[v].key = k /\ InTable(c, k) = {v}
    BY <1>0, <2>1 DEF InTable, OneEach
  <2>3. /\ Good(d, mode, t) /\ Less(c, d) /\ d.elem[v].at # "table"
        /\ \A w \in Values \ {v} : d.elem[w] = c.elem[w]
        /\ c.elem[v].pin = 0 => d.elem[v] = NoElem
        /\ KeepsOrder(c, d)
    BY <2>1, <2>2, Removed
  <2>4. InTable(d, k) = {}
    BY <2>2, <2>3 DEF InTable
  <2> QED BY <2>2, <2>3, <2>4
<1> QED BY <1>1, <1>2

-----------------------------------------------------------------------------
(* Taking entries away one after the other *)

\* What a walk over a list that takes entries of c away may have come to.
LessOf(c, mode, t) == {d \in Caches : Good(d, mode, t) /\ Less(c, d)}

LEMMA LessOfFacts ==
  ASSUME NEW mode, NEW t \in Int, NEW c, Good(c, mode, t)
  PROVE  /\ c \in LessOf(c, mode, t)
         /\ \A d \in LessOf(c, mode, t) : \A e : Good(e, mode, t) /\ Less(d, e) => e \in LessOf(c, mode, t)
<1>1. c \in Caches /\ Less(c, c)
  BY LessSelf DEF Good
<1>2. ASSUME NEW d \in LessOf(c, mode, t), NEW e, Good(e, mode, t), Less(d, e)
      PROVE  e \in LessOf(c, mode, t)
  <2>1. d \in Caches /\ e \in Caches /\ Less(c, d)
    BY <1>2 DEF LessOf, Good
  <2>2. Less(c, e)
    BY <1>1, <1>2, <2>1, LessTwice
  <2> QED BY <1>2, <2>1, <2>2 DEF LessOf
<1> QED BY <1>1, <1>2 DEF LessOf

\* DiscardIdle keeps the cache good, whatever the limit.
LEMMA Discarded ==
  ASSUME NEW mode, Good(cache, mode, now), now \in Nat, NEW i \in Int,
         NEW d, d = DiscardIdle(cache, i)
  PROVE  Good(d, mode, now) /\ Less(cache, d)
<1> DEFINE c == cache
           list == c.lru_list
           old(v) == c.elem[v].last_use < now - i
           young == {j \in 1..Len(list) : ~old(list[j])}
           n == IF young = {} THEN Len(list) ELSE Min(young) - 1
           s == SubSeq(list, 1, n)
           N == DOMAIN s
           C == LessOf(c, mode, now)
           step(b, v) == RemoveKey(b, b.elem[v].key)
           P(g) == g = [x \in SUBSET N |-> IF x = {} THEN c
                                           ELSE step(g[x \ {Max(x)}], s[Max(x)])]
<1>0. c \in C /\ c \in Caches /\ now \in Int
  BY LessOfFacts DEF Good
<1>1. CASE i < 0
  <2>1. d = c
    BY <1>1 DEF DiscardIdle
  <2> QED BY <1>0, <2>1 DEF LessOf
<1>2. CASE ~(i < 0)
  <2>1. PICK m \in Nat : s \in Seq(Values) /\ N = 1..m
    <3>1. list \in Seq(Values) /\ Len(list) \in Nat /\ \A j \in 1..Len(list) : list[j] \in Values
      BY <1>0, CacheTypes, LenProperties, ElementOfSeq
    <3>2. n \in 0..Len(list)
      <4>1. ASSUME young # {} PROVE Min(young) \in 1..Len(list)
        <5>1. young \subseteq Nat
          OBVIOUS
        <5> HIDE DEF young
        <5>2. \E j \in young : \A k \in young : j <= k
          BY <4>1, <5>1, LeastNat
        <5>3. Min(young) \in young
          BY <5>2 DEF Min
        <5> QED BY <5>3 DEF young
      <4> HIDE DEF young, list
      <4> QED BY <3>1, <4>1
    <3> HIDE DEF n, list
    <3>3. 1 \in Int /\ n \in Int /\ \A j \in 1..n : list[j] \in Values
      BY <3>1, <3>2
    <3>4. s \in Seq(Values)
      BY <3>3, SubSeqProperties
    <3> HIDE DEF s
    <3> QED BY <3>4, LenProperties
  <2>2. d = FoldLeft(LAMBDA b, v : step(b, v), c, s)
    BY <1>2 DEF DiscardIdle
  <2>3. d = (CHOOSE g : P(g))[N]
    BY <2>2 DEF FoldLeft, MapThenFoldSet
  <2>4. ASSUME NEW b \in C, NEW j \in N PROVE step(b, s[j]) \in C
    <3>1. Good(b, mode, now)
      BY DEF LessOf
    <3>2. Good(step(b, s[j]), mode, now) /\ Less(b, step(b, s[j]))
      BY <1>0, <3>1, RemovedKey
    <3> HIDE DEF step
    <3> QED BY <1>0, <3>2, LessOfFacts
  <2> DEFINE F == [j \in N |-> [b \in C |-> step(b, s[j])]]
  <2> HIDE DEF step, s, C, N
  <2>5. \E g : P(g)
    <3>1. \A j \in 1..m, b \in C : F[j][b] \in C
      BY <2>1, <2>4
    <3> HIDE DEF F
    <3>2. PICK g : WalksOver(g, m, c, F) /\ \A x \in SUBSET (1..m) : g[x] \in C
      BY <1>0, <3>1, WalkTyped
    <3> DEFINE h == [x \in SUBSET N |-> IF x = {} THEN c ELSE step(g[x \ {Max(x)}], s[Max(x)])]
    <3>3. ASSUME NEW x \in SUBSET N PROVE g[x] = h[x]
      <4>1. CASE x = {}
        BY <2>1, <3>2, <4>1 DEF WalksOver
      <4>2. CASE x # {}
        <5>1. Max(x) \in N /\ x \ {Max(x)} \in SUBSET N
          BY <2>1, <4>2, MaxOf
        <5>2. g[x] = F[Max(x)][g[x \ {Max(x)}]]
          BY <2>1, <3>2, <4>2 DEF WalksOver
        <5>3. g[x \ {Max(x)}] \in C
          BY <2>1, <3>2, <5>1
        <5> QED BY <4>2, <5>1, <5>2, <5>3 DEF F
      <4> QED BY <4>1, <4>2
    <3>4. g = [x \in SUBSET N |-> g[x]] /\ h = [x \in SUBSET N |-> h[x]]
      BY <2>1, <3>2 DEF WalksOver
    <3>5. g = h
      <4> HIDE DEF h
      <4> QED BY <3>3, <3>4
    <3> QED BY <3>5
  <2> DEFINE it == CHOOSE g : P(g)
  <2>6. P(it)
    <3> HIDE DEF P
    <3> QED BY <2>5
  <2> HIDE DEF it
  <2> DEFINE G == {x \in SUBSET N : it[x] \in C}
  <2>7. {} \in G
    BY <1>0, <2>6
  <2>8. ASSUME NEW x \in SUBSET (1..m), x # {}, x \ {Max(x)} \in G PROVE x \in G
    <3>1. Max(x) \in N
      BY <2>1, <2>8, MaxOf
    <3>2. it[x] = step(it[x \ {Max(x)}], s[Max(x)])
      BY <2>1, <2>6, <2>8
    <3> QED BY <2>1, <2>4, <2>8, <3>1, <3>2
  <2> HIDE DEF G
  <2>9. SUBSET N \subseteq G
    BY <2>1, <2>7, <2>8, WalkInduction
  <2>10. it[N] \in C
    BY <2>9 DEF G
  <2> QED BY <2>3, <2>10 DEF LessOf, it, C
<1> QED BY <1>1, <1>2

\* RemoveUnpinned keeps the cache good.
LEMMA UnpinnedRemoved ==
  ASSUME NEW mode, NEW t \in Int, NEW c, Good(c, mode, t), NEW d, d = WithoutUnpinned(c)
  PROVE  Good(d, mode, t) /\ Less(c, d)
<1> DEFINE s == c.lru_list
           N == DOMAIN s
           C == LessOf(c, mode, t)
           step(b, v) == IF b.elem[v].pin = 0 THEN RemoveKey(b, b.elem[v].key) ELSE b
           P(g) == g = [x \in SUBSET N |-> IF x = {} THEN c
                                           ELSE step(g[x \ {Max(x)}], s[Max(x)])]
<1>0. c \in C /\ c \in Caches
  BY LessOfFacts DEF Good
<1>1. PICK m \in Nat : N = 1..m
  BY <1>0, CacheTypes, LenProperties
<1>2. d = (CHOOSE g : P(g))[N]
  BY DEF WithoutUnpinned, FoldLeft, MapThenFoldSet
<1>3. ASSUME NEW b \in C, NEW j \in N PROVE step(b, s[j]) \in C
  <2>1. Good(b, mode, t)
    BY DEF LessOf
  <2>2. CASE b.elem[s[j]].pin = 0
    <3>1. Good(step(b, s[j]), mode, t) /\ Less(b, step(b, s[j]))
      BY <2>1, <2>2, RemovedKey
    <3> HIDE DEF step
    <3> QED BY <3>1, LessOfFacts
  <2>3. CASE b.elem[s[j]].pin # 0
    BY <2>3
  <2> QED BY <2>2, <2>3
<1> DEFINE F == [j \in N |-> [b \in C |-> step(b, s[j])]]
<1> HIDE DEF step, s, C, N
<1>4. \E g : P(g)
  <2>1. \A j \in 1..m, b \in C : F[j][b] \in C
    BY <1>1, <1>3
  <2> HIDE DEF F
  <2>2. PICK g : WalksOver(g, m, c, F) /\ \A x \in SUBSET (1..m) : g[x] \in C
    BY <1>0, <2>1, WalkTyped
  <2> DEFINE h == [x \in SUBSET N |-> IF x = {} THEN c ELSE step(g[x \ {Max(x)}], s[Max(x)])]
  <2>3. ASSUME NEW x \in SUBSET N PROVE g[x] = h[x]
    <3>1. CASE x = {}
      BY <1>1, <2>2, <3>1 DEF WalksOver
    <3>2. CASE x # {}
      <4>1. Max(x) \in N /\ x \ {Max(x)} \in SUBSET N
        BY <1>1, <3>2, MaxOf
      <4>2. g[x] = F[Max(x)][g[x \ {Max(x)}]]
        BY <1>1, <2>2, <3>2 DEF WalksOver
      <4>3. g[x \ {Max(x)}] \in C
        BY <1>1, <2>2, <4>1
      <4> QED BY <3>2, <4>1, <4>2, <4>3 DEF F
    <3> QED BY <3>1, <3>2
  <2>4. g = [x \in SUBSET N |-> g[x]] /\ h = [x \in SUBSET N |-> h[x]]
    BY <1>1, <2>2 DEF WalksOver
  <2>5. g = h
    <3> HIDE DEF h
    <3> QED BY <2>3, <2>4
  <2> QED BY <2>5
<1> DEFINE it == CHOOSE g : P(g)
<1>5. P(it)
  <2> HIDE DEF P
  <2> QED BY <1>4
<1> HIDE DEF it
<1> DEFINE G == {x \in SUBSET N : it[x] \in C}
<1>6. {} \in G
  BY <1>0, <1>5
<1>7. ASSUME NEW x \in SUBSET (1..m), x # {}, x \ {Max(x)} \in G PROVE x \in G
  <2>1. Max(x) \in N
    BY <1>1, <1>7, MaxOf
  <2>2. it[x] = step(it[x \ {Max(x)}], s[Max(x)])
    BY <1>1, <1>5, <1>7
  <2> QED BY <1>1, <1>3, <1>7, <2>1, <2>2
<1> HIDE DEF G
<1>8. SUBSET N \subseteq G
  BY <1>1, <1>6, <1>7, WalkInduction
<1>9. it[N] \in C
  BY <1>8 DEF G
<1> QED BY <1>2, <1>9 DEF LessOf, it, C

\* Where an unpinned entry of the list of c is left, everything after it is.
OldestGoFirst(c, d) ==
  \A i, j \in 1..Len(c.lru_list) :
    i < j /\ c.elem[c.lru_list[i]].pin = 0 /\ d.elem[c.lru_list[i]].at # "none"
      => d.elem[c.lru_list[j]] = c.elem[c.lru_list[j]]

\* GarbageCollect: what is unpinned is dropped in the order of the list until the
\* cache fits.
LEMMA Collected ==
  ASSUME NEW mode, NEW t \in Int, NEW c, Good(c, mode, t), NEW m \in Int,
         NEW d, d = GarbageCollect(c, m)
  PROVE  /\ Good(d, mode, t) /\ Less(c, d) /\ FullOfPins(d, m)
         /\ \A v \in Values : d.elem[v] = c.elem[v] \/ d.elem[v] = NoElem
         /\ OldestGoFirst(c, d)
<1> DEFINE s == c.lru_list
           N == DOMAIN s
           C == LessOf(c, mode, t)
           step(b, v) == IF Overfull(b, m) /\ b.elem[v].pin = 0 THEN Discard(Unlink(b, v), v) ELSE b
           P(g) == g = [x \in SUBSET N |-> IF x = {} THEN c
                                           ELSE step(g[x \ {Max(x)}], s[Max(x)])]
<1>0. c \in C /\ c \in Caches /\ ElemsOK(c, t) /\ OrderOK(c, mode)
  BY LessOfFacts DEF Good
<1>1. N = 1..Len(s) /\ Len(s) \in Nat /\ \A j \in N : s[j] \in Values
  BY <1>0, CacheTypes, LenProperties, ElementOfSeq
<1>2. d = (CHOOSE g : P(g))[N]
  BY DEF FoldLeft, MapThenFoldSet, GarbageCollect
<1>3. ASSUME NEW b \in C, NEW j \in N
      PROVE  /\ step(b, s[j]) \in C /\ Less(b, step(b, s[j]))
             /\ \A v \in Values \ {s[j]} : step(b, s[j]).elem[v] = b.elem[v]
             /\ b.units > m /\ b.elem[s[j]].pin = 0 => step(b, s[j]).elem[s[j]] = NoElem
             /\ ~(b.units > m /\ b.elem[s[j]].pin = 0) => step(b, s[j]) = b
  <2>1. Good(b, mode, t) /\ b \in Caches /\ s[j] \in Values
    BY <1>1 DEF LessOf
  <2>2. CASE b.units > m /\ b.elem[s[j]].pin = 0
    <3> DEFINE e == Discard(Unlink(b, s[j]), s[j])
    <3>1. step(b, s[j]) = e
      BY <2>2 DEF Overfull
    <3>2. Good(e, mode, t) /\ e.elem = [b.elem EXCEPT ![s[j]] = NoElem] /\ Less(b, e)
      <4> HIDE DEF s
      <4> QED BY <2>1, <2>2, Dropped
    <3> HIDE DEF step, e, C, s
    <3>3. e \in C
      BY <3>2, LessOfFacts DEF C
    <3>4. e.elem[s[j]] = NoElem /\ \A v \in Values \ {s[j]} : e.elem[v] = b.elem[v]
      BY <2>1, <3>2, CacheTypes
    <3> QED BY <2>2, <3>1, <3>2, <3>3, <3>4
  <2>3. CASE ~(b.units > m /\ b.elem[s[j]].pin = 0)
    <3>1. step(b, s[j]) = b
      BY <2>3 DEF Overfull
    <3> HIDE DEF step, s, C
    <3> QED BY <2>1, <2>3, <3>1, LessSelf
  <2> QED BY <2>2, <2>3
<1> DEFINE F == [j \in N |-> [b \in C |-> step(b, s[j])]]
<1> HIDE DEF step, s, C, N
<1>4. \E g : P(g)
  <2>1. \A j \in 1..Len(s), b \in C : F[j][b] \in C
    BY <1>1, <1>3
  <2> HIDE DEF F
  <2>2. PICK g : WalksOver(g, Len(s), c, F) /\ \A x \in SUBSET (1..Len(s)) : g[x] \in C
    BY <1>0, <1>1, <2>1, WalkTyped
  <2> DEFINE h == [x \in SUBSET N |-> IF x = {} THEN c ELSE step(g[x \ {Max(x)}], s[Max(x)])]
  <2>3. ASSUME NEW x \in SUBSET N PROVE g[x] = h[x]
    <3>1. CASE x = {}
      BY <1>1, <2>2, <3>1 DEF WalksOver
    <3>2. CASE x # {}
      <4>1. Max(x) \in N /\ x \ {Max(x)} \in SUBSET N
        BY <1>1, <3>2, MaxOf
      <4>2. g[x] = F[Max(x)][g[x \ {Max(x)}]]
        BY <1>1, <2>2, <3>2 DEF WalksOver
      <4>3. g[x \ {Max(x)}] \in C
        BY <1>1, <2>2, <4>1
      <4> QED BY <3>2, <4>1, <4>2, <4>3 DEF F
    <3> QED BY <3>1, <3>2
  <2>4. g = [x \in SUBSET N |-> g[x]] /\ h = [x \in SUBSET N |-> h[x]]
    BY <1>1, <2>2 DEF WalksOver
  <2>5. g = h
    <3> HIDE DEF h
    <3> QED BY <2>3, <2>4
  <2> QED BY <2>5
<1> DEFINE it == CHOOSE g : P(g)
<1>5. P(it)
  <2> HIDE DEF P
  <2> QED BY <1>4
<1> HIDE DEF it, F
<1> DEFINE Fits(b, x) == b.units > m => \A j \in x : b.elem[s[j]].pin > 0 \/ b.elem[s[j]] = NoElem
           Stays(b) == \A v \in Values : b.elem[v] = c.elem[v] \/ b.elem[v] = NoElem
           Rest(b, x) == \A j \in N \ x : b.elem[s[j]] = c.elem[s[j]]
           Oldest(b, x) == \A i, j \in x : i < j /\ c.elem[s[i]].pin = 0 /\ b.elem[s[i]] # NoElem
                                             => b.elem[s[j]] = c.elem[s[j]]
           G == {x \in SUBSET N : /\ it[x] \in C /\ Fits(it[x], x) /\ Stays(it[x])
                                  /\ Rest(it[x], x) /\ Oldest(it[x], x)}
<1>6. {} \in G
  <2>1. it[{}] = c
    BY <1>5
  <2>2. Fits(c, {}) /\ Stays(c) /\ Rest(c, {}) /\ Oldest(c, {})
    OBVIOUS
  <2> HIDE DEF Fits, Stays, Rest, Oldest
  <2> QED BY <1>0, <2>1, <2>2
<1>7. ASSUME NEW x \in SUBSET (1..Len(s)), x # {}, x \ {Max(x)} \in G PROVE x \in G
  <2> DEFINE k == Max(x)
             y == x \ {k}
             b == it[y]
             e == it[x]
  <2>1. k \in x /\ k \in N /\ x \subseteq N /\ \A i \in x : i <= k
    BY <1>1, <1>7, MaxOf
  <2>2. e = step(b, s[k])
    BY <1>1, <1>5, <1>7
  <2>3. y \in SUBSET N /\ b \in C /\ Fits(b, y) /\ Stays(b) /\ Rest(b, y) /\ Oldest(b, y)
    BY <1>7
  <2> HIDE DEF k, y, b, e
  <2>4. s[k] \in Values /\ \A i \in N \ {k} : s[i] \in Values /\ s[i] # s[k]
    BY <1>0, <1>1, <2>1 DEF OrderOK, IsInjective, N, s
  <2>5. /\ e \in C /\ Less(b, e) /\ \A v \in Values \ {s[k]} : e.elem[v] = b.elem[v]
        /\ b.units > m /\ b.elem[s[k]].pin = 0 => e.elem[s[k]] = NoElem
        /\ ~(b.units > m /\ b.elem[s[k]].pin = 0) => e = b
    BY <1>3, <2>1, <2>2, <2>3
  <2>6. x = y \cup {k} /\ k \notin y /\ k \in x
    BY <2>1 DEF y
  <2>7. b \in Caches /\ e \in Caches
    BY <2>3, <2>5 DEF C, LessOf
  <2>8. Stays(e)
    BY <2>3, <2>4, <2>5
  <2>9. Rest(e, x)
    BY <2>3, <2>4, <2>5, <2>6
  <2>10. Fits(e, x)
    <3> SUFFICES ASSUME e.units > m, NEW j \in x PROVE e.elem[s[j]].pin > 0 \/ e.elem[s[j]] = NoElem
      OBVIOUS
    <3>1. b.units > m
      <4>1. e.units <= b.units /\ e.units \in Int /\ b.units \in Int
        BY <2>5, <2>7, CacheTypes DEF Less
      <4> QED BY <4>1
    <3>2. CASE j = k
      <4>1. CASE b.elem[s[k]].pin = 0
        BY <2>5, <3>1, <3>2, <4>1
      <4>2. CASE b.elem[s[k]].pin # 0
        <5>1. e = b /\ b.elem[s[k]].pin \in Nat
          BY <2>4, <2>5, <2>7, <4>2, CacheTypes
        <5> QED BY <3>2, <4>2, <5>1
      <4> QED BY <4>1, <4>2
    <3>3. CASE j # k
      <4>1. j \in y /\ e.elem[s[j]] = b.elem[s[j]]
        BY <2>1, <2>4, <2>5, <2>6, <3>3
      <4> QED BY <2>3, <3>1, <4>1
    <3> QED BY <3>2, <3>3
  <2>11. Oldest(e, x)
    <3> SUFFICES ASSUME NEW i \in x, NEW j \in x, i < j, c.elem[s[i]].pin = 0, e.elem[s[i]] # NoElem
                 PROVE  e.elem[s[j]] = c.elem[s[j]]
      OBVIOUS
    <3>1. i # k /\ i \in y /\ i \in N
      <4>1. i <= k /\ j <= k /\ i \in Int /\ j \in Int /\ k \in Int
        BY <1>1, <2>1
      <4>2. i # k
        BY <4>1
      <4> QED BY <2>1, <2>6, <4>2
    <3>2. b.elem[s[i]] = e.elem[s[i]] /\ s[i] \in Values
      BY <2>4, <2>5, <3>1
    <3>3. b.elem[s[i]] = c.elem[s[i]]
      BY <2>3, <3>2
    <3>4. ~(b.units > m)
      BY <2>3, <3>1, <3>2, <3>3
    <3>5. e = b
      BY <2>5, <3>4
    <3>6. CASE j = k
      BY <2>3, <2>6, <2>1, <3>5, <3>6
    <3>7. CASE j # k
      <4>1. j \in y
        BY <2>6, <3>7
      <4> QED BY <2>3, <3>1, <3>2, <3>5, <4>1
    <3> QED BY <3>6, <3>7
  <2> HIDE DEF Fits, Stays, Rest, Oldest
  <2>12. x \in SUBSET N /\ it[x] \in C /\ Fits(it[x], x) /\ Stays(it[x]) /\ Rest(it[x], x) /\ Oldest(it[x], x)
    BY <2>1, <2>5, <2>8, <2>9, <2>10, <2>11 DEF e
  <2> QED BY <2>12
<1> HIDE DEF G
<1>8. SUBSET N \subseteq G
  BY <1>1, <1>6, <1>7, WalkInduction
<1>9. d \in C /\ Fits(d, N) /\ Stays(d) /\ Oldest(d, N)
  <2>1. d = it[N]
    BY <1>2 DEF it
  <2> HIDE DEF Fits, Stays, Rest, Oldest
  <2> QED BY <1>8, <2>1 DEF G
<1>10. Good(d, mode, t) /\ Less(c, d) /\ d \in Caches /\ ElemsOK(d, t)
  BY <1>9 DEF C, LessOf, Good
<1>11. FullOfPins(d, m)
  <2> SUFFICES ASSUME d.units > m, NEW v \in Values, d.elem[v].at # "none" PROVE d.elem[v].pin > 0
    BY DEF FullOfPins
  <2>1. d.elem[v] # NoElem /\ d.elem[v] = c.elem[v] /\ d.elem[v].pin \in Nat
    BY <1>9, <1>10, CacheTypes DEF NoElem
  <2>2. CASE v \in Evictable(c, mode)
    <3>1. PICK j \in N : s[j] = v
      BY <1>0, <2>2 DEF OrderOK, ToSet, s, N
    <3> QED BY <1>9, <2>1, <3>1
  <2>3. CASE v \notin Evictable(c, mode)
    <3>1. c.elem[v].at \in {"table", "defer"} /\ (c.elem[v].at = "defer" => c.elem[v].pin > 0)
      BY <1>0, <2>1, CacheTypes DEF ElemsOK, ElemOK
    <3>2. c.elem[v].at = "table" => mode /\ c.elem[v].pin # 0
      BY <2>3 DEF Evictable, ToEvict
    <3> QED BY <2>1, <3>1, <3>2
  <2> QED BY <2>2, <2>3
<1>12. ASSUME NEW i \in 1..Len(s), NEW j \in 1..Len(s), i < j, c.elem[s[i]].pin = 0,
              d.elem[s[i]].at # "none"
       PROVE  d.elem[s[j]] = c.elem[s[j]]
  <2>1. d.elem[s[i]] # NoElem
    BY <1>12 DEF NoElem
  <2> QED BY <1>1, <1>9, <1>12, <2>1
<1> HIDE DEF Fits, Oldest, Rest
<1>13. OldestGoFirst(c, d)
  BY <1>12 DEF OldestGoFirst, s
<1> QED BY <1>9, <1>10, <1>11, <1>13

\* Removing from a list, whatever is in it.
LEMMA RemovedFirstType ==
  ASSUME NEW s \in Seq(Values), NEW v
  PROVE  RemoveFirst(s, v) \in Seq(Values)
<1> DEFINE r == RemoveFirst(s, v)
<1>1. r = RemoveFirst(s, v)
  OBVIOUS
<1> HIDE DEF r
<1>2. \/ v \notin ToSet(s) /\ r = s
      \/ \E k \in 1..Len(s) :
           /\ s[k] = v /\ \A i \in 1..k - 1 : s[i] # v
           /\ r \in Seq(Values) /\ Len(r) = Len(s) - 1
           /\ \A i \in 1..Len(s) - 1 : r[i] = IF i < k THEN s[i] ELSE s[i + 1]
  BY <1>1, RemovedFirst
<1> QED BY <1>1, <1>2

LEMMA RemovedElemType ==
  ASSUME NEW c \in Caches, NEW v \in Values
  PROVE  RemoveElem(c, v) \in Caches
<1> DEFINE r == RemoveFirst(c.lru_list, v)
           e == c.elem[v]
           f == [e EXCEPT !.at = "defer"]
<1>1. r \in Seq(Values)
  BY CacheTypes, RemovedFirstType
<1>2. f \in ElemSet
  BY CacheTypes DEF ElemSet
<1>3. CASE c.elem[v].pin > 0
  <2>1. RemoveElem(c, v) = [elem |-> [c.elem EXCEPT ![v] = f], lru_list |-> r,
                            units |-> c.units, pinned |-> c.pinned - e.units]
    BY <1>3 DEF Caches, RemoveElem, Unlink
  <2> HIDE DEF r, f
  <2> QED BY <1>1, <1>2, <2>1, CacheTypes DEF Caches
<1>4. CASE ~(c.elem[v].pin > 0)
  <2>1. RemoveElem(c, v) = [elem |-> [c.elem EXCEPT ![v] = NoElem], lru_list |-> r,
                            units |-> c.units - e.units, pinned |-> c.pinned]
    BY <1>4 DEF Caches, RemoveElem, Unlink, Discard
  <2>2. e.units \in Nat /\ c.units \in Int /\ c.pinned \in Int
    BY CacheTypes
  <2>3. [c.elem EXCEPT ![v] = NoElem] \in [Values -> ElemSet]
    BY CacheTypes, NoElemType
  <2> HIDE DEF r, f, e
  <2> QED BY <1>1, <2>1, <2>2, <2>3 DEF Caches
<1> QED BY <1>3, <1>4

\* RemoveAll keeps the cache good and empties the table.
LEMMA AllRemoved ==
  ASSUME NEW mode, NEW t \in Int, NEW c, Good(c, mode, t), NEW d, d = WithoutAll(c)
  PROVE  Good(d, mode, t) /\ Less(c, d) /\ \A v \in Values : d.elem[v].at # "table"
<1> DEFINE T == {v \in Values : c.elem[v].at = "table"}
           C == LessOf(c, mode, t)
           any == [x \in SUBSET T |-> AnyOf(x)]
           P(g) == g = [x \in SUBSET T |-> IF x = {} THEN c
                                           ELSE RemoveElem(g[x \ {AnyOf(x)}], AnyOf(x))]
<1>0. c \in C /\ c \in Caches
  BY LessOfFacts DEF Good
<1>1. IsFiniteSet(T) /\ T \subseteq Values
  BY LRUAssumption, FS_Subset
<1>2. d = (CHOOSE g : P(g))[T]
  BY DEF WithoutAll, FoldSet, MapThenFoldSet, AnyOf
<1> HIDE DEF T
<1>3. Chooses(any, T) /\ \A x \in SUBSET T : any[x] = AnyOf(x)
  BY AnyOfIn DEF Chooses
<1> DEFINE F == [v \in T |-> [b \in Caches |-> RemoveElem(b, v)]]
<1> HIDE DEF any
<1>4. \E g : P(g)
  <2>1. \A v \in T, b \in Caches : F[v][b] \in Caches
    BY <1>1, RemovedElemType
  <2> HIDE DEF F
  <2>2. PICK g : Folds(g, T, c, F, any) /\ \A x \in SUBSET T : g[x] \in Caches
    <3>1. IsFiniteSet(T) /\ Chooses(any, T) /\ c \in Caches
      BY <1>0, <1>1, <1>3
    <3> QED BY ONLY <2>1, <3>1, FoldTyped
  <2> DEFINE h == [x \in SUBSET T |-> IF x = {} THEN c ELSE RemoveElem(g[x \ {AnyOf(x)}], AnyOf(x))]
  <2>3. ASSUME NEW x \in SUBSET T PROVE g[x] = h[x]
    <3>1. CASE x = {}
      BY <2>2, <3>1 DEF Folds
    <3>2. CASE x # {}
      <4>1. AnyOf(x) \in T /\ x \ {AnyOf(x)} \in SUBSET T
        BY <3>2, AnyOfIn
      <4>2. g[x] = F[AnyOf(x)][g[x \ {AnyOf(x)}]]
        BY <1>3, <2>2, <3>2 DEF Folds
      <4>3. g[x \ {AnyOf(x)}] \in Caches
        BY <2>2, <4>1
      <4> QED BY <3>2, <4>1, <4>2, <4>3 DEF F
    <3> QED BY <3>1, <3>2
  <2>4. g = [x \in SUBSET T |-> g[x]] /\ h = [x \in SUBSET T |-> h[x]]
    BY <2>2 DEF Folds
  <2>5. g = h
    <3> HIDE DEF h
    <3> QED BY <2>3, <2>4
  <2> QED BY <2>5
<1> DEFINE it == CHOOSE g : P(g)
<1>5. P(it)
  <2> HIDE DEF P
  <2> QED BY <1>4
<1> HIDE DEF it, F, C
<1> DEFINE Gone(b, x) == /\ \A v \in x : b.elem[v].at # "table"
                         /\ \A v \in Values \ x : b.elem[v] = c.elem[v]
           G == {x \in SUBSET T : it[x] \in C /\ Gone(it[x], x)}
<1>6. {} \in G
  <2>1. it[{}] = c
    BY <1>5
  <2> QED BY <1>0, <2>1
<1>7. ASSUME NEW x \in SUBSET T, x # {}, x \ {any[x]} \in G PROVE x \in G
  <2> DEFINE v == AnyOf(x)
             y == x \ {v}
             b == it[y]
  <2>1. v \in x /\ v \in T /\ v \in Values /\ any[x] = v
    BY <1>1, <1>3, <1>7, AnyOfIn
  <2>2. it[x] = RemoveElem(b, v)
    BY <1>5, <1>7
  <2>3. b \in C /\ Gone(b, y)
    BY <1>7, <2>1
  <2>4. x = y \cup {v} /\ v \notin y
    BY <2>1
  <2> HIDE DEF v, y, b
  <2>5. Good(b, mode, t) /\ b.elem[v].at = "table"
    BY <2>1, <2>3, <2>4 DEF C, LessOf, T
  <2>6. /\ Good(it[x], mode, t) /\ Less(b, it[x]) /\ it[x].elem[v].at # "table"
        /\ \A w \in Values \ {v} : it[x].elem[w] = b.elem[w]
    BY <2>1, <2>2, <2>5, Removed
  <2>7. it[x] \in C
    BY <2>3, <2>6, LessOfFacts DEF C
  <2>8. Gone(it[x], x)
    BY <1>1, <2>1, <2>3, <2>4, <2>6
  <2> QED BY <2>7, <2>8
<1> HIDE DEF G
<1>8. SUBSET T \subseteq G
  BY <1>1, <1>3, <1>6, <1>7, ChosenInduction
<1>9. d \in C /\ Gone(d, T)
  <2>1. d = it[T]
    BY <1>2 DEF it
  <2> HIDE DEF Gone
  <2> QED BY <1>8, <2>1 DEF G
<1>10. \A v \in Values : d.elem[v].at # "table"
  BY <1>9 DEF T
<1> QED BY <1>9, <1>10 DEF C, LessOf

-----------------------------------------------------------------------------
(* Pins and insertions *)

\* Taking away changes no pins and keeps an overfull cache full of pins.
LEMMA LessPins ==
  ASSUME NEW c \in Caches, NEW d \in Caches, Less(c, d)
  PROVE  /\ \A v \in Values : d.elem[v].pin = c.elem[v].pin
         /\ \A m \in Int : FullOfPins(c, m) => FullOfPins(d, m)
<1>1. ASSUME NEW v \in Values
      PROVE  /\ d.elem[v].pin = c.elem[v].pin
             /\ d.elem[v].at # "none" => c.elem[v].at # "none"
  <2>1. LessElem(c.elem[v], d.elem[v]) /\ c.elem[v] \in ElemSet
    BY CacheTypes DEF Less
  <2>2. CASE d.elem[v] = c.elem[v]
    BY <2>2
  <2>3. CASE d.elem[v] = NoElem /\ c.elem[v].pin = 0
    BY <2>3 DEF NoElem
  <2>4. CASE c.elem[v].at = "table" /\ d.elem[v] = [c.elem[v] EXCEPT !.at = "defer"]
    BY <2>1, <2>4 DEF ElemSet
  <2> QED BY <2>1, <2>2, <2>3, <2>4 DEF LessElem
<1>2. c.units \in Int /\ d.units \in Int /\ d.units <= c.units
  BY CacheTypes DEF Less
<1>3. ASSUME NEW m \in Int, FullOfPins(c, m) PROVE FullOfPins(d, m)
  BY <1>1, <1>2, <1>3 DEF FullOfPins
<1> QED BY <1>1, <1>3

\* The cache with the entry of v replaced and a new list.
Changed(c, v, f, list) ==
  [elem |-> [c.elem EXCEPT ![v] = f], lru_list |-> list,
   units |-> c.units + (f.units - c.elem[v].units),
   pinned |-> c.pinned + (PinnedUnits(f) - PinnedUnits(c.elem[v]))]

LEMMA ChangedFacts ==
  ASSUME NEW t \in Int, NEW c \in Caches, ElemsOK(c, t), OneEach(c), SumsOK(c),
         NEW v \in Values, NEW f \in ElemSet, ElemOK(f, t),
         \A w \in Values \ {v} : f.at = "table" /\ c.elem[w].at = "table" => c.elem[w].key # f.key,
         NEW list \in Seq(Values), NEW d, d = Changed(c, v, f, list)
  PROVE  /\ d \in Caches /\ Becomes(c, d, v, f) /\ d.lru_list = list
         /\ ElemsOK(d, t) /\ OneEach(d) /\ SumsOK(d)
         /\ d.elem[v] = f /\ \A w \in Values \ {v} : d.elem[w] = c.elem[w]
         /\ d.units = c.units + (f.units - c.elem[v].units)
<1> DEFINE elem == [c.elem EXCEPT ![v] = f]
           units == c.units + (f.units - c.elem[v].units)
           pinned == c.pinned + (PinnedUnits(f) - PinnedUnits(c.elem[v]))
<1>1. f.units \in Nat /\ PinnedUnits(f) \in Nat
  BY DEF ElemSet, PinnedUnits
<1>2. elem \in [Values -> ElemSet] /\ units \in Int /\ pinned \in Int
  BY <1>1, CacheTypes
<1>3. d.elem = elem /\ d.lru_list = list /\ d.units = units /\ d.pinned = pinned
  BY DEF Changed
<1>4. Becomes(c, d, v, f)
  BY <1>3 DEF Becomes
<1>5. elem[v] = f /\ \A w \in Values \ {v} : elem[w] = c.elem[w]
  BY CacheTypes
<1>6. d = [elem |-> elem, lru_list |-> list, units |-> units, pinned |-> pinned]
  BY DEF Changed
<1> HIDE DEF elem, units, pinned
<1>7. d \in Caches
  BY <1>2, <1>6 DEF Caches
<1>8. ElemsOK(d, t) /\ OneEach(d) /\ SumsOK(d)
  BY <1>4, <1>7, OneChanged
<1> QED BY <1>3, <1>4, <1>5, <1>7, <1>8 DEF units

\* Lookup and Release change one entry, but for a last Release that drops it from
\* an overfull cache.
PinnedOnce(c, d, v) ==
  /\ d.units = c.units /\ d.elem[v].pin = c.elem[v].pin + 1
  /\ \A w \in Values \ {v} : d.elem[w] = c.elem[w]
ReleasedOnce(c, d, v, m) ==
  /\ d.elem[v].pin = c.elem[v].pin - 1
  /\ \A w \in Values \ {v} : d.elem[w] = c.elem[w]
  /\ c.elem[v].at = "table" /\ ~(c.units > m)
       => d.elem[v].at = "table" /\ d.elem[v].key = c.elem[v].key

\* A lookup pins what it found.
LEMMA Pinned ==
  ASSUME lru \in BOOLEAN, NEW t \in Int, NEW c, Good(c, lru, t), NEW v \in Values,
         c.elem[v].at = "table", NEW o \in {TRUE}, NEW d, d = Pin(c, v, o)
  PROVE  Good(d, lru, t) /\ PinnedOnce(c, d, v)
<1> USE DEF PinnedOnce
<1> DEFINE e == c.elem[v]
           f == [at |-> "table", key |-> e.key, pin |-> e.pin + 1, units |-> e.units,
                 last_use |-> e.last_use]
           gain == IF e.pin = 0 THEN e.units ELSE 0
<1>0. c \in Caches /\ ElemsOK(c, t) /\ OneEach(c) /\ SumsOK(c) /\ OrderOK(c, lru)
  BY DEF Good
<1>1. e \in ElemSet /\ e.pin \in Nat /\ e.units \in Nat /\ e.at = "table" /\ e.last_use <= t
  BY <1>0, CacheTypes DEF ElemsOK, ElemOK
<1>2. f \in ElemSet /\ ElemOK(f, t) /\ f.pin = e.pin + 1
  BY <1>1 DEF ElemSet, ElemOK
<1>3. [c.elem EXCEPT ![v].pin = @ + 1] = [c.elem EXCEPT ![v] = f]
  <2>1. [e EXCEPT !.pin = @ + 1] = f
    BY <1>1 DEF ElemSet
  <2> HIDE DEF f
  <2> QED BY <2>1, Zenon
<1>4. /\ PinnedUnits(f) - PinnedUnits(e) = gain /\ gain \in Int
      /\ f.units - e.units = 0 /\ c.units \in Int
  BY <1>0, <1>1, CacheTypes DEF PinnedUnits
<1>5. \A w \in Values \ {v} : f.at = "table" /\ c.elem[w].at = "table" => c.elem[w].key # f.key
  BY <1>0, <1>1 DEF OneEach
<1>6. CASE e.pin = 0 /\ lru
  <2>1. d = [elem |-> [c.elem EXCEPT ![v].pin = @ + 1], lru_list |-> RemoveFirst(c.lru_list, v),
             units |-> c.units, pinned |-> c.pinned + gain]
    BY <1>0, <1>6 DEF Caches, Pin, Unlink
  <2>2. RemoveFirst(c.lru_list, v) \in Seq(Values) /\ ~ToEvict(f, lru)
    BY <1>0, <1>1, <1>6, CacheTypes, RemovedFirstType DEF ToEvict
  <2> HIDE DEF f, gain, e
  <2>3. c.units = c.units + (f.units - e.units)
    BY <1>4
  <2>4. d = Changed(c, v, f, RemoveFirst(c.lru_list, v))
    BY <1>3, <1>4, <2>1, <2>3, Zenon DEF Changed, e
  <2>5. /\ d \in Caches /\ Becomes(c, d, v, f) /\ d.lru_list = RemoveFirst(c.lru_list, v)
        /\ ElemsOK(d, t) /\ OneEach(d) /\ SumsOK(d)
        /\ d.elem[v] = f /\ \A w \in Values \ {v} : d.elem[w] = c.elem[w]
    BY <1>0, <1>2, <1>5, <2>2, <2>4, ChangedFacts
  <2>6. OrderOK(d, lru)
    BY <1>0, <2>2, <2>5, OrderShrinks
  <2>7. d.units = c.units
    BY <2>1
  <2> QED BY <1>2, <2>5, <2>6, <2>7 DEF Good, e
<1>7. CASE ~(e.pin = 0 /\ lru)
  <2>1. d = [elem |-> [c.elem EXCEPT ![v].pin = @ + 1], lru_list |-> c.lru_list,
             units |-> c.units, pinned |-> c.pinned + gain]
    BY <1>0, <1>7 DEF Caches, Pin
  <2>2. /\ c.lru_list \in Seq(Values) /\ (ToEvict(f, lru) <=> ToEvict(c.elem[v], lru))
        /\ f.last_use = e.last_use
    BY <1>0, <1>1, <1>7, CacheTypes DEF ToEvict
  <2> HIDE DEF f, gain, e
  <2>3. c.units = c.units + (f.units - e.units)
    BY <1>4
  <2>4. d = Changed(c, v, f, c.lru_list)
    BY <1>3, <1>4, <2>1, <2>3, Zenon DEF Changed, e
  <2>5. /\ d \in Caches /\ Becomes(c, d, v, f) /\ d.lru_list = c.lru_list
        /\ ElemsOK(d, t) /\ OneEach(d) /\ SumsOK(d)
        /\ d.elem[v] = f /\ \A w \in Values \ {v} : d.elem[w] = c.elem[w]
    BY <1>0, <1>2, <1>5, <2>2, <2>4, ChangedFacts
  <2>6. OrderOK(d, lru)
    BY <1>0, <2>2, <2>5, OrderStays DEF e
  <2>7. d.units = c.units
    BY <2>1
  <2> QED BY <1>2, <2>5, <2>6, <2>7 DEF Good, e
<1> QED BY <1>6, <1>7

\* A release takes one pin away.  The last one discards a deferred entry, and one
\* of the table if the cache is overfull.
LEMMA Released ==
  ASSUME lru \in BOOLEAN, now \in Nat, max \in Nat, NEW c, Good(c, lru, now), FullOfPins(c, max),
         NEW v \in Values, c.elem[v].pin > 0, NEW o \in {TRUE}, NEW d, d = Unpin(c, v, o)
  PROVE  Good(d, lru, now) /\ FullOfPins(d, max) /\ ReleasedOnce(c, d, v, max)
<1> USE DEF ReleasedOnce
<1> DEFINE e == c.elem[v]
           deferred == e.at = "defer"
           use == IF ~deferred /\ lru THEN now ELSE e.last_use
           f == [at |-> e.at, key |-> e.key, pin |-> e.pin - 1, units |-> e.units, last_use |-> use]
           b(x) == [c EXCEPT !.elem[v] = x]
           link(x) == IF lru /\ o THEN Link(b(x), v) ELSE b(x)
           free(x) == [link(x) EXCEPT !.pinned = @ - x.units]
           result(x) == IF x.pin > 0 THEN b(x)
                        ELSE IF deferred THEN Discard(b(x), v)
                        ELSE IF Overfull(free(x), max) THEN RemoveKey(free(x), x.key) ELSE free(x)
<1>0. /\ c \in Caches /\ ElemsOK(c, now) /\ OneEach(c) /\ SumsOK(c) /\ OrderOK(c, lru)
      /\ now \in Int
  BY DEF Good
<1>1. /\ e \in ElemSet /\ e.pin \in Nat \ {0} /\ e.units \in Nat /\ e.last_use \in Int
      /\ e.at \in {"table", "defer"} /\ e.last_use <= now
  BY <1>0, CacheTypes DEF ElemsOK, ElemOK, NoElem
<1>2. use \in Int /\ use <= now /\ (~lru => use = e.last_use)
      /\ (lru /\ e.at = "table" => use = now) /\ (deferred => use = e.last_use)
  BY <1>0, <1>1
<1>3. /\ f \in ElemSet /\ f.pin = e.pin - 1 /\ f.units = e.units /\ f.at = e.at
      /\ f.key = e.key /\ f.last_use = use
  <2> HIDE DEF use
  <2> QED BY <1>1, <1>2 DEF ElemSet
<1>4. [c.elem[v] EXCEPT !.pin = @ - 1, !.last_use = IF ~deferred /\ lru /\ o THEN now ELSE @] = f
  <2> DEFINE g == [at |-> e.at, key |-> e.key, pin |-> e.pin - 1, units |-> e.units,
                   last_use |-> e.last_use]
  <2>1. [e EXCEPT !.pin = @ - 1] = g
    BY <1>1 DEF ElemSet
  <2>2. [g EXCEPT !.last_use = use] = f
    <3> HIDE DEF use, e
    <3> QED OBVIOUS
  <2>3. (IF ~deferred /\ lru /\ o THEN now ELSE e.last_use) = use
    OBVIOUS
  <2> HIDE DEF use, f, g
  <2> QED BY <2>1, <2>2, <2>3, Zenon DEF e
<1>5. d = result(f)
  <2> DEFINE g == [c.elem[v] EXCEPT !.pin = @ - 1,
                                    !.last_use = IF ~deferred /\ lru /\ o THEN now ELSE @]
  <2>1. d = result(g)
    BY DEF Unpin
  <2>2. g = f
    BY <1>4
  <2> HIDE DEF f, g, result
  <2> QED BY <2>1, <2>2, Zenon
<1> HIDE DEF f, result
<1>6. b(f) = [elem |-> [c.elem EXCEPT ![v] = f], lru_list |-> c.lru_list,
           units |-> c.units, pinned |-> c.pinned]
  BY <1>0 DEF Caches
<1>7. c.lru_list \in Seq(Values) /\ c.units \in Int /\ c.pinned \in Int
  BY <1>0, CacheTypes
<1>8. \A w \in Values \ {v} : f.at = "table" /\ c.elem[w].at = "table" => c.elem[w].key # f.key
  BY <1>0, <1>1, <1>3 DEF OneEach
<1>9. e.pin > 0 /\ f.pin \in Nat /\ (f.pin > 0 \/ f.pin = 0) /\ f.units - e.units = 0
  BY <1>1, <1>3
<1>10. CASE f.pin > 0
  <2>1. d = b(f)
    BY <1>5, <1>10 DEF result
  <2>2. PinnedUnits(f) - PinnedUnits(e) = 0
    BY <1>1, <1>3, <1>9, <1>10 DEF PinnedUnits
  <2>3. ElemOK(f, now)
    BY <1>1, <1>2, <1>3, <1>10 DEF ElemOK
  <2>4. (ToEvict(f, lru) <=> ToEvict(c.elem[v], lru)) /\ (ToEvict(f, lru) => f.last_use = e.last_use)
    BY <1>1, <1>2, <1>3, <1>9, <1>10 DEF ToEvict
  <2>5. /\ c.units = c.units + (f.units - c.elem[v].units)
        /\ c.pinned = c.pinned + (PinnedUnits(f) - PinnedUnits(c.elem[v]))
    BY <1>7, <1>9, <2>2
  <2> HIDE DEF b, e, use
  <2>6. d = Changed(c, v, f, c.lru_list)
    BY <1>6, <2>1, <2>5, Zenon DEF Changed
  <2>7. /\ d \in Caches /\ Becomes(c, d, v, f) /\ d.lru_list = c.lru_list
        /\ ElemsOK(d, now) /\ OneEach(d) /\ SumsOK(d)
        /\ d.elem[v] = f /\ \A w \in Values \ {v} : d.elem[w] = c.elem[w]
    BY <1>0, <1>3, <1>7, <1>8, <2>3, <2>6, ChangedFacts
  <2>8. OrderOK(d, lru)
    BY <1>0, <2>4, <2>7, OrderStays DEF e
  <2>9. d.units = c.units
    BY <1>6, <2>1
  <2>10. FullOfPins(d, max)
    BY <1>10, <2>7, <2>9 DEF FullOfPins
  <2> QED BY <1>3, <2>7, <2>8, <2>10 DEF Good, e
<1>11. CASE f.pin = 0 /\ deferred
  <2>1. d = Discard(b(f), v)
    BY <1>5, <1>11 DEF result
  <2>2. d = [elem |-> [c.elem EXCEPT ![v] = NoElem], lru_list |-> c.lru_list,
             units |-> c.units - e.units, pinned |-> c.pinned]
    <3>1. b(f).elem[v] = f
      <4> HIDE DEF b
      <4> QED BY <1>0, <1>6, CacheTypes
    <3>2. d = [b(f) EXCEPT !.units = @ - b(f).elem[v].units, !.elem[v] = NoElem]
      BY <2>1 DEF Discard
    <3>3. [[c.elem EXCEPT ![v] = f] EXCEPT ![v] = NoElem] = [c.elem EXCEPT ![v] = NoElem]
      BY <1>0, CacheTypes
    <3> DEFINE g == b(f)
               el == [c.elem EXCEPT ![v] = f]
               none == [c.elem EXCEPT ![v] = NoElem]
    <3>4. /\ g = [elem |-> el, lru_list |-> c.lru_list, units |-> c.units, pinned |-> c.pinned]
          /\ [el EXCEPT ![v] = NoElem] = none /\ g.elem[v].units = e.units
          /\ d = [g EXCEPT !.units = @ - g.elem[v].units, !.elem[v] = NoElem]
      BY <1>3, <1>6, <3>1, <3>2, <3>3
    <3> HIDE DEF g, el, none, e
    <3>5. d = [elem |-> none, lru_list |-> c.lru_list, units |-> c.units - e.units,
               pinned |-> c.pinned]
      BY ONLY <3>4
    <3> QED BY <3>5 DEF none
  <2>3. PinnedUnits(e) = 0 /\ PinnedUnits(NoElem) = 0 /\ NoElem \in ElemSet /\ NoElem.units = 0
    BY <1>11, NoElemType DEF PinnedUnits
  <2>4. ElemOK(NoElem, now) /\ ~ToEvict(NoElem, lru) /\ ~ToEvict(c.elem[v], lru) /\ NoElem.at # "table"
    BY <1>11 DEF ElemOK, ToEvict, NoElem
  <2>5. /\ c.units - e.units = c.units + (NoElem.units - c.elem[v].units)
        /\ c.pinned = c.pinned + (PinnedUnits(NoElem) - PinnedUnits(c.elem[v]))
    BY <1>1, <1>7, <2>3
  <2>6. d = Changed(c, v, NoElem, c.lru_list)
    <3> HIDE DEF e
    <3> QED BY <2>2, <2>5, Zenon DEF Changed
  <2>7. /\ d \in Caches /\ Becomes(c, d, v, NoElem) /\ d.lru_list = c.lru_list
        /\ ElemsOK(d, now) /\ OneEach(d) /\ SumsOK(d)
        /\ d.elem[v] = NoElem /\ \A w \in Values \ {v} : d.elem[w] = c.elem[w]
    BY <1>0, <1>7, <2>3, <2>4, <2>6, ChangedFacts
  <2>8. OrderOK(d, lru)
    BY <1>0, <2>4, <2>7, OrderStays
  <2>9. d.units <= c.units /\ d.units \in Int
    BY <1>1, <1>7, <2>2
  <2>10. FullOfPins(d, max)
    <3>1. NoElem.at = "none" /\ max \in Int
      BY DEF NoElem
    <3>2. d.units > max => c.units > max
      <4>1. \A x, y, z \in Int : x <= y /\ x > z => y > z
        OBVIOUS
      <4> QED BY ONLY <1>7, <2>9, <3>1, <4>1
    <3> QED BY <2>7, <3>1, <3>2 DEF FullOfPins
  <2>11. d.elem[v].pin = e.pin - 1 /\ e.at # "table"
    BY <1>3, <1>11, <2>7, NoElemType
  <2> QED BY <2>7, <2>8, <2>10, <2>11 DEF Good
<1>12. CASE f.pin = 0 /\ ~deferred
  <2> DEFINE list == IF lru THEN Append(c.lru_list, v) ELSE c.lru_list
             g == free(f)
  <2>1. d = IF Overfull(g, max) THEN RemoveKey(g, f.key) ELSE g
    BY <1>5, <1>12 DEF result
  <2>2. e.at = "table" /\ f.at = "table"
    BY <1>1, <1>3, <1>12
  <2>3. g = [elem |-> [c.elem EXCEPT ![v] = f], lru_list |-> list,
             units |-> c.units, pinned |-> c.pinned - f.units]
    <3>1. CASE lru
      <4>1. g = [Link(b(f), v) EXCEPT !.pinned = @ - f.units]
        BY <3>1
      <4>2. list = Append(c.lru_list, v)
        BY <3>1
      <4> DEFINE h == b(f)
                 el == [c.elem EXCEPT ![v] = f]
      <4>3. /\ h = [elem |-> el, lru_list |-> c.lru_list, units |-> c.units, pinned |-> c.pinned]
            /\ g = [Link(h, v) EXCEPT !.pinned = @ - f.units]
        BY <1>6, <4>1
      <4> HIDE DEF h, el, list, g
      <4>4. g = [elem |-> el, lru_list |-> list, units |-> c.units, pinned |-> c.pinned - f.units]
        BY ONLY <4>2, <4>3 DEF Link
      <4> QED BY <4>4 DEF el
    <3>2. CASE ~lru
      <4>1. g = [b(f) EXCEPT !.pinned = @ - f.units]
        BY <3>2
      <4>2. list = c.lru_list
        BY <3>2
      <4> HIDE DEF b, list, g
      <4> QED BY <1>6, <4>1, <4>2
    <3> QED BY <3>1, <3>2
  <2>4. list \in Seq(Values)
    BY <1>7, Appended
  <2>5. PinnedUnits(f) = 0 /\ PinnedUnits(e) = e.units
    BY <1>9, <1>12, <2>2 DEF PinnedUnits
  <2>6. /\ c.units = c.units + (f.units - c.elem[v].units)
        /\ c.pinned - f.units = c.pinned + (PinnedUnits(f) - PinnedUnits(c.elem[v]))
    BY <1>1, <1>3, <1>7, <1>9, <2>5
  <2>7. ElemOK(f, now) /\ ToEvict(f, lru)
    BY <1>2, <1>3, <1>12, <2>2 DEF ElemOK, ToEvict
  <2> HIDE DEF g, list
  <2>8. g = Changed(c, v, f, list)
    <3> HIDE DEF e
    <3> QED BY <2>3, <2>6, Zenon DEF Changed
  <2>9. /\ g \in Caches /\ Becomes(c, g, v, f) /\ g.lru_list = list
        /\ ElemsOK(g, now) /\ OneEach(g) /\ SumsOK(g)
        /\ g.elem[v] = f /\ \A w \in Values \ {v} : g.elem[w] = c.elem[w]
    BY <1>0, <1>3, <1>8, <2>4, <2>7, <2>8, ChangedFacts
  <2>10. OrderOK(g, lru)
    <3>1. CASE lru
      <4>1. g.lru_list = Append(c.lru_list, v) /\ ~ToEvict(c.elem[v], lru) /\ f.last_use = now
        BY <1>2, <1>3, <1>9, <2>2, <2>9, <3>1 DEF ToEvict, list
      <4> QED BY <1>0, <2>7, <2>9, <4>1, OrderGrows
    <3>2. CASE ~lru
      <4>1. g.lru_list = c.lru_list /\ ToEvict(c.elem[v], lru) /\ f.last_use = e.last_use
        BY <1>2, <1>3, <2>2, <2>9, <3>2 DEF ToEvict, list
      <4> QED BY <1>0, <2>7, <2>9, <4>1, OrderStays
    <3> QED BY <3>1, <3>2
  <2>11. Good(g, lru, now) /\ g.units = c.units /\ InTable(g, f.key) = {v}
    <3>1. g.units = c.units
      BY <2>3
    <3>2. InTable(g, f.key) = {v}
      BY <2>2, <2>9 DEF InTable, OneEach
    <3> QED BY <2>9, <2>10, <3>1, <3>2 DEF Good
  <2>12. CASE ~(g.units > max)
    <3>1. d = g
      BY <2>1, <2>12 DEF Overfull
    <3>2. FullOfPins(d, max)
      BY <2>12, <3>1 DEF FullOfPins
    <3> QED BY <1>3, <2>2, <2>9, <2>11, <3>1, <3>2
  <2>13. CASE g.units > max
    <3>1. d = RemoveKey(g, f.key)
      BY <2>1, <2>13 DEF Overfull
    <3>2. /\ Good(d, lru, now) /\ Less(g, d)
          /\ \A w \in Values : g.elem[w].key # f.key \/ g.elem[w].at # "table"
                               => d.elem[w] = g.elem[w]
          /\ \A w \in InTable(g, f.key) : g.elem[w].pin = 0 => d.elem[w] = NoElem
      <4> HIDE DEF free, b
      <4> QED BY <1>0, <2>11, <3>1, RemovedKey
    <3>3. d.elem[v] = NoElem
      BY <1>12, <2>9, <2>11, <3>2
    <3>4. \A w \in Values \ {v} : d.elem[w] = c.elem[w]
      <4>1. \A w \in Values \ {v} : g.elem[w].key # f.key \/ g.elem[w].at # "table"
        BY <2>11 DEF InTable
      <4> QED BY <2>9, <3>2, <4>1
    <3>5. FullOfPins(d, max)
      <4>1. \A w \in Values : c.elem[w].at # "none" => c.elem[w].pin > 0
        BY <2>11, <2>13 DEF FullOfPins
      <4>2. d.elem[v].at = "none"
        BY <3>3 DEF NoElem
      <4>3. \A w \in Values : d.elem[w].at # "none" => d.elem[w].pin > 0
        BY <3>4, <4>1, <4>2
      <4> QED BY <4>3 DEF FullOfPins
    <3>6. d.elem[v].pin = e.pin - 1 /\ c.units > max
      BY <1>3, <1>12, <2>11, <2>13, <3>3, NoElemType
    <3> QED BY <3>2, <3>4, <3>5, <3>6
  <2> QED BY <2>12, <2>13
<1> QED BY <1>9, <1>10, <1>11, <1>12

\* Where an unpinned entry of the list of c is left, so is everything after it but
\* what was under k.
ReplacesInOrder(c, d, k) ==
  \A i, j \in 1..Len(c.lru_list) :
    /\ i < j /\ c.elem[c.lru_list[i]].pin = 0 /\ d.elem[c.lru_list[i]].at # "none"
    /\ c.elem[c.lru_list[j]].key # k
    => d.elem[c.lru_list[j]].at # "none"

\* A new entry replaces what was under its key and is pinned; then the cache is
\* made to fit.
LEMMA Inserted ==
  ASSUME lru \in BOOLEAN, now \in Nat, max \in Nat, NEW c, Good(c, lru, now),
         NEW k \in Keys, NEW v \in Values, c.elem[v].at = "none", NEW u \in Nat,
         NEW d, d = InsertPinned(c, k, v, u)
  PROVE  /\ Good(d, lru, now) /\ FullOfPins(d, max)
         /\ d.elem[v] = [at |-> "table", key |-> k, pin |-> 1, units |-> u, last_use |-> now]
         /\ \A w \in Values \ {v} : d.elem[w].pin = c.elem[w].pin
         /\ ReplacesInOrder(c, d, k)
<1> DEFINE f == [at |-> "table", key |-> k, pin |-> 1, units |-> u, last_use |-> now]
           r == RemoveKey(c, k)
           e == [r EXCEPT !.elem[v] = f, !.units = @ + u, !.pinned = @ + u]
           list == IF lru THEN r.lru_list ELSE Append(r.lru_list, v)
           g == IF lru THEN e ELSE Link(e, v)
<1>0. /\ c \in Caches /\ now \in Int /\ max \in Int /\ c.elem[v] = NoElem
      /\ IsInjective(c.lru_list) /\ ToSet(c.lru_list) = Evictable(c, lru)
  BY DEF Good, ElemsOK, ElemOK, OrderOK
<1>1. /\ Good(r, lru, now) /\ Less(c, r) /\ InTable(r, k) = {} /\ KeepsOrder(c, r)
      /\ \A w \in Values : c.elem[w].key # k \/ c.elem[w].at # "table" => r.elem[w] = c.elem[w]
  <2>1. r = RemoveKey(c, k)
    OBVIOUS
  <2> HIDE DEF f, r, e, list, g
  <2> QED BY <1>0, <2>1, RemovedKey
<1>2. /\ f \in ElemSet /\ f.at = "table" /\ f.pin = 1 /\ f.units = u /\ f.key = k
      /\ f.last_use = now
  BY <1>0 DEF ElemSet
<1>3. d = GarbageCollect(g, max)
  BY DEF InsertPinned
<1> HIDE DEF f, r
<1>4. /\ r \in Caches /\ ElemsOK(r, now) /\ OneEach(r) /\ SumsOK(r) /\ OrderOK(r, lru)
      /\ r.lru_list \in Seq(Values) /\ r.units \in Int /\ r.pinned \in Int
  BY <1>1, CacheTypes DEF Good
<1>5. r.elem[v] = NoElem
  BY <1>0, <1>1 DEF NoElem
<1>6. g = [elem |-> [r.elem EXCEPT ![v] = f], lru_list |-> list,
           units |-> r.units + u, pinned |-> r.pinned + u]
  <2> DEFINE el == [r.elem EXCEPT ![v] = f]
  <2>1. e = [elem |-> el, lru_list |-> r.lru_list, units |-> r.units + u, pinned |-> r.pinned + u]
    <3>1. r = [elem |-> r.elem, lru_list |-> r.lru_list, units |-> r.units, pinned |-> r.pinned]
      <4> HIDE DEF e, list, g, el
      <4> QED BY ONLY <1>4 DEF Caches
    <3>2. e = [r EXCEPT !.elem = el, !.units = @ + u, !.pinned = @ + u]
      OBVIOUS
    <3> HIDE DEF e, list, g, el
    <3> QED BY ONLY <3>1, <3>2
  <2>2. CASE lru
    <3>1. g = e /\ list = r.lru_list
      BY <2>2
    <3> HIDE DEF e, g, list, el
    <3> QED BY <2>1, <3>1 DEF el
  <2>3. CASE ~lru
    <3>1. g = Link(e, v) /\ list = Append(r.lru_list, v)
      BY <2>3
    <3> HIDE DEF e, g, list, el
    <3>2. g = [elem |-> el, lru_list |-> list, units |-> r.units + u, pinned |-> r.pinned + u]
      BY ONLY <2>1, <3>1 DEF Link
    <3> QED BY <3>2 DEF el
  <2> QED BY <2>2, <2>3
<1>7. list \in Seq(Values)
  BY <1>4, Appended
<1>8. PinnedUnits(f) = u /\ PinnedUnits(NoElem) = 0 /\ NoElem.units = 0 /\ NoElem.pin = 0
      /\ NoElem.at = "none"
  BY <1>2, NoElemType DEF PinnedUnits, NoElem
<1>9. /\ r.units + u = r.units + (f.units - r.elem[v].units)
      /\ r.pinned + u = r.pinned + (PinnedUnits(f) - PinnedUnits(r.elem[v]))
  BY <1>2, <1>4, <1>5, <1>8
<1> HIDE DEF g, list, e
<1>10. g = Changed(r, v, f, list)
  BY <1>6, <1>9, Zenon DEF Changed
<1>11. ElemOK(f, now)
  BY <1>0, <1>2 DEF ElemOK
<1>12. \A w \in Values \ {v} : f.at = "table" /\ r.elem[w].at = "table" => r.elem[w].key # f.key
  BY <1>1, <1>2 DEF InTable
<1>13. /\ g \in Caches /\ Becomes(r, g, v, f) /\ g.lru_list = list
       /\ ElemsOK(g, now) /\ OneEach(g) /\ SumsOK(g)
       /\ g.elem[v] = f /\ \A w \in Values \ {v} : g.elem[w] = r.elem[w]
  BY <1>0, <1>2, <1>4, <1>7, <1>10, <1>11, <1>12, ChangedFacts
<1>14. OrderOK(g, lru)
  <2>1. ~ToEvict(r.elem[v], lru)
    BY <1>5, <1>8 DEF ToEvict
  <2>2. CASE lru
    <3>1. ~ToEvict(f, lru) /\ g.lru_list = r.lru_list
      BY <1>2, <1>13, <2>2 DEF ToEvict, list
    <3> QED BY <1>4, <1>13, <2>1, <3>1, OrderStays
  <2>3. CASE ~lru
    <3>1. ToEvict(f, lru) /\ g.lru_list = Append(r.lru_list, v)
      BY <1>2, <1>13, <2>3 DEF ToEvict, list
    <3> QED BY <1>0, <1>2, <1>4, <1>13, <2>1, <3>1, OrderGrows
  <2> QED BY <2>2, <2>3
<1>15. Good(g, lru, now)
  BY <1>13, <1>14 DEF Good
<1>16. /\ Good(d, lru, now) /\ Less(g, d) /\ FullOfPins(d, max)
       /\ \A w \in Values : d.elem[w] = g.elem[w] \/ d.elem[w] = NoElem
       /\ OldestGoFirst(g, d)
  BY <1>0, <1>3, <1>15, Collected
<1>17. /\ \A w \in Values : d.elem[w].pin = g.elem[w].pin /\ r.elem[w].pin = c.elem[w].pin
       /\ d \in Caches
  <2>1. d \in Caches
    BY <1>16 DEF Good
  <2> QED BY <1>0, <1>1, <1>4, <1>13, <1>16, <2>1, LessPins
<1>18. d.elem[v] = f
  BY <1>2, <1>8, <1>13, <1>16, <1>17
<1>19. \A w \in Values \ {v} : d.elem[w].pin = c.elem[w].pin
  BY <1>13, <1>17
<1>20. ASSUME NEW i \in 1..Len(c.lru_list), NEW j \in 1..Len(c.lru_list), i < j,
              c.elem[c.lru_list[i]].pin = 0, d.elem[c.lru_list[i]].at # "none",
              c.elem[c.lru_list[j]].key # k
       PROVE  d.elem[c.lru_list[j]].at # "none"
  <2> DEFINE old == c.lru_list[i]
             young == c.lru_list[j]
  <2>1. /\ c.lru_list \in Seq(Values) /\ Len(c.lru_list) \in Nat
        /\ DOMAIN c.lru_list = 1..Len(c.lru_list)
        /\ r.lru_list \in Seq(Values) /\ Len(r.lru_list) \in Nat
        /\ DOMAIN r.lru_list = 1..Len(r.lru_list)
    BY <1>0, <1>4, CacheTypes, LenProperties
  <2>2. old \in Evictable(c, lru) /\ young \in Evictable(c, lru)
    BY <1>0, <2>1 DEF ToSet
  <2>3. old \in Values \ {v} /\ young \in Values \ {v}
    BY <1>0, <1>8, <2>2 DEF Evictable, ToEvict
  <2> HIDE DEF old, young
  <2>4. r.elem[young] = c.elem[young] /\ d.elem[old].at # "none" /\ c.elem[old].pin = 0
        /\ c.elem[young].at = "table"
    BY <1>1, <1>20, <2>2, <2>3 DEF old, young, Evictable, ToEvict
  <2>5. r.elem[old] = c.elem[old]
    <3>1. r.elem[old] # NoElem
      BY <1>8, <1>13, <1>16, <2>3, <2>4
    <3>2. LessElem(c.elem[old], r.elem[old])
      BY <1>1, <2>3 DEF Less
    <3> QED BY <2>4, <3>1, <3>2 DEF LessElem
  <2>6. old \in Evictable(r, lru) /\ young \in Evictable(r, lru)
    BY <2>2, <2>4, <2>5 DEF Evictable
  <2>7. PICK a \in 1..Len(r.lru_list), b \in 1..Len(r.lru_list) :
          r.lru_list[a] = old /\ r.lru_list[b] = young
    <3>1. ToSet(r.lru_list) = Evictable(r, lru)
      BY <1>4 DEF OrderOK
    <3> QED BY <2>1, <2>6, <3>1 DEF ToSet
  <2>8. a < b
    <3>1. CASE b < a
      <4>1. PICK m \in 1..Len(c.lru_list), l \in 1..Len(c.lru_list) :
              m < l /\ r.lru_list[b] = c.lru_list[m] /\ r.lru_list[a] = c.lru_list[l]
        BY <1>1, <3>1 DEF KeepsOrder
      <4>2. m = j /\ l = i
        BY <1>0, <2>1, <2>7, <4>1 DEF IsInjective, old, young
      <4> QED BY <1>20, <2>1, <4>1, <4>2
    <3>2. CASE a = b
      <4>1. c.lru_list[i] = c.lru_list[j]
        BY <2>7, <3>2 DEF old, young
      <4>2. i = j
        BY <1>0, <2>1, <4>1 DEF IsInjective
      <4> QED BY <1>20, <2>1, <4>2
    <3> QED BY <2>1, <3>1, <3>2
  <2>9. /\ a \in 1..Len(g.lru_list) /\ b \in 1..Len(g.lru_list)
        /\ g.lru_list[a] = old /\ g.lru_list[b] = young
    <3>1. CASE lru
      <4>1. g.lru_list = r.lru_list
        BY <1>13, <3>1 DEF list
      <4> QED BY <2>7, <4>1
    <3>2. CASE ~lru
      <4>1. g.lru_list = Append(r.lru_list, v)
        BY <1>13, <3>2 DEF list
      <4> QED BY <2>1, <2>7, <4>1, AppendProperties
    <3> QED BY <3>1, <3>2
  <2>10. g.elem[old].pin = 0 /\ g.elem[young] = c.elem[young]
    BY <1>13, <2>3, <2>4, <2>5
  <2>11. d.elem[young] = c.elem[young]
    BY <1>16, <2>4, <2>8, <2>9, <2>10 DEF OldestGoFirst
  <2> QED BY <2>4, <2>11 DEF young
<1>21. ReplacesInOrder(c, d, k)
  BY <1>20 DEF ReplacesInOrder
<1> QED BY <1>16, <1>18, <1>19, <1>21 DEF f

\* What UpdateSize does before it collects.
Resize(c, v, u) ==
  [c EXCEPT !.elem[v].units = u, !.units = @ - c.elem[v].units + u,
            !.pinned = @ + (IF c.elem[v].at = "table" /\ c.elem[v].pin > 0
                            THEN u - c.elem[v].units ELSE 0)]

\* The same entries, with the same pins.
SamePins(c, d) ==
  \A w \in Values : d.elem[w].pin = c.elem[w].pin /\ d.elem[w].at = c.elem[w].at

\* The size of an entry changes, in the table or deferred.
LEMMA Resized ==
  ASSUME NEW mode, NEW t \in Int, NEW c, Good(c, mode, t), NEW v \in Values,
         c.elem[v].at # "none", NEW u \in Nat, NEW d, d = Resize(c, v, u)
  PROVE  Good(d, mode, t) /\ d.lru_list = c.lru_list /\ SamePins(c, d)
<1> DEFINE e == c.elem[v]
           f == [at |-> e.at, key |-> e.key, pin |-> e.pin, units |-> u, last_use |-> e.last_use]
           gain == IF e.at = "table" /\ e.pin > 0 THEN u - e.units ELSE 0
           el == [c.elem EXCEPT ![v] = f]
<1>0. c \in Caches /\ ElemsOK(c, t) /\ OneEach(c) /\ SumsOK(c) /\ OrderOK(c, mode)
  BY DEF Good
<1>1. /\ e \in ElemSet /\ e.pin \in Nat /\ e.units \in Nat /\ ElemOK(e, t) /\ e.at # "none"
      /\ c.units \in Int /\ c.pinned \in Int /\ c.lru_list \in Seq(Values)
  BY <1>0, CacheTypes DEF ElemsOK
<1>2. /\ f \in ElemSet /\ f.at = e.at /\ f.pin = e.pin /\ f.units = u /\ f.key = e.key
      /\ f.last_use = e.last_use
  BY <1>1 DEF ElemSet
<1>3. [c.elem EXCEPT ![v].units = u] = el
  <2>1. [e EXCEPT !.units = u] = f
    BY <1>1 DEF ElemSet
  <2> HIDE DEF f
  <2> QED BY <2>1, Zenon
<1>4. PinnedUnits(f) - PinnedUnits(e) = gain /\ gain \in Int
  <2> HIDE DEF f
  <2> QED BY <1>1, <1>2 DEF PinnedUnits
<1>5. d = [elem |-> el, lru_list |-> c.lru_list, units |-> c.units - e.units + u,
           pinned |-> c.pinned + gain]
  <2>1. d = [c EXCEPT !.elem = [c.elem EXCEPT ![v].units = u], !.units = @ - e.units + u,
                      !.pinned = @ + gain]
    BY DEF Resize
  <2> HIDE DEF el, gain, e
  <2>2. d = [c EXCEPT !.elem = el, !.units = @ - e.units + u, !.pinned = @ + gain]
    BY <1>3, <2>1
  <2> QED BY <1>0, <2>2 DEF Caches
<1> HIDE DEF f, gain
<1>6. /\ c.units - e.units + u = c.units + (f.units - e.units)
  BY <1>1, <1>2
<1>7. d = Changed(c, v, f, c.lru_list)
  <2> HIDE DEF e
  <2> QED BY <1>4, <1>5, <1>6, Zenon DEF Changed, e
<1>8. ElemOK(f, t) /\ \A w \in Values \ {v} : f.at = "table" /\ c.elem[w].at = "table"
                                              => c.elem[w].key # f.key
  BY <1>0, <1>1, <1>2 DEF ElemOK, OneEach
<1>9. ToEvict(f, mode) <=> ToEvict(c.elem[v], mode)
  BY <1>2 DEF ToEvict
<1>10. /\ d \in Caches /\ Becomes(c, d, v, f) /\ d.lru_list = c.lru_list
       /\ ElemsOK(d, t) /\ OneEach(d) /\ SumsOK(d)
       /\ d.elem[v] = f /\ \A w \in Values \ {v} : d.elem[w] = c.elem[w]
  BY ONLY <1>0, <1>1, <1>2, <1>7, <1>8, ChangedFacts, t \in Int, v \in Values
<1>11. OrderOK(d, mode)
  BY <1>0, <1>2, <1>9, <1>10, OrderStays
<1>12. SamePins(c, d)
  BY <1>2, <1>10 DEF SamePins
<1> QED BY <1>10, <1>11, <1>12 DEF Good

-----------------------------------------------------------------------------
(* Every step keeps the invariant *)

\* Every caller in this library leaves the option at its default: one for all.
OneOption == UpdateOrder = {TRUE}

\* Steps of the cache alone that keep every pin.
LEMMA Kept ==
  ASSUME LRUInv, UNCHANGED <<lru, max, idle, now, held>>,
         Good(cache', lru, now), FullOfPins(cache', max),
         \A v \in Values : cache'.elem[v].pin = cache.elem[v].pin
  PROVE  LRUInv'
<1> USE DEF LRUInv
<1>1. /\ lru' \in BOOLEAN /\ now' \in Nat /\ max' \in Nat /\ idle' \in Int
      /\ held' \in [Values -> [UpdateOrder -> Nat]]
  BY Zenon
<1>2. \A v \in Values, o \in UpdateOrder : cache'.elem[v].pin = held'[v][o]
  BY Zenon
<1>3. Good(cache', lru', now') /\ FullOfPins(cache', max')
  BY Zenon
<1> QED BY <1>1, <1>2, <1>3, Zenon

\* Steps that only take entries away.
LEMMA TakenAway ==
  ASSUME LRUInv, UNCHANGED <<lru, max, idle, now, held>>,
         Good(cache', lru, now), Less(cache, cache')
  PROVE  LRUInv'
<1>1. cache \in Caches /\ cache' \in Caches /\ max \in Int
  BY DEF LRUInv, Good
<1>2. \A v \in Values : cache'.elem[v].pin = cache.elem[v].pin
  BY <1>1, LessPins
<1>3. FullOfPins(cache', max)
  BY <1>1, LessPins DEF LRUInv
<1> QED BY <1>2, <1>3, Kept

\* The callers' pins of one value change.
LEMMA HeldChanged ==
  ASSUME OneOption, NEW h \in [Values -> [UpdateOrder -> Nat]], NEW v \in Values,
         NEW o \in UpdateOrder, NEW n \in Nat, NEW g, g = [h EXCEPT ![v][o] = n]
  PROVE  /\ g \in [Values -> [UpdateOrder -> Nat]]
         /\ \A p \in UpdateOrder : g[v][p] = n
         /\ \A w \in Values \ {v} : g[w] = h[w]
<1> DEFINE r == [h[v] EXCEPT ![o] = n]
<1>1. h[v] \in [UpdateOrder -> Nat]
  OBVIOUS
<1>2. r \in [UpdateOrder -> Nat] /\ \A p \in UpdateOrder : r[p] = n
  BY <1>1 DEF OneOption
<1>3. g = [h EXCEPT ![v] = r]
  OBVIOUS
<1> HIDE DEF r
<1> QED BY <1>2, <1>3

\* Steps that change the pins of one value.
LEMMA PinsChanged ==
  ASSUME OneOption, LRUInv, UNCHANGED <<lru, max, idle, now>>,
         Good(cache', lru, now), FullOfPins(cache', max),
         NEW v \in Values, NEW o \in UpdateOrder, NEW n \in Nat,
         held' = [held EXCEPT ![v][o] = n], cache'.elem[v].pin = n,
         \A w \in Values \ {v} : cache'.elem[w].pin = cache.elem[w].pin
  PROVE  LRUInv'
<1>1. /\ held' \in [Values -> [UpdateOrder -> Nat]]
      /\ \A p \in UpdateOrder : held'[v][p] = n
      /\ \A w \in Values \ {v} : held'[w] = held[w]
  BY HeldChanged DEF LRUInv
<1>2. \A w \in Values, p \in UpdateOrder : cache'.elem[w].pin = held'[w][p]
  <2> TAKE w \in Values, p \in UpdateOrder
  <2>1. CASE w = v
    BY <1>1, <2>1
  <2>2. CASE w # v
    BY <1>1, <2>2 DEF LRUInv
  <2> QED BY <2>1, <2>2
<1>3. lru' \in BOOLEAN /\ now' \in Nat /\ max' \in Nat /\ idle' \in Int
  BY Zenon DEF LRUInv
<1>4. Good(cache', lru', now') /\ FullOfPins(cache', max')
  BY Zenon
<1> QED BY <1>1, <1>2, <1>3, <1>4, Zenon DEF LRUInv

\* What the invariant says of the state, in the terms of the lemmas above.
LEMMA Facts ==
  ASSUME LRUInv
  PROVE  /\ lru \in BOOLEAN /\ now \in Nat /\ now \in Int /\ max \in Nat /\ max \in Int
         /\ idle \in Int
         /\ cache \in Caches /\ ElemsOK(cache, now) /\ OneEach(cache) /\ SumsOK(cache)
         /\ OrderOK(cache, lru) /\ Good(cache, lru, now) /\ FullOfPins(cache, max)
         /\ \A v \in Values : cache.elem[v].pin \in Nat
<1>1. cache \in Caches
  BY DEF LRUInv, Good
<1>2. \A v \in Values : cache.elem[v].pin \in Nat
  BY <1>1, CacheTypes
<1> QED BY <1>1, <1>2 DEF LRUInv, Good

LEMMA LookupKeeps ==
  ASSUME OneOption, LRUInv, NEW k \in Keys, NEW o \in UpdateOrder, LookupWithOptions(k, o)
  PROVE  LRUInv'
<1> DEFINE c == DiscardIdle(cache, idle)
<1>1. Good(c, lru, now) /\ Less(cache, c)
  <2>1. c = DiscardIdle(cache, idle)
    OBVIOUS
  <2> HIDE DEF c
  <2> QED BY <2>1, Facts, Discarded
<1>2. /\ c \in Caches /\ \A w \in Values : c.elem[w].pin = cache.elem[w].pin
      /\ FullOfPins(c, max)
  <2>1. c \in Caches
    BY <1>1 DEF Good
  <2> HIDE DEF c
  <2> QED BY <1>1, <2>1, Facts, LessPins
<1>3. CASE InTable(c, k) = {}
  <2>1. cache' = c /\ UNCHANGED <<lru, max, idle, now, held>>
    BY <1>3, Zenon DEF LookupWithOptions
  <2> HIDE DEF c
  <2> QED BY <1>1, <2>1, TakenAway
<1>4. CASE InTable(c, k) # {}
  <2>1. PICK v \in InTable(c, k) :
          /\ cache' = Pin(c, v, o) /\ held' = [held EXCEPT ![v][o] = @ + 1]
          /\ UNCHANGED <<lru, max, idle, now>>
    BY <1>4, Zenon DEF LookupWithOptions
  <2> HIDE DEF c
  <2>2. v \in Values /\ c.elem[v].at = "table" /\ o \in {TRUE}
    BY DEF InTable, OneOption
  <2>3. /\ Good(cache', lru, now) /\ cache'.units = c.units
        /\ cache'.elem[v].pin = c.elem[v].pin + 1
        /\ \A w \in Values \ {v} : cache'.elem[w] = c.elem[w]
    <3> DEFINE n == Pin(c, v, o)
    <3>1. n = Pin(c, v, o) /\ cache' = n
      BY <2>1
    <3> HIDE DEF n
    <3>2. Good(n, lru, now) /\ PinnedOnce(c, n, v)
      BY <1>1, <2>2, <3>1, Facts, Pinned
    <3> QED BY ONLY <3>1, <3>2 DEF PinnedOnce
  <2>4. FullOfPins(cache', max)
    <3>1. c.elem[v].at # "none" /\ cache'.elem[v].pin > 0
      BY <1>2, <2>2, <2>3, Facts
    <3> QED BY <1>2, <2>3, <3>1 DEF FullOfPins
  <2>5. held[v][o] + 1 \in Nat /\ held' = [held EXCEPT ![v][o] = held[v][o] + 1]
    <3>1. held[v] \in [UpdateOrder -> Nat]
      BY <2>2 DEF LRUInv
    <3> QED BY <2>1, <3>1
  <2>6. cache'.elem[v].pin = held[v][o] + 1
    BY <1>2, <2>2, <2>3 DEF LRUInv
  <2>7. \A w \in Values \ {v} : cache'.elem[w].pin = cache.elem[w].pin
    BY <1>2, <2>3
  <2> QED BY <2>1, <2>2, <2>3, <2>4, <2>5, <2>6, <2>7, PinsChanged
<1> QED BY <1>3, <1>4

LEMMA ReleaseKeeps ==
  ASSUME OneOption, LRUInv, NEW v \in Values, NEW o \in UpdateOrder, ReleaseWithOptions(v, o)
  PROVE  LRUInv'
<1>1. /\ held[v][o] > 0 /\ cache' = Unpin(cache, v, o)
      /\ held' = [held EXCEPT ![v][o] = @ - 1] /\ UNCHANGED <<lru, max, idle, now>>
  BY DEF ReleaseWithOptions
<1>2. held[v][o] \in Nat /\ cache.elem[v].pin = held[v][o] /\ o \in {TRUE}
  BY DEF LRUInv, OneOption
<1>3. /\ Good(cache', lru, now) /\ FullOfPins(cache', max)
      /\ cache'.elem[v].pin = cache.elem[v].pin - 1
      /\ \A w \in Values \ {v} : cache'.elem[w] = cache.elem[w]
  <2>1. cache.elem[v].pin > 0
    BY <1>1, <1>2
  <2> DEFINE n == Unpin(cache, v, o)
  <2>2. n = Unpin(cache, v, o) /\ cache' = n
    BY <1>1
  <2> HIDE DEF n
  <2>3. Good(n, lru, now) /\ FullOfPins(n, max) /\ ReleasedOnce(cache, n, v, max)
    BY <1>2, <2>1, <2>2, Facts, Released
  <2> QED BY ONLY <2>2, <2>3 DEF ReleasedOnce
<1>4. held[v][o] - 1 \in Nat /\ held' = [held EXCEPT ![v][o] = held[v][o] - 1]
  <2>1. held[v] \in [UpdateOrder -> Nat] /\ held[v][o] > 0
    BY <1>1 DEF LRUInv
  <2>2. held[v][o] \in Nat /\ held[v][o] > 0
    BY <1>2, <2>1
  <2>3. held' = [held EXCEPT ![v][o] = held[v][o] - 1]
    BY ONLY <1>1, <2>1
  <2>4. \A n \in Nat : n > 0 => n - 1 \in Nat
    OBVIOUS
  <2> QED BY ONLY <2>2, <2>3, <2>4
<1>5. cache'.elem[v].pin = held[v][o] - 1
  BY <1>2, <1>3
<1>6. \A w \in Values \ {v} : cache'.elem[w].pin = cache.elem[w].pin
  BY <1>3
<1> QED BY <1>1, <1>3, <1>4, <1>5, <1>6, PinsChanged

LEMMA InsertKeeps ==
  ASSUME OneOption, LRUInv, NEW k \in Keys, NEW v \in Values, NEW u \in UnitSizes,
         NEW keep \in BOOLEAN, InsertNew(k, v, u, keep)
  PROVE  LRUInv'
<1> DEFINE d == InsertPinned(cache, k, v, u)
<1>1. cache.elem[v].at = "none" /\ u \in Nat /\ UNCHANGED <<lru, max, idle, now>>
  BY LRUAssumption DEF InsertNew
<1>2. PICK o \in UpdateOrder : o = TRUE
  BY DEF OneOption
<1>3. /\ Good(d, lru, now) /\ FullOfPins(d, max) /\ d.elem[v].pin = 1
      /\ \A w \in Values \ {v} : d.elem[w].pin = cache.elem[w].pin
  <2>1. d = InsertPinned(cache, k, v, u)
    OBVIOUS
  <2> HIDE DEF d
  <2>2. /\ Good(d, lru, now) /\ FullOfPins(d, max)
        /\ d.elem[v] = [at |-> "table", key |-> k, pin |-> 1, units |-> u, last_use |-> now]
        /\ \A w \in Values \ {v} : d.elem[w].pin = cache.elem[w].pin
    BY <1>1, <2>1, Facts, Inserted
  <2> QED BY <2>2
<1>4. CASE keep
  <2>1. cache' = d /\ held' = [held EXCEPT ![v][o] = 1]
    BY <1>2, <1>4, Zenon DEF InsertNew
  <2> HIDE DEF d
  <2> QED BY <1>1, <1>3, <2>1, PinsChanged
<1>5. CASE ~keep
  <2>1. cache' = Unpin(d, v, o) /\ UNCHANGED held
    BY <1>2, <1>5, Zenon DEF InsertNew
  <2>2. o \in {TRUE} /\ d.elem[v].pin > 0
    BY <1>2, <1>3
  <2> HIDE DEF d
  <2>3. /\ Good(cache', lru, now) /\ FullOfPins(cache', max)
        /\ cache'.elem[v].pin = d.elem[v].pin - 1
        /\ \A w \in Values \ {v} : cache'.elem[w] = d.elem[w]
    <3> DEFINE n == Unpin(d, v, o)
    <3>1. n = Unpin(d, v, o) /\ cache' = n
      BY <2>1
    <3> HIDE DEF n
    <3>2. Good(n, lru, now) /\ FullOfPins(n, max) /\ ReleasedOnce(d, n, v, max)
      BY <1>3, <2>2, <3>1, Facts, Released
    <3> QED BY ONLY <3>1, <3>2 DEF ReleasedOnce
  <2>4. cache.elem[v].pin = 0
    BY <1>1, Facts DEF ElemsOK, ElemOK, NoElem
  <2>5. \A w \in Values : cache'.elem[w].pin = cache.elem[w].pin
    <3> TAKE w \in Values
    <3>1. CASE w = v
      BY <1>3, <2>3, <2>4, <3>1
    <3>2. CASE w # v
      BY <1>3, <2>3, <3>2
    <3> QED BY <3>1, <3>2
  <2> QED BY <1>1, <2>1, <2>3, <2>5, Kept
<1> QED BY <1>4, <1>5

LEMMA UpdateSizeFacts ==
  ASSUME LRUInv, NEW v \in Values, NEW u \in UnitSizes, UpdateSize(v, u)
  PROVE  \E r \in Caches :
           /\ r.lru_list = cache.lru_list
           /\ SamePins(cache, r)
           /\ Good(cache', lru, now) /\ Less(r, cache') /\ FullOfPins(cache', max)
           /\ OldestGoFirst(r, cache')
<1> DEFINE r == Resize(cache, v, u)
           d == GarbageCollect(r, max)
<1>1. r = Resize(cache, v, u) /\ d = GarbageCollect(r, max)
  OBVIOUS
<1>2. cache' = d /\ cache.elem[v].at # "none" /\ u \in Nat
  BY LRUAssumption DEF UpdateSize, Resize
<1> HIDE DEF r, d
<1>3. Good(r, lru, now) /\ r.lru_list = cache.lru_list /\ SamePins(cache, r)
  BY <1>1, <1>2, Facts, Resized
<1>4. Good(d, lru, now) /\ Less(r, d) /\ FullOfPins(d, max) /\ OldestGoFirst(r, d)
  BY <1>1, <1>3, Facts, Collected
<1>5. r \in Caches
  BY <1>3 DEF Good
<1> QED BY <1>2, <1>3, <1>4, <1>5

LEMMA UpdateSizeKeeps ==
  ASSUME LRUInv, NEW v \in Values, NEW u \in UnitSizes, UpdateSize(v, u)
  PROVE  LRUInv'
<1>1. UNCHANGED <<lru, max, idle, now, held>>
  BY DEF UpdateSize
<1>2. PICK r \in Caches :
        /\ SamePins(cache, r)
        /\ Good(cache', lru, now) /\ Less(r, cache') /\ FullOfPins(cache', max)
  BY UpdateSizeFacts
<1>3. cache' \in Caches
  BY <1>2 DEF Good
<1>4. \A w \in Values : cache'.elem[w].pin = cache.elem[w].pin
  BY <1>2, <1>3, LessPins DEF SamePins
<1> QED BY <1>1, <1>2, <1>4, Kept

LEMMA RemovalsKeep ==
  ASSUME LRUInv,
         \/ \E k \in Keys : RemoveEntry(k)
         \/ RemoveAll \/ RemoveUnpinned \/ RemoveExpiredEntries
  PROVE  LRUInv'
<1>1. ASSUME NEW k \in Keys, RemoveEntry(k) PROVE LRUInv'
  <2> DEFINE d == RemoveKey(cache, k)
  <2>1. d = RemoveKey(cache, k) /\ cache' = d /\ UNCHANGED <<lru, max, idle, now, held>>
    BY <1>1 DEF RemoveEntry
  <2> HIDE DEF d
  <2>2. Good(d, lru, now) /\ Less(cache, d)
    BY <2>1, Facts, RemovedKey
  <2> QED BY <2>1, <2>2, TakenAway
<1>2. CASE RemoveAll
  <2> DEFINE d == WithoutAll(cache)
  <2>1. d = WithoutAll(cache) /\ cache' = d /\ UNCHANGED <<lru, max, idle, now, held>>
    BY <1>2 DEF RemoveAll
  <2> HIDE DEF d
  <2>2. Good(d, lru, now) /\ Less(cache, d)
    BY <2>1, Facts, AllRemoved
  <2> QED BY <2>1, <2>2, TakenAway
<1>3. CASE RemoveUnpinned
  <2> DEFINE d == WithoutUnpinned(cache)
  <2>1. d = WithoutUnpinned(cache) /\ cache' = d /\ UNCHANGED <<lru, max, idle, now, held>>
    BY <1>3 DEF RemoveUnpinned
  <2> HIDE DEF d
  <2>2. Good(d, lru, now) /\ Less(cache, d)
    BY <2>1, Facts, UnpinnedRemoved
  <2> QED BY <2>1, <2>2, TakenAway
<1>4. CASE RemoveExpiredEntries
  <2> DEFINE d == DiscardIdle(cache, idle)
  <2>1. d = DiscardIdle(cache, idle) /\ cache' = d /\ UNCHANGED <<lru, max, idle, now, held>>
    BY <1>4 DEF RemoveExpiredEntries
  <2> HIDE DEF d
  <2>2. Good(d, lru, now) /\ Less(cache, d)
    BY <2>1, Facts, Discarded
  <2> QED BY <2>1, <2>2, TakenAway
<1> QED BY <1>1, <1>2, <1>3, <1>4

\* A cache of unused entries is good in either mode.
Empty == [elem |-> [v \in Values |-> NoElem], lru_list |-> <<>>, units |-> 0, pinned |-> 0]

LEMMA EmptyGood ==
  ASSUME NEW mode, NEW t \in Int, NEW c, c = Empty
  PROVE  /\ Good(c, mode, t) /\ \A m \in Nat : FullOfPins(c, m)
         /\ \A v \in Values : c.elem[v].pin = 0
<1>1. /\ c.elem = [v \in Values |-> NoElem] /\ c.lru_list = <<>> /\ c.units = 0 /\ c.pinned = 0
      /\ c \in Caches
  BY NoElemType DEF Empty, Caches
<1>2. \A v \in Values : c.elem[v] = NoElem
  BY <1>1
<1>3. NoElem.at = "none" /\ NoElem.pin = 0 /\ NoElem.units = 0
  BY DEF NoElem
<1>4. ElemsOK(c, t) /\ OneEach(c)
  BY <1>2, <1>3 DEF ElemsOK, ElemOK, OneEach
<1>5. SumsOK(c)
  <2>1. \A v \in Values : Size(c)[v] = 0 /\ PinnedSize(c)[v] = 0
    BY <1>2, <1>3 DEF Size, PinnedSize, PinnedUnits
  <2>2. SumFunctionOnSet(Size(c), Values) = 0 /\ SumFunctionOnSet(PinnedSize(c), Values) = 0
    BY <2>1, LRUAssumption, SumZero
  <2> QED BY <1>1, <2>2 DEF SumsOK
<1>6. OrderOK(c, mode)
  <2>1. Evictable(c, mode) = {}
    BY <1>2, <1>3 DEF Evictable, ToEvict
  <2>2. IsInjective(<<>>) /\ ToSet(<<>>) = {} /\ Len(<<>>) = 0
    BY DEF IsInjective, ToSet
  <2> QED BY <1>1, <2>1, <2>2 DEF OrderOK, Sorted
<1> QED BY <1>1, <1>2, <1>3, <1>4, <1>5, <1>6 DEF Good, FullOfPins

LEMMA ClearKeeps ==
  ASSUME LRUInv, Clear
  PROVE  LRUInv'
<1> DEFINE d == Empty
<1>1. /\ cache' = d /\ d = Empty /\ UNCHANGED <<lru, max, idle, now, held>>
      /\ \A v \in Values : cache.elem[v].pin = 0
  BY DEF Clear, Empty
<1> HIDE DEF d
<1>2. /\ Good(d, lru, now) /\ FullOfPins(d, max) /\ \A v \in Values : d.elem[v].pin = 0
  BY <1>1, Facts, EmptyGood
<1> QED BY <1>1, <1>2, Kept

LEMMA SetMaxSizeKeeps ==
  ASSUME LRUInv, NEW m \in MaxSizes, SetMaxSize(m)
  PROVE  LRUInv'
<1> DEFINE d == GarbageCollect(cache, m)
<1>1. /\ d = GarbageCollect(cache, m) /\ cache' = d /\ max' = m /\ UNCHANGED <<lru, idle, now, held>>
      /\ m \in Nat /\ m \in Int
  BY LRUAssumption DEF SetMaxSize
<1> HIDE DEF d
<1>2. Good(d, lru, now) /\ Less(cache, d) /\ FullOfPins(d, m)
  BY <1>1, Facts, Collected
<1>3. \A v \in Values : d.elem[v].pin = cache.elem[v].pin
  <2>1. d \in Caches
    BY <1>2 DEF Good
  <2> QED BY <1>2, <2>1, Facts, LessPins
<1>4. \A v \in Values, o \in UpdateOrder : cache'.elem[v].pin = held'[v][o]
  BY <1>1, <1>3 DEF LRUInv
<1>5. Good(cache', lru', now') /\ FullOfPins(cache', max')
  BY <1>1, <1>2, Zenon
<1>6. /\ lru' \in BOOLEAN /\ now' \in Nat /\ max' \in Nat /\ idle' \in Int
      /\ held' \in [Values -> [UpdateOrder -> Nat]]
  BY <1>1, Zenon DEF LRUInv
<1> QED BY <1>4, <1>5, <1>6, Zenon DEF LRUInv

\* With no entry in it the cache is good in either mode.
LEMMA ModeFree ==
  ASSUME NEW mode, NEW other, NEW t \in Int, NEW c, Good(c, mode, t),
         \A v \in Values : c.elem[v].at = "none"
  PROVE  Good(c, other, t)
<1>1. Evictable(c, mode) = {} /\ Evictable(c, other) = {}
  BY DEF Evictable, ToEvict
<1> QED BY <1>1 DEF Good, OrderOK

LEMMA SetTimeoutKeeps ==
  ASSUME LRUInv, NEW s \in IdleTimes, NEW mode \in BOOLEAN, SetTimeout(s, mode)
  PROVE  LRUInv'
<1>1. CASE UNCHANGED <<cache, lru, idle>>
  <2>1. UNCHANGED vars
    BY <1>1 DEF SetTimeout, vars
  <2> QED BY <2>1, Zenon DEF LRUInv, vars
<1>2. CASE /\ lru' = mode /\ idle' = (IF s < 0 THEN -1 ELSE s)
           /\ cache' = DiscardIdle(cache, idle')
  <2> DEFINE i == idle'
             d == DiscardIdle(cache, i)
  <2>1. d = DiscardIdle(cache, i) /\ cache' = d /\ i = idle'
    BY <1>2
  <2>2. /\ UNCHANGED <<max, now, held>>
        /\ mode # lru => \A v \in Values : cache.elem[v].at = "none"
    BY DEF SetTimeout
  <2>3. i \in Int
    BY <1>2, LRUAssumption
  <2> HIDE DEF i, d
  <2>4. Good(cache, mode, now)
    <3>1. CASE mode # lru
      BY <2>2, <3>1, Facts, ModeFree
    <3>2. CASE mode = lru
      BY <3>2, Facts, Zenon
    <3> QED BY <3>1, <3>2
  <2>5. Good(d, mode, now) /\ Less(cache, d)
    BY <2>1, <2>3, <2>4, Facts, Discarded
  <2>6. FullOfPins(d, max) /\ \A v \in Values : d.elem[v].pin = cache.elem[v].pin
    <3>1. d \in Caches
      BY <2>5 DEF Good
    <3> QED BY <2>5, <3>1, Facts, LessPins
  <2>7. \A v \in Values, o \in UpdateOrder : cache'.elem[v].pin = held'[v][o]
    BY <2>1, <2>2, <2>6 DEF LRUInv
  <2>8. Good(cache', lru', now') /\ FullOfPins(cache', max')
    BY <1>2, <2>1, <2>2, <2>5, <2>6, Zenon
  <2>9. /\ lru' \in BOOLEAN /\ now' \in Nat /\ max' \in Nat /\ idle' \in Int
        /\ held' \in [Values -> [UpdateOrder -> Nat]]
    BY <1>2, <2>1, <2>2, <2>3, Zenon DEF LRUInv
  <2> QED BY <2>7, <2>8, <2>9, Zenon DEF LRUInv
<1> QED BY <1>1, <1>2, Zenon DEF SetTimeout

LEMMA TickKeeps ==
  ASSUME LRUInv, Tick
  PROVE  LRUInv'
<1>1. now' = now + 1 /\ UNCHANGED <<cache, lru, max, idle, held>>
  BY DEF Tick
<1>2. now' \in Nat /\ now <= now' /\ now' \in Int
  BY <1>1, Facts
<1>3. ElemsOK(cache, now')
  <2>1. \A v \in Values : cache.elem[v].last_use \in Int /\ ElemOK(cache.elem[v], now)
    BY Facts, CacheTypes DEF ElemsOK
  <2>2. \A v \in Values : ElemOK(cache.elem[v], now')
    BY <1>2, <2>1, Facts DEF ElemOK
  <2> QED BY <2>2 DEF ElemsOK
<1>4. Good(cache, lru, now')
  BY <1>3, Facts DEF Good
<1>5. Good(cache', lru', now') /\ FullOfPins(cache', max')
  BY <1>1, <1>4, Facts, Zenon
<1>6. /\ lru' \in BOOLEAN /\ max' \in Nat /\ idle' \in Int
      /\ held' \in [Values -> [UpdateOrder -> Nat]]
      /\ \A v \in Values, o \in UpdateOrder : cache'.elem[v].pin = held'[v][o]
  BY <1>1, Zenon DEF LRUInv
<1> QED BY <1>2, <1>5, <1>6, Zenon DEF LRUInv

LEMMA InitHolds ==
  ASSUME Init
  PROVE  LRUInv
<1>1. /\ cache = Empty /\ lru = TRUE /\ max \in Nat /\ idle = -1 /\ now = 0
      /\ held = [v \in Values |-> [o \in UpdateOrder |-> 0]]
  BY LRUAssumption DEF Init, Empty
<1>2. Good(cache, lru, now) /\ FullOfPins(cache, max) /\ \A v \in Values : cache.elem[v].pin = 0
  <2>1. cache = Empty /\ max \in Nat /\ now \in Int
    BY <1>1
  <2> QED BY ONLY <2>1, EmptyGood
<1>3. /\ held \in [Values -> [UpdateOrder -> Nat]]
      /\ \A v \in Values, o \in UpdateOrder : cache.elem[v].pin = held[v][o]
  BY <1>1, <1>2
<1>4. lru \in BOOLEAN /\ now \in Nat /\ idle \in Int
  BY <1>1
<1> QED BY <1>1, <1>2, <1>3, <1>4, Zenon DEF LRUInv

LEMMA NextKeeps ==
  ASSUME OneOption, LRUInv, [Next]_vars
  PROVE  LRUInv'
<1>1. ASSUME NEW k \in Keys, RemoveEntry(k) PROVE LRUInv'
  BY <1>1, RemovalsKeep
<1>2. ASSUME NEW k \in Keys, NEW o \in UpdateOrder, LookupWithOptions(k, o) PROVE LRUInv'
  BY <1>2, LookupKeeps
<1>3. ASSUME NEW k \in Keys, NEW v \in Values, NEW u \in UnitSizes, NEW keep \in BOOLEAN,
             InsertNew(k, v, u, keep)
      PROVE  LRUInv'
  BY <1>3, InsertKeeps
<1>4. ASSUME NEW v \in Values, NEW o \in UpdateOrder, ReleaseWithOptions(v, o) PROVE LRUInv'
  BY <1>4, ReleaseKeeps
<1>5. ASSUME NEW v \in Values, NEW u \in UnitSizes, UpdateSize(v, u) PROVE LRUInv'
  BY <1>5, UpdateSizeKeeps
<1>6. CASE RemoveAll \/ RemoveUnpinned \/ RemoveExpiredEntries
  BY <1>6, RemovalsKeep
<1>7. CASE Clear
  BY <1>7, ClearKeeps
<1>8. CASE Tick
  BY <1>8, TickKeeps
<1>9. ASSUME NEW m \in MaxSizes, SetMaxSize(m) PROVE LRUInv'
  BY <1>9, SetMaxSizeKeeps
<1>10. ASSUME NEW s \in IdleTimes, NEW mode \in BOOLEAN, SetTimeout(s, mode) PROVE LRUInv'
  BY <1>10, SetTimeoutKeeps
<1>11. CASE UNCHANGED vars
  BY <1>11, Zenon DEF LRUInv, vars
<1> QED BY <1>1, <1>2, <1>3, <1>4, <1>5, <1>6, <1>7, <1>8, <1>9, <1>10, <1>11, Zenon DEF Next

-----------------------------------------------------------------------------
(* The theorems *)

\* The invariant of the cache: entries, sums, eviction list and the callers' pins
\* fit together after every operation.
THEOREM CacheInvariant ==
  ASSUME OneOption
  PROVE  Spec => []LRUInv
<1>1. Init => LRUInv
  BY InitHolds
<1>2. LRUInv /\ [Next]_vars => LRUInv'
  BY NextKeeps
<1> QED BY <1>1, <1>2, PTL DEF Spec

\* The pins callers hold of a value.
LEMMA PinsAre ==
  ASSUME OneOption, LRUInv, NEW v \in Values
  PROVE  Pins(v) = cache.elem[v].pin /\ cache.elem[v].pin \in Nat
<1> DEFINE h == held[v]
<1>1. PICK o : UpdateOrder = {o}
  BY DEF OneOption
<1>2. h \in [{o} -> Nat] /\ h[o] = cache.elem[v].pin
  BY <1>1 DEF LRUInv
<1>3. Pins(v) = SumFunctionOnSet(h, {o})
  BY <1>2 DEF Pins, SumFunction
<1> HIDE DEF h
<1>4. SumFunctionOnSet(h, {o}) = h[o]
  <2>1. IsFiniteSet({}) /\ o \notin {} /\ h[o] \in Int /\ {} \cup {o} = {o}
    BY <1>2, FS_EmptySet
  <2>2. SumFunctionOnSet(h, {} \cup {o}) = h[o] + SumFunctionOnSet(h, {})
    BY <2>1, SumAdd
  <2>3. SumFunctionOnSet(h, {}) = 0
    BY SumEmpty
  <2>4. SumFunctionOnSet(h, {o}) = h[o] + 0
    BY ONLY <2>1, <2>2, <2>3, Zenon
  <2> QED BY <1>2, <2>4
<1> QED BY <1>2, <1>3, <1>4

\* A value somebody holds stays until its last Release, through eviction,
\* replacement, time-out and RemoveAll, and pin counts the holders.
THEOREM PinnedStay ==
  ASSUME OneOption
  PROVE  Spec => []PinnedValuesStay
<1>1. ASSUME LRUInv PROVE PinnedValuesStay
  <2> SUFFICES ASSUME NEW v \in Values
               PROVE  /\ Pins(v) > 0 => Alive(v)
                      /\ cache.elem[v].pin = Pins(v)
                      /\ cache.elem[v].at = "defer" => Pins(v) > 0
    BY DEF PinnedValuesStay
  <2>1. Pins(v) = cache.elem[v].pin /\ cache.elem[v].pin \in Nat
    BY <1>1, PinsAre
  <2>2. ElemOK(cache.elem[v], now)
    BY <1>1, Facts DEF ElemsOK
  <2> QED BY <2>1, <2>2 DEF ElemOK, Alive, NoElem
<1>2. Spec => []LRUInv
  BY CacheInvariant
<1>3. LRUInv => PinnedValuesStay
  BY <1>1
<1> QED BY <1>2, <1>3, PTL

\* units_ and pinned_units_ are the sums they stand for.
THEOREM UnitsAreExact ==
  ASSUME OneOption
  PROVE  Spec => []UnitsExact
<1>1. ASSUME LRUInv PROVE UnitsExact
  <2> DEFINE A == {v \in Values : Alive(v)}
             B == {v \in Values : cache.elem[v].at = "table" /\ Pins(v) > 0}
  <2>1. /\ \A v \in Values : Pins(v) = cache.elem[v].pin /\ cache.elem[v].pin \in Nat
        /\ cache \in Caches /\ ElemsOK(cache, now) /\ SumsOK(cache)
    BY <1>1, PinsAre, Facts
  <2>2. /\ \A v \in Values : Size(cache)[v] = cache.elem[v].units /\ cache.elem[v].units \in Nat
        /\ \A v \in Values : PinnedSize(cache)[v] = PinnedUnits(cache.elem[v])
    BY <2>1, CacheTypes DEF Size, PinnedSize
  <2>3. \A v \in Values \ A : Size(cache)[v] = 0
    BY <2>1, <2>2 DEF ElemsOK, ElemOK, Alive, NoElem
  <2>4. \A v \in Values : PinnedSize(cache)[v] = IF v \in B THEN cache.elem[v].units ELSE 0
    BY <2>1, <2>2 DEF PinnedUnits
  <2>5. UnitsOf(A) = SumFunctionOnSet(Size(cache), Values)
    <3> DEFINE g == [v \in A |-> cache.elem[v].units]
               f == Size(cache)
    <3>1. g = [v \in A |-> f[v]] /\ A \in SUBSET Values
      BY <2>2
    <3>2. (\A v \in Values : f[v] \in Int) /\ \A v \in Values \ A : f[v] = 0
      BY <2>2, <2>3
    <3>3. UnitsOf(A) = SumFunction(g)
      BY DEF UnitsOf
    <3> HIDE DEF A, g, f
    <3>4. SumFunction(g) = SumFunctionOnSet(f, Values)
      BY <3>1, <3>2, LRUAssumption, SumRest
    <3> QED BY <3>3, <3>4 DEF f
  <2>6. UnitsOf(B) = SumFunctionOnSet(PinnedSize(cache), Values)
    <3> DEFINE g == [v \in B |-> cache.elem[v].units]
               f == PinnedSize(cache)
    <3>1. g = [v \in B |-> f[v]] /\ B \in SUBSET Values
      BY <2>4
    <3>2. (\A v \in Values : f[v] \in Int) /\ \A v \in Values \ B : f[v] = 0
      BY <2>2, <2>4
    <3>3. UnitsOf(B) = SumFunction(g)
      BY DEF UnitsOf
    <3> HIDE DEF B, g, f
    <3>4. SumFunction(g) = SumFunctionOnSet(f, Values)
      BY <3>1, <3>2, LRUAssumption, SumRest
    <3> QED BY <3>3, <3>4 DEF f
  <2> QED BY <2>1, <2>5, <2>6 DEF UnitsExact, SumsOK
<1>2. Spec => []LRUInv
  BY CacheInvariant
<1>3. LRUInv => UnitsExact
  BY <1>1
<1> QED BY <1>2, <1>3, PTL

\* The eviction list is what may be evicted, once each and in the order of use,
\* and the table has one entry for a key.
THEOREM ListIsSound ==
  ASSUME OneOption
  PROVE  Spec => []ListOK
<1>1. ASSUME LRUInv PROVE ListOK
  <2>1. OneEach(cache) /\ OrderOK(cache, lru)
    BY <1>1, Facts
  <2>2. ASSUME NEW k \in Keys PROVE Cardinality(InTable(cache, k)) <= 1
    <3> DEFINE T == InTable(cache, k)
    <3>1. \A v, w \in T : v = w
      BY <2>1 DEF OneEach, InTable
    <3> HIDE DEF T
    <3>2. CASE T = {}
      <4>1. Cardinality(T) = 0
        BY <3>2, FS_EmptySet
      <4> QED BY <4>1 DEF T
    <3>3. CASE T # {}
      <4>1. PICK v : T = {v}
        BY <3>1, <3>3
      <4>2. Cardinality(T) = 1
        BY <4>1, FS_Singleton
      <4> QED BY <4>2 DEF T
    <3> QED BY <3>2, <3>3
  <2>3. ToSet(cache.lru_list) =
          {v \in Values : cache.elem[v].at = "table" /\ (lru => cache.elem[v].pin = 0)}
    BY <2>1, Zenon DEF OrderOK, Evictable, ToEvict
  <2> QED BY <2>1, <2>2, <2>3 DEF ListOK, OrderOK, Sorted
<1>2. Spec => []LRUInv
  BY CacheInvariant
<1>3. LRUInv => ListOK
  BY <1>1
<1> QED BY <1>2, <1>3, PTL

\* Only pinned entries keep the cache over its limit.
THEOREM OverfullByPins ==
  ASSUME OneOption
  PROVE  Spec => []OverfullOnlyByPins
<1>1. LRUInv => OverfullOnlyByPins
  BY DEF LRUInv, FullOfPins, OverfullOnlyByPins, Alive
<1>2. Spec => []LRUInv
  BY CacheInvariant
<1> QED BY <1>1, <1>2, PTL

LEMMA OnList ==
  ASSUME LRUInv, NEW i \in 1..Len(cache.lru_list)
  PROVE  cache.lru_list[i] \in Values /\ cache.elem[cache.lru_list[i]].at = "table"
<1>1. cache.lru_list \in Seq(Values) /\ ToSet(cache.lru_list) = Evictable(cache, lru)
  BY Facts, CacheTypes DEF OrderOK
<1>2. cache.lru_list[i] \in Evictable(cache, lru)
  BY <1>1, SetOfSeq
<1> QED BY <1>2 DEF Evictable, ToEvict

LEMMA InsertEvictsOldest ==
  ASSUME OneOption, LRUInv, NEW k \in Keys, NEW v \in Values, NEW u \in UnitSizes,
         NEW keep \in BOOLEAN, InsertNew(k, v, u, keep),
         NEW i \in 1..Len(cache.lru_list), NEW j \in 1..Len(cache.lru_list), i < j,
         cache.elem[cache.lru_list[i]].pin = 0, cache'.elem[cache.lru_list[i]].at # "none"
  PROVE  StaysOrReplaced(cache.lru_list[j])
<1> DEFINE d == InsertPinned(cache, k, v, u)
           old == cache.lru_list[i]
           young == cache.lru_list[j]
           f == [at |-> "table", key |-> k, pin |-> 1, units |-> u, last_use |-> now]
<1>1. cache.elem[v].at = "none" /\ u \in Nat
  BY LRUAssumption DEF InsertNew
<1>2. old \in Values \ {v} /\ young \in Values \ {v}
  BY <1>1, OnList
<1>3. /\ Good(d, lru, now) /\ FullOfPins(d, max) /\ d.elem[v] = f
      /\ \A w \in Values \ {v} : d.elem[w].pin = cache.elem[w].pin
      /\ ReplacesInOrder(cache, d, k)
  <2>1. d = InsertPinned(cache, k, v, u)
    OBVIOUS
  <2> HIDE DEF d
  <2> QED BY <1>1, <2>1, Facts, Inserted
<1>4. f.at = "table" /\ f.key = k /\ f.pin = 1
  OBVIOUS
<1> HIDE DEF d, f
<1>5. d.elem[old].at # "none" => d.elem[young].at # "none" \/ cache.elem[young].key = k
  BY <1>3 DEF ReplacesInOrder, old, young
<1>6. CASE keep
  <2>1. cache' = d
    BY <1>6, Zenon DEF InsertNew, d
  <2> QED BY <1>1, <1>3, <1>4, <1>5, <2>1 DEF StaysOrReplaced
<1>7. CASE ~keep
  <2>1. PICK o \in {TRUE} : o = TRUE
    OBVIOUS
  <2> DEFINE n == Unpin(d, v, o)
  <2>2. n = Unpin(d, v, o) /\ cache' = n
    BY <1>7, <2>1, Zenon DEF InsertNew, d
  <2> HIDE DEF n, old, young
  <2>3. d.elem[v].pin > 0
    BY <1>3, <1>4
  <2>4. ReleasedOnce(d, n, v, max)
    BY <1>3, <2>2, <2>3, Facts, Released
  <2>5. \A w \in Values \ {v} : n.elem[w] = d.elem[w]
    BY <2>4 DEF ReleasedOnce
  <2>6. d.elem[old].at # "none" /\ d.elem[old].pin = 0
    BY <1>2, <1>3, <2>2, <2>5 DEF old
  <2>7. ~(d.units > max)
    BY <1>2, <1>3, <2>6 DEF FullOfPins
  <2>8. n.elem[v].at = "table" /\ n.elem[v].key = k
    BY <1>3, <1>4, <2>4, <2>7 DEF ReleasedOnce
  <2>9. n.elem[young] = d.elem[young]
    BY <1>2, <2>5
  <2> QED BY <1>1, <1>5, <2>2, <2>6, <2>8, <2>9 DEF StaysOrReplaced, young
<1> QED BY <1>6, <1>7

LEMMA UpdateEvictsOldest ==
  ASSUME LRUInv, NEW v \in Values, NEW u \in UnitSizes, UpdateSize(v, u),
         NEW i \in 1..Len(cache.lru_list), NEW j \in 1..Len(cache.lru_list), i < j,
         cache.elem[cache.lru_list[i]].pin = 0, cache'.elem[cache.lru_list[i]].at # "none"
  PROVE  cache'.elem[cache.lru_list[j]].at # "none"
<1> DEFINE old == cache.lru_list[i]
           young == cache.lru_list[j]
<1>1. old \in Values /\ young \in Values /\ cache.elem[young].at = "table"
  BY OnList
<1>2. PICK r \in Caches :
        r.lru_list = cache.lru_list /\ SamePins(cache, r) /\ OldestGoFirst(r, cache')
  BY UpdateSizeFacts
<1>3. r.elem[old].pin = 0 /\ r.elem[young].at = "table"
  BY <1>1, <1>2 DEF SamePins
<1>4. cache'.elem[young] = r.elem[young]
  BY <1>2, <1>3 DEF OldestGoFirst
<1> QED BY <1>3, <1>4

\* Making room takes the entry unused for the longest time: where an unpinned entry
\* of the list survives an insertion or a change of size, so does every younger one
\* that the new entry does not replace.
THEOREM OldestFirst ==
  ASSUME OneOption
  PROVE  Spec => EvictsOldestFirst
<1>1. ASSUME LRUInv, MakesRoom PROVE OldestGoes
  <2> SUFFICES ASSUME NEW i \in 1..Len(cache.lru_list), NEW j \in 1..Len(cache.lru_list), i < j,
                      cache.elem[cache.lru_list[i]].pin = 0,
                      cache'.elem[cache.lru_list[i]].at # "none"
               PROVE  StaysOrReplaced(cache.lru_list[j])
    BY DEF OldestGoes
  <2>1. ASSUME NEW k \in Keys, NEW v \in Values, NEW u \in UnitSizes, NEW keep \in BOOLEAN,
               InsertNew(k, v, u, keep)
        PROVE  StaysOrReplaced(cache.lru_list[j])
    BY <1>1, <2>1, InsertEvictsOldest
  <2>2. ASSUME NEW v \in Values, NEW u \in UnitSizes, UpdateSize(v, u)
        PROVE  StaysOrReplaced(cache.lru_list[j])
    BY <1>1, <2>2, UpdateEvictsOldest DEF StaysOrReplaced
  <2> QED BY <1>1, <2>1, <2>2 DEF MakesRoom
<1>2. LRUInv => (MakesRoom => OldestGoes)
  BY <1>1
<1>3. Spec => []LRUInv
  BY CacheInvariant
<1> QED BY <1>2, <1>3, PTL DEF EvictsOldestFirst
=============================================================================
