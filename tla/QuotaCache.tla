----------------------------- MODULE QuotaCache -----------------------------
(***************************************************************************)
(* src/quota_cache.cc: prefetch objects (CacheElem), found by the          *)
(* signature of a request under what the server referenced.  Requests that *)
(* miss share the pending_item of their quota, which is put in the cache   *)
(* when an answer tells its signature.                                     *)
(*                                                                         *)
(* The LRU cache is the one of SimpleLRUCache for entries of one unit,     *)
(* with the values it does not have there: null.  A ScopedLookup that      *)
(* finds null does not know that it has pinned an entry.  A prefetch       *)
(* object answers any way it can; QuotaPrefetch has the detail.            *)
(***************************************************************************)
EXTENDS Referenced

CONSTANTS
  QuotaNames,
  QuotaMatches(_, _),   \* the server: what it references for a quota and a request
  Elems,                \* CacheElem objects, numbers; as many as there are, one bound
  IdleExpiry            \* whether entries get idle for longer than expiration_ms

NoElem == 0             \* nullptr

ASSUME QuotaCacheAssumption == Elems \subseteq Nat \ {NoElem} /\ IdleExpiry \in BOOLEAN

VARIABLES
  num_entries,    \* QuotaOptions::num_entries, 0: no cache
  referenced,     \* quota_referenced_map_: the Referenced of each quota, by hash
  pending_item,   \* quota_referenced_map_: the pending_item of each quota
  cache,          \* cache_: table (element and pins by signature), order (the
                  \* unpinned ones, least recently used first), defer (removed
                  \* while pinned, oldest first)
  elem            \* of each CacheElem its name_ and the inflight_count_ of its prefetch_

quotaVars == <<num_entries, referenced, pending_item, cache, elem>>

NoName == "none"
DeadElem == [name |-> NoName, inflight |-> 0]

QuotaInit(limits) ==
  /\ num_entries \in limits
  /\ referenced = [n \in QuotaNames |-> <<>>]
  /\ pending_item = [n \in QuotaNames |-> NoElem]
  /\ cache = [table |-> <<>>, order |-> <<>>, defer |-> <<>>]
  /\ elem = [e \in Elems |-> DeadElem]

-----------------------------------------------------------------------------
(* The LRU cache *)

Units(c) == Cardinality(DOMAIN c.table) + Len(c.defer)

Unlisted(c, S) ==
  LET kept[i \in 0..Len(c.order)] ==
        IF i = 0 THEN <<>>
        ELSE IF c.order[i] \in S THEN kept[i - 1] ELSE Append(kept[i - 1], c.order[i])
  IN kept[Len(c.order)]

Dropped(c, S) ==
  [c EXCEPT !.table = Restrict(c.table, DOMAIN c.table \ S), !.order = Unlisted(c, S)]

\* RemoveExpiredEntries, first thing in a Lookup: the k least recently used.
DropIdle(c, k) == Dropped(c, {c.order[i] : i \in 1..k})
IdleCounts == IF IdleExpiry THEN 0..Len(cache.order) ELSE {0}

IsNull(c, s) == s \in DOMAIN c.table /\ c.table[s].elem = NoElem

\* ScopedLookups of null entries, visits[s] of each: every one leaves a pin.
PinNulls(c, visits) ==
  LET S == {s \in DOMAIN c.table : visits[s] > 0}
  IN [c EXCEPT !.table = [s \in DOMAIN c.table |->
                           [elem |-> c.table[s].elem, pin |-> c.table[s].pin + visits[s]]],
               !.order = Unlisted(c, S)]

\* Mutant: a released entry is not linked again.
ReleasedUnlinked(c, s) == [c EXCEPT !.table[s].pin = 0, !.order = Unlisted(c, {s})]

\* ReleaseWithOptions of an entry in the table that becomes unpinned.
Released(c, s) ==
  LET d == [c EXCEPT !.table[s].pin = 0, !.order = Append(Unlisted(c, {s}), s)]
  IN IF Units(d) > num_entries THEN Dropped(d, {s}) ELSE d

\* Release of (s, null) when entries of s are deferred: the values are equal, so
\* one of those is released and the new entry stays pinned.
ReleasedDeferred(c, s) ==
  LET of == {i \in DOMAIN c.defer : c.defer[i].sig = s}
      i == IF Cardinality(of) = 1 THEN Min(of) ELSE Min(of \ {Min(of)})
  IN IF c.defer[i].pin = 1 THEN [c EXCEPT !.defer = RemoveAt(@, i)]
     ELSE [c EXCEPT !.defer[i].pin = @ - 1]

\* Insert(s, e, 1).  An entry that is there is null and pinned by the lookup before.
Insert(c, s, e) ==
  LET old == IF s \in DOMAIN c.table
             THEN [Dropped(c, {s}) EXCEPT
                     !.defer = Append(@, [sig |-> s, pin |-> c.table[s].pin])]
             ELSE c
      put == [old EXCEPT !.table = [x \in DOMAIN old.table \cup {s} |->
                           IF x = s THEN [elem |-> e, pin |-> 1] ELSE old.table[x]]]
      over == Units(put) - num_entries
      n == IF over <= 0 THEN 0 ELSE IF over > Len(put.order) THEN Len(put.order) ELSE over
      d == DropIdle(put, n)
  IN IF e = NoElem /\ \E i \in DOMAIN d.defer : d.defer[i].sig = s
     THEN ReleasedDeferred(d, s) ELSE Released(d, s)

-----------------------------------------------------------------------------
(* CacheElem *)

\* The owners of elements: pending items and entries of the table.
Live(c, pending) ==
  ({c.table[s].elem : s \in DOMAIN c.table} \cup {pending[n] : n \in QuotaNames}) \ {NoElem}

\* An object whose owner let go of it is deleted; the others change by f.
SetElems(f(_)) ==
  elem' = [e \in Elems |-> IF e \in Live(cache', pending_item') THEN f(e) ELSE DeadElem]

\* CacheElem::Quota: q is filled in with the result and with the element if its
\* prefetch_ asks for tokens (Alloc).  A new prefetch_ borrows, and passes.
Quota(e, name, q) ==
  /\ q.result \in {"Passed", "Rejected"} /\ q.elem \in {e, NoElem}
  /\ elem[e] = DeadElem => q.result = "Passed" /\ q.elem = e
  /\ SetElems(LAMBDA x :
       IF x # e THEN elem[x]
       ELSE [name |-> name, inflight |-> elem[x].inflight + (IF q.elem = e THEN 1 ELSE 0)])

-----------------------------------------------------------------------------
(* QuotaCache *)

\* Referenced::Signature with the quota's name as extra key.
QuotaSig(r, a, n) == <<n, Signature(r, a)>>

\* What a Quota can be after CheckCache.  func is its response_func: none, the
\* test of the grant, the prefetch object's, or SetResponse and then that.
QuotaResults(n) ==
  [name : {n}, result : {"Pending", "Passed", "Rejected"},
   func : {"none", "grant", "prefetch", "pending"}, elem : Elems \cup {NoElem}]

\* CheckCache without a cache, or when the verdict is not cached.
CheckRemote(n, q) ==
  /\ q = [name |-> n, result |-> "Pending", func |-> "grant", elem |-> NoElem]
  /\ UNCHANGED quotaVars

\* CheckCache under cache_mutex_.  Memory that callbacks (busy) point to is not
\* given to a new element.
CheckCached(a, n, q, busy) ==
  LET match == {h \in DOMAIN referenced[n] : Matches(referenced[n][h], a)}
      sig(h) == QuotaSig(referenced[n][h], a, n)
      Visits(H) == [s \in DOMAIN cache.table |-> Cardinality({h \in H : sig(h) = s})]
      free == Elems \ (busy \cup Live(cache, pending_item))
  IN \E k \in IF match = {} THEN {0} ELSE IdleCounts :
       LET c == DropIdle(cache, k)
           nulls == {h \in match : IsNull(c, sig(h))}
           hits == {h \in match \ nulls : sig(h) \in DOMAIN c.table}
       IN \/ \E h \in hits, H \in SUBSET nulls :
               LET pinned == PinNulls(c, Visits(H))
                   e == c.table[sig(h)].elem
               IN /\ cache' = Released(pinned, sig(h))
                  /\ UNCHANGED <<num_entries, referenced, pending_item>>
                  /\ Quota(e, n, q)
                  /\ q.name = n /\ q.func = IF q.elem = e THEN "prefetch" ELSE "none"
          \/ /\ hits = {}
             /\ cache' = PinNulls(c, Visits(nulls))
             /\ pending_item[n] = NoElem => free # {}
             /\ LET e == IF pending_item[n] = NoElem THEN Min(free) ELSE pending_item[n]
                IN /\ pending_item' = [pending_item EXCEPT ![n] = e]
                   /\ Quota(e, n, q)
             /\ q.name = n /\ q.func = "pending"
             /\ UNCHANGED <<num_entries, referenced>>

\* Mutant: pending_item.get() instead of release().
KeptItem(n) == pending_item[n]

ItemAfterRelease(n) == NoElem

\* SetResponse for a quota the answer has, with references that can be decoded.
SetResponse(a, n) ==
  LET r == Fill(a, QuotaMatches(n, a))
      s == QuotaSig(r, a, n)
      known == referenced[n]
  IN IF ~Matches(r, a) THEN UNCHANGED quotaVars
     ELSE \E k \in IdleCounts :
            LET c == DropIdle(cache, k)
                pinned == PinNulls(c, [x \in DOMAIN c.table |->
                                        IF x = s /\ IsNull(c, s) THEN 1 ELSE 0])
            IN /\ IF s \in DOMAIN c.table /\ ~IsNull(c, s)
                  THEN /\ cache' = Released(c, s)
                       /\ UNCHANGED <<referenced, pending_item>>
                  ELSE /\ referenced' = [referenced EXCEPT ![n] =
                            [h \in DOMAIN known \cup {Hash(r)} |->
                               IF h \in DOMAIN known THEN known[h] ELSE r]]
                       /\ cache' = Insert(pinned, s, pending_item[n])
                       /\ pending_item' = [pending_item EXCEPT ![n] = ItemAfterRelease(n)]
               /\ UNCHANGED num_entries
               /\ SetElems(LAMBDA e : elem[e])

\* The prefetch object's own response_func.  A deleted object is not modelled
\* further: see AnswerFindsElem.
OnQuotaResponse(e) ==
  /\ elem' = [elem EXCEPT ![e].inflight = IF @ > 0 THEN @ - 1 ELSE @]
  /\ UNCHANGED <<num_entries, referenced, pending_item, cache>>

\* FlushAll, from the destructor: RemoveAll defers what is pinned.
FlushAll ==
  /\ cache' = [table |-> <<>>, order |-> <<>>,
               defer |-> cache.defer \o SetToSeq(
                 {[sig |-> s, pin |-> cache.table[s].pin] :
                    s \in {x \in DOMAIN cache.table : cache.table[x].pin > 0}})]
  /\ pending_item' = [n \in QuotaNames |-> NoElem]
  /\ SetElems(LAMBDA e : elem[e])
  /\ UNCHANGED <<num_entries, referenced>>
=============================================================================
