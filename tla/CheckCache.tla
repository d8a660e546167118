----------------------------- MODULE CheckCache -----------------------------
(***************************************************************************)
(* src/check_cache.cc over several threads.  A call first walks            *)
(* referenced_map_, without a lock, and looks each matching signature up   *)
(* under cache_mutex_; on a miss the server is asked and its answer is     *)
(* cached.  The LRU cache is the function and the eviction order that      *)
(* SimpleLRUCache has for entries of one unit whose pins never outlive     *)
(* cache_mutex_.                                                           *)
(*                                                                         *)
(* The server (external) decides by Policy, a function of the attributes   *)
(* it reports as referenced.                                               *)
(***************************************************************************)
EXTENDS Referenced

CONSTANTS
  Threads,
  Requests,       \* the attributes that are checked
  Policy(_),      \* the server: [status, matches] for a request
  EntryLimits,    \* values of CheckOptions::num_entries
  Durations,      \* valid_duration the server answers
  UseCounts,      \* valid_use_count the server answers, -1: unlimited
  MaxTime         \* bound: the clock

\* What b has under the keys the server looked at for a is what a has there.
Agrees(a, b) ==
  \A m \in Policy(a).matches :
    LET has(x) == /\ m.name \in DOMAIN x
                  /\ x[m.name].kind = "map" => m.map_key \in DOMAIN x[m.name].entries
        value(x) == x[m.name].entries[IF x[m.name].kind = "map" THEN m.map_key ELSE NoKey]
    IN IF m.condition = "ABSENCE" THEN ~has(b) ELSE has(b) /\ value(b) = value(a)

ASSUME PolicyAssumption ==
  \A a, b \in Requests : Agrees(a, a) /\ (Agrees(a, b) => Policy(a) = Policy(b))
ASSUME CheckCacheAssumption ==
  /\ EntryLimits \subseteq Nat /\ Durations \subseteq Nat /\ UseCounts \subseteq Int
  /\ MaxTime \in Nat

VARIABLES
  options,      \* num_entries and network_fail_open
  referenced,   \* referenced_map_: its Referenced, by hash
  cache,        \* CacheElem by signature.  uses and lease are history: how often
                \* an answer with limited uses was used, and what it allows
  order,        \* the signatures, least recently used first
  now,
  thread,       \* what each thread is doing
  last          \* the call that ended in this step: what its caller got

vars == <<options, referenced, cache, order, now, thread, last>>

Idle == [pc |-> "idle"]

Init ==
  /\ options \in [num_entries : EntryLimits, network_fail_open : BOOLEAN]
  /\ referenced = <<>> /\ cache = <<>> /\ order = <<>> /\ now = 0
  /\ thread = [p \in Threads |-> Idle]
  /\ last = Idle

-----------------------------------------------------------------------------
(* Helpers *)

ConvertRpcStatus(status) ==
  IF status = "INTERNAL" /\ options.network_fail_open THEN "OK" ELSE status

\* The Referenced that the loop does not pass over ("continue").
Matching(refs, a) == {h \in DOMAIN refs : Matches(refs[h], a)}

Without(sig) == RemoveFirst(order, sig)

IsExpired(e, t) == t > e.expire_time \/ e.use_count = 0

\* Mutant: use_count_ is not decreased.
UsedForFree(e) == IF e.lease.uses < 0 THEN e ELSE [e EXCEPT !.uses = @ + 1]

Used(e) ==
  LET counted == IF e.lease.uses < 0 THEN e ELSE [e EXCEPT !.uses = @ + 1]
  IN IF e.use_count > 0 THEN [counted EXCEPT !.use_count = @ - 1] ELSE counted

\* The call of p ends; the threads of S that walk referenced_map_ also come to
\* see the entries added to it in this step.
EndCallSeen(p, outcome, S) ==
  /\ thread' = [q \in Threads |->
       IF q = p THEN Idle
       ELSE IF q \in S
       THEN [thread[q] EXCEPT !.todo = @ \cup (Matching(referenced', thread[q].a)
                                                \ DOMAIN referenced)]
       ELSE thread[q]]
  /\ last' = outcome

EndCall(p, outcome) == EndCallSeen(p, outcome, {})

\* How a call can end: with a cached verdict, or after the remote call.
Hit(p, sig) == [pc |-> "hit", a |-> thread[p].a, t |-> thread[p].t, sig |-> sig,
                status |-> cache[sig].status]
Done(status) == [pc |-> "done", status |-> status]

AskServer(p) == thread' = [thread EXCEPT ![p] = [pc |-> "remote", a |-> thread[p].a]]

-----------------------------------------------------------------------------
(* Check *)

\* Check(attributes, now()): the time is read before any lock is taken.
BeginCheck(p, a) ==
  /\ thread[p] = Idle
  /\ thread' = [thread EXCEPT ![p] =
       IF options.num_entries = 0 THEN [pc |-> "remote", a |-> a]
       ELSE [pc |-> "walk", a |-> a, t |-> now, todo |-> Matching(referenced, a)]]
  /\ last' = Idle /\ UNCHANGED <<options, referenced, cache, order, now>>

\* The loop meets the Referenced with hash h: its signature is not cached, or is
\* expired (a miss), or is a hit.  Codes NOT_FOUND and UNAVAILABLE of a cached
\* verdict are taken for a miss by the caller.
VisitReferenced(p, h) ==
  LET th == thread[p]
      sig == Signature(referenced[h], th.a)
  IN /\ th.pc = "walk" /\ h \in th.todo
     /\ \/ /\ sig \notin DOMAIN cache
           /\ thread' = [thread EXCEPT ![p].todo = @ \ {h}]
           /\ last' = Idle /\ UNCHANGED <<cache, order>>
        \/ /\ sig \in DOMAIN cache /\ IsExpired(cache[sig], th.t)
           /\ cache' = Restrict(cache, DOMAIN cache \ {sig})
           /\ order' = Without(sig)
           /\ AskServer(p) /\ last' = Idle
        \/ /\ sig \in DOMAIN cache /\ ~IsExpired(cache[sig], th.t)
           /\ cache' = [cache EXCEPT ![sig] = Used(@)]
           /\ order' = Append(Without(sig), sig)
           /\ IF cache[sig].status \in {"NOT_FOUND", "UNAVAILABLE"}
              THEN AskServer(p) /\ last' = Idle
              ELSE EndCall(p, Hit(p, sig))
     /\ UNCHANGED <<options, referenced, now>>

\* The loop is over.
EndWalk(p) ==
  /\ thread[p].pc = "walk" /\ thread[p].todo = {}
  /\ AskServer(p)
  /\ last' = Idle /\ UNCHANGED <<options, referenced, cache, order, now>>

-----------------------------------------------------------------------------
(* The answer of the server *)

SetResponse(status, duration, uses) ==
  [status |-> status, expire_time |-> now + duration, use_count |-> uses,
   uses |-> 0, lease |-> [until |-> now + duration, uses |-> uses]]

\* The order after Insert, or after the lookup of an entry that is there.
Touch(sig) ==
  LET o == Append(Without(sig), sig)
  IN IF Len(o) > options.num_entries THEN Tail(o) ELSE o

\* CacheResponse for an answer with a precondition.
CacheResponse(a, matches, status, duration, uses) ==
  LET r == Fill(a, matches)
      sig == Signature(r, a)
      o == Touch(sig)
  IN IF options.num_entries = 0 \/ FillFails(matches) \/ ~Matches(r, a)
     THEN UNCHANGED <<referenced, cache, order>>
     ELSE /\ referenced' = [h \in DOMAIN referenced \cup {Hash(r)} |->
                              IF h \in DOMAIN referenced THEN referenced[h] ELSE r]
          /\ order' = o
          /\ cache' = [s \in ToSet(o) |->
                         IF s = sig THEN SetResponse(status, duration, uses) ELSE cache[s]]

\* The remote call succeeds.  Nothing is cached of an answer that the client
\* cannot decode.  A thread walking referenced_map_ at the time may meet the new
\* entry or not: the walk holds no lock, which is a data race on the map.
OnResponse(p, decodable, duration, uses) ==
  LET a == thread[p].a
      status == ConvertRpcStatus(Policy(a).status)
      matches == IF decodable THEN Policy(a).matches
                 ELSE {MatchRef(m.name, m.map_key, "REGEX") : m \in Policy(a).matches}
  IN /\ thread[p].pc = "remote"
     /\ CacheResponse(a, matches, status, duration, uses)
     /\ \E S \in SUBSET {q \in Threads : thread[q].pc = "walk"} :
          EndCallSeen(p, Done(status), S)
     /\ UNCHANGED <<options, now>>

\* The remote call succeeds without a PreconditionResult.
OnBadResponse(p) ==
  /\ thread[p].pc = "remote"
  /\ EndCall(p, Done("INVALID_ARGUMENT"))
  /\ UNCHANGED <<options, referenced, cache, order, now>>

\* The remote call fails.
OnNetworkFailure(p) ==
  /\ thread[p].pc = "remote"
  /\ EndCall(p, Done(IF options.network_fail_open THEN "OK" ELSE "NETWORK"))
  /\ UNCHANGED <<options, referenced, cache, order, now>>

\* FlushAll empties the cache, not referenced_map_.  It locks cache_mutex_ and may
\* come at any time.
FlushAll ==
  /\ cache # <<>>
  /\ cache' = <<>> /\ order' = <<>>
  /\ last' = Idle /\ UNCHANGED <<options, referenced, now, thread>>

\* The clock (external).
Tick == now < MaxTime /\ now' = now + 1
        /\ last' = Idle /\ UNCHANGED <<options, referenced, cache, order, thread>>

Next ==
  \/ \E p \in Threads :
       \/ \E a \in Requests : BeginCheck(p, a)
       \/ \E h \in DOMAIN referenced : VisitReferenced(p, h)
       \/ EndWalk(p)
       \/ \E d \in Durations, u \in UseCounts, ok \in BOOLEAN : OnResponse(p, ok, d, u)
       \/ OnBadResponse(p) \/ OnNetworkFailure(p)
  \/ FlushAll \/ Tick

Spec == Init /\ [][Next]_vars

-----------------------------------------------------------------------------
(* Properties *)

\* src/referenced.h:39-41, "Return false if attributes are mismatched": a verdict
\* taken from the cache is the one the server would give for these very attributes,
\* whichever answers to other requests the threads cached in the meantime
\* (Signature, the walk of Check, CacheResponse).
HitIsServersVerdict ==
  last.pc = "hit" => last.status = ConvertRpcStatus(Policy(last.a).status)

\* An answer is used at most valid_use_count times, and only by calls that began
\* before valid_duration was over, also when threads hit, refresh and expire it at
\* once (IsExpired and SetResponse under cache_mutex_).
HitWithinLease ==
  last.pc = "hit" =>
    LET e == cache[last.sig]
    IN last.t <= e.lease.until /\ (e.lease.uses >= 0 => e.uses <= e.lease.uses)

\* What is cached can be found: for every entry some Referenced of the map leads a
\* request to it (CacheResponse adds both, referenced_map_ is never emptied); and
\* eviction keeps the cache within its limit and its order complete.
EntriesReachable ==
  /\ DOMAIN cache = ToSet(order) /\ IsInjective(order) /\ Len(order) <= options.num_entries
  /\ \A s \in DOMAIN cache : \E h \in DOMAIN referenced, a \in Requests :
       Matches(referenced[h], a) /\ Signature(referenced[h], a) = s
=============================================================================
