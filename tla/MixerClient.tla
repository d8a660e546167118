---------------------------- MODULE MixerClient ----------------------------
(***************************************************************************)
(* src/client_impl.cc: Check calls of several threads through the check    *)
(* cache, the quota cache and the transport.  Between the parts of a call  *)
(* no lock is held, and answers come in any order.                         *)
(*                                                                         *)
(* The check cache is what CheckCache shows it to be: it may have the last *)
(* verdict on a request and may lose it at any time.  The dictionary is    *)
(* full or, once lowered, at its base.                                     *)
(***************************************************************************)
EXTENDS QuotaCache

CONSTANTS
  Calls,          \* the calls that can be under way at once
  Requests,       \* the attributes that are checked
  QuotaLists,     \* the quotas a call requires, without repetition
  EntryLimits,    \* values of QuotaOptions::num_entries
  FailOpens,      \* values of CheckOptions::network_fail_open
  MaxChecks       \* bound: calls ever made

ASSUME MixerClientAssumption ==
  /\ EntryLimits \subseteq Nat /\ FailOpens \subseteq BOOLEAN /\ MaxChecks \in Nat
  /\ IsFiniteSet(Calls) /\ IsFiniteSet(QuotaNames)
  /\ \A l \in QuotaLists : l \in Seq(QuotaNames) /\ IsInjective(l)

VARIABLES
  fail_open,   \* CheckOptions::network_fail_open
  verdict,     \* the check cache: OK or DENIED, NOT_FOUND if it has none
  top,         \* the global dictionary: 1 full, 0 base
  call,        \* what each call is doing
  checks,      \* total_check_calls_
  destroyed

vars == <<quotaVars, fail_open, verdict, top, call, checks, destroyed>>

Idle == [pc |-> "idle"]
Running == {c \in Calls : call[c].pc # "idle"}

Init ==
  /\ QuotaInit(EntryLimits)
  /\ fail_open \in FailOpens
  /\ verdict = [a \in Requests |-> "NOT_FOUND"]
  /\ top = 1
  /\ call = [c \in Calls |-> Idle]
  /\ checks = 0 /\ destroyed = FALSE

-----------------------------------------------------------------------------
(* The parts of Check *)

Step(c, r) == call' = [call EXCEPT ![c] = r]
End(c) == Step(c, Idle)

\* Entry: the check cache is asked, and a cached denial ends the call.  done counts
\* the calls of the caller's function, on_done is whether the call still has it.
Check(c, a, names) ==
  /\ call[c] = Idle /\ ~destroyed /\ checks < MaxChecks
  /\ checks' = checks + 1
  /\ IF verdict[a] = "DENIED" THEN End(c)
     ELSE Step(c, [pc |-> "quota", a |-> a, left |-> names, todo |-> <<>>,
                   hit |-> verdict[a] = "OK", check |-> verdict[a], words |-> 0,
                   charged |-> FALSE, rejected |-> FALSE, pending |-> FALSE,
                   failed |-> FALSE, on_done |-> TRUE, done |-> 0])
  /\ UNCHANGED <<quotaVars, fail_open, verdict, top, destroyed>>

\* Mutant: the quota cache is used before the verdict is known.
UseCacheAlways(r) == num_entries > 0

\* quota_cache_->Check with use_cache if the verdict came from the cache.
UseQuotaCache(r) == num_entries > 0 /\ r.hit

\* Elements that callbacks of this client point to.
Busy == UNION {{call[c].todo[i].elem : i \in DOMAIN call[c].todo} : c \in Running}

\* QuotaCache::Check, its next quota.
CheckQuota(c) ==
  LET r == call[c] IN
  /\ r.pc = "quota" /\ r.left # <<>>
  /\ \E q \in QuotaResults(Head(r.left)) :
       /\ IF UseQuotaCache(r) THEN CheckCached(r.a, q.name, q, Busy)
          ELSE CheckRemote(q.name, q)
       /\ Step(c, [r EXCEPT !.left = Tail(@),
                            !.todo = IF q.func = "none" THEN @ ELSE Append(@, q),
                            !.charged = @ \/ q.result = "Passed",
                            !.rejected = @ \/ q.result = "Rejected",
                            !.pending = @ \/ q.result = "Pending"])
  /\ UNCHANGED <<fail_open, verdict, top, checks, destroyed>>

\* Mutant: on_done is kept for the callback as well.
OnDoneKept(r) == TRUE

OnDoneAfterHit(r) == FALSE

\* Mutant: a call that was answered from the caches returns.
QuotaCallDropped(r) == FALSE

QuotaCall(r) == r.todo # <<>>

\* BuildRequest, the callback if both results are cached, and Compress.
BuildRequest(c) ==
  LET r == call[c]
      hit == r.hit /\ (r.rejected \/ ~r.pending)
      told == IF hit THEN [r EXCEPT !.done = @ + 1, !.on_done = OnDoneAfterHit(r)] ELSE r
  IN /\ r.pc = "quota" /\ r.left = <<>>
     /\ IF hit /\ ~QuotaCall(r) THEN End(c)
        ELSE Step(c, [told EXCEPT !.pc = "send", !.words = top])
     /\ UNCHANGED <<quotaVars, fail_open, verdict, top, checks, destroyed>>

\* global_word_count() is read, and the transport gets the request.
Send(c) ==
  /\ call[c].pc = "send"
  /\ Step(c, [call[c] EXCEPT !.pc = "remote", !.words = 0])
  /\ UNCHANGED <<quotaVars, fail_open, verdict, top, checks, destroyed>>

-----------------------------------------------------------------------------
(* The transport's callback *)

\* CheckCache::CheckResult::SetResponse: the verdict s is cached if it can be.
OnAnswer(c, s, cacheable) ==
  LET r == call[c]
  IN /\ r.pc = "remote"
     /\ verdict' = IF cacheable THEN [verdict EXCEPT ![r.a] = s] ELSE verdict
     /\ Step(c, [r EXCEPT !.pc = "answer", !.check = s])
     /\ UNCHANGED <<quotaVars, fail_open, top, checks, destroyed>>

\* A transport error.
OnFailure(c) ==
  LET r == call[c]
  IN /\ r.pc = "remote"
     /\ Step(c, [r EXCEPT !.pc = "answer", !.failed = TRUE,
                          !.check = IF fail_open THEN "OK" ELSE "NETWORK"])
     /\ UNCHANGED <<quotaVars, fail_open, verdict, top, checks, destroyed>>

\* The next quota with a response_func; grant is its result, none if the answer
\* lacks it.
OnQuota(c, grant) ==
  LET r == call[c]
      q == Head(r.todo)
  IN /\ r.pc = "answer" /\ r.todo # <<>>
     /\ r.failed => grant = "none"
     /\ \/ /\ q.func = "grant"
           /\ Step(c, [r EXCEPT !.todo = Tail(@), !.rejected = @ \/ grant = "refused"])
           /\ UNCHANGED quotaVars
        \/ /\ q.func = "pending" /\ grant = "none" /\ UNCHANGED quotaVars
           /\ Step(c, [r EXCEPT !.pc = "deliver"])
        \/ /\ q.func = "pending" /\ grant # "none"
           /\ SetResponse(r.a, q.name) \/ UNCHANGED quotaVars  \* not decodable
           /\ Step(c, [r EXCEPT !.pc = "deliver"])
        \/ /\ q.func = "prefetch" /\ UNCHANGED quotaVars
           /\ Step(c, [r EXCEPT !.pc = "deliver"])
     /\ UNCHANGED <<fail_open, verdict, top, checks, destroyed>>

\* saved_func: the prefetch object gets its answer, if it had asked.
Deliver(c) ==
  LET r == call[c]
      q == Head(r.todo)
  IN /\ r.pc = "deliver"
     /\ IF q.elem = NoElem THEN UNCHANGED quotaVars ELSE OnQuotaResponse(q.elem)
     /\ Step(c, [r EXCEPT !.pc = "answer", !.todo = Tail(@)])
     /\ UNCHANGED <<fail_open, verdict, top, checks, destroyed>>

\* Mutant: the next answer without that error brings the full one back.
ShrunkForNow(invalid) == IF invalid THEN 0 ELSE 1

\* ShrinkGlobalDictionary if the server did not know the dictionary.
Shrunk(invalid) == IF invalid THEN 0 ELSE top

\* The caller is told, if it waits, and the dictionary is lowered.
Finish(c, invalid) ==
  /\ call[c].pc = "answer" /\ call[c].todo = <<>>
  /\ invalid => call[c].failed
  /\ End(c)
  /\ top' = Shrunk(invalid)
  /\ UNCHANGED <<quotaVars, fail_open, verdict, checks, destroyed>>

-----------------------------------------------------------------------------
(* The rest *)

\* The check cache loses an entry: expired, used up or evicted.
Forget(a) ==
  /\ verdict[a] # "NOT_FOUND" /\ ~destroyed
  /\ verdict' = [verdict EXCEPT ![a] = "NOT_FOUND"]
  /\ UNCHANGED <<quotaVars, fail_open, top, call, checks, destroyed>>

\* The destructor, when no call is under way.
Destroy ==
  /\ Running = {} /\ ~destroyed
  /\ FlushAll
  /\ destroyed' = TRUE
  /\ UNCHANGED <<fail_open, verdict, top, call, checks>>

Proceed(c) ==
  \/ CheckQuota(c) \/ BuildRequest(c) \/ Send(c)
  \/ \E s \in {"OK", "DENIED"}, b \in BOOLEAN : OnAnswer(c, s, b)
  \/ OnFailure(c)
  \/ \E g \in {"none", "granted", "refused"} : OnQuota(c, g)
  \/ Deliver(c)
  \/ \E b \in BOOLEAN : Finish(c, b)

Next ==
  \/ \E c \in Calls :
       \/ \E a \in Requests, l \in QuotaLists : Check(c, a, l)
       \/ Proceed(c)
  \/ \E a \in Requests : Forget(a)
  \/ Destroy

Spec == Init /\ [][Next]_vars

-----------------------------------------------------------------------------
(* Properties *)

\* Types; the LRU list has the unpinned entries, and only null ones stay pinned.
TypeOK ==
  /\ ToSet(cache.order) = {s \in DOMAIN cache.table : cache.table[s].pin = 0}
  /\ \A s \in DOMAIN cache.table : cache.table[s].pin > 0 => IsNull(cache, s)
  /\ \A i \in DOMAIN cache.defer : cache.defer[i].pin > 0
  /\ \A c \in Running : call[c].pc \in {"quota", "send", "remote", "answer", "deliver"}

\* A prefetch object has one owner, the pending item of its quota or one entry of
\* the cache, and the entry belongs to its quota, however many misses share the
\* object and in whichever order their answers come: it is deleted once, and no
\* quota is charged to another (pending_item.release(), Signature with the name).
ElemsOwnedOnce ==
  /\ \A s, t \in DOMAIN cache.table :
       s # t /\ cache.table[s].elem = cache.table[t].elem => IsNull(cache, s)
  /\ \A n \in QuotaNames : pending_item[n] # NoElem =>
       /\ \A s \in DOMAIN cache.table : cache.table[s].elem # pending_item[n]
       /\ elem[pending_item[n]].name = n
  /\ \A s \in DOMAIN cache.table : ~IsNull(cache, s) =>
       elem[cache.table[s].elem].name = s[1]

\* client_impl.cc:73-74, "a remote Check call may be rejected, but quota amounts
\* were substracted from quota cache already": no tokens were taken from a pool for
\* a call whose caller learns from the callback that it is denied (use_cache of
\* QuotaCache::Check).
DeniedTakesNothing ==
  [][\A c \in Running : call'[c] = Idle /\ call[c].on_done /\ call[c].check # "OK"
       => call[c].pc # "answer" \/ ~call[c].charged]_vars

\* A prefetch object waits for as many answers as calls under way will bring it:
\* no request for tokens is dropped between Alloc and the transport, none answered
\* twice.  One too many and the pool stays closed for good (quota_prefetch.cc:162).
InflightMatches ==
  \A e \in Live(cache, pending_item) :
    elem[e].inflight = Cardinality({x \in Running \X (1..Cardinality(QuotaNames)) :
      x[2] \in DOMAIN call[x[1]].todo /\ call[x[1]].todo[x[2]].elem = e})

\* on_done is called exactly once for each Check, by Check or by the callback.
OnDoneOnce == \A c \in Running : call[c].done + (IF call[c].on_done THEN 1 ELSE 0) = 1

Settled == top = 0 /\ \A c \in Running : call[c].pc = "send" => call[c].words = 0

\* Once the dictionary is lowered and the requests being built then are sent, no
\* request uses a word beyond the count it announces (Compress and
\* global_word_count, client_impl.cc:88-89).
DictionarySettles ==
  [][Settled => /\ Settled'
                /\ \A c \in Calls : call[c].pc = "send" /\ call'[c].pc = "remote" =>
                     call[c].words <= top]_vars

\* simple_lru_cache_inl.h:294, assert(defer_.size() == 0): no pin is left when the
\* cache is destroyed (every ScopedLookup of QuotaCache has released its own).
NoPinLeft == destroyed => cache.defer = <<>>

\* quota_cache.h:35, "This interface is thread safe": the prefetch object that an
\* answer is for still exists (the callbacks of CacheElem::Alloc hold a plain
\* pointer to it).
AnswerFindsElem ==
  \A c \in Running : call[c].pc = "deliver" /\ Head(call[c].todo).elem # NoElem =>
    Head(call[c].todo).elem \in Live(cache, pending_item)
=============================================================================
