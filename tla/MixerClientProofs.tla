------------------------- MODULE MixerClientProofs -------------------------
(***************************************************************************)
(* A Check call tells its caller once and takes no tokens for a denied     *)
(* request; a lowered dictionary stays low; and under the quota cache that *)
(* the calls share, a prefetch object has one owner and waits for as many  *)
(* answers as it will get.  For every number of calls, requests, quotas    *)
(* and objects.                                                            *)
(*                                                                         *)
(* Three invariants, each inductive given the ones before: Inv of the      *)
(* calls, QuotaInv of the quota cache, WaitInv of what relates the two.    *)
(***************************************************************************)
EXTENDS MixerClient, DataTheorems

Verdicts == {"OK", "DENIED", "NOT_FOUND"}
Pcs == {"quota", "send", "remote", "answer", "deliver"}
AllQuotas == UNION {QuotaResults(n) : n \in QuotaNames}

CallRecord ==
  [pc : Pcs, a : Requests, left : Seq(QuotaNames), todo : Seq(AllQuotas),
   hit : BOOLEAN, check : Verdicts \cup {"NETWORK"}, words : {0, 1},
   charged : BOOLEAN, rejected : BOOLEAN, pending : BOOLEAN, failed : BOOLEAN,
   on_done : BOOLEAN, done : {0, 1}]

\* What holds of a call under way.  The quota cache is used for all of its quotas
\* or for none, so tokens are taken only if none has to be asked for, and then the
\* caller is told before the request is sent.
Good(r) ==
  /\ r.done = (IF r.on_done THEN 0 ELSE 1)
  /\ r.charged => UseQuotaCache(r)
  /\ UseQuotaCache(r) => ~r.pending
  /\ r.pc = "quota" => r.on_done
  /\ r.pc # "quota" /\ r.on_done => ~r.charged
  /\ r.pc = "deliver" => r.todo # <<>>

Inv ==
  /\ call \in [Calls -> CallRecord \cup {Idle}]
  /\ verdict \in [Requests -> Verdicts]
  /\ top \in {0, 1}
  /\ \A c \in Calls : call[c] # Idle => Good(call[c])

-----------------------------------------------------------------------------
(* What the quota cache promises the client *)

\* CheckCache of a quota passes or rejects it at once, and keeps the options.
LEMMA CachedResult ==
  ASSUME NEW a, NEW n, NEW q, NEW busy, CheckCached(a, n, q, busy)
  PROVE  num_entries' = num_entries /\ q.result \in {"Passed", "Rejected"}
BY DEF CheckCached, Quota

\* SetResponse keeps the options.
LEMMA SetResponseLimit ==
  ASSUME NEW a, NEW n, SetResponse(a, n)
  PROVE  num_entries' = num_entries
BY DEF SetResponse, quotaVars

-----------------------------------------------------------------------------
(* Steps keep the invariant *)

\* A step of call c to r, or to its end, leaves the other calls as they are.
LEMMA StepInv ==
  ASSUME Inv, NEW c \in Calls, NEW r \in CallRecord \cup {Idle}, Step(c, r),
         r # Idle => Good(r), num_entries' = num_entries,
         verdict' \in [Requests -> Verdicts], top' \in {0, 1}
  PROVE  Inv'
<1>1. call' = [call EXCEPT ![c] = r]
  BY DEF Step
<1>2. call' \in [Calls -> CallRecord \cup {Idle}]
  BY <1>1 DEF Inv
<1>3. ASSUME NEW d \in Calls, call'[d] # Idle PROVE Good(call[d])'
  <2>1. Good(call'[d])
    BY <1>1, <1>3 DEF Inv
  <2> QED BY <2>1 DEF Good, UseQuotaCache
<1> QED BY <1>2, <1>3 DEF Inv

\* A call under way is a record that satisfies Good.
LEMMA Underway ==
  ASSUME Inv, NEW c \in Calls, call[c].pc \in Pcs
  PROVE  call[c] \in CallRecord /\ Good(call[c])
<1>1. Idle.pc = "idle" /\ "idle" \notin Pcs
  BY DEF Idle, Pcs
<1>2. call[c] # Idle
  BY <1>1
<1> QED BY <1>2 DEF Inv

\* Entering Check.
LEMMA CheckInv ==
  ASSUME Inv, NEW c \in Calls, NEW a \in Requests, NEW l \in QuotaLists, Check(c, a, l)
  PROVE  Inv'
<1>1. num_entries' = num_entries /\ verdict' = verdict /\ top' = top
  BY DEF Check, quotaVars
<1>2. CASE verdict[a] = "DENIED"
  BY <1>1, <1>2, StepInv DEF Check, End, Inv
<1>3. CASE verdict[a] # "DENIED"
  <2> DEFINE r == [pc |-> "quota", a |-> a, left |-> l, todo |-> <<>>,
                   hit |-> verdict[a] = "OK", check |-> verdict[a], words |-> 0,
                   charged |-> FALSE, rejected |-> FALSE, pending |-> FALSE,
                   failed |-> FALSE, on_done |-> TRUE, done |-> 0]
  <2>1. Step(c, r)
    BY <1>3 DEF Check
  <2>2. r \in CallRecord
    <3>1. l \in Seq(QuotaNames)
      BY MixerClientAssumption
    <3>2. verdict[a] \in Verdicts
      BY DEF Inv
    <3>3. <<>> \in Seq(AllQuotas)
      OBVIOUS
    <3>4. (verdict[a] = "OK") \in BOOLEAN
      OBVIOUS
    <3> HIDE DEF Verdicts, AllQuotas
    <3> QED BY <3>1, <3>2, <3>3, <3>4 DEF CallRecord, Pcs
  <2>3. Good(r)
    BY DEF Good
  <2> HIDE DEF r
  <2> QED BY <1>1, <2>1, <2>2, <2>3, StepInv DEF Inv
<1> QED BY <1>2, <1>3

\* A quota is looked up: in the cache for all quotas of the call, or for none.
LEMMA CheckQuotaInv ==
  ASSUME Inv, NEW c \in Calls, CheckQuota(c)
  PROVE  Inv'
<1> DEFINE r == call[c]
<1>1. r.pc = "quota" /\ r.left # <<>> /\ verdict' = verdict /\ top' = top
  BY DEF CheckQuota
<1>2. PICK q \in QuotaResults(Head(r.left)) :
        /\ IF UseQuotaCache(r) THEN CheckCached(r.a, q.name, q, Busy)
           ELSE CheckRemote(q.name, q)
        /\ Step(c, [r EXCEPT !.left = Tail(@),
                             !.todo = IF q.func = "none" THEN @ ELSE Append(@, q),
                             !.charged = @ \/ q.result = "Passed",
                             !.rejected = @ \/ q.result = "Rejected",
                             !.pending = @ \/ q.result = "Pending"])
  BY DEF CheckQuota
<1>3. r \in CallRecord /\ Good(r)
  BY <1>1, Underway DEF Pcs
<1>4. Head(r.left) \in QuotaNames /\ Tail(r.left) \in Seq(QuotaNames)
  <2>1. r.left \in Seq(QuotaNames)
    BY <1>3 DEF CallRecord
  <2> QED BY <1>1, <2>1, HeadTailProperties
<1>5. (IF q.func = "none" THEN r.todo ELSE Append(r.todo, q)) \in Seq(AllQuotas)
  <2>1. q \in AllQuotas
    BY <1>4 DEF AllQuotas
  <2>2. r.todo \in Seq(AllQuotas)
    BY <1>3 DEF CallRecord
  <2> QED BY <2>1, <2>2, AppendProperties
<1>6. /\ num_entries' = num_entries
      /\ UseQuotaCache(r) => q.result \in {"Passed", "Rejected"}
      /\ ~UseQuotaCache(r) => q.result = "Pending"
  <2>1. CASE UseQuotaCache(r)
    BY <1>2, <2>1, CachedResult
  <2>2. CASE ~UseQuotaCache(r)
    BY <1>2, <2>2 DEF CheckRemote, quotaVars
  <2> QED BY <2>1, <2>2
<1> DEFINE s == [r EXCEPT !.left = Tail(@),
                          !.todo = IF q.func = "none" THEN @ ELSE Append(@, q),
                          !.charged = @ \/ q.result = "Passed",
                          !.rejected = @ \/ q.result = "Rejected",
                          !.pending = @ \/ q.result = "Pending"]
<1>7. s \in CallRecord
  <2> HIDE DEF r
  <2> QED BY <1>3, <1>4, <1>5 DEF CallRecord
<1>8. Good(s)
  <2> HIDE DEF r
  <2> QED BY <1>1, <1>3, <1>6 DEF CallRecord, Good, UseQuotaCache
<1>9. Step(c, s)
  BY <1>2
<1> HIDE DEF r, s
<1> QED BY <1>1, <1>6, <1>7, <1>8, <1>9, StepInv DEF Inv

\* If all results are cached the caller is told now and not again.
LEMMA BuildRequestInv ==
  ASSUME Inv, NEW c \in Calls, BuildRequest(c)
  PROVE  Inv'
<1> DEFINE r == call[c]
           hit == r.hit /\ (r.rejected \/ ~r.pending)
           told == IF hit THEN [r EXCEPT !.done = @ + 1, !.on_done = OnDoneAfterHit(r)] ELSE r
           s == [told EXCEPT !.pc = "send", !.words = top]
<1>1. /\ r.pc = "quota" /\ (Step(c, Idle) \/ Step(c, s))
      /\ num_entries' = num_entries /\ verdict' = verdict /\ top' = top
  BY DEF BuildRequest, End, quotaVars
<1>2. r \in CallRecord /\ Good(r)
  BY <1>1, Underway DEF Pcs
<1>3. s \in CallRecord /\ Good(s)
  <2> HIDE DEF r
  <2>1. top \in {0, 1}
    BY DEF Inv
  <2>2. CASE hit
    <3>1. r.on_done /\ r.done + 1 = 1
      BY <1>1, <1>2 DEF CallRecord, Good
    <3>2. told = [r EXCEPT !.done = 1, !.on_done = FALSE]
      BY <2>2, <3>1 DEF OnDoneAfterHit
    <3> HIDE DEF told
    <3> QED BY <1>2, <2>1, <3>2 DEF CallRecord, Good, UseQuotaCache, Pcs
  <2>3. CASE ~hit
    <3>1. s = [r EXCEPT !.pc = "send", !.words = top]
      BY <2>3
    <3>2. ~r.charged
      BY <1>2, <2>3 DEF CallRecord, Good, UseQuotaCache
    <3> QED BY <1>2, <2>1, <3>1, <3>2 DEF CallRecord, Good, UseQuotaCache, Pcs
  <2> QED BY <2>2, <2>3
<1> HIDE DEF r, s
<1>4. CASE Step(c, Idle)
  BY <1>1, <1>4, StepInv DEF Inv
<1>5. CASE Step(c, s)
  BY <1>1, <1>3, <1>5, StepInv DEF Inv
<1> QED BY <1>1, <1>4, <1>5

\* The steps of a request that is sent and answered change neither what was taken
\* for it nor whether its caller was told.
LEMMA SentInv ==
  ASSUME Inv, NEW c \in Calls,
         \/ Send(c) \/ OnFailure(c)
         \/ \E v \in {"OK", "DENIED"}, b \in BOOLEAN : OnAnswer(c, v, b)
  PROVE  Inv'
<1> DEFINE r == call[c]
<1>1. num_entries' = num_entries /\ top' = top /\ top \in {0, 1}
  BY DEF Send, OnAnswer, OnFailure, quotaVars, Inv
<1>2. CASE Send(c)
  <2>1. r \in CallRecord /\ Good(r) /\ r.pc = "send"
    BY <1>2, Underway DEF Pcs, Send
  <2> DEFINE s == [r EXCEPT !.pc = "remote", !.words = 0]
  <2>2. s \in CallRecord /\ Good(s)
    <3> HIDE DEF r
    <3> QED BY <2>1 DEF CallRecord, Good, UseQuotaCache, Pcs
  <2>3. Step(c, s) /\ verdict' = verdict
    BY <1>2 DEF Send
  <2> HIDE DEF s
  <2> QED BY <1>1, <2>2, <2>3, StepInv DEF Inv
<1>3. ASSUME NEW v \in {"OK", "DENIED"}, NEW b \in BOOLEAN, OnAnswer(c, v, b) PROVE Inv'
  <2>1. r \in CallRecord /\ Good(r) /\ r.pc = "remote"
    BY <1>3, Underway DEF Pcs, OnAnswer
  <2> DEFINE s == [r EXCEPT !.pc = "answer", !.check = v]
  <2>2. s \in CallRecord /\ Good(s)
    <3> HIDE DEF r
    <3> QED BY <2>1 DEF CallRecord, Good, UseQuotaCache, Pcs, Verdicts
  <2>3. Step(c, s) /\ verdict' = IF b THEN [verdict EXCEPT ![r.a] = v] ELSE verdict
    BY <1>3 DEF OnAnswer
  <2>4. verdict' \in [Requests -> Verdicts]
    <3>1. verdict \in [Requests -> Verdicts] /\ v \in Verdicts
      BY DEF Inv, Verdicts
    <3> QED BY <2>3, <3>1
  <2> HIDE DEF s
  <2> QED BY <1>1, <2>2, <2>3, <2>4, StepInv
<1>4. CASE OnFailure(c)
  <2>1. r \in CallRecord /\ Good(r) /\ r.pc = "remote"
    BY <1>4, Underway DEF Pcs, OnFailure
  <2> DEFINE v == IF fail_open THEN "OK" ELSE "NETWORK"
             s == [r EXCEPT !.pc = "answer", !.failed = TRUE, !.check = v]
  <2>2. s \in CallRecord /\ Good(s)
    <3>1. v \in Verdicts \cup {"NETWORK"}
      BY DEF Verdicts
    <3> HIDE DEF r, v
    <3> QED BY <2>1, <3>1 DEF CallRecord, Good, UseQuotaCache, Pcs
  <2>3. Step(c, s) /\ verdict' = verdict
    BY <1>4 DEF OnFailure
  <2> HIDE DEF s
  <2> QED BY <1>1, <2>2, <2>3, StepInv DEF Inv
<1> QED BY <1>2, <1>3, <1>4

\* The callbacks of the quotas.
LEMMA OnQuotaInv ==
  ASSUME Inv, NEW c \in Calls,
         Deliver(c) \/ \E g \in {"none", "granted", "refused"} : OnQuota(c, g)
  PROVE  Inv'
<1> DEFINE r == call[c]
<1>1. /\ verdict' = verdict /\ top' = top /\ r.pc \in {"answer", "deliver"}
  BY DEF Deliver, OnQuota
<1>2. r \in CallRecord /\ Good(r)
  BY <1>1, Underway DEF Pcs
<1>3. num_entries' = num_entries
  <2>1. CASE Deliver(c)
    BY <2>1 DEF Deliver, OnQuotaResponse, quotaVars
  <2>2. ASSUME NEW g, OnQuota(c, g) PROVE num_entries' = num_entries
    <3>1. (\E a, n : SetResponse(a, n)) \/ UNCHANGED quotaVars
      BY <2>2 DEF OnQuota
    <3> QED BY <3>1, SetResponseLimit DEF quotaVars
  <2> QED BY <2>1, <2>2
<1>4. \E s : Step(c, s) /\ s \in CallRecord /\ Good(s)
  <2>1. r.todo \in Seq(AllQuotas)
    BY <1>2 DEF CallRecord
  <2>2. ASSUME r.todo # <<>>, Step(c, [r EXCEPT !.pc = "deliver"])
        PROVE  \E s : Step(c, s) /\ s \in CallRecord /\ Good(s)
    <3> DEFINE s == [r EXCEPT !.pc = "deliver"]
    <3>1. s \in CallRecord /\ Good(s)
      <4> HIDE DEF r
      <4> QED BY <1>1, <1>2, <2>2 DEF CallRecord, Good, UseQuotaCache, Pcs
    <3> QED BY <2>2, <3>1
  <2>3. CASE Deliver(c)
    <3> DEFINE s == [r EXCEPT !.pc = "answer", !.todo = Tail(@)]
    <3>1. Tail(r.todo) \in Seq(AllQuotas)
      <4>1. r.todo # <<>>
        BY <1>2, <2>3 DEF Deliver, Good
      <4> QED BY <2>1, <4>1, HeadTailProperties
    <3>2. s \in CallRecord /\ Good(s)
      <4> HIDE DEF r
      <4> QED BY <1>1, <1>2, <3>1 DEF CallRecord, Good, UseQuotaCache, Pcs
    <3>3. Step(c, s)
      BY <2>3 DEF Deliver
    <3> QED BY <3>2, <3>3
  <2>4. ASSUME NEW g, OnQuota(c, g), Step(c, [r EXCEPT !.todo = Tail(@),
                                                       !.rejected = @ \/ g = "refused"])
        PROVE  \E s : Step(c, s) /\ s \in CallRecord /\ Good(s)
    <3> DEFINE s == [r EXCEPT !.todo = Tail(@), !.rejected = @ \/ g = "refused"]
    <3>1. Tail(r.todo) \in Seq(AllQuotas)
      BY <2>1, <2>4, HeadTailProperties DEF OnQuota
    <3>2. s \in CallRecord /\ Good(s)
      <4>1. r.pc = "answer"
        BY <2>4 DEF OnQuota
      <4> HIDE DEF r
      <4> QED BY <1>2, <3>1, <4>1 DEF CallRecord, Good, UseQuotaCache, Pcs
    <3> QED BY <2>4, <3>2
  <2>5. ASSUME NEW g, OnQuota(c, g)
        PROVE  \/ r.todo # <<>> /\ Step(c, [r EXCEPT !.pc = "deliver"])
               \/ Step(c, [r EXCEPT !.todo = Tail(@), !.rejected = @ \/ g = "refused"])
    BY <2>5 DEF OnQuota
  <2> QED BY <2>2, <2>3, <2>4, <2>5
<1> QED BY <1>1, <1>3, <1>4, StepInv DEF Inv

\* The end of a call, and what happens outside of one.
LEMMA RestInv ==
  ASSUME Inv,
         \/ \E c \in Calls, b \in BOOLEAN : Finish(c, b)
         \/ \E a \in Requests : Forget(a)
         \/ Destroy
  PROVE  Inv'
<1>1. ASSUME NEW c \in Calls, NEW b \in BOOLEAN, Finish(c, b) PROVE Inv'
  <2>1. Step(c, Idle) /\ verdict' = verdict /\ num_entries' = num_entries
    BY <1>1 DEF Finish, End, quotaVars
  <2>2. top' \in {0, 1}
    BY <1>1 DEF Finish, Shrunk, Inv
  <2> QED BY <2>1, <2>2, StepInv DEF Inv
<1>2. ASSUME NEW a \in Requests, Forget(a) PROVE Inv'
  <2>1. verdict' \in [Requests -> Verdicts]
    BY <1>2 DEF Forget, Inv, Verdicts
  <2> QED BY <1>2, <2>1 DEF Forget, quotaVars, Inv, Good, UseQuotaCache
<1>3. CASE Destroy
  BY <1>3 DEF Destroy, FlushAll, Inv, Good, UseQuotaCache
<1> QED BY <1>1, <1>2, <1>3

\* No call is under way at first.
LEMMA InitInv == Init => Inv
BY DEF Init, Inv, Verdicts

\* Every step keeps the invariant.
LEMMA NextInv == Inv /\ [Next]_vars => Inv'
<1> SUFFICES ASSUME Inv, [Next]_vars PROVE Inv'
  OBVIOUS
<1>1. CASE UNCHANGED vars
  BY <1>1 DEF vars, quotaVars, Inv, Good, UseQuotaCache
<1>2. ASSUME NEW c \in Calls, NEW a \in Requests, NEW l \in QuotaLists, Check(c, a, l)
      PROVE  Inv'
  BY <1>2, CheckInv
<1>3. ASSUME NEW c \in Calls, Proceed(c) PROVE Inv'
  BY <1>3, CheckQuotaInv, BuildRequestInv, SentInv, OnQuotaInv, RestInv DEF Proceed
<1>4. CASE (\E a \in Requests : Forget(a)) \/ Destroy
  BY <1>4, RestInv
<1> QED BY <1>1, <1>2, <1>3, <1>4 DEF Next

-----------------------------------------------------------------------------
(* Theorems *)

\* Inv holds in every reachable state of the client.
THEOREM ClientInv == Spec => []Inv
BY InitInv, NextInv, PTL DEF Spec

\* on_done is called exactly once for each Check, by Check or by the callback
\* (client_impl.cc: on_done is cleared once the caller was told).
THEOREM ToldOnce == Spec => []OnDoneOnce
<1>1. Inv => OnDoneOnce
  <2> SUFFICES ASSUME Inv, NEW c \in Calls, call[c].pc # "idle"
               PROVE  call[c].done + (IF call[c].on_done THEN 1 ELSE 0) = 1
    BY DEF OnDoneOnce, Running
  <2>1. call[c] # Idle
    BY DEF Idle
  <2> QED BY <2>1 DEF Inv, Good
<1> QED BY <1>1, ClientInv, PTL

\* No tokens were taken from a pool for a call whose caller learns from the
\* transport's callback that it is denied (use_cache of QuotaCache::Check).
THEOREM DeniedKeepsTokens == Spec => DeniedTakesNothing
<1>1. Inv => \A c \in Running : call[c].pc = "answer" /\ call[c].on_done => ~call[c].charged
  <2> SUFFICES ASSUME Inv, NEW c \in Calls, call[c].pc = "answer", call[c].on_done
               PROVE  ~call[c].charged
    BY DEF Running
  <2> QED BY Underway DEF Pcs, Good
<1>2. Inv /\ [Next]_vars =>
        [\A c \in Running : call'[c] = Idle /\ call[c].on_done /\ call[c].check # "OK"
           => call[c].pc # "answer" \/ ~call[c].charged]_vars
  BY <1>1
<1> QED BY <1>2, ClientInv, PTL DEF Spec, DeniedTakesNothing

-----------------------------------------------------------------------------
(* The dictionary *)

\* A step of call c keeps the dictionary settled if c does not start to send words
\* beyond the base.
LEMMA StepSettles ==
  ASSUME Inv, Settled, NEW c \in Calls, NEW r, Step(c, r),
         r.pc = "send" => r.words = 0, top' = top \/ top' = 0
  PROVE  Settled'
<1>1. call' = [call EXCEPT ![c] = r] /\ call \in [Calls -> CallRecord \cup {Idle}]
  BY DEF Step, Inv
<1>2. ASSUME NEW d \in Running', call'[d].pc = "send" PROVE call'[d].words = 0
  <2>1. d \in Calls
    BY DEF Running
  <2>2. CASE d = c
    BY <1>1, <1>2, <2>2
  <2>3. CASE d # c
    <3>1. call'[d] = call[d] /\ d \in Running
      BY <1>1, <1>2, <2>1, <2>3 DEF Running
    <3> QED BY <1>2, <3>1 DEF Settled
  <2> QED BY <2>2, <2>3
<1> QED BY <1>2 DEF Settled

\* Requests are built with the words of the dictionary as it is, and it only shrinks.
LEMMA NextSettles ==
  ASSUME Inv, Settled, [Next]_vars
  PROVE  Settled'
<1>1. Idle.pc # "send"
  BY DEF Idle
<1>2. CASE UNCHANGED vars
  BY <1>2 DEF vars, Settled, Running
<1>3. ASSUME NEW c \in Calls, NEW a \in Requests, NEW l \in QuotaLists, Check(c, a, l)
      PROVE  Settled'
  <2>1. \E r : Step(c, r) /\ r.pc # "send"
    BY <1>1, <1>3 DEF Check, End
  <2> QED BY <1>3, <2>1, StepSettles DEF Check
<1>4. ASSUME NEW c \in Calls, Proceed(c) PROVE Settled'
  <2> DEFINE r == call[c]
  <2>1. r.pc \in Pcs => r \in CallRecord
    BY Underway
  <2>2. CASE CheckQuota(c)
    <3>1. r \in CallRecord /\ r.pc = "quota" /\ top' = top
      BY <2>1, <2>2 DEF CheckQuota, Pcs
    <3>2. \E s : Step(c, s) /\ s.pc = r.pc
      <4>1. PICK q : Step(c, [r EXCEPT !.left = Tail(@),
                              !.todo = IF q.func = "none" THEN @ ELSE Append(@, q),
                              !.charged = @ \/ q.result = "Passed",
                              !.rejected = @ \/ q.result = "Rejected",
                              !.pending = @ \/ q.result = "Pending"])
        BY <2>2 DEF CheckQuota
      <4> DEFINE s == [r EXCEPT !.left = Tail(@),
                              !.todo = IF q.func = "none" THEN @ ELSE Append(@, q),
                              !.charged = @ \/ q.result = "Passed",
                              !.rejected = @ \/ q.result = "Rejected",
                              !.pending = @ \/ q.result = "Pending"]
      <4>2. s.pc = r.pc
        <5> HIDE DEF r
        <5> QED BY <3>1 DEF CallRecord
      <4> QED BY <4>1, <4>2
    <3> QED BY <3>1, <3>2, StepSettles
  <2>3. CASE BuildRequest(c)
    <3> DEFINE hit == r.hit /\ (r.rejected \/ ~r.pending)
               told == IF hit THEN [r EXCEPT !.done = @ + 1, !.on_done = OnDoneAfterHit(r)]
                       ELSE r
               s == [told EXCEPT !.pc = "send", !.words = top]
    <3>1. r \in CallRecord /\ top = 0 /\ top' = top /\ (Step(c, Idle) \/ Step(c, s))
      BY <2>1, <2>3 DEF BuildRequest, End, Settled, Pcs
    <3>2. s.words = 0
      <4> HIDE DEF r
      <4> QED BY <3>1 DEF CallRecord
    <3> HIDE DEF s
    <3> QED BY <1>1, <3>1, <3>2, StepSettles
  <2>4. CASE Send(c)
    <3>1. r \in CallRecord /\ Step(c, [r EXCEPT !.pc = "remote", !.words = 0]) /\ top' = top
      BY <2>1, <2>4 DEF Send, Pcs
    <3> HIDE DEF r
    <3>2. [r EXCEPT !.pc = "remote", !.words = 0].pc = "remote"
      BY <3>1 DEF CallRecord
    <3> QED BY <3>1, <3>2, StepSettles
  <2>5. CASE \/ OnFailure(c)
             \/ \E s \in {"OK", "DENIED"}, b \in BOOLEAN : OnAnswer(c, s, b)
    <3>1. r \in CallRecord /\ top' = top
      BY <2>1, <2>5 DEF OnFailure, OnAnswer, Pcs
    <3>2. \E f, v : Step(c, [r EXCEPT !.pc = "answer", !.failed = f, !.check = v])
      <4>1. CASE OnFailure(c)
        BY <4>1 DEF OnFailure
      <4>2. ASSUME NEW v, NEW b, OnAnswer(c, v, b)
            PROVE  \E f, w : Step(c, [r EXCEPT !.pc = "answer", !.failed = f, !.check = w])
        <5>1. [r EXCEPT !.pc = "answer", !.check = v]
                = [r EXCEPT !.pc = "answer", !.failed = r.failed, !.check = v]
          <6> HIDE DEF r
          <6> QED BY <3>1 DEF CallRecord
        <5> QED BY <4>2, <5>1 DEF OnAnswer
      <4> QED BY <2>5, <4>1, <4>2
    <3>3. PICK f, v : Step(c, [r EXCEPT !.pc = "answer", !.failed = f, !.check = v])
      BY <3>2
    <3> HIDE DEF r
    <3>4. [r EXCEPT !.pc = "answer", !.failed = f, !.check = v].pc = "answer"
      BY <3>1 DEF CallRecord
    <3> QED BY <3>1, <3>3, <3>4, StepSettles
  <2>6. CASE Deliver(c) \/ \E g \in {"none", "granted", "refused"} : OnQuota(c, g)
    <3>1. r \in CallRecord /\ r.pc \in {"answer", "deliver"} /\ top' = top
      BY <2>1, <2>6 DEF OnQuota, Deliver, Pcs
    <3>2. \E s : Step(c, s) /\ s.pc # "send"
      <4>1. \/ Step(c, [r EXCEPT !.pc = "deliver"])
            \/ Step(c, [r EXCEPT !.pc = "answer", !.todo = Tail(@)])
            \/ \E g : Step(c, [r EXCEPT !.todo = Tail(@), !.rejected = @ \/ g = "refused"])
        BY <2>6 DEF Deliver, OnQuota
      <4>2. /\ [r EXCEPT !.pc = "deliver"].pc # "send"
            /\ [r EXCEPT !.pc = "answer", !.todo = Tail(@)].pc # "send"
            /\ \A g : [r EXCEPT !.todo = Tail(@), !.rejected = @ \/ g = "refused"].pc # "send"
        <5> HIDE DEF r
        <5> QED BY <3>1 DEF CallRecord
      <4> HIDE DEF r
      <4> QED BY <4>1, <4>2
    <3> QED BY <3>1, <3>2, StepSettles
  <2>7. ASSUME NEW b \in BOOLEAN, Finish(c, b) PROVE Settled'
    BY <1>1, <2>7, StepSettles DEF Finish, End, Shrunk
  <2> QED BY <1>4, <2>2, <2>3, <2>4, <2>5, <2>6, <2>7 DEF Proceed
<1>5. CASE (\E a \in Requests : Forget(a)) \/ Destroy
  BY <1>5 DEF Forget, Destroy, Settled, Running
<1> QED BY <1>2, <1>3, <1>4, <1>5 DEF Next

\* Once the dictionary is lowered and the requests being built then are sent, every
\* request announces as many words as it uses (client_impl.cc: Compress,
\* global_word_count, ShrinkGlobalDictionary).
THEOREM DictionaryStays == Spec => DictionarySettles
<1>1. Inv /\ [Next]_vars =>
        [Settled => /\ Settled'
                    /\ \A c \in Calls : call[c].pc = "send" /\ call'[c].pc = "remote" =>
                         call[c].words <= top]_vars
  <2>1. ASSUME Settled, NEW c \in Calls, call[c].pc = "send" PROVE call[c].words <= top
    <3>1. c \in Running /\ call[c].words = 0 /\ top = 0
      BY <2>1 DEF Settled, Running
    <3> QED BY <3>1
  <2> QED BY <2>1, NextSettles
<1> QED BY <1>1, ClientInv, PTL DEF Spec, DictionarySettles

-----------------------------------------------------------------------------
(* The operations of the LRU cache of prefetch objects *)

\* The signatures that answers can have.
Sigs == {QuotaSig(Fill(a, QuotaMatches(n, a)), a, n) : n \in QuotaNames, a \in Requests}

\* The LRU list has the unpinned entries, and what is deferred has pins.
Shaped(c) ==
  /\ c = [table |-> c.table, order |-> c.order, defer |-> c.defer]
  /\ IsFiniteSet(DOMAIN c.table) /\ DOMAIN c.table \subseteq Sigs
  /\ c.table \in [DOMAIN c.table -> [elem : Elems \cup {NoElem}, pin : Nat]]
  /\ c.order \in Seq(Sigs)
  /\ ToSet(c.order) = {s \in DOMAIN c.table : c.table[s].pin = 0}
  /\ c.defer \in Seq([sig : Sigs, pin : Nat \ {0}])

\* Outside of X only null entries are pinned.
PinsNull(c, X) == \A s \in DOMAIN c.table : c.table[s].pin > 0 => IsNull(c, s) \/ s \in X

\* d has some of the entries of c.
Kept(c, d) ==
  /\ DOMAIN d.table \subseteq DOMAIN c.table
  /\ \A s \in DOMAIN d.table : d.table[s].elem = c.table[s].elem

\* Unlisted takes the entries of a set from the list.
LEMMA UnlistedFacts ==
  ASSUME NEW c, c.order \in Seq(Sigs), NEW T, NEW o, o = Unlisted(c, T)
  PROVE  o \in Seq(Sigs) /\ ToSet(o) = ToSet(c.order) \ T
<1> DEFINE kept == CHOOSE g : Keeps(g, c.order, T)
<1>1. o = kept[Len(c.order)]
  BY DEF Unlisted, Keeps
<1>2. Keeps(kept, c.order, T)
  <2>1. \E g : Keeps(g, c.order, T)
    BY KeepsExists
  <2> QED BY <2>1
<1> HIDE DEF kept
<1> QED BY <1>1, <1>2, KeepsFacts

\* Entries are removed from the table and from the list.
LEMMA Dropping ==
  ASSUME NEW c, Shaped(c), NEW T, NEW d, d = Dropped(c, T)
  PROVE  /\ Shaped(d) /\ DOMAIN d.table = DOMAIN c.table \ T /\ d.defer = c.defer
         /\ \A s \in DOMAIN c.table \ T : d.table[s] = c.table[s]
<1> DEFINE o == Unlisted(c, T)
           t == [s \in DOMAIN c.table \ T |-> c.table[s]]
<1>1. o \in Seq(Sigs) /\ ToSet(o) = ToSet(c.order) \ T
  BY UnlistedFacts DEF Shaped
<1>2. d = [table |-> t, order |-> o, defer |-> c.defer]
  BY DEF Dropped, Restrict, Shaped
<1> HIDE DEF o
<1>3. d.table = t /\ d.order = o /\ d.defer = c.defer
  BY <1>2
<1>4. DOMAIN d.table = DOMAIN c.table \ T /\ \A s \in DOMAIN c.table \ T : d.table[s] = c.table[s]
  BY <1>3
<1>5. IsFiniteSet(DOMAIN d.table)
  BY <1>4, FS_Subset DEF Shaped
<1>6. d.table \in [DOMAIN d.table -> [elem : Elems \cup {NoElem}, pin : Nat]]
  BY <1>3, <1>4 DEF Shaped
<1>7. ToSet(d.order) = {s \in DOMAIN d.table : d.table[s].pin = 0}
  BY <1>1, <1>3, <1>4 DEF Shaped
<1> HIDE DEF t
<1> QED BY <1>1, <1>2, <1>3, <1>4, <1>5, <1>6, <1>7 DEF Shaped

\* Lookups leave their pins on null entries.
LEMMA Pinning ==
  ASSUME NEW c, Shaped(c), NEW v,
         \A s \in DOMAIN c.table : v[s] \in Nat /\ (v[s] > 0 => IsNull(c, s)),
         NEW d, d = PinNulls(c, v)
  PROVE  /\ Shaped(d) /\ DOMAIN d.table = DOMAIN c.table /\ d.defer = c.defer
         /\ \A s \in DOMAIN c.table : /\ d.table[s].elem = c.table[s].elem
                                      /\ d.table[s].pin = c.table[s].pin + v[s]
         /\ PinsNull(c, {}) => PinsNull(d, {})
<1> DEFINE S == {s \in DOMAIN c.table : v[s] > 0}
           o == Unlisted(c, S)
           t == [s \in DOMAIN c.table |->
                   [elem |-> c.table[s].elem, pin |-> c.table[s].pin + v[s]]]
<1>1. o \in Seq(Sigs) /\ ToSet(o) = ToSet(c.order) \ S
  <2> HIDE DEF S
  <2> QED BY UnlistedFacts DEF Shaped
<1>2. d = [table |-> t, order |-> o, defer |-> c.defer]
  BY DEF PinNulls, Shaped
<1> HIDE DEF o
<1>3. d.table = t /\ d.order = o /\ d.defer = c.defer
  BY <1>2
<1>4. /\ DOMAIN d.table = DOMAIN c.table
      /\ \A s \in DOMAIN c.table : /\ d.table[s].elem = c.table[s].elem
                                   /\ d.table[s].pin = c.table[s].pin + v[s]
  BY <1>3
<1>5. \A s \in DOMAIN c.table : c.table[s].elem \in Elems \cup {NoElem} /\ c.table[s].pin \in Nat
  BY DEF Shaped
<1>6. d.table \in [DOMAIN d.table -> [elem : Elems \cup {NoElem}, pin : Nat]]
  <2>1. \A s \in DOMAIN c.table : t[s] \in [elem : Elems \cup {NoElem}, pin : Nat]
    BY <1>5
  <2> QED BY <1>3, <2>1
<1> HIDE DEF t
<1>7. ToSet(d.order) = {s \in DOMAIN d.table : d.table[s].pin = 0}
  BY <1>1, <1>3, <1>4, <1>5 DEF Shaped
<1>8. Shaped(d)
  BY <1>1, <1>2, <1>3, <1>4, <1>6, <1>7 DEF Shaped
<1>9. ASSUME PinsNull(c, {}), NEW s \in DOMAIN d.table, d.table[s].pin > 0 PROVE IsNull(d, s)
  <2>1. c.table[s].pin > 0 \/ v[s] > 0
    BY <1>4, <1>5, <1>9
  <2>2. IsNull(c, s)
    BY <1>4, <1>9, <2>1 DEF PinsNull
  <2> QED BY <1>4, <2>2 DEF IsNull
<1> QED BY <1>3, <1>4, <1>8, <1>9 DEF PinsNull

\* The fields of a cache when an entry is unpinned and the list replaced.
LEMMA Unpinned ==
  ASSUME NEW c, c = [table |-> c.table, order |-> c.order, defer |-> c.defer], NEW s, NEW p
  PROVE  [c EXCEPT !.table[s].pin = 0, !.order = p] =
           [table |-> [c.table EXCEPT ![s].pin = 0], order |-> p, defer |-> c.defer]
<1> DEFINE d == [c EXCEPT !.table[s].pin = 0]
           u == [c.table EXCEPT ![s].pin = 0]
<1>1. d = [c EXCEPT !.table = u]
  BY Zenon
<1>2. d = [table |-> u, order |-> c.order, defer |-> c.defer]
  <2> HIDE DEF d, u
  <2>1. \A t, o, f, v : [[table |-> t, order |-> o, defer |-> f] EXCEPT !.table = v]
                          = [table |-> v, order |-> o, defer |-> f]
    OBVIOUS
  <2>2. [[table |-> c.table, order |-> c.order, defer |-> c.defer] EXCEPT !.table = u]
          = [table |-> u, order |-> c.order, defer |-> c.defer]
    BY <2>1
  <2> QED BY <1>1, <2>2
<1>3. [c EXCEPT !.table[s].pin = 0, !.order = p] = [d EXCEPT !.order = p]
  BY Zenon
<1>4. [d EXCEPT !.order = p] = [table |-> u, order |-> p, defer |-> c.defer]
  <2> HIDE DEF d, u
  <2> QED BY <1>2
<1> QED BY <1>3, <1>4

\* A released entry is the most recently used one, or is dropped for want of room.
LEMMA Releasing ==
  ASSUME NEW c, Shaped(c), NEW s \in DOMAIN c.table, PinsNull(c, {s}), NEW d, d = Released(c, s)
  PROVE  Shaped(d) /\ PinsNull(d, {}) /\ Kept(c, d)
<1> DEFINE o == Unlisted(c, {s})
           t == [c.table EXCEPT ![s].pin = 0]
           f == [table |-> t, order |-> Append(o, s), defer |-> c.defer]
<1>1. o \in Seq(Sigs) /\ ToSet(o) = ToSet(c.order) \ {s} /\ s \in Sigs
  BY UnlistedFacts DEF Shaped
<1>2. d = IF Units(f) > num_entries THEN Dropped(f, {s}) ELSE f
  <2> DEFINE g == [c EXCEPT !.table[s].pin = 0, !.order = Append(o, s)]
  <2>1. c = [table |-> c.table, order |-> c.order, defer |-> c.defer]
    BY DEF Shaped
  <2>2. g = f
    <3> HIDE DEF o
    <3> QED BY <2>1, Unpinned
  <2>3. d = IF Units(g) > num_entries THEN Dropped(g, {s}) ELSE g
    BY DEF Released
  <2> HIDE DEF g, f
  <2> QED BY <2>2, <2>3
<1> HIDE DEF o
<1>3. /\ Append(o, s) \in Seq(Sigs) /\ ToSet(Append(o, s)) = ToSet(c.order) \cup {s}
  <2>1. /\ Append(o, s) \in Seq(Sigs) /\ ToSet(Append(o, s)) = ToSet(o) \cup {s}
    BY <1>1, Appended
  <2> QED BY <1>1, <2>1
<1>4. /\ DOMAIN t = DOMAIN c.table /\ t \in [DOMAIN c.table -> [elem : Elems \cup {NoElem}, pin : Nat]]
      /\ \A x \in DOMAIN c.table : /\ t[x].elem = c.table[x].elem
                                   /\ t[x].pin = IF x = s THEN 0 ELSE c.table[x].pin
  BY DEF Shaped
<1>5. f.table = t /\ f.order = Append(o, s) /\ f.defer = c.defer
  OBVIOUS
<1> HIDE DEF t
<1>6. ToSet(f.order) = {x \in DOMAIN f.table : f.table[x].pin = 0}
  BY <1>3, <1>4, <1>5 DEF Shaped
<1>7. Shaped(f)
  <2>1. f = [table |-> f.table, order |-> f.order, defer |-> f.defer]
    BY <1>5
  <2> HIDE DEF f
  <2> QED BY <1>3, <1>4, <1>5, <1>6, <2>1 DEF Shaped
<1> HIDE DEF f
<1>8. PinsNull(f, {})
  BY <1>4, <1>5 DEF PinsNull, IsNull
<1>9. Kept(c, f)
  BY <1>4, <1>5 DEF Kept
<1>10. CASE d = Dropped(f, {s})
  <2>1. /\ Shaped(d) /\ DOMAIN d.table = DOMAIN f.table \ {s}
        /\ \A x \in DOMAIN f.table \ {s} : d.table[x] = f.table[x]
    BY <1>7, <1>10, Dropping
  <2> QED BY <1>8, <1>9, <2>1 DEF PinsNull, IsNull, Kept
<1> QED BY <1>2, <1>7, <1>8, <1>9, <1>10

\* A release that finds a deferred entry changes only what is deferred.
LEMMA ReleasingDeferred ==
  ASSUME NEW c, Shaped(c), NEW s, \E i \in DOMAIN c.defer : c.defer[i].sig = s,
         NEW d, d = ReleasedDeferred(c, s)
  PROVE  Shaped(d) /\ d.table = c.table
<1> DEFINE D == [sig : Sigs, pin : Nat \ {0}]
           of == {j \in DOMAIN c.defer : c.defer[j].sig = s}
           i == IF Cardinality(of) = 1 THEN Min(of) ELSE Min(of \ {Min(of)})
           w(f) == [table |-> c.table, order |-> c.order, defer |-> f]
<1>1. /\ c.defer \in Seq(D) /\ Len(c.defer) \in Nat /\ DOMAIN c.defer = 1..Len(c.defer)
      /\ \A j \in 1..Len(c.defer) : c.defer[j] \in D
  BY LenProperties, ElementOfSeq DEF Shaped
<1>2. \A T \in SUBSET Nat : T # {} => Min(T) \in T
  <2> SUFFICES ASSUME NEW T \in SUBSET Nat, T # {} PROVE Min(T) \in T
    OBVIOUS
  <2>1. \E m \in T : \A k \in T : m <= k
    BY LeastNat
  <2> QED BY <2>1 DEF Min
<1>3. i \in DOMAIN c.defer
  <2>1. of \subseteq Nat /\ of # {} /\ IsFiniteSet(of)
    <3>1. IsFiniteSet(DOMAIN c.defer)
      BY <1>1, FS_Interval
    <3> QED BY <1>1, <3>1, FS_Subset
  <2>2. Min(of) \in of
    BY <1>2, <2>1
  <2>3. Cardinality(of) # 1 => of \ {Min(of)} # {}
    <3> SUFFICES ASSUME of = {Min(of)} PROVE Cardinality(of) = 1
      BY <2>2
    <3> HIDE DEF of
    <3> QED BY FS_Singleton
  <2>4. Cardinality(of) # 1 => Min(of \ {Min(of)}) \in of
    <3> HIDE DEF of
    <3> QED BY <1>2, <2>1, <2>3
  <2>5. i \in of
    <3> HIDE DEF of
    <3> QED BY <2>2, <2>4
  <2> QED BY <2>5
<1>4. \E f \in Seq(D) : d = w(f)
  <2>1. CASE c.defer[i].pin = 1
    <3> DEFINE f == RemoveAt(c.defer, i)
    <3>1. d = [c EXCEPT !.defer = f]
      BY <2>1 DEF ReleasedDeferred
    <3>2. f \in Seq(D)
      <4> HIDE DEF i
      <4>1. i \in Nat /\ i - 1 \in Int /\ i + 1 \in Int
        BY <1>1, <1>3
      <4>2. SubSeq(c.defer, 1, i - 1) \in Seq(D)
        <5>1. \A j \in 1..i - 1 : j \in 1..Len(c.defer)
          BY <1>1, <1>3, <4>1
        <5> QED BY <1>1, <4>1, <5>1, SubSeqProperties
      <4>3. SubSeq(c.defer, i + 1, Len(c.defer)) \in Seq(D)
        <5>1. \A j \in i + 1..Len(c.defer) : j \in 1..Len(c.defer)
          BY <1>1, <1>3, <4>1
        <5> QED BY <1>1, <4>1, <5>1, SubSeqProperties
      <4> QED BY <4>2, <4>3, ConcatProperties DEF RemoveAt
    <3> HIDE DEF f
    <3>3. d = w(f)
      BY <3>1 DEF Shaped
    <3> QED BY <3>2, <3>3
  <2>2. CASE c.defer[i].pin # 1
    <3> HIDE DEF i
    <3> DEFINE f == [c.defer EXCEPT ![i].pin = c.defer[i].pin - 1]
    <3>1. d = [c EXCEPT !.defer[i].pin = @ - 1]
      BY <2>2 DEF ReleasedDeferred, i
    <3>2. d = [c EXCEPT !.defer = f]
      BY <3>1, Zenon
    <3>3. f \in Seq(D)
      <4>1. c.defer[i].pin - 1 \in Nat \ {0}
        BY <1>1, <1>3, <2>2
      <4>2. f \in [1..Len(c.defer) -> D]
        BY <1>1, <1>3, <4>1
      <4> QED BY <1>1, <4>2, SeqDef
    <3> HIDE DEF f
    <3>4. d = w(f)
      BY <3>2 DEF Shaped
    <3> QED BY <3>3, <3>4
  <2> QED BY <2>1, <2>2
<1> HIDE DEF of, i
<1>5. PICK f \in Seq(D) : d = w(f)
  BY <1>4
<1>6. d.table = c.table /\ d.order = c.order /\ d.defer = f
  BY <1>5
<1> QED BY <1>5, <1>6 DEF Shaped

\* A new entry takes the place of a null one and leaves the others; it is dropped
\* at once if pinned ones take the room.
LEMMA Inserting ==
  ASSUME NEW c, Shaped(c), PinsNull(c, {}), num_entries \in Nat, NEW s \in Sigs,
         s \in DOMAIN c.table => c.table[s].pin > 0,
         NEW e \in Elems \cup {NoElem}, NEW d, d = Insert(c, s, e)
  PROVE  /\ Shaped(d) /\ PinsNull(d, {}) /\ DOMAIN d.table \subseteq DOMAIN c.table \cup {s}
         /\ \A x \in DOMAIN d.table : d.table[x].elem = IF x = s THEN e ELSE c.table[x].elem
<1> DEFINE D == [sig : Sigs, pin : Nat \ {0}]
           E == [elem : Elems \cup {NoElem}, pin : Nat]
           w(t, o, f) == [table |-> t, order |-> o, defer |-> f]
           drop == Dropped(c, {s})
           late == [sig |-> s, pin |-> c.table[s].pin]
           old == IF s \in DOMAIN c.table THEN [drop EXCEPT !.defer = Append(@, late)] ELSE c
           new == [x \in DOMAIN old.table \cup {s} |->
                     IF x = s THEN [elem |-> e, pin |-> 1] ELSE old.table[x]]
           put == [old EXCEPT !.table = new]
           over == Units(put) - num_entries
           n == IF over <= 0 THEN 0 ELSE IF over > Len(put.order) THEN Len(put.order) ELSE over
           g == DropIdle(put, n)
<1>1. /\ Shaped(old) /\ DOMAIN old.table = DOMAIN c.table \ {s}
      /\ \A x \in DOMAIN c.table \ {s} : old.table[x] = c.table[x]
  <2>1. CASE s \in DOMAIN c.table
    <3>1. /\ Shaped(drop) /\ DOMAIN drop.table = DOMAIN c.table \ {s} /\ drop.defer = c.defer
          /\ \A x \in DOMAIN c.table \ {s} : drop.table[x] = c.table[x]
      BY Dropping
    <3>2. late \in D
      BY <2>1 DEF Shaped
    <3> DEFINE f == Append(c.defer, late)
    <3>3. f \in Seq(D)
      <4> HIDE DEF late
      <4> QED BY <3>2, AppendProperties DEF Shaped
    <3>4. old = [drop EXCEPT !.defer = f]
      <4>1. old = [drop EXCEPT !.defer = Append(drop.defer, late)]
        BY <2>1, Zenon
      <4> HIDE DEF drop, old, late
      <4> QED BY <3>1, <4>1
    <3> HIDE DEF drop, old, f
    <3>5. old = w(drop.table, drop.order, f)
      BY <3>1, <3>4 DEF Shaped
    <3>6. old.table = drop.table /\ old.order = drop.order /\ old.defer = f
      BY <3>5
    <3> QED BY <3>1, <3>3, <3>5, <3>6 DEF Shaped
  <2>2. CASE s \notin DOMAIN c.table
    BY <2>2
  <2> QED BY <2>1, <2>2
<1> HIDE DEF old
<1>2. /\ put = w(new, old.order, old.defer)
      /\ put.table = new /\ put.order = old.order /\ put.defer = old.defer
  <2> HIDE DEF new
  <2>1. \A t, o, f, v : [w(t, o, f) EXCEPT !.table = v] = w(v, o, f)
    OBVIOUS
  <2>2. old = w(old.table, old.order, old.defer)
    BY <1>1 DEF Shaped
  <2>3. [w(old.table, old.order, old.defer) EXCEPT !.table = new] = w(new, old.order, old.defer)
    BY <2>1
  <2>4. put = w(new, old.order, old.defer)
    <3> HIDE DEF w
    <3> QED BY <2>2, <2>3
  <2> HIDE DEF put
  <2> QED BY <2>4
<1> HIDE DEF put
<1>3. /\ DOMAIN new = DOMAIN old.table \cup {s} /\ s \notin DOMAIN old.table
      /\ new[s] = [elem |-> e, pin |-> 1]
      /\ \A x \in DOMAIN old.table : new[x] = old.table[x]
  BY <1>1
<1> HIDE DEF new
<1>4. Shaped(put)
  <2>1. IsFiniteSet(DOMAIN new)
    <3>1. IsFiniteSet(DOMAIN old.table)
      BY <1>1 DEF Shaped
    <3>2. IsFiniteSet(DOMAIN old.table \cup {s})
      BY <3>1, FS_AddElement
    <3> QED BY <1>3, <3>2
  <2>2. new \in [DOMAIN new -> E]
    <3>1. \A x \in DOMAIN new : new[x] \in E
      BY <1>1, <1>3 DEF Shaped
    <3>2. new = [x \in DOMAIN new |-> new[x]]
      BY DEF new
    <3> QED BY <3>1, <3>2
  <2>3. ToSet(old.order) = {x \in DOMAIN new : new[x].pin = 0}
    BY <1>1, <1>3 DEF Shaped
  <2> QED BY <1>1, <1>2, <1>3, <2>1, <2>2, <2>3 DEF Shaped
<1>5. s \notin {put.order[i] : i \in 1..n}
  <2>1. Len(put.order) \in Nat /\ DOMAIN put.order = 1..Len(put.order)
    BY <1>4, LenProperties DEF Shaped
  <2>2. over \in Int
    <3>1. Cardinality(DOMAIN put.table) \in Nat
      BY <1>4, FS_CardinalityType DEF Shaped
    <3>2. Len(put.defer) \in Nat
      BY <1>4, LenProperties DEF Shaped
    <3> QED BY <3>1, <3>2 DEF Units
  <2> HIDE DEF over
  <2>3. n \in 0..Len(put.order)
    BY <2>1, <2>2
  <2> HIDE DEF n
  <2>4. \A i \in 1..n : put.order[i] \in ToSet(put.order)
    <3>1. \A i \in 1..n : i \in DOMAIN put.order
      BY <2>1, <2>3
    <3> QED BY <3>1 DEF ToSet
  <2>5. s \notin ToSet(put.order)
    BY <1>2, <1>3, <1>4 DEF Shaped
  <2> QED BY <2>4, <2>5
<1> HIDE DEF n
<1>6. /\ Shaped(g) /\ s \in DOMAIN g.table /\ DOMAIN g.table \subseteq DOMAIN put.table
      /\ \A x \in DOMAIN g.table : g.table[x] = put.table[x]
  <2> DEFINE T == {put.order[i] : i \in 1..n}
  <2>1. g = Dropped(put, T)
    BY DEF DropIdle
  <2> HIDE DEF T, g
  <2>2. /\ Shaped(g) /\ DOMAIN g.table = DOMAIN put.table \ T
        /\ \A x \in DOMAIN put.table \ T : g.table[x] = put.table[x]
    BY <1>4, <2>1, Dropping
  <2> QED BY <1>2, <1>3, <1>5, <2>2 DEF T
<1>7. d = IF e = NoElem /\ \E i \in DOMAIN g.defer : g.defer[i].sig = s
          THEN ReleasedDeferred(g, s) ELSE Released(g, s)
  BY Zenon DEF Insert, g, n, over, put, new, old
<1> HIDE DEF g
<1>8. /\ DOMAIN g.table \subseteq DOMAIN c.table \cup {s}
      /\ \A x \in DOMAIN g.table : g.table[x].elem = IF x = s THEN e ELSE c.table[x].elem
      /\ \A x \in DOMAIN g.table \ {s} : g.table[x] = c.table[x]
  BY <1>1, <1>2, <1>3, <1>6
<1>9. PinsNull(g, {s})
  BY <1>8 DEF PinsNull, IsNull
<1>10. CASE e = NoElem /\ \E i \in DOMAIN g.defer : g.defer[i].sig = s
  <2>1. d = ReleasedDeferred(g, s)
    BY <1>7, <1>10
  <2>2. Shaped(d) /\ d.table = g.table
    BY <1>6, <1>10, <2>1, ReleasingDeferred
  <2>3. PinsNull(d, {})
    BY <1>6, <1>8, <1>9, <1>10, <2>2 DEF PinsNull, IsNull
  <2> QED BY <1>8, <2>2, <2>3
<1>11. CASE ~(e = NoElem /\ \E i \in DOMAIN g.defer : g.defer[i].sig = s)
  <2>1. d = Released(g, s)
    BY <1>7, <1>11
  <2>2. Shaped(d) /\ PinsNull(d, {}) /\ Kept(g, d)
    BY <1>6, <1>9, <2>1, Releasing
  <2> QED BY <1>8, <2>2 DEF Kept
<1> QED BY <1>10, <1>11

-----------------------------------------------------------------------------
(* The state of the quota cache *)

\* Every prefetch object has one owner, which is of its quota; t is the table, p
\* the pending items, o the objects.
Owned(t, p, o) ==
  /\ \A s, u \in DOMAIN t : s # u /\ t[s].elem = t[u].elem => t[s].elem = NoElem
  /\ \A s \in DOMAIN t : t[s].elem # NoElem => o[t[s].elem].name = s[1]
  /\ \A n \in QuotaNames : p[n] # NoElem =>
       (\A s \in DOMAIN t : t[s].elem # p[n]) /\ o[p[n]].name = n

KnownOK(known) ==
  /\ known = [n \in QuotaNames |-> known[n]]
  /\ \A n \in QuotaNames : IsFiniteSet(DOMAIN known[n])

Objects == [name : QuotaNames \cup {NoName}, inflight : Nat]

\* Between two calls of QuotaCache only null entries are pinned, and what no owner
\* has is deleted.
QuotaInv ==
  /\ num_entries \in Nat
  /\ Shaped(cache) /\ PinsNull(cache, {})
  /\ pending_item \in [QuotaNames -> Elems \cup {NoElem}]
  /\ KnownOK(referenced)
  /\ elem \in [Elems -> Objects]
  /\ \A e \in Elems \ Live(cache, pending_item) : elem[e] = DeadElem
  /\ Owned(cache.table, pending_item, elem)

\* What is live has an owner, and is an object.
LEMMA LiveObjects ==
  ASSUME NEW c, Shaped(c), NEW p \in [QuotaNames -> Elems \cup {NoElem}]
  PROVE  /\ Live(c, p) \subseteq Elems
         /\ \A s \in DOMAIN c.table : c.table[s].elem # NoElem => c.table[s].elem \in Live(c, p)
         /\ \A n \in QuotaNames : p[n] # NoElem => p[n] \in Live(c, p)
BY DEF Live, Shaped

\* A step after which the live objects have the names that o has.
LEMMA OwnedAfter ==
  ASSUME QuotaInv, num_entries' = num_entries, Shaped(cache'), PinsNull(cache', {}),
         pending_item' \in [QuotaNames -> Elems \cup {NoElem}], KnownOK(referenced'),
         elem' \in [Elems -> Objects],
         \A e \in Elems \ Live(cache', pending_item') : elem'[e] = DeadElem,
         NEW o, \A e \in Live(cache', pending_item') : elem'[e].name = o[e].name,
         Owned(cache'.table, pending_item', o)
  PROVE  QuotaInv'
<1>1. Owned(cache'.table, pending_item', elem')
  <2>1. /\ \A s \in DOMAIN cache'.table :
             cache'.table[s].elem # NoElem => cache'.table[s].elem \in Live(cache', pending_item')
        /\ \A n \in QuotaNames :
             pending_item'[n] # NoElem => pending_item'[n] \in Live(cache', pending_item')
    BY LiveObjects
  <2> QED BY <2>1 DEF Owned
<1>2. Live(cache, pending_item)' = Live(cache', pending_item')
  BY DEF Live
<1>3. Shaped(cache)' /\ PinsNull(cache, {})' /\ KnownOK(referenced)' /\ Owned(cache.table, pending_item, elem)'
  BY <1>1 DEF Shaped, PinsNull, IsNull, KnownOK, Owned, Sigs
<1> QED BY <1>2, <1>3 DEF QuotaInv

\* CacheElem::Quota changes the object it asks for tokens and no other.
LEMMA QuotaElems ==
  ASSUME QuotaInv, NEW n \in QuotaNames, NEW e, NEW q, Quota(e, n, q)
  PROVE  /\ elem' \in [Elems -> Objects]
         /\ \A x \in Elems \ Live(cache', pending_item') : elem'[x] = DeadElem
         /\ \A x \in Elems \cap Live(cache', pending_item') :
              /\ elem'[x].name = IF x = e THEN n ELSE elem[x].name
              /\ elem'[x].inflight = elem[x].inflight + (IF x = e /\ q.elem = e THEN 1 ELSE 0)
<1>1. \A x \in Elems : elem[x] \in Objects
  BY DEF QuotaInv
<1>2. DeadElem \in Objects
  BY DEF DeadElem, Objects
<1> DEFINE g(x) == IF x # e THEN elem[x]
                   ELSE [name |-> n, inflight |-> elem[x].inflight + (IF q.elem = e THEN 1 ELSE 0)]
<1>3. elem' = [x \in Elems |-> IF x \in Live(cache', pending_item') THEN g(x) ELSE DeadElem]
  BY DEF Quota, SetElems
<1>4. \A x \in Elems : g(x) \in Objects
  BY <1>1 DEF Objects
<1>5. \A x \in Elems :
        /\ g(x).name = IF x = e THEN n ELSE elem[x].name
        /\ g(x).inflight = elem[x].inflight + (IF x = e /\ q.elem = e THEN 1 ELSE 0)
  BY <1>1 DEF Objects
<1> HIDE DEF g
<1> QED BY <1>2, <1>3, <1>4, <1>5

\* Losing entries loses owners.
LEMMA KeptOwned ==
  ASSUME NEW c, NEW d, Kept(c, d), NEW p, NEW o, Owned(c.table, p, o)
  PROVE  Owned(d.table, p, o) /\ Live(d, p) \subseteq Live(c, p)
BY DEF Kept, Owned, Live

\* CheckCache of a quota.  The objects that are live after it were so before, or
\* no callback points to them; the one asked for tokens waits for one answer more.
LEMMA CheckCachedQuota ==
  ASSUME QuotaInv, NEW a, NEW n \in QuotaNames, NEW q, NEW busy, CheckCached(a, n, q, busy)
  PROVE  /\ QuotaInv'
         /\ Live(cache', pending_item') \subseteq Live(cache, pending_item) \cup (Elems \ busy)
         /\ \A x \in Live(cache', pending_item') :
              elem'[x].inflight = elem[x].inflight + (IF q.elem = x THEN 1 ELSE 0)
         /\ q.func # "grant" /\ (q.func = "none" => q.elem = NoElem)
<1> DEFINE match == {h \in DOMAIN referenced[n] : Matches(referenced[n][h], a)}
           sig(h) == QuotaSig(referenced[n][h], a, n)
           Visits(H) == [s \in DOMAIN cache.table |-> Cardinality({h \in H : sig(h) = s})]
           free == Elems \ (busy \cup Live(cache, pending_item))
           c0(k) == DropIdle(cache, k)
           nulls(c) == {h \in match : IsNull(c, sig(h))}
           hits(c) == {h \in match \ nulls(c) : sig(h) \in DOMAIN c.table}
           hit(c, h, H) ==
             LET pinned == PinNulls(c, Visits(H))
                 e == c.table[sig(h)].elem
             IN /\ cache' = Released(pinned, sig(h))
                /\ UNCHANGED <<num_entries, referenced, pending_item>>
                /\ Quota(e, n, q)
                /\ q.name = n /\ q.func = IF q.elem = e THEN "prefetch" ELSE "none"
           miss(c) ==
             /\ hits(c) = {}
             /\ cache' = PinNulls(c, Visits(nulls(c)))
             /\ pending_item[n] = NoElem => free # {}
             /\ LET e == IF pending_item[n] = NoElem THEN Min(free) ELSE pending_item[n]
                IN /\ pending_item' = [pending_item EXCEPT ![n] = e]
                   /\ Quota(e, n, q)
             /\ q.name = n /\ q.func = "pending"
             /\ UNCHANGED <<num_entries, referenced>>
<1>1. PICK k : \/ \E h \in hits(c0(k)), H \in SUBSET nulls(c0(k)) : hit(c0(k), h, H)
               \/ miss(c0(k))
  BY DEF CheckCached
<1> DEFINE c == c0(k)
<1>2. Shaped(c) /\ PinsNull(c, {}) /\ Kept(cache, c) /\ DOMAIN c.table \subseteq DOMAIN cache.table
  <2> DEFINE T == {cache.order[i] : i \in 1..k}
  <2>1. c = Dropped(cache, T)
    BY DEF DropIdle
  <2> HIDE DEF T, c
  <2>2. /\ Shaped(c) /\ DOMAIN c.table = DOMAIN cache.table \ T
        /\ \A s \in DOMAIN cache.table \ T : c.table[s] = cache.table[s]
    BY <2>1, Dropping DEF QuotaInv
  <2> QED BY <2>2 DEF QuotaInv, PinsNull, IsNull, Kept
<1>3. IsFiniteSet(match)
  <2>1. IsFiniteSet(DOMAIN referenced[n])
    BY DEF QuotaInv, KnownOK
  <2> QED BY <2>1, FS_Subset
<1>4. ASSUME NEW H \in SUBSET nulls(c), NEW p, p = PinNulls(c, Visits(H))
      PROVE  Shaped(p) /\ PinsNull(p, {}) /\ Kept(cache, p) /\ DOMAIN p.table = DOMAIN c.table
             /\ \A s \in DOMAIN c.table : p.table[s].elem = c.table[s].elem
  <2> DEFINE v == Visits(H)
  <2>1. \A s \in DOMAIN c.table : v[s] \in Nat /\ (v[s] > 0 => IsNull(c, s))
    <3> SUFFICES ASSUME NEW s \in DOMAIN c.table PROVE v[s] \in Nat /\ (v[s] > 0 => IsNull(c, s))
      OBVIOUS
    <3> DEFINE G == {h \in H : sig(h) = s}
    <3>1. v[s] = Cardinality(G)
      BY <1>2
    <3>2. IsFiniteSet(G)
      BY <1>3, FS_Subset
    <3>3. G # {} => IsNull(c, s)
      OBVIOUS
    <3> HIDE DEF G, v, c
    <3> QED BY <3>1, <3>2, <3>3, FS_CardinalityType, FS_EmptySet
  <2>2. p = PinNulls(c, v)
    BY <1>4
  <2> HIDE DEF v, c
  <2>3. /\ Shaped(p) /\ DOMAIN p.table = DOMAIN c.table
        /\ \A s \in DOMAIN c.table : p.table[s].elem = c.table[s].elem
        /\ PinsNull(c, {}) => PinsNull(p, {})
    BY <1>2, <2>1, <2>2, Pinning
  <2> QED BY <1>2, <2>3 DEF Kept
<1> HIDE DEF c0, Visits
<1>5. /\ pending_item \in [QuotaNames -> Elems \cup {NoElem}] /\ elem \in [Elems -> Objects]
      /\ Owned(cache.table, pending_item, elem) /\ Shaped(cache) /\ KnownOK(referenced)
  BY DEF QuotaInv
<1>6. ASSUME NEW h \in hits(c), NEW H \in SUBSET nulls(c), hit(c, h, H)
      PROVE  /\ QuotaInv' /\ Live(cache', pending_item') \subseteq Live(cache, pending_item)
             /\ \A x \in Live(cache', pending_item') :
                  elem'[x].inflight = elem[x].inflight + (IF q.elem = x THEN 1 ELSE 0)
             /\ q.func # "grant" /\ (q.func = "none" => q.elem = NoElem)
  <2> DEFINE s == sig(h)
             p == PinNulls(c, Visits(H))
             e == c.table[s].elem
  <2>1. s \in DOMAIN c.table /\ e # NoElem /\ s[1] = n
    BY <1>6 DEF IsNull, QuotaSig
  <2>2. /\ cache' = Released(p, s) /\ Quota(e, n, q)
        /\ num_entries' = num_entries /\ referenced' = referenced /\ pending_item' = pending_item
        /\ q.func = IF q.elem = e THEN "prefetch" ELSE "none"
    BY <1>6
  <2> HIDE DEF hit, s, p
  <2>3. Shaped(p) /\ PinsNull(p, {}) /\ Kept(cache, p) /\ DOMAIN p.table = DOMAIN c.table
    BY <1>4 DEF p
  <2>4. Shaped(cache') /\ PinsNull(cache', {}) /\ Kept(p, cache')
    <3>1. PinsNull(p, {s})
      BY <2>3 DEF PinsNull
    <3> QED BY <2>1, <2>2, <2>3, <3>1, Releasing
  <2>5. Kept(cache, cache')
    BY <2>3, <2>4 DEF Kept
  <2>6. /\ Owned(cache'.table, pending_item, elem)
        /\ Live(cache', pending_item') \subseteq Live(cache, pending_item)
    BY <1>5, <2>2, <2>5, KeptOwned
  <2>7. elem[e].name = n
    BY <1>2, <1>5, <2>1 DEF Kept, Owned
  <2>8. /\ elem' \in [Elems -> Objects]
        /\ \A x \in Elems \ Live(cache', pending_item') : elem'[x] = DeadElem
        /\ \A x \in Elems \cap Live(cache', pending_item') :
             /\ elem'[x].name = IF x = e THEN n ELSE elem[x].name
             /\ elem'[x].inflight = elem[x].inflight + (IF x = e /\ q.elem = e THEN 1 ELSE 0)
    BY <2>2, QuotaElems
  <2>9. Live(cache', pending_item') \subseteq Elems
    BY <1>5, <2>2, <2>4, LiveObjects
  <2>10. \A x \in Live(cache', pending_item') : elem'[x].name = elem[x].name
    BY <2>7, <2>8, <2>9
  <2>11. QuotaInv'
    BY <1>5, <2>2, <2>4, <2>6, <2>8, <2>10, OwnedAfter
  <2>12. q.elem \in {e, NoElem}
    BY <2>2 DEF Quota
  <2>13. NoElem \notin Live(cache', pending_item')
    BY DEF Live
  <2> HIDE DEF e
  <2>14. \A x \in Live(cache', pending_item') :
           elem'[x].inflight = elem[x].inflight + (IF q.elem = x THEN 1 ELSE 0)
    BY <2>8, <2>9, <2>12, <2>13
  <2> QED BY <2>2, <2>6, <2>11, <2>12, <2>14
<1>7. ASSUME miss(c)
      PROVE  /\ QuotaInv'
             /\ Live(cache', pending_item') \subseteq Live(cache, pending_item) \cup (Elems \ busy)
             /\ \A x \in Live(cache', pending_item') :
                  elem'[x].inflight = elem[x].inflight + (IF q.elem = x THEN 1 ELSE 0)
             /\ q.func # "grant" /\ (q.func = "none" => q.elem = NoElem)
  <2> DEFINE e == IF pending_item[n] = NoElem THEN Min(free) ELSE pending_item[n]
             o == [elem EXCEPT ![e].name = n]
  <2>1. /\ cache' = PinNulls(c, Visits(nulls(c))) /\ Quota(e, n, q)
        /\ pending_item' = [pending_item EXCEPT ![n] = e]
        /\ pending_item[n] = NoElem => free # {}
        /\ num_entries' = num_entries /\ referenced' = referenced /\ q.func = "pending"
    BY <1>7
  <2>2. Shaped(cache') /\ PinsNull(cache', {}) /\ Kept(cache, cache')
    BY <1>4, <2>1
  <2> HIDE DEF miss, c
  <2>3. pending_item[n] = NoElem => Min(free) \in free
    <3>1. free \subseteq Nat
      BY QuotaCacheAssumption
    <3> HIDE DEF free
    <3>2. free # {} => \E m \in free : \A j \in free : m <= j
      BY <3>1, LeastNat
    <3> QED BY <2>1, <3>2 DEF Min
  <2>4. /\ e \in Elems /\ e # NoElem
        /\ pending_item[n] # NoElem => e = pending_item[n]
        /\ pending_item[n] = NoElem => e \in free
    BY <1>5, <2>3, QuotaCacheAssumption
  <2> HIDE DEF e, free
  <2>5. /\ pending_item' \in [QuotaNames -> Elems \cup {NoElem}] /\ pending_item'[n] = e
        /\ \A m \in QuotaNames \ {n} : pending_item'[m] = pending_item[m]
    BY <1>5, <2>1, <2>4
  <2>6. /\ Owned(cache'.table, pending_item, elem)
        /\ Live(cache', pending_item) \subseteq Live(cache, pending_item)
    BY <1>5, <2>2, KeptOwned
  <2>7. Live(cache', pending_item') \subseteq Live(cache', pending_item) \cup {e}
    BY <2>5 DEF Live
  <2>8. pending_item[n] = NoElem => e \notin Live(cache, pending_item) /\ e \notin busy
    BY <2>4 DEF free
  <2>9. pending_item[n] # NoElem => e \in Live(cache, pending_item) /\ elem[e].name = n
    BY <1>5, <2>4, LiveObjects DEF Owned
  <2>10. \A x \in Elems : o[x].name = IF x = e THEN n ELSE elem[x].name
    BY <1>5, <2>4 DEF Objects
  <2> HIDE DEF o
  <2>11. Owned(cache'.table, pending_item', o)
    <3>1. \A s \in DOMAIN cache'.table : cache'.table[s].elem \in Elems \cup {NoElem}
      BY <2>2 DEF Shaped
    <3>2. \A s \in DOMAIN cache'.table : cache'.table[s].elem # e
      <4>1. CASE pending_item[n] = NoElem
        <5>1. \A s \in DOMAIN cache'.table : cache'.table[s].elem # NoElem =>
                cache'.table[s].elem \in Live(cache', pending_item)
          BY <1>5, <2>2, LiveObjects
        <5> QED BY <2>4, <2>6, <2>8, <4>1, <5>1
      <4>2. CASE pending_item[n] # NoElem
        BY <2>4, <2>6, <4>2 DEF Owned
      <4> QED BY <4>1, <4>2
    <3>3. \A m \in QuotaNames \ {n} : pending_item[m] # NoElem => pending_item[m] # e
      <4>1. CASE pending_item[n] = NoElem
        BY <1>5, <2>8, <4>1, LiveObjects
      <4>2. CASE pending_item[n] # NoElem
        BY <2>4, <2>6, <4>2 DEF Owned
      <4> QED BY <4>1, <4>2
    <3>4. ASSUME NEW s \in DOMAIN cache'.table, cache'.table[s].elem # NoElem
          PROVE  o[cache'.table[s].elem].name = s[1]
      BY <2>6, <2>10, <3>1, <3>2, <3>4 DEF Owned
    <3>5. ASSUME NEW m \in QuotaNames, pending_item'[m] # NoElem
          PROVE  /\ \A s \in DOMAIN cache'.table : cache'.table[s].elem # pending_item'[m]
                 /\ o[pending_item'[m]].name = m
      <4>1. CASE m = n
        BY <2>4, <2>5, <2>10, <3>2, <4>1
      <4>2. CASE m # n
        BY <1>5, <2>5, <2>6, <2>10, <3>3, <3>5, <4>2 DEF Owned
      <4> QED BY <4>1, <4>2
    <3> QED BY <2>6, <3>4, <3>5 DEF Owned
  <2>12. /\ elem' \in [Elems -> Objects]
         /\ \A x \in Elems \ Live(cache', pending_item') : elem'[x] = DeadElem
         /\ \A x \in Elems \cap Live(cache', pending_item') :
              /\ elem'[x].name = IF x = e THEN n ELSE elem[x].name
              /\ elem'[x].inflight = elem[x].inflight + (IF x = e /\ q.elem = e THEN 1 ELSE 0)
    <3>1. Quota(e, n, q)
      BY <2>1
    <3> QED BY <3>1, QuotaElems
  <2>13. Live(cache', pending_item') \subseteq Elems
    BY <2>2, <2>5, LiveObjects
  <2>14. \A x \in Live(cache', pending_item') : elem'[x].name = o[x].name
    BY <2>10, <2>12, <2>13
  <2>15. QuotaInv'
    BY <1>5, <2>1, <2>2, <2>5, <2>11, <2>12, <2>14, OwnedAfter
  <2>16. q.elem \in {e, NoElem} /\ NoElem \notin Live(cache', pending_item')
    BY <2>1 DEF Quota, Live
  <2>17. \A x \in Live(cache', pending_item') :
           elem'[x].inflight = elem[x].inflight + (IF q.elem = x THEN 1 ELSE 0)
    BY <2>12, <2>13, <2>16
  <2>18. Live(cache', pending_item') \subseteq Live(cache, pending_item) \cup (Elems \ busy)
    BY <2>4, <2>6, <2>7, <2>8, <2>9
  <2> QED BY <2>1, <2>15, <2>17, <2>18
<1> QED BY <1>1, <1>6, <1>7

\* The objects that are still owned stay as they are.
LEMMA SameElems ==
  ASSUME QuotaInv, elem' = [e \in Elems |-> IF e \in Live(cache', pending_item') THEN elem[e]
                                            ELSE DeadElem]
  PROVE  /\ elem' \in [Elems -> Objects]
         /\ \A x \in Elems \ Live(cache', pending_item') : elem'[x] = DeadElem
         /\ \A x \in Elems \cap Live(cache', pending_item') : elem'[x] = elem[x]
<1>1. DeadElem \in Objects
  BY DEF DeadElem, Objects
<1> QED BY <1>1 DEF QuotaInv

\* An answer moves the pending item of its quota to the entry it is for, or finds
\* the entry there.
LEMMA SetResponseQuota ==
  ASSUME QuotaInv, NEW a \in Requests, NEW n \in QuotaNames, SetResponse(a, n)
  PROVE  /\ QuotaInv' /\ Live(cache', pending_item') \subseteq Live(cache, pending_item)
         /\ \A x \in Live(cache', pending_item') : elem'[x] = elem[x]
<1> DEFINE r == Fill(a, QuotaMatches(n, a))
           s == QuotaSig(r, a, n)
           known == referenced[n]
           c0(k) == DropIdle(cache, k)
           v(c) == [x \in DOMAIN c.table |-> IF x = s /\ IsNull(c, s) THEN 1 ELSE 0]
           later == [h \in DOMAIN known \cup {Hash(r)} |-> IF h \in DOMAIN known THEN known[h] ELSE r]
           found(c) == /\ cache' = Released(c, s)
                       /\ UNCHANGED <<referenced, pending_item>>
           added(c) == /\ referenced' = [referenced EXCEPT ![n] = later]
                       /\ cache' = Insert(PinNulls(c, v(c)), s, pending_item[n])
                       /\ pending_item' = [pending_item EXCEPT ![n] = NoElem]
<1>1. /\ pending_item \in [QuotaNames -> Elems \cup {NoElem}] /\ elem \in [Elems -> Objects]
      /\ Owned(cache.table, pending_item, elem) /\ Shaped(cache) /\ KnownOK(referenced)
      /\ PinsNull(cache, {}) /\ num_entries \in Nat
  BY DEF QuotaInv
<1>2. s \in Sigs /\ s[1] = n
  BY DEF Sigs, QuotaSig
<1>3. CASE UNCHANGED quotaVars
  <2>1. Live(cache', pending_item') = Live(cache, pending_item) /\ elem' = elem
    BY <1>3 DEF quotaVars
  <2>2. QuotaInv'
    BY <1>3 DEF quotaVars, QuotaInv, Shaped, PinsNull, IsNull, KnownOK, Owned, Live
  <2> QED BY <2>1, <2>2
<1>4. ASSUME NEW k, LET c == c0(k) IN
               IF s \in DOMAIN c.table /\ ~IsNull(c, s) THEN found(c) ELSE added(c),
             num_entries' = num_entries,
             elem' = [e \in Elems |-> IF e \in Live(cache', pending_item') THEN elem[e] ELSE DeadElem]
      PROVE  /\ QuotaInv' /\ Live(cache', pending_item') \subseteq Live(cache, pending_item)
             /\ \A x \in Live(cache', pending_item') : elem'[x] = elem[x]
  <2> DEFINE c == c0(k)
  <2>1. Shaped(c) /\ PinsNull(c, {}) /\ Kept(cache, c)
    <3> DEFINE T == {cache.order[i] : i \in 1..k}
    <3>1. c = Dropped(cache, T)
      BY DEF DropIdle
    <3> HIDE DEF T, c
    <3>2. /\ Shaped(c) /\ DOMAIN c.table = DOMAIN cache.table \ T
          /\ \A x \in DOMAIN cache.table \ T : c.table[x] = cache.table[x]
      BY <1>1, <3>1, Dropping
    <3> QED BY <1>1, <3>2 DEF PinsNull, IsNull, Kept
  <2>2. IF s \in DOMAIN c.table /\ ~IsNull(c, s) THEN found(c) ELSE added(c)
    BY <1>4
  <2>3. /\ elem' \in [Elems -> Objects]
        /\ \A x \in Elems \ Live(cache', pending_item') : elem'[x] = DeadElem
        /\ \A x \in Elems \cap Live(cache', pending_item') : elem'[x] = elem[x]
    BY <1>4, SameElems
  <2> HIDE DEF c0, s
  <2>4. CASE s \in DOMAIN c.table /\ ~IsNull(c, s)
    <3>1. cache' = Released(c, s) /\ referenced' = referenced /\ pending_item' = pending_item
      BY <2>2, <2>4
    <3> HIDE DEF c, found, added
    <3>2. PinsNull(c, {s})
      BY <2>1 DEF PinsNull
    <3>3. Shaped(cache') /\ PinsNull(cache', {}) /\ Kept(c, cache')
      BY <2>1, <2>4, <3>1, <3>2, Releasing
    <3>4. Kept(cache, cache')
      BY <2>1, <3>3 DEF Kept
    <3>5. /\ Owned(cache'.table, pending_item', elem)
          /\ Live(cache', pending_item') \subseteq Live(cache, pending_item)
      BY <1>1, <3>1, <3>4, KeptOwned
    <3>6. Live(cache', pending_item') \subseteq Elems
      BY <1>1, <3>1, <3>3, LiveObjects
    <3>7. \A x \in Live(cache', pending_item') : elem'[x] = elem[x]
      BY <2>3, <3>6
    <3>8. QuotaInv'
      BY <1>1, <1>4, <2>3, <3>1, <3>3, <3>5, <3>7, OwnedAfter
    <3> QED BY <3>5, <3>7, <3>8
  <2>5. CASE ~(s \in DOMAIN c.table /\ ~IsNull(c, s))
    <3> DEFINE p == PinNulls(c, v(c))
               e == pending_item[n]
    <3>1. /\ cache' = Insert(p, s, e) /\ referenced' = [referenced EXCEPT ![n] = later]
          /\ pending_item' = [pending_item EXCEPT ![n] = NoElem]
      BY <2>2, <2>5
    <3>2. /\ Shaped(p) /\ PinsNull(p, {}) /\ DOMAIN p.table = DOMAIN c.table
          /\ \A x \in DOMAIN c.table : p.table[x].elem = c.table[x].elem
          /\ s \in DOMAIN p.table => p.table[s].pin > 0
      <4> DEFINE w == v(c)
      <4>1. \A x \in DOMAIN c.table : w[x] \in Nat /\ (w[x] > 0 => IsNull(c, x))
        OBVIOUS
      <4>2. s \in DOMAIN c.table => w[s] = 1 /\ c.table[s].pin \in Nat
        BY <2>1, <2>5 DEF Shaped
      <4> HIDE DEF w, c
      <4>3. /\ Shaped(p) /\ DOMAIN p.table = DOMAIN c.table
            /\ \A x \in DOMAIN c.table : /\ p.table[x].elem = c.table[x].elem
                                         /\ p.table[x].pin = c.table[x].pin + w[x]
            /\ PinsNull(c, {}) => PinsNull(p, {})
        <5>1. p = PinNulls(c, w)
          BY DEF w
        <5> HIDE DEF p
        <5> QED BY <2>1, <4>1, <5>1, Pinning
      <4> HIDE DEF p
      <4>4. s \in DOMAIN p.table => p.table[s].pin > 0
        BY <4>2, <4>3
      <4> QED BY <2>1, <4>3, <4>4
    <3>3. e \in Elems \cup {NoElem}
      BY <1>1
    <3> HIDE DEF c, found, added, p, e, v
    <3>4. /\ Shaped(cache') /\ PinsNull(cache', {}) /\ DOMAIN cache'.table \subseteq DOMAIN p.table \cup {s}
          /\ \A x \in DOMAIN cache'.table :
               cache'.table[x].elem = IF x = s THEN e ELSE p.table[x].elem
      BY <1>1, <1>2, <3>1, <3>2, <3>3, Inserting
    <3>5. \A x \in DOMAIN cache'.table \ {s} :
            x \in DOMAIN cache.table /\ cache'.table[x].elem = cache.table[x].elem
      BY <2>1, <3>2, <3>4 DEF Kept
    <3>6. /\ pending_item' \in [QuotaNames -> Elems \cup {NoElem}] /\ pending_item'[n] = NoElem
          /\ \A m \in QuotaNames \ {n} : pending_item'[m] = pending_item[m]
      BY <1>1, <3>1
    <3>7. KnownOK(referenced')
      <4>1. IsFiniteSet(DOMAIN known)
        BY <1>1 DEF KnownOK
      <4>2. IsFiniteSet(DOMAIN known \cup {Hash(r)})
        <5> HIDE DEF known, r
        <5> QED BY <4>1, FS_AddElement
      <4>3. DOMAIN later = DOMAIN known \cup {Hash(r)}
        OBVIOUS
      <4> HIDE DEF later, known, r
      <4>4. DOMAIN referenced = QuotaNames /\ referenced'[n] = later
            /\ \A m \in QuotaNames \ {n} : referenced'[m] = referenced[m]
        BY <1>1, <3>1 DEF KnownOK
      <4>5. referenced' = [m \in QuotaNames |-> referenced'[m]]
        BY <3>1, <4>4
      <4> QED BY <1>1, <4>2, <4>3, <4>4, <4>5 DEF KnownOK
    <3> HIDE DEF later, known, r
    <3>8. Live(cache', pending_item') \subseteq Live(cache, pending_item)
      <4>1. \A x \in DOMAIN cache'.table : cache'.table[x].elem # NoElem =>
              cache'.table[x].elem \in Live(cache, pending_item)
        BY <1>1, <3>4, <3>5, LiveObjects DEF e
      <4>2. \A m \in QuotaNames : pending_item'[m] # NoElem =>
              pending_item'[m] \in Live(cache, pending_item)
        BY <1>1, <3>6, LiveObjects
      <4> QED BY <4>1, <4>2 DEF Live
    <3>9. Owned(cache'.table, pending_item', elem)
      <4>1. e # NoElem => /\ elem[e].name = n
                          /\ \A x \in DOMAIN cache.table : cache.table[x].elem # e
                          /\ \A m \in QuotaNames \ {n} : pending_item[m] # e
        BY <1>1 DEF e, Owned
      <4>2. ASSUME NEW x \in DOMAIN cache'.table, NEW u \in DOMAIN cache'.table, x # u,
                   cache'.table[x].elem = cache'.table[u].elem
            PROVE  cache'.table[x].elem = NoElem
        BY <1>1, <3>4, <3>5, <4>1, <4>2 DEF Owned
      <4>3. ASSUME NEW x \in DOMAIN cache'.table, cache'.table[x].elem # NoElem
            PROVE  elem[cache'.table[x].elem].name = x[1]
        BY <1>1, <1>2, <3>4, <3>5, <4>1, <4>3 DEF Owned
      <4>4. ASSUME NEW m \in QuotaNames, pending_item'[m] # NoElem
            PROVE  /\ \A x \in DOMAIN cache'.table : cache'.table[x].elem # pending_item'[m]
                   /\ elem[pending_item'[m]].name = m
        <5>1. m # n /\ pending_item'[m] = pending_item[m]
          BY <3>6, <4>4
        <5> QED BY <1>1, <3>4, <3>5, <4>1, <4>4, <5>1 DEF Owned
      <4> QED BY <4>2, <4>3, <4>4 DEF Owned
    <3>10. Live(cache', pending_item') \subseteq Elems
      BY <3>4, <3>6, LiveObjects
    <3>11. \A x \in Live(cache', pending_item') : elem'[x] = elem[x]
      BY <2>3, <3>10
    <3>12. QuotaInv'
      BY <1>4, <2>3, <3>4, <3>6, <3>7, <3>9, <3>11, OwnedAfter
    <3> QED BY <3>8, <3>11, <3>12
  <2> QED BY <2>4, <2>5
<1>5. \/ UNCHANGED quotaVars
      \/ \E k : /\ LET c == c0(k) IN
                     IF s \in DOMAIN c.table /\ ~IsNull(c, s) THEN found(c) ELSE added(c)
                /\ num_entries' = num_entries
                /\ elem' = [e \in Elems |-> IF e \in Live(cache', pending_item') THEN elem[e]
                                            ELSE DeadElem]
  BY Zenon DEF SetResponse, SetElems, ItemAfterRelease
<1> QED
  <2> HIDE DEF c0, s, found, added
  <2> QED BY <1>3, <1>4, <1>5

\* An answer to a prefetch object changes no owner.
LEMMA OnQuotaResponseQuota ==
  ASSUME QuotaInv, NEW e \in Elems, OnQuotaResponse(e)
  PROVE  /\ QuotaInv' /\ Live(cache', pending_item') = Live(cache, pending_item)
         /\ \A x \in Elems : elem'[x].inflight =
              IF x = e /\ elem[x].inflight > 0 THEN elem[x].inflight - 1 ELSE elem[x].inflight
<1> DEFINE k == IF elem[e].inflight > 0 THEN elem[e].inflight - 1 ELSE elem[e].inflight
<1>1. /\ elem' = [elem EXCEPT ![e].inflight = k]
      /\ num_entries' = num_entries /\ referenced' = referenced
      /\ pending_item' = pending_item /\ cache' = cache
  BY Zenon DEF OnQuotaResponse
<1>2. elem \in [Elems -> Objects] /\ k \in Nat
  BY DEF QuotaInv, Objects
<1>3. elem[e].inflight = 0 => k = 0
  OBVIOUS
<1> HIDE DEF k
<1>4. /\ elem' \in [Elems -> Objects]
      /\ \A x \in Elems : elem'[x] = IF x = e THEN [elem[e] EXCEPT !.inflight = k] ELSE elem[x]
  BY <1>1, <1>2 DEF Objects
<1>5. \A x \in Elems : /\ elem'[x].name = elem[x].name
                       /\ elem'[x].inflight = IF x = e THEN k ELSE elem[x].inflight
  BY <1>2, <1>4 DEF Objects
<1>6. Live(cache', pending_item') = Live(cache, pending_item)
  BY <1>1
<1>7. \A x \in Elems \ Live(cache', pending_item') : elem'[x] = DeadElem
  <2>1. \A x \in Elems \ Live(cache', pending_item') : elem[x] = DeadElem
    BY <1>6 DEF QuotaInv
  <2>2. DeadElem.inflight = 0 /\ [DeadElem EXCEPT !.inflight = 0] = DeadElem
    BY DEF DeadElem
  <2> HIDE DEF DeadElem
  <2> QED BY <1>3, <1>4, <2>1, <2>2
<1>8. Shaped(cache') /\ PinsNull(cache', {}) /\ KnownOK(referenced')
      /\ pending_item' \in [QuotaNames -> Elems \cup {NoElem}]
      /\ Owned(cache'.table, pending_item', elem)
  BY <1>1 DEF QuotaInv
<1>9. Live(cache', pending_item') \subseteq Elems
  BY <1>8, LiveObjects
<1>10. QuotaInv'
  BY <1>1, <1>4, <1>5, <1>7, <1>8, <1>9, OwnedAfter
<1> QED BY <1>5, <1>6, <1>10 DEF k

\* Nothing is left in the cache, and its pinned entries are deferred.
LEMMA FlushAllQuota ==
  ASSUME QuotaInv, FlushAll
  PROVE  QuotaInv' /\ Live(cache', pending_item') = {}
<1> DEFINE S == {x \in DOMAIN cache.table : cache.table[x].pin > 0}
           D == [sig : Sigs, pin : Nat \ {0}]
           late(s) == [sig |-> s, pin |-> cache.table[s].pin]
           T == {late(s) : s \in S}
           f == cache.defer \o SetToSeq(T)
<1>1. /\ cache' = [table |-> <<>>, order |-> <<>>, defer |-> f]
      /\ pending_item' = [n \in QuotaNames |-> NoElem]
      /\ num_entries' = num_entries /\ referenced' = referenced
      /\ elem' = [e \in Elems |-> IF e \in Live(cache', pending_item') THEN elem[e] ELSE DeadElem]
  BY DEF FlushAll, SetElems
<1>2. Shaped(cache) /\ KnownOK(referenced)
  BY DEF QuotaInv
<1>3. f \in Seq(D)
  <2>1. IsFiniteSet(S)
    BY <1>2, FS_Subset DEF Shaped
  <2>2. T \subseteq D
    BY <1>2 DEF Shaped
  <2>3. IsFiniteSet(T)
    <3> DEFINE g == [s \in S |-> late(s)]
    <3>1. g \in Surjection(S, T)
      BY DEF Surjection
    <3> HIDE DEF S, T, g
    <3> QED BY <2>1, <3>1, FS_Surjection
  <2> HIDE DEF T
  <2>4. SetToSeq(T) \in Seq(T)
    BY <2>3, InARow
  <2>5. SetToSeq(T) \in Seq(D)
    <3> HIDE DEF D
    <3> QED BY <2>2, <2>4
  <2>6. cache.defer \in Seq(D)
    BY <1>2 DEF Shaped
  <2> HIDE DEF D
  <2> QED BY <2>5, <2>6, ConcatProperties
<1> HIDE DEF f
<1>4. /\ cache'.table = <<>> /\ cache'.order = <<>> /\ cache'.defer = f
      /\ cache' = [table |-> cache'.table, order |-> cache'.order, defer |-> cache'.defer]
  BY <1>1
<1>5. DOMAIN cache'.table = {}
  BY <1>4
<1>6. Shaped(cache')
  <2>1. cache'.table = [s \in {} |-> [elem |-> NoElem, pin |-> 0]]
    BY <1>4
  <2>2. ToSet(cache'.order) = {} /\ cache'.order \in Seq(Sigs)
    BY <1>4 DEF ToSet
  <2>3. IsFiniteSet({})
    BY FS_EmptySet
  <2>4. cache'.table \in [DOMAIN cache'.table -> [elem : Elems \cup {NoElem}, pin : Nat]]
    BY <1>5, <2>1
  <2> QED BY <1>3, <1>4, <1>5, <2>2, <2>3, <2>4 DEF Shaped
<1>7. Live(cache', pending_item') = {}
  BY <1>1, <1>5 DEF Live
<1>8. PinsNull(cache', {}) /\ Owned(cache'.table, pending_item', elem)
  BY <1>1, <1>5 DEF PinsNull, Owned
<1>9. /\ elem' \in [Elems -> Objects]
      /\ \A x \in Elems \ Live(cache', pending_item') : elem'[x] = DeadElem
  BY <1>1, SameElems
<1>10. pending_item' \in [QuotaNames -> Elems \cup {NoElem}]
  BY <1>1
<1>11. QuotaInv'
  BY <1>1, <1>2, <1>6, <1>7, <1>8, <1>9, <1>10, OwnedAfter
<1> QED BY <1>7, <1>11

\* At first nothing is cached.
LEMMA InitQuota == Init => QuotaInv
<1> SUFFICES ASSUME Init PROVE QuotaInv
  OBVIOUS
<1>1. /\ num_entries \in Nat /\ cache = [table |-> <<>>, order |-> <<>>, defer |-> <<>>]
      /\ pending_item = [n \in QuotaNames |-> NoElem]
      /\ referenced = [n \in QuotaNames |-> <<>>]
      /\ elem = [e \in Elems |-> DeadElem]
  BY MixerClientAssumption DEF Init, QuotaInit
<1>2. /\ cache.table = <<>> /\ cache.order = <<>> /\ cache.defer = <<>>
      /\ cache = [table |-> cache.table, order |-> cache.order, defer |-> cache.defer]
  BY <1>1
<1>3. IsFiniteSet({}) /\ DOMAIN <<>> = {}
  BY FS_EmptySet
<1>4. Shaped(cache)
  <2>1. ToSet(cache.order) = {} /\ cache.order \in Seq(Sigs)
    BY <1>2 DEF ToSet
  <2>2. cache.table \in [DOMAIN cache.table -> [elem : Elems \cup {NoElem}, pin : Nat]]
    BY <1>2
  <2>3. cache.defer \in Seq([sig : Sigs, pin : Nat \ {0}])
    BY <1>2
  <2> QED BY <1>2, <1>3, <2>1, <2>2, <2>3 DEF Shaped
<1>5. PinsNull(cache, {}) /\ Owned(cache.table, pending_item, elem)
  BY <1>1, <1>2, <1>3 DEF PinsNull, Owned
<1>6. KnownOK(referenced)
  BY <1>1, <1>3 DEF KnownOK
<1>7. elem \in [Elems -> Objects] /\ pending_item \in [QuotaNames -> Elems \cup {NoElem}]
  BY <1>1 DEF DeadElem, Objects
<1> QED BY <1>1, <1>4, <1>5, <1>6, <1>7 DEF QuotaInv

\* The request of a call, its next quota and the next callback are what they should be.
LEMMA NextOfCall ==
  ASSUME NEW r \in CallRecord
  PROVE  /\ r.a \in Requests
         /\ r.left # <<>> => Head(r.left) \in QuotaNames
         /\ r.todo # <<>> => /\ Head(r.todo).name \in QuotaNames
                             /\ Head(r.todo).elem \in Elems \cup {NoElem}
<1>1. r.a \in Requests /\ r.left \in Seq(QuotaNames) /\ r.todo \in Seq(AllQuotas)
  BY DEF CallRecord
<1>2. r.left # <<>> => Head(r.left) \in QuotaNames
  BY <1>1, HeadTailProperties
<1>3. r.todo # <<>> => Head(r.todo) \in AllQuotas
  BY <1>1, HeadTailProperties
<1>4. \A q \in AllQuotas : q.name \in QuotaNames /\ q.elem \in Elems \cup {NoElem}
  BY DEF AllQuotas, QuotaResults
<1> QED BY <1>1, <1>2, <1>3, <1>4

\* Nothing happens to the quota cache.
LEMMA QuotaIdle ==
  ASSUME QuotaInv, UNCHANGED quotaVars
  PROVE  QuotaInv'
BY DEF quotaVars, QuotaInv, Shaped, PinsNull, IsNull, KnownOK, Owned, Live

\* Every step keeps the invariant of the quota cache.
LEMMA NextQuota == Inv /\ QuotaInv /\ [Next]_vars => QuotaInv'
<1> SUFFICES ASSUME Inv, QuotaInv, [Next]_vars PROVE QuotaInv'
  OBVIOUS
<1>1. ASSUME NEW c \in Calls, CheckQuota(c) PROVE QuotaInv'
  <2>1. call[c] \in CallRecord /\ call[c].left # <<>>
    BY <1>1, Underway DEF CheckQuota, Pcs
  <2>2. PICK q \in QuotaResults(Head(call[c].left)) :
          IF UseQuotaCache(call[c]) THEN CheckCached(call[c].a, q.name, q, Busy)
          ELSE CheckRemote(q.name, q)
    BY <1>1 DEF CheckQuota
  <2>3. q.name \in QuotaNames
    BY <2>1, NextOfCall DEF QuotaResults
  <2>4. CASE CheckCached(call[c].a, q.name, q, Busy)
    BY <2>3, <2>4, CheckCachedQuota
  <2>5. CASE CheckRemote(q.name, q)
    BY <2>5, QuotaIdle DEF CheckRemote
  <2> QED BY <2>2, <2>4, <2>5
<1>2. ASSUME NEW c \in Calls, NEW g, OnQuota(c, g) PROVE QuotaInv'
  <2>1. call[c] \in CallRecord /\ call[c].todo # <<>>
    BY <1>2, Underway DEF OnQuota, Pcs
  <2>2. SetResponse(call[c].a, Head(call[c].todo).name) \/ UNCHANGED quotaVars
    BY <1>2 DEF OnQuota
  <2> QED BY <2>1, <2>2, NextOfCall, SetResponseQuota, QuotaIdle
<1>3. ASSUME NEW c \in Calls, Deliver(c) PROVE QuotaInv'
  <2>1. call[c] \in CallRecord /\ call[c].todo # <<>>
    BY <1>3, Underway DEF Deliver, Pcs, Good
  <2>2. \/ UNCHANGED quotaVars
        \/ Head(call[c].todo).elem # NoElem /\ OnQuotaResponse(Head(call[c].todo).elem)
    BY <1>3 DEF Deliver
  <2>3. Head(call[c].todo).elem \in Elems \cup {NoElem}
    BY <2>1, NextOfCall
  <2> QED BY <2>2, <2>3, OnQuotaResponseQuota, QuotaIdle
<1>4. CASE Destroy
  BY <1>4, FlushAllQuota DEF Destroy
<1>5. ASSUME NEW c \in Calls,
             \/ \E a \in Requests, l \in QuotaLists : Check(c, a, l)
             \/ BuildRequest(c) \/ Send(c) \/ OnFailure(c)
             \/ \E s \in {"OK", "DENIED"}, b \in BOOLEAN : OnAnswer(c, s, b)
             \/ \E b \in BOOLEAN : Finish(c, b)
      PROVE  QuotaInv'
  BY <1>5, QuotaIdle DEF Check, BuildRequest, Send, OnFailure, OnAnswer, Finish
<1>6. CASE \E a \in Requests : Forget(a)
  BY <1>6, QuotaIdle DEF Forget
<1>7. CASE UNCHANGED vars
  BY <1>7, QuotaIdle DEF vars
<1> QED BY <1>1, <1>2, <1>3, <1>4, <1>5, <1>6, <1>7 DEF Next, Proceed

\* QuotaInv holds in every reachable state: in particular an entry of the cache
\* belongs to the quota its signature names.
THEOREM QuotaCacheInv == Spec => []QuotaInv
<1>1. Inv /\ QuotaInv /\ [Next]_vars => QuotaInv'
  BY NextQuota
<1> QED BY <1>1, InitQuota, ClientInv, PTL DEF Spec

\* The LRU list of the quota cache has the unpinned entries and no others, and the
\* only pins that outlive a call of QuotaCache are those on null entries, which
\* ScopedLookup does not release (simple_lru_cache_inl.h, quota_cache.cc).
THEOREM TypesHold == Spec => []TypeOK
<1>1. Inv /\ QuotaInv => TypeOK
  <2> SUFFICES ASSUME Inv, QuotaInv PROVE TypeOK
    OBVIOUS
  <2>1. Shaped(cache) /\ PinsNull(cache, {})
    BY DEF QuotaInv
  <2>2. \A i \in DOMAIN cache.defer : cache.defer[i].pin > 0
    <3> DEFINE D == [sig : Sigs, pin : Nat \ {0}]
    <3>1. cache.defer \in Seq(D)
      BY <2>1 DEF Shaped
    <3>2. \A i \in DOMAIN cache.defer : cache.defer[i] \in D
      <4> HIDE DEF D
      <4> QED BY <3>1, LenProperties, ElementOfSeq
    <3> QED BY <3>2
  <2>3. ASSUME NEW c \in Running PROVE call[c].pc \in {"quota", "send", "remote", "answer", "deliver"}
    <3>1. c \in Calls /\ call[c] # Idle
      BY DEF Running, Idle
    <3>2. call[c] \in CallRecord
      BY <3>1 DEF Inv
    <3> QED BY <3>2 DEF CallRecord, Pcs
  <2> QED BY <2>1, <2>2, <2>3 DEF TypeOK, Shaped, PinsNull
<1> QED BY <1>1, ClientInv, QuotaCacheInv, PTL

\* A prefetch object has one owner, the pending item of its quota or one entry of
\* that quota, however many calls share it and in whichever order their answers
\* come (quota_cache.cc: pending_item.release(), Signature with the quota's name).
THEOREM OneOwner == Spec => []ElemsOwnedOnce
<1>1. QuotaInv => ElemsOwnedOnce
  BY DEF QuotaInv, Owned, ElemsOwnedOnce, IsNull
<1> QED BY <1>1, QuotaCacheInv, PTL

-----------------------------------------------------------------------------
(* Prefetch objects and the answers they wait for *)

MaxQuotas == Cardinality(QuotaNames)

\* The callbacks of a call that are still to come, and those of each call.
TodoOf(r) == IF r.pc = "idle" THEN <<>> ELSE r.todo
Todos(f) == [c \in Calls |-> TodoOf(f[c])]

\* Of the callbacks t, those that point to e.
Waiting(t, e) ==
  {x \in Calls \X (1..MaxQuotas) : x[2] \in DOMAIN t[x[1]] /\ t[x[1]][x[2]].elem = e}

\* The objects in L wait for the answers that the callbacks t will bring.
Matched(t, o, L) == \A e \in L : o[e].inflight = Cardinality(Waiting(t, e))

\* Callbacks are finitely many.
LEMMA WaitingFinite ==
  ASSUME NEW t, NEW e
  PROVE  MaxQuotas \in Nat /\ IsFiniteSet(Waiting(t, e)) /\ Cardinality(Waiting(t, e)) \in Nat
<1>1. MaxQuotas \in Nat
  BY MixerClientAssumption, FS_CardinalityType DEF MaxQuotas
<1>2. IsFiniteSet(Calls \X (1..MaxQuotas))
  <2>1. IsFiniteSet(1..MaxQuotas)
    BY <1>1, FS_Interval
  <2>2. IsFiniteSet(Calls)
    BY MixerClientAssumption
  <2> QED BY <2>1, <2>2, FS_Product
<1>3. IsFiniteSet(Waiting(t, e))
  <2>1. Waiting(t, e) \subseteq Calls \X (1..MaxQuotas)
    BY DEF Waiting
  <2> QED BY <1>2, <2>1, FS_Subset
<1> QED BY <1>1, <1>3, FS_CardinalityType

\* The callbacks of all calls; those of two states differ for c only; a call has
\* room for one more, or no more than there are quotas.
Lists == [Calls -> Seq(AllQuotas)]
OthersSame(t, u, c) == \A d \in Calls \ {c} : u[d] = t[d]
Room(w) == Len(w) + 1 <= MaxQuotas
Fits(w) == Len(w) <= MaxQuotas

\* A callback more.
LEMMA OneMoreWaits ==
  ASSUME NEW t \in Lists, NEW c \in Calls, Room(t[c]),
         NEW q \in AllQuotas, NEW u, u[c] = Append(t[c], q), OthersSame(t, u, c), NEW e
  PROVE  /\ q.elem = e => Cardinality(Waiting(u, e)) = Cardinality(Waiting(t, e)) + 1
         /\ q.elem # e => Cardinality(Waiting(u, e)) = Cardinality(Waiting(t, e))
<1> DEFINE k == Len(t[c]) + 1
           y == <<c, k>>
<1>1. /\ k \in 1..MaxQuotas /\ DOMAIN t[c] = 1..k - 1 /\ DOMAIN u[c] = 1..k
      /\ u[c][k] = q /\ \A i \in 1..k - 1 : u[c][i] = t[c][i]
  BY WaitingFinite, AppendProperties, LenProperties DEF Room, Lists
<1>2. \A d \in Calls \ {c} : u[d] = t[d]
  BY DEF OthersSame
<1> HIDE DEF k
<1>3. k \notin 1..k - 1 /\ \A i \in 1..k : i = k \/ i \in 1..k - 1
  BY <1>1
<1>4. y \notin Waiting(t, e)
  BY <1>1, <1>3 DEF Waiting
<1>5. ASSUME NEW x \in Calls \X (1..MaxQuotas), x # y
      PROVE  x \in Waiting(u, e) <=> x \in Waiting(t, e)
  <2>1. CASE x[1] # c
    BY <1>2, <2>1 DEF Waiting
  <2>2. CASE x[1] = c
    <3>1. x[2] # k
      BY <1>5, <2>2
    <3>2. x[2] \in DOMAIN u[c] <=> x[2] \in DOMAIN t[c]
      BY <1>1, <1>3, <3>1
    <3>3. x[2] \in DOMAIN t[c] => u[c][x[2]] = t[c][x[2]]
      BY <1>1
    <3> QED BY <2>2, <3>2, <3>3 DEF Waiting
  <2> QED BY <2>1, <2>2
<1>6. y \in Waiting(u, e) <=> q.elem = e
  <2>1. y \in Calls \X (1..MaxQuotas) /\ y[1] = c /\ y[2] = k /\ k \in 1..k
    BY <1>1
  <2> HIDE DEF y
  <2> QED BY <1>1, <2>1 DEF Waiting
<1>7. Waiting(u, e) \subseteq Calls \X (1..MaxQuotas) /\ Waiting(t, e) \subseteq Calls \X (1..MaxQuotas)
  BY DEF Waiting
<1> HIDE DEF y
<1>8. CASE q.elem = e
  <2>1. Waiting(u, e) = Waiting(t, e) \cup {y}
    BY <1>5, <1>6, <1>7, <1>8
  <2> QED BY <1>4, <1>8, <2>1, WaitingFinite, FS_AddElement
<1>9. CASE q.elem # e
  <2>1. \A x \in Calls \X (1..MaxQuotas) : x \in Waiting(u, e) <=> x \in Waiting(t, e)
    BY <1>4, <1>5, <1>6, <1>9
  <2>2. Waiting(u, e) = Waiting(t, e)
    BY <1>7, <2>1
  <2> QED BY <1>9, <2>2, WaitingFinite
<1> QED BY <1>8, <1>9

\* A callback less.
LEMMA OneLessWaits ==
  ASSUME NEW t \in Lists, NEW c \in Calls, t[c] # <<>>, Fits(t[c]),
         NEW u, u[c] = Tail(t[c]), OthersSame(t, u, c), NEW e
  PROVE  /\ Head(t[c]).elem = e => Cardinality(Waiting(t, e)) = Cardinality(Waiting(u, e)) + 1
         /\ Head(t[c]).elem # e => Cardinality(Waiting(t, e)) = Cardinality(Waiting(u, e))
<1> DEFINE k == Len(t[c])
           y == <<c, 1>>
           B == Waiting(t, e) \ {y}
           g == [x \in B |-> IF x[1] = c THEN <<c, x[2] - 1>> ELSE x]
<1>1. /\ k \in Nat \ {0} /\ k <= MaxQuotas /\ DOMAIN t[c] = 1..k /\ DOMAIN u[c] = 1..k - 1
      /\ t[c][1] = Head(t[c]) /\ \A i \in 1..k - 1 : u[c][i] = t[c][i + 1]
  BY HeadTailProperties, LenProperties, EmptySeq, Shortened DEF Lists, Fits
<1>2. \A d \in Calls \ {c} : u[d] = t[d]
  BY DEF OthersSame
<1>3. MaxQuotas \in Nat
  BY WaitingFinite
<1> HIDE DEF k
<1>4. \A i \in 1..k : i = 1 \/ (i - 1 \in 1..k - 1 /\ i - 1 \in 1..MaxQuotas /\ i = (i - 1) + 1)
  BY <1>1, <1>3
<1>5. \A i \in 1..k - 1 : /\ i + 1 \in 1..k /\ i + 1 \in 1..MaxQuotas /\ i + 1 # 1
                          /\ i = (i + 1) - 1
  BY <1>1, <1>3
<1>6. g \in [B -> Waiting(u, e)]
  <2> SUFFICES ASSUME NEW x \in B PROVE g[x] \in Waiting(u, e)
    OBVIOUS
  <2>1. /\ x = <<x[1], x[2]>> /\ x[1] \in Calls /\ x[2] \in 1..MaxQuotas /\ x # y
        /\ x[2] \in DOMAIN t[x[1]] /\ t[x[1]][x[2]].elem = e
    BY DEF Waiting
  <2>2. CASE x[1] # c
    BY <1>2, <2>1, <2>2 DEF Waiting
  <2>3. CASE x[1] = c
    <3>1. x[2] \in 1..k /\ x[2] # 1
      BY <1>1, <2>1, <2>3
    <3>2. /\ x[2] - 1 \in 1..k - 1 /\ x[2] - 1 \in 1..MaxQuotas
          /\ u[c][x[2] - 1] = t[c][x[2]]
      BY <1>1, <1>4, <3>1
    <3>3. g[x] = <<c, x[2] - 1>>
      BY <2>3
    <3> QED BY <1>1, <2>1, <2>3, <3>2, <3>3 DEF Waiting
  <2> QED BY <2>2, <2>3
<1>7. IsInjective(g)
  <2> SUFFICES ASSUME NEW x \in B, NEW z \in B, g[x] = g[z] PROVE x = z
    BY DEF IsInjective
  <2>1. /\ x = <<x[1], x[2]>> /\ x[2] \in Nat
        /\ z = <<z[1], z[2]>> /\ z[2] \in Nat
    BY DEF Waiting
  <2>2. (g[x])[1] = x[1] /\ (g[z])[1] = z[1]
    OBVIOUS
  <2>3. (g[x])[2] = (IF x[1] = c THEN x[2] - 1 ELSE x[2])
        /\ (g[z])[2] = (IF z[1] = c THEN z[2] - 1 ELSE z[2])
    OBVIOUS
  <2> HIDE DEF g, B
  <2>4. x[2] = z[2]
    BY <2>1, <2>2, <2>3
  <2> QED BY <2>1, <2>2, <2>4
<1>8. ASSUME NEW z \in Waiting(u, e) PROVE \E x \in B : g[x] = z
  <2>1. /\ z = <<z[1], z[2]>> /\ z[1] \in Calls /\ z[2] \in 1..MaxQuotas
        /\ z[2] \in DOMAIN u[z[1]] /\ u[z[1]][z[2]].elem = e
    BY DEF Waiting
  <2>2. CASE z[1] # c
    <3>1. z \in B /\ g[z] = z
      BY <1>2, <2>1, <2>2 DEF Waiting
    <3> QED BY <3>1
  <2>3. CASE z[1] = c
    <3> DEFINE x == <<c, z[2] + 1>>
    <3>1. z[2] \in 1..k - 1 /\ z[2] + 1 \in 1..k /\ z[2] + 1 \in 1..MaxQuotas /\ z[2] + 1 # 1
          /\ z[2] = (z[2] + 1) - 1 /\ u[c][z[2]] = t[c][z[2] + 1]
      BY <1>1, <1>5, <2>1, <2>3
    <3>2. x \in B
      BY <1>1, <2>1, <2>3, <3>1 DEF Waiting
    <3>3. x[1] = c /\ x[2] = z[2] + 1
      OBVIOUS
    <3> HIDE DEF x, B
    <3>4. g[x] = z
      BY <2>1, <2>3, <3>1, <3>2, <3>3
    <3> QED BY <3>2, <3>4
  <2> QED BY <2>2, <2>3
<1>9. ExistsBijection(B, Waiting(u, e))
  <2> HIDE DEF B, g
  <2> QED BY <1>6, <1>7, <1>8 DEF ExistsBijection, Bijection, Injection, Surjection
<1>10. IsFiniteSet(B) /\ Cardinality(Waiting(u, e)) = Cardinality(B)
  <2>1. IsFiniteSet(B)
    BY WaitingFinite, FS_Subset
  <2> HIDE DEF B
  <2> QED BY <1>9, <2>1, FS_Bijection
<1>11. Cardinality(B) = IF y \in Waiting(t, e) THEN Cardinality(Waiting(t, e)) - 1
                        ELSE Cardinality(Waiting(t, e))
  <2> HIDE DEF y
  <2> QED BY WaitingFinite, FS_RemoveElement
<1>12. y \in Waiting(t, e) <=> Head(t[c]).elem = e
  <2>1. y \in Calls \X (1..MaxQuotas) /\ y[1] = c /\ y[2] = 1 /\ 1 \in 1..k
    BY <1>1, <1>3
  <2> HIDE DEF y
  <2> QED BY <1>1, <2>1 DEF Waiting
<1> HIDE DEF B, y
<1> QED BY <1>10, <1>11, <1>12, WaitingFinite

\* A call has a callback for each of its quotas at most, and only callbacks of the
\* quota cache point to an object.
CallbacksOK(r) ==
  /\ Len(r.left) + Len(r.todo) <= MaxQuotas
  /\ \A i \in DOMAIN r.todo : r.todo[i].func = "grant" => r.todo[i].elem = NoElem

WaitInv ==
  /\ \A c \in Calls : call[c] # Idle => CallbacksOK(call[c])
  /\ Matched(Todos(call), elem, Live(cache, pending_item))

\* The callbacks of the call that takes a step.
LEMMA TodosStep ==
  ASSUME Inv, NEW c \in Calls, NEW s, Step(c, s)
  PROVE  /\ Todos(call') = [Todos(call) EXCEPT ![c] = TodoOf(s)]
         /\ Todos(call) \in [Calls -> Seq(AllQuotas)]
         /\ Todos(call)[c] = TodoOf(call[c])
<1>1. call' = [call EXCEPT ![c] = s] /\ call \in [Calls -> CallRecord \cup {Idle}]
  BY DEF Step, Inv
<1>2. \A d \in Calls : TodoOf(call[d]) \in Seq(AllQuotas)
  <2>1. Idle.pc = "idle" /\ <<>> \in Seq(AllQuotas)
    BY DEF Idle
  <2>2. \A r \in CallRecord : r.todo \in Seq(AllQuotas)
    BY DEF CallRecord
  <2> QED BY <1>1, <2>1, <2>2 DEF TodoOf
<1> QED BY <1>1, <1>2 DEF Todos

\* A step of call c to s, or to its end.
LEMMA WaitStep ==
  ASSUME Inv, WaitInv, NEW c \in Calls, NEW s, Step(c, s), s # Idle => CallbacksOK(s),
         Matched(Todos(call'), elem', Live(cache', pending_item'))
  PROVE  WaitInv'
<1>1. call' = [call EXCEPT ![c] = s] /\ DOMAIN call = Calls
  BY DEF Step, Inv
<1>2. ASSUME NEW d \in Calls, call'[d] # Idle PROVE CallbacksOK(call'[d])
  BY <1>1, <1>2 DEF WaitInv
<1>3. Matched(Todos(call), elem, Live(cache, pending_item))'
  BY DEF Matched, Todos, TodoOf, Live, Waiting
<1>4. \A d \in Calls : (call[d] # Idle => CallbacksOK(call[d]))'
  BY <1>2 DEF CallbacksOK
<1> QED BY <1>3, <1>4 DEF WaitInv

\* A step that adds and takes no callback, and gives no object an answer.
LEMMA SameCallbacks ==
  ASSUME Inv, WaitInv, NEW c \in Calls, NEW s, Step(c, s), TodoOf(s) = TodoOf(call[c]),
         s # Idle => CallbacksOK(s),
         Live(cache', pending_item') \subseteq Live(cache, pending_item),
         \A x \in Live(cache', pending_item') : elem'[x] = elem[x]
  PROVE  WaitInv'
<1>1. Todos(call') = Todos(call)
  BY TodosStep DEF Todos
<1>2. Matched(Todos(call'), elem', Live(cache', pending_item'))
  BY <1>1 DEF Matched, WaitInv
<1> QED BY <1>2, WaitStep

\* A callback is taken off the list.
LEMMA CallbackTaken ==
  ASSUME NEW r, r \in CallRecord, CallbacksOK(r), r.todo # <<>>,
         NEW s, s.left = r.left, s.todo = Tail(r.todo)
  PROVE  CallbacksOK(s) /\ Fits(r.todo) /\ r.todo \in Seq(AllQuotas)
<1>1. r.left \in Seq(QuotaNames) /\ r.todo \in Seq(AllQuotas)
  BY DEF CallRecord
<1>2. Len(r.left) \in Nat /\ Len(r.todo) \in Nat /\ MaxQuotas \in Nat
  BY <1>1, LenProperties, WaitingFinite
<1>3. Len(r.left) + Len(r.todo) <= MaxQuotas
  BY DEF CallbacksOK
<1>4. /\ Len(s.todo) = Len(r.todo) - 1 /\ s.todo \in Seq(AllQuotas)
      /\ \A i \in 1..Len(r.todo) - 1 : s.todo[i] = r.todo[i + 1]
  BY <1>1, Shortened
<1>5. \A i \in 1..Len(r.todo) - 1 : i + 1 \in 1..Len(r.todo)
  BY <1>2
<1>6. DOMAIN s.todo = 1..Len(r.todo) - 1 /\ DOMAIN r.todo = 1..Len(r.todo)
  BY <1>1, <1>4, LenProperties
<1>7. \A i \in DOMAIN s.todo : s.todo[i].func = "grant" => s.todo[i].elem = NoElem
  BY <1>4, <1>5, <1>6 DEF CallbacksOK
<1>8. \A a, b, k \in Nat : a + b <= k => a + (b - 1) <= k /\ b <= k
  OBVIOUS
<1>9. Len(r.left) + (Len(r.todo) - 1) <= MaxQuotas /\ Len(r.todo) <= MaxQuotas
  BY ONLY <1>2, <1>3, <1>8
<1>10. Len(s.left) + Len(s.todo) <= MaxQuotas
  <2>1. Len(s.left) = Len(r.left)
    OBVIOUS
  <2> QED BY ONLY <1>4, <1>9, <2>1
<1> QED BY <1>1, <1>7, <1>9, <1>10 DEF CallbacksOK, Fits

\* A quota is looked up, and its callback, if there is one, is put on the list.
LEMMA CheckQuotaWaits ==
  ASSUME Inv, QuotaInv, WaitInv, NEW c \in Calls, CheckQuota(c)
  PROVE  WaitInv'
<1> DEFINE r == call[c]
           t == Todos(call)
<1>1. r \in CallRecord /\ r # Idle /\ r.pc = "quota" /\ r.left # <<>>
  BY Underway DEF CheckQuota, Pcs, Idle
<1>2. PICK q \in QuotaResults(Head(r.left)) :
        /\ IF UseQuotaCache(r) THEN CheckCached(r.a, q.name, q, Busy) ELSE CheckRemote(q.name, q)
        /\ Step(c, [r EXCEPT !.left = Tail(@),
                             !.todo = IF q.func = "none" THEN @ ELSE Append(@, q),
                             !.charged = @ \/ q.result = "Passed",
                             !.rejected = @ \/ q.result = "Rejected",
                             !.pending = @ \/ q.result = "Pending"])
  BY DEF CheckQuota
<1> DEFINE s == [r EXCEPT !.left = Tail(@),
                          !.todo = IF q.func = "none" THEN @ ELSE Append(@, q),
                          !.charged = @ \/ q.result = "Passed",
                          !.rejected = @ \/ q.result = "Rejected",
                          !.pending = @ \/ q.result = "Pending"]
<1>3. Step(c, s)
  BY <1>2
<1>4. /\ s.left = Tail(r.left) /\ s.pc = "quota"
      /\ s.todo = IF q.func = "none" THEN r.todo ELSE Append(r.todo, q)
  <2> HIDE DEF r
  <2> QED BY <1>1 DEF CallRecord
<1> HIDE DEF s
<1>5. q \in AllQuotas /\ q.name \in QuotaNames
  <2>1. Head(r.left) \in QuotaNames
    BY <1>1, NextOfCall
  <2> QED BY <2>1 DEF AllQuotas, QuotaResults
<1>6. /\ r.left \in Seq(QuotaNames) /\ r.todo \in Seq(AllQuotas)
      /\ Len(r.left) \in Nat \ {0} /\ Len(r.todo) \in Nat /\ MaxQuotas \in Nat
      /\ Len(Tail(r.left)) = Len(r.left) - 1
      /\ (Len(r.left) - 1) + Len(r.todo) <= MaxQuotas
      /\ (Len(r.left) - 1) + (Len(r.todo) + 1) <= MaxQuotas
      /\ Len(r.todo) + 1 <= MaxQuotas
  <2>1. r.left \in Seq(QuotaNames) /\ r.todo \in Seq(AllQuotas)
    BY <1>1 DEF CallRecord
  <2>2. Len(r.left) + Len(r.todo) <= MaxQuotas
    BY <1>1 DEF WaitInv, CallbacksOK
  <2>3. /\ Len(r.left) \in Nat \ {0} /\ Len(r.todo) \in Nat /\ MaxQuotas \in Nat
        /\ Len(Tail(r.left)) = Len(r.left) - 1
    BY <1>1, <2>1, LenProperties, EmptySeq, HeadTailProperties, WaitingFinite
  <2>4. \A a \in Nat \ {0}, b, k \in Nat : a + b <= k =>
          (a - 1) + b <= k /\ (a - 1) + (b + 1) <= k /\ b + 1 <= k
    OBVIOUS
  <2>5. /\ (Len(r.left) - 1) + Len(r.todo) <= MaxQuotas
        /\ (Len(r.left) - 1) + (Len(r.todo) + 1) <= MaxQuotas
        /\ Len(r.todo) + 1 <= MaxQuotas
    BY ONLY <2>2, <2>3, <2>4
  <2> QED BY <2>1, <2>3, <2>5
<1>7. /\ \A x \in Live(cache', pending_item') :
           elem'[x].inflight = Cardinality(Waiting(t, x)) + (IF q.elem = x THEN 1 ELSE 0)
      /\ q.func \in {"none", "grant"} => q.elem = NoElem
  <2>1. CASE CheckRemote(q.name, q)
    <3>1. q.elem = NoElem
      BY <2>1 DEF CheckRemote
    <3>2. Live(cache', pending_item') = Live(cache, pending_item) /\ elem' = elem
      BY <2>1 DEF CheckRemote, quotaVars
    <3>3. NoElem \notin Live(cache, pending_item)
      BY DEF Live
    <3>4. \A x \in Live(cache, pending_item) : elem[x].inflight = Cardinality(Waiting(t, x))
      BY DEF WaitInv, Matched
    <3>5. \A x : Cardinality(Waiting(t, x)) \in Nat
      BY WaitingFinite
    <3> HIDE DEF t
    <3> QED BY <3>1, <3>2, <3>3, <3>4, <3>5
  <2>2. CASE CheckCached(r.a, q.name, q, Busy)
    <3> HIDE DEF t
    <3>1. /\ Live(cache', pending_item') \subseteq Live(cache, pending_item) \cup (Elems \ Busy)
          /\ \A x \in Live(cache', pending_item') :
               elem'[x].inflight = elem[x].inflight + (IF q.elem = x THEN 1 ELSE 0)
          /\ q.func # "grant" /\ (q.func = "none" => q.elem = NoElem)
      <4>1. q.name \in QuotaNames
        BY <1>5
      <4> HIDE DEF r
      <4> QED BY <2>2, <4>1, CheckCachedQuota
    <3>2. ASSUME NEW x \in Elems \ Live(cache, pending_item), x \notin Busy
          PROVE  elem[x].inflight = Cardinality(Waiting(t, x))
      <4>1. elem[x].inflight = 0
        BY DEF QuotaInv, DeadElem
      <4>2. Waiting(t, x) = {}
        <5>1. \A d \in Calls : \A i \in DOMAIN t[d] : t[d][i].elem # x
          <6> SUFFICES ASSUME NEW d \in Calls, NEW i \in DOMAIN t[d] PROVE t[d][i].elem # x
            OBVIOUS
          <6>1. t[d] = TodoOf(call[d])
            BY DEF t, Todos
          <6>2. d \in Running /\ t[d] = call[d].todo
            <7>1. DOMAIN <<>> = {}
              OBVIOUS
            <7> QED BY <6>1, <7>1 DEF TodoOf, Running
          <6> QED BY <3>2, <6>2 DEF Busy
        <5> QED BY <5>1 DEF Waiting
      <4> QED BY <4>1, <4>2, FS_EmptySet
    <3>3. \A x \in Live(cache', pending_item') : elem[x].inflight = Cardinality(Waiting(t, x))
      BY <3>1, <3>2 DEF WaitInv, Matched, t
    <3> QED BY <3>1, <3>3
  <2> QED BY <1>2, <2>1, <2>2
<1>8. CallbacksOK(s)
  <2> DEFINE w == Append(r.todo, q)
  <2>1. /\ Len(w) = Len(r.todo) + 1 /\ DOMAIN w = 1..Len(r.todo) + 1 /\ DOMAIN r.todo = 1..Len(r.todo)
        /\ w[Len(r.todo) + 1] = q /\ \A i \in 1..Len(r.todo) : w[i] = r.todo[i]
    BY <1>5, <1>6, AppendProperties, LenProperties
  <2>2. \A i \in DOMAIN r.todo : r.todo[i].func = "grant" => r.todo[i].elem = NoElem
    BY <1>1 DEF WaitInv, CallbacksOK
  <2> HIDE DEF w, r
  <2>3. \A i \in 1..Len(r.todo) + 1 : i = Len(r.todo) + 1 \/ i \in 1..Len(r.todo)
    BY <1>6
  <2>4. \A i \in DOMAIN w : w[i].func = "grant" => w[i].elem = NoElem
    BY <1>7, <2>1, <2>2, <2>3
  <2>5. s.todo = r.todo \/ s.todo = w
    BY <1>4 DEF w
  <2>6. \A i \in DOMAIN s.todo : s.todo[i].func = "grant" => s.todo[i].elem = NoElem
    BY <2>2, <2>4, <2>5
  <2>7. Len(s.left) + Len(s.todo) <= MaxQuotas
    <3>1. Len(s.left) = Len(r.left) - 1
      BY <1>4, <1>6
    <3>2. Len(s.todo) = Len(r.todo) \/ Len(s.todo) = Len(r.todo) + 1
      BY <2>1, <2>5
    <3> QED BY ONLY <1>6, <3>1, <3>2
  <2> QED BY <2>6, <2>7 DEF CallbacksOK
<1>9. Matched(Todos(call'), elem', Live(cache', pending_item'))
  <2>1. TodoOf(s) = s.todo /\ TodoOf(r) = r.todo
    BY <1>1, <1>4 DEF TodoOf
  <2>2. /\ Todos(call') = [t EXCEPT ![c] = s.todo] /\ t \in [Calls -> Seq(AllQuotas)]
        /\ t[c] = r.todo
    BY <1>3, <2>1, TodosStep
  <2> HIDE DEF t, r
  <2> SUFFICES ASSUME NEW x \in Live(cache', pending_item')
               PROVE  elem'[x].inflight = Cardinality(Waiting(Todos(call'), x))
    BY DEF Matched
  <2>3. CASE q.func = "none"
    <3>1. q.elem # x
      BY <1>7, <2>3 DEF Live
    <3>2. Todos(call') = t
      BY <1>4, <2>2, <2>3
    <3>3. Cardinality(Waiting(t, x)) \in Nat
      BY WaitingFinite
    <3> QED BY <1>7, <3>1, <3>2, <3>3
  <2>4. CASE q.func # "none"
    <3>1. Todos(call') = [t EXCEPT ![c] = Append(t[c], q)]
      BY <1>4, <2>2, <2>4
    <3>2. Room(t[c])
      <4>1. t[c] = r.todo /\ Room(r.todo)
        BY <1>6, <2>2 DEF Room
      <4> QED BY <4>1
    <3> DEFINE u == Todos(call')
    <3>3. u[c] = Append(t[c], q) /\ OthersSame(t, u, c)
      BY <2>2, <3>1 DEF OthersSame
    <3> HIDE DEF u
    <3>4. /\ q.elem = x => Cardinality(Waiting(u, x)) = Cardinality(Waiting(t, x)) + 1
          /\ q.elem # x => Cardinality(Waiting(u, x)) = Cardinality(Waiting(t, x))
      <4>1. q \in AllQuotas /\ t \in Lists
        BY <1>5, <2>2 DEF Lists
      <4> QED BY <3>2, <3>3, <4>1, OneMoreWaits
    <3>5. Cardinality(Waiting(t, x)) \in Nat
      BY WaitingFinite
    <3> QED BY <1>7, <3>4, <3>5 DEF u
  <2> QED BY <2>3, <2>4
<1> QED BY <1>3, <1>8, <1>9, WaitStep

\* A callback of call c is done: if it points to an object, that has its answer.
LEMMA CallbackDone ==
  ASSUME Inv, WaitInv, NEW c \in Calls, call[c].pc \in {"answer", "deliver"}, call[c].todo # <<>>,
         NEW s, Step(c, s), s.pc = "answer", s.left = call[c].left, s.todo = Tail(call[c].todo),
         Live(cache', pending_item') \subseteq Live(cache, pending_item),
         NEW e, e = Head(call[c].todo).elem,
         \A x \in Live(cache', pending_item') \ {e} : elem'[x].inflight = elem[x].inflight,
         e \in Live(cache', pending_item') =>
           elem'[e].inflight = IF elem[e].inflight > 0 THEN elem[e].inflight - 1
                               ELSE elem[e].inflight
  PROVE  WaitInv'
<1> DEFINE r == call[c]
           t == Todos(call)
           u == Todos(call')
<1>1. r \in CallRecord /\ r # Idle /\ TodoOf(r) = r.todo
  BY Underway DEF Pcs, Idle, TodoOf
<1>2. CallbacksOK(r)
  BY <1>1 DEF WaitInv
<1>3. CallbacksOK(s) /\ Fits(r.todo)
  <2> HIDE DEF r
  <2>1. s.left = r.left /\ s.todo = Tail(r.todo) /\ r.todo # <<>>
    BY DEF r
  <2> QED BY <1>1, <1>2, <2>1, CallbackTaken
<1>4. /\ t \in Lists /\ t[c] = r.todo /\ t[c] # <<>> /\ Fits(t[c])
      /\ u[c] = Tail(t[c]) /\ OthersSame(t, u, c)
  <2>1. TodoOf(s) = s.todo
    BY DEF TodoOf
  <2>2. u = [t EXCEPT ![c] = s.todo] /\ t \in Lists /\ t[c] = r.todo
    BY <1>1, <2>1, TodosStep DEF Lists
  <2> HIDE DEF t, u
  <2>3. DOMAIN t = Calls
    BY <2>2 DEF Lists
  <2> QED BY <1>3, <2>2, <2>3 DEF OthersSame
<1>5. ASSUME NEW x \in Live(cache', pending_item')
      PROVE  elem'[x].inflight = Cardinality(Waiting(u, x))
  <2> HIDE DEF u
  <2>1. elem[x].inflight = Cardinality(Waiting(t, x))
    BY DEF WaitInv, Matched
  <2> HIDE DEF t
  <2>2. /\ e = x => Cardinality(Waiting(t, x)) = Cardinality(Waiting(u, x)) + 1
        /\ e # x => Cardinality(Waiting(t, x)) = Cardinality(Waiting(u, x))
    <3>1. Head(t[c]).elem = e
      BY <1>4
    <3> QED BY <1>4, <3>1, OneLessWaits
  <2>3. Cardinality(Waiting(u, x)) \in Nat
    BY WaitingFinite
  <2>4. CASE e = x
    BY <2>1, <2>2, <2>3, <2>4
  <2>5. CASE e # x
    BY <2>1, <2>2, <2>5
  <2> QED BY <2>4, <2>5
<1>6. Matched(Todos(call'), elem', Live(cache', pending_item'))
  BY <1>5 DEF Matched
<1> QED BY <1>3, <1>6, WaitStep

\* The callbacks of the quotas.
LEMMA OnQuotaWaits ==
  ASSUME Inv, QuotaInv, WaitInv, NEW c \in Calls, NEW g, OnQuota(c, g)
  PROVE  WaitInv'
<1> DEFINE r == call[c]
           q == Head(r.todo)
<1>1. /\ r \in CallRecord /\ r # Idle /\ r.pc = "answer" /\ r.todo # <<>>
      /\ CallbacksOK(r)
  BY Underway DEF OnQuota, Pcs, Idle, WaitInv
<1>2. CASE /\ q.func = "grant"
           /\ Step(c, [r EXCEPT !.todo = Tail(@), !.rejected = @ \/ g = "refused"])
           /\ UNCHANGED quotaVars
  <2> DEFINE s == [r EXCEPT !.todo = Tail(@), !.rejected = @ \/ g = "refused"]
  <2>1. s.pc = "answer" /\ s.left = r.left /\ s.todo = Tail(r.todo)
    <3> HIDE DEF r
    <3> QED BY <1>1 DEF CallRecord
  <2>2. Step(c, s)
    BY <1>2
  <2>3. q.elem = NoElem
    <3>1. r.todo \in Seq(AllQuotas)
      BY <1>1 DEF CallRecord
    <3>2. 1 \in DOMAIN r.todo /\ r.todo[1] = q
      BY <1>1, <3>1, HeadTailProperties, LenProperties, EmptySeq
    <3> QED BY <1>1, <1>2, <3>2 DEF CallbacksOK
  <2>4. Live(cache', pending_item') = Live(cache, pending_item) /\ elem' = elem
    BY <1>2 DEF quotaVars
  <2>5. NoElem \notin Live(cache, pending_item)
    BY DEF Live
  <2> HIDE DEF s
  <2> QED BY <1>1, <2>1, <2>2, <2>3, <2>4, <2>5, CallbackDone
<1>3. CASE /\ Step(c, [r EXCEPT !.pc = "deliver"])
           /\ SetResponse(r.a, q.name) \/ UNCHANGED quotaVars
  <2> DEFINE s == [r EXCEPT !.pc = "deliver"]
  <2>1. s.pc = "deliver" /\ s.left = r.left /\ s.todo = r.todo
    <3> HIDE DEF r
    <3> QED BY <1>1 DEF CallRecord
  <2>2. Step(c, s)
    BY <1>3
  <2>3. /\ Live(cache', pending_item') \subseteq Live(cache, pending_item)
        /\ \A x \in Live(cache', pending_item') : elem'[x] = elem[x]
    <3>1. CASE UNCHANGED quotaVars
      BY <3>1 DEF quotaVars
    <3>2. CASE SetResponse(r.a, q.name)
      BY <1>1, <3>2, NextOfCall, SetResponseQuota
    <3> QED BY <1>3, <3>1, <3>2
  <2> HIDE DEF s
  <2>4. TodoOf(s) = TodoOf(r) /\ CallbacksOK(s)
    BY <1>1, <2>1 DEF TodoOf, CallbacksOK
  <2> QED BY <2>2, <2>3, <2>4, SameCallbacks
<1> QED BY <1>2, <1>3 DEF OnQuota

\* A prefetch object gets its answer.
LEMMA DeliverWaits ==
  ASSUME Inv, QuotaInv, WaitInv, NEW c \in Calls, Deliver(c)
  PROVE  WaitInv'
<1> DEFINE r == call[c]
           e == Head(r.todo).elem
           s == [r EXCEPT !.pc = "answer", !.todo = Tail(@)]
<1>1. r \in CallRecord /\ r.pc = "deliver" /\ r.todo # <<>>
  BY Underway DEF Deliver, Pcs, Good
<1>2. Step(c, s) /\ s.pc = "answer" /\ s.left = r.left /\ s.todo = Tail(r.todo)
  <2>1. Step(c, s)
    BY DEF Deliver
  <2> HIDE DEF r
  <2> QED BY <1>1, <2>1 DEF CallRecord
<1> HIDE DEF s
<1>3. e \in Elems \cup {NoElem}
  BY <1>1, NextOfCall
<1>4. \/ UNCHANGED quotaVars /\ e = NoElem
      \/ e # NoElem /\ OnQuotaResponse(e)
  BY DEF Deliver
<1> HIDE DEF e
<1>5. /\ Live(cache', pending_item') = Live(cache, pending_item)
      /\ \A x \in Live(cache', pending_item') \ {e} : elem'[x].inflight = elem[x].inflight
      /\ e \in Live(cache', pending_item') =>
           elem'[e].inflight = IF elem[e].inflight > 0 THEN elem[e].inflight - 1
                               ELSE elem[e].inflight
  <2>1. NoElem \notin Live(cache', pending_item') /\ Live(cache, pending_item) \subseteq Elems
    <3>1. Live(cache, pending_item) \subseteq Elems
      BY LiveObjects DEF QuotaInv
    <3> QED BY <3>1 DEF Live
  <2>2. CASE UNCHANGED quotaVars /\ e = NoElem
    BY <2>1, <2>2 DEF quotaVars
  <2>3. CASE e # NoElem /\ OnQuotaResponse(e)
    <3>1. e \in Elems
      BY <1>3, <2>3
    <3>2. /\ Live(cache', pending_item') = Live(cache, pending_item)
          /\ \A x \in Elems : elem'[x].inflight =
               IF x = e /\ elem[x].inflight > 0 THEN elem[x].inflight - 1 ELSE elem[x].inflight
      BY <2>3, <3>1, OnQuotaResponseQuota
    <3> QED BY <2>1, <3>1, <3>2
  <2> QED BY <1>4, <2>2, <2>3
<1>6. /\ e = Head(call[c].todo).elem /\ s.left = call[c].left /\ s.todo = Tail(call[c].todo)
      /\ call[c].pc \in {"answer", "deliver"} /\ call[c].todo # <<>>
  BY <1>1, <1>2 DEF e
<1> QED BY <1>2, <1>5, <1>6, CallbackDone

\* A call starts with no callbacks and has quotas of different names.
LEMMA CheckWaits ==
  ASSUME Inv, WaitInv, NEW c \in Calls, NEW a \in Requests, NEW l \in QuotaLists, Check(c, a, l)
  PROVE  WaitInv'
<1>1. call[c] = Idle /\ Live(cache', pending_item') = Live(cache, pending_item) /\ elem' = elem
  BY DEF Check, quotaVars
<1>2. TodoOf(Idle) = <<>>
  BY DEF TodoOf, Idle
<1>3. CASE verdict[a] = "DENIED"
  <2>1. Step(c, Idle)
    BY <1>3 DEF Check, End
  <2> QED BY <1>1, <2>1, SameCallbacks
<1>4. CASE verdict[a] # "DENIED"
  <2> DEFINE s == [pc |-> "quota", a |-> a, left |-> l, todo |-> <<>>,
                   hit |-> verdict[a] = "OK", check |-> verdict[a], words |-> 0,
                   charged |-> FALSE, rejected |-> FALSE, pending |-> FALSE,
                   failed |-> FALSE, on_done |-> TRUE, done |-> 0]
  <2>1. Step(c, s)
    BY <1>4 DEF Check
  <2>2. s.pc = "quota" /\ s.left = l /\ s.todo = <<>>
    OBVIOUS
  <2> HIDE DEF s
  <2>3. Len(l) <= MaxQuotas /\ Len(l) \in Nat
    <3>1. l \in Seq(QuotaNames) /\ IsInjective(l) /\ IsFiniteSet(QuotaNames)
      BY MixerClientAssumption
    <3>2. Len(l) \in Nat /\ l \in [1..Len(l) -> QuotaNames]
      BY <3>1, LenProperties
    <3>3. l \in Injection(1..Len(l), QuotaNames)
      BY <3>1, <3>2 DEF Injection
    <3>4. Cardinality(1..Len(l)) <= Cardinality(QuotaNames)
      BY <3>1, <3>3, FS_Injection
    <3>5. Cardinality(1..Len(l)) = Len(l)
      BY <3>2, FS_Interval
    <3> QED BY <3>2, <3>4, <3>5 DEF MaxQuotas
  <2>4. CallbacksOK(s)
    <3>1. Len(s.todo) = 0 /\ DOMAIN s.todo = {}
      BY <2>2
    <3>2. Len(s.left) + Len(s.todo) <= MaxQuotas
      BY <2>2, <2>3, <3>1
    <3> QED BY <3>1, <3>2 DEF CallbacksOK
  <2>5. TodoOf(s) = TodoOf(call[c])
    BY <1>1, <1>2, <2>2 DEF TodoOf
  <2> QED BY <1>1, <2>1, <2>4, <2>5, SameCallbacks
<1> QED BY <1>3, <1>4

\* Between the quotas and their callbacks nothing happens to either.
LEMMA SentWaits ==
  ASSUME Inv, WaitInv, NEW c \in Calls,
         \/ BuildRequest(c) \/ Send(c) \/ OnFailure(c)
         \/ \E s \in {"OK", "DENIED"}, b \in BOOLEAN : OnAnswer(c, s, b)
         \/ \E b \in BOOLEAN : Finish(c, b)
  PROVE  WaitInv'
<1> DEFINE r == call[c]
<1>1. r \in CallRecord /\ r # Idle /\ CallbacksOK(r) /\ TodoOf(r) = r.todo
  <2>1. r.pc \in Pcs
    BY DEF BuildRequest, Send, OnFailure, OnAnswer, Finish, Pcs
  <2>2. r \in CallRecord /\ r # Idle
    BY <2>1, Underway DEF Idle, Pcs
  <2> QED BY <2>1, <2>2 DEF WaitInv, TodoOf, Pcs
<1>2. Live(cache', pending_item') = Live(cache, pending_item) /\ elem' = elem
  BY DEF BuildRequest, Send, OnFailure, OnAnswer, Finish, quotaVars
<1>3. ASSUME NEW s, Step(c, s), s.pc \in Pcs, s.left = r.left, s.todo = r.todo PROVE WaitInv'
  <2>1. CallbacksOK(s) /\ TodoOf(s) = TodoOf(r)
    BY <1>1, <1>3 DEF CallbacksOK, TodoOf, Pcs
  <2> QED BY <1>2, <1>3, <2>1, SameCallbacks
<1>4. ASSUME Step(c, Idle), r.todo = <<>> PROVE WaitInv'
  <2>1. TodoOf(Idle) = TodoOf(r)
    BY <1>1, <1>4 DEF TodoOf, Idle
  <2> QED BY <1>2, <1>4, <2>1, SameCallbacks
<1>5. CASE BuildRequest(c)
  <2> DEFINE hit == r.hit /\ (r.rejected \/ ~r.pending)
             told == IF hit THEN [r EXCEPT !.done = @ + 1, !.on_done = OnDoneAfterHit(r)] ELSE r
             s == [told EXCEPT !.pc = "send", !.words = top]
  <2>1. Step(c, s) \/ (Step(c, Idle) /\ r.todo = <<>>)
    BY <1>5 DEF BuildRequest, End, QuotaCall
  <2>2. s.pc = "send" /\ s.left = r.left /\ s.todo = r.todo
    <3> HIDE DEF r
    <3>1. told.left = r.left /\ told.todo = r.todo /\ told = [told EXCEPT !.pc = told.pc]
          /\ DOMAIN told = DOMAIN r
      BY <1>1 DEF CallRecord
    <3>2. "pc" \in DOMAIN told /\ "left" \in DOMAIN told /\ "todo" \in DOMAIN told
      BY <1>1, <3>1 DEF CallRecord
    <3> HIDE DEF told
    <3> QED BY <3>1, <3>2
  <2> HIDE DEF s
  <2> QED BY <1>3, <1>4, <2>1, <2>2 DEF Pcs
<1>6. CASE Send(c)
  <2> DEFINE s == [r EXCEPT !.pc = "remote", !.words = 0]
  <2>1. Step(c, s)
    BY <1>6 DEF Send
  <2>2. s.pc = "remote" /\ s.left = r.left /\ s.todo = r.todo
    <3> HIDE DEF r
    <3> QED BY <1>1 DEF CallRecord
  <2> HIDE DEF s
  <2> QED BY <1>3, <2>1, <2>2 DEF Pcs
<1>7. ASSUME NEW v, NEW b, OnAnswer(c, v, b) PROVE WaitInv'
  <2> DEFINE s == [r EXCEPT !.pc = "answer", !.check = v]
  <2>1. Step(c, s)
    BY <1>7 DEF OnAnswer
  <2>2. s.pc = "answer" /\ s.left = r.left /\ s.todo = r.todo
    <3> HIDE DEF r
    <3> QED BY <1>1 DEF CallRecord
  <2> HIDE DEF s
  <2> QED BY <1>3, <2>1, <2>2 DEF Pcs
<1>8. CASE OnFailure(c)
  <2> DEFINE v == IF fail_open THEN "OK" ELSE "NETWORK"
             s == [r EXCEPT !.pc = "answer", !.failed = TRUE, !.check = v]
  <2>1. Step(c, s)
    BY <1>8 DEF OnFailure
  <2>2. s.pc = "answer" /\ s.left = r.left /\ s.todo = r.todo
    <3> HIDE DEF r, v
    <3> QED BY <1>1 DEF CallRecord
  <2> HIDE DEF s
  <2> QED BY <1>3, <2>1, <2>2 DEF Pcs
<1>9. ASSUME NEW b, Finish(c, b) PROVE WaitInv'
  BY <1>4, <1>9 DEF Finish, End
<1> QED BY <1>5, <1>6, <1>7, <1>8, <1>9

\* At first there are no callbacks, and no object is live.
LEMMA InitWaits == Init => WaitInv
<1> SUFFICES ASSUME Init PROVE WaitInv
  OBVIOUS
<1>1. /\ cache = [table |-> <<>>, order |-> <<>>, defer |-> <<>>]
      /\ pending_item = [n \in QuotaNames |-> NoElem] /\ \A c \in Calls : call[c] = Idle
  BY DEF Init, QuotaInit
<1>2. DOMAIN cache.table = {}
  BY <1>1
<1>3. Live(cache, pending_item) = {}
  BY <1>1, <1>2 DEF Live
<1> QED BY <1>1, <1>3 DEF WaitInv, Matched

\* Every step keeps the objects waiting for the answers that will come.
LEMMA NextWaits == Inv /\ QuotaInv /\ WaitInv /\ [Next]_vars => WaitInv'
<1> SUFFICES ASSUME Inv, QuotaInv, WaitInv, [Next]_vars PROVE WaitInv'
  OBVIOUS
<1>1. ASSUME call' = call, Live(cache', pending_item') \subseteq Live(cache, pending_item),
             \A x \in Live(cache', pending_item') : elem'[x] = elem[x]
      PROVE  WaitInv'
  <2>1. Todos(call)' = Todos(call)
    BY <1>1 DEF Todos, TodoOf
  <2>2. Live(cache, pending_item)' = Live(cache', pending_item')
    BY DEF Live
  <2>3. \A x \in Live(cache', pending_item') : elem'[x].inflight = Cardinality(Waiting(Todos(call), x))
    BY <1>1 DEF WaitInv, Matched
  <2>4. \A x \in Live(cache, pending_item)' : elem'[x].inflight = Cardinality(Waiting(Todos(call)', x))
    BY <2>1, <2>2, <2>3
  <2>5. Matched(Todos(call), elem, Live(cache, pending_item))'
    BY <2>4 DEF Matched, Waiting
  <2> QED BY <1>1, <2>5 DEF WaitInv, CallbacksOK
<1>2. CASE UNCHANGED vars
  BY <1>1, <1>2 DEF vars, quotaVars
<1>3. ASSUME NEW a \in Requests, Forget(a) PROVE WaitInv'
  BY <1>1, <1>3 DEF Forget, quotaVars
<1>4. CASE Destroy
  <2>1. call' = call /\ Live(cache', pending_item') = {}
    BY <1>4, FlushAllQuota DEF Destroy
  <2> QED BY <1>1, <2>1
<1>5. ASSUME NEW c \in Calls, NEW a \in Requests, NEW l \in QuotaLists, Check(c, a, l)
      PROVE  WaitInv'
  BY <1>5, CheckWaits
<1>6. ASSUME NEW c \in Calls, Proceed(c) PROVE WaitInv'
  BY <1>6, CheckQuotaWaits, SentWaits, OnQuotaWaits, DeliverWaits DEF Proceed
<1> QED BY <1>2, <1>3, <1>4, <1>5, <1>6 DEF Next

\* A prefetch object waits for as many answers as the calls under way will bring it,
\* so no pool is closed for good by an answer that was lost (quota_prefetch.cc:162).
THEOREM AnswersMatch == Spec => []InflightMatches
<1>1. Inv /\ QuotaInv /\ WaitInv /\ [Next]_vars => WaitInv'
  BY NextWaits
<1>2. Inv /\ WaitInv => InflightMatches
  <2> SUFFICES ASSUME Inv, WaitInv, NEW e \in Live(cache, pending_item)
               PROVE  elem[e].inflight = Cardinality({x \in Running \X (1..Cardinality(QuotaNames)) :
                        x[2] \in DOMAIN call[x[1]].todo /\ call[x[1]].todo[x[2]].elem = e})
    BY DEF InflightMatches
  <2> DEFINE t == Todos(call)
             T == {x \in Running \X (1..MaxQuotas) :
                     x[2] \in DOMAIN call[x[1]].todo /\ call[x[1]].todo[x[2]].elem = e}
  <2>1. \A c \in Calls : /\ c \in Running => t[c] = call[c].todo
                         /\ c \notin Running => DOMAIN t[c] = {}
    BY DEF Todos, TodoOf, Running
  <2>2. Running \subseteq Calls
    BY DEF Running
  <2> HIDE DEF t
  <2>3. \A x \in Calls \X (1..MaxQuotas) : x \in T <=> x \in Waiting(t, e)
    BY <2>1, <2>2 DEF Waiting
  <2>4. T \subseteq Calls \X (1..MaxQuotas) /\ Waiting(t, e) \subseteq Calls \X (1..MaxQuotas)
    BY <2>2 DEF Waiting
  <2>5. T = Waiting(t, e)
    <3> HIDE DEF T
    <3> QED BY <2>3, <2>4
  <2>6. elem[e].inflight = Cardinality(Waiting(t, e))
    BY DEF WaitInv, Matched, t
  <2> QED BY <2>5, <2>6 DEF MaxQuotas
<1> QED BY <1>1, <1>2, InitWaits, ClientInv, QuotaCacheInv, PTL DEF Spec
=============================================================================
