-------------------------- MODULE CheckCacheProofs --------------------------
(***************************************************************************)
(* A cached verdict is used within its lease and can be found, for every   *)
(* number of threads, every set of requests and every server; and it is    *)
(* the server's verdict for the request if the absence keys the server     *)
(* reports depend on the exact ones only.                                  *)
(***************************************************************************)
EXTENDS CheckCache, DataTheorems

\* What the server's answer to a request refers to.
Asked(a) == Fill(a, Policy(a).matches)

\* The kinds of the values a thread works on.
ThreadOK(refs, th) ==
  \/ th = Idle
  \/ \E a \in Requests : th = [pc |-> "remote", a |-> a]
  \/ \E a \in Requests : \E t \in Nat, todo \in SUBSET Matching(refs, a) :
       th = [pc |-> "walk", a |-> a, t |-> t, todo |-> todo]

\* Of an entry that can be used a limited number of times, what was used and what
\* is left add up.
LeaseOK(e) ==
  /\ e.expire_time \in Nat /\ e.expire_time = e.lease.until
  /\ e.use_count \in Int /\ e.lease.uses \in Int /\ e.uses \in Int
  /\ IF e.lease.uses < 0 THEN e.use_count < 0
     ELSE e.use_count >= 0 /\ e.uses + e.use_count = e.lease.uses

\* An entry keeps the verdict on some request, under what was referenced for it.
EntryOf(s, e, a) ==
  /\ ~FillFails(Policy(a).matches) /\ Matches(Asked(a), a)
  /\ s = Signature(Asked(a), a)
  /\ Hash(Asked(a)) \in DOMAIN referenced
  /\ e.status = ConvertRpcStatus(Policy(a).status)

EntryShape ==
  [status : {ConvertRpcStatus(Policy(a).status) : a \in Requests}, expire_time : Nat,
   use_count : Int, uses : Int, lease : [until : Nat, uses : Int]]

ReferencedOK ==
  \A h \in DOMAIN referenced : \E a \in Requests : h = Hash(Asked(a)) /\ referenced[h] = Asked(a)

CacheOK ==
  /\ cache \in [DOMAIN cache -> EntryShape]
  /\ \A s \in DOMAIN cache : LeaseOK(cache[s]) /\ \E a \in Requests : EntryOf(s, cache[s], a)

OrderOK ==
  /\ order \in Seq(DOMAIN cache) /\ IsInjective(order)
  /\ ToSet(order) = DOMAIN cache /\ Len(order) <= options.num_entries

\* A hit was a lookup, within the lease, under something referenced that the
\* request matches.
HitOK ==
  last.pc = "hit" =>
    /\ last.a \in Requests /\ last.sig \in DOMAIN cache
    /\ last.status = cache[last.sig].status
    /\ last.t <= cache[last.sig].lease.until
    /\ \E h \in DOMAIN referenced :
         Matches(referenced[h], last.a) /\ Signature(referenced[h], last.a) = last.sig

Inv ==
  /\ options.num_entries \in Nat /\ now \in Nat
  /\ thread = [p \in Threads |-> thread[p]] /\ \A p \in Threads : ThreadOK(referenced, thread[p])
  /\ ReferencedOK /\ CacheOK /\ OrderOK /\ HitOK

-----------------------------------------------------------------------------
(* Threads *)

\* A thread under way has a request, and a walk only what matches it.
LEMMA ThreadWalks ==
  ASSUME Inv, NEW p \in Threads
  PROVE  /\ ThreadOK(referenced, thread[p])
         /\ thread[p].pc = "remote" => thread[p].a \in Requests
         /\ thread[p].pc = "walk" => /\ thread[p].a \in Requests /\ thread[p].t \in Nat
                                     /\ thread[p].todo \subseteq Matching(referenced, thread[p].a)
<1>1. ThreadOK(referenced, thread[p])
  BY DEF Inv
<1>2. Idle.pc # "remote" /\ Idle.pc # "walk"
  BY DEF Idle
<1>3. CASE thread[p] = Idle
  BY <1>1, <1>2, <1>3
<1>4. ASSUME NEW a \in Requests, thread[p] = [pc |-> "remote", a |-> a]
      PROVE  thread[p].pc = "remote" /\ thread[p].a = a
  BY <1>4
<1>5. ASSUME NEW a \in Requests, NEW t \in Nat, NEW todo \in SUBSET Matching(referenced, a),
             thread[p] = [pc |-> "walk", a |-> a, t |-> t, todo |-> todo]
      PROVE  /\ thread[p].pc = "walk" /\ thread[p].a = a /\ thread[p].t = t
             /\ thread[p].todo = todo
  BY <1>5
<1>6. \/ thread[p] = Idle
      \/ \E a \in Requests : thread[p] = [pc |-> "remote", a |-> a]
      \/ \E a \in Requests : \E t \in Nat, todo \in SUBSET Matching(referenced, a) :
           thread[p] = [pc |-> "walk", a |-> a, t |-> t, todo |-> todo]
  BY <1>1 DEF ThreadOK
<1> QED BY <1>1, <1>3, <1>4, <1>5, <1>6

\* Threads stay what they are when more is referenced.
LEMMA ThreadsKept ==
  ASSUME NEW refs, NEW more, DOMAIN refs \subseteq DOMAIN more,
         \A h \in DOMAIN refs : more[h] = refs[h],
         NEW th, ThreadOK(refs, th)
  PROVE  ThreadOK(more, th)
<1>1. \A a : SUBSET Matching(refs, a) \subseteq SUBSET Matching(more, a)
  BY DEF Matching
<1> QED BY <1>1 DEF ThreadOK

\* A thread that ends its call, or goes on in a legal way, leaves the others alone.
LEMMA ThreadStep ==
  ASSUME Inv, NEW p \in Threads, NEW th, ThreadOK(referenced, th), referenced' = referenced,
         thread' = [thread EXCEPT ![p] = th]
  PROVE  thread' = [q \in Threads |-> thread'[q]] /\ \A q \in Threads : ThreadOK(referenced, thread[q])'
<1>1. \A q \in Threads : thread'[q] = IF q = p THEN th ELSE thread[q]
  BY DEF Inv
<1>2. thread' = [q \in Threads |-> thread'[q]]
  BY DEF Inv
<1>3. ASSUME NEW q \in Threads PROVE ThreadOK(referenced, thread'[q])
  BY <1>1 DEF Inv
<1> QED BY <1>2, <1>3 DEF ThreadOK

\* The end of a call, and asking the server, are legal.
LEMMA ThreadEnds ==
  ASSUME Inv, NEW p \in Threads, thread[p].pc = "walk", referenced' = referenced,
         AskServer(p) \/ \E o : EndCall(p, o)
  PROVE  thread' = [q \in Threads |-> thread'[q]] /\ \A q \in Threads : ThreadOK(referenced, thread[q])'
<1>1. CASE AskServer(p)
  <2>1. ThreadOK(referenced, [pc |-> "remote", a |-> thread[p].a])
    BY ThreadWalks DEF ThreadOK
  <2> QED BY <1>1, <2>1, ThreadStep DEF AskServer
<1>2. ASSUME NEW o, EndCall(p, o) PROVE thread' = [thread EXCEPT ![p] = Idle]
  BY <1>2 DEF EndCall, EndCallSeen, Inv
<1>3. ThreadOK(referenced, Idle)
  BY DEF ThreadOK
<1> QED BY <1>1, <1>2, <1>3, ThreadStep

-----------------------------------------------------------------------------
(* Entries *)

\* An entry that is used within its time stays within its lease.
LEMMA UsedOK ==
  ASSUME NEW e \in EntryShape, LeaseOK(e), NEW t \in Nat, ~IsExpired(e, t), NEW u, u = Used(e)
  PROVE  /\ u \in EntryShape /\ LeaseOK(u) /\ u.status = e.status
         /\ t <= u.lease.until
<1>1. e.use_count # 0 /\ t <= e.lease.until
  BY DEF IsExpired, LeaseOK
<1> DEFINE c == IF e.lease.uses < 0 THEN e ELSE [e EXCEPT !.uses = @ + 1]
<1>2. u = IF e.use_count > 0 THEN [c EXCEPT !.use_count = @ - 1] ELSE c
  BY DEF Used
<1>3. c \in EntryShape /\ c.status = e.status /\ c.use_count = e.use_count /\ c.lease = e.lease
      /\ c.expire_time = e.expire_time
      /\ c.uses = IF e.lease.uses < 0 THEN e.uses ELSE e.uses + 1
  BY DEF EntryShape, LeaseOK
<1> HIDE DEF c
<1>4. u \in EntryShape /\ u.status = c.status /\ u.lease = c.lease /\ u.uses = c.uses
      /\ u.expire_time = c.expire_time
      /\ u.use_count = IF e.use_count > 0 THEN e.use_count - 1 ELSE e.use_count
  BY <1>2, <1>3 DEF EntryShape, LeaseOK
<1>5. LeaseOK(u)
  BY <1>1, <1>3, <1>4 DEF LeaseOK
<1> QED BY <1>1, <1>3, <1>4, <1>5

\* A new entry has its whole lease.
LEMMA NewEntry ==
  ASSUME Inv, NEW a \in Requests, NEW d \in Durations, NEW n \in UseCounts,
         NEW e, e = SetResponse(ConvertRpcStatus(Policy(a).status), d, n)
  PROVE  e \in EntryShape /\ LeaseOK(e) /\ e.status = ConvertRpcStatus(Policy(a).status)
<1>1. now + d \in Nat /\ n \in Int
  BY CheckCacheAssumption DEF Inv
<1> DEFINE st == ConvertRpcStatus(Policy(a).status)
<1>2. st \in {ConvertRpcStatus(Policy(b).status) : b \in Requests}
  OBVIOUS
<1> HIDE DEF st
<1>3. e = [status |-> st, expire_time |-> now + d, use_count |-> n,
           uses |-> 0, lease |-> [until |-> now + d, uses |-> n]]
  BY DEF SetResponse, st
<1> QED BY <1>1, <1>2, <1>3 DEF EntryShape, LeaseOK, st

\* An entry is that of its request as long as what was referenced stays known.
LEMMA EntryKept ==
  ASSUME NEW s, NEW e, NEW a, EntryOf(s, e, a), options' = options,
         DOMAIN referenced \subseteq DOMAIN referenced'
  PROVE  EntryOf(s, e, a)'
BY DEF EntryOf, ConvertRpcStatus

-----------------------------------------------------------------------------
(* Steps keep the invariant *)

\* Where nothing is added or used, the cache stays what it is.
LEMMA Quiet ==
  ASSUME Inv, options' = options, referenced' = referenced, cache' = cache, order' = order
  PROVE  ReferencedOK' /\ CacheOK' /\ OrderOK'
<1>1. ReferencedOK'
  BY DEF Inv, ReferencedOK
<1>2. EntryShape' = EntryShape
  BY DEF EntryShape, ConvertRpcStatus
<1>3. CacheOK'
  BY <1>2, EntryKept DEF Inv, CacheOK, LeaseOK
<1> QED BY <1>1, <1>3 DEF Inv, OrderOK

\* A call begins.
LEMMA BeginCheckInv ==
  ASSUME Inv, NEW p \in Threads, NEW a \in Requests, BeginCheck(p, a)
  PROVE  Inv'
<1> DEFINE th == IF options.num_entries = 0 THEN [pc |-> "remote", a |-> a]
                 ELSE [pc |-> "walk", a |-> a, t |-> now, todo |-> Matching(referenced, a)]
<1>1. /\ thread' = [thread EXCEPT ![p] = th]
      /\ options' = options /\ now' = now /\ last' = Idle
      /\ referenced' = referenced /\ cache' = cache /\ order' = order
  BY DEF BeginCheck
<1>2. ThreadOK(referenced, th)
  BY DEF ThreadOK, Inv
<1> HIDE DEF th
<1>3. last'.pc # "hit"
  BY <1>1 DEF Idle
<1> QED BY <1>1, <1>2, <1>3, ThreadStep, Quiet DEF Inv, HitOK

\* A Referenced leads to nothing.
LEMMA VisitNothing ==
  ASSUME Inv, NEW p \in Threads, NEW h \in DOMAIN referenced, thread[p].pc = "walk",
         thread' = [thread EXCEPT ![p].todo = @ \ {h}],
         options' = options, now' = now, last' = Idle,
         referenced' = referenced, cache' = cache, order' = order
  PROVE  Inv'
<1> DEFINE th == [thread[p] EXCEPT !.todo = @ \ {h}]
<1>1. PICK a \in Requests : \E t \in Nat, todo \in SUBSET Matching(referenced, a) :
        thread[p] = [pc |-> "walk", a |-> a, t |-> t, todo |-> todo]
  <2>1. ThreadOK(referenced, thread[p])
    BY ThreadWalks
  <2>2. \A a : thread[p] # [pc |-> "remote", a |-> a]
    OBVIOUS
  <2>3. thread[p] # Idle
    BY DEF Idle
  <2> QED BY <2>1, <2>2, <2>3 DEF ThreadOK
<1>2. PICK t \in Nat, todo \in SUBSET Matching(referenced, a) :
        thread[p] = [pc |-> "walk", a |-> a, t |-> t, todo |-> todo]
  BY <1>1
<1>3. th = [pc |-> "walk", a |-> a, t |-> t, todo |-> todo \ {h}]
  <2> DEFINE w == [pc |-> "walk", a |-> a, t |-> t, todo |-> todo]
  <2>1. [w EXCEPT !.todo = @ \ {h}] = [pc |-> "walk", a |-> a, t |-> t, todo |-> todo \ {h}]
    OBVIOUS
  <2>2. thread[p] = w
    BY <1>2
  <2> HIDE DEF w
  <2> QED BY <2>1, <2>2
<1>4. todo \ {h} \in SUBSET Matching(referenced, a)
  OBVIOUS
<1>5. ThreadOK(referenced, th)
  BY <1>3, <1>4 DEF ThreadOK
<1>6. thread' = [thread EXCEPT ![p] = th]
  OBVIOUS
<1>7. last'.pc # "hit"
  BY DEF Idle
<1> HIDE DEF th
<1> QED BY <1>5, <1>6, <1>7, ThreadStep, Quiet DEF Inv, HitOK

\* An expired entry is removed.
LEMMA VisitExpired ==
  ASSUME Inv, NEW p \in Threads, thread[p].pc = "walk", NEW sig \in DOMAIN cache,
         cache' = Restrict(cache, DOMAIN cache \ {sig}), order' = Without(sig),
         AskServer(p), last' = Idle,
         options' = options, referenced' = referenced, now' = now
  PROVE  Inv'
<1>1. ReferencedOK'
  BY DEF Inv, ReferencedOK
<1>2. DOMAIN cache' = DOMAIN cache \ {sig} /\ cache' = [s \in DOMAIN cache \ {sig} |-> cache[s]]
  BY DEF Restrict
<1>3. CacheOK'
  <2>1. EntryShape' = EntryShape
    BY DEF EntryShape, ConvertRpcStatus
  <2>2. \A s \in DOMAIN cache' : cache'[s] \in EntryShape /\ LeaseOK(cache'[s])
    BY <1>2 DEF Inv, CacheOK
  <2>3. ASSUME NEW s \in DOMAIN cache' PROVE \E a \in Requests : EntryOf(s, cache[s], a)'
    <3>1. PICK a \in Requests : EntryOf(s, cache[s], a)
      BY <1>2 DEF Inv, CacheOK
    <3>2. EntryOf(s, cache'[s], a)
      BY <1>2, <3>1
    <3> QED BY <3>2 DEF EntryOf, ConvertRpcStatus
  <2>4. cache' \in [DOMAIN cache' -> EntryShape]
    BY <1>2, <2>2
  <2> QED BY <2>1, <2>2, <2>3, <2>4 DEF CacheOK, LeaseOK
<1>4. OrderOK'
  <2>1. /\ order \in Seq(DOMAIN cache) /\ IsInjective(order) /\ ToSet(order) = DOMAIN cache
        /\ Len(order) <= options.num_entries /\ options.num_entries \in Nat
    BY DEF Inv, OrderOK
  <2>2. order' = RemoveFirst(order, sig)
    BY DEF Without
  <2>3. /\ order' \in Seq(DOMAIN cache) /\ IsInjective(order')
        /\ ToSet(order') = ToSet(order) \ {sig} /\ Len(order') = Len(order) - 1
    BY <2>1, <2>2, Without1
  <2>4. order' \in Seq(DOMAIN cache')
    BY <1>2, <2>1, <2>3, SetOfSeq
  <2>5. Len(order') <= options.num_entries
    <3>1. Len(order) \in Nat
      BY <2>1, LenProperties
    <3> QED BY <2>1, <2>3, <3>1
  <2> QED BY <1>2, <2>1, <2>3, <2>4, <2>5 DEF OrderOK
<1>5. last'.pc # "hit"
  BY DEF Idle
<1> QED BY <1>1, <1>3, <1>4, <1>5, ThreadEnds DEF Inv, HitOK

\* An entry is used: it becomes the most recently used one.
LEMMA VisitUsed ==
  ASSUME Inv, NEW p \in Threads, thread[p].pc = "walk", NEW sig \in DOMAIN cache,
         ~IsExpired(cache[sig], thread[p].t),
         cache' = [cache EXCEPT ![sig] = Used(@)], order' = Append(Without(sig), sig),
         options' = options, referenced' = referenced, now' = now
  PROVE  /\ ReferencedOK' /\ CacheOK' /\ OrderOK'
         /\ sig \in DOMAIN cache' /\ cache'[sig].status = cache[sig].status
         /\ thread[p].t <= cache'[sig].lease.until
<1>1. ReferencedOK'
  BY DEF Inv, ReferencedOK
<1>2. /\ cache[sig] \in EntryShape /\ LeaseOK(cache[sig]) /\ thread[p].t \in Nat
      /\ cache \in [DOMAIN cache -> EntryShape]
  BY ThreadWalks DEF Inv, CacheOK
<1> DEFINE u == Used(cache[sig])
<1>3. /\ u \in EntryShape /\ LeaseOK(u) /\ u.status = cache[sig].status
      /\ thread[p].t <= u.lease.until
  BY <1>2, UsedOK
<1> HIDE DEF u
<1>4. DOMAIN cache' = DOMAIN cache /\ cache' = [cache EXCEPT ![sig] = u]
  BY <1>2 DEF u
<1>5. CacheOK'
  <2>1. EntryShape' = EntryShape
    BY DEF EntryShape, ConvertRpcStatus
  <2>2. cache' \in [DOMAIN cache' -> EntryShape]
    BY <1>2, <1>3, <1>4
  <2>3. ASSUME NEW s \in DOMAIN cache' PROVE (LeaseOK(cache[s]) /\ \E a \in Requests : EntryOf(s, cache[s], a))'
    <3>1. PICK a \in Requests : EntryOf(s, cache[s], a)
      BY <1>4 DEF Inv, CacheOK
    <3>2. cache'[s] = IF s = sig THEN u ELSE cache[s]
      BY <1>2, <1>4
    <3>3. LeaseOK(cache'[s]) /\ cache'[s].status = cache[s].status
      BY <1>3, <1>4, <3>2 DEF Inv, CacheOK
    <3>4. EntryOf(s, cache'[s], a)
      BY <3>1, <3>3 DEF EntryOf
    <3>5. EntryOf(s, cache[s], a)'
      BY <3>4 DEF EntryOf, ConvertRpcStatus
    <3> QED BY <3>3, <3>5 DEF LeaseOK
  <2> QED BY <2>1, <2>2, <2>3 DEF CacheOK
<1>6. OrderOK'
  <2>1. /\ order \in Seq(DOMAIN cache) /\ IsInjective(order) /\ ToSet(order) = DOMAIN cache
        /\ Len(order) <= options.num_entries /\ options.num_entries \in Nat
    BY DEF Inv, OrderOK
  <2> DEFINE w == RemoveFirst(order, sig)
  <2>2. w \in Seq(DOMAIN cache) /\ IsInjective(w) /\ ToSet(w) = ToSet(order) \ {sig}
        /\ Len(w) = Len(order) - 1
    BY <2>1, Without1
  <2>3. order' = Append(w, sig) /\ sig \notin ToSet(w)
    BY <2>2 DEF Without
  <2> HIDE DEF w
  <2>4. /\ order' \in Seq(DOMAIN cache) /\ IsInjective(order')
        /\ ToSet(order') = ToSet(w) \cup {sig} /\ Len(order') = Len(w) + 1
    <3>1. w \in Seq(DOMAIN cache) /\ IsInjective(w)
      BY <2>2
    <3> QED BY <2>3, <3>1, Appended
  <2>5. DOMAIN cache = DOMAIN cache'
    BY <1>4
  <2>6. ToSet(order') = DOMAIN cache'
    BY <1>4, <2>1, <2>2, <2>4
  <2>7. Len(order') = Len(order)
    <3>1. Len(order) \in Nat
      BY <2>1, LenProperties
    <3> QED BY <2>2, <2>4, <3>1
  <2> QED BY <2>1, <2>4, <2>5, <2>6, <2>7 DEF OrderOK
<1>7. cache'[sig] = u
  BY <1>2, <1>4
<1> QED BY <1>1, <1>3, <1>4, <1>5, <1>6, <1>7

\* A Referenced leads to an entry or to none.
LEMMA VisitInv ==
  ASSUME Inv, NEW p \in Threads, NEW h \in DOMAIN referenced, VisitReferenced(p, h)
  PROVE  Inv'
<1> DEFINE th == thread[p]
           sig == Signature(referenced[h], th.a)
<1>1. /\ th.pc = "walk" /\ h \in th.todo
      /\ options' = options /\ referenced' = referenced /\ now' = now
  BY DEF VisitReferenced
<1>2. CASE /\ thread' = [thread EXCEPT ![p].todo = @ \ {h}]
           /\ last' = Idle /\ UNCHANGED <<cache, order>>
  BY <1>1, <1>2, VisitNothing
<1>3. CASE /\ sig \in DOMAIN cache /\ IsExpired(cache[sig], th.t)
           /\ cache' = Restrict(cache, DOMAIN cache \ {sig})
           /\ order' = Without(sig)
           /\ AskServer(p) /\ last' = Idle
  BY <1>1, <1>3, VisitExpired
<1>4. CASE /\ sig \in DOMAIN cache /\ ~IsExpired(cache[sig], th.t)
           /\ cache' = [cache EXCEPT ![sig] = Used(@)]
           /\ order' = Append(Without(sig), sig)
           /\ IF cache[sig].status \in {"NOT_FOUND", "UNAVAILABLE"}
              THEN AskServer(p) /\ last' = Idle
              ELSE EndCall(p, Hit(p, sig))
  <2>1. /\ ReferencedOK' /\ CacheOK' /\ OrderOK'
        /\ sig \in DOMAIN cache' /\ cache'[sig].status = cache[sig].status
        /\ th.t <= cache'[sig].lease.until
    BY <1>1, <1>4, VisitUsed
  <2>2. \/ AskServer(p) /\ last' = Idle
        \/ EndCall(p, Hit(p, sig)) /\ last' = Hit(p, sig)
    BY <1>4 DEF EndCall, EndCallSeen
  <2>3. thread' = [q \in Threads |-> thread'[q]] /\ \A q \in Threads : ThreadOK(referenced, thread[q])'
    BY <1>1, <2>2, ThreadEnds
  <2>4. HitOK'
    <3>1. CASE last' = Idle
      BY <3>1 DEF HitOK, Idle
    <3>2. CASE last' = Hit(p, sig)
      <4>1. th.a \in Requests /\ Matches(referenced[h], th.a)
        BY <1>1, ThreadWalks DEF Matching
      <4>2. /\ last'.a = th.a /\ last'.t = th.t /\ last'.sig = sig
            /\ last'.status = cache[sig].status
        BY <3>2 DEF Hit
      <4> QED BY <1>1, <2>1, <4>1, <4>2 DEF HitOK
    <3> QED BY <2>2, <3>1, <3>2
  <2> HIDE DEF sig, th
  <2> QED BY <1>1, <2>1, <2>3, <2>4 DEF Inv
<1> QED BY <1>2, <1>3, <1>4 DEF VisitReferenced

\* Insert makes the signature the most recently used one, and room for it.
LEMMA TouchOK ==
  ASSUME OrderOK, NEW sig, options.num_entries \in Nat \ {0}, NEW o, o = Touch(sig)
  PROVE  /\ o \in Seq(ToSet(o)) /\ IsInjective(o) /\ Len(o) <= options.num_entries
         /\ ToSet(o) \subseteq DOMAIN cache \cup {sig}
<1> DEFINE D == DOMAIN cache \cup {sig}
           w == RemoveFirst(order, sig)
           a == Append(w, sig)
<1>1. /\ order \in Seq(D) /\ IsInjective(order) /\ Len(order) <= options.num_entries
      /\ Len(order) \in Nat /\ ToSet(order) = DOMAIN cache
  <2>1. order \in Seq(DOMAIN cache) /\ DOMAIN cache \subseteq D
    BY DEF OrderOK
  <2>2. order \in Seq(D)
    BY <2>1, SeqMonotonic
  <2>3. Len(order) \in Nat
    BY <2>1, LenProperties
  <2> QED BY <2>2, <2>3 DEF OrderOK
<1>2. /\ w \in Seq(D) /\ IsInjective(w) /\ ToSet(w) = ToSet(order) \ {sig}
      /\ Len(w) = Len(order) - (IF sig \in ToSet(order) THEN 1 ELSE 0)
  <2> HIDE DEF D
  <2> QED BY <1>1, Without1
<1>3. o = IF Len(a) > options.num_entries THEN Tail(a) ELSE a
  BY DEF Touch, Without
<1> HIDE DEF w
<1>4. a \in Seq(D) /\ Len(a) = Len(w) + 1 /\ ToSet(a) = ToSet(w) \cup {sig} /\ IsInjective(a)
  <2>1. sig \in D /\ sig \notin ToSet(w)
    BY <1>2
  <2> HIDE DEF D
  <2> QED BY <1>2, <2>1, Appended
<1> HIDE DEF a
<1>5. ToSet(a) \subseteq D
  BY <1>4, SetOfSeq
<1>6. CASE Len(a) > options.num_entries
  <2>1. a # <<>>
    BY <1>6, EmptySeq
  <2>2. /\ Tail(a) \in Seq(D) /\ Len(Tail(a)) = Len(a) - 1 /\ ToSet(Tail(a)) \subseteq ToSet(a)
        /\ IsInjective(Tail(a))
    <3> HIDE DEF D
    <3> QED BY <1>4, <2>1, Shortened
  <2>3. Tail(a) \in Seq(ToSet(Tail(a)))
    <3> HIDE DEF D
    <3> QED BY <2>2, SetOfSeq
  <2>4. Len(Tail(a)) <= options.num_entries
    BY <1>1, <1>2, <1>4, <2>2
  <2>5. o = Tail(a)
    BY <1>3, <1>6
  <2> QED BY <1>5, <2>2, <2>3, <2>4, <2>5
<1>7. CASE ~(Len(a) > options.num_entries)
  <2>1. a \in Seq(ToSet(a))
    <3> HIDE DEF D
    <3> QED BY <1>4, SetOfSeq
  <2>2. Len(a) <= options.num_entries
    BY <1>1, <1>2, <1>4, <1>7
  <2>3. o = a
    BY <1>3, <1>7
  <2> QED BY <1>4, <1>5, <2>1, <2>2, <2>3
<1> QED BY <1>6, <1>7

\* What is cached of an answer: the verdict on the request, under what the server
\* looked at for it.
LEMMA Caches ==
  ASSUME Inv, NEW a \in Requests, NEW matches,
         FillFails(matches) \/ matches = Policy(a).matches,
         NEW d \in Durations, NEW n \in UseCounts, options' = options,
         CacheResponse(a, matches, ConvertRpcStatus(Policy(a).status), d, n)
  PROVE  /\ ReferencedOK' /\ CacheOK' /\ OrderOK'
         /\ DOMAIN referenced \subseteq DOMAIN referenced'
         /\ \A h \in DOMAIN referenced : referenced'[h] = referenced[h]
<1> DEFINE r == Fill(a, matches)
           sig == Signature(r, a)
           o == Touch(sig)
           e == SetResponse(ConvertRpcStatus(Policy(a).status), d, n)
<1>1. CASE options.num_entries = 0 \/ FillFails(matches) \/ ~Matches(r, a)
  <2>1. UNCHANGED <<referenced, cache, order>>
    BY <1>1 DEF CacheResponse
  <2> QED BY <2>1, Quiet
<1>2. CASE ~(options.num_entries = 0 \/ FillFails(matches) \/ ~Matches(r, a))
  <2>1. /\ referenced' = [h \in DOMAIN referenced \cup {Hash(r)} |->
                            IF h \in DOMAIN referenced THEN referenced[h] ELSE r]
        /\ order' = o
        /\ cache' = [s \in ToSet(o) |-> IF s = sig THEN e ELSE cache[s]]
    BY <1>2 DEF CacheResponse
  <2>2. ~FillFails(matches) /\ matches = Policy(a).matches /\ r = Asked(a) /\ Matches(r, a)
        /\ options.num_entries \in Nat \ {0}
    BY <1>2 DEF Asked, Inv
  <2>3. e \in EntryShape /\ LeaseOK(e) /\ e.status = ConvertRpcStatus(Policy(a).status)
    BY NewEntry
  <2>4. /\ o \in Seq(ToSet(o)) /\ IsInjective(o) /\ Len(o) <= options.num_entries
        /\ ToSet(o) \subseteq DOMAIN cache \cup {sig}
    <3> HIDE DEF sig
    <3> QED BY <2>2, TouchOK DEF Inv
  <2>5. sig = Signature(Asked(a), a)
    BY <2>2
  <2> HIDE DEF r, sig, o, e
  <2>6. ReferencedOK'
    <3> SUFFICES ASSUME NEW h \in DOMAIN referenced'
                 PROVE  \E b \in Requests : h = Hash(Asked(b)) /\ referenced'[h] = Asked(b)
      BY DEF ReferencedOK
    <3>1. CASE h \in DOMAIN referenced
      BY <2>1, <3>1 DEF Inv, ReferencedOK
    <3>2. CASE h \notin DOMAIN referenced
      BY <2>1, <2>2, <3>2
    <3> QED BY <3>1, <3>2
  <2>7. /\ DOMAIN referenced \subseteq DOMAIN referenced' /\ Hash(Asked(a)) \in DOMAIN referenced'
        /\ \A h \in DOMAIN referenced : referenced'[h] = referenced[h]
    BY <2>1, <2>2
  <2>8. CacheOK'
    <3>1. EntryShape' = EntryShape
      BY DEF EntryShape, ConvertRpcStatus
    <3>2. DOMAIN cache' = ToSet(o) /\ \A s \in ToSet(o) : s = sig \/ s \in DOMAIN cache
      BY <2>1, <2>4
    <3>3. \A s \in ToSet(o) : cache'[s] \in EntryShape /\ LeaseOK(cache'[s])
      BY <2>1, <2>3, <3>2 DEF Inv, CacheOK
    <3>4. cache' \in [DOMAIN cache' -> EntryShape]
      BY <2>1, <3>2, <3>3
    <3>5. ASSUME NEW s \in ToSet(o) PROVE \E b \in Requests : EntryOf(s, cache[s], b)'
      <4>1. CASE s = sig
        <5>1. cache'[s] = e
          BY <2>1, <4>1
        <5>2. EntryOf(s, cache[s], a)'
          BY <2>2, <2>3, <2>5, <2>7, <4>1, <5>1 DEF EntryOf, ConvertRpcStatus
        <5> QED BY <5>2
      <4>2. CASE s # sig
        <5>1. s \in DOMAIN cache /\ cache'[s] = cache[s]
          BY <2>1, <3>2, <4>2
        <5>2. PICK b \in Requests : EntryOf(s, cache[s], b)
          BY <5>1 DEF Inv, CacheOK
        <5>3. EntryOf(s, cache[s], b)'
          BY <2>7, <5>1, <5>2 DEF EntryOf, ConvertRpcStatus
        <5> QED BY <5>3
      <4> QED BY <4>1, <4>2
    <3> QED BY <3>1, <3>2, <3>3, <3>4, <3>5 DEF CacheOK, LeaseOK
  <2>9. OrderOK'
    BY <2>1, <2>4 DEF OrderOK
  <2> QED BY <2>6, <2>7, <2>8, <2>9
<1> QED BY <1>1, <1>2

\* The server answers: the threads that walk may come to see the new entry.
LEMMA OnResponseInv ==
  ASSUME Inv, NEW p \in Threads, NEW ok \in BOOLEAN, NEW d \in Durations, NEW n \in UseCounts,
         OnResponse(p, ok, d, n)
  PROVE  Inv'
<1> DEFINE a == thread[p].a
           matches == IF ok THEN Policy(a).matches
                      ELSE {MatchRef(m.name, m.map_key, "REGEX") : m \in Policy(a).matches}
           status == ConvertRpcStatus(Policy(a).status)
<1>1. /\ thread[p].pc = "remote" /\ options' = options /\ now' = now
      /\ CacheResponse(a, matches, status, d, n)
  BY DEF OnResponse
<1>2. PICK S \in SUBSET {q \in Threads : thread[q].pc = "walk"} :
        EndCallSeen(p, Done(status), S)
  BY DEF OnResponse
<1>3. a \in Requests
  BY <1>1, ThreadWalks
<1>4. FillFails(matches) \/ matches = Policy(a).matches
  <2>1. CASE ok
    BY <2>1
  <2>2. CASE ~ok /\ Policy(a).matches = {}
    BY <2>2
  <2>3. CASE ~ok /\ Policy(a).matches # {}
    <3> DEFINE M == Policy(a).matches
    <3>1. PICK m \in M : TRUE
      BY <2>3
    <3>2. matches = {MatchRef(x.name, x.map_key, "REGEX") : x \in M}
      BY <2>3
    <3>3. MatchRef(m.name, m.map_key, "REGEX") \in matches
      BY <3>1, <3>2
    <3>4. MatchRef(m.name, m.map_key, "REGEX").condition = "REGEX"
      BY DEF MatchRef
    <3> HIDE DEF matches
    <3> QED BY <3>3, <3>4 DEF FillFails
  <2> QED BY <2>1, <2>2, <2>3
<1> HIDE DEF matches
<1>5. /\ ReferencedOK' /\ CacheOK' /\ OrderOK'
      /\ DOMAIN referenced \subseteq DOMAIN referenced'
      /\ \A h \in DOMAIN referenced : referenced'[h] = referenced[h]
  BY <1>1, <1>3, <1>4, Caches
<1>6. ASSUME NEW q \in Threads PROVE ThreadOK(referenced', thread'[q])
  <2> DEFINE old == thread[q]
             new == Matching(referenced', old.a) \ DOMAIN referenced
  <2>1. thread'[q] = IF q = p THEN Idle
                     ELSE IF q \in S THEN [old EXCEPT !.todo = @ \cup new] ELSE old
    BY <1>2 DEF EndCallSeen
  <2>2. ThreadOK(referenced, old)
    BY ThreadWalks
  <2>3. ThreadOK(referenced', old)
    <3> HIDE DEF old
    <3> QED BY <1>5, <2>2, ThreadsKept
  <2>4. ASSUME old.pc = "walk" PROVE ThreadOK(referenced', [old EXCEPT !.todo = @ \cup new])
    <3> HIDE DEF old
    <3>1. PICK b \in Requests : \E t \in Nat, todo \in SUBSET Matching(referenced', b) :
            old = [pc |-> "walk", a |-> b, t |-> t, todo |-> todo]
      BY <2>3, <2>4 DEF ThreadOK, Idle
    <3>2. PICK t \in Nat, todo \in SUBSET Matching(referenced', b) :
            old = [pc |-> "walk", a |-> b, t |-> t, todo |-> todo]
      BY <3>1
    <3>3. old.a = b
      BY <3>2
    <3>4. new \subseteq Matching(referenced', b)
      BY <3>3
    <3> HIDE DEF new
    <3>5. [old EXCEPT !.todo = @ \cup new]
            = [pc |-> "walk", a |-> b, t |-> t, todo |-> todo \cup new]
      <4> DEFINE w == [pc |-> "walk", a |-> b, t |-> t, todo |-> todo]
      <4>1. \A v : [w EXCEPT !.todo = v] = [pc |-> "walk", a |-> b, t |-> t, todo |-> v]
        OBVIOUS
      <4>2. old = w /\ old.todo = todo
        BY <3>2
      <4> HIDE DEF w
      <4> QED BY <4>1, <4>2
    <3>6. todo \cup new \in SUBSET Matching(referenced', b)
      BY <3>4
    <3> QED BY <3>5, <3>6 DEF ThreadOK
  <2>5. ThreadOK(referenced', Idle)
    BY DEF ThreadOK
  <2>6. q \in S => old.pc = "walk"
    OBVIOUS
  <2> HIDE DEF old, new
  <2> QED BY <2>1, <2>3, <2>4, <2>5, <2>6
<1>7. thread' = [q \in Threads |-> thread'[q]]
  BY <1>2 DEF EndCallSeen
<1>8. HitOK'
  BY <1>2 DEF EndCallSeen, HitOK, Done
<1> QED BY <1>1, <1>5, <1>6, <1>7, <1>8 DEF Inv

\* What neither looks up nor caches.
LEMMA RestInv ==
  ASSUME Inv,
         \/ \E p \in Threads : EndWalk(p) \/ OnBadResponse(p) \/ OnNetworkFailure(p)
         \/ FlushAll \/ Tick
  PROVE  Inv'
<1>1. ASSUME NEW p \in Threads, EndWalk(p) PROVE Inv'
  <2>1. last'.pc # "hit"
    BY <1>1 DEF EndWalk, Idle
  <2> QED BY <1>1, <2>1, ThreadEnds, Quiet DEF EndWalk, Inv, HitOK
<1>2. ASSUME NEW p \in Threads, OnBadResponse(p) \/ OnNetworkFailure(p) PROVE Inv'
  <2>1. PICK st : /\ EndCall(p, Done(st)) /\ thread[p].pc = "remote"
                  /\ UNCHANGED <<options, referenced, cache, order, now>>
    BY <1>2 DEF OnBadResponse, OnNetworkFailure
  <2>2. HitOK'
    BY <2>1 DEF EndCall, EndCallSeen, HitOK, Done
  <2>3. thread' = [thread EXCEPT ![p] = Idle]
    BY <2>1 DEF EndCall, EndCallSeen, Inv
  <2>4. ThreadOK(referenced, Idle)
    BY DEF ThreadOK
  <2> QED BY <2>1, <2>2, <2>3, <2>4, ThreadStep, Quiet DEF Inv
<1>3. CASE FlushAll
  <2>1. /\ cache' = <<>> /\ order' = <<>> /\ last' = Idle
        /\ options' = options /\ referenced' = referenced /\ now' = now /\ thread' = thread
    BY <1>3 DEF FlushAll
  <2>2. DOMAIN cache' = {} /\ cache' = [s \in {} |-> 0]
    BY <2>1
  <2>3. CacheOK'
    BY <2>2 DEF CacheOK
  <2>4. OrderOK'
    <3>1. order' \in Seq({}) /\ Len(order') = 0 /\ DOMAIN order' = {}
      BY <2>1, EmptySeq
    <3> QED BY <2>1, <2>2, <3>1 DEF OrderOK, IsInjective, ToSet, Inv
  <2>5. ReferencedOK' /\ HitOK'
    BY <2>1 DEF Inv, ReferencedOK, HitOK, Idle
  <2> QED BY <2>1, <2>3, <2>4, <2>5 DEF Inv
<1>4. CASE Tick
  <2>1. last'.pc # "hit" /\ now + 1 \in Nat
    BY <1>4 DEF Tick, Idle, Inv
  <2> QED BY <1>4, <2>1, Quiet DEF Tick, Inv, HitOK
<1> QED BY <1>1, <1>2, <1>3, <1>4

\* Nothing is cached at first.
LEMMA InitInv == Init => Inv
<1> SUFFICES ASSUME Init PROVE Inv
  OBVIOUS
<1>1. options.num_entries \in Nat
  BY CheckCacheAssumption DEF Init
<1>2. DOMAIN cache = {} /\ cache = [s \in {} |-> 0] /\ DOMAIN referenced = {}
  BY DEF Init
<1>3. OrderOK
  <2>1. order \in Seq({}) /\ Len(order) = 0 /\ DOMAIN order = {}
    BY EmptySeq DEF Init
  <2> QED BY <1>1, <1>2, <2>1 DEF OrderOK, IsInjective, ToSet
<1>4. CacheOK /\ ReferencedOK /\ HitOK
  BY <1>2 DEF CacheOK, ReferencedOK, HitOK, Init, Idle
<1> QED BY <1>1, <1>3, <1>4 DEF Init, Inv, ThreadOK

\* Every step keeps the invariant.
LEMMA NextInv == Inv /\ [Next]_vars => Inv'
<1> SUFFICES ASSUME Inv, [Next]_vars PROVE Inv'
  OBVIOUS
<1>1. CASE UNCHANGED vars
  BY <1>1, Quiet DEF vars, Inv, HitOK
<1>2. ASSUME NEW p \in Threads, NEW a \in Requests, BeginCheck(p, a) PROVE Inv'
  BY <1>2, BeginCheckInv
<1>3. ASSUME NEW p \in Threads, NEW h \in DOMAIN referenced, VisitReferenced(p, h) PROVE Inv'
  BY <1>3, VisitInv
<1>4. ASSUME NEW p \in Threads, NEW d \in Durations, NEW n \in UseCounts, NEW ok \in BOOLEAN,
             OnResponse(p, ok, d, n)
      PROVE  Inv'
  BY <1>4, OnResponseInv
<1>5. CASE \/ \E p \in Threads : EndWalk(p) \/ OnBadResponse(p) \/ OnNetworkFailure(p)
           \/ FlushAll \/ Tick
  BY <1>5, RestInv
<1> QED BY <1>1, <1>2, <1>3, <1>4, <1>5 DEF Next

-----------------------------------------------------------------------------
(* Theorems *)

\* Inv holds in every reachable state of the check cache.
THEOREM CacheInv == Spec => []Inv
BY InitInv, NextInv, PTL DEF Spec

\* An answer is used at most valid_use_count times, and only by calls that began
\* before valid_duration was over, whatever the threads do at the same time
\* (IsExpired and SetResponse under cache_mutex_).
THEOREM WithinLease == Spec => []HitWithinLease
<1>1. Inv => HitWithinLease
  <2> SUFFICES ASSUME Inv, last.pc = "hit"
               PROVE  LET e == cache[last.sig]
                      IN last.t <= e.lease.until /\ (e.lease.uses >= 0 => e.uses <= e.lease.uses)
    BY DEF HitWithinLease
  <2> DEFINE e == cache[last.sig]
  <2>1. LeaseOK(e) /\ last.t <= e.lease.until
    BY DEF Inv, HitOK, CacheOK
  <2> HIDE DEF e
  <2>2. e.lease.uses >= 0 => e.uses <= e.lease.uses
    BY <2>1 DEF LeaseOK
  <2> QED BY <2>1, <2>2 DEF e
<1> QED BY <1>1, CacheInv, PTL

\* Different answers of the server have different hashes (Referenced::Hash; the
\* words of two scalars and those of one key of a map have the same one).
HashTellsApart == \A a, b \in Requests : Hash(Asked(a)) = Hash(Asked(b)) => Asked(a) = Asked(b)

\* Where hashes tell the answers apart, for every entry of the cache some Referenced
\* of the map leads a request to it, and eviction keeps the cache within its limit
\* and its order complete (CacheResponse).
THEOREM Reachable ==
  ASSUME HashTellsApart
  PROVE  Spec => []EntriesReachable
<1>1. Inv => EntriesReachable
  <2> SUFFICES ASSUME Inv, NEW s \in DOMAIN cache
               PROVE  \E h \in DOMAIN referenced, a \in Requests :
                        Matches(referenced[h], a) /\ Signature(referenced[h], a) = s
    BY DEF EntriesReachable, Inv, OrderOK
  <2>1. PICK a \in Requests : EntryOf(s, cache[s], a)
    BY DEF Inv, CacheOK
  <2> DEFINE h == Hash(Asked(a))
  <2>2. h \in DOMAIN referenced /\ Matches(Asked(a), a) /\ s = Signature(Asked(a), a)
    BY <2>1 DEF EntryOf
  <2>3. PICK b \in Requests : h = Hash(Asked(b)) /\ referenced[h] = Asked(b)
    BY <2>2 DEF Inv, ReferencedOK
  <2>4. Asked(a) = Asked(b)
    BY <2>3 DEF HashTellsApart
  <2> HIDE DEF h
  <2> QED BY <2>2, <2>3, <2>4
<1> QED BY <1>1, CacheInv, PTL

-----------------------------------------------------------------------------
(* Whose verdict a hit is *)

IsMap(a, n) == n \in DOMAIN a /\ a[n].kind = "map"

\* What the server looks at is a string map in all requests or in none.
SameKinds ==
  \A a, b \in Requests : \A m \in Policy(a).matches : IsMap(a, m.name) <=> IsMap(b, m.name)

\* The absence keys, which do not enter the signature, depend on the exact keys,
\* which do.
AbsenceFollowsExact ==
  \A a, b \in Requests : Asked(a).exact = Asked(b).exact => Asked(a).absence = Asked(b).absence

\* An exact key, seen in a request that matches it.
LEMMA ExactKey ==
  ASSUME SameKinds, NEW a \in Requests, NEW b \in Requests, Matches(Asked(a), b),
         NEW x \in Asked(a).exact
  PROVE  /\ x.name \in DOMAIN b /\ x = [name |-> x.name, map_key |-> x.map_key]
         /\ (IF b[x.name].kind = "map" THEN x.map_key ELSE NoKey) = x.map_key
<1>1. PICK m \in Policy(a).matches :
        x = [name |-> m.name, map_key |-> IF IsMap(a, m.name) THEN m.map_key ELSE NoKey]
  BY DEF Asked, Fill, Keys, IsMap
<1>2. x.name = m.name /\ x.map_key = IF IsMap(a, m.name) THEN m.map_key ELSE NoKey
  BY <1>1
<1>3. IsMap(a, m.name) <=> IsMap(b, m.name)
  BY DEF SameKinds
<1>4. x.name \in DOMAIN b
  BY DEF Matches, ExactPresent
<1>5. x = [name |-> x.name, map_key |-> x.map_key]
  BY <1>1, <1>2
<1> QED BY <1>2, <1>3, <1>4, <1>5 DEF IsMap

\* The keys of a signature are the exact keys it was made from.
LEMMA SignatureKeys ==
  ASSUME SameKinds, NEW a \in Requests, NEW b \in Requests, Matches(Asked(a), b)
  PROVE  {[name |-> z[1], map_key |-> z[2]] : z \in Signature(Asked(a), b)} = Asked(a).exact
<1> DEFINE E == Asked(a).exact
           k(x) == IF b[x.name].kind = "map" THEN x.map_key ELSE NoKey
           g(x) == <<x.name, k(x), b[x.name].entries[k(x)]>>
           p(z) == [name |-> z[1], map_key |-> z[2]]
<1>1. Signature(Asked(a), b) = {g(x) : x \in E}
  BY DEF Signature
<1>2. ASSUME NEW x \in E PROVE p(g(x)) = x
  <2>1. x = [name |-> x.name, map_key |-> x.map_key] /\ k(x) = x.map_key
    BY ExactKey
  <2>2. g(x)[1] = x.name /\ g(x)[2] = k(x)
    OBVIOUS
  <2> HIDE DEF g, k
  <2> QED BY <2>1, <2>2
<1> HIDE DEF g, p, E
<1>3. {p(z) : z \in {g(x) : x \in E}} = E
  BY <1>2
<1> QED BY <1>1, <1>3 DEF p, E

\* A request that matches what was asked of another one, with the same signature,
\* is to the server like that other one.
LEMMA SameSignature ==
  ASSUME SameKinds, NEW a \in Requests, NEW b \in Requests, ~FillFails(Policy(a).matches),
         Matches(Asked(a), a), Matches(Asked(a), b),
         Signature(Asked(a), b) = Signature(Asked(a), a)
  PROVE  Agrees(a, b)
<1> DEFINE has(x, m) == /\ m.name \in DOMAIN x
                        /\ x[m.name].kind = "map" => m.map_key \in DOMAIN x[m.name].entries
           at(x, m) == IF x[m.name].kind = "map" THEN m.map_key ELSE NoKey
           value(x, m) == x[m.name].entries[at(x, m)]
<1>1. ASSUME NEW m \in Policy(a).matches, m.condition = "ABSENCE" PROVE ~has(b, m)
  <2> DEFINE x == [name |-> m.name, map_key |-> IF IsMap(a, m.name) THEN m.map_key ELSE NoKey]
  <2>1. x \in Asked(a).absence
    BY <1>1 DEF Asked, Fill, Keys, IsMap
  <2>2. x.name = m.name /\ x.map_key = IF IsMap(a, m.name) THEN m.map_key ELSE NoKey
    OBVIOUS
  <2> HIDE DEF x
  <2>3. m.name \in DOMAIN b => IsMap(b, m.name) /\ x.map_key \notin DOMAIN b[m.name].entries
    BY <2>1, <2>2 DEF Matches, AbsenceHolds, IsMap
  <2>4. IsMap(a, m.name) <=> IsMap(b, m.name)
    BY DEF SameKinds
  <2> QED BY <2>2, <2>3, <2>4 DEF IsMap
<1>2. ASSUME NEW m \in Policy(a).matches, m.condition # "ABSENCE"
      PROVE  has(b, m) /\ value(b, m) = value(a, m)
  <2> DEFINE x == [name |-> m.name, map_key |-> IF IsMap(a, m.name) THEN m.map_key ELSE NoKey]
  <2>1. x \in Asked(a).exact
    <3>1. m.condition = "EXACT"
      BY <1>2 DEF FillFails
    <3> QED BY <3>1 DEF Asked, Fill, Keys, IsMap
  <2>2. x.name = m.name /\ x.map_key = IF IsMap(a, m.name) THEN m.map_key ELSE NoKey
    OBVIOUS
  <2> HIDE DEF x
  <2>3. IsMap(a, m.name) <=> IsMap(b, m.name)
    BY DEF SameKinds
  <2>4. m.name \in DOMAIN a /\ m.name \in DOMAIN b
    BY <2>1, <2>2, ExactKey
  <2>5. has(b, m)
    BY <2>1, <2>2, <2>3, <2>4 DEF Matches, ExactPresent, IsMap
  <2>6. x.map_key = at(a, m) /\ x.map_key = at(b, m)
    BY <2>2, <2>3, <2>4 DEF IsMap
  <2> DEFINE k(y, c) == IF c[y.name].kind = "map" THEN y.map_key ELSE NoKey
  <2>7. <<x.name, x.map_key, b[x.name].entries[x.map_key]>> \in Signature(Asked(a), b)
    <3>1. k(x, b) = x.map_key
      BY <2>1, ExactKey
    <3>2. <<x.name, k(x, b), b[x.name].entries[k(x, b)]>> \in Signature(Asked(a), b)
      BY <2>1 DEF Signature
    <3> HIDE DEF k
    <3> QED BY <3>1, <3>2
  <2>8. PICK y \in Asked(a).exact :
          <<x.name, x.map_key, b[x.name].entries[x.map_key]>>
            = <<y.name, k(y, a), a[y.name].entries[k(y, a)]>>
    BY <2>7 DEF Signature
  <2>9. k(y, a) = y.map_key
    BY ExactKey
  <2> HIDE DEF k
  <2>10. /\ y.name = x.name /\ y.map_key = x.map_key
         /\ b[x.name].entries[x.map_key] = a[x.name].entries[x.map_key]
    BY <2>8, <2>9
  <2>11. value(b, m) = value(a, m)
    BY <2>2, <2>6, <2>10
  <2> QED BY <2>5, <2>11
<1> QED BY <1>1, <1>2 DEF Agrees

\* If absence keys depend on the exact keys only, a verdict taken from the cache is
\* the one the server would give for these very attributes, whichever answers to
\* other requests were cached (Referenced::Signature, the walk of Check).
THEOREM ServersVerdict ==
  ASSUME SameKinds, AbsenceFollowsExact
  PROVE  Spec => []HitIsServersVerdict
<1>1. Inv => HitIsServersVerdict
  <2> SUFFICES ASSUME Inv, last.pc = "hit"
               PROVE  last.status = ConvertRpcStatus(Policy(last.a).status)
    BY DEF HitIsServersVerdict
  <2> DEFINE b == last.a
             sig == last.sig
  <2>1. /\ b \in Requests /\ sig \in DOMAIN cache /\ last.status = cache[sig].status
        /\ \E h \in DOMAIN referenced :
             Matches(referenced[h], b) /\ Signature(referenced[h], b) = sig
    BY DEF Inv, HitOK
  <2>2. PICK h \in DOMAIN referenced :
          Matches(referenced[h], b) /\ Signature(referenced[h], b) = sig
    BY <2>1
  <2>3. PICK c \in Requests : referenced[h] = Asked(c)
    BY DEF Inv, ReferencedOK
  <2>4. PICK a \in Requests : EntryOf(sig, cache[sig], a)
    BY <2>1 DEF Inv, CacheOK
  <2>5. /\ ~FillFails(Policy(a).matches) /\ Matches(Asked(a), a)
        /\ sig = Signature(Asked(a), a)
        /\ cache[sig].status = ConvertRpcStatus(Policy(a).status)
    BY <2>4 DEF EntryOf
  <2> HIDE DEF b, sig
  <2>6. Asked(c).exact = Asked(a).exact
    <3>1. {[name |-> z[1], map_key |-> z[2]] : z \in Signature(Asked(c), b)} = Asked(c).exact
      BY <2>1, <2>2, <2>3, SignatureKeys
    <3>2. {[name |-> z[1], map_key |-> z[2]] : z \in Signature(Asked(a), a)} = Asked(a).exact
      BY <2>5, SignatureKeys
    <3>3. Signature(Asked(c), b) = Signature(Asked(a), a)
      BY <2>2, <2>3, <2>5
    <3> QED BY <3>1, <3>2, <3>3
  <2>7. Asked(c) = Asked(a)
    <3>1. Asked(c).absence = Asked(a).absence
      BY <2>6 DEF AbsenceFollowsExact
    <3>2. \A x : Asked(x) = [absence |-> Asked(x).absence, exact |-> Asked(x).exact]
      BY DEF Asked, Fill
    <3> QED BY <2>6, <3>1, <3>2
  <2>8. Agrees(a, b)
    BY <2>1, <2>2, <2>3, <2>5, <2>7, SameSignature
  <2>9. Policy(a) = Policy(b)
    BY <2>1, <2>8, PolicyAssumption
  <2> QED BY <2>1, <2>5, <2>9 DEF b
<1> QED BY <1>1, CacheInv, PTL
=============================================================================
