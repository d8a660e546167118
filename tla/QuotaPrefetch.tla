--------------------------- MODULE QuotaPrefetch ---------------------------
(***************************************************************************)
(* prefetch/quota_prefetch.cc: a pool of rate-limit tokens fetched ahead   *)
(* of use.  In OPEN mode, with an empty pool, the tokens asked for are put *)
(* in the pool before the server has granted them (borrowed); a smaller    *)
(* grant takes the difference back and closes the mode.  Check and         *)
(* OnResponse run under mutex_ and are one step each; responses come in    *)
(* any order.                                                              *)
(*                                                                         *)
(* queue_ is the sequence CircularQueue is proved to implement, with its   *)
(* node count: Iterate sees nothing of a queue that is exactly full.       *)
(***************************************************************************)
EXTENDS TimeBasedCounter, SequencesExt

CONSTANTS
  InitQueueSize,     \* kInitQueueSize
  MinPrefetch,       \* options.min_prefetch_amount
  CloseWait,         \* options.close_wait_window
  MaxExpiration,     \* kMaxExpirationInMs
  CheckAmounts,      \* amounts of Check
  Expirations,       \* valid durations the server answers
  Skew,              \* how far a caller's clock reading may be behind
  MaxTime, MaxSlots, MaxPending, MaxWindow   \* bounds: clock, slots ever added,
                     \* requests in flight, count of the predict window

ASSUME QuotaPrefetchAssumption ==
  /\ {InitQueueSize, MaxExpiration} \subseteq Nat \ {0}
  /\ CheckAmounts \subseteq Nat \ {0}
  /\ Expirations \subseteq Nat
  /\ {MinPrefetch, CloseWait, Skew, MaxTime, MaxSlots, MaxPending, MaxWindow} \subseteq Nat

VARIABLES
  now,       \* the clock
  queue,     \* queue_: its slots from head to tail, and nodes_.size()
  counter,   \* counter_
  mode,      \* mode_
  last,      \* last_prefetch_time_
  nextId,    \* next_slot_id_
  pending,   \* transport calls not answered: slot id (0 for none) and amount;
             \* inflight_count_ is its length
  ret,       \* what the last Check returned
  balance    \* history: granted by the server, plus shortfall that could not be
             \* taken back, less used by Checks, less expired

vars == <<now, queue, counter, mode, last, nextId, pending, ret, balance>>

Maximum(a, b) == IF a >= b THEN a ELSE b
Minimum(a, b) == IF a <= b THEN a ELSE b

Init ==
  /\ now = 0
  /\ queue = [slots |-> <<>>, size |-> InitQueueSize]
  /\ counter = NewCounter(0)
  /\ mode = "OPEN" /\ last = 0 /\ nextId = 0
  /\ pending = <<>> /\ ret = TRUE /\ balance = 0

-----------------------------------------------------------------------------
(* The pool *)

\* Tokens of a slot that can be used at time t.
Live(s, t) == IF t < s.expire_time THEN s.available ELSE 0

\* Tokens of the first k slots of ss that can be used at time t.
LiveSum(ss, k, t) == SumFunctionOnSet([i \in DOMAIN ss |-> Live(ss[i], t)], 1..k)
Pool(ss) == SumFunction([i \in DOMAIN ss |-> ss[i].available])

QueueFull(q) == Len(q.slots) = q.size

Push(q, s) ==
  [slots |-> Append(q.slots, s), size |-> IF QueueFull(q) THEN 2 * q.size ELSE q.size]

\* What CircularQueue::Iterate walks.
Visible(q) == IF QueueFull(q) THEN <<>> ELSE q.slots

CountAvailable(q, t) == LiveSum(Visible(q), Len(Visible(q)), t)

\* Mutant: "avail > min".
CheckMinAbove(q, min, t) == CountAvailable(q, t) > min

CheckMinAvailable(q, min, t) == CountAvailable(q, t) >= min

\* Mutant: expired tokens are handed out.
SubstractExpired(ss, delta, t) ==
  LET sum(k) == SumFunctionOnSet([i \in DOMAIN ss |-> ss[i].available], 1..k)
      n == Cardinality({k \in 1..Len(ss) : sum(k - 1) < delta /\ sum(k) <= delta})
      rest == SubSeq(ss, n + 1, Len(ss))
  IN [slots |-> IF rest # <<>> /\ sum(n) < delta
                THEN [rest EXCEPT ![1].available = @ - (delta - sum(n))] ELSE rest,
      left |-> Maximum(0, delta - sum(Len(ss))), expired |-> 0]

\* The loop pops slot k when something is left to take from it on and nothing
\* remains in it; n slots in all.  The next slot gives the rest.
Substract(ss, delta, t) ==
  LET n == Cardinality({k \in 1..Len(ss) : /\ LiveSum(ss, k - 1, t) < delta
                                           /\ LiveSum(ss, k, t) <= delta})
      rest == SubSeq(ss, n + 1, Len(ss))
      short == delta - LiveSum(ss, n, t)
  IN [slots |-> IF rest # <<>> /\ short > 0
                THEN [rest EXCEPT ![1].available = @ - short] ELSE rest,
      left |-> IF rest = <<>> THEN Maximum(0, short) ELSE 0,
      expired |-> Pool(SubSeq(ss, 1, n)) - LiveSum(ss, n, t)]

\* Mutant: the position in the queue used as id.
SlotIdByPosition == Len(queue.slots) + 1

\* The id Add gives to the slot it pushes.
NewSlotId == nextId + 1

-----------------------------------------------------------------------------
(* Check *)

\* AttemptPrefetch returns at once.
MustWait(t) == mode = "CLOSE" /\ (Len(pending) > 0 \/ t - last < CloseWait)

\* Mutant: never borrows.
UseNotGrantedNever(avail) == FALSE

UseNotGranted(avail) == avail = 0 /\ mode = "OPEN"

\* AttemptPrefetch and Prefetch: the counter, and the request if there is one.
AttemptPrefetch(amount, t) ==
  LET avail == CountAvailable(queue, t)
      c == Roll(counter, t)
      desired == Maximum(c.count, MinPrefetch)
      wanted == \/ avail < desired \div 2 /\ pending = <<>>
                \/ avail < amount
  IN IF MustWait(t) THEN [counter |-> counter, req |-> 0, borrow |-> FALSE]
     ELSE [counter |-> c,
           req |-> IF wanted THEN Maximum(amount, desired) ELSE 0,
           borrow |-> wanted /\ UseNotGranted(avail)]

Check(amount, t) ==
  LET p == AttemptPrefetch(amount, t)
      slot == [available |-> p.req, expire_time |-> t + MaxExpiration, id |-> NewSlotId]
      q == IF p.borrow THEN Push(queue, slot) ELSE queue
      sub == Substract(q.slots, amount, t)
      ok == IF amount = 1 THEN sub.left = 0 ELSE CheckMinAvailable(q, amount, t)
      takes == amount = 1 \/ ok
  IN /\ Inc(p.counter, amount, t).count <= MaxWindow
     /\ p.req > 0 => Len(pending) < MaxPending
     /\ p.borrow => nextId < MaxSlots
     /\ pending' = IF p.req = 0 THEN pending
                   ELSE Append(pending, [id |-> IF p.borrow THEN NewSlotId ELSE 0,
                                         req |-> p.req])
     /\ last' = IF p.req = 0 THEN last ELSE t
     /\ nextId' = IF p.borrow THEN NewSlotId ELSE nextId
     /\ counter' = Inc(p.counter, amount, t)
     /\ queue' = IF takes THEN [q EXCEPT !.slots = sub.slots] ELSE q
     /\ ret' = ok
     /\ balance' = balance - (IF takes THEN (amount - sub.left) + sub.expired ELSE 0)
     /\ UNCHANGED <<now, mode>>

-----------------------------------------------------------------------------
(* OnResponse *)

\* The index of FindSlotById's slot, none if it is recycled (or not visible).
FindSlotById(q, id) == {i \in DOMAIN Visible(q) : q.slots[i].id = id}

\* Mutant: the shortfall is not taken from the rest of the pool.
ShortfallOwnSlotOnly(q, own, delta, t) ==
  LET d == IF own = {} THEN 0
           ELSE Minimum(q.slots[CHOOSE i \in own : TRUE].available, delta)
  IN [slots |-> [i \in DOMAIN q.slots |->
                   IF i \in own THEN [q.slots[i] EXCEPT !.available = @ - d] ELSE q.slots[i]],
      left |-> 0, expired |-> 0]

\* Takes delta back: from the request's own slot, then from the pool.
TakeBack(q, own, delta, t) ==
  LET d == IF own = {} THEN 0
           ELSE Minimum(q.slots[CHOOSE i \in own : TRUE].available, delta)
      ss == [i \in DOMAIN q.slots |->
               IF i \in own THEN [q.slots[i] EXCEPT !.available = @ - d] ELSE q.slots[i]]
  IN Substract(ss, delta - d, t)

ModeAfter(req, resp) == IF resp = req THEN "OPEN" ELSE "CLOSE"

\* The i-th pending request is answered; grant = -1 is a network failure.
OnResponse(i, grant, expiration, t) ==
  LET r == pending[i]
      resp == IF grant = -1 THEN r.req ELSE grant
      valid == t + (IF grant = -1 THEN MaxExpiration ELSE expiration)
      own == FindSlotById(queue, r.id)
      back == IF resp < r.req THEN TakeBack(queue, own, r.req - resp, t)
              ELSE [slots |-> queue.slots, left |-> 0, expired |-> 0]
      adjusted == [k \in DOMAIN back.slots |->
                     IF back.slots[k].id = r.id /\ own # {} /\ back.slots[k].available > 0
                     THEN [back.slots[k] EXCEPT !.expire_time = valid] ELSE back.slots[k]]
  IN /\ pending' = RemoveAt(pending, i)
     /\ IF r.id # 0
        THEN /\ queue' = [queue EXCEPT !.slots = adjusted]
             /\ balance' = balance + resp + back.left - back.expired
             /\ UNCHANGED nextId
        ELSE /\ resp > 0 => nextId < MaxSlots
             /\ queue' = IF resp > 0
                         THEN Push(queue, [available |-> resp, expire_time |-> valid,
                                           id |-> NewSlotId])
                         ELSE queue
             /\ nextId' = IF resp > 0 THEN NewSlotId ELSE nextId
             /\ balance' = balance + resp
     /\ mode' = ModeAfter(r.req, resp)
     /\ UNCHANGED <<now, counter, last, ret>>

\* The clock (external).
Tick == now < MaxTime /\ now' = now + 1
        /\ UNCHANGED <<queue, counter, mode, last, nextId, pending, ret, balance>>

\* A caller reads the clock before it gets mutex_: callers may be reordered.
Readings == {t \in now-Skew..now : t >= 0}

Next ==
  \/ Tick
  \/ \E t \in Readings :
       \/ \E amount \in CheckAmounts : Check(amount, t)
       \/ \E i \in DOMAIN pending, e \in Expirations :
            \E grant \in -1..pending[i].req : OnResponse(i, grant, e, t)

Spec == Init /\ [][Next]_vars

-----------------------------------------------------------------------------
(* Properties *)

\* Borrowed tokens of requests still in flight.
Borrowed == SumFunction([i \in DOMAIN pending |-> IF pending[i].id = 0 THEN 0
                                                  ELSE pending[i].req])

\* No token appears or vanishes: the pool holds what was granted or is still
\* borrowed, less what Checks took and what expired, plus only the shortfall
\* that a late answer could not take back because it was already used
\* (Check, Substract and OnResponse, answers in any order); and no slot is
\* overdrawn.
TokensConserved ==
  /\ Pool(queue.slots) = balance + Borrowed
  /\ \A i \in DOMAIN queue.slots : queue.slots[i].available >= 0

\* Slot ids tell slots apart and grow along the queue, so that an answer finds
\* its own slot and never one that was recycled; and no two requests in flight
\* share a slot (Add, FindSlotById).
SlotIdsDistinct ==
  /\ \A i, j \in DOMAIN queue.slots : i < j => queue.slots[i].id < queue.slots[j].id
  /\ \A i, j \in DOMAIN pending :
       i # j /\ pending[i].id # 0 => pending[i].id # pending[j].id

\* prefetch/README.md:12, "All rate limiting decisions are done at local": while
\* the server grants what is asked (OPEN) a Check for one token passes, borrowing
\* if it has to, whatever has expired and however the clock readings are ordered.
OpenNeverRejectsOne ==
  [][\A t \in Readings : mode = "OPEN" /\ Check(1, t) => ret']_vars

\* A granted Check takes exactly its amount of unexpired tokens, a rejected one
\* none, apart from tokens the same call borrowed (Check, Substract).
TakesExactly ==
  [][\A t \in Readings, amount \in CheckAmounts : Check(amount, t) =>
       LET all(q) == LiveSum(q.slots, Len(q.slots), t)
           borrowed == IF nextId' = nextId THEN 0 ELSE Last(pending').req
       IN all(queue') = all(queue) + borrowed - (IF ret' THEN amount ELSE 0)]_vars

\* A Check is rejected only when the pool has too few unexpired tokens, or when
\* the ring is exactly full and Iterate hides them (CheckMinAvailable).
RejectsOnlyWhenShortOrFull ==
  [][\A t \in Readings, amount \in CheckAmounts : Check(amount, t) /\ ~ret' =>
       \/ LiveSum(queue.slots, Len(queue.slots), t) < amount
       \/ QueueFull(queue)]_vars
=============================================================================
