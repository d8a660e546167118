------------------------ MODULE QuotaPrefetchProofs ------------------------
(***************************************************************************)
(* Proofs about QuotaPrefetch, for every window, amount and bound.         *)
(*                                                                         *)
(* The invariant is the conservation itself, with the shapes of the data   *)
(* and the order of the ids: an answer takes tokens back from its own      *)
(* slot, and only as the ids tell the slots apart is that one slot.  The   *)
(* rest is what Substract does to the sums (SubstractTakes): how many      *)
(* slots its loop pops, and what it takes from the next.                   *)
(***************************************************************************)
EXTENDS QuotaPrefetch, DataTheorems

Slot == [available : Nat, expire_time : Int, id : Nat]
QueueType == [slots : Seq(Slot), size : Nat \ {0}]
CounterType == [slots : [0..WindowSize-1 -> Int], count : Int,
                tail : 0..WindowSize-1, last : Int]
Request == [id : Nat, req : Nat \ {0}]

\* The numbers the other conjuncts compute with; no slot is overdrawn.
Shapes ==
  /\ now \in Nat /\ last \in Int /\ nextId \in Nat /\ balance \in Int
  /\ queue \in QueueType /\ counter \in CounterType
  /\ pending \in Seq(Request)

-----------------------------------------------------------------------------
(* Sums over the slots *)

Tokens(ss) == [i \in 1..Len(ss) |-> ss[i].available]
LiveTokens(ss, t) == [i \in 1..Len(ss) |-> Live(ss[i], t)]

\* All the unexpired tokens of ss.
LiveAll(ss, t) == LiveSum(ss, Len(ss), t)

\* What a slot holds and what of it can be used (Available) are natural numbers.
LEMMA SlotTokens ==
  ASSUME NEW ss \in Seq(Slot), NEW t \in Int
  PROVE  /\ Len(ss) \in Nat /\ DOMAIN ss = 1..Len(ss)
         /\ \A i \in 1..Len(ss) : ss[i] \in Slot /\ ss[i].available \in Nat
         /\ \A i \in 1..Len(ss) : Tokens(ss)[i] = ss[i].available /\ Tokens(ss)[i] \in Nat
         /\ \A i \in 1..Len(ss) : /\ LiveTokens(ss, t)[i] = Live(ss[i], t)
                                  /\ LiveTokens(ss, t)[i] \in Nat
<1>1. Len(ss) \in Nat /\ DOMAIN ss = 1..Len(ss) /\ \A i \in 1..Len(ss) : ss[i] \in Slot
  OBVIOUS
<1>2. \A i \in 1..Len(ss) : ss[i].available \in Nat
  BY <1>1 DEF Slot
<1>3. \A i \in 1..Len(ss) : Live(ss[i], t) \in Nat
  BY <1>2 DEF Live
<1> QED BY <1>1, <1>2, <1>3 DEF Tokens, LiveTokens

\* The tokens of a queue are a sum over its indices.
LEMMA PoolSum ==
  ASSUME NEW ss \in Seq(Slot)
  PROVE  /\ Pool(ss) = SumFunctionOnSet(Tokens(ss), 1..Len(ss))
         /\ Pool(ss) \in Nat
<1>1. DOMAIN ss = 1..Len(ss)
  OBVIOUS
<1>2. Pool(ss) = SumFunctionOnSet(Tokens(ss), 1..Len(ss))
  BY <1>1 DEF Pool, SumFunction, Tokens
<1>3. IsFiniteSet(1..Len(ss))
  BY SlotTokens, FS_Interval
<1>4. \A i \in 1..Len(ss) : Tokens(ss)[i] \in Nat
  BY SlotTokens
<1>5. SumFunctionOnSet(Tokens(ss), 1..Len(ss)) \in Nat
  BY <1>3, <1>4, SumNat
<1> QED BY <1>2, <1>5

\* The unexpired tokens of the first k slots: nothing for no slot, and each slot
\* adds its own.
LEMMA LiveSumSteps ==
  ASSUME NEW ss \in Seq(Slot), NEW t \in Int
  PROVE  /\ \A k \in 0..Len(ss) : /\ LiveSum(ss, k, t) = SumFunctionOnSet(LiveTokens(ss, t), 1..k)
                                  /\ LiveSum(ss, k, t) \in Nat
         /\ LiveSum(ss, 0, t) = 0
         /\ \A k \in 0..Len(ss) - 1 : LiveSum(ss, k + 1, t) = LiveSum(ss, k, t) + Live(ss[k + 1], t)
         /\ \A j, k \in 0..Len(ss) : j <= k => LiveSum(ss, j, t) <= LiveSum(ss, k, t)
<1> DEFINE f == LiveTokens(ss, t)
<1>1. Len(ss) \in Nat /\ DOMAIN ss = 1..Len(ss) /\ \A i \in 1..Len(ss) : f[i] = Live(ss[i], t) /\ f[i] \in Nat
  BY SlotTokens
<1>2. \A k : LiveSum(ss, k, t) = SumFunctionOnSet(f, 1..k)
  BY <1>1 DEF LiveSum, LiveTokens
<1>3. \A k \in 0..Len(ss) : IsFiniteSet(1..k) /\ \A i \in 1..k : f[i] \in Nat
  <2> SUFFICES ASSUME NEW k \in 0..Len(ss) PROVE IsFiniteSet(1..k) /\ \A i \in 1..k : f[i] \in Nat
    OBVIOUS
  <2>1. IsFiniteSet(1..k)
    BY <1>1, FS_Interval
  <2>2. 1..k \subseteq 1..Len(ss)
    BY <1>1
  <2> HIDE DEF f
  <2> QED BY <1>1, <2>1, <2>2
<1> HIDE DEF f
<1>4. \A k \in 0..Len(ss) : SumFunctionOnSet(f, 1..k) \in Nat
  BY <1>3, SumNat
<1>5. LiveSum(ss, 0, t) = 0
  <2>1. 1..0 = {}
    OBVIOUS
  <2> QED BY <1>2, <2>1, SumEmpty
<1>6. ASSUME NEW k \in 0..Len(ss) - 1
      PROVE  LiveSum(ss, k + 1, t) = LiveSum(ss, k, t) + Live(ss[k + 1], t)
  <2>1. k \in Nat /\ k + 1 \in 1..Len(ss) /\ k + 1 \in 0..Len(ss)
    BY <1>1
  <2>2. \A i \in 1..k + 1 : f[i] \in Int
    BY <1>3, <2>1
  <2>3. SumFunctionOnSet(f, 1..k + 1) = SumFunctionOnSet(f, 1..k) + f[k + 1]
    BY <2>1, <2>2, SumNext
  <2> QED BY <1>1, <1>2, <2>1, <2>3
<1>7. ASSUME NEW j \in 0..Len(ss), NEW k \in 0..Len(ss), j <= k
      PROVE  LiveSum(ss, j, t) <= LiveSum(ss, k, t)
  <2>1. 1..j \in SUBSET (1..k)
    BY <1>7
  <2> QED BY <1>2, <1>3, <2>1, SumMonotone
<1> QED BY <1>2, <1>4, <1>5, <1>6, <1>7 DEF f

\* The unexpired tokens of a queue are a sum over its indices.
LEMMA LiveAllSum ==
  ASSUME NEW ss \in Seq(Slot), NEW t \in Int
  PROVE  /\ LiveAll(ss, t) = SumFunctionOnSet(LiveTokens(ss, t), 1..Len(ss))
         /\ LiveAll(ss, t) \in Nat
<1>1. Len(ss) \in 0..Len(ss)
  BY SlotTokens
<1> QED BY <1>1, LiveSumSteps DEF LiveAll

\* The slots left when the first n are popped, and the tokens on both sides.
LEMMA SuffixSums ==
  ASSUME NEW ss \in Seq(Slot), NEW t \in Int, NEW n \in 0..Len(ss),
         NEW rest, rest = SubSeq(ss, n + 1, Len(ss))
  PROVE  /\ rest \in Seq(Slot) /\ Len(rest) = Len(ss) - n
         /\ \A i \in 1..Len(rest) : rest[i] = ss[n + i]
         /\ Pool(SubSeq(ss, 1, n)) \in Nat
         /\ Pool(ss) = Pool(SubSeq(ss, 1, n)) + Pool(rest)
         /\ LiveAll(ss, t) = LiveSum(ss, n, t) + LiveAll(rest, t)
<1> DEFINE front == SubSeq(ss, 1, n)
           m == Len(ss) - n
<1>1. Len(ss) \in Nat /\ n \in Nat /\ m \in Nat /\ n + m = Len(ss)
  OBVIOUS
<1>2. rest \in Seq(Slot) /\ Len(rest) = m /\ \A i \in 1..m : rest[i] = ss[n + i]
  OBVIOUS
<1>3. front \in Seq(Slot) /\ Len(front) = n /\ \A i \in 1..n : front[i] = ss[i]
  OBVIOUS
<1> HIDE DEF front, m
<1>4. Pool(ss) = Pool(front) + Pool(rest) /\ Pool(front) \in Nat
  <2>1. \A i \in 1..n + m : Tokens(ss)[i] \in Int
    BY <1>1, SlotTokens
  <2>2. \A i \in 1..m : Tokens(rest)[i] = Tokens(ss)[n + i]
    <3>1. \A i \in 1..m : n + i \in 1..Len(ss)
      BY <1>1
    <3> QED BY <1>2, <3>1 DEF Tokens
  <2>3. SumFunctionOnSet(Tokens(ss), 1..n + m)
          = SumFunctionOnSet(Tokens(ss), 1..n) + SumFunctionOnSet(Tokens(rest), 1..m)
    BY <1>1, <2>1, <2>2, SumSplit
  <2>4. SumFunctionOnSet(Tokens(ss), 1..n) = SumFunctionOnSet(Tokens(front), 1..n)
    <3>1. IsFiniteSet(1..n)
      BY <1>1, FS_Interval
    <3>2. \A i \in 1..n : Tokens(ss)[i] \in Int /\ Tokens(front)[i] = Tokens(ss)[i]
      <4>1. \A i \in 1..n : i \in 1..Len(ss) /\ Tokens(front)[i] = Tokens(ss)[i]
        BY <1>1, <1>3 DEF Tokens
      <4>2. \A i \in 1..Len(ss) : Tokens(ss)[i] \in Int
        BY SlotTokens
      <4> QED BY <4>1, <4>2
    <3> QED BY <3>1, <3>2, SumSame
  <2> QED BY <1>1, <1>2, <1>3, <2>3, <2>4, PoolSum
<1>5. LiveAll(ss, t) = LiveSum(ss, n, t) + LiveAll(rest, t)
  <2>1. \A i \in 1..n + m : LiveTokens(ss, t)[i] \in Int
    BY <1>1, SlotTokens
  <2>2. \A i \in 1..m : LiveTokens(rest, t)[i] = LiveTokens(ss, t)[n + i]
    <3>1. \A i \in 1..m : n + i \in 1..Len(ss)
      BY <1>1
    <3> QED BY <1>2, <3>1 DEF LiveTokens
  <2>3. SumFunctionOnSet(LiveTokens(ss, t), 1..n + m)
          = SumFunctionOnSet(LiveTokens(ss, t), 1..n) + SumFunctionOnSet(LiveTokens(rest, t), 1..m)
    BY <1>1, <2>1, <2>2, SumSplit
  <2>4. LiveAll(ss, t) = SumFunctionOnSet(LiveTokens(ss, t), 1..Len(ss))
    BY LiveAllSum
  <2>5. LiveSum(ss, n, t) = SumFunctionOnSet(LiveTokens(ss, t), 1..n)
    BY LiveSumSteps
  <2>6. LiveAll(rest, t) = SumFunctionOnSet(LiveTokens(rest, t), 1..m)
    BY <1>2, LiveAllSum
  <2> QED BY <1>1, <2>3, <2>4, <2>5, <2>6
<1> QED BY <1>2, <1>4, <1>5 DEF front, m

\* A copy of ss in which slot e has a tokens less.
TakenFrom(out, ss, e, a) ==
  /\ Len(out) = Len(ss)
  /\ \A i \in 1..Len(ss) : out[i].id = ss[i].id /\ out[i].expire_time = ss[i].expire_time
  /\ \A i \in 1..Len(ss) : out[i].available = IF i = e THEN ss[i].available - a ELSE ss[i].available

\* A slot with less in it is a slot.
LEMMA LessInSlot ==
  ASSUME NEW s \in Slot, NEW a \in Nat, a <= s.available,
         NEW o, o = [s EXCEPT !.available = @ - a]
  PROVE  /\ o \in Slot /\ o.id = s.id /\ o.expire_time = s.expire_time
         /\ o.available = s.available - a
BY DEF Slot

\* Writing the smaller amount into the slot makes such a copy.
LEMMA TakeFromSlot ==
  ASSUME NEW ss \in Seq(Slot), NEW e \in 1..Len(ss), NEW a \in Nat, a <= ss[e].available,
         NEW out, DOMAIN out = 1..Len(ss), out = [i \in DOMAIN out |-> out[i]],
         out[e] = [ss[e] EXCEPT !.available = @ - a],
         \A i \in 1..Len(ss) : i # e => out[i] = ss[i]
  PROVE  out \in Seq(Slot) /\ TakenFrom(out, ss, e, a)
<1>1. Len(ss) \in Nat /\ \A i \in 1..Len(ss) : ss[i] \in Slot
  OBVIOUS
<1>2. /\ out[e] \in Slot /\ out[e].id = ss[e].id /\ out[e].expire_time = ss[e].expire_time
      /\ out[e].available = ss[e].available - a
  BY <1>1, LessInSlot
<1>3. \A i \in 1..Len(ss) : out[i] \in Slot
  BY <1>1, <1>2
<1>4. out \in [1..Len(ss) -> Slot]
  BY <1>3
<1>5. out \in Seq(Slot) /\ Len(out) = Len(ss)
  BY <1>1, <1>4
<1> QED BY <1>2, <1>5 DEF TakenFrom

\* Taking a tokens out of one slot takes a tokens out of the pool, and out of the
\* usable tokens if the slot has not expired.
LEMMA TakeFromOne ==
  ASSUME NEW ss \in Seq(Slot), NEW t \in Int, NEW e \in 1..Len(ss), NEW a \in Int,
         NEW out \in Seq(Slot), TakenFrom(out, ss, e, a)
  PROVE  /\ Pool(out) = Pool(ss) - a
         /\ t < ss[e].expire_time => LiveAll(out, t) = LiveAll(ss, t) - a
<1>1. Len(ss) \in Nat /\ \A i \in 1..Len(ss) : ss[i] \in Slot
  BY SlotTokens
<1>3. Len(out) = Len(ss)
  BY DEF TakenFrom
<1>4. /\ out[e].available = ss[e].available - a
      /\ \A i \in 1..Len(ss) : out[i].expire_time = ss[i].expire_time
      /\ \A i \in 1..Len(ss) : i # e => out[i].available = ss[i].available
  BY DEF TakenFrom
<1>5. IsFiniteSet(1..Len(ss))
  BY <1>1, FS_Interval
<1>6. Pool(out) = Pool(ss) - a
  <2> DEFINE f == Tokens(ss)
             g == Tokens(out)
  <2>1. f[e] \in Int /\ g[e] \in Int /\ \A i \in 1..Len(ss) : i # e => f[i] \in Int /\ g[i] = f[i]
    <3>1. \A i \in 1..Len(ss) : f[i] \in Int /\ g[i] \in Int
      BY <1>3, SlotTokens
    <3>2. \A i \in 1..Len(ss) : i # e => f[i] = g[i]
      BY <1>3, <1>4 DEF Tokens
    <3> QED BY <3>1, <3>2
  <2>2. f[e] = ss[e].available /\ g[e] = ss[e].available - a /\ ss[e].available \in Nat
    BY <1>3, <1>4, SlotTokens
  <2> HIDE DEF f, g
  <2>3. SumFunctionOnSet(g, 1..Len(ss)) = SumFunctionOnSet(f, 1..Len(ss)) + (g[e] - f[e])
    BY <1>5, <2>1, SumUpdate
  <2>4. Pool(ss) = SumFunctionOnSet(f, 1..Len(ss)) /\ Pool(ss) \in Nat
    BY PoolSum DEF f
  <2>5. Pool(out) = SumFunctionOnSet(g, 1..Len(ss))
    BY <1>3, PoolSum DEF g
  <2> QED BY <2>2, <2>3, <2>4, <2>5
<1>7. ASSUME t < ss[e].expire_time PROVE LiveAll(out, t) = LiveAll(ss, t) - a
  <2> DEFINE f == LiveTokens(ss, t)
             g == LiveTokens(out, t)
  <2>1. f[e] \in Int /\ g[e] \in Int /\ \A i \in 1..Len(ss) : i # e => f[i] \in Int /\ g[i] = f[i]
    <3>1. \A i \in 1..Len(ss) : f[i] \in Int /\ g[i] \in Int
      BY <1>3, SlotTokens
    <3>2. \A i \in 1..Len(ss) : f[i] = Live(ss[i], t) /\ g[i] = Live(out[i], t)
      BY <1>3, SlotTokens
    <3> HIDE DEF f, g
    <3>3. \A i \in 1..Len(ss) : i # e => f[i] = g[i]
      BY <1>4, <3>2 DEF Live
    <3> QED BY <3>1, <3>3
  <2>2. f[e] = ss[e].available /\ g[e] = ss[e].available - a /\ ss[e].available \in Nat
    BY <1>3, <1>4, <1>7, SlotTokens DEF Live
  <2> HIDE DEF f, g
  <2>3. SumFunctionOnSet(g, 1..Len(ss)) = SumFunctionOnSet(f, 1..Len(ss)) + (g[e] - f[e])
    BY <1>5, <2>1, SumUpdate
  <2>4. LiveAll(ss, t) = SumFunctionOnSet(f, 1..Len(ss)) /\ LiveAll(ss, t) \in Nat
    BY LiveAllSum DEF f
  <2>5. LiveAll(out, t) = SumFunctionOnSet(g, 1..Len(ss))
    BY <1>3, LiveAllSum DEF g
  <2> QED BY <2>2, <2>3, <2>4, <2>5
<1> QED BY <1>6, <1>7

-----------------------------------------------------------------------------
(* Substract *)

\* The slots Substract's loop pops.
Popped(ss, delta, t) ==
  Cardinality({k \in 1..Len(ss) : /\ LiveSum(ss, k - 1, t) < delta
                                  /\ LiveSum(ss, k, t) <= delta})

\* The loop pops slots as long as they hold no more than what is still wanted:
\* it stops at the end of the queue, with nothing left to take, or at a slot
\* that holds more than the rest.
LEMMA PoppedSlots ==
  ASSUME NEW ss \in Seq(Slot), NEW delta \in Nat, NEW t \in Int,
         NEW n, n = Popped(ss, delta, t)
  PROVE  /\ n \in 0..Len(ss)
         /\ LiveSum(ss, n, t) <= delta
         /\ n < Len(ss) => LiveSum(ss, n, t) = delta \/ delta < LiveSum(ss, n + 1, t)
<1> DEFINE m == Len(ss)
           L(k) == LiveSum(ss, k, t)
           P == {k \in 1..m : L(k - 1) < delta /\ L(k) <= delta}
<1>1. /\ m \in Nat /\ L(0) = 0
      /\ \A k \in 0..m : L(k) \in Nat
      /\ \A j, k \in 0..m : j <= k => L(j) <= L(k)
  BY SlotTokens, LiveSumSteps
<1>2. n = Cardinality(P)
  BY DEF Popped
<1> HIDE DEF m, L
<1>3. ASSUME NEW k \in P, NEW j \in 1..m, j < k PROVE j \in P
  <2>1. k \in 1..m /\ L(k - 1) < delta /\ L(k) <= delta
    OBVIOUS
  <2>2. j - 1 \in 0..m /\ j \in 0..m /\ k - 1 \in 0..m /\ j - 1 <= k - 1 /\ j <= k - 1
    BY <1>1, <1>3, <2>1
  <2>3. L(j - 1) <= L(k - 1) /\ L(j) <= L(k - 1)
    BY <1>1, <2>2
  <2>4. L(j - 1) \in Nat /\ L(j) \in Nat /\ L(k - 1) \in Nat
    BY <1>1, <2>2
  <2>5. L(j - 1) < delta /\ L(j) <= delta
    BY <2>1, <2>3, <2>4
  <2> QED BY <2>5
<1>4. n \in 0..m /\ P = 1..n
  <2>1. P \in SUBSET (1..m)
    OBVIOUS
  <2> HIDE DEF P
  <2> QED BY <1>1, <1>2, <1>3, <2>1, InitialSegment
<1>5. L(n) <= delta
  <2>1. CASE n = 0
    BY <1>1, <2>1
  <2>2. CASE n # 0
    <3>1. n \in P
      <4> HIDE DEF P
      <4> QED BY <1>1, <1>4, <2>2
    <3> QED BY <3>1
  <2> QED BY <2>1, <2>2
<1>6. ASSUME n < m PROVE L(n) = delta \/ delta < L(n + 1)
  <2>1. n + 1 \in 1..m /\ n + 1 \notin 1..n /\ (n + 1) - 1 = n
    BY <1>1, <1>4, <1>6
  <2>2. ~(L(n) < delta /\ L(n + 1) <= delta)
    <3>1. n + 1 \notin P
      <4> HIDE DEF P
      <4> QED BY <1>4, <2>1
    <3> QED BY <2>1, <3>1
  <2>3. L(n) \in Nat /\ L(n + 1) \in Nat
    BY <1>1, <1>4, <2>1
  <2> QED BY <1>5, <2>2, <2>3
<1> QED BY <1>4, <1>5, <1>6 DEF m, L

\* Substract takes delta of the usable tokens, or all there are and says how much
\* is left; the tokens that vanish otherwise are the expired ones it reports; and
\* the slots that remain are the last ones, in their order.
SubstractKeeps(ss, delta, t, sub) ==
  /\ sub.slots \in Seq(Slot)
  /\ sub.left = Maximum(0, delta - LiveAll(ss, t)) /\ sub.expired \in Int
  /\ Pool(sub.slots) = Pool(ss) - (delta - sub.left) - sub.expired
  /\ LiveAll(sub.slots, t) = LiveAll(ss, t) - (delta - sub.left)
  /\ \E n \in 0..Len(ss) : /\ Len(sub.slots) = Len(ss) - n
                           /\ \A i \in 1..Len(sub.slots) : sub.slots[i].id = ss[n + i].id

\* Substract does so, for every queue, amount and time.
LEMMA SubstractTakes ==
  ASSUME NEW ss \in Seq(Slot), NEW delta \in Nat, NEW t \in Int
  PROVE  SubstractKeeps(ss, delta, t, Substract(ss, delta, t))
<1> DEFINE n == Popped(ss, delta, t)
           rest == SubSeq(ss, n + 1, Len(ss))
           short == delta - LiveSum(ss, n, t)
           front == Pool(SubSeq(ss, 1, n))
           sub == Substract(ss, delta, t)
<1>1. /\ n \in 0..Len(ss) /\ LiveSum(ss, n, t) <= delta
      /\ n < Len(ss) => LiveSum(ss, n, t) = delta \/ delta < LiveSum(ss, n + 1, t)
  BY PoppedSlots
<1>2. sub = [slots |-> IF rest # <<>> /\ short > 0
                       THEN [rest EXCEPT ![1].available = @ - short] ELSE rest,
             left |-> IF rest = <<>> THEN Maximum(0, short) ELSE 0,
             expired |-> front - LiveSum(ss, n, t)]
  BY DEF Substract, Popped
<1> HIDE DEF sub, n
<1>3. /\ rest \in Seq(Slot) /\ Len(rest) = Len(ss) - n
      /\ \A i \in 1..Len(rest) : rest[i] = ss[n + i]
  <2> HIDE DEF rest
  <2> QED BY <1>1, SuffixSums DEF rest
<1>4. /\ front \in Nat /\ Pool(ss) = front + Pool(rest)
      /\ LiveAll(ss, t) = LiveSum(ss, n, t) + LiveAll(rest, t)
  <2> HIDE DEF rest
  <2> QED BY <1>1, SuffixSums DEF rest
<1> HIDE DEF rest, front
<1>5. Len(ss) \in Nat /\ LiveSum(ss, n, t) \in Nat /\ short \in Nat
  <2>1. Len(ss) \in Nat /\ LiveSum(ss, n, t) \in Nat
    BY <1>1, SlotTokens, LiveSumSteps
  <2> QED BY <1>1, <2>1
<1>6. /\ Pool(rest) \in Nat /\ LiveAll(rest, t) \in Nat /\ LiveAll(ss, t) \in Nat /\ Pool(ss) \in Nat
      /\ Pool(<<>>) = 0 /\ LiveAll(<<>>, t) = 0
  <2>1. Pool(rest) \in Nat /\ LiveAll(rest, t) \in Nat /\ LiveAll(ss, t) \in Nat /\ Pool(ss) \in Nat
    BY <1>3, PoolSum, LiveAllSum
  <2>2. <<>> \in Seq(Slot) /\ Len(<<>>) = 0 /\ 1..0 = {}
    OBVIOUS
  <2>3. Pool(<<>>) = 0 /\ LiveAll(<<>>, t) = 0
    BY <2>2, PoolSum, LiveAllSum, SumEmpty
  <2> QED BY <2>1, <2>3
<1> HIDE DEF short
<1>7. /\ short = delta - LiveSum(ss, n, t)
      /\ delta - LiveAll(ss, t) = short - LiveAll(rest, t)
  BY <1>4, <1>5, <1>6 DEF short
\* What is left to show about the numbers, when the slots that stay are out and
\* a tokens were not there to be taken.
<1> DEFINE Leaves(out, a) ==
             /\ out \in Seq(Slot) /\ a \in Nat
             /\ sub = [slots |-> out, left |-> a, expired |-> front - LiveSum(ss, n, t)]
             /\ Len(out) = Len(ss) - n /\ \A i \in 1..Len(out) : out[i].id = ss[n + i].id
             /\ a = Maximum(0, short - LiveAll(rest, t))
             /\ Pool(out) = Pool(rest) - (short - a)
             /\ LiveAll(out, t) = LiveAll(rest, t) - (short - a)
<1>8. ASSUME NEW out, NEW a, Leaves(out, a)
      PROVE  SubstractKeeps(ss, delta, t, sub)
  <2>0. /\ a \in Nat
        /\ Pool(out) = Pool(rest) - (short - a)
        /\ LiveAll(out, t) = LiveAll(rest, t) - (short - a)
    BY <1>8
  <2>1. out \in Seq(Slot) /\ sub.slots = out /\ sub.left = a /\ sub.expired = front - LiveSum(ss, n, t)
    BY <1>8
  <2>2. sub.left = Maximum(0, delta - LiveAll(ss, t))
    BY <1>7, <1>8, <2>1
  <2>3. sub.expired \in Int
    BY <1>4, <1>5, <2>1
  <2>4. Pool(out) = Pool(ss) - (delta - a) - (front - LiveSum(ss, n, t))
    <3>1. \A f, r, l \in Int : r - ((delta - l) - a) = (f + r) - (delta - a) - (f - l)
      BY <2>0
    <3>2. Pool(out) = Pool(rest) - ((delta - LiveSum(ss, n, t)) - a)
      BY <1>7, <2>0, Zenon
    <3>3. front \in Int /\ Pool(rest) \in Int /\ LiveSum(ss, n, t) \in Int
      BY <1>4, <1>5, <1>6
    <3>4. Pool(rest) - ((delta - LiveSum(ss, n, t)) - a)
            = (front + Pool(rest)) - (delta - a) - (front - LiveSum(ss, n, t))
      BY <3>1, <3>3, Zenon
    <3>5. Pool(ss) = front + Pool(rest)
      BY <1>4
    <3> QED BY <3>2, <3>4, <3>5, Zenon
  <2>5. LiveAll(out, t) = LiveAll(ss, t) - (delta - a)
    <3>1. \A r, l \in Int : r - ((delta - l) - a) = (l + r) - (delta - a)
      BY <2>0
    <3>2. LiveAll(out, t) = LiveAll(rest, t) - ((delta - LiveSum(ss, n, t)) - a)
      BY <1>7, <2>0, Zenon
    <3>3. LiveAll(rest, t) \in Int /\ LiveSum(ss, n, t) \in Int
      BY <1>5, <1>6
    <3> QED BY <1>4, <3>1, <3>2, <3>3, Zenon
  <2>6. \E k \in 0..Len(ss) : /\ Len(out) = Len(ss) - k
                              /\ \A i \in 1..Len(out) : out[i].id = ss[k + i].id
    BY <1>1, <1>8
  <2> QED BY <2>1, <2>2, <2>3, <2>4, <2>5, <2>6, Zenon DEF SubstractKeeps
<1> HIDE DEF Leaves
<1>9. CASE rest = <<>>
  <2>1. sub = [slots |-> <<>>, left |-> short, expired |-> front - LiveSum(ss, n, t)]
    BY <1>2, <1>5, <1>9 DEF Maximum
  <2>2. Len(<<>>) = Len(ss) - n /\ <<>> \in Seq(Slot) /\ \A i \in 1..Len(<<>>) : FALSE
    BY <1>3, <1>9
  <2>3. /\ short = Maximum(0, short - LiveAll(rest, t))
        /\ Pool(<<>>) = Pool(rest) - (short - short)
        /\ LiveAll(<<>>, t) = LiveAll(rest, t) - (short - short)
    BY <1>5, <1>6, <1>9 DEF Maximum
  <2>4. Leaves(<<>>, short)
    BY <1>5, <2>1, <2>2, <2>3 DEF Leaves
  <2> QED BY <1>8, <2>4 DEF sub
<1>10. CASE rest # <<>> /\ short = 0
  <2>1. sub = [slots |-> rest, left |-> 0, expired |-> front - LiveSum(ss, n, t)]
    BY <1>2, <1>10
  <2>2. /\ 0 = Maximum(0, short - LiveAll(rest, t))
        /\ Pool(rest) = Pool(rest) - (short - 0)
        /\ LiveAll(rest, t) = LiveAll(rest, t) - (short - 0)
    BY <1>6, <1>10 DEF Maximum
  <2>3. \A i \in 1..Len(rest) : rest[i].id = ss[n + i].id
    BY <1>3
  <2>4. Leaves(rest, 0)
    BY <1>3, <2>1, <2>2, <2>3 DEF Leaves
  <2> QED BY <1>8, <2>4 DEF sub
<1>11. CASE rest # <<>> /\ short > 0
  <2> DEFINE s == rest[1]
             out == [rest EXCEPT ![1].available = @ - short]
  <2>1. sub = [slots |-> out, left |-> 0, expired |-> front - LiveSum(ss, n, t)]
    BY <1>2, <1>11
  <2>2. Len(rest) > 0 /\ 1 \in 1..Len(rest) /\ n < Len(ss) /\ s = ss[n + 1]
    BY <1>1, <1>3, <1>5, <1>11
  <2>3. s \in Slot /\ s.available \in Nat /\ s.expire_time \in Int
    BY <1>3, <2>2, SlotTokens DEF Slot
  <2>4. t < s.expire_time /\ short < s.available
    <3>1. n \in 0..Len(ss) - 1 /\ n + 1 \in 0..Len(ss)
      BY <1>1, <1>5, <2>2
    <3>2. LiveSum(ss, n + 1, t) = LiveSum(ss, n, t) + Live(s, t)
      BY <2>2, <3>1, LiveSumSteps
    <3>3. delta < LiveSum(ss, n + 1, t)
      BY <1>1, <1>5, <1>7, <1>11, <2>2
    <3> HIDE DEF s
    <3>4. Live(s, t) \in Nat
      BY <2>3 DEF Live
    <3>5. short < Live(s, t)
      BY <1>5, <1>7, <3>2, <3>3, <3>4
    <3> QED BY <1>5, <2>3, <3>5 DEF Live
  <2>5. /\ DOMAIN out = 1..Len(rest) /\ out = [i \in DOMAIN out |-> out[i]]
        /\ out[1] = [s EXCEPT !.available = @ - short]
        /\ \A i \in 1..Len(rest) : i # 1 => out[i] = rest[i]
    <3>1. DOMAIN rest = 1..Len(rest)
      BY <1>3
    <3>2. out = [i \in 1..Len(rest) |-> IF i = 1 THEN [s EXCEPT !.available = @ - short] ELSE rest[i]]
      BY <3>1
    <3> HIDE DEF out, s
    <3> QED BY <2>2, <3>2
  <2> HIDE DEF out
  <2>6. out \in Seq(Slot) /\ TakenFrom(out, rest, 1, short)
    <3>1. short \in Nat /\ short <= s.available
      BY <1>5, <2>3, <2>4
    <3> QED BY <1>3, <2>2, <2>5, <3>1, TakeFromSlot
  <2>7. Pool(out) = Pool(rest) - short /\ LiveAll(out, t) = LiveAll(rest, t) - short
    BY <1>3, <1>5, <2>2, <2>4, <2>6, TakeFromOne
  <2>8. LiveAll(out, t) \in Nat
    BY <2>6, LiveAllSum
  <2>9. /\ 0 = Maximum(0, short - LiveAll(rest, t))
        /\ Pool(out) = Pool(rest) - (short - 0)
        /\ LiveAll(out, t) = LiveAll(rest, t) - (short - 0)
    BY <1>5, <1>6, <2>7, <2>8 DEF Maximum
  <2>10. Len(out) = Len(ss) - n /\ \A i \in 1..Len(out) : out[i].id = ss[n + i].id
    BY <1>3, <2>6 DEF TakenFrom
  <2>11. Leaves(out, 0)
    BY <2>1, <2>6, <2>9, <2>10 DEF Leaves
  <2> QED BY <1>8, <2>11 DEF sub
<1> QED BY <1>5, <1>9, <1>10, <1>11 DEF sub

-----------------------------------------------------------------------------
(* Push *)

\* A slot pushed adds its tokens, and its usable tokens if it has not expired.
LEMMA PushAdds ==
  ASSUME NEW ss \in Seq(Slot), NEW s \in Slot, NEW t \in Int
  PROVE  /\ Append(ss, s) \in Seq(Slot)
         /\ Pool(Append(ss, s)) = Pool(ss) + s.available
         /\ LiveAll(Append(ss, s), t) = LiveAll(ss, t) + Live(s, t)
<1> DEFINE out == Append(ss, s)
           k == Len(ss)
<1>1. /\ k \in Nat /\ out \in Seq(Slot) /\ Len(out) = k + 1 /\ out[k + 1] = s
      /\ \A i \in 1..k : i \in 1..Len(out) /\ out[i] = ss[i]
  OBVIOUS
<1> HIDE DEF out, k
<1>2. Pool(out) = Pool(ss) + s.available
  <2>1. \A i \in 1..k + 1 : Tokens(out)[i] \in Int
    <3>1. \A i \in 1..Len(out) : Tokens(out)[i] \in Int
      BY <1>1, SlotTokens
    <3> QED BY <1>1, <3>1
  <2>2. Tokens(out)[k + 1] = s.available /\ \A i \in 1..k : Tokens(out)[i] = Tokens(ss)[i]
    BY <1>1 DEF Tokens, k
  <2>3. SumFunctionOnSet(Tokens(out), 1..k + 1) = SumFunctionOnSet(Tokens(ss), 1..k) + Tokens(out)[k + 1]
    BY <1>1, <2>1, <2>2, SumAppend
  <2> QED BY <1>1, <2>2, <2>3, PoolSum DEF k
<1>3. LiveAll(out, t) = LiveAll(ss, t) + Live(s, t)
  <2>1. \A i \in 1..k + 1 : LiveTokens(out, t)[i] \in Int
    <3>1. \A i \in 1..Len(out) : LiveTokens(out, t)[i] \in Int
      BY <1>1, SlotTokens
    <3> QED BY <1>1, <3>1
  <2>2. LiveTokens(out, t)[k + 1] = Live(s, t) /\ \A i \in 1..k : LiveTokens(out, t)[i] = LiveTokens(ss, t)[i]
    BY <1>1 DEF LiveTokens, k
  <2>3. SumFunctionOnSet(LiveTokens(out, t), 1..k + 1)
          = SumFunctionOnSet(LiveTokens(ss, t), 1..k) + LiveTokens(out, t)[k + 1]
    BY <1>1, <2>1, <2>2, SumAppend
  <2> QED BY <1>1, <2>2, <2>3, LiveAllSum DEF k
<1> QED BY <1>1, <1>2, <1>3 DEF out

-----------------------------------------------------------------------------
(* The counter *)

\* Roll and Inc keep a counter a counter, whatever the clock says.
LEMMA CounterKept ==
  ASSUME NEW c \in CounterType, NEW t \in Int, NEW n \in Int
  PROVE  Roll(c, t) \in CounterType /\ Inc(c, n, t) \in CounterType
<1> USE CounterAssumption
<1>1. NewCounter(t) \in CounterType
  BY DEF NewCounter, CounterType
<1>2. ASSUME NEW m \in Int PROVE RollSlots(c, m) \in CounterType
  <2> DEFINE rolled == {(c.tail + i) % WindowSize : i \in 1..m}
  <2>1. c.slots \in [0..WindowSize-1 -> Int] /\ c.count \in Int /\ c.tail \in 0..WindowSize-1 /\ c.last \in Int
    BY DEF CounterType
  <2>2. \A x \in Int : x % WindowSize \in 0..WindowSize-1
    OBVIOUS
  <2>3. rolled \subseteq 0..WindowSize-1 /\ IsFiniteSet(0..WindowSize-1)
    <3>1. IsFiniteSet(0..WindowSize-1)
      BY FS_Interval
    <3>2. \A i \in 1..m : c.tail + i \in Int
      BY <2>1
    <3> QED BY <2>2, <3>1, <3>2
  <2> HIDE DEF rolled
  <2>4. IsFiniteSet(rolled) /\ \A i \in rolled : c.slots[i] \in Int
    BY <2>1, <2>3, FS_Subset
  <2>5. SumFunctionOnSet(c.slots, rolled) \in Int
    BY <2>4, SumInt
  <2>6. RollSlots(c, m) = [slots |-> [i \in DOMAIN c.slots |-> IF i \in rolled THEN 0 ELSE c.slots[i]],
                           count |-> c.count - SumFunctionOnSet(c.slots, rolled),
                           tail  |-> (c.tail + m) % WindowSize,
                           last  |-> c.last + m * SlotDuration]
    BY DEF RollSlots, rolled
  <2>7. [i \in DOMAIN c.slots |-> IF i \in rolled THEN 0 ELSE c.slots[i]] \in [0..WindowSize-1 -> Int]
    BY <2>1
  <2>8. (c.tail + m) % WindowSize \in 0..WindowSize-1 /\ c.last + m * SlotDuration \in Int
    <3>1. \A x, y \in Int : x * y \in Int
      OBVIOUS
    <3>2. c.tail + m \in Int /\ m * SlotDuration \in Int
      BY <2>1, <3>1
    <3>3. \A x, y \in Int : x + y \in Int
      OBVIOUS
    <3> QED BY <2>1, <2>2, <3>2, <3>3, Zenon
  <2>9. c.count - SumFunctionOnSet(c.slots, rolled) \in Int
    BY <2>1, <2>5
  <2> QED BY <2>6, <2>7, <2>8, <2>9 DEF CounterType
<1>3. Roll(c, t) \in CounterType
  <2>1. SlotsPassed(t - c.last) \in Int
    BY DEF SlotsPassed, CounterType
  <2> QED BY <1>1, <1>2, <2>1 DEF Roll, Clear
<1>4. Inc(c, n, t) \in CounterType
  <2> DEFINE r == Roll(c, t)
  <2>1. r \in CounterType
    BY <1>3
  <2>2. Inc(c, n, t) = [r EXCEPT !.slots = [r.slots EXCEPT ![r.tail] = @ + n], !.count = @ + n]
    BY DEF Inc
  <2> HIDE DEF r
  <2>3. [r.slots EXCEPT ![r.tail] = @ + n] \in [0..WindowSize-1 -> Int]
    BY <2>1 DEF CounterType
  <2>4. Inc(c, n, t) = [slots |-> [r.slots EXCEPT ![r.tail] = @ + n], count |-> r.count + n,
                        tail |-> r.tail, last |-> r.last]
    BY <2>1, <2>2 DEF CounterType
  <2>5. r.count \in Int /\ r.tail \in 0..WindowSize-1 /\ r.last \in Int
    BY <2>1 DEF CounterType
  <2> QED BY <2>3, <2>4, <2>5 DEF CounterType
<1> QED BY <1>3, <1>4

-----------------------------------------------------------------------------
(* Check *)

\* The ids of ss are among the top given out so far, and grow along the queue.
Increasing(ss, top) ==
  /\ \A i \in 1..Len(ss) : ss[i].id \in 1..top
  /\ \A i, j \in 1..Len(ss) : i < j => ss[i].id < ss[j].id

\* A new slot at the end of the queue gets an id above the others.
LEMMA IncreasingPush ==
  ASSUME NEW ss \in Seq(Slot), NEW top \in Nat, Increasing(ss, top),
         NEW s \in Slot, s.id = top + 1
  PROVE  Increasing(Append(ss, s), top + 1)
<1>1. /\ Len(ss) \in Nat /\ Len(Append(ss, s)) = Len(ss) + 1 /\ Append(ss, s)[Len(ss) + 1] = s
      /\ \A i \in 1..Len(ss) : Append(ss, s)[i] = ss[i]
  OBVIOUS
<1>2. \A i \in 1..Len(ss) + 1 : i \in 1..Len(ss) \/ i = Len(ss) + 1
  BY <1>1
<1>3. \A i, j \in 1..Len(ss) + 1 : i < j => i \in 1..Len(ss)
  BY <1>1
<1>4. \A i \in 1..Len(ss) : ss[i].id \in 1..top
  BY DEF Increasing
<1> DEFINE out == Append(ss, s)
<1> HIDE DEF out
<1>5. \A i \in 1..Len(ss) : out[i].id \in 1..top
  BY <1>1, <1>4 DEF out
<1>6. \A i \in 1..Len(ss) + 1 : out[i].id \in 1..top + 1
  BY <1>1, <1>2, <1>5 DEF out
<1>7. ASSUME NEW i \in 1..Len(ss) + 1, NEW j \in 1..Len(ss) + 1, i < j
      PROVE  out[i].id < out[j].id
  <2>1. i \in 1..Len(ss) /\ out[i] = ss[i] /\ ss[i].id \in 1..top
    BY <1>1, <1>3, <1>4, <1>7 DEF out
  <2>2. CASE j \in 1..Len(ss)
    BY <1>1, <1>7, <2>1, <2>2 DEF Increasing, out
  <2>3. CASE j = Len(ss) + 1
    <3>1. out[j].id = top + 1
      BY <1>1, <2>3 DEF out
    <3> QED BY <2>1, <3>1
  <2> QED BY <1>2, <2>2, <2>3
<1> QED BY <1>1, <1>6, <1>7 DEF Increasing, out

\* The slots Substract leaves keep their ids and their order.
LEMMA IncreasingSuffix ==
  ASSUME NEW ss \in Seq(Slot), NEW top \in Nat, Increasing(ss, top),
         NEW delta, NEW t, NEW sub, SubstractKeeps(ss, delta, t, sub)
  PROVE  Increasing(sub.slots, top)
<1> DEFINE out == sub.slots
<1>1. PICK n \in 0..Len(ss) : /\ Len(out) = Len(ss) - n
                              /\ \A i \in 1..Len(out) : out[i].id = ss[n + i].id
  BY Zenon DEF SubstractKeeps
<1>2. Len(ss) \in Nat
  OBVIOUS
<1>3. \A i \in 1..Len(out) : n + i \in 1..Len(ss)
  BY <1>1, <1>2
<1>4. \A i, j \in 1..Len(out) : i < j => n + i < n + j
  BY <1>1, <1>2
<1> HIDE DEF out
<1> QED BY <1>1, <1>3, <1>4 DEF Increasing, out

\* What Iterate walks: everything, or nothing of a queue that is exactly full.
LEMMA VisibleTokens ==
  ASSUME NEW q \in QueueType, NEW t \in Int
  PROVE  /\ CountAvailable(q, t) = IF QueueFull(q) THEN 0 ELSE LiveAll(q.slots, t)
         /\ CountAvailable(q, t) \in Nat /\ LiveAll(q.slots, t) \in Nat
<1>1. q.slots \in Seq(Slot) /\ <<>> \in Seq(Slot)
  BY DEF QueueType
<1>2. LiveAll(q.slots, t) \in Nat
  BY <1>1, LiveAllSum
<1>3. LiveAll(<<>>, t) = 0
  <2>1. Len(<<>>) = 0
    OBVIOUS
  <2> QED BY <1>1, <2>1, LiveSumSteps DEF LiveAll
<1> QED BY <1>2, <1>3 DEF CountAvailable, Visible, LiveAll

\* AttemptPrefetch asks for no less than the Check needs, and puts in the queue
\* what it asks for exactly when it borrows.
LEMMA PrefetchAsks ==
  ASSUME Shapes, NEW amount \in Nat \ {0}, NEW t \in Int,
         NEW p, p = AttemptPrefetch(amount, t)
  PROVE  /\ p.counter \in CounterType /\ p.req \in Nat /\ p.borrow \in BOOLEAN
         /\ p.borrow => p.req # 0 /\ amount <= p.req
         /\ p.borrow => CountAvailable(queue, t) = 0
         /\ mode = "OPEN" /\ CountAvailable(queue, t) = 0 => p.borrow
<1>1. amount \in Nat \ {0} /\ MinPrefetch \in Nat
  BY QuotaPrefetchAssumption
<1> DEFINE c == Roll(counter, t)
           desired == Maximum(c.count, MinPrefetch)
           avail == CountAvailable(queue, t)
           wanted == \/ avail < desired \div 2 /\ pending = <<>>
                     \/ avail < amount
<1>2. c \in CounterType /\ counter \in CounterType
  BY CounterKept DEF Shapes
<1>3. avail \in Nat
  BY VisibleTokens DEF Shapes
<1> HIDE DEF c, avail
<1>4. desired \in Int
  BY <1>1, <1>2 DEF Maximum, CounterType
<1> HIDE DEF desired
<1>5. Maximum(amount, desired) \in Nat \ {0} /\ amount <= Maximum(amount, desired)
  BY <1>1, <1>4 DEF Maximum
<1>6. avail = 0 => wanted
  BY <1>1, <1>3
<1>7. p = IF MustWait(t) THEN [counter |-> counter, req |-> 0, borrow |-> FALSE]
          ELSE [counter |-> c, req |-> IF wanted THEN Maximum(amount, desired) ELSE 0,
                borrow |-> wanted /\ UseNotGranted(avail)]
  BY DEF AttemptPrefetch, c, desired, avail
<1>8. mode = "OPEN" => ~MustWait(t)
  BY DEF MustWait
<1>9. CASE MustWait(t)
  <2>1. p.counter = counter /\ p.req = 0 /\ p.borrow = FALSE
    BY <1>7, <1>9
  <2>2. p.borrow \in BOOLEAN /\ ~p.borrow
    BY <2>1, Zenon
  <2>3. p.counter \in CounterType /\ p.req \in Nat
    BY <1>2, <2>1
  <2> QED BY <1>8, <1>9, <2>2, <2>3, Zenon
<1>10. CASE ~MustWait(t)
  <2> HIDE DEF wanted
  <2>1. /\ p.counter = c /\ p.req = (IF wanted THEN Maximum(amount, desired) ELSE 0)
        /\ p.borrow = (wanted /\ UseNotGranted(avail))
    BY <1>7, <1>10
  <2>2. p.borrow \in BOOLEAN /\ (p.borrow <=> wanted /\ avail = 0 /\ mode = "OPEN")
    BY <2>1, Zenon DEF UseNotGranted
  <2>3. p.counter \in CounterType /\ p.req \in Nat
    BY <1>2, <1>5, <2>1
  <2>4. wanted => p.req # 0 /\ amount <= p.req
    BY <1>5, <2>1
  <2> QED BY <1>6, <2>2, <2>3, <2>4, Zenon DEF avail
<1> QED BY <1>9, <1>10

\* What one Check does: p is what AttemptPrefetch decides, q the queue after the
\* borrowed slot is pushed, sub what Substract makes of it.
CheckOutcome(amount, t, p, q, sub) ==
  /\ p.counter \in CounterType /\ p.req \in Nat /\ p.borrow \in BOOLEAN
  /\ p.borrow => p.req # 0 /\ amount <= p.req /\ CountAvailable(queue, t) = 0
  /\ mode = "OPEN" /\ CountAvailable(queue, t) = 0 => p.borrow
  /\ q \in QueueType /\ (~p.borrow => q = queue)
  /\ Increasing(q.slots, IF p.borrow THEN nextId + 1 ELSE nextId)
  /\ Pool(q.slots) = Pool(queue.slots) + (IF p.borrow THEN p.req ELSE 0)
  /\ LiveAll(q.slots, t) = LiveAll(queue.slots, t) + (IF p.borrow THEN p.req ELSE 0)
  /\ SubstractKeeps(q.slots, amount, t, sub)
  /\ pending' = IF p.req = 0 THEN pending
                ELSE Append(pending, [id |-> IF p.borrow THEN nextId + 1 ELSE 0, req |-> p.req])
  /\ nextId' = IF p.borrow THEN nextId + 1 ELSE nextId
  /\ counter' = Inc(p.counter, amount, t)
  /\ last' \in {last, t} /\ now' = now /\ mode' = mode
  /\ ret' = IF amount = 1 THEN sub.left = 0 ELSE CheckMinAvailable(q, amount, t)
  /\ IF amount = 1 \/ ret'
     THEN /\ queue' = [q EXCEPT !.slots = sub.slots]
          /\ balance' = balance - ((amount - sub.left) + sub.expired)
     ELSE queue' = q /\ balance' = balance

\* Every Check step has such an outcome (Check, AttemptPrefetch, Prefetch).
LEMMA CheckDoes ==
  ASSUME Shapes, Increasing(queue.slots, nextId), NEW amount \in Nat \ {0}, NEW t \in Int,
         Check(amount, t)
  PROVE  \E p, q, sub : CheckOutcome(amount, t, p, q, sub)
<1> DEFINE p == AttemptPrefetch(amount, t)
           slot == [available |-> p.req, expire_time |-> t + MaxExpiration, id |-> NewSlotId]
           q == IF p.borrow THEN Push(queue, slot) ELSE queue
           sub == Substract(q.slots, amount, t)
           ok == IF amount = 1 THEN sub.left = 0 ELSE CheckMinAvailable(q, amount, t)
           takes == amount = 1 \/ ok
<1>1. /\ p.counter \in CounterType /\ p.req \in Nat /\ p.borrow \in BOOLEAN
      /\ p.borrow => p.req # 0 /\ amount <= p.req
      /\ p.borrow => CountAvailable(queue, t) = 0
      /\ mode = "OPEN" /\ CountAvailable(queue, t) = 0 => p.borrow
  BY PrefetchAsks
<1>2. /\ pending' = IF p.req = 0 THEN pending
                    ELSE Append(pending, [id |-> IF p.borrow THEN NewSlotId ELSE 0, req |-> p.req])
      /\ last' = (IF p.req = 0 THEN last ELSE t)
      /\ nextId' = IF p.borrow THEN NewSlotId ELSE nextId
      /\ counter' = Inc(p.counter, amount, t)
      /\ queue' = IF takes THEN [q EXCEPT !.slots = sub.slots] ELSE q
      /\ ret' = ok
      /\ balance' = balance - (IF takes THEN (amount - sub.left) + sub.expired ELSE 0)
      /\ now' = now /\ mode' = mode
  <2> HIDE DEF p
  <2> QED BY Zenon DEF Check, p
<1> HIDE DEF p
<1>3. /\ queue.slots \in Seq(Slot) /\ queue.size \in Nat \ {0} /\ nextId \in Nat /\ balance \in Int
      /\ queue \in QueueType
  BY DEF Shapes, QueueType
<1>4. t \in Int /\ MaxExpiration \in Nat \ {0} /\ amount \in Nat /\ amount \in Int
  BY QuotaPrefetchAssumption
<1>5. NewSlotId = nextId + 1
  BY DEF NewSlotId
<1>6. LiveAll(queue.slots, t) \in Nat /\ Pool(queue.slots) \in Nat
  BY <1>3, LiveAllSum, PoolSum
<1>7. /\ q \in QueueType /\ (~p.borrow => q = queue)
      /\ Increasing(q.slots, IF p.borrow THEN nextId + 1 ELSE nextId)
      /\ Pool(q.slots) = Pool(queue.slots) + (IF p.borrow THEN p.req ELSE 0)
      /\ LiveAll(q.slots, t) = LiveAll(queue.slots, t) + (IF p.borrow THEN p.req ELSE 0)
  <2>1. CASE p.borrow
    <3>1. slot \in Slot /\ slot.id = nextId + 1 /\ slot.available = p.req /\ Live(slot, t) = p.req
      BY <1>1, <1>3, <1>4, <1>5 DEF Slot, Live
    <3> HIDE DEF slot
    <3>2. q.slots = Append(queue.slots, slot) /\ q.size \in Nat \ {0} /\ q = [slots |-> q.slots, size |-> q.size]
      BY <1>3, <2>1 DEF Push
    <3> HIDE DEF q
    <3>3. /\ Append(queue.slots, slot) \in Seq(Slot)
          /\ Pool(Append(queue.slots, slot)) = Pool(queue.slots) + p.req
          /\ LiveAll(Append(queue.slots, slot), t) = LiveAll(queue.slots, t) + p.req
      BY <1>3, <3>1, PushAdds
    <3>4. Increasing(Append(queue.slots, slot), nextId + 1)
      BY <1>3, <3>1, IncreasingPush
    <3>5. q \in QueueType
      BY <3>2, <3>3 DEF QueueType
    <3> QED BY <2>1, <3>2, <3>3, <3>4, <3>5
  <2>2. CASE ~p.borrow
    <3>1. q = queue
      BY <2>2
    <3> HIDE DEF q
    <3> QED BY <1>3, <1>6, <2>2, <3>1
  <2> QED BY <2>1, <2>2
<1> HIDE DEF q, slot
<1>8. SubstractKeeps(q.slots, amount, t, sub)
  <2>1. q.slots \in Seq(Slot)
    BY <1>7 DEF QueueType
  <2> QED BY <1>4, <2>1, SubstractTakes
<1> HIDE DEF sub
<1>9. IF amount = 1 \/ ret'
      THEN /\ queue' = [q EXCEPT !.slots = sub.slots]
           /\ balance' = balance - ((amount - sub.left) + sub.expired)
      ELSE queue' = q /\ balance' = balance
  <2>1. CASE takes
    <3>1. (amount = 1 \/ ret') /\ queue' = [q EXCEPT !.slots = sub.slots]
          /\ balance' = balance - ((amount - sub.left) + sub.expired)
      BY <1>2, <2>1, Zenon
    <3> QED BY <3>1
  <2>2. CASE ~takes
    <3>1. ~(amount = 1 \/ ret') /\ queue' = q /\ balance' = balance - 0
      BY <1>2, <2>2, Zenon
    <3> QED BY <1>3, <3>1
  <2> QED BY <2>1, <2>2
<1>10. last' \in {last, t}
  BY <1>2
<1>11. CheckOutcome(amount, t, p, q, sub)
  BY <1>1, <1>2, <1>5, <1>7, <1>8, <1>9, <1>10, Zenon DEF CheckOutcome
<1> QED BY <1>11

-----------------------------------------------------------------------------
(* The requests in flight *)

\* What each request has borrowed.
Owed(ps) == [i \in 1..Len(ps) |-> IF ps[i].id = 0 THEN 0 ELSE ps[i].req]
OwedAll(ps) == SumFunctionOnSet(Owed(ps), 1..Len(ps))

\* Requests take their ids from those given out, and none shares one.
Distinct(ps, top) ==
  /\ \A i \in 1..Len(ps) : ps[i].id \in 0..top
  /\ \A i, j \in 1..Len(ps) : i # j /\ ps[i].id # 0 => ps[i].id # ps[j].id

\* What is owed is a natural number.
LEMMA OwedNat ==
  ASSUME NEW ps \in Seq(Request)
  PROVE  /\ Len(ps) \in Nat /\ \A i \in 1..Len(ps) : ps[i] \in Request /\ Owed(ps)[i] \in Nat
         /\ OwedAll(ps) \in Nat
<1>1. Len(ps) \in Nat /\ \A i \in 1..Len(ps) : ps[i] \in Request
  OBVIOUS
<1>2. \A i \in 1..Len(ps) : Owed(ps)[i] \in Nat
  BY <1>1 DEF Owed, Request
<1>3. IsFiniteSet(1..Len(ps))
  BY <1>1, FS_Interval
<1> QED BY <1>1, <1>2, <1>3, SumNat DEF OwedAll

\* Borrowed is such a sum.
LEMMA BorrowedSum ==
  ASSUME NEW ps \in Seq(Request)
  PROVE  SumFunction([i \in DOMAIN ps |-> IF ps[i].id = 0 THEN 0 ELSE ps[i].req]) = OwedAll(ps)
<1>1. DOMAIN ps = 1..Len(ps)
  OBVIOUS
<1> QED BY <1>1 DEF OwedAll, Owed, SumFunction

\* A request sent owes what it borrowed.
LEMMA OwedAppend ==
  ASSUME NEW ps \in Seq(Request), NEW r \in Request, NEW top \in Nat, Distinct(ps, top)
  PROVE  /\ Append(ps, r) \in Seq(Request)
         /\ OwedAll(Append(ps, r)) = OwedAll(ps) + (IF r.id = 0 THEN 0 ELSE r.req)
         /\ r.id \in {0, top + 1} => Distinct(Append(ps, r), top + 1)
         /\ r.id = 0 => Distinct(Append(ps, r), top)
<1> DEFINE out == Append(ps, r)
           k == Len(ps)
<1>1. /\ k \in Nat /\ out \in Seq(Request) /\ Len(out) = k + 1 /\ out[k + 1] = r
      /\ \A i \in 1..k : i \in 1..Len(out) /\ out[i] = ps[i]
      /\ \A i \in 1..Len(out) : i \in 1..k \/ i = k + 1
  OBVIOUS
<1> HIDE DEF out, k
<1>2. OwedAll(out) = OwedAll(ps) + (IF r.id = 0 THEN 0 ELSE r.req)
  <2>1. \A i \in 1..k + 1 : Owed(out)[i] \in Int
    <3>1. \A i \in 1..Len(out) : Owed(out)[i] \in Int
      BY <1>1, OwedNat
    <3> QED BY <1>1, <3>1
  <2>2. /\ Owed(out)[k + 1] = IF r.id = 0 THEN 0 ELSE r.req
        /\ \A i \in 1..k : Owed(out)[i] = Owed(ps)[i]
    BY <1>1 DEF Owed, k
  <2>3. SumFunctionOnSet(Owed(out), 1..k + 1) = SumFunctionOnSet(Owed(ps), 1..k) + Owed(out)[k + 1]
    BY <1>1, <2>1, <2>2, SumAppend
  <2> QED BY <1>1, <2>2, <2>3 DEF OwedAll, k
<1>3. \A i \in 1..k : out[i] = ps[i] /\ ps[i].id \in 0..top
  BY <1>1 DEF Distinct, k
<1>4. \A i, j \in 1..k : i # j /\ ps[i].id # 0 => ps[i].id # ps[j].id
  BY DEF Distinct, k
<1>5. ASSUME r.id \in {0, top + 1} PROVE Distinct(out, top + 1)
  <2>1. \A i \in 1..Len(out) : out[i].id \in 0..top + 1
    BY <1>1, <1>3, <1>5
  <2>2. ASSUME NEW i \in 1..Len(out), NEW j \in 1..Len(out), i # j, out[i].id # 0
        PROVE  out[i].id # out[j].id
    <3>1. CASE i \in 1..k /\ j \in 1..k
      BY <1>3, <1>4, <2>2, <3>1
    <3>2. CASE i \in 1..k /\ j = k + 1
      BY <1>1, <1>3, <1>5, <2>2, <3>2
    <3>3. CASE i = k + 1 /\ j \in 1..k
      BY <1>1, <1>3, <1>5, <2>2, <3>3
    <3> QED BY <1>1, <2>2, <3>1, <3>2, <3>3
  <2> QED BY <2>1, <2>2 DEF Distinct
<1>6. ASSUME r.id = 0 PROVE Distinct(out, top)
  <2>1. \A i \in 1..Len(out) : out[i].id \in 0..top
    BY <1>1, <1>3, <1>6
  <2>2. ASSUME NEW i \in 1..Len(out), NEW j \in 1..Len(out), i # j, out[i].id # 0
        PROVE  out[i].id # out[j].id
    BY <1>5, <1>6, <2>2 DEF Distinct
  <2> QED BY <2>1, <2>2 DEF Distinct
<1> QED BY <1>1, <1>2, <1>5, <1>6 DEF out

\* A request answered owes nothing any more.
LEMMA OwedRemove ==
  ASSUME NEW ps \in Seq(Request), NEW e \in 1..Len(ps), NEW top \in Nat, Distinct(ps, top)
  PROVE  /\ RemoveAt(ps, e) \in Seq(Request)
         /\ OwedAll(RemoveAt(ps, e)) = OwedAll(ps) - (IF ps[e].id = 0 THEN 0 ELSE ps[e].req)
         /\ Distinct(RemoveAt(ps, e), top)
<1> DEFINE out == RemoveAt(ps, e)
           k == Len(ps)
           pos(i) == IF i < e THEN i ELSE i + 1
<1>1. k \in Nat /\ e \in 1..k /\ \A i \in 1..k : ps[i] \in Request
  OBVIOUS
<1>2. /\ out \in Seq(Request) /\ Len(out) = k - 1
      /\ \A i \in 1..k - 1 : out[i] = ps[pos(i)]
  <2> DEFINE a == SubSeq(ps, 1, e - 1)
             b == SubSeq(ps, e + 1, k)
  <2>1. a \in Seq(Request) /\ Len(a) = e - 1 /\ \A i \in 1..e - 1 : a[i] = ps[i]
    BY <1>1
  <2>2. b \in Seq(Request) /\ Len(b) = k - e /\ \A i \in 1..k - e : b[i] = ps[e + i]
    BY <1>1
  <2>3. out = a \o b
    BY DEF RemoveAt
  <2> HIDE DEF a, b, out, k
  <2>4. out \in Seq(Request) /\ Len(out) = k - 1
    <3>1. a \in Seq(Request) /\ b \in Seq(Request)
      BY <2>1, <2>2
    <3>2. a \o b \in Seq(Request) /\ Len(a \o b) = Len(a) + Len(b)
      BY <3>1
    <3> QED BY <1>1, <2>1, <2>2, <2>3, <3>2
  <2>5. ASSUME NEW i \in 1..k - 1 PROVE out[i] = ps[pos(i)]
    <3>1. CASE i < e
      <4>1. i \in 1..Len(a) /\ out[i] = a[i]
        BY <1>1, <2>1, <2>2, <2>3, <3>1
      <4> QED BY <2>1, <3>1, <4>1
    <3>2. CASE ~(i < e)
      <4>1. i - (e - 1) \in 1..k - e /\ out[i] = b[i - (e - 1)] /\ e + (i - (e - 1)) = i + 1
        BY <1>1, <2>1, <2>2, <2>3, <3>2
      <4> QED BY <2>2, <3>2, <4>1
    <3> QED BY <3>1, <3>2
  <2> QED BY <2>4, <2>5
<1>3. \A i \in 1..k - 1 : pos(i) \in 1..k
  BY <1>1
<1>4. \A i, j \in 1..k - 1 : i # j => pos(i) # pos(j)
  BY <1>1
<1>5. OwedAll(out) = OwedAll(ps) - (IF ps[e].id = 0 THEN 0 ELSE ps[e].req)
  <2>1. \A i \in 1..k : Owed(ps)[i] \in Int
    BY OwedNat
  <2>2. \A i \in 1..k : Owed(ps)[i] = IF ps[i].id = 0 THEN 0 ELSE ps[i].req
    BY DEF Owed
  <2> HIDE DEF k, out
  <2>3. \A i \in 1..k - 1 : Owed(out)[i] = IF out[i].id = 0 THEN 0 ELSE out[i].req
    BY <1>2 DEF Owed
  <2>4. \A i \in 1..k - 1 : Owed(out)[i] = IF i < e THEN Owed(ps)[i] ELSE Owed(ps)[i + 1]
    <3> SUFFICES ASSUME NEW i \in 1..k - 1
                 PROVE  Owed(out)[i] = IF i < e THEN Owed(ps)[i] ELSE Owed(ps)[i + 1]
      OBVIOUS
    <3>1. Owed(out)[i] = Owed(ps)[pos(i)]
      <4> HIDE DEF pos
      <4> QED BY <1>2, <1>3, <2>2, <2>3
    <3> QED BY <3>1
  <2>5. SumFunctionOnSet(Owed(out), 1..k - 1) = SumFunctionOnSet(Owed(ps), 1..k) - Owed(ps)[e]
    BY <1>1, <2>1, <2>4, SumRemove
  <2> QED BY <1>1, <1>2, <2>2, <2>5 DEF OwedAll, k
<1>6. Distinct(out, top)
  <2> HIDE DEF out, k, pos
  <2>1. \A i \in 1..k : ps[i].id \in 0..top
    BY DEF Distinct, k
  <2>2. \A i, j \in 1..k : i # j /\ ps[i].id # 0 => ps[i].id # ps[j].id
    BY DEF Distinct, k
  <2>3. \A i \in 1..Len(out) : i \in 1..k - 1 /\ pos(i) \in 1..k /\ out[i] = ps[pos(i)]
    BY <1>2, <1>3
  <2>4. ASSUME NEW i \in 1..Len(out) PROVE out[i].id \in 0..top
    BY <2>1, <2>3
  <2>5. ASSUME NEW i \in 1..Len(out), NEW j \in 1..Len(out), i # j, out[i].id # 0
        PROVE  out[i].id # out[j].id
    <3>1. pos(i) # pos(j)
      BY <1>4, <2>3, <2>5
    <3> QED BY <2>2, <2>3, <2>5, <3>1
  <2> QED BY <2>4, <2>5 DEF Distinct
<1> QED BY <1>2, <1>5, <1>6 DEF out

-----------------------------------------------------------------------------
(* OnResponse *)

\* Two queues whose slots have the same ids and tokens hold the same pool.
LEMMA SameTokens ==
  ASSUME NEW ss \in Seq(Slot), NEW out \in Seq(Slot), Len(out) = Len(ss),
         \A i \in 1..Len(ss) : out[i].available = ss[i].available /\ out[i].id = ss[i].id
  PROVE  /\ Pool(out) = Pool(ss)
         /\ \A top : Increasing(ss, top) => Increasing(out, top)
<1>1. \A i \in 1..Len(ss) : Tokens(ss)[i] \in Int
  BY SlotTokens
<1>2. \A i \in 1..Len(ss) : Tokens(out)[i] = Tokens(ss)[i]
  BY DEF Tokens
<1>3. IsFiniteSet(1..Len(ss))
  BY SlotTokens, FS_Interval
<1>4. SumFunctionOnSet(Tokens(ss), 1..Len(ss)) = SumFunctionOnSet(Tokens(out), 1..Len(ss))
  BY <1>1, <1>2, <1>3, SumSame
<1>5. Pool(out) = Pool(ss)
  BY <1>4, PoolSum
<1>6. \A top : Increasing(ss, top) => Increasing(out, top)
  BY DEF Increasing
<1> QED BY <1>5, <1>6

\* An id is that of one slot at most.
LEMMA OwnSlot ==
  ASSUME NEW q \in QueueType, NEW top \in Nat, Increasing(q.slots, top), NEW id,
         NEW own, own = FindSlotById(q, id), own # {},
         NEW e, e = CHOOSE i \in own : TRUE
  PROVE  own = {e} /\ e \in 1..Len(q.slots)
<1>1. q.slots \in Seq(Slot) /\ Len(q.slots) \in Nat
  BY DEF QueueType
<1>2. DOMAIN Visible(q) \subseteq 1..Len(q.slots)
  BY <1>1 DEF Visible
<1>3. \A i \in own : i \in 1..Len(q.slots) /\ q.slots[i].id = id
  BY <1>2 DEF FindSlotById
<1>4. e \in own
  BY Zenon
<1>5. \A i, j \in 1..Len(q.slots) : i < j => q.slots[i].id < q.slots[j].id
  BY DEF Increasing
<1>6. ASSUME NEW i \in own PROVE i = e
  <2>1. i \in Nat /\ e \in Nat /\ i \in 1..Len(q.slots) /\ e \in 1..Len(q.slots)
    BY <1>1, <1>3, <1>4
  <2>2. q.slots[i].id = q.slots[e].id /\ q.slots[i].id \in Nat
    <3>1. q.slots[i].id = id /\ q.slots[e].id = id
      BY <1>3, <1>4
    <3>2. q.slots[i] \in Slot
      BY <1>1, <2>1
    <3> QED BY <3>1, <3>2 DEF Slot
  <2>3. ~(i < e) /\ ~(e < i)
    BY <1>5, <2>1, <2>2
  <2> QED BY <2>1, <2>3
<1> QED BY <1>3, <1>4, <1>6

\* TakeBack takes delta tokens back, from the request's own slot first, or all
\* there are and says how many are missing.
LEMMA TakeBackTakes ==
  ASSUME NEW q \in QueueType, NEW top \in Nat, Increasing(q.slots, top), NEW id,
         NEW own, own = FindSlotById(q, id), NEW delta \in Nat, NEW t \in Int,
         NEW back, back = TakeBack(q, own, delta, t)
  PROVE  /\ back.slots \in Seq(Slot) /\ back.left \in Int /\ back.expired \in Int
         /\ Pool(back.slots) = Pool(q.slots) - delta + back.left - back.expired
         /\ Increasing(back.slots, top)
<1> DEFINE e == CHOOSE i \in own : TRUE
           d == IF own = {} THEN 0 ELSE Minimum(q.slots[e].available, delta)
           ss == [i \in DOMAIN q.slots |->
                    IF i \in own THEN [q.slots[i] EXCEPT !.available = @ - d] ELSE q.slots[i]]
<1>1. back = Substract(ss, delta - d, t)
  BY DEF TakeBack
<1>2. q.slots \in Seq(Slot) /\ Pool(q.slots) \in Nat
  BY PoolSum DEF QueueType
<1>3. /\ ss \in Seq(Slot) /\ d \in Nat /\ d <= delta
      /\ Pool(ss) = Pool(q.slots) - d
      /\ Increasing(ss, top)
  <2>1. CASE own = {}
    <3>1. d = 0
      BY <2>1
    <3>2. ss = q.slots
      <4>1. ss = [i \in DOMAIN q.slots |-> q.slots[i]]
        BY <2>1
      <4>2. q.slots = [i \in DOMAIN q.slots |-> q.slots[i]]
        BY <1>2
      <4> HIDE DEF ss
      <4> QED BY <4>1, <4>2
    <3> HIDE DEF ss, d
    <3> QED BY <1>2, <3>1, <3>2
  <2>2. CASE own # {}
    <3>1. own = {e} /\ e \in 1..Len(q.slots)
      <4> HIDE DEF e
      <4> QED BY <2>2, OwnSlot DEF e
    <3> HIDE DEF e
    <3>2. q.slots[e].available \in Nat /\ DOMAIN q.slots = 1..Len(q.slots)
      BY <1>2, <3>1, SlotTokens
    <3>3. d \in Nat /\ d <= delta /\ d <= q.slots[e].available
      BY <2>2, <3>2 DEF Minimum
    <3> HIDE DEF d
    <3>4. /\ DOMAIN ss = 1..Len(q.slots) /\ ss = [i \in DOMAIN ss |-> ss[i]]
          /\ ss[e] = [q.slots[e] EXCEPT !.available = @ - d]
          /\ \A i \in 1..Len(q.slots) : i # e => ss[i] = q.slots[i]
      BY <3>1, <3>2
    <3> HIDE DEF ss
    <3>5. ss \in Seq(Slot) /\ TakenFrom(ss, q.slots, e, d)
      BY <1>2, <3>1, <3>3, <3>4, TakeFromSlot
    <3>6. Pool(ss) = Pool(q.slots) - d
      BY <1>2, <3>1, <3>3, <3>5, TakeFromOne
    <3>7. Increasing(ss, top)
      BY <3>5 DEF Increasing, TakenFrom
    <3> QED BY <3>3, <3>5, <3>6, <3>7
  <2> QED BY <2>1, <2>2
<1> HIDE DEF ss, d
<1>4. delta - d \in Nat
  BY <1>3
<1>5. SubstractKeeps(ss, delta - d, t, back)
  BY <1>1, <1>3, <1>4, SubstractTakes
<1>6. LiveAll(ss, t) \in Nat /\ Pool(ss) \in Nat
  BY <1>3, LiveAllSum, PoolSum
<1>7. /\ back.slots \in Seq(Slot) /\ back.expired \in Int
      /\ back.left = Maximum(0, (delta - d) - LiveAll(ss, t))
      /\ Pool(back.slots) = Pool(ss) - ((delta - d) - back.left) - back.expired
  BY <1>5, Zenon DEF SubstractKeeps
<1>8. back.left \in Int
  BY <1>4, <1>6, <1>7 DEF Maximum
<1>9. Pool(back.slots) = Pool(q.slots) - delta + back.left - back.expired
  <2>1. Pool(q.slots) \in Int /\ d \in Int /\ delta \in Int
    BY <1>2, <1>3
  <2>2. Pool(back.slots) = (Pool(q.slots) - d) - ((delta - d) - back.left) - back.expired
    BY <1>3, <1>7, Zenon
  <2>3. back.left \in Int /\ back.expired \in Int
    BY <1>7, <1>8
  <2>4. (Pool(q.slots) - d) - ((delta - d) - back.left) - back.expired
          = Pool(q.slots) - delta + back.left - back.expired
    BY <2>1, <2>3
  <2> QED BY <2>2, <2>4, Zenon
<1>10. Increasing(back.slots, top)
  BY <1>3, <1>5, IncreasingSuffix
<1> QED BY <1>7, <1>8, <1>9, <1>10

-----------------------------------------------------------------------------
(* The inductive invariant *)

IdsInOrder ==
  /\ Increasing(queue.slots, nextId)
  /\ Distinct(pending, nextId)

PrefetchInv == Shapes /\ IdsInOrder /\ TokensConserved

\* What SlotIdsDistinct says of the queue and of the requests.
LEMMA IdsInOrderDistinct == Shapes /\ IdsInOrder => SlotIdsDistinct
<1> SUFFICES ASSUME Shapes, IdsInOrder PROVE SlotIdsDistinct
  OBVIOUS
<1>1. DOMAIN queue.slots = 1..Len(queue.slots) /\ DOMAIN pending = 1..Len(pending)
  BY DEF Shapes, QueueType
<1> QED BY <1>1 DEF IdsInOrder, Increasing, Distinct, SlotIdsDistinct

\* The last conjunct of TokensConserved is the type of a slot.
LEMMA ConservedIfSum ==
  ASSUME NEW ss \in Seq(Slot)
  PROVE  \A i \in DOMAIN ss : ss[i].available >= 0
<1>1. \A i \in DOMAIN ss : ss[i].available \in Nat
  BY SlotTokens
<1> QED BY <1>1

\* The invariant holds in the initial states.
LEMMA PrefetchInit == Init => PrefetchInv
<1> SUFFICES ASSUME Init PROVE PrefetchInv
  OBVIOUS
<1> USE DEF Init
<1>1. /\ queue.slots = <<>> /\ queue.size = InitQueueSize /\ <<>> \in Seq(Slot) /\ <<>> \in Seq(Request)
      /\ Len(<<>>) = 0 /\ 1..0 = {} /\ DOMAIN queue.slots = {}
  OBVIOUS
<1>2. queue \in QueueType
  BY QuotaPrefetchAssumption DEF QueueType
<1>3. counter \in CounterType
  <2>1. 0 \in 0..WindowSize-1
    BY CounterAssumption
  <2> QED BY <2>1 DEF NewCounter, CounterType
<1>4. Shapes
  BY <1>1, <1>2, <1>3 DEF Shapes
<1>5. IdsInOrder
  BY <1>1 DEF IdsInOrder, Increasing, Distinct
<1>6. Pool(queue.slots) = 0
  BY <1>1, PoolSum, SumEmpty
<1>7. Borrowed = 0
  BY <1>1, BorrowedSum, SumEmpty DEF OwedAll, Borrowed
<1>8. TokensConserved
  BY <1>1, <1>6, <1>7 DEF TokensConserved
<1> QED BY <1>4, <1>5, <1>8 DEF PrefetchInv

\* Check keeps the invariant.
LEMMA CheckKeeps ==
  ASSUME PrefetchInv, NEW amount \in Nat \ {0}, NEW t \in Int, Check(amount, t)
  PROVE  PrefetchInv'
<1>1. Shapes /\ Increasing(queue.slots, nextId) /\ Distinct(pending, nextId)
  BY DEF PrefetchInv, IdsInOrder
<1>2. PICK p, q, sub : CheckOutcome(amount, t, p, q, sub)
  BY <1>1, CheckDoes
<1>3. /\ nextId \in Nat /\ pending \in Seq(Request) /\ balance \in Int /\ last \in Int /\ now \in Nat
      /\ queue.slots \in Seq(Slot)
  BY <1>1 DEF Shapes, QueueType
<1>4. amount \in Nat /\ amount \in Int
  BY QuotaPrefetchAssumption
<1>5. /\ p.counter \in CounterType /\ p.req \in Nat /\ p.borrow \in BOOLEAN /\ (p.borrow => p.req # 0)
      /\ q \in QueueType /\ q.slots \in Seq(Slot)
  BY <1>2 DEF CheckOutcome, QueueType
<1>6. sub.slots \in Seq(Slot) /\ sub.left \in Int /\ sub.expired \in Int
      /\ Pool(sub.slots) = Pool(q.slots) - (amount - sub.left) - sub.expired
  <2>1. SubstractKeeps(q.slots, amount, t, sub)
    BY <1>2, Zenon DEF CheckOutcome
  <2>2. /\ sub.slots \in Seq(Slot) /\ sub.left = Maximum(0, amount - LiveAll(q.slots, t))
        /\ sub.expired \in Int
        /\ Pool(sub.slots) = Pool(q.slots) - (amount - sub.left) - sub.expired
    BY <2>1, Zenon DEF SubstractKeeps
  <2>3. LiveAll(q.slots, t) \in Nat
    BY <1>5, LiveAllSum
  <2>4. Maximum(0, amount - LiveAll(q.slots, t)) \in Int
    BY <1>4, <2>3 DEF Maximum
  <2> QED BY <2>2, <2>4
<1>7. \/ /\ queue' = [q EXCEPT !.slots = sub.slots]
         /\ balance' = balance - ((amount - sub.left) + sub.expired)
      \/ queue' = q /\ balance' = balance
  BY <1>2, Zenon DEF CheckOutcome
<1>8. /\ queue' \in QueueType /\ balance' \in Int
      /\ Pool(queue'.slots) - balance' = Pool(q.slots) - balance
  <2>1. Pool(q.slots) \in Nat
    BY <1>5, PoolSum
  <2>2. CASE queue' = q /\ balance' = balance
    BY <1>3, <1>5, <2>1, <2>2
  <2>3. CASE /\ queue' = [q EXCEPT !.slots = sub.slots]
             /\ balance' = balance - ((amount - sub.left) + sub.expired)
    <3>1. queue' \in QueueType /\ queue'.slots = sub.slots
      BY <1>5, <1>6, <2>3 DEF QueueType
    <3>2. balance' \in Int
      BY <1>3, <1>4, <1>6, <2>3
    <3>3. (Pool(q.slots) - (amount - sub.left) - sub.expired) - (balance - ((amount - sub.left) + sub.expired))
            = Pool(q.slots) - balance
      BY <1>3, <1>4, <1>6, <2>1
    <3> QED BY <1>6, <2>3, <3>1, <3>2, <3>3
  <2> QED BY <1>7, <2>2, <2>3
<1>9. nextId' = (IF p.borrow THEN nextId + 1 ELSE nextId) /\ nextId' \in Nat
  <2>1. nextId' = IF p.borrow THEN nextId + 1 ELSE nextId
    BY <1>2, Zenon DEF CheckOutcome
  <2> QED BY <1>3, <2>1
<1>10. Increasing(queue'.slots, nextId')
  <2>1. Increasing(q.slots, nextId')
    BY <1>2, <1>9, Zenon DEF CheckOutcome
  <2>2. Increasing(sub.slots, nextId')
    <3>1. SubstractKeeps(q.slots, amount, t, sub)
      BY <1>2, Zenon DEF CheckOutcome
    <3> QED BY <1>5, <1>9, <2>1, <3>1, IncreasingSuffix
  <2>3. queue'.slots = sub.slots \/ queue'.slots = q.slots
    BY <1>5, <1>7 DEF QueueType
  <2> QED BY <2>1, <2>2, <2>3
<1>11. /\ pending' \in Seq(Request) /\ Distinct(pending', nextId')
       /\ OwedAll(pending') = OwedAll(pending) + (IF p.borrow THEN p.req ELSE 0)
  <2>1. pending' = IF p.req = 0 THEN pending
                   ELSE Append(pending, [id |-> IF p.borrow THEN nextId + 1 ELSE 0, req |-> p.req])
    BY <1>2, Zenon DEF CheckOutcome
  <2>2. CASE p.req = 0
    <3>1. OwedAll(pending) \in Nat
      BY <1>3, OwedNat
    <3> QED BY <1>1, <1>3, <1>5, <1>9, <2>1, <2>2, <3>1
  <2>3. CASE p.req # 0
    <3> DEFINE r == [id |-> IF p.borrow THEN nextId + 1 ELSE 0, req |-> p.req]
    <3>1. r \in Request /\ r.id = (IF p.borrow THEN nextId + 1 ELSE 0) /\ r.req = p.req
      BY <1>3, <1>5, <2>3 DEF Request
    <3>2. pending' = Append(pending, r)
      BY <2>1, <2>3
    <3> HIDE DEF r
    <3>3. /\ Append(pending, r) \in Seq(Request)
          /\ OwedAll(Append(pending, r)) = OwedAll(pending) + (IF r.id = 0 THEN 0 ELSE r.req)
          /\ r.id \in {0, nextId + 1} => Distinct(Append(pending, r), nextId + 1)
          /\ r.id = 0 => Distinct(Append(pending, r), nextId)
      BY <1>1, <1>3, <3>1, OwedAppend
    <3>4. CASE p.borrow
      <4>1. r.id = nextId + 1 /\ r.id # 0 /\ nextId' = nextId + 1
        BY <1>3, <1>9, <3>1, <3>4
      <4> QED BY <3>1, <3>2, <3>3, <3>4, <4>1
    <3>5. CASE ~p.borrow
      <4>1. r.id = 0 /\ nextId' = nextId
        BY <1>3, <1>9, <3>1, <3>5
      <4> QED BY <3>1, <3>2, <3>3, <3>5, <4>1
    <3> QED BY <3>4, <3>5
  <2> QED BY <2>2, <2>3
<1>12. Shapes'
  <2>1. counter' \in CounterType
    <3>1. counter' = Inc(p.counter, amount, t)
      BY <1>2, Zenon DEF CheckOutcome
    <3> QED BY <1>4, <1>5, <3>1, CounterKept
  <2>2. last' \in Int /\ now' \in Nat
    <3>1. last' \in {last, t} /\ now' = now
      BY <1>2, Zenon DEF CheckOutcome
    <3> QED BY <1>3, <3>1
  <2> QED BY <1>8, <1>9, <1>11, <2>1, <2>2 DEF Shapes
<1>13. TokensConserved'
  <2>1. Pool(queue.slots) = balance + OwedAll(pending)
    BY <1>3, BorrowedSum DEF PrefetchInv, TokensConserved, Borrowed
  <2>2. Borrowed' = OwedAll(pending')
    BY <1>11, BorrowedSum DEF Borrowed
  <2>3. Pool(q.slots) = Pool(queue.slots) + (IF p.borrow THEN p.req ELSE 0)
    BY <1>2, Zenon DEF CheckOutcome
  <2>4. Pool(queue'.slots) = balance' + OwedAll(pending')
    <3>1. OwedAll(pending) \in Nat /\ Pool(queue'.slots) \in Nat
      BY <1>3, <1>8, OwedNat, PoolSum DEF QueueType
    <3> QED BY <1>3, <1>5, <1>8, <1>11, <2>1, <2>3, <3>1
  <2>5. \A i \in DOMAIN queue'.slots : queue'.slots[i].available >= 0
    BY <1>8, ConservedIfSum DEF QueueType
  <2> QED BY <2>2, <2>4, <2>5 DEF TokensConserved
<1> QED BY <1>10, <1>11, <1>12, <1>13 DEF PrefetchInv, IdsInOrder

\* OnResponse keeps the invariant, whichever request is answered and however.
LEMMA ResponseKeeps ==
  ASSUME PrefetchInv, NEW i \in DOMAIN pending, NEW grant \in -1..pending[i].req,
         NEW expiration \in Expirations, NEW t \in Int, OnResponse(i, grant, expiration, t)
  PROVE  PrefetchInv'
<1> DEFINE r == pending[i]
           resp == IF grant = -1 THEN r.req ELSE grant
           valid == t + (IF grant = -1 THEN MaxExpiration ELSE expiration)
           own == FindSlotById(queue, r.id)
           back == IF resp < r.req THEN TakeBack(queue, own, r.req - resp, t)
                   ELSE [slots |-> queue.slots, left |-> 0, expired |-> 0]
           adjusted == [k \in DOMAIN back.slots |->
                          IF back.slots[k].id = r.id /\ own # {} /\ back.slots[k].available > 0
                          THEN [back.slots[k] EXCEPT !.expire_time = valid] ELSE back.slots[k]]
           new == [available |-> resp, expire_time |-> valid, id |-> NewSlotId]
<1>1. Shapes /\ Increasing(queue.slots, nextId) /\ Distinct(pending, nextId)
  BY DEF PrefetchInv, IdsInOrder
<1>2. /\ nextId \in Nat /\ pending \in Seq(Request) /\ balance \in Int /\ last \in Int /\ now \in Nat
      /\ queue \in QueueType /\ queue.slots \in Seq(Slot) /\ counter \in CounterType
  BY <1>1 DEF Shapes, QueueType
<1>3. i \in 1..Len(pending) /\ r \in Request
  BY <1>2
<1>4. /\ pending' = RemoveAt(pending, i)
      /\ r.id # 0 => /\ queue' = [queue EXCEPT !.slots = adjusted]
                     /\ balance' = balance + resp + back.left - back.expired
                     /\ nextId' = nextId
      /\ r.id = 0 => /\ queue' = IF resp > 0 THEN Push(queue, new) ELSE queue
                     /\ nextId' = IF resp > 0 THEN NewSlotId ELSE nextId
                     /\ balance' = balance + resp
      /\ now' = now /\ counter' = counter /\ last' = last
  BY Zenon DEF OnResponse
<1> HIDE DEF own, adjusted, new, back
<1>5. r.id \in Nat /\ r.req \in Nat /\ resp \in 0..r.req /\ resp \in Nat /\ valid \in Int
  <2>1. MaxExpiration \in Nat /\ expiration \in Nat
    BY QuotaPrefetchAssumption
  <2>2. r.id \in Nat /\ r.req \in Nat
    BY <1>3 DEF Request
  <2>3. resp \in 0..r.req
    BY <2>2
  <2> QED BY <2>1, <2>2, <2>3
<1>6. /\ pending' \in Seq(Request) /\ Distinct(pending', nextId)
      /\ OwedAll(pending') = OwedAll(pending) - (IF r.id = 0 THEN 0 ELSE r.req)
      /\ OwedAll(pending) \in Nat
  BY <1>1, <1>2, <1>3, <1>4, OwedRemove, OwedNat
<1> HIDE DEF r, resp, valid
<1>7. /\ queue' \in QueueType /\ nextId' \in Nat /\ nextId <= nextId' /\ balance' \in Int
      /\ Increasing(queue'.slots, nextId')
      /\ Pool(queue'.slots) - balance' = Pool(queue.slots) - balance - (IF r.id = 0 THEN 0 ELSE r.req)
  <2>0. Pool(queue.slots) \in Nat
    BY <1>2, PoolSum
  <2>1. CASE r.id # 0
    <3>1. /\ back.slots \in Seq(Slot) /\ back.left \in Int /\ back.expired \in Int
          /\ Pool(back.slots) = Pool(queue.slots) - (r.req - resp) + back.left - back.expired
          /\ Increasing(back.slots, nextId)
      <4>1. CASE resp < r.req
        <5>1. back = TakeBack(queue, own, r.req - resp, t) /\ r.req - resp \in Nat
          BY <1>5, <4>1 DEF back
        <5> QED BY <1>1, <1>2, <5>1, TakeBackTakes DEF own
      <4>2. CASE ~(resp < r.req)
        <5>1. r.req = resp /\ back.slots = queue.slots /\ back.left = 0 /\ back.expired = 0
          BY <1>5, <4>2 DEF back
        <5> QED BY <1>1, <1>2, <1>5, <2>0, <5>1
      <4> QED BY <4>1, <4>2
    <3>2. /\ adjusted \in Seq(Slot) /\ Len(adjusted) = Len(back.slots)
          /\ \A k \in 1..Len(back.slots) : /\ adjusted[k].available = back.slots[k].available
                                           /\ adjusted[k].id = back.slots[k].id
      <4>1. /\ DOMAIN back.slots = 1..Len(back.slots) /\ Len(back.slots) \in Nat
            /\ \A k \in 1..Len(back.slots) : back.slots[k] \in Slot
        BY <3>1
      <4>2. ASSUME NEW s \in Slot
            PROVE  /\ [s EXCEPT !.expire_time = valid] \in Slot
                   /\ [s EXCEPT !.expire_time = valid].available = s.available
                   /\ [s EXCEPT !.expire_time = valid].id = s.id
        BY <1>5 DEF Slot
      <4>3. ASSUME NEW k \in 1..Len(back.slots)
            PROVE  /\ adjusted[k] \in Slot /\ adjusted[k].available = back.slots[k].available
                   /\ adjusted[k].id = back.slots[k].id
        <5>1. \/ adjusted[k] = [back.slots[k] EXCEPT !.expire_time = valid]
              \/ adjusted[k] = back.slots[k]
          BY <4>1 DEF adjusted
        <5> QED BY <4>1, <4>2, <5>1
      <4>4. adjusted \in [1..Len(back.slots) -> Slot]
        <5>1. DOMAIN adjusted = 1..Len(back.slots) /\ adjusted = [k \in DOMAIN adjusted |-> adjusted[k]]
          BY <4>1 DEF adjusted
        <5> QED BY <4>3, <5>1
      <4>5. adjusted \in Seq(Slot) /\ Len(adjusted) = Len(back.slots)
        BY <4>1, <4>4
      <4> QED BY <4>3, <4>5
    <3>3. Pool(adjusted) = Pool(back.slots) /\ Increasing(adjusted, nextId)
      BY <3>1, <3>2, SameTokens
    <3>4. queue' \in QueueType /\ queue'.slots = adjusted
      BY <1>2, <1>4, <2>1, <3>2 DEF QueueType
    <3>5. balance' = balance + resp + back.left - back.expired /\ nextId' = nextId /\ balance' \in Int
      <4>1. balance' = balance + resp + back.left - back.expired /\ nextId' = nextId
        BY <1>4, <2>1, Zenon
      <4>2. balance \in Int /\ resp \in Int /\ back.left \in Int /\ back.expired \in Int
        BY <1>2, <1>5, <3>1
      <4> QED BY <4>1, <4>2
    <3>6. (Pool(queue.slots) - (r.req - resp) + back.left - back.expired)
            - (balance + resp + back.left - back.expired)
            = Pool(queue.slots) - balance - r.req
      <4>1. balance \in Int /\ resp \in Int /\ r.req \in Int /\ back.left \in Int /\ back.expired \in Int
        BY <1>2, <1>5, <3>1
      <4> QED BY <2>0, <4>1
    <3>7. Pool(queue'.slots) - balance' = Pool(queue.slots) - balance - r.req
      BY <3>1, <3>3, <3>4, <3>5, <3>6, Zenon
    <3>8. nextId' \in Nat /\ nextId <= nextId' /\ Increasing(queue'.slots, nextId')
      BY <1>2, <3>3, <3>4, <3>5
    <3> QED BY <2>1, <3>4, <3>5, <3>7, <3>8
  <2>2. CASE r.id = 0 /\ resp > 0
    <3>1. NewSlotId = nextId + 1
      BY DEF NewSlotId
    <3>2. new \in Slot /\ new.id = nextId + 1 /\ new.available = resp
      BY <1>2, <1>5, <3>1 DEF new, Slot
    <3>3. /\ queue' = Push(queue, new) /\ nextId' = nextId + 1 /\ balance' = balance + resp
      BY <1>4, <2>2, <3>1
    <3>4. queue'.slots = Append(queue.slots, new) /\ queue' \in QueueType
      <4>1. Append(queue.slots, new) \in Seq(Slot) /\ queue.size \in Nat \ {0}
        BY <1>2, <3>2 DEF QueueType
      <4> QED BY <3>3, <4>1 DEF Push, QueueType
    <3>5. Pool(Append(queue.slots, new)) = Pool(queue.slots) + resp
      BY <1>2, <1>5, <3>2, PushAdds
    <3>6. Increasing(Append(queue.slots, new), nextId + 1)
      BY <1>1, <1>2, <3>2, IncreasingPush
    <3>7. nextId + 1 \in Nat /\ nextId <= nextId + 1 /\ balance + resp \in Int
      BY <1>2, <1>5
    <3>8. Pool(queue'.slots) - balance' = Pool(queue.slots) - balance - 0
      BY <1>2, <1>5, <2>0, <3>3, <3>4, <3>5
    <3> QED BY <2>2, <3>3, <3>4, <3>6, <3>7, <3>8
  <2>3. CASE r.id = 0 /\ ~(resp > 0)
    <3>1. resp = 0 /\ queue' = queue /\ nextId' = nextId /\ balance' = balance
      <4>1. resp = 0
        BY <1>5, <2>3
      <4> QED BY <1>2, <1>4, <2>3, <4>1
    <3> QED BY <1>1, <1>2, <2>0, <2>3, <3>1
  <2> QED BY <2>1, <2>2, <2>3
<1>8. Shapes'
  BY <1>2, <1>4, <1>6, <1>7 DEF Shapes
<1>9. Distinct(pending', nextId')
  <2>1. \A k \in 1..Len(pending') : pending'[k].id \in 0..nextId'
    BY <1>2, <1>6, <1>7 DEF Distinct
  <2> QED BY <1>6, <2>1 DEF Distinct
<1>10. TokensConserved'
  <2>1. Pool(queue.slots) = balance + OwedAll(pending)
    BY <1>2, BorrowedSum DEF PrefetchInv, TokensConserved, Borrowed
  <2>2. Borrowed' = OwedAll(pending')
    BY <1>6, BorrowedSum DEF Borrowed
  <2>3. Pool(queue'.slots) = balance' + OwedAll(pending')
    <3>1. Pool(queue'.slots) \in Nat
      BY <1>7, PoolSum DEF QueueType
    <3>2. r.req \in Nat
      BY <1>5
    <3> QED BY <1>2, <1>6, <1>7, <2>1, <3>1, <3>2
  <2>4. \A k \in DOMAIN queue'.slots : queue'.slots[k].available >= 0
    BY <1>7, ConservedIfSum DEF QueueType
  <2> QED BY <2>2, <2>3, <2>4 DEF TokensConserved
<1> QED BY <1>7, <1>8, <1>9, <1>10 DEF PrefetchInv, IdsInOrder

-----------------------------------------------------------------------------
(* The theorems *)

\* The clock readings are integers (Readings).
LEMMA ReadingsAreInts == ASSUME now \in Nat PROVE Readings \subseteq Int
BY QuotaPrefetchAssumption DEF Readings

\* PrefetchInv holds in every reachable state: QuotaPrefetch's slots, requests and
\* counter stay well-formed, and the next three theorems follow from it.
THEOREM PrefetchInvariant == Spec => []PrefetchInv
<1>1. Init => PrefetchInv
  BY PrefetchInit
<1>2. PrefetchInv /\ [Next]_vars => PrefetchInv'
  <2> SUFFICES ASSUME PrefetchInv, [Next]_vars PROVE PrefetchInv'
    OBVIOUS
  <2>1. now \in Nat
    BY DEF PrefetchInv, Shapes
  <2>2. Readings \subseteq Int
    BY <2>1, ReadingsAreInts
  <2>3. CASE UNCHANGED <<now, queue, counter, last, nextId, pending, balance>>
    BY <2>3 DEF PrefetchInv, Shapes, IdsInOrder, TokensConserved, Borrowed
  <2>4. CASE Tick
    <3>1. now' \in Nat /\ UNCHANGED <<queue, counter, last, nextId, pending, balance>>
      BY <2>1, <2>4 DEF Tick
    <3> QED BY <3>1 DEF PrefetchInv, Shapes, IdsInOrder, TokensConserved, Borrowed
  <2>5. ASSUME NEW t \in Readings, NEW amount \in CheckAmounts, Check(amount, t)
        PROVE  PrefetchInv'
    <3>1. amount \in Nat \ {0}
      BY QuotaPrefetchAssumption
    <3> QED BY <2>2, <2>5, <3>1, CheckKeeps
  <2>6. ASSUME NEW t \in Readings, NEW i \in DOMAIN pending, NEW e \in Expirations,
               NEW grant \in -1..pending[i].req, OnResponse(i, grant, e, t)
        PROVE  PrefetchInv'
    BY <2>2, <2>6, ResponseKeeps
  <2> QED BY <2>3, <2>4, <2>5, <2>6 DEF Next, vars
<1> QED BY <1>1, <1>2, PTL DEF Spec

\* No token appears or vanishes: whatever order Checks, answers and failures come
\* in, the pool is what was granted or is still borrowed, less what was used,
\* expired or could not be taken back (Check, Substract, OnResponse).
THEOREM Conservation == Spec => []TokensConserved
<1>1. PrefetchInv => TokensConserved
  BY DEF PrefetchInv
<1> QED BY <1>1, PrefetchInvariant, PTL

\* Slot ids tell slots apart, and no two requests in flight share one (Add,
\* FindSlotById).
THEOREM SlotIds == Spec => []SlotIdsDistinct
<1>1. PrefetchInv => SlotIdsDistinct
  BY IdsInOrderDistinct DEF PrefetchInv
<1> QED BY <1>1, PrefetchInvariant, PTL

\* What a Check's Substract leaves over, and takes, of the queue it works on.
LEMMA CheckTakes ==
  ASSUME NEW amount \in Nat \ {0}, NEW t \in Int, NEW p, NEW q, NEW sub,
         CheckOutcome(amount, t, p, q, sub)
  PROVE  /\ LiveAll(q.slots, t) \in Nat /\ q.slots \in Seq(Slot) /\ sub.slots \in Seq(Slot)
         /\ sub.left = Maximum(0, amount - LiveAll(q.slots, t))
         /\ LiveAll(sub.slots, t) = LiveAll(q.slots, t) - (amount - sub.left)
         /\ CountAvailable(q, t) = IF QueueFull(q) THEN 0 ELSE LiveAll(q.slots, t)
<1>1. SubstractKeeps(q.slots, amount, t, sub) /\ q \in QueueType
  BY Zenon DEF CheckOutcome
<1>2. q.slots \in Seq(Slot)
  BY <1>1 DEF QueueType
<1>3. CountAvailable(q, t) = (IF QueueFull(q) THEN 0 ELSE LiveAll(q.slots, t))
      /\ LiveAll(q.slots, t) \in Nat
  BY <1>1, VisibleTokens
<1>4. /\ sub.slots \in Seq(Slot) /\ sub.left = Maximum(0, amount - LiveAll(q.slots, t))
      /\ LiveAll(sub.slots, t) = LiveAll(q.slots, t) - (amount - sub.left)
  BY <1>1, Zenon DEF SubstractKeeps
<1> QED BY <1>2, <1>3, <1>4

\* While the server grants what is asked, a Check for one token passes whatever
\* has expired: an empty pool borrows (AttemptPrefetch, UseNotGranted).
THEOREM OpenPasses == Spec => OpenNeverRejectsOne
<1>1. PrefetchInv => \A t \in Readings : mode = "OPEN" /\ Check(1, t) => ret'
  <2> SUFFICES ASSUME PrefetchInv, NEW t \in Readings, mode = "OPEN", Check(1, t) PROVE ret'
    OBVIOUS
  <2>1. Shapes /\ Increasing(queue.slots, nextId) /\ t \in Int /\ 1 \in Nat \ {0}
    BY ReadingsAreInts DEF PrefetchInv, Shapes, IdsInOrder
  <2>2. PICK p, q, sub : CheckOutcome(1, t, p, q, sub)
    <3>1. \E p, q, sub : CheckOutcome(1, t, p, q, sub)
      BY <2>1, CheckDoes
    <3> QED BY <3>1
  <2>3. /\ LiveAll(q.slots, t) \in Nat
        /\ sub.left = Maximum(0, 1 - LiveAll(q.slots, t))
    BY <2>1, <2>2, CheckTakes
  <2>4. /\ CountAvailable(queue, t) = 0 => p.borrow
        /\ p.borrow => 1 <= p.req
        /\ p.req \in Nat /\ p.borrow \in BOOLEAN
        /\ LiveAll(q.slots, t) = LiveAll(queue.slots, t) + (IF p.borrow THEN p.req ELSE 0)
        /\ ret' = IF 1 = 1 THEN sub.left = 0 ELSE CheckMinAvailable(q, 1, t)
    BY <2>2, Zenon DEF CheckOutcome
  <2>5. /\ LiveAll(queue.slots, t) \in Nat /\ CountAvailable(queue, t) \in Nat
        /\ CountAvailable(queue, t) = IF QueueFull(queue) THEN 0 ELSE LiveAll(queue.slots, t)
    BY <2>1, VisibleTokens DEF Shapes
  <2>6. LiveAll(q.slots, t) > 0
    <3>1. CASE p.borrow
      BY <2>4, <2>5, <3>1
    <3>2. CASE ~p.borrow
      <4>1. CountAvailable(queue, t) # 0 /\ LiveAll(queue.slots, t) > 0
        BY <2>4, <2>5, <3>2
      <4>2. LiveAll(q.slots, t) = LiveAll(queue.slots, t) + 0
        BY <2>4, <3>2
      <4> QED BY <2>5, <4>1, <4>2
    <3> QED BY <3>1, <3>2
  <2>7. sub.left = 0
    BY <2>3, <2>6 DEF Maximum
  <2> QED BY <2>4, <2>7, Zenon
<1> QED BY <1>1, PrefetchInvariant, PTL DEF OpenNeverRejectsOne

\* A granted Check takes exactly its amount of unexpired tokens, a rejected one
\* none, apart from tokens the same call borrowed (Check, Substract).
THEOREM CheckIsExact == Spec => TakesExactly
<1>1. PrefetchInv => \A t \in Readings, amount \in CheckAmounts : Check(amount, t) =>
       LET all(q) == LiveSum(q.slots, Len(q.slots), t)
           borrowed == IF nextId' = nextId THEN 0 ELSE Last(pending').req
       IN all(queue') = all(queue) + borrowed - (IF ret' THEN amount ELSE 0)
  <2> SUFFICES ASSUME PrefetchInv, NEW t \in Readings, NEW amount \in CheckAmounts, Check(amount, t)
               PROVE  LiveAll(queue'.slots, t)
                        = LiveAll(queue.slots, t) + (IF nextId' = nextId THEN 0 ELSE Last(pending').req)
                          - (IF ret' THEN amount ELSE 0)
    BY DEF LiveAll
  <2>1. /\ Shapes /\ Increasing(queue.slots, nextId) /\ t \in Int /\ amount \in Nat \ {0}
        /\ nextId \in Nat /\ pending \in Seq(Request)
    BY QuotaPrefetchAssumption, ReadingsAreInts DEF PrefetchInv, Shapes, IdsInOrder
  <2>2. PICK p, q, sub : CheckOutcome(amount, t, p, q, sub)
    BY <2>1, CheckDoes
  <2>3. /\ LiveAll(q.slots, t) \in Nat /\ q.slots \in Seq(Slot) /\ sub.slots \in Seq(Slot)
        /\ sub.left = Maximum(0, amount - LiveAll(q.slots, t))
        /\ LiveAll(sub.slots, t) = LiveAll(q.slots, t) - (amount - sub.left)
        /\ CountAvailable(q, t) = IF QueueFull(q) THEN 0 ELSE LiveAll(q.slots, t)
    BY <2>1, <2>2, CheckTakes
  <2>4. /\ p.req \in Nat /\ p.borrow \in BOOLEAN /\ (p.borrow => p.req # 0) /\ q \in QueueType
        /\ LiveAll(q.slots, t) = LiveAll(queue.slots, t) + (IF p.borrow THEN p.req ELSE 0)
        /\ pending' = IF p.req = 0 THEN pending
                      ELSE Append(pending, [id |-> IF p.borrow THEN nextId + 1 ELSE 0, req |-> p.req])
        /\ nextId' = IF p.borrow THEN nextId + 1 ELSE nextId
    BY <2>2, Zenon DEF CheckOutcome
  <2>5. /\ ret' = IF amount = 1 THEN sub.left = 0 ELSE CheckMinAvailable(q, amount, t)
        /\ amount = 1 \/ ret' => queue' = [q EXCEPT !.slots = sub.slots]
        /\ ~(amount = 1 \/ ret') => queue' = q
    BY <2>2, Zenon DEF CheckOutcome
  <2>6. (IF nextId' = nextId THEN 0 ELSE Last(pending').req) = IF p.borrow THEN p.req ELSE 0
    <3>1. CASE p.borrow
      <4> DEFINE r == [id |-> nextId + 1, req |-> p.req]
      <4>1. nextId' # nextId /\ pending' = Append(pending, r) /\ r.req = p.req
        BY <2>1, <2>4, <3>1
      <4> HIDE DEF r
      <4>2. Last(Append(pending, r)) = r
        BY <2>1 DEF Last
      <4> QED BY <3>1, <4>1, <4>2
    <3>2. CASE ~p.borrow
      BY <2>4, <3>2
    <3> QED BY <3>1, <3>2
  <2>7. LiveAll(queue'.slots, t) = LiveAll(q.slots, t) - (IF ret' THEN amount ELSE 0)
    <3>1. q.slots = q.slots /\ [q EXCEPT !.slots = sub.slots].slots = sub.slots
      BY <2>4 DEF QueueType
    <3>2. CASE ret'
      <4>1. sub.left = 0
        <5>1. CASE amount = 1
          BY <2>5, <3>2, <5>1, Zenon
        <5>2. CASE amount # 1
          <6>1. CheckMinAvailable(q, amount, t)
            BY <2>5, <3>2, <5>2, Zenon
          <6>2. CountAvailable(q, t) >= amount
            BY <6>1 DEF CheckMinAvailable
          <6>3. LiveAll(q.slots, t) >= amount
            BY <2>1, <2>3, <6>2
          <6> QED BY <2>1, <2>3, <6>3 DEF Maximum
        <5> QED BY <5>1, <5>2
      <4>2. queue'.slots = sub.slots
        BY <2>5, <3>1, <3>2, Zenon
      <4>3. LiveAll(sub.slots, t) = LiveAll(q.slots, t) - amount
        BY <2>1, <2>3, <4>1
      <4> QED BY <3>2, <4>2, <4>3
    <3>3. CASE ~ret' /\ amount = 1
      <4>1. sub.left # 0 /\ queue'.slots = sub.slots
        BY <2>5, <3>1, <3>3, Zenon
      <4>2. sub.left = 1 /\ LiveAll(q.slots, t) = 0
        BY <2>3, <3>3, <4>1 DEF Maximum
      <4>3. LiveAll(sub.slots, t) = LiveAll(q.slots, t) - 0
        BY <2>3, <3>3, <4>2
      <4> QED BY <3>3, <4>1, <4>3
    <3>4. CASE ~ret' /\ amount # 1
      <4>1. queue' = q
        BY <2>5, <3>4, Zenon
      <4> QED BY <2>3, <3>4, <4>1
    <3> QED BY <3>2, <3>3, <3>4
  <2> DEFINE lent == IF nextId' = nextId THEN 0 ELSE Last(pending').req
             used == IF ret' THEN amount ELSE 0
  <2>8. LiveAll(queue.slots, t) \in Int /\ used \in Int /\ lent \in Int
    <3>1. LiveAll(queue.slots, t) \in Nat
      BY <2>1, LiveAllSum DEF Shapes, QueueType
    <3>2. (IF p.borrow THEN p.req ELSE 0) \in Int
      BY <2>4
    <3> QED BY <2>1, <2>6, <3>1, <3>2
  <2>9. LiveAll(q.slots, t) = LiveAll(queue.slots, t) + lent
    BY <2>4, <2>6, Zenon
  <2>10. LiveAll(queue'.slots, t) = LiveAll(q.slots, t) - used
    BY <2>7
  <2> HIDE DEF lent, used
  <2>11. LiveAll(queue'.slots, t) = LiveAll(queue.slots, t) + lent - used
    BY <2>8, <2>9, <2>10
  <2> QED BY <2>11 DEF lent, used
<1> QED BY <1>1, PrefetchInvariant, PTL DEF TakesExactly

\* A Check is rejected only when the pool has too few unexpired tokens or the ring
\* is exactly full, so that Iterate hides them (CheckMinAvailable).
THEOREM Rejections == Spec => RejectsOnlyWhenShortOrFull
<1>1. PrefetchInv => \A t \in Readings, amount \in CheckAmounts : Check(amount, t) /\ ~ret' =>
       \/ LiveSum(queue.slots, Len(queue.slots), t) < amount
       \/ QueueFull(queue)
  <2> SUFFICES ASSUME PrefetchInv, NEW t \in Readings, NEW amount \in CheckAmounts,
                      Check(amount, t), ~ret', ~QueueFull(queue)
               PROVE  LiveAll(queue.slots, t) < amount
    BY DEF LiveAll
  <2>1. Shapes /\ Increasing(queue.slots, nextId) /\ t \in Int /\ amount \in Nat \ {0}
    BY QuotaPrefetchAssumption, ReadingsAreInts DEF PrefetchInv, Shapes, IdsInOrder
  <2>2. PICK p, q, sub : CheckOutcome(amount, t, p, q, sub)
    BY <2>1, CheckDoes
  <2>3. /\ LiveAll(q.slots, t) \in Nat /\ q.slots \in Seq(Slot) /\ sub.slots \in Seq(Slot)
        /\ sub.left = Maximum(0, amount - LiveAll(q.slots, t))
        /\ LiveAll(sub.slots, t) = LiveAll(q.slots, t) - (amount - sub.left)
        /\ CountAvailable(q, t) = IF QueueFull(q) THEN 0 ELSE LiveAll(q.slots, t)
    BY <2>1, <2>2, CheckTakes
  <2>4. /\ LiveAll(queue.slots, t) \in Nat
        /\ CountAvailable(queue, t) = LiveAll(queue.slots, t)
    BY <2>1, VisibleTokens DEF Shapes
  <2>5. /\ p.borrow => CountAvailable(queue, t) = 0
        /\ ~p.borrow => q = queue
        /\ ret' = IF amount = 1 THEN sub.left = 0 ELSE CheckMinAvailable(q, amount, t)
    BY <2>2, Zenon DEF CheckOutcome
  <2>6. CASE p.borrow
    BY <2>1, <2>4, <2>5, <2>6
  <2>7. CASE ~p.borrow /\ amount = 1
    <3>1. sub.left # 0 /\ q = queue
      BY <2>5, <2>7, Zenon
    <3> QED BY <2>1, <2>3, <2>4, <2>7, <3>1 DEF Maximum
  <2>8. CASE ~p.borrow /\ amount # 1
    <3>1. ~CheckMinAvailable(q, amount, t) /\ q = queue
      BY <2>5, <2>8, Zenon
    <3> QED BY <2>1, <2>4, <3>1 DEF CheckMinAvailable
  <2> QED BY <2>6, <2>7, <2>8
<1> QED BY <1>1, PrefetchInvariant, PTL DEF RejectsOnlyWhenShortOrFull
=============================================================================
