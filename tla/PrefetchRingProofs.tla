-------------------------- MODULE PrefetchRingProofs --------------------------
(***************************************************************************)
(* The two rings of src/prefetch.                                          *)
(*                                                                         *)
(* The ring buffer is a FIFO queue, for every initial size and any set of  *)
(* items: RingOK is inductive together with TypeOK, and under both of them *)
(* each operation maps to the operation of FifoQueue with the same name.   *)
(*                                                                         *)
(* The sliding window counts what was counted in it, for every number and  *)
(* length of slots: each slot holds what was counted in its own stretch of *)
(* time, and the stretches lie one after the other (WindowOK).             *)
(***************************************************************************)
EXTENDS CircularQueue, CounterWindow, SequenceTheorems, DataTheorems

Inv == TypeOK /\ RingOK

\* (i + 1) % n, as Push and Pop compute it, is a step that wraps at n.
LEMMA WrapStep ==
  ASSUME NEW n \in Nat \ {0}, NEW i \in 0..n-1
  PROVE  (i + 1) % n = IF i + 1 = n THEN 0 ELSE i + 1
  OBVIOUS

\* Tail, written out.
LEMMA TailIs ==
  ASSUME NEW S, NEW s \in Seq(S), s # <<>>
  PROVE  Tail(s) = [i \in 1..Len(s)-1 |-> s[i + 1]]
<1>1. /\ Tail(s) \in Seq(S) /\ Len(Tail(s)) = Len(s) - 1
      /\ \A i \in 1..Len(Tail(s)) : Tail(s)[i] = s[i + 1]
  BY HeadTailProperties
<1> DEFINE t == [i \in 1..Len(s)-1 |-> s[i + 1]]
<1>2. t \in Seq(S) /\ Len(t) = Len(s) - 1 /\ \A i \in 1..Len(s)-1 : t[i] = s[i + 1]
  BY <1>1
<1> HIDE DEF t
<1>3. Tail(s) = t
  BY <1>1, <1>2, SeqEqual
<1> QED BY <1>3 DEF t

\* head_ and count_ within the ring keep NodeAt within the ring.
LEMMA NodeInRing ==
  ASSUME Inv, NEW i \in 0..count-1
  PROVE  NodeAt(i) \in 0..size-1
  BY DEF Inv, TypeOK, NodeAt

\* Push tells an empty ring from a full one: it grows when count_ = size.
LEMMA FullIffFull ==
  ASSUME Inv
  PROVE  Full <=> count = size
  BY DEF Inv, TypeOK, RingOK, Full

\* The abstract queue is a sequence of pushed items, as long as count_.
LEMMA ItemsSeq ==
  ASSUME Inv
  PROVE  Items \in Seq(Values) /\ Len(Items) = count /\ DOMAIN Items = 1..count
  BY DEF Inv, TypeOK, RingOK, Items

\* The constructor's empty ring satisfies the invariant.
LEMMA InitInv == Init => Inv
  BY CircularQueueAssumption DEF Init, Inv, TypeOK, RingOK, Items

\* Push keeps the invariant and appends to the abstract queue.
LEMMA PushStep ==
  ASSUME Inv, NEW v \in Values, Push(v)
  PROVE  Inv' /\ Items' = Append(Items, v)
<1> DEFINE n  == IF Full THEN 2 * size ELSE size
           ns == IF Full THEN Grow ELSE nodes
           t  == IF Full THEN tail + size ELSE tail
<1>1. size' = n /\ nodes' = [ns EXCEPT ![t] = v] /\ tail' = (t + 1) % n
  BY DEF Push
<1>2. n \in Nat \ {0} /\ t \in 0..n-1 /\ count < n
  BY FullIffFull DEF Inv, TypeOK
<1>3. tail' = IF t + 1 = n THEN 0 ELSE t + 1
  BY <1>1, <1>2, WrapStep
<1>4. ns \in [0..n-1 -> Values \cup {Fresh}]
  BY DEF Inv, TypeOK, Grow
<1>5. nodes' \in [0..n-1 -> Values \cup {Fresh}]
      /\ nodes'[t] = v
      /\ \A i \in 0..n-1 : i # t => nodes'[i] = ns[i]
  BY <1>1, <1>2, <1>4
<1>6. count' = count + 1 /\ head' = head /\ visited' = visited
  BY DEF Push
<1>7. t = IF head + count < n THEN head + count ELSE head + count - n
  BY FullIffFull DEF Inv, TypeOK, RingOK, Full
<1>8. ASSUME NEW i \in 1..count
      PROVE  nodes'[NodeAt(i - 1)'] = nodes[NodeAt(i - 1)]
  <2>1. CASE Full
    <3>1. count = size /\ n = 2 * size /\ t = head + size /\ ns = Grow /\ head = tail
      BY <2>1, FullIffFull DEF Full
    <3>2. NodeAt(i - 1)' = head + (i - 1)
      BY <1>1, <1>6, <3>1 DEF NodeAt, Inv, TypeOK
    <3>3. head + (i - 1) \in 0..n-1 /\ head + (i - 1) # t
      BY <3>1 DEF Inv, TypeOK
    <3>4. nodes'[NodeAt(i - 1)'] = Grow[head + (i - 1)]
      BY <1>5, <3>1, <3>2, <3>3
    <3>5. CASE head + (i - 1) < size
      BY <3>5, <3>4, <3>3, <3>1 DEF Grow, NodeAt, Inv, TypeOK
    <3>6. CASE ~(head + (i - 1) < size)
      <4>1. head + (i - 1) - size <= head
        BY <3>1 DEF Inv, TypeOK
      <4>2. Grow[head + (i - 1)] = nodes[head + (i - 1) - size]
        BY <4>1, <3>6, <3>3, <3>1 DEF Grow, Inv, TypeOK
      <4> QED BY <4>2, <3>4, <3>6 DEF NodeAt
    <3> QED BY <3>5, <3>6
  <2>2. CASE ~Full
    <3>1. NodeAt(i - 1)' = NodeAt(i - 1) /\ n = size /\ t = tail /\ ns = nodes
      BY <2>2, <1>1, <1>6 DEF NodeAt
    <3>2. NodeAt(i - 1) \in 0..n-1 /\ NodeAt(i - 1) # t
      BY <2>2, <1>2, <1>7, <3>1 DEF NodeAt, Inv, TypeOK
    <3> QED BY <3>1, <3>2, <1>5
  <2> QED BY <2>1, <2>2
<1>9. ASSUME NEW i \in 1..count+1, i - 1 = count
      PROVE  nodes'[NodeAt(i - 1)'] = v
  <2>1. NodeAt(i - 1)' = t
    BY <1>1, <1>6, <1>7, <1>9 DEF NodeAt
  <2> QED BY <2>1, <1>5
<1>10. TypeOK'
  BY <1>1, <1>2, <1>3, <1>5, <1>6 DEF Inv, TypeOK
<1>11. Items' = [i \in 1..count+1 |-> IF i <= count THEN Items[i] ELSE v]
  <2>1. Items' = [i \in 1..count' |-> nodes'[NodeAt(i - 1)']]
    BY DEF Items
  <2>2. ASSUME NEW i \in 1..count+1
        PROVE  nodes'[NodeAt(i - 1)'] = IF i <= count THEN Items[i] ELSE v
    <3>1. CASE i <= count
      BY <3>1, <1>8, i \in 1..count DEF Items, Inv, TypeOK
    <3>2. CASE ~(i <= count)
      <4>1. i - 1 = count
        BY <3>2 DEF Inv, TypeOK
      <4> QED BY <4>1, <1>9, <3>2 DEF Inv, TypeOK
    <3> QED BY <3>1, <3>2
  <2> QED BY <2>1, <2>2, <1>6
<1>12. Items' = Append(Items, v)
  BY <1>11, ItemsSeq DEF Inv, TypeOK
<1>13. \A i \in 1..count' : Items'[i] \in Values
  BY <1>11, <1>6 DEF Inv, TypeOK, RingOK
<1>14. tail' = IF head' + count' < size' THEN head' + count' ELSE head' + count' - size'
  BY <1>1, <1>2, <1>3, <1>6, <1>7 DEF Inv, TypeOK
<1> QED
  BY <1>10, <1>12, <1>13, <1>14 DEF Inv, RingOK

\* Pop keeps the invariant and removes the oldest item, if there is one.
LEMMA PopStep ==
  ASSUME Inv, Pop
  PROVE  Inv' /\ Items' = IF Items = <<>> THEN Items ELSE Tail(Items)
<1>1. CASE count = 0
  <2>1. Items' = Items /\ Items = <<>>
    BY <1>1, ItemsSeq DEF Pop, Items, NodeAt
  <2>2. UNCHANGED <<nodes, size, head, tail, count, visited>>
    BY <1>1 DEF Pop
  <2> QED BY <2>1, <2>2 DEF Inv, TypeOK, RingOK
<1>2. CASE count # 0
  <2>1. /\ head' = IF head + 1 = size THEN 0 ELSE head + 1
        /\ count' = count - 1
        /\ UNCHANGED <<nodes, size, tail, visited>>
    BY <1>2, WrapStep DEF Pop, Inv, TypeOK
  <2>2. TypeOK'
    BY <1>2, <2>1 DEF Inv, TypeOK
  <2>3. ASSUME NEW i \in 1..count-1
        PROVE  nodes'[NodeAt(i - 1)'] = nodes[NodeAt(i)]
    BY <2>1 DEF NodeAt, Inv, TypeOK
  <2>4. Items' = [i \in 1..count-1 |-> Items[i + 1]]
    <3>1. Items' = [i \in 1..count-1 |-> nodes'[NodeAt(i - 1)']]
      BY <2>1 DEF Items
    <3>2. ASSUME NEW i \in 1..count-1
          PROVE  nodes[NodeAt(i)] = Items[i + 1]
      <4>1. i + 1 \in 1..count /\ i + 1 - 1 = i
        BY DEF Inv, TypeOK
      <4> QED BY <4>1 DEF Items
    <3> QED BY <3>1, <3>2, <2>3
  <2>5. Items # <<>> /\ Tail(Items) = [i \in 1..count-1 |-> Items[i + 1]]
    <3>1. Items # <<>>
      BY <1>2, ItemsSeq
    <3> QED BY <3>1, ItemsSeq, TailIs
  <2>6. \A i \in 1..count' : Items'[i] \in Values
    BY <2>1, <2>4 DEF Inv, TypeOK, RingOK
  <2>7. tail' = IF head' + count' < size' THEN head' + count' ELSE head' + count' - size'
    BY <1>2, <2>1 DEF Inv, TypeOK, RingOK
  <2> QED BY <2>2, <2>4, <2>5, <2>6, <2>7 DEF Inv, RingOK
<1> QED BY <1>1, <1>2

\* Writing w to the k-th node from the head replaces the k-th item only.
LEMMA WriteItem ==
  ASSUME Inv, NEW k \in 1..count, NEW w \in Values,
         nodes' = [nodes EXCEPT ![NodeAt(k - 1)] = w],
         UNCHANGED <<size, head, tail, count>>, visited' \in Seq(Values)
  PROVE  Inv' /\ Items' = [Items EXCEPT ![k] = w]
<1>1. TypeOK'
  BY DEF Inv, TypeOK
<1>2. Items' = [i \in 1..count |-> nodes'[NodeAt(i - 1)]]
  BY DEF Items, NodeAt
<1>3. ASSUME NEW i \in 1..count
      PROVE  nodes'[NodeAt(i - 1)] = IF i = k THEN w ELSE Items[i]
  <2>1. NodeAt(i - 1) \in 0..size-1 /\ NodeAt(k - 1) \in 0..size-1
    BY NodeInRing DEF Inv, TypeOK
  <2>2. NodeAt(i - 1) = NodeAt(k - 1) <=> i = k
    BY DEF NodeAt, Inv, TypeOK
  <2> QED BY <2>1, <2>2 DEF Inv, TypeOK, Items
<1>4. Items' = [Items EXCEPT ![k] = w]
  BY <1>2, <1>3, ItemsSeq
<1>5. RingOK'
  BY <1>2, <1>3 DEF Inv, RingOK
<1> QED BY <1>1, <1>4, <1>5 DEF Inv

\* Writing through Head() keeps the invariant and replaces the first item.
LEMMA SetHeadStep ==
  ASSUME Inv, NEW v \in Values, SetHead(v)
  PROVE  Inv' /\ Items # <<>> /\ Items' = [Items EXCEPT ![1] = v]
<1>1. 1 \in 1..count /\ NodeAt(1 - 1) = head
  BY DEF SetHead, Inv, TypeOK, NodeAt
<1>2. nodes' = [nodes EXCEPT ![NodeAt(1 - 1)] = v]
  BY <1>1 DEF SetHead
<1>3. visited' \in Seq(Values) /\ UNCHANGED <<size, head, tail, count>>
  BY DEF SetHead, Inv, TypeOK
<1>4. Inv' /\ Items' = [Items EXCEPT ![1] = v]
  BY <1>1, <1>2, <1>3, WriteItem
<1>5. Items # <<>>
  BY <1>1, ItemsSeq
<1> QED BY <1>4, <1>5

\* Iterate keeps the invariant and is a walk of the abstract queue: up to the
\* stop, to the end, or, when the ring is full, of nothing.
LEMMA IterateStep ==
  ASSUME Inv, NEW stop \in Values, NEW w \in Values, Iterate(stop, w)
  PROVE  Inv' /\ Fifo!Iterate(stop, w)
<1>1. PICK k \in 0..Span : Walk(stop, w, k)
  BY DEF Iterate
<1>2. UNCHANGED <<size, head, tail, count>>
  BY DEF Iterate
<1>3. Span \in {0, count}
  BY DEF Span, Inv, TypeOK, RingOK
<1>4. k \in 0..count /\ k \in 0..Len(Items)
  BY <1>3, ItemsSeq DEF Inv, TypeOK
<1>5. visited' = SubSeq(Items, 1, k) /\ visited' \in Seq(Values)
  BY <1>1, <1>4, ItemsSeq DEF Walk
<1>6. CASE k >= 1 /\ Items[k] = stop /\ nodes' = [nodes EXCEPT ![NodeAt(k - 1)] = w]
  <2>0. k \in 1..count
    BY <1>4, <1>6
  <2>1. Inv' /\ Items' = [Items EXCEPT ![k] = w]
    BY <1>2, <1>5, <1>6, <2>0, WriteItem
  <2>2. Fifo!Walk(stop, w, k)
    BY <1>1, <1>6, <2>1 DEF Walk, Fifo!Walk
  <2> QED BY <2>1, <2>2, <1>4 DEF Fifo!Iterate
<1>7. CASE k = Span /\ (k >= 1 => Items[k] # stop) /\ UNCHANGED nodes
  <2>1. Items' = Items
    BY <1>2, <1>7 DEF Items, NodeAt
  <2>2. Inv'
    BY <1>2, <1>5, <1>7, <2>1 DEF Inv, TypeOK, RingOK
  <2>3. k \in {0, Len(Items)}
    BY <1>3, <1>7, ItemsSeq
  <2>4. Fifo!Walk(stop, w, k)
    BY <1>1, <1>7, <2>1, <2>3 DEF Walk, Fifo!Walk
  <2> QED BY <2>2, <2>4, <1>4 DEF Fifo!Iterate
<1> QED BY <1>1, <1>6, <1>7 DEF Walk

\* Every step keeps the invariant and maps to a step of the FIFO queue.
LEMMA NextStep ==
  ASSUME Inv, [Next]_vars
  PROVE  Inv' /\ [Fifo!Next]_(Fifo!vars)
<1>1. ASSUME NEW v \in Values, Push(v) PROVE Inv' /\ Fifo!Push(v)
  BY <1>1, PushStep, ItemsSeq DEF Push, Fifo!Push
<1>2. ASSUME NEW v \in Values, SetHead(v) PROVE Inv' /\ Fifo!SetHead(v)
  BY <1>2, SetHeadStep DEF SetHead, Fifo!SetHead
<1>3. CASE Pop
  BY <1>3, PopStep DEF Pop, Fifo!Pop, Fifo!Next
<1>4. ASSUME NEW stop \in Values, NEW w \in Values, Iterate(stop, w)
      PROVE  Inv' /\ Fifo!Iterate(stop, w)
  BY <1>4, IterateStep
<1>5. CASE UNCHANGED vars
  <2>1. Items' = Items
    BY <1>5 DEF vars, Items, NodeAt
  <2> QED BY <1>5, <2>1 DEF vars, Inv, TypeOK, RingOK, Fifo!vars
<1> QED BY <1>1, <1>2, <1>3, <1>4, <1>5 DEF Next, Fifo!Next

\* The ring's bookkeeping never goes wrong (Push, Pop, Head, Iterate).
THEOREM RingSafe == Spec => [](TypeOK /\ RingOK)
<1>1. Init => Inv
  BY InitInv
<1>2. Inv /\ [Next]_vars => Inv'
  BY NextStep
<1>3. Inv => TypeOK /\ RingOK
  BY DEF Inv
<1> QED BY <1>1, <1>2, <1>3, PTL DEF Spec

\* The fields of the ring keep their types: no operation leaves an index
\* outside nodes_ or a count beyond its size (Push, Pop, Iterate).
THEOREM RingTypes == Spec => []TypeOK
BY RingSafe, PTL

\* The ring buffer implements the FIFO queue, for every InitSize, Values and
\* MaxCount: growing and wrapping are invisible to QuotaPrefetch.
THEOREM RingImplementsFifo == Spec => FifoSpec
<1>1. Init => Inv /\ Fifo!Init
  BY InitInv, ItemsSeq DEF Init, Fifo!Init, Items
<1>2. Inv /\ [Next]_vars => Inv' /\ [Fifo!Next]_(Fifo!vars)
  BY NextStep
<1> QED BY <1>1, <1>2, PTL DEF Spec, FifoSpec, Fifo!Spec

\* A walk without a stop misses items only when the ring is exactly full.
THEOREM WalkMissesOnlyWhenFull == Spec => IterateUnlessFull
<1> DEFINE Act == \A stop, w \in Values :
       Iterate(stop, w) /\ (\A j \in 1..count : Items[j] # stop) =>
         visited' = IF count = size THEN <<>> ELSE Items
<1>1. ASSUME Inv PROVE Act
  <2> SUFFICES ASSUME NEW stop \in Values, NEW w \in Values, Iterate(stop, w),
                      \A j \in 1..count : Items[j] # stop
               PROVE  visited' = IF count = size THEN <<>> ELSE Items
    OBVIOUS
  <2>1. PICK k \in 0..Span : Walk(stop, w, k)
    BY DEF Iterate
  <2>2. Span = IF count = size THEN 0 ELSE count
    BY <1>1 DEF Span, Inv, TypeOK, RingOK
  <2>3. k = Span
    BY <1>1, <2>1, <2>2 DEF Walk, Inv, TypeOK
  <2>4. visited' = SubSeq(Items, 1, k)
    BY <2>1 DEF Walk
  <2> QED BY <1>1, <2>2, <2>3, <2>4, ItemsSeq DEF Inv, TypeOK
<1>2. Inv => [Act]_vars
  BY <1>1
<1>3. Init => Inv
  BY InitInv
<1>4. Inv /\ [Next]_vars => Inv'
  BY NextStep
<1> QED BY <1>2, <1>3, <1>4, PTL DEF Spec, IterateUnlessFull

-----------------------------------------------------------------------------
(* The slots of the sliding window *)

\* The length of n slots, and the place of the i-th slot after tail a.
Far(n) == n * SlotDuration
Place(a, i) == (a + i) % WindowSize

\* The time from which a counter counts.
Start(c) == c.last - Far(WindowSize - 1)

\* What was counted from a to before b.
Within(e, a, b) == SumFunctionOnSet(e, {u \in 0..MaxTime : a <= u /\ u < b})

\* From tail a on, the slots of s hold what was counted in one stretch of
\* SlotDuration after the other, the first one beginning at b.
Holds(s, a, b, e) ==
  \A i \in 1..WindowSize : s[Place(a, i)] = Within(e, b + Far(i - 1), b + Far(i))

Slots == [0..WindowSize-1 -> Nat]
History == [0..MaxTime -> Nat]

\* At time t each slot holds what was counted in its stretch, and count all that
\* was counted since the start of the oldest one.
WindowOK(c, e, t) ==
  /\ c = [slots |-> c.slots, count |-> c.count, tail |-> c.tail, last |-> c.last]
  /\ c.slots \in Slots /\ c.count \in Int /\ c.tail \in 0..WindowSize-1 /\ c.last \in Int
  /\ e \in History /\ t \in 0..MaxTime
  /\ c.last <= t /\ t < c.last + SlotDuration
  /\ \A u \in 0..MaxTime : u > t => e[u] = 0
  /\ Holds(c.slots, c.tail, Start(c), e)
  /\ c.count = Within(e, Start(c), Start(c) + Far(WindowSize))

WindowInv == WindowOK(counter, events, asked)

LEMMA CounterConstants ==
  /\ WindowSize \in Nat /\ WindowSize >= 1 /\ SlotDuration \in Nat /\ SlotDuration >= 1
  /\ MaxTime \in Nat /\ MaxTotal \in Nat /\ Amounts \subseteq Nat
BY CounterAssumption, WindowAssumption

\* Multiples of the slot's duration.
LEMMA Multiples ==
  /\ \A i \in Int : Far(i) \in Int /\ Far(i - 1) = Far(i) - SlotDuration
  /\ \A i, j \in Int : Far(i + j) = Far(i) + Far(j)
  /\ \A i, j \in Int : i <= j => Far(i) <= Far(j)
  /\ Far(0) = 0 /\ Far(1) = SlotDuration
BY CounterConstants DEF Far

LEMMA WindowFar ==
  /\ WindowSize \in Int /\ WindowSize - 1 \in Int /\ SlotDuration \in Int /\ 0 < SlotDuration
  /\ Far(WindowSize) \in Int /\ Far(WindowSize - 1) \in Int
  /\ Far(WindowSize - 1) = Far(WindowSize) - SlotDuration
  /\ 0 <= Far(WindowSize - 1) /\ 0 <= Far(WindowSize)
<1>1. /\ WindowSize \in Int /\ WindowSize - 1 \in Int /\ SlotDuration \in Int /\ 0 < SlotDuration
      /\ 0 <= WindowSize /\ 0 <= WindowSize - 1 /\ 0 \in Int
  BY CounterConstants
<1>2. /\ Far(0) <= Far(WindowSize) /\ Far(0) <= Far(WindowSize - 1)
  BY ONLY <1>1, Multiples
<1>3. /\ Far(WindowSize) \in Int /\ Far(WindowSize - 1) \in Int
      /\ Far(WindowSize - 1) = Far(WindowSize) - SlotDuration /\ Far(0) = 0
  BY ONLY <1>1, Multiples
<1> QED BY ONLY <1>1, <1>2, <1>3

\* Whole slots in a stretch of time.
LEMMA WholeSlots ==
  ASSUME NEW d \in Nat, NEW n, n = d \div SlotDuration
  PROVE  n \in Nat /\ Far(n) <= d /\ d < Far(n) + SlotDuration
BY CounterConstants DEF Far

\* An index that has gone past the end once.
LEMMA WrapsOnce ==
  ASSUME NEW a \in 0..WindowSize-1, NEW i \in 0..WindowSize
  PROVE  Place(a, i) = IF a + i < WindowSize THEN a + i ELSE a + i - WindowSize
BY CounterConstants DEF Place

LEMMA PlaceIn ==
  ASSUME NEW a \in 0..WindowSize-1, NEW i \in 0..WindowSize
  PROVE  Place(a, i) \in 0..WindowSize-1
BY CounterConstants DEF Place

LEMMA PlacesDiffer ==
  ASSUME NEW a \in 0..WindowSize-1, NEW i \in 1..WindowSize, NEW j \in 1..WindowSize, i # j
  PROVE  Place(a, i) # Place(a, j)
<1>1. /\ Place(a, i) = IF a + i < WindowSize THEN a + i ELSE a + i - WindowSize
      /\ Place(a, j) = IF a + j < WindowSize THEN a + j ELSE a + j - WindowSize
  BY WrapsOnce
<1> QED BY <1>1, CounterConstants

\* Counted from a tail that has moved n slots on.
LEMMA PlaceAfter ==
  ASSUME NEW a \in 0..WindowSize-1, NEW n \in 0..WindowSize-1, NEW i \in 1..WindowSize
  PROVE  /\ n + i <= WindowSize => Place(Place(a, n), i) = Place(a, n + i)
         /\ ~(n + i <= WindowSize) => Place(Place(a, n), i) = Place(a, (n + i) - WindowSize)
<1> DEFINE b == Place(a, n)
<1>0. n \in 0..WindowSize /\ i \in 0..WindowSize
  BY CounterConstants
<1>1. b \in 0..WindowSize-1 /\ b = IF a + n < WindowSize THEN a + n ELSE a + n - WindowSize
  BY <1>0, WrapsOnce, PlaceIn
<1> HIDE DEF b
<1>2. Place(b, i) = IF b + i < WindowSize THEN b + i ELSE b + i - WindowSize
  BY <1>0, <1>1, WrapsOnce
<1>3. CASE n + i <= WindowSize
  <2>1. n + i \in 0..WindowSize
    BY <1>3
  <2>2. Place(a, n + i)
          = IF a + (n + i) < WindowSize THEN a + (n + i) ELSE a + (n + i) - WindowSize
    BY <2>1, WrapsOnce
  <2>3. Place(b, i) = Place(a, n + i)
    BY <1>1, <1>2, <1>3, <2>2, CounterConstants
  <2> QED BY <1>3, <2>3 DEF b
<1>4. CASE ~(n + i <= WindowSize)
  <2>1. (n + i) - WindowSize \in 0..WindowSize
    BY <1>4, CounterConstants
  <2>2. Place(a, (n + i) - WindowSize)
          = IF a + ((n + i) - WindowSize) < WindowSize THEN a + ((n + i) - WindowSize)
            ELSE a + ((n + i) - WindowSize) - WindowSize
    BY <2>1, WrapsOnce
  <2>3. Place(b, i) = Place(a, (n + i) - WindowSize)
    BY <1>1, <1>2, <1>4, <2>2, CounterConstants
  <2> QED BY <1>4, <2>3 DEF b
<1> QED BY <1>3, <1>4

-----------------------------------------------------------------------------
(* Counting within a stretch of time *)

LEMMA FiniteStretch ==
  ASSUME NEW T, T \subseteq 0..MaxTime
  PROVE  IsFiniteSet(T)
<1>1. IsFiniteSet(0..MaxTime)
  BY CounterConstants, FS_Interval
<1> QED BY <1>1, FS_Subset

LEMMA WithinNat ==
  ASSUME NEW e \in [0..MaxTime -> Nat], NEW a, NEW b
  PROVE  Within(e, a, b) \in Nat
<1> DEFINE T == {u \in 0..MaxTime : a <= u /\ u < b}
<1>1. T \subseteq 0..MaxTime
  OBVIOUS
<1>2. IsFiniteSet(T) /\ \A u \in T : e[u] \in Nat
  BY <1>1, FiniteStretch
<1> HIDE DEF T
<1>3. SumFunctionOnSet(e, T) \in Nat
  BY <1>2, SumNat
<1> QED BY <1>3 DEF T, Within

LEMMA WithinParts ==
  ASSUME NEW e \in [0..MaxTime -> Nat], NEW a \in Int, NEW b \in Int, NEW c \in Int, a <= b, b <= c
  PROVE  Within(e, a, c) = Within(e, a, b) + Within(e, b, c)
<1> DEFINE X == {u \in 0..MaxTime : a <= u /\ u < b}
           Y == {u \in 0..MaxTime : b <= u /\ u < c}
           Z == {u \in 0..MaxTime : a <= u /\ u < c}
<1>1. X \cap Y = {} /\ X \cup Y = Z /\ X \subseteq 0..MaxTime /\ Y \subseteq 0..MaxTime
  BY CounterConstants
<1> HIDE DEF X, Y, Z
<1>2. IsFiniteSet(X) /\ IsFiniteSet(Y)
  BY <1>1, FiniteStretch
<1>3. \A u \in X \cup Y : e[u] \in Int
  BY <1>1
<1>4. SumFunctionOnSet(e, X \cup Y) = SumFunctionOnSet(e, X) + SumFunctionOnSet(e, Y)
  BY <1>1, <1>2, <1>3, SumUnion
<1>5. SumFunctionOnSet(e, Z) = SumFunctionOnSet(e, X) + SumFunctionOnSet(e, Y)
  BY ONLY <1>1, <1>4, Zenon
<1> QED BY <1>5, Zenon DEF X, Y, Z, Within

LEMMA WithinNothing ==
  ASSUME NEW e \in [0..MaxTime -> Nat], NEW a \in Int, NEW b \in Int,
         \A u \in 0..MaxTime : a <= u /\ u < b => e[u] = 0
  PROVE  Within(e, a, b) = 0
<1> DEFINE T == {u \in 0..MaxTime : a <= u /\ u < b}
<1>1. T \subseteq 0..MaxTime /\ \A u \in T : e[u] = 0
  OBVIOUS
<1> HIDE DEF T
<1>2. SumFunctionOnSet(e, T) = 0
  BY <1>1, FiniteStretch, SumZero
<1> QED BY <1>2 DEF T, Within

\* Counting n more at time t.
More(e, t, n) == [e EXCEPT ![t] = e[t] + n]

LEMMA WithinMore ==
  ASSUME NEW e \in [0..MaxTime -> Nat], NEW t \in 0..MaxTime, NEW n \in Nat,
         NEW g, g = More(e, t, n), NEW a \in Int, NEW b \in Int
  PROVE  /\ a <= t /\ t < b => Within(g, a, b) = Within(e, a, b) + n
         /\ ~(a <= t /\ t < b) => Within(g, a, b) = Within(e, a, b)
<1> DEFINE T == {u \in 0..MaxTime : a <= u /\ u < b}
<1>1. T \subseteq 0..MaxTime
  OBVIOUS
<1>2. t \in T <=> a <= t /\ t < b
  OBVIOUS
<1> HIDE DEF T
<1>3. /\ \A u \in T : e[u] \in Int /\ g[u] \in Int /\ (u # t => g[u] = e[u])
      /\ g[t] = e[t] + n /\ e[t] \in Int
  BY <1>1 DEF More
<1>4. SumFunctionOnSet(e, T) \in Int
  BY <1>1, <1>3, FiniteStretch, SumInt
<1>5. CASE t \in T
  <2>1. SumFunctionOnSet(g, T) = SumFunctionOnSet(e, T) + (g[t] - e[t])
    <3>1. /\ IsFiniteSet(T) /\ e[t] \in Int /\ g[t] \in Int
          /\ \A u \in T : u # t => e[u] \in Int /\ g[u] = e[u]
      BY <1>1, <1>3, <1>5, FiniteStretch
    <3> QED BY ONLY <1>5, <3>1, SumUpdate
  <2>2. SumFunctionOnSet(g, T) = SumFunctionOnSet(e, T) + n
    BY <1>3, <1>4, <2>1
  <2> QED BY <1>2, <1>5, <2>2 DEF T, Within
<1>6. CASE t \notin T
  <2>1. SumFunctionOnSet(g, T) = SumFunctionOnSet(e, T)
    <3>1. IsFiniteSet(T) /\ \A u \in T : e[u] \in Int /\ g[u] = e[u]
      BY <1>1, <1>3, <1>6, FiniteStretch
    <3> QED BY ONLY <3>1, SumSame
  <2> QED BY <1>2, <1>6, <2>1 DEF T, Within
<1> QED BY <1>5, <1>6

-----------------------------------------------------------------------------
(* Rolling *)

Emptied(a, n) == {Place(a, i) : i \in 1..n}

LEMMA EmptiedNext ==
  ASSUME NEW a \in 0..WindowSize-1, NEW m \in Nat, m + 1 <= WindowSize
  PROVE  /\ Emptied(a, m + 1) = Emptied(a, m) \cup {Place(a, m + 1)}
         /\ Place(a, m + 1) \notin Emptied(a, m)
         /\ Place(a, m + 1) \in 0..WindowSize-1
         /\ Emptied(a, m) \subseteq 0..WindowSize-1
         /\ IsFiniteSet(Emptied(a, m))
<1>1. m + 1 \in 1..WindowSize /\ m + 1 \in 0..WindowSize
  BY CounterConstants
<1>2. \A i \in 1..m : i \in 1..WindowSize /\ i \in 0..WindowSize /\ i # m + 1
  BY CounterConstants
<1>3. 1..(m + 1) = (1..m) \cup {m + 1}
  OBVIOUS
<1>4. Emptied(a, m + 1) = Emptied(a, m) \cup {Place(a, m + 1)}
  BY ONLY <1>3 DEF Emptied
<1>5. Place(a, m + 1) \notin Emptied(a, m)
  <2>1. \A i \in 1..m : Place(a, i) # Place(a, m + 1)
    BY <1>1, <1>2, PlacesDiffer
  <2> QED BY ONLY <2>1 DEF Emptied
<1>6. Place(a, m + 1) \in 0..WindowSize-1
  BY <1>1, PlaceIn
<1>7. Emptied(a, m) \subseteq 0..WindowSize-1
  <2>1. \A i \in 1..m : Place(a, i) \in 0..WindowSize-1
    BY <1>2, PlaceIn
  <2> QED BY ONLY <2>1 DEF Emptied
<1>8. IsFiniteSet(0..WindowSize-1)
  BY CounterConstants, FS_Interval
<1> QED BY <1>4, <1>5, <1>6, <1>7, <1>8, FS_Subset

\* The slots that n turns of Roll's loop empty hold the oldest counts.
LEMMA RolledSum ==
  ASSUME NEW s \in Slots, NEW a \in 0..WindowSize-1, NEW b \in Int, NEW e \in History,
         Holds(s, a, b, e), NEW n \in Nat, n <= WindowSize
  PROVE  SumFunctionOnSet(s, Emptied(a, n)) = Within(e, b, b + Far(n))
<1> DEFINE P(m) == SumFunctionOnSet(s, Emptied(a, m)) = Within(e, b, b + Far(m))
           G == {m \in Nat : m <= WindowSize => P(m)}
<1>1. 0 \in G
  <2>1. Emptied(a, 0) = {}
    BY DEF Emptied
  <2>2. b + Far(0) = b
    BY Multiples
  <2>3. SumFunctionOnSet(s, Emptied(a, 0)) = 0
    BY <2>1, SumEmpty
  <2>4. Within(e, b, b) = 0
    <3>1. \A u \in 0..MaxTime : b <= u /\ u < b => e[u] = 0
      BY CounterConstants
    <3>2. e \in [0..MaxTime -> Nat]
      BY DEF History
    <3> QED BY ONLY <3>1, <3>2, WithinNothing, b \in Int
  <2> QED BY <2>2, <2>3, <2>4
<1>2. ASSUME NEW m \in Nat, m \in G PROVE m + 1 \in G
  <2> SUFFICES ASSUME m + 1 <= WindowSize PROVE P(m + 1)
    OBVIOUS
  <2> DEFINE x == Place(a, m + 1)
             E == Emptied(a, m)
             u == b + Far(m)
             v == b + Far(m + 1)
  <2>1. P(m)
    BY <1>2, CounterConstants
  <2>2. /\ Emptied(a, m + 1) = E \cup {x} /\ x \notin E /\ x \in 0..WindowSize-1
        /\ E \subseteq 0..WindowSize-1 /\ IsFiniteSet(E)
    BY EmptiedNext
  <2>3. s[x] = Within(e, u, v)
    <3>1. m + 1 \in 1..WindowSize /\ (m + 1) - 1 = m
      BY CounterConstants
    <3> QED BY <3>1, Zenon DEF Holds
  <2>4. u \in Int /\ v \in Int /\ b <= u /\ u <= v
    <3>1. Far(m) \in Int /\ Far(m + 1) \in Int /\ Far(0) <= Far(m) /\ Far(m) <= Far(m + 1)
          /\ Far(0) = 0
      BY Multiples
    <3> QED BY <3>1
  <2>5. SumFunctionOnSet(s, E) = Within(e, b, u) /\ P(m + 1) = (SumFunctionOnSet(s, Emptied(a, m + 1)) = Within(e, b, v))
    BY <2>1, Zenon
  <2> HIDE DEF x, E, u, v, P, G
  <2>6. s[x] \in Int /\ \A y \in E : s[y] \in Int
    BY <2>2 DEF Slots
  <2>7. SumFunctionOnSet(s, E \cup {x}) = s[x] + SumFunctionOnSet(s, E)
    BY <2>2, <2>6, SumAdd
  <2>8. e \in [0..MaxTime -> Nat]
    BY DEF History
  <2>9. Within(e, b, v) = Within(e, b, u) + Within(e, u, v)
    BY <2>4, <2>8, WithinParts
  <2>10. Within(e, b, u) \in Int /\ Within(e, u, v) \in Int
    BY <2>8, WithinNat
  <2>11. SumFunctionOnSet(s, Emptied(a, m + 1)) = Within(e, b, v)
    <3>1. SumFunctionOnSet(s, Emptied(a, m + 1)) = s[x] + SumFunctionOnSet(s, E)
      BY ONLY <2>2, <2>7, Zenon
    <3> QED BY ONLY <2>3, <2>5, <2>9, <2>10, <3>1
  <2> QED BY <2>5, <2>11
<1> HIDE DEF G
<1>3. Nat \subseteq G
  BY <1>1, <1>2, NatInductionSet
<1>4. n \in G
  BY <1>3
<1> QED BY <1>4 DEF G

\* Once they are emptied, the slots hold the counts of a window n slots later,
\* nothing having been counted after the first window.
LEMMA RolledHolds ==
  ASSUME NEW s \in Slots, NEW a \in 0..WindowSize-1, NEW b \in Int, NEW e \in History,
         Holds(s, a, b, e), NEW n \in 0..WindowSize-1,
         \A u \in 0..MaxTime : u >= b + Far(WindowSize) => e[u] = 0,
         NEW r, r = [i \in 0..WindowSize-1 |-> IF i \in Emptied(a, n) THEN 0 ELSE s[i]]
  PROVE  r \in Slots /\ Holds(r, Place(a, n), b + Far(n), e)
<1>1. r \in Slots
  BY DEF Slots
<1>2. ASSUME NEW i \in 1..WindowSize
      PROVE  r[Place(Place(a, n), i)] = Within(e, (b + Far(n)) + Far(i - 1), (b + Far(n)) + Far(i))
  <2> SUFFICES ASSUME NEW k, k = n + i, NEW x, x = Place(Place(a, n), i)
               PROVE  r[x] = Within(e, (b + Far(n)) + Far(i - 1), (b + Far(n)) + Far(i))
    OBVIOUS
  <2>1. k \in Int /\ i \in Int /\ n \in Int /\ i - 1 \in Int /\ k - 1 \in Int /\ k - 1 = n + (i - 1)
        /\ 1 <= i /\ i <= WindowSize /\ 0 <= n /\ n < WindowSize
    BY CounterConstants
  <2>2. (b + Far(n)) + Far(i - 1) = b + Far(k - 1) /\ (b + Far(n)) + Far(i) = b + Far(k)
    <3>1. Far(k) = Far(n) + Far(i) /\ Far(k - 1) = Far(n) + Far(i - 1)
          /\ Far(n) \in Int /\ Far(i) \in Int /\ Far(i - 1) \in Int
      BY <2>1, Multiples
    <3> QED BY <3>1
  <2>3. /\ k <= WindowSize => x = Place(a, k)
        /\ ~(k <= WindowSize) => x = Place(a, k - WindowSize)
    BY ONLY PlaceAfter, k = n + i, x = Place(Place(a, n), i),
            a \in 0..WindowSize-1, n \in 0..WindowSize-1, i \in 1..WindowSize
  <2>4. CASE k <= WindowSize
    <3>1. k \in 1..WindowSize /\ k \in 0..WindowSize /\ \A j \in 1..n : j \in 1..WindowSize /\ j # k
      BY <2>1, <2>4, CounterConstants
    <3>2. x = Place(a, k) /\ x \in 0..WindowSize-1
      BY <2>3, <2>4, <3>1, PlaceIn
    <3>3. x \notin Emptied(a, n)
      <4>1. \A j \in 1..n : Place(a, j) # Place(a, k)
        BY <3>1, PlacesDiffer
      <4> QED BY ONLY <3>2, <4>1 DEF Emptied
    <3>4. r[x] = s[x]
      BY <3>2, <3>3
    <3>5. s[Place(a, k)] = Within(e, b + Far(k - 1), b + Far(k))
      BY <3>1 DEF Holds
    <3> QED BY <2>2, <3>2, <3>4, <3>5
  <2>5. CASE ~(k <= WindowSize)
    <3>1. k - WindowSize \in 1..n
      BY <2>1, <2>5, CounterConstants
    <3>2. k - WindowSize \in 0..WindowSize
      BY <2>1, <3>1, CounterConstants
    <3>3. x = Place(a, k - WindowSize) /\ x \in Emptied(a, n) /\ x \in 0..WindowSize-1
      BY <2>3, <2>5, <3>1, <3>2, PlaceIn DEF Emptied
    <3>4. r[x] = 0
      BY <3>3
    <3>5. b + Far(WindowSize) <= b + Far(k - 1) /\ b + Far(k - 1) \in Int /\ b + Far(k) \in Int
          /\ b + Far(WindowSize) \in Int
      <4>1. WindowSize <= k - 1 /\ WindowSize \in Int
        BY <2>1, <2>5, CounterConstants
      <4>2. Far(WindowSize) <= Far(k - 1) /\ Far(k - 1) \in Int /\ Far(k) \in Int /\ Far(WindowSize) \in Int
        BY <2>1, <4>1, Multiples
      <4> QED BY <4>2
    <3>6. \A u \in 0..MaxTime : b + Far(k - 1) <= u /\ u < b + Far(k) => e[u] = 0
      <4>1. \A u \in 0..MaxTime : u \in Int
        BY CounterConstants
      <4>2. ASSUME NEW u \in 0..MaxTime, b + Far(k - 1) <= u PROVE u >= b + Far(WindowSize)
        BY ONLY <3>5, <4>1, <4>2, u \in 0..MaxTime
      <4> QED BY <4>2
    <3>7. Within(e, b + Far(k - 1), b + Far(k)) = 0
      <4>1. e \in [0..MaxTime -> Nat]
        BY DEF History
      <4> QED BY ONLY <3>5, <3>6, <4>1, WithinNothing
    <3> QED BY <2>2, <3>4, <3>7
  <2> QED BY <2>4, <2>5
<1> QED BY <1>1, <1>2 DEF Holds

\* The parts of WindowOK that are not about sums.
LEMMA WindowTypes ==
  ASSUME NEW c, NEW e, NEW t, WindowOK(c, e, t)
  PROVE  /\ c = [slots |-> c.slots, count |-> c.count, tail |-> c.tail, last |-> c.last]
         /\ c.slots \in Slots /\ c.count \in Int /\ c.tail \in 0..WindowSize-1 /\ c.last \in Int
         /\ e \in History /\ e \in [0..MaxTime -> Nat] /\ t \in 0..MaxTime /\ t \in Int
         /\ c.last <= t /\ t < c.last + SlotDuration
         /\ \A u \in 0..MaxTime : u > t => e[u] = 0
         /\ Start(c) \in Int /\ Start(c) + Far(WindowSize) = c.last + SlotDuration
         /\ Far(WindowSize) \in Int /\ SlotDuration \in Int /\ 0 <= Far(WindowSize)
<1>1. c.last \in Int
  BY DEF WindowOK
<1>2. /\ Far(WindowSize - 1) = Far(WindowSize) - SlotDuration /\ Far(WindowSize) \in Int
      /\ SlotDuration \in Int /\ 0 <= Far(WindowSize)
  BY WindowFar
<1>3. Start(c) \in Int /\ Start(c) + Far(WindowSize) = c.last + SlotDuration
  BY ONLY <1>1, <1>2 DEF Start
<1>4. t \in 0..MaxTime /\ t \in Int
  BY CounterConstants DEF WindowOK
<1>5. e \in History /\ e \in [0..MaxTime -> Nat]
  BY DEF WindowOK, History
<1> QED BY <1>2, <1>3, <1>4, <1>5 DEF WindowOK

\* Nothing is counted from the end of the window on.
LEMMA NothingAfter ==
  ASSUME NEW c, NEW e, NEW t, WindowOK(c, e, t), NEW a \in Int, NEW b \in Int,
         c.last + SlotDuration <= a
  PROVE  Within(e, a, b) = 0
<1>1. /\ c.last \in Int /\ t \in Int /\ SlotDuration \in Int /\ t < c.last + SlotDuration
      /\ e \in [0..MaxTime -> Nat] /\ \A u \in 0..MaxTime : u > t => e[u] = 0
  BY WindowTypes
<1>2. \A u \in 0..MaxTime : a <= u => u > t
  BY <1>1, CounterConstants
<1>3. \A u \in 0..MaxTime : a <= u /\ u < b => e[u] = 0
  BY <1>1, <1>2
<1> QED BY <1>1, <1>3, WithinNothing

\* Rolling less than a window: n slots are emptied.
LEMMA SlotsRolled ==
  ASSUME NEW c, NEW e, NEW t, WindowOK(c, e, t), NEW u \in 0..MaxTime, t <= u,
         NEW n \in 0..WindowSize-1, Far(n) <= u - c.last, u - c.last < Far(n) + SlotDuration
  PROVE  WindowOK(RollSlots(c, n), e, u)
<1> DEFINE slots == [i \in 0..WindowSize-1 |-> IF i \in Emptied(c.tail, n) THEN 0 ELSE c.slots[i]]
           gone == SumFunctionOnSet(c.slots, Emptied(c.tail, n))
           b == Start(c)
           z == Start(c) + Far(WindowSize)
           d == RollSlots(c, n)
<1>1. /\ c.slots \in Slots /\ c.count \in Int /\ c.tail \in 0..WindowSize-1 /\ c.last \in Int
      /\ e \in History /\ e \in [0..MaxTime -> Nat] /\ t \in Int
      /\ c.last <= t /\ t < c.last + SlotDuration
      /\ \A v \in 0..MaxTime : v > t => e[v] = 0
      /\ b \in Int /\ z = c.last + SlotDuration /\ z \in Int
  BY WindowTypes
<1>2. u \in Int /\ n \in Int /\ n \in Nat /\ n <= WindowSize /\ n \in 0..WindowSize /\ WindowSize \in Int
      /\ SlotDuration \in Int
  BY CounterConstants
<1>3. /\ Far(n) \in Int /\ Far(WindowSize) \in Int /\ Far(WindowSize - 1) \in Int
      /\ 0 <= Far(n) /\ Far(n) <= Far(WindowSize)
  <2>1. 0 \in Int /\ 0 <= n
    BY CounterConstants
  <2>2. Far(0) <= Far(n) /\ Far(n) <= Far(WindowSize) /\ Far(n) \in Int /\ Far(0) = 0
    BY ONLY <1>2, <2>1, Multiples
  <2> QED BY <2>2, WindowFar
<1>4. d = [slots |-> slots, count |-> c.count - gone, tail |-> Place(c.tail, n), last |-> c.last + Far(n)]
  <2>1. DOMAIN c.slots = 0..WindowSize-1
    BY <1>1 DEF Slots
  <2> QED BY <2>1, Zenon DEF RollSlots, Emptied, Place, Far
<1>5. Holds(c.slots, c.tail, b, e) /\ c.count = Within(e, b, z)
  BY DEF WindowOK
<1>6. gone = Within(e, b, b + Far(n))
  BY <1>1, <1>2, <1>5, RolledSum
<1>7. slots \in Slots /\ Holds(slots, Place(c.tail, n), b + Far(n), e)
  <2>1. \A v \in 0..MaxTime : v >= z => e[v] = 0
    <3>1. \A v \in 0..MaxTime : v >= z => v > t
      BY <1>1, <1>2, CounterConstants
    <3> QED BY <1>1, <3>1
  <2> QED BY <1>1, <1>5, <2>1, RolledHolds
<1>8. Place(c.tail, n) \in 0..WindowSize-1
  BY <1>1, <1>2, PlaceIn
<1> HIDE DEF slots, gone, b, z, d
<1>9. /\ d.slots = slots /\ d.count = c.count - gone /\ d.tail = Place(c.tail, n)
      /\ d.last = c.last + Far(n)
      /\ d = [slots |-> d.slots, count |-> d.count, tail |-> d.tail, last |-> d.last]
  BY ONLY <1>4
<1>10. Start(d) = b + Far(n)
  <2>1. Start(d) = (c.last + Far(n)) - Far(WindowSize - 1) /\ b = c.last - Far(WindowSize - 1)
    BY <1>9 DEF Start, b
  <2> QED BY ONLY <1>1, <1>3, <2>1
<1>11. d.last \in Int /\ d.last <= u /\ u < d.last + SlotDuration
  <2>1. /\ c.last \in Int /\ u \in Int /\ Far(n) \in Int /\ SlotDuration \in Int
        /\ Far(n) <= u - c.last /\ u - c.last < Far(n) + SlotDuration
    BY <1>1, <1>2, <1>3
  <2>2. \A l, x, f, k \in Int : f <= x - l /\ x - l < f + k
          => l + f \in Int /\ l + f <= x /\ x < (l + f) + k
    OBVIOUS
  <2>3. c.last + Far(n) \in Int /\ c.last + Far(n) <= u /\ u < (c.last + Far(n)) + SlotDuration
    BY ONLY <2>1, <2>2
  <2>4. d.last = c.last + Far(n)
    BY <1>9
  <2> QED BY ONLY <2>3, <2>4
<1>12. \A v \in 0..MaxTime : v > u => e[v] = 0
  <2>1. \A v \in 0..MaxTime : v > u => v > t
    BY <1>1, <1>2, CounterConstants
  <2> QED BY <1>1, <2>1
<1>13. d.count \in Int /\ d.count = Within(e, Start(d), Start(d) + Far(WindowSize))
  <2> DEFINE m == b + Far(n)
             w == (b + Far(n)) + Far(WindowSize)
  <2>1. m \in Int /\ w \in Int /\ b <= m /\ m <= z /\ z <= w
    BY <1>1, <1>3 DEF z, b
  <2>2. Start(d) = m /\ Start(d) + Far(WindowSize) = w /\ gone = Within(e, b, m)
    BY <1>6, <1>10
  <2> HIDE DEF m, w
  <2>3. Within(e, z, w) = 0
    BY <1>1, <2>1, NothingAfter
  <2>4. Within(e, b, z) = Within(e, b, m) + Within(e, m, z) /\ Within(e, m, w) = Within(e, m, z) + Within(e, z, w)
    BY <1>1, <2>1, WithinParts
  <2>5. Within(e, b, m) \in Int /\ Within(e, m, z) \in Int
    BY <1>1, WithinNat
  <2>6. d.count = Within(e, m, w) /\ d.count \in Int
    BY ONLY <1>5, <1>9, <2>2, <2>3, <2>4, <2>5
  <2> QED BY ONLY <2>2, <2>6
<1>14. Holds(d.slots, d.tail, Start(d), e) /\ d.slots \in Slots /\ d.tail \in 0..WindowSize-1
  BY ONLY <1>7, <1>8, <1>9, <1>10
<1>15. WindowOK(d, e, u)
  BY <1>1, <1>9, <1>11, <1>12, <1>13, <1>14 DEF WindowOK
<1> QED BY <1>15 DEF d

\* A counter that starts anew, with nothing counted in the window before.
LEMMA Anew ==
  ASSUME NEW e \in History, NEW u \in 0..MaxTime,
         \A v \in 0..MaxTime : v >= u - Far(WindowSize - 1) => e[v] = 0
  PROVE  WindowOK(NewCounter(u), e, u)
<1> DEFINE d == NewCounter(u)
           slots == [i \in 0..WindowSize-1 |-> 0]
           b == u - Far(WindowSize - 1)
<1>1. d = [slots |-> slots, count |-> 0, tail |-> 0, last |-> u]
  BY DEF NewCounter
<1>2. /\ u \in Int /\ Far(WindowSize - 1) \in Int /\ Far(WindowSize) \in Int /\ b \in Int
      /\ 0 <= Far(WindowSize - 1) /\ SlotDuration \in Int /\ 0 < SlotDuration
  <2>1. u \in Int
    BY CounterConstants
  <2> QED BY <2>1, WindowFar
<1>3. slots \in Slots /\ 0 \in 0..WindowSize-1 /\ \A i \in 0..WindowSize-1 : slots[i] = 0
  BY CounterConstants DEF Slots
<1>4. \A i \in 1..WindowSize : Place(0, i) \in 0..WindowSize-1
  <2>1. \A i \in 1..WindowSize : i \in 0..WindowSize
    BY CounterConstants
  <2> QED BY <1>3, <2>1, PlaceIn
<1> HIDE DEF d, slots
<1>5. /\ d.slots = slots /\ d.count = 0 /\ d.tail = 0 /\ d.last = u /\ Start(d) = b
      /\ d = [slots |-> d.slots, count |-> d.count, tail |-> d.tail, last |-> d.last]
  BY <1>1 DEF Start
<1>6. e \in [0..MaxTime -> Nat] /\ \A v \in 0..MaxTime : v >= b => e[v] = 0
  BY DEF History
<1> HIDE DEF b
<1>7. \A x \in Int, y \in Int : b <= x => Within(e, x, y) = 0
  <2> TAKE x \in Int, y \in Int
  <2> HAVE b <= x
  <2>1. \A v \in 0..MaxTime : x <= v => v >= b
    BY <1>2, CounterConstants
  <2>2. \A v \in 0..MaxTime : x <= v /\ v < y => e[v] = 0
    BY <1>6, <2>1
  <2> QED BY <1>6, <2>2, WithinNothing
<1>8. Holds(d.slots, d.tail, Start(d), e)
  <2>1. ASSUME NEW i \in 1..WindowSize PROVE Within(e, b + Far(i - 1), b + Far(i)) = 0
    <3>1. i \in Int /\ i - 1 \in Int /\ 0 <= i - 1
      BY CounterConstants
    <3>2. Far(i) \in Int /\ Far(i - 1) \in Int /\ Far(0) <= Far(i - 1) /\ Far(0) = 0
      BY <3>1, Multiples
    <3>3. b + Far(i - 1) \in Int /\ b + Far(i) \in Int /\ b <= b + Far(i - 1)
      BY ONLY <1>2, <3>2
    <3> QED BY ONLY <1>7, <3>3
  <2>2. \A i \in 1..WindowSize : slots[Place(0, i)] = 0
    BY <1>3, <1>4
  <2> QED BY <1>5, <2>1, <2>2 DEF Holds
<1>9. d.count = Within(e, Start(d), Start(d) + Far(WindowSize))
  <2>1. b + Far(WindowSize) \in Int /\ b <= b
    BY <1>2
  <2>2. Within(e, b, b + Far(WindowSize)) = 0
    BY <1>2, <1>7, <2>1
  <2> QED BY <1>5, <2>2
<1>10. \A v \in 0..MaxTime : v > u => e[v] = 0
  <2>1. \A v \in 0..MaxTime : v > u => v >= b
    BY <1>2, CounterConstants DEF b
  <2> QED BY <1>6, <2>1
<1>11. /\ d.slots \in Slots /\ d.count \in Int /\ d.tail \in 0..WindowSize-1 /\ d.last \in Int
       /\ d.last <= u /\ u < d.last + SlotDuration
  BY <1>2, <1>3, <1>5
<1>12. WindowOK(d, e, u)
  BY <1>5, <1>8, <1>9, <1>10, <1>11 DEF WindowOK
<1> QED BY <1>12 DEF d

LEMMA Rolled ==
  ASSUME NEW c, NEW e, NEW t, WindowOK(c, e, t), NEW u \in 0..MaxTime, t <= u
  PROVE  WindowOK(Roll(c, u), e, u)
<1> DEFINE n == SlotsPassed(u - c.last)
<1>1. /\ c.last \in Int /\ t \in Int /\ u \in Int /\ c.last <= t /\ t < c.last + SlotDuration
      /\ e \in History /\ \A v \in 0..MaxTime : v > t => e[v] = 0
      /\ SlotDuration \in Int /\ WindowSize \in Nat
  BY WindowTypes, CounterConstants
<1>2. u - c.last \in Nat
  BY <1>1
<1>3. n = (u - c.last) \div SlotDuration
  BY <1>2 DEF SlotsPassed
<1> HIDE DEF n
<1>4. n \in Nat /\ Far(n) <= u - c.last /\ u - c.last < Far(n) + SlotDuration
  BY <1>2, <1>3, WholeSlots
<1>5. CASE n >= WindowSize
  <2>1. Roll(c, u) = NewCounter(u)
    BY <1>5 DEF Roll, Clear, n
  <2>2. \A v \in 0..MaxTime : v >= u - Far(WindowSize - 1) => e[v] = 0
    <3>1. /\ Far(WindowSize) <= Far(n) /\ Far(WindowSize - 1) = Far(WindowSize) - SlotDuration
          /\ Far(WindowSize) \in Int /\ Far(n) \in Int
      <4>1. n \in Int /\ WindowSize \in Int /\ WindowSize <= n
        BY <1>1, <1>4, <1>5
      <4>2. Far(WindowSize) <= Far(n) /\ Far(n) \in Int
        BY ONLY <4>1, Multiples
      <4> QED BY <4>2, WindowFar
    <3>2. u - Far(WindowSize - 1) > t /\ u - Far(WindowSize - 1) \in Int
      BY ONLY <1>1, <1>4, <3>1
    <3>3. \A v \in 0..MaxTime : v >= u - Far(WindowSize - 1) => v > t
      <4>1. \A v \in 0..MaxTime : v \in Int
        BY CounterConstants
      <4>2. \A v, x \in Int : v >= x /\ x > t => v > t
        BY ONLY <1>1
      <4> QED BY ONLY <3>2, <4>1, <4>2
    <3> QED BY <1>1, <3>3
  <2> QED BY <1>1, <2>1, <2>2, Anew
<1>6. CASE ~(n >= WindowSize)
  <2>1. Roll(c, u) = RollSlots(c, n)
    BY <1>4, <1>6 DEF Roll, n
  <2>2. n \in 0..WindowSize-1
    BY <1>1, <1>4, <1>6
  <2> QED BY <1>4, <2>1, <2>2, SlotsRolled
<1> QED BY <1>5, <1>6

\* The fields of what Inc returns.
LEMMA IncFields ==
  ASSUME NEW c, NEW n, c = [slots |-> c.slots, count |-> c.count, tail |-> c.tail, last |-> c.last]
  PROVE  [c EXCEPT !.slots[c.tail] = @ + n, !.count = @ + n]
           = [slots |-> [c.slots EXCEPT ![c.tail] = c.slots[c.tail] + n], count |-> c.count + n,
              tail |-> c.tail, last |-> c.last]
<1>1. [c EXCEPT !.slots[c.tail] = @ + n, !.count = @ + n]
        = [c EXCEPT !.slots = [c.slots EXCEPT ![c.tail] = c.slots[c.tail] + n], !.count = c.count + n]
  BY Zenon
<1>2. ASSUME NEW p, NEW q, NEW a, NEW l, c = [slots |-> p, count |-> q, tail |-> a, last |-> l],
             NEW s, NEW k
      PROVE  [c EXCEPT !.slots = s, !.count = k] = [slots |-> s, count |-> k, tail |-> a, last |-> l]
  <2>1. [c EXCEPT !.slots = s, !.count = k] = [[c EXCEPT !.slots = s] EXCEPT !.count = k]
    BY ONLY <1>2
  <2>2. [c EXCEPT !.slots = s] = [slots |-> s, count |-> q, tail |-> a, last |-> l]
    BY ONLY <1>2
  <2>3. \A r : r = [slots |-> s, count |-> q, tail |-> a, last |-> l] =>
              [r EXCEPT !.count = k] = [slots |-> s, count |-> k, tail |-> a, last |-> l]
    BY ONLY TRUE
  <2> QED BY ONLY <2>1, <2>2, <2>3, Zenon
<1>3. ASSUME NEW s, NEW k
      PROVE  [c EXCEPT !.slots = s, !.count = k]
               = [slots |-> s, count |-> k, tail |-> c.tail, last |-> c.last]
  BY <1>2, Zenon
<1> QED BY ONLY <1>1, <1>3, Zenon

\* n more in the newest slot, n more at the time it is for.
LEMMA Counted ==
  ASSUME NEW c, NEW e, NEW t, WindowOK(c, e, t), NEW n \in Nat, NEW g, g = More(e, t, n)
  PROVE  WindowOK([c EXCEPT !.slots[c.tail] = @ + n, !.count = @ + n], g, t)
<1> DEFINE a == c.tail
           b == Start(c)
           slots == [c.slots EXCEPT ![a] = c.slots[a] + n]
           d == [c EXCEPT !.slots[c.tail] = @ + n, !.count = @ + n]
           z == Start(c) + Far(WindowSize)
<1>1. /\ c = [slots |-> c.slots, count |-> c.count, tail |-> c.tail, last |-> c.last]
      /\ c.slots \in Slots /\ c.count \in Int /\ a \in 0..WindowSize-1 /\ c.last \in Int
      /\ e \in History /\ e \in [0..MaxTime -> Nat] /\ t \in 0..MaxTime /\ t \in Int
      /\ c.last <= t /\ t < c.last + SlotDuration
      /\ \A u \in 0..MaxTime : u > t => e[u] = 0
      /\ b \in Int /\ z = c.last + SlotDuration /\ z \in Int
  BY WindowTypes
<1>2. d = [slots |-> slots, count |-> c.count + n, tail |-> a, last |-> c.last]
  <2>1. c = [slots |-> c.slots, count |-> c.count, tail |-> c.tail, last |-> c.last]
    BY <1>1
  <2> QED BY ONLY <2>1, IncFields, Zenon
<1>3. Holds(c.slots, a, b, e) /\ c.count = Within(e, b, z)
  BY DEF WindowOK
<1>4. g \in History /\ g \in [0..MaxTime -> Nat] /\ \A u \in 0..MaxTime : u > t => g[u] = 0
  <2>1. g \in [0..MaxTime -> Nat]
    BY <1>1 DEF More
  <2>2. \A u \in 0..MaxTime : u > t => u # t
    BY <1>1, CounterConstants
  <2>3. \A u \in 0..MaxTime : u > t => g[u] = 0
    BY <1>1, <2>2 DEF More
  <2> QED BY <2>1, <2>3 DEF History
<1>5. slots \in Slots /\ slots[a] = c.slots[a] + n /\ \A x \in 0..WindowSize-1 : x # a => slots[x] = c.slots[x]
  <2>1. c.slots \in [0..WindowSize-1 -> Nat] /\ a \in 0..WindowSize-1 /\ n \in Nat
    BY <1>1 DEF Slots
  <2> HIDE DEF a
  <2>2. \A x \in 0..WindowSize-1 : c.slots[x] \in Nat
    BY ONLY <2>1
  <2>3. c.slots[a] + n \in Nat
    BY ONLY <2>1, <2>2
  <2>4. slots \in [0..WindowSize-1 -> Nat]
    BY ONLY <2>1, <2>3
  <2> QED BY ONLY <2>1, <2>4 DEF Slots
<1>6. /\ Far(WindowSize - 1) = Far(WindowSize) - SlotDuration /\ Far(WindowSize) \in Int
      /\ SlotDuration \in Int /\ Far(WindowSize - 1) \in Int /\ b + Far(WindowSize - 1) = c.last
      /\ 0 <= Far(WindowSize - 1)
  <2>1. b = c.last - Far(WindowSize - 1)
    BY DEF Start
  <2> HIDE DEF b
  <2> QED BY <1>1, <2>1, WindowFar
<1> HIDE DEF a, b, slots, d, z
<1>7. /\ d.slots = slots /\ d.count = c.count + n /\ d.tail = a /\ d.last = c.last
      /\ d = [slots |-> d.slots, count |-> d.count, tail |-> d.tail, last |-> d.last]
  BY ONLY <1>2
<1>8. Start(d) = b
  BY <1>7 DEF Start, b
<1>9. ASSUME NEW x \in Int, NEW y \in Int
      PROVE  /\ x <= t /\ t < y => Within(g, x, y) = Within(e, x, y) + n
             /\ ~(x <= t /\ t < y) => Within(g, x, y) = Within(e, x, y)
  <2>1. e \in [0..MaxTime -> Nat] /\ t \in 0..MaxTime
    BY <1>1
  <2> QED BY <2>1, WithinMore
<1>10. \A x, y \in Int : Within(e, x, y) \in Int
  BY <1>1, WithinNat
<1>11. ASSUME NEW i \in 1..WindowSize
       PROVE  slots[Place(a, i)] = Within(g, b + Far(i - 1), b + Far(i))
  <2> DEFINE x == b + Far(i - 1)
             y == b + Far(i)
  <2>1. c.slots[Place(a, i)] = Within(e, x, y)
    BY <1>3 DEF Holds
  <2>2. i \in Int /\ i - 1 \in Int /\ WindowSize \in Int /\ WindowSize - 1 \in Int /\ 1 <= i /\ i <= WindowSize
        /\ i \in 0..WindowSize /\ WindowSize \in 1..WindowSize /\ WindowSize \in 0..WindowSize
    BY CounterConstants
  <2>3. x \in Int /\ y \in Int /\ Far(i) \in Int
    <3>1. Far(i - 1) \in Int /\ Far(i) \in Int
      BY <2>2, Multiples
    <3> QED BY <1>1, <3>1
  <2>4. Place(a, WindowSize) = a
    <3>1. Place(a, WindowSize) = IF a + WindowSize < WindowSize THEN a + WindowSize ELSE a + WindowSize - WindowSize
      BY <1>1, <2>2, WrapsOnce
    <3> QED BY <1>1, <2>2, <3>1
  <2>5. CASE i = WindowSize
    <3>1. x = c.last /\ y = z
      BY <1>6, <2>5 DEF z, b
    <3>2. x <= t /\ t < y
      BY <1>1, <3>1
    <3> HIDE DEF x, y
    <3>3. Within(g, x, y) = Within(e, x, y) + n
      BY <1>9, <2>3, <3>2
    <3> QED BY <1>5, <2>1, <2>4, <2>5, <3>3 DEF x, y
  <2>6. CASE i # WindowSize
    <3>1. Place(a, i) # a /\ Place(a, i) \in 0..WindowSize-1
      BY <1>1, <2>2, <2>4, <2>6, PlacesDiffer, PlaceIn
    <3>2. i <= WindowSize - 1
      BY <2>2, <2>6
    <3>3. Far(i) <= Far(WindowSize - 1)
      BY <2>2, <3>2, Multiples
    <3>4. y <= t
      <4>1. y = b + Far(i) /\ b \in Int /\ Far(WindowSize - 1) \in Int /\ b + Far(WindowSize - 1) <= t /\ t \in Int
        BY <1>1, <1>6
      <4> HIDE DEF y
      <4> QED BY ONLY <2>3, <3>3, <4>1
    <3> HIDE DEF x, y
    <3>5. ~(t < y)
      BY <1>1, <2>3, <3>4
    <3>6. Within(g, x, y) = Within(e, x, y)
      BY <1>9, <2>3, <3>5
    <3> QED BY <1>5, <2>1, <3>1, <3>6 DEF x, y
  <2> QED BY <2>5, <2>6
<1>12. Holds(d.slots, d.tail, Start(d), g)
  BY <1>7, <1>8, <1>11 DEF Holds
<1>13. d.count = Within(g, Start(d), Start(d) + Far(WindowSize)) /\ d.count \in Int
  <2>1. b <= t /\ t < z
    BY <1>1, <1>6 DEF z
  <2>2. Within(g, b, z) = Within(e, b, z) + n /\ Within(e, b, z) \in Int
    BY <1>1, <1>9, <1>10, <2>1
  <2>3. Start(d) + Far(WindowSize) = z
    BY <1>8 DEF z, b
  <2> QED BY <1>3, <1>7, <1>8, <2>2, <2>3
<1>14. d.slots \in Slots /\ d.tail \in 0..WindowSize-1 /\ d.last \in Int
       /\ d.last <= t /\ t < d.last + SlotDuration
  BY <1>1, <1>5, <1>7
<1>15. WindowOK(d, g, t)
  BY <1>1, <1>4, <1>7, <1>12, <1>13, <1>14 DEF WindowOK
<1> QED BY <1>15 DEF d

-----------------------------------------------------------------------------
(* The behaviours *)

LEMMA WindowInit == CounterInit => WindowInv
<1> SUFFICES ASSUME CounterInit PROVE WindowInv
  OBVIOUS
<1>1. events \in History /\ 0 \in 0..MaxTime /\ \A v \in 0..MaxTime : events[v] = 0
  BY CounterConstants DEF CounterInit, History
<1>2. WindowOK(NewCounter(0), events, 0)
  BY <1>1, Anew
<1> QED BY <1>2 DEF CounterInit, WindowInv

LEMMA WindowStep == WindowInv /\ [CounterNext]_counter_vars => WindowInv'
<1> SUFFICES ASSUME WindowInv, [CounterNext]_counter_vars PROVE WindowInv'
  OBVIOUS
<1>1. asked \in 0..MaxTime /\ asked \in Int /\ WindowOK(counter, events, asked)
  BY WindowTypes DEF WindowInv
<1>2. ASSUME NEW t \in asked..MaxTime PROVE t \in 0..MaxTime /\ asked <= t /\ WindowOK(Roll(counter, t), events, t)
  <2>1. t \in 0..MaxTime /\ asked <= t
    BY <1>1, CounterConstants
  <2> QED BY <1>1, <2>1, Rolled
<1>3. ASSUME NEW t \in asked..MaxTime, CountAt(t) PROVE WindowInv'
  <2>1. counter' = Roll(counter, t) /\ asked' = t /\ events' = events
    BY <1>3 DEF CountAt
  <2>2. WindowOK(counter', events', asked')
    BY ONLY <1>2, <2>1, t \in asked..MaxTime, Zenon
  <2> QED BY <2>2 DEF WindowInv
<1>4. ASSUME NEW t \in asked..MaxTime, NEW n \in Amounts, IncAt(n, t) PROVE WindowInv'
  <2> DEFINE r == Roll(counter, t)
             g == More(events, t, n)
             d == [r EXCEPT !.slots[r.tail] = @ + n, !.count = @ + n]
  <2>1. counter' = d /\ asked' = t /\ events' = g
    BY <1>4 DEF IncAt, Inc, More
  <2>2. n \in Nat
    BY CounterConstants
  <2>3. WindowOK(r, events, t)
    BY <1>2
  <2> HIDE DEF r, g
  <2>4. g = More(events, t, n)
    BY DEF g
  <2>5. WindowOK(d, g, t)
    BY <2>2, <2>3, <2>4, Counted
  <2> HIDE DEF d
  <2>6. WindowOK(counter', events', asked')
    BY ONLY <2>1, <2>5, Zenon
  <2> QED BY <2>6 DEF WindowInv
<1>5. CASE UNCHANGED counter_vars
  BY <1>5 DEF WindowInv, counter_vars
<1> QED BY <1>3, <1>4, <1>5 DEF CounterNext

\* For a time after which the whole history lies, the count since that time.
LEMMA SinceIsWithin ==
  ASSUME events \in [0..MaxTime -> Nat], NEW t \in Int, NEW w \in Int, w > MaxTime
  PROVE  Since(t) = Within(events, t, w)
<1>1. DOMAIN events = 0..MaxTime
  OBVIOUS
<1>2. \A u \in 0..MaxTime : u < w /\ (u >= t <=> t <= u)
  BY CounterConstants
<1>3. {u \in DOMAIN events : u >= t} = {u \in 0..MaxTime : t <= u /\ u < w}
  BY ONLY <1>1, <1>2
<1> QED BY <1>3, Zenon DEF Since, Within

LEMMA WindowInvBounds == WindowInv => WindowBounds
<1> SUFFICES ASSUME WindowInv PROVE WindowBounds
  OBVIOUS
<1> DEFINE b == Start(counter)
           z == Start(counter) + Far(WindowSize)
           w == z + MaxTime + 1
           x == asked - Duration + 1
           y == asked - (Duration - SlotDuration)
<1>1. /\ counter.last \in Int /\ events \in [0..MaxTime -> Nat] /\ asked \in 0..MaxTime /\ asked \in Int
      /\ counter.last <= asked /\ asked < counter.last + SlotDuration
      /\ b \in Int /\ z = counter.last + SlotDuration /\ z \in Int
      /\ Far(WindowSize) \in Int /\ SlotDuration \in Int /\ 0 <= Far(WindowSize)
  BY WindowTypes DEF WindowInv
<1>2. counter.count = Within(events, b, z)
  BY DEF WindowInv, WindowOK
<1>3. Duration = Far(WindowSize) /\ 0 <= asked /\ MaxTime \in Int /\ 0 <= MaxTime
  BY CounterConstants, <1>1 DEF Duration, Far
<1>4. /\ x \in Int /\ y \in Int /\ w \in Int /\ x <= b /\ b <= y /\ y <= w /\ z <= w /\ b <= w /\ b <= z
      /\ w > MaxTime
  <2>1. /\ x = asked - Far(WindowSize) + 1 /\ y = asked - (Far(WindowSize) - SlotDuration)
        /\ w = z + MaxTime + 1 /\ z = b + Far(WindowSize)
    BY <1>1, <1>3
  <2>2. /\ asked \in Int /\ 0 <= asked /\ asked < z /\ z <= asked + SlotDuration /\ b \in Int
        /\ Far(WindowSize) \in Int /\ SlotDuration \in Int
        /\ 0 <= SlotDuration /\ SlotDuration <= Far(WindowSize) /\ MaxTime \in Int /\ 0 <= MaxTime
    BY <1>1, <1>3, WindowFar
  <2> HIDE DEF b, z, w, x, y
  <2> QED BY ONLY <2>1, <2>2
<1> HIDE DEF b, z, w, x, y
<1>5. Within(events, z, w) = 0
  BY <1>1, <1>4, NothingAfter DEF WindowInv
<1>6. /\ Within(events, b, w) = Within(events, b, z) + Within(events, z, w)
      /\ Within(events, x, w) = Within(events, x, b) + Within(events, b, w)
      /\ Within(events, b, w) = Within(events, b, y) + Within(events, y, w)
  BY <1>1, <1>4, WithinParts
<1>7. /\ Within(events, x, b) \in Nat /\ Within(events, b, y) \in Nat /\ Within(events, b, z) \in Nat
      /\ Within(events, y, w) \in Nat
  BY <1>1, WithinNat
<1>8. Since(x) = Within(events, x, w) /\ Since(y) = Within(events, y, w)
  BY <1>1, <1>4, SinceIsWithin
<1>9. counter.count <= Since(x) /\ counter.count >= Since(y)
  BY ONLY <1>2, <1>5, <1>6, <1>7, <1>8
<1> QED BY <1>9 DEF WindowBounds, x, y

\* The count of a TimeBasedCounter holds nothing older than its window, and all
\* that is at most the window less one slot old, for every window, every slot
\* length and every pace of calls whose times do not go back.
THEOREM CountsItsWindow == CounterSpec => []WindowBounds
BY WindowInit, WindowStep, WindowInvBounds, PTL DEF CounterSpec
=============================================================================
