--------------------------- MODULE CircularQueue ---------------------------
(***************************************************************************)
(* The growing ring buffer of prefetch/circular_queue.h: Push doubles      *)
(* nodes_ when head_ meets tail_ with items inside, Pop advances head_,    *)
(* Head() hands out a pointer through which the head item is written, and  *)
(* Iterate walks from head_ until it meets tail_.                          *)
(***************************************************************************)
EXTENDS Integers, Sequences

CONSTANTS
  Values,     \* the item type T
  Fresh,      \* T(), what std::vector puts in a new node
  InitSize,   \* the constructor's argument (kInitQueueSize in QuotaPrefetch)
  MaxCount    \* bound: items a behaviour may hold at a time

ASSUME CircularQueueAssumption ==
  /\ InitSize \in Nat \ {0}
  /\ MaxCount \in Nat

VARIABLES
  nodes, size,   \* nodes_ and nodes_.size()
  head, tail, count,
  visited        \* the items the last Iterate passed to fn

vars == <<nodes, size, head, tail, count, visited>>

TypeOK ==
  /\ size \in Nat \ {0}
  /\ nodes \in [0..size-1 -> Values \cup {Fresh}]
  /\ head \in 0..size-1
  /\ tail \in 0..size-1
  /\ count \in 0..size
  /\ visited \in Seq(Values)

Init ==
  /\ size = InitSize
  /\ nodes = [i \in 0..InitSize-1 |-> Fresh]
  /\ head = 0 /\ tail = 0 /\ count = 0
  /\ visited = <<>>

-----------------------------------------------------------------------------
(* Push *)

\* Mutant: "i < head_ - 1" in the copy loop.
GrowCopyTooFew ==
  [i \in 0..2*size-1 |-> IF i < size THEN nodes[i]
                         ELSE IF i - size < head - 1 THEN nodes[i - size]
                         ELSE Fresh]

\* nodes_ after resize(size * 2) and the copy of nodes 0..head_ behind the end.
Grow ==
  [i \in 0..2*size-1 |-> IF i < size THEN nodes[i]
                         ELSE IF i - size <= head THEN nodes[i - size]
                         ELSE Fresh]

\* Mutant: "&& count_ > 0" dropped.
FullNoCount == head = tail

\* Push's test for growing; head_ = tail_ alone also holds of an empty ring.
Full == head = tail /\ count > 0

Push(v) ==
  /\ count < MaxCount
  /\ LET n  == IF Full THEN 2 * size ELSE size
         ns == IF Full THEN Grow ELSE nodes
         t  == IF Full THEN tail + size ELSE tail
     IN /\ size' = n
        /\ nodes' = [ns EXCEPT ![t] = v]
        /\ tail' = (t + 1) % n
  /\ count' = count + 1
  /\ UNCHANGED <<head, visited>>

-----------------------------------------------------------------------------
(* Pop, Head and Iterate *)

\* Mutant: "if (count_ == 0) return" dropped.
PopUnguarded ==
  /\ head' = (head + 1) % size
  /\ count' = count - 1
  /\ UNCHANGED <<nodes, size, tail, visited>>

Pop ==
  /\ head'  = IF count = 0 THEN head ELSE (head + 1) % size
  /\ count' = IF count = 0 THEN 0 ELSE count - 1
  /\ UNCHANGED <<nodes, size, tail, visited>>

\* The client writes through the pointer Head() returns, if it is not null.
SetHead(v) ==
  /\ count > 0
  /\ nodes' = [nodes EXCEPT ![head] = v]
  /\ UNCHANGED <<size, head, tail, count, visited>>

\* The node i steps after head_.
NodeAt(i) == IF head + i < size THEN head + i ELSE head + i - size

\* The items, oldest first: the abstract queue.
Items == [i \in 1..count |-> nodes[NodeAt(i - 1)]]

\* Mutant: the wrap-around forgotten, the walk ends at the last node.
SpanNoWrap == IF count = 0 THEN 0 ELSE IF head <= tail THEN tail - head ELSE size - head

\* How many nodes "while (i != tail_)" passes, starting at head_.
Span == IF count = 0 THEN 0
        ELSE IF head <= tail THEN tail - head ELSE tail - head + size

\* fn returns false on the first item equal to stop, which is then replaced by
\* w: what FindSlotById's caller does.  With w = stop the walk only reads.
Walk(stop, w, k) ==
  /\ \A j \in 1..k-1 : Items[j] # stop
  /\ visited' = SubSeq(Items, 1, k)
  /\ \/ /\ k >= 1 /\ Items[k] = stop
        /\ nodes' = [nodes EXCEPT ![NodeAt(k - 1)] = w]
     \/ k = Span /\ (k >= 1 => Items[k] # stop) /\ UNCHANGED nodes

Iterate(stop, w) ==
  /\ \E k \in 0..Span : Walk(stop, w, k)
  /\ UNCHANGED <<size, head, tail, count>>

Next ==
  \/ \E v \in Values : Push(v) \/ SetHead(v)
  \/ Pop
  \/ \E stop, w \in Values : Iterate(stop, w)

Spec == Init /\ [][Next]_vars

-----------------------------------------------------------------------------
(* Properties *)

\* head_, tail_ and count_ agree: tail_ is count_ nodes after head_, so that
\* head_ = tail_ means an empty or a completely full ring and never anything
\* in between, and every node between them holds a pushed item (Push, Pop).
RingOK ==
  /\ tail = IF head + count < size THEN head + count ELSE head + count - size
  /\ \A i \in 1..count : Items[i] \in Values

\* The ring implements the FIFO queue: no item is lost, duplicated, reordered
\* or left Fresh by wrapping around and by doubling nodes_ (Push, line 56-64).
Fifo == INSTANCE FifoQueue WITH items <- Items
FifoSpec == Fifo!Spec

\* "Calls the fn function for each element from head to tail" (line 41), except
\* when the ring is exactly full: there head_ = tail_ and Iterate's loop (line 88)
\* ends at once.  A walk that fn does not stop reaches every item otherwise.
IterateUnlessFull ==
  [][\A stop, w \in Values :
       Iterate(stop, w) /\ (\A j \in 1..count : Items[j] # stop) =>
         visited' = IF count = size THEN <<>> ELSE Items]_vars
=============================================================================
