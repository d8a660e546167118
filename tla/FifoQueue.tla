----------------------------- MODULE FifoQueue -----------------------------
(***************************************************************************)
(* What prefetch/circular_queue.h promises its one client, QuotaPrefetch:  *)
(* an unbounded FIFO queue whose items can be changed in place and walked  *)
(* from head to tail.  An item is a member of Values.                      *)
(***************************************************************************)
EXTENDS Integers, Sequences

CONSTANTS Values, MaxCount

VARIABLES items, visited

vars == <<items, visited>>

Init == items = <<>> /\ visited = <<>>

Push(v) ==
  /\ Len(items) < MaxCount
  /\ items' = Append(items, v)
  /\ UNCHANGED visited

Pop ==
  /\ items' = IF items = <<>> THEN items ELSE Tail(items)
  /\ UNCHANGED visited

SetHead(v) ==
  /\ items # <<>>
  /\ items' = [items EXCEPT ![1] = v]
  /\ UNCHANGED visited

\* A walk stops at the first item equal to stop and replaces it by w; without
\* such an item it covers the whole queue.  The implementation may also walk
\* nothing at all (CircularQueue!IterateUnlessFull says when).
Walk(stop, w, k) ==
  /\ \A j \in 1..k-1 : items[j] # stop
  /\ visited' = SubSeq(items, 1, k)
  /\ \/ k >= 1 /\ items[k] = stop /\ items' = [items EXCEPT ![k] = w]
     \/ k \in {0, Len(items)} /\ (k >= 1 => items[k] # stop) /\ UNCHANGED items

Iterate(stop, w) == \E k \in 0..Len(items) : Walk(stop, w, k)

Next ==
  \/ \E v \in Values : Push(v) \/ SetHead(v)
  \/ Pop
  \/ \E stop, w \in Values : Iterate(stop, w)

Spec == Init /\ [][Next]_vars
=============================================================================
