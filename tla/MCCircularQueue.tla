-------------------------- MODULE MCCircularQueue --------------------------
(* The ring with items from a set of interchangeable model values. *)
EXTENDS CircularQueue, TLC
Symm == Permutations(Values)
=============================================================================
