-------------------------- MODULE MCSimpleLRUCache --------------------------
(* Interchangeable keys and values for the cache. *)
EXTENDS SimpleLRUCache
Idle == {-1, 1}
Symm == Permutations(Keys) \cup Permutations(Values)
=============================================================================
