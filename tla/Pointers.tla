------------------------------ MODULE Pointers ------------------------------
(***************************************************************************)
(* A pointer that may be null, an optional field or what a getter that may *)
(* fail has found: a set with at most one element.                         *)
(***************************************************************************)
EXTENDS Integers, FiniteSetsExt

Optional(set) == \A x, y \in set : x = y

\* collection.find(key)
Find(map, key) == IF key \in DOMAIN map THEN {map[key]} ELSE {}

\* *pointer
The(set) == CHOOSE x \in set : TRUE

\* The first result on the list that is not null.
FirstFound(results) ==
  LET found == {i \in DOMAIN results : results[i] # {}}
  IN IF found = {} THEN {} ELSE results[Min(found)]
=============================================================================
