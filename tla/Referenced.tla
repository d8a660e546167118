----------------------------- MODULE Referenced -----------------------------
(***************************************************************************)
(* src/referenced.cc: which attributes the server used for a verdict, and  *)
(* the cache signature of a request under them.                            *)
(*                                                                         *)
(* Words are positive numbers, so that they can be sorted; 0 is the empty  *)
(* word.  Attributes are a function from names to values; a value has a    *)
(* kind, "map" for a string map and "scalar" for the others, and entries:  *)
(* of a map by its keys, of a scalar under 0.  MD5 and the concatenation   *)
(* it is fed are taken to be injective on what they are given.             *)
(***************************************************************************)
EXTENDS Integers, SequencesExt

NoKey == 0

\* What the server says of one attribute it looked at.
MatchRef(name, key, condition) == [name |-> name, map_key |-> key, condition |-> condition]

Keys(matches, a, condition) ==
  {[name |-> m.name,
    map_key |-> IF m.name \in DOMAIN a /\ a[m.name].kind = "map" THEN m.map_key ELSE NoKey] :
     m \in {x \in matches : x.condition = condition}}

\* Referenced::Fill from the request it answers: the map key counts only if the
\* request has the attribute and it is a string map.  A word that is not in the
\* dictionaries, and REGEX, make it fail.
FillFails(matches) == \E m \in matches : m.condition \notin {"ABSENCE", "EXACT"}
Fill(a, matches) ==
  [absence |-> Keys(matches, a, "ABSENCE"), exact |-> Keys(matches, a, "EXACT")]

\* Mutant: "absence" keys are not looked at.
AbsenceIgnored(r, a) == TRUE

\* No "absence" key is present: for a map the key itself, for a scalar the name.
AbsenceHolds(r, a) ==
  \A x \in r.absence : x.name \in DOMAIN a =>
    a[x.name].kind = "map" /\ x.map_key \notin DOMAIN a[x.name].entries

ExactPresent(r, a) ==
  \A x \in r.exact : /\ x.name \in DOMAIN a
                     /\ a[x.name].kind = "map" => x.map_key \in DOMAIN a[x.name].entries

Matches(r, a) == AbsenceHolds(r, a) /\ ExactPresent(r, a)

\* Referenced::Signature of a request it matches: the exact attributes with
\* their values.  The absence keys are checked and do not enter it.
Signature(r, a) ==
  {LET k == IF a[x.name].kind = "map" THEN x.map_key ELSE NoKey
   IN <<x.name, k, a[x.name].entries[k]>> : x \in r.exact}

RefBefore(x, y) == x.name < y.name \/ (x.name = y.name /\ x.map_key < y.map_key)

\* UpdateHash: the words of the sorted keys in one row, empty ones skipped.
HashedWords(keys) ==
  FlattenSeq([i \in 1..Cardinality(keys) |->
    LET x == SetToSortSeq(keys, RefBefore)[i]
    IN IF x.map_key = NoKey THEN <<x.name>> ELSE <<x.name, x.map_key>>])

\* Mutant: kWordDelimiter left out.
HashUndelimited(r) == HashedWords(r.absence) \o HashedWords(r.exact)

Hash(r) == <<HashedWords(r.absence), HashedWords(r.exact)>>
=============================================================================
