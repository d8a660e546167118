---------------------------- MODULE MCCheckCache ----------------------------
(***************************************************************************)
(* Requests have a scalar attribute 1 and a string map 2 that may have the *)
(* key 3.  Two servers:                                                    *)
(*   ByHeader looks at 2[3] first, at 1 only if 2[3] is 5;                 *)
(*   BySource looks at 1 first, at 2[3] only if 1 is 8.                    *)
(***************************************************************************)
EXTENDS CheckCache

Scalar(v) == [kind |-> "scalar", entries |-> [k \in {0} |-> v]]
MapOf(S, v) == [kind |-> "map", entries |-> [k \in S |-> v]]

Source(a) == a[1].entries[0]
Header(a) == IF 3 \in DOMAIN a[2].entries THEN a[2].entries[3] ELSE 0

With(src, map) == [n \in {1, 2} |-> IF n = 1 THEN Scalar(src) ELSE map]
WithMap == {With(7, MapOf({}, 0)), With(7, MapOf({3}, 5)), With(8, MapOf({3}, 5)),
            With(8, MapOf({3}, 6))}
AllRequests == WithMap \cup {With(8, MapOf({}, 0))}

Exact(n, k) == MatchRef(n, k, "EXACT")
HeaderRef(a) == IF Header(a) = 0 THEN MatchRef(2, 3, "ABSENCE") ELSE Exact(2, 3)

ByHeader(a) ==
  IF Header(a) = 5
  THEN [status |-> IF Source(a) = 7 THEN "OK" ELSE "DENIED",
        matches |-> {HeaderRef(a), Exact(1, 0)}]
  ELSE [status |-> IF Header(a) = 0 THEN "INTERNAL" ELSE "NOT_FOUND",
        matches |-> {HeaderRef(a)}]

BySource(a) ==
  IF Source(a) = 8
  THEN [status |-> IF Header(a) = 0 THEN "OK" ELSE "DENIED",
        matches |-> {HeaderRef(a), Exact(1, 0)}]
  ELSE [status |-> "OK", matches |-> {Exact(1, 0)}]

Symm == Permutations(Threads)
Uses == {-1, 1}
=============================================================================
