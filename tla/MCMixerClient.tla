--------------------------- MODULE MCMixerClient ---------------------------
(***************************************************************************)
(* Requests have an attribute 1, the source.  The server looks at it for   *)
(* the quota "rps"; for "total" it looks at nothing.                       *)
(***************************************************************************)
EXTENDS MixerClient

From(v) == [n \in {1} |-> [kind |-> "scalar", entries |-> [k \in {NoKey} |-> v]]]

OneSource == {From(7)}

PerSource(n, a) == IF n = "rps" THEN {MatchRef(1, NoKey, "EXACT")} ELSE {}

BothQuotas == {<<>>, <<"rps", "total">>}

Symm == Permutations(Calls)
=============================================================================
