--------------------------- MODULE MCReportBatch ---------------------------
(***************************************************************************)
(* The names x (base dictionary), y (only in the current dictionary) and z *)
(* (in none); "y" is also used as a value.  The reports change a value,    *)
(* repeat one, add a name, drop a name and need new message words.         *)
(***************************************************************************)
EXTENDS ReportBatch

Str(w) == [raw |-> 0, words |-> <<w>>]
Raw(n) == [raw |-> n, words |-> <<>>]

MCDict == <<"x", "y">>
MCReports ==
  {[n \in {"x"} |-> Str("y")],
   [n \in {"x", "y"} |-> IF n = "x" THEN Str("y") ELSE Raw(1)],
   [n \in {"x", "y"} |-> IF n = "x" THEN Str("m") ELSE Raw(1)],
   [n \in {"x", "z"} |-> IF n = "x" THEN Raw(2) ELSE [raw |-> 0, words |-> <<"m", "z">>]]}
=============================================================================
