----------------------------- MODULE ReportLog -----------------------------
(***************************************************************************)
(* What MixerClient::Report promises: every attribute set reported reaches *)
(* the transport once, in the order of the calls, whatever the batching.   *)
(***************************************************************************)
EXTENDS Naturals, Sequences

CONSTANTS Reports, MaxReports

VARIABLES reported, received

vars == <<reported, received>>

Init == reported = <<>> /\ received = <<>>

\* The transport is handed some more of the log.
CatchUp == \E n \in Len(received)..Len(reported') : received' = SubSeq(reported', 1, n)

Report(a) ==
  /\ Len(reported) < MaxReports
  /\ reported' = Append(reported, a)
  /\ CatchUp

Deliver == UNCHANGED reported /\ CatchUp

Next == Deliver \/ \E a \in Reports : Report(a)

Spec == Init /\ [][Next]_vars
=============================================================================
