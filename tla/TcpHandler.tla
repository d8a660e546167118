----------------------------- MODULE TcpHandler -----------------------------
(***************************************************************************)
(* control/src/tcp: the handler of one TCP connection.  It checks once,    *)
(* reports the bytes moved since the report before while the connection    *)
(* lasts and in the final report, whether or not the answer to the check   *)
(* has come by then.  Nothing in the code keeps a report from following    *)
(* the final one.  The mixer client (external here, modelled  *)
(* in MixerClient) answers a check within the call or later.               *)
(***************************************************************************)
EXTENDS RequestContext

CONSTANTS
  TcpConfigs,     \* the TcpClientConfigs
  TcpCheckData,   \* what is known of a connection
  TcpStatuses,    \* the answers to a check
  MaxBytes        \* bound: bytes moved in one direction

ASSUME TcpAssumption ==
  /\ MaxBytes \in Nat
  /\ \A config \in TcpConfigs :
       /\ IsFiniteSet(config.connection_quota_spec)
       /\ AreQuotaSpecs(SetToSeq(config.connection_quota_spec))

VARIABLES
  tcp_config,
  tcp_pc,            \* "new", "checking" or "checked"
  tcp_request,       \* request_context_
  last_report_info,
  info,              \* the connection's byte counts
  phase,             \* history: "periodic"; "final" after the first final report;
                     \* "again" after a report that followed it
  reported,          \* history: the sum of the deltas of all reports before
                     \* "again", and the totals of the last of them
  tcp_log            \* history: the check and its answer; the last report and
                     \* the answer there was by then

tcp_vars == <<tcp_config, tcp_pc, tcp_request, last_report_info, info, phase, reported, tcp_log>>

NoBytes == [received_bytes |-> 0, send_bytes |-> 0]

TcpInit ==
  /\ tcp_config \in TcpConfigs
  /\ tcp_pc = "new"
  /\ tcp_request = NewRequestContext
  /\ last_report_info = NoBytes
  /\ info = NoBytes
  /\ phase = "periodic"
  /\ reported = [deltas |-> NoBytes, totals |-> NoBytes]
  /\ tcp_log = [check |-> {}, verdict |-> {}, report |-> {}]

-----------------------------------------------------------------------------
(* The attributes *)

TcpExtractCheckAttributes(attributes, data) ==
  LET ip   == AddFound(attributes, "source.ip", "bytes", {s.ip : s \in data.source})
      port == AddFound(ip, "source.port", "int64", {s.port : s \in data.source})
      user == AddFound(port, "source.user", "string", data.user)
      mtls == AddBool(user, "connection.mtls", data.mtls)
  IN AddString(AddTimestamp(mtls, "context.time"), "context.protocol", <<"tcp">>)

\* The bytes moved since the report before.
Deltas ==
  [received_bytes |-> info.received_bytes - last_report_info.received_bytes,
   send_bytes     |-> info.send_bytes - last_report_info.send_bytes]

\* Mutant: the test of is_final_report the wrong way round.
ReportedUpToIfFinal(is_final_report) == IF is_final_report THEN info ELSE last_report_info

\* last_report_info after a report: a final one leaves it alone.
ReportedUpTo(is_final_report) == IF is_final_report THEN last_report_info ELSE info

TcpExtractReportAttributes(request, is_final_report, destination) ==
  LET received == AddInt64(AddInt64(request.attributes,
                    "connection.received.bytes", Deltas.received_bytes),
                    "connection.received.bytes_total", info.received_bytes)
      sent     == AddInt64(AddInt64(received,
                    "connection.sent.bytes", Deltas.send_bytes),
                    "connection.sent.bytes_total", info.send_bytes)
      duration == IF is_final_report THEN AddDuration(sent, "connection.duration", "elapsed")
                  ELSE sent
      error    == IF is_final_report /\ request.check_status # "OK"
                  THEN AddCheckError(duration, request.check_status) ELSE duration
      dest     == AddFound(AddFound(error, "destination.ip", "bytes", {d.ip : d \in destination}),
                           "destination.port", "int64", {d.port : d \in destination})
  IN AddTimestamp(dest, "context.time")

-----------------------------------------------------------------------------
(* The handler *)

\* Check.  answer is {} while the mixer client waits for the server.
TcpCheck(data, answer) ==
  LET enabled   == ~tcp_config.disable_check_calls \/ ~tcp_config.disable_report_calls
      extracted == IF enabled
                   THEN TcpExtractCheckAttributes(
                          MergeFrom(tcp_request.attributes, tcp_config.mixer_attributes), data)
                   ELSE tcp_request.attributes
      required  == AddQuotas(SetToSeq(tcp_config.connection_quota_spec), extracted,
                             tcp_request.quotas)
      request   == [tcp_request EXCEPT !.attributes = extracted]
  IN /\ tcp_pc = "new"
     /\ IF tcp_config.disable_check_calls
        THEN /\ answer = {}
             /\ tcp_pc' = "checked"
             /\ tcp_request' = request
             /\ UNCHANGED tcp_log
        ELSE /\ tcp_pc' = IF answer = {} THEN "checking" ELSE "checked"
             /\ tcp_request' = Sent([request EXCEPT !.quotas = required], answer)
             /\ tcp_log' = [tcp_log EXCEPT
                              !.check = {[attributes |-> extracted, quotas |-> required]},
                              !.verdict = answer]
     /\ UNCHANGED <<tcp_config, last_report_info, info, phase, reported>>

\* The mixer client calls back, before or after the final report.
TcpAnswer(status) ==
  /\ tcp_pc = "checking"
  /\ tcp_pc' = "checked"
  /\ tcp_request' = SaveStatus(tcp_request, status)
  /\ tcp_log' = [tcp_log EXCEPT !.verdict = {status}]
  /\ UNCHANGED <<tcp_config, last_report_info, info, phase, reported>>

PhaseAfter(is_final_report) ==
  IF phase # "periodic" THEN "again" ELSE IF is_final_report THEN "final" ELSE "periodic"

\* Report, with one argument or with two.
TcpReport(is_final_report, destination) ==
  /\ tcp_pc # "new"
  /\ IF tcp_config.disable_report_calls
     THEN UNCHANGED <<tcp_request, last_report_info, phase, reported, tcp_log>>
     ELSE LET attributes == TcpExtractReportAttributes(tcp_request, is_final_report, destination)
          IN /\ tcp_request' = [tcp_request EXCEPT !.attributes = attributes]
             /\ last_report_info' = ReportedUpTo(is_final_report)
             /\ phase' = PhaseAfter(is_final_report)
             /\ reported' = IF phase' = "again" THEN reported ELSE
                  [deltas |-> [received_bytes |-> reported.deltas.received_bytes + Deltas.received_bytes,
                               send_bytes |-> reported.deltas.send_bytes + Deltas.send_bytes],
                   totals |-> info]
             /\ tcp_log' = [tcp_log EXCEPT !.report = {[attributes |-> attributes,
                                                       final |-> is_final_report,
                                                       verdict |-> tcp_log.verdict]}]
  /\ UNCHANGED <<tcp_config, tcp_pc, info>>

\* The connection moves data (external).
Move(received, sent) ==
  /\ info' = [received_bytes |-> info.received_bytes + received,
              send_bytes |-> info.send_bytes + sent]
  /\ info'.received_bytes <= MaxBytes /\ info'.send_bytes <= MaxBytes
  /\ UNCHANGED <<tcp_config, tcp_pc, tcp_request, last_report_info, phase, reported, tcp_log>>

TcpNext ==
  \/ \E data \in TcpCheckData, answer \in {{}} \cup {{s} : s \in TcpStatuses} : TcpCheck(data, answer)
  \/ \E status \in TcpStatuses : TcpAnswer(status)
  \/ \E final \in BOOLEAN, data \in TcpCheckData : TcpReport(final, data.source)
  \/ \E received, sent \in 0 .. MaxBytes : Move(received, sent)

TcpSpec == TcpInit /\ [][TcpNext]_tcp_vars

-----------------------------------------------------------------------------
(* Properties *)

\* The deltas of the reports of a connection add up to the totals of the last
\* one, in both directions and for every mix of periodic reports and a final one,
\* and no delta is ever negative: tcp/attributes_builder.cc moves
\* last_report_info exactly when another report may follow.  A report after a
\* final one is not covered: it counts the bytes of the final one again.
DeltasAddUp ==
  /\ reported.deltas = reported.totals
  /\ Deltas.received_bytes >= 0 /\ Deltas.send_bytes >= 0
=============================================================================
