--------------------------- MODULE RequestContext ---------------------------
(***************************************************************************)
(* What HTTP and TCP handlers share: control/src/request_context.h,        *)
(* client_context_base.cc and utils/status.cc.  A status is the name of    *)
(* its code.                                                               *)
(***************************************************************************)
EXTENDS QuotaConfig

NewRequestContext == [attributes |-> <<>>, quotas |-> <<>>, check_status |-> "OK"]

\* Mutant: the callback captures a copy of the request.
SaveStatusInCopy(request, status) == request

\* The callback that SendCheck hands to the mixer client.
SaveStatus(request, status) == [request EXCEPT !.check_status = status]

\* The request when SendCheck returns: the answer may have come within it.
Sent(request, answer) == IF answer = {} THEN request ELSE SaveStatus(request, The(answer))

StatusHttpCode(code) ==
  CASE code = "OK"                                                     -> 200
    [] code = "CANCELLED"                                              -> 499
    [] code \in {"UNKNOWN", "INTERNAL", "DATA_LOSS"}                   -> 500
    [] code \in {"INVALID_ARGUMENT", "FAILED_PRECONDITION", "OUT_OF_RANGE"} -> 400
    [] code = "DEADLINE_EXCEEDED"                                      -> 504
    [] code = "NOT_FOUND"                                              -> 404
    [] code \in {"ALREADY_EXISTS", "ABORTED"}                          -> 409
    [] code = "PERMISSION_DENIED"                                      -> 403
    [] code = "RESOURCE_EXHAUSTED"                                     -> 429
    [] code = "UNIMPLEMENTED"                                          -> 501
    [] code = "UNAVAILABLE"                                            -> 503
    [] code = "UNAUTHENTICATED"                                        -> 401
    [] OTHER                                                           -> 500

\* The attributes of a check that was not OK, in the report that follows it.
AddCheckError(attributes, status) ==
  AddString(AddInt64(attributes, "check.error_code", status),
            "check.error_message", <<status>>)
=============================================================================
