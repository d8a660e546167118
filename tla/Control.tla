------------------------------- MODULE Control -------------------------------
(***************************************************************************)
(* src/control: a controller serves HTTP requests or TCP connections.      *)
(***************************************************************************)
EXTENDS HttpControl, TcpHandler

VARIABLE protocol

vars == <<protocol, http_vars, tcp_vars>>

\* The configuration for the other protocol is not used.
Init ==
  /\ HttpInit /\ TcpInit
  /\ \/ protocol = "http" /\ tcp_config = The(TcpConfigs)
     \/ protocol = "tcp" /\ http_config = The(Configs)

Next ==
  /\ UNCHANGED protocol
  /\ \/ protocol = "http" /\ HttpNext /\ UNCHANGED tcp_vars
     \/ protocol = "tcp" /\ TcpNext /\ UNCHANGED http_vars

Spec == Init /\ [][Next]_vars

-----------------------------------------------------------------------------
(* Properties *)

\* The quotas that specs demand for attributes: specification, rule, place.
Due(specs, attributes) ==
  UNION {UNION {{<<i, r, k>> : k \in DOMAIN specs[i][r].quotas} :
                  r \in {q \in DOMAIN specs[i] : RuleApplies(specs[i][q], attributes)}} :
           i \in DOMAIN specs}

QuotasDue(specs, check) ==
  LET due == Due(specs, check.attributes)
  IN /\ Len(check.quotas) = Cardinality(due)
     /\ \A quota \in ToSet(check.quotas) :
          Cardinality({k \in DOMAIN check.quotas : check.quotas[k] = quota})
            = Cardinality({p \in due : specs[p[1]][p[2]].quotas[p[3]] = quota})

\* The quotas a check asks for are those the rules of its service or connection
\* demand for exactly the attributes sent with it: rules may match on forwarded,
\* extracted and API attributes alike, and the handler fills quotas once.
QuotasMatchSent ==
  /\ \A h \in Handlers : \A check \in handler[h].check :
       QuotasDue(The(ConfigOf(h)).quota_spec, check)
  /\ \A check \in tcp_log.check : QuotasDue(SetToSeq(tcp_config.connection_quota_spec), check)

\* What this proxy has seen itself of a request: names and values.
Observed(data) ==
  {<<name, data.header_type[TopLevelAttrs[name][1]]>> :
     name \in {n \in DOMAIN TopLevelAttrs : TopLevelAttrs[n][1] \in DOMAIN data.header_type}}
    \cup {<<"source.ip", s.ip>> : s \in data.source}
    \cup {<<"source.user", user>> : user \in data.user}
    \cup {<<"connection.mtls", data.mtls>>}

\* The attributes the API specification of a service may set.
ApiNames(config) ==
  LET spec == ApiSpec(The(config))
  IN DOMAIN spec.attributes \cup UNION {DOMAIN p.attributes : p \in ToSet(spec.patterns)}

\* What the proxy has seen itself goes into the check and into the report that
\* follows, whatever the proxy before it has forwarded and the configuration
\* states under the same names; only the service's API specification may say
\* otherwise.  What it has not seen, such as the user, may be forwarded.
ObservedWins ==
  \A h \in Handlers : \A check \in handler[h].check :
    \A seen \in Observed(check.data) :
      seen[1] \notin ApiNames(ConfigOf(h)) =>
        /\ check.attributes[seen[1]].value = seen[2]
        /\ \A report \in handler[h].report : report.attributes[seen[1]].value = seen[2]

\* The status a check was denied with, if it was by the time of the report.
Denial(report) == {s \in report.verdict : s # "OK"}

\* A report that follows a denial gives its code, and the HTTP code derived from
\* it for the response's; a report that comes before the answer, or after an OK,
\* gives the upstream's code and no error.  Of several requests in flight each
\* reports its own.  A TCP connection gives the error in a final report, and not
\* before that.
VerdictReported ==
  /\ \A h \in Handlers : \A report \in handler[h].report :
       LET said == report.attributes
       IN /\ said["response.code"].value =
               IF Denial(report) = {} THEN report.data.response_code
               ELSE StatusHttpCode(The(Denial(report)))
          /\ {said[n].value : n \in {"check.error_code"} \cap DOMAIN said} = Denial(report)
  /\ \A report \in tcp_log.report :
       LET said == report.attributes
           error == {said[n].value : n \in {"check.error_code"} \cap DOMAIN said}
       IN /\ error \subseteq Denial(report)
          /\ report.final => error = Denial(report)
          /\ phase = "periodic" => error = {}

\* The context of each service is made once and shared by every name that means
\* the service, the unknown names of the default service included.
OneContextPerService ==
  \A m, n \in DOMAIN service_context_map :
    /\ contexts[service_context_map[n]] = GetServiceConfig(GetServiceName(n))
    /\ service_context_map[m] = service_context_map[n]
         <=> GetServiceName(m) = GetServiceName(n)

\* A handler that is created gets the configuration of its route's id as long
\* as fewer other ids than the cache holds have been used since that id was;
\* otherwise, or without an id, silently that of the route's service.
HandlerGetsItsConfig ==
  [][\A h \in Handlers : handler[h].route = {} =>
       \A route \in handler'[h].route :
         LET id == route.service_config_id
             cached == ToSet(SubSeq(recent, Max({1, Len(recent) - CacheLimit + 1}), Len(recent)))
         IN contexts'[handler'[h].context] =
              IF id # "" /\ id \in cached THEN {Versions[id]}
              ELSE GetServiceConfig(GetServiceName(route.destination_service))]_vars
=============================================================================
