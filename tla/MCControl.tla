------------------------------ MODULE MCControl ------------------------------
(***************************************************************************)
(* Service "a" has an API specification and quota rules on its attributes, *)
(* "b" does not check; "z" is unknown.  One configuration has "a" as the   *)
(* default service, the other a service without a configuration.           *)
(***************************************************************************)
EXTENDS Control, ApiPatterns

Str(s) == [type |-> "string", value |-> s]
None == <<>>   \* the empty map

P == <<"/", "x">>
ApiA == [attributes |-> "api.service" :> Str(<<"a">>),
         patterns |-> <<
           [kind |-> "uri_template", http_method |-> <<"GET">>,
            uri_template |-> <<"/", "*">>, attributes |-> "api.operation" :> Str(<<"x", "1">>)],
           [kind |-> "regex", http_method |-> <<"GET">>, regex |-> {<<"/", "y">>},
            attributes |-> "api.operation" :> Str(<<"y">>)]>>,
         api_keys |-> <<>>]
ApiKeysA == [attributes |-> None, patterns |-> <<>>,
             api_keys |-> <<<<"not_set", "">>, <<"cookie", "k">>>>]

Rule(match, quotas) == [match |-> match, quotas |-> quotas]
QuotaA == <<
  Rule({"api.operation" :> [type |-> "prefix", prefix |-> <<"x">>]}, <<<<"q", 1>>>>),
  Rule({}, <<<<"p", 2>>, <<"q", 1>>>>),
  Rule({"source.user" :> [type |-> "exact", exact |-> <<"u">>],
        "api.operation" :> [type |-> "regex", regex |-> {<<"y">>}]
          @@ "request.path" :> [type |-> "not_set"]}, <<<<"r", 1>>>>) >>
QuotaUser == << Rule({"source.user" :> [type |-> "exact", exact |-> <<"u">>]}, <<<<"c", 1>>>>) >>

Service(attributes, apis, quotas, nocheck, noreport) ==
  [mixer_attributes |-> attributes, http_api_spec |-> apis, quota_spec |-> quotas,
   disable_check_calls |-> nocheck, disable_report_calls |-> noreport]

ServiceA == Service({"source.user" :> Str(<<"s">>)}, <<ApiA>>, <<QuotaA>>, FALSE, FALSE)
ServiceB == Service({}, <<>>, <<>>, TRUE, FALSE)
ServiceC == Service({}, <<ApiKeysA>>, <<QuotaUser, QuotaUser>>, FALSE, TRUE)

HttpConfig(default, forward) ==
  [service_configs |-> [n \in {"a", "b"} |-> IF n = "a" THEN ServiceA ELSE ServiceB],
   default_destination_service |-> default,
   mixer_attributes |-> {"connection.mtls" :> [type |-> "bool", value |-> FALSE]},
   forward_attributes |-> forward]
HttpConfigs == {HttpConfig("a", {"source.user" :> Str(<<"p">>)}), HttpConfig("none", {})}

ConfigVersions == [id \in {"v1", "v2", "v3"} |-> IF id = "v1" THEN ServiceC ELSE ServiceB]

Route(service, id) == [destination_service |-> service, service_config_id |-> id]
SomeRoutes == {Route("a", "v1"), Route("z", ""), Route("", "v2")}

Request(headers, forwarded, user, source) ==
  [header_type |-> headers, header |-> "x-api-key" :> <<"k">>, query |-> None,
   cookie |-> "k" :> <<"c">>, jwt_payload |-> {},
   istio_attributes |-> forwarded, user |-> user, source |-> source, mtls |-> TRUE]
ToPath(path) == [h \in {"HEADER_METHOD", "HEADER_PATH"} |->
                   IF h = "HEADER_PATH" THEN path ELSE <<"GET">>]
Peer == [ip |-> <<10, 0, 0, 2>>, port |-> 80]

Requests == {
  Request(ToPath(P), {[format |-> "string_map", entries |-> ("source.ip" :> <<"10.0.0.1">>)
                         @@ ("source.user" :> <<"v">>)]}, {<<"u">>}, {}),
  [Request(ToPath(<<"/", "y">>),
           {[format |-> "attributes", attributes |-> "source.user" :> Str(<<"u">>)
              @@ "request.path" :> Str(<<"/", "z">>)]}, {}, {Peer})
     EXCEPT !.jwt_payload = {("iss" :> <<"i">>) @@ ("sub" :> <<"s">>)}] }

Responses == {[headers |-> None, received_bytes |-> 1, send_bytes |-> 2, response_code |-> 404]}

TcpConfig(quota, nocheck, noreport) ==
  [mixer_attributes |-> None, connection_quota_spec |-> quota,
   disable_check_calls |-> nocheck, disable_report_calls |-> noreport]
SomeTcpConfigs == {TcpConfig({QuotaUser}, FALSE, FALSE), TcpConfig({}, TRUE, FALSE),
                   TcpConfig({}, TRUE, TRUE)}
Connections == {[source |-> {Peer}, user |-> {<<"u">>}, mtls |-> TRUE],
                [source |-> {}, user |-> {}, mtls |-> FALSE]}

Symm == Permutations(Handlers)
=============================================================================
