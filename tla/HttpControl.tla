---------------------------- MODULE HttpControl ----------------------------
(***************************************************************************)
(* control/src/http: the controller with its service contexts, and the     *)
(* handlers of several requests at once.  A handler checks and later       *)
(* reports one request; the mixer client (external here, modelled in       *)
(* MixerClient) answers a check within the call, later, or after the       *)
(* report.                                                                 *)
(***************************************************************************)
EXTENDS HttpApiSpec, RequestContext

CONSTANTS
  Configs,         \* the HttpClientConfigs
  CacheSize,       \* Options::service_config_cache_size
  Versions,        \* ServiceConfig by service_config_id
  Handlers,
  Routes,          \* the PerRouteConfigs
  CheckData,       \* what is known of a request
  Statuses,        \* the answers to a check
  ReportInfos,     \* what is known of a response
  MaxContexts      \* bound: service contexts made

\* What may be configured for a service.
ServiceConfigs ==
  {Versions[id] : id \in DOMAIN Versions}
    \cup UNION {{config.service_configs[name] : name \in DOMAIN config.service_configs} :
                  config \in Configs}

ASSUME HttpAssumption ==
  /\ CacheSize \in Int /\ MaxContexts \in Nat
  /\ \A service \in ServiceConfigs : AreQuotaSpecs(service.quota_spec)
  /\ \A data \in CheckData : Optional(data.source) /\ Optional(data.user)

VARIABLES
  http_config,
  contexts,              \* the ServiceContexts made: {} or {its ServiceConfig}
  service_context_map,   \* by service name, the number of a context
  service_context_cache, \* the same by service_config_id
  cache_order,           \* its ids, least recently used first
  handler,
  recent                 \* history: all ids ever used, most recent last

http_vars == <<http_config, contexts, service_context_map, service_context_cache, cache_order,
               handler, recent>>

\* A handler's context_, request_context_ and, as history, its route and what
\* left it: the attributes for the next proxy, the check with what was known of
\* the request, the answer, and the report with the answer there was by then.
NewHandler == [pc |-> "none", route |-> {}, context |-> 0, request |-> NewRequestContext,
               upstream |-> {}, check |-> {}, verdict |-> {}, report |-> {}]

HttpInit ==
  /\ http_config \in Configs
  /\ contexts = <<>>
  /\ service_context_map = <<>>
  /\ service_context_cache = <<>> /\ cache_order = <<>>
  /\ handler = [h \in Handlers |-> NewHandler]
  /\ recent = <<>>

-----------------------------------------------------------------------------
(* ClientContext and ServiceContext *)

GetServiceName(name) ==
  IF name # "" /\ name \in DOMAIN http_config.service_configs
  THEN name ELSE http_config.default_destination_service

GetServiceConfig(name) == Find(http_config.service_configs, name)

ConfigOf(h) == contexts[handler[h].context]
enable_mixer_check(config) == \E c \in config : ~c.disable_check_calls
enable_mixer_report(config) == \E c \in config : ~c.disable_report_calls

AddStaticAttributes(config, attributes) ==
  MergeFound(MergeFound(attributes, http_config.mixer_attributes), The(config).mixer_attributes)

\* BuildParsers joins the specifications of a service into one.
ApiSpec(service) ==
  LET specs == service.http_api_spec
  IN [attributes |-> MergeEach(<<>>, [i \in DOMAIN specs |-> specs[i].attributes]),
      patterns   |-> FlattenSeq([i \in DOMAIN specs |-> specs[i].patterns]),
      api_keys   |-> FlattenSeq([i \in DOMAIN specs |-> specs[i].api_keys])]

NamesPath(data) == {"HEADER_METHOD", "HEADER_PATH"} \subseteq DOMAIN data.header_type

\* The matcher finds patterns of the specification it was built from.
ASSUME MatchedAssumption ==
  \A service \in ServiceConfigs : LET patterns == ApiSpec(service).patterns IN
    \A data \in {d \in CheckData : NamesPath(d)} :
      MatchedPatterns(patterns, data.header_type["HEADER_METHOD"], data.header_type["HEADER_PATH"])
        \in Seq(DOMAIN patterns)

AddApiAttributes(config, data, attributes) ==
  LET spec == ApiSpec(The(config))
  IN AddFound(IF NamesPath(data)
              THEN AddAttributes(spec, data.header_type["HEADER_METHOD"],
                                 data.header_type["HEADER_PATH"], attributes)
              ELSE attributes,
              "request.api_key", "string", ExtractApiKey(spec, data))

-----------------------------------------------------------------------------
(* AttributesBuilder *)

\* By attribute, its header and the default for it.
TopLevelAttrs ==
  [name \in {"request.host", "request.method", "request.path", "request.referer",
             "request.scheme", "request.useragent"} |->
     CASE name = "request.host"      -> <<"HEADER_HOST", {<<>>}>>
       [] name = "request.method"    -> <<"HEADER_METHOD", {}>>
       [] name = "request.path"      -> <<"HEADER_PATH", {<<>>}>>
       [] name = "request.referer"   -> <<"HEADER_REFERER", {}>>
       [] name = "request.scheme"    -> <<"HEADER_SCHEME", {<<"http">>}>>
       [] name = "request.useragent" -> <<"HEADER_USER_AGENT", {}>>]

ExtractRequestHeaderAttributes(attributes, data) ==
  LET found(name) == FirstFound(<<Find(data.header_type, TopLevelAttrs[name][1]),
                                  TopLevelAttrs[name][2]>>)
  IN MergeFrom(AddStringMap(attributes, "request.headers", data.header),
               [name \in {n \in DOMAIN TopLevelAttrs : found(n) # {}} |->
                  [type |-> "string", value |-> The(found(name))]])

\* Without a payload, or with an empty one, nothing is found in it.
ExtractRequestAuthAttributes(attributes, data) ==
  LET payload == IF data.jwt_payload = {} THEN <<>> ELSE The(data.jwt_payload)
      principal == {iss \o <<"/">> \o sub : iss \in Find(payload, "iss"),
                                            sub \in Find(payload, "sub")}
      named == AddFound(attributes, "request.auth.principal", "string", principal)
      aud   == AddFound(named, "request.auth.audiences", "string", Find(payload, "aud"))
      azp   == AddFound(aud, "request.auth.presenter", "string", Find(payload, "azp"))
  IN AddStringMap(azp, "request.auth.claims", payload)

\* x-istio-attributes of the proxy before this one: Attributes, or else the
\* string map of an old proxy, or else ignored.
Forwarded(header) ==
  CASE header.format = "attributes" -> header.attributes
    [] header.format = "string_map" ->
         [name \in DOMAIN header.entries |-> IpOrString(name, header.entries[name])]
    [] OTHER -> <<>>

ExtractForwardedAttributes(attributes, data) ==
  MergeFound(attributes, {Forwarded(header) : header \in data.istio_attributes})

ExtractCheckAttributes(attributes, data) ==
  LET auth == ExtractRequestAuthAttributes(ExtractRequestHeaderAttributes(attributes, data), data)
      ip   == AddFound(auth, "source.ip", "bytes", {s.ip : s \in data.source})
      port == AddFound(ip, "source.port", "int64", {s.port : s \in data.source})
      mtls == AddBool(port, "connection.mtls", data.mtls)
      user == AddFound(mtls, "source.user", "string", data.user)
  IN AddString(AddTimestamp(user, "request.time"), "context.protocol", <<"http">>)

ExtractReportAttributes(request, data) ==
  LET headers == AddTimestamp(AddStringMap(request.attributes, "response.headers", data.headers),
                              "response.time")
      sizes   == AddInt64(AddInt64(headers, "request.size", data.received_bytes),
                          "response.size", data.send_bytes)
      elapsed == AddDuration(sizes, "response.duration", "elapsed")
  IN IF request.check_status # "OK"
     THEN AddCheckError(AddInt64(elapsed, "response.code", StatusHttpCode(request.check_status)),
                        request.check_status)
     ELSE AddInt64(elapsed, "response.code", data.response_code)

-----------------------------------------------------------------------------
(* The controller *)

\* The default size is 1000, more than there are ids.
CacheLimit == IF CacheSize <= 0 THEN 1000 ELSE CacheSize

UsedLast(ids, id) == Append(RemoveFirst(ids, id), id)

\* Mutant: the new entry is the one to go.
KeptFirst(order) == SubSeq(order, 1, Min({CacheLimit, Len(order)}))

\* What LRU eviction leaves.
Kept(order) == SubSeq(order, Max({1, Len(order) - CacheLimit + 1}), Len(order))

\* LookupServiceConfig.  A lookup that finds the id makes it the last used.
LookupServiceConfig(id) ==
  /\ id \in DOMAIN service_context_cache
  /\ cache_order' = UsedLast(cache_order, id)
  /\ recent' = UsedLast(recent, id)
  /\ UNCHANGED <<http_config, contexts, service_context_map, service_context_cache, handler>>

\* AddServiceConfig, after a lookup that has found nothing.
AddServiceConfig(id) ==
  /\ id \notin DOMAIN service_context_cache /\ Len(contexts) < MaxContexts
  /\ contexts' = Append(contexts, {Versions[id]})
  /\ cache_order' = Kept(Append(cache_order, id))
  /\ service_context_cache' = [i \in ToSet(cache_order') |->
       IF i = id THEN Len(contexts') ELSE service_context_cache[i]]
  /\ recent' = UsedLast(recent, id)
  /\ UNCHANGED <<http_config, service_context_map, handler>>

\* Mutant: not under the valid name.
RememberedForOrigin(map, valid, origin, context) ==
  [name \in DOMAIN map \cup {origin} |-> IF name = origin THEN context ELSE map[name]]

\* A context is remembered under the name asked for and under the valid one.
Remembered(map, valid, origin, context) ==
  [name \in DOMAIN map \cup {valid, origin} |->
     IF name \in {valid, origin} THEN context ELSE map[name]]

\* GetServiceContext: the context of a route, by its id while that is cached,
\* else by the service name, whose context is made when first asked for.
GetServiceContext(route, context) ==
  LET id     == route.service_config_id
      origin == route.destination_service
      valid  == GetServiceName(origin)
      known(name) == IF name \in DOMAIN service_context_map THEN service_context_map[name] ELSE 0
      found  == IF known(origin) # 0 THEN known(origin) ELSE known(valid)
  IN IF id # "" /\ id \in DOMAIN service_context_cache
     THEN /\ context = service_context_cache[id]
          /\ cache_order' = UsedLast(cache_order, id)
          /\ recent' = UsedLast(recent, id)
          /\ UNCHANGED <<contexts, service_context_map>>
     ELSE /\ context = (IF found # 0 THEN found ELSE Len(contexts) + 1)
          /\ context <= MaxContexts
          /\ contexts' = IF found # 0 THEN contexts
                         ELSE Append(contexts, GetServiceConfig(valid))
          /\ service_context_map' =
               IF known(origin) # 0 THEN service_context_map
               ELSE Remembered(service_context_map, valid, origin, context)
          /\ UNCHANGED <<cache_order, recent>>

CreateRequestHandler(h, route) ==
  /\ handler[h].pc = "none"
  /\ \E context \in 1 .. MaxContexts :
       /\ GetServiceContext(route, context)
       /\ handler' = [handler EXCEPT ![h].pc = "created", ![h].context = context,
                                     ![h].route = {route}]
  /\ UNCHANGED <<http_config, service_context_cache>>

-----------------------------------------------------------------------------
(* The handler *)

\* Mutant: the forwarded attributes are merged last.
ExtractForwardedLast(config, data, attributes) ==
  IF enable_mixer_check(config) \/ enable_mixer_report(config)
  THEN AddApiAttributes(config, data,
         ExtractForwardedAttributes(
           ExtractCheckAttributes(AddStaticAttributes(config, attributes), data), data))
  ELSE attributes

Extract(config, data, attributes) ==
  IF enable_mixer_check(config) \/ enable_mixer_report(config)
  THEN AddApiAttributes(config, data,
         ExtractCheckAttributes(
           ExtractForwardedAttributes(AddStaticAttributes(config, attributes), data), data))
  ELSE attributes

\* ExtractRequestAttributes, for a request that is rejected before its check.
ExtractRequestAttributes(h, data) ==
  /\ handler[h].pc = "created"
  /\ handler' = [handler EXCEPT
                   ![h].pc = "checked",
                   ![h].request.attributes = Extract(ConfigOf(h), data, @)]
  /\ UNCHANGED <<http_config, contexts, service_context_map, service_context_cache, cache_order, recent>>

\* SendCheck.  answer is {} while the mixer client waits for the server.
SendCheck(it, data, answer) ==
  [it EXCEPT !.pc = IF answer = {} THEN "checking" ELSE "checked",
             !.request = Sent(@, answer),
             !.check = {[attributes |-> it.request.attributes, quotas |-> it.request.quotas,
                         data |-> data]},
             !.verdict = answer]

CheckExtracted(it, config, data, answer) ==
  IF enable_mixer_check(config)
  THEN SendCheck([it EXCEPT !.request.quotas = 
                                     AddQuotas(The(config).quota_spec, it.request.attributes, @)],
                 data, answer)
  ELSE [it EXCEPT !.pc = "checked"]

\* Check; upstream is what x-istio-attributes then holds.
Check(h, data, answer) ==
  LET config    == ConfigOf(h)
      extracted == [handler[h] EXCEPT !.request.attributes = Extract(config, data, @),
                                      !.upstream = http_config.forward_attributes]
  IN /\ handler[h].pc = "created"
     /\ ~enable_mixer_check(config) => answer = {}
     /\ handler' = [handler EXCEPT ![h] = CheckExtracted(extracted, config, data, answer)]
     /\ UNCHANGED <<http_config, contexts, service_context_map, service_context_cache,
                    cache_order, recent>>

\* The mixer client calls back.
Answer(h, status) ==
  /\ handler[h].pc = "checking"
  /\ handler' = [handler EXCEPT ![h].pc = "checked",
                                ![h].request = SaveStatus(@, status),
                                ![h].verdict = {status}]
  /\ UNCHANGED <<http_config, contexts, service_context_map, service_context_cache, cache_order, recent>>

\* Report, once per request.
Report(h, data) ==
  LET attributes == ExtractReportAttributes(handler[h].request, data)
  IN /\ handler[h].pc \in {"checking", "checked"} /\ handler[h].report = {}
     /\ enable_mixer_report(ConfigOf(h))
     /\ handler' = [handler EXCEPT
                      ![h].request.attributes = attributes,
                      ![h].report = {[attributes |-> attributes, data |-> data,
                                      verdict |-> handler[h].verdict]}]
     /\ UNCHANGED <<http_config, contexts, service_context_map, service_context_cache, cache_order, recent>>

HttpNext ==
  \/ \E id \in DOMAIN Versions : LookupServiceConfig(id) \/ AddServiceConfig(id)
  \/ \E h \in Handlers :
       \/ \E route \in Routes : CreateRequestHandler(h, route)
       \/ \E data \in CheckData : ExtractRequestAttributes(h, data)
       \/ \E data \in CheckData, answer \in {{}} \cup {{s} : s \in Statuses} : Check(h, data, answer)
       \/ \E status \in Statuses : Answer(h, status)
       \/ \E data \in ReportInfos : Report(h, data)
=============================================================================
