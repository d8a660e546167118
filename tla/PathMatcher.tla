----------------------------- MODULE PathMatcher -----------------------------
(***************************************************************************)
(* src/api_spec/src/path_matcher.h and path_matcher_node.cc: the trie that *)
(* maps an HTTP method and a request path to the pattern that describes    *)
(* it, as operators on nodes, builders and matchers.  A pointer that may   *)
(* be null is a set with at most one element.                              *)
(*                                                                         *)
(* A path is the sequence of its characters, with a complete escape such   *)
(* as %2F as one of them.                                                  *)
(***************************************************************************)
EXTENDS HttpTemplate, Pointers

HttpMethod_WILD_CARD == <<"*">>

-----------------------------------------------------------------------------
(* PathMatcherNode *)

NewNode == [result_map |-> <<>>, children |-> <<>>, wildcard |-> FALSE]

InsertOrReturnExisting(collection, key, data) ==
  [collection |-> IF key \in DOMAIN collection THEN collection ELSE (key :> data) @@ collection,
   existing |-> Find(collection, key)]

LookupOrInsertNew(collection, key) == The(FirstFound(<<Find(collection, key), {NewNode}>>))

\* InsertPath.  A second pattern for the same node and method leaves the
\* first in place, marked, and is refused.
RECURSIVE InsertTemplate(_, _, _, _)
InsertTemplate(node, path, http_method, data) ==
  IF path = <<>>
  THEN LET done == InsertOrReturnExisting(node.result_map, http_method,
                                          [data |-> data, is_multiple |-> FALSE])
       IN [node |-> [node EXCEPT !.result_map =
                       IF done.existing = {} THEN done.collection
                       ELSE [done.collection EXCEPT ![http_method].is_multiple = TRUE]],
           inserted |-> done.existing = {}]
  ELSE LET child == LookupOrInsertNew(node.children, Head(path))
           below == InsertTemplate(
                      [child EXCEPT !.wildcard = @ \/ Head(path) = kWildCardPathKey],
                      Tail(path), http_method, data)
       IN [below EXCEPT !.node =
             [node EXCEPT !.children = (Head(path) :> below.node) @@ @]]

GetResultForHttpMethod(node, http_method) ==
  FirstFound(<<Find(node.result_map, http_method),
               Find(node.result_map, HttpMethod_WILD_CARD)>>)

RECURSIVE LookupPath(_, _, _)

LookupPathFromChild(node, key, parts, http_method) ==
  UNION {LookupPath(child, Tail(parts), http_method) : child \in Find(node.children, key)}

\* Mutant: no way back from the child of a constant part.
LookupPathCommitted(node, parts, http_method) ==
  IF parts = <<>> THEN GetResultForHttpMethod(node, http_method)
  ELSE LET key == The(FirstFound(<<{Head(parts)} \cap DOMAIN node.children,
                                   {kWildCardPathPartKey} \cap DOMAIN node.children,
                                   {kWildCardPathKey}>>))
       IN LookupPathFromChild(node, key, parts, http_method)

LookupPath(node, parts, http_method) ==
  IF parts = <<>>
  THEN FirstFound(<<GetResultForHttpMethod(node, http_method),
                    UNION {GetResultForHttpMethod(child, http_method) :
                             child \in Find(node.children, kWildCardPathKey)}>>)
  ELSE LET From(key) == LookupPathFromChild(node, key, parts, http_method)
       IN IF node.wildcard
          THEN FirstFound(<<From(Head(parts)),
                            LookupPath(node, Tail(parts), http_method)>>)
          ELSE FirstFound(<<From(Head(parts)), From(kSingleParameterKey),
                            From(kWildCardPathPartKey), From(kWildCardPathKey)>>)

-----------------------------------------------------------------------------
(* Request paths *)

\* 0 if c does not occur in s.
FirstOf(s, c) == Min({i \in DOMAIN s : s[i] = c} \cup {Len(s) + 1}) % (Len(s) + 1)
LastOf(s, c) == Max({i \in DOMAIN s : s[i] = c} \cup {0})

\* std::getline to the end: no item follows a delimiter at the end.
RECURSIVE Split(_, _)
Split(s, delim) ==
  LET pos == FirstOf(s, delim)
  IN IF s = <<>> THEN <<>>
     ELSE IF pos = 0 THEN <<s>>
     ELSE <<SubSeq(s, 1, pos - 1)>> \o Split(SubSeq(s, pos + 1, Len(s)), delim)

WithoutTrailingEmpty(parts) ==
  SubSeq(parts, 1, Max({i \in DOMAIN parts : parts[i] # <<>>} \cup {0}))

ExtractRequestParts(request_path, custom_verbs) ==
  LET query == FirstOf(request_path, "?")
      path  == IF query = 0 THEN request_path ELSE SubSeq(request_path, 1, query - 1)
      colon == LastOf(path, ":")
      slash == LastOf(path, "/")
      verb  == SubSeq(path, colon + 1, Len(path))
      clean == IF slash # 0 /\ colon > slash /\ verb \in custom_verbs
               THEN [path EXCEPT ![colon] = "/"] ELSE path
  IN WithoutTrailingEmpty(IF clean = <<>> THEN <<>> ELSE Split(Tail(clean), "/"))

IsReservedChar(c) ==
  c \in {"!", "#", "$", "&", "'", "(", ")", "*", "+", ",", "/", ":", ";", "=", "?",
         "@", "[", "]"}

\* The escapes that occur in paths and the characters they stand for.
Escapes == [c \in {"%2F", "%61"} |-> IF c = "%2F" THEN "/" ELSE "a"]

GetEscapedChar(c, unescape_reserved_chars) ==
  {d \in Find(Escapes, c) : unescape_reserved_chars \/ ~IsReservedChar(d)}

UrlUnescapeString(part, unescape_reserved_chars) ==
  [i \in DOMAIN part |->
     The(FirstFound(<<GetEscapedChar(part[i], unescape_reserved_chars), {part[i]}>>))]

\* The strings of list with "/" between them.
Join(list) ==
  FoldLeft(LAMBDA joined, i : joined \o (IF i = 1 THEN <<>> ELSE <<"/">>) \o list[i],
           <<>>, [i \in DOMAIN list |-> i])

ExtractBindingsFromPath(vars, parts) ==
  [v \in DOMAIN vars |->
     LET var == vars[v]
         end_segment == IF var.end_segment >= 0 THEN var.end_segment
                        ELSE Len(parts) + var.end_segment + 1
         is_multipart == end_segment - var.start_segment > 1 \/ var.end_segment < 0
         bound == SubSeq(parts, var.start_segment + 1, end_segment)
     IN [field_path |-> var.field_path,
         value |-> Join([i \in DOMAIN bound |-> UrlUnescapeString(bound[i], ~is_multipart)])]]

ExtractBindingsFromQueryParameters(query_params, system_params) ==
  LET name(param) == SubSeq(param, 1, FirstOf(param, "=") - 1)
      isBinding(param) == FirstOf(param, "=") > 1 /\ name(param) \notin system_params
      params == SelectSeq(Split(query_params, "&"), isBinding)
  IN [i \in DOMAIN params |->
        [field_path |-> Split(name(params[i]), "."),
         value |-> UrlUnescapeString(
                     SubSeq(params[i], FirstOf(params[i], "=") + 1, Len(params[i])), TRUE)]]

-----------------------------------------------------------------------------
(* PathMatcherBuilder and PathMatcher.  Build moves the builder's root and *)
(* verbs into the matcher, so that one record serves for both.             *)

NewBuilder == [root |-> NewNode, custom_verbs |-> {}]

TransformHttpTemplate(ht) == ht.segments \o (IF ht.verb = <<>> THEN <<>> ELSE <<ht.verb>>)

RegisterTemplate(builder, http_method, ht, body_field_path, method) ==
  LET done == InsertTemplate(builder.root, TransformHttpTemplate(ht), http_method,
                             [method |-> method, variables |-> ht.variables,
                              body_field_path |-> body_field_path])
  IN [builder |-> [root |-> done.node,
                   custom_verbs |-> builder.custom_verbs \cup
                     (IF done.inserted /\ ht.verb # <<>> THEN {ht.verb} ELSE {})],
      ok |-> done.inserted]

\* The first of the outcomes: that of the template, or none for an invalid one.
Register(builder, http_method, http_template, body_field_path, method) ==
  The(FirstFound(<<
    {RegisterTemplate(builder, http_method, ht, body_field_path, method) :
       ht \in {t \in Parse(http_template) : TransformHttpTemplate(t) # <<>>}},
    {[builder |-> builder, ok |-> FALSE]} >>))

Lookup(matcher, http_method, path) ==
  {result.data.method :
     result \in LookupPath(matcher.root, ExtractRequestParts(path, matcher.custom_verbs), http_method)}

\* The overload that also reports the bindings and the body field path.
LookupBindings(matcher, http_method, path, query_params, system_params) ==
  LET parts == ExtractRequestParts(path, matcher.custom_verbs)
  IN {[method |-> result.data.method,
       variable_bindings |-> ExtractBindingsFromPath(result.data.variables, parts)
                               \o ExtractBindingsFromQueryParameters(query_params, system_params),
       body_field_path |-> result.data.body_field_path] :
        result \in LookupPath(matcher.root, parts, http_method)}
=============================================================================
