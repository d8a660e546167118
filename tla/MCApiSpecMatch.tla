--------------------------- MODULE MCApiSpecMatch ---------------------------
(***************************************************************************)
(* Templates that share prefixes, end in "**", have it before constant     *)
(* segments, have verbs, differ only in variables or are invalid.          *)
(***************************************************************************)
EXTENDS ApiSpecMatch

TemplateChunks ==
  {<<"/">>, <<"{", "a">>, <<"=">>, <<"*">>, <<"}">>, <<":", "b">>, <<".", "c">>}

T == <<
  <<"/", "a", "/", "b">>,
  <<"/", "a", ":", "b">>,
  <<"/", "a", "/", "*", "*">>,
  <<"/", "{", "x", "}", "/", "b">>,
  <<"/", "{", "x", "=", "a", "/", "*", "}">>,
  <<"/", "{", "x", "=", "*", "*", "}", ":", "b">>,
  <<"/", "{", "x", "=", "*", "/", "*", "*", "}", "/", "a">>,
  <<"/", "{", "x", "=", "*", "*", "}">>,
  <<"/", "*", "*", "/", "*">> >>

Pattern(i, m) == [kind |-> "uri_template", http_method |-> m, uri_template |-> T[i]]
TemplatePatterns ==
  {Pattern(i, <<"GET">>) : i \in DOMAIN T} \cup {Pattern(1, HttpMethod_WILD_CARD), Pattern(8, HttpMethod_WILD_CARD)}

RequestMethods == {<<"GET">>, <<"PUT">>}

RequestPaths == {
  <<"/">>,
  <<"/", "a">>,
  <<"/", "a", "/", "b", "/", "/">>,
  <<"/", "a", ":", "b", "?", ":", "a">>,
  <<"/", "a", ":", "b", "/", "b">>,
  <<"/", "a", "/", "b", ":", "b">>,
  <<"/", "b", "/", "%2F", "/", "a">>,
  <<"/", "%61", "/", "b", "/", "b">>,
  <<"/", "a", "/", "/", "b">>,
  <<"/", "a", "/", "a", "%2F">>,
  <<"/", "*", "*", "/", "b">> }

QueryString == <<"k", "=", "a", "&", "x", "=", "b", "&", "=", "c">>
SystemParameters == {<<"k">>}
=============================================================================
