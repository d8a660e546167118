----------------------------- MODULE HttpApiSpec -----------------------------
(***************************************************************************)
(* src/api_spec/src/http_api_spec_parser_impl.cc: the API attributes and   *)
(* the API key of a request, from an HTTPAPISpec.                          *)
(***************************************************************************)
EXTENDS Attributes

\* The positions of the patterns that match a method and a path, in the order
\* in which they are merged: Matched of ApiPatterns.
CONSTANT MatchedPatterns(_, _, _)

\* The global attributes, then those of the patterns that match.
AddAttributes(api_spec, http_method, path, attributes) ==
  LET matched == MatchedPatterns(api_spec.patterns, http_method, path)
  IN MergeEach(MergeFrom(attributes, api_spec.attributes),
               [k \in DOMAIN matched |-> api_spec.patterns[matched[k]].attributes])

\* BuildApiKeyData
ApiKeys(api_spec) ==
  IF api_spec.api_keys = <<>>
  THEN <<<<"query", "key">>, <<"query", "api_key">>, <<"header", "x-api-key">>>>
  ELSE api_spec.api_keys

\* A key that is not set is found nowhere.
ExtractApiKey(api_spec, check_data) ==
  LET keys == ApiKeys(api_spec)
  IN FirstFound([k \in DOMAIN keys |->
       IF keys[k][1] = "not_set" THEN {} ELSE Find(check_data[keys[k][1]], keys[k][2])])
=============================================================================
