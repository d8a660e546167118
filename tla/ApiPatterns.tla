----------------------------- MODULE ApiPatterns -----------------------------
(***************************************************************************)
(* src/api_spec/src/http_api_spec_parser_impl.cc: the patterns of an       *)
(* HTTPAPISpec that match a request.  A regex (std::regex, external) is    *)
(* the set of paths it matches.                                            *)
(***************************************************************************)
EXTENDS PathMatcher

NewApiSpecParser == [path_matcher |-> NewBuilder, regex_list |-> <<>>]

\* One turn of the loop of BuildPathMatcher.  A template that cannot be
\* registered is logged and skipped.  The trie holds a pointer to the
\* pattern's attributes: its position i in the specification.
AddPattern(parser, pattern, i) ==
  IF pattern.kind = "uri_template"
  THEN [parser EXCEPT !.path_matcher =
          Register(@, pattern.http_method, pattern.uri_template, <<>>, i).builder]
  ELSE [parser EXCEPT !.regex_list = Append(@, i)]

BuildPathMatcher(patterns) ==
  FoldLeft(LAMBDA parser, i : AddPattern(parser, patterns[i], i),
           NewApiSpecParser, [i \in DOMAIN patterns |-> i])

\* The positions of the patterns that match, in the order in which their
\* attributes are merged: the template that matches best, then every regex.
Matched(patterns, http_method, path) ==
  LET parser == BuildPathMatcher(patterns)
      matches(i) == patterns[i].http_method = http_method /\ path \in patterns[i].regex
  IN SetToSeq(Lookup(parser.path_matcher, http_method, path))
       \o SelectSeq(parser.regex_list, matches)
=============================================================================
