---------------------------- MODULE ApiSpecMatch ----------------------------
(***************************************************************************)
(* What the matcher of src/api_spec has to answer, said without its trie   *)
(* and without its parser.  The patterns of a specification are added one  *)
(* by one, as BuildPathMatcher does; looking up changes nothing, so the    *)
(* properties compare every lookup in every state.  Before any pattern is  *)
(* added, uri_template is written character by character: each text that   *)
(* can be written is an input of the parser.                               *)
(***************************************************************************)
EXTENDS ApiPatterns

CONSTANTS
  Patterns,        \* the patterns a specification may have
  MaxPatterns,     \* bound: patterns in one specification
  Chunks,          \* the pieces uri_template is written from
  MaxTemplate,     \* bound: length of uri_template
  Methods, Paths,  \* the requests that are looked up
  Query, System    \* their query string and the system parameters in it

ASSUME ApiSpecAssumption == MaxPatterns \in Nat /\ MaxTemplate \in Nat

VARIABLES
  parser,         \* path_matcher_ and regex_list_
  patterns,       \* api_spec_.patterns
  uri_template    \* a text given to HttpTemplate::Parse

vars == <<parser, patterns, uri_template>>

Init == parser = NewApiSpecParser /\ patterns = <<>> /\ uri_template = <<>>

Write(chunk) ==
  /\ patterns = <<>> /\ Len(uri_template) < MaxTemplate
  /\ uri_template = <<>> => Head(chunk) = "/"   \* any other text is refused at once
  /\ uri_template' = uri_template \o chunk
  /\ UNCHANGED <<parser, patterns>>

Add(pattern) ==
  /\ uri_template = <<>> /\ Len(patterns) < MaxPatterns
  /\ patterns' = Append(patterns, pattern)
  /\ parser' = AddPattern(parser, pattern, Len(patterns'))
  /\ UNCHANGED uri_template

Next == (\E chunk \in Chunks : Write(chunk)) \/ (\E pattern \in Patterns : Add(pattern))

Spec == Init /\ [][Next]_vars

-----------------------------------------------------------------------------
(* The reference *)

\* The derivation of a pattern's template, none for an invalid one.
Meaning(i) == IF patterns[i].kind = "uri_template" THEN Meanings(patterns[i].uri_template) ELSE {}

Whole(d) == d.segs \o (IF d.verb = <<>> THEN <<>> ELSE <<d.verb>>)

\* Two templates that differ only in their variables are one, and so are a
\* custom verb and a last segment of that name: the first registered stays.
Valid ==
  {i \in DOMAIN patterns :
     /\ Meaning(i) # {}
     /\ \A j \in 1 .. i - 1 : ~ /\ Meaning(j) # {}
                                /\ patterns[j].http_method = patterns[i].http_method
                                /\ Whole(The(Meaning(j))) = Whole(The(Meaning(i)))}

Parts(path) == ExtractRequestParts(path, {The(Meaning(i)).verb : i \in Valid} \ {<<>>})

\* Which segment each part of a path falls on: "**" takes what the others
\* leave, at least one part unless it is the last segment.
Alignments(segs, parts) ==
  LET w == SelectInSeq(segs, LAMBDA s : s = kWildCardPathKey)
      extra == Len(parts) - Len(segs) + 1
      a == [i \in DOMAIN parts |->
              IF w = 0 \/ i < w THEN i ELSE IF i < w + extra THEN w ELSE i - extra + 1]
  IN IF /\ IF w = 0 THEN extra = 1 ELSE extra >= (IF w = Len(segs) THEN 0 ELSE 1)
        /\ \A i \in DOMAIN parts : segs[a[i]] \in WildCardKeys \cup {parts[i]}
     THEN {a} ELSE {}

\* How specific a match is, part by part, and whether it ends in an empty
\* "**"; what is smaller in the first difference wins.
Rank(segs, parts, a) ==
  [i \in 1 .. Len(parts) + 1 |->
     IF i > Len(parts) THEN (IF Len(segs) = Len(parts) + 1 THEN 1 ELSE 0)
     ELSE IF segs[a[i]] = parts[i] /\ (i = 1 \/ a[i - 1] # a[i]) THEN 0
     ELSE IF segs[a[i]] = kWildCardPathPartKey THEN 1 ELSE 2]

Precedes(r, s) == \E i \in DOMAIN r : r[i] < s[i] /\ \A j \in 1 .. i - 1 : r[j] = s[j]

\* The patterns that match: a more specific template first, then one for
\* this method before one for all methods.
Best(http_method, path) ==
  LET parts == Parts(path)
      segs(i) == Whole(The(Meaning(i)))
      matching == {i \in Valid : /\ patterns[i].http_method \in {http_method, HttpMethod_WILD_CARD}
                                 /\ Alignments(segs(i), parts) # {}}
      rank(i) == Rank(segs(i), parts, The(Alignments(segs(i), parts)))
                   \o <<IF patterns[i].http_method = http_method THEN 0 ELSE 1>>
  IN {i \in matching : \A j \in matching : ~Precedes(rank(j), rank(i))}

-----------------------------------------------------------------------------
(* Properties *)

\* For every text the recursive descent parser of http_template.cc answers
\* what the grammar in its comment derives: it fails on the texts without a
\* derivation, and otherwise there is one derivation, whose segments, verb and
\* variable ranges it returns.
ParserImplementsGrammar ==
  /\ Parse(uri_template) = {Described(d) : d \in Meanings(uri_template)}
  /\ \A d, e \in Meanings(uri_template) : d = e

\* PathMatcher::Lookup finds a pattern exactly if one matches, and the one it
\* finds is the only best one, whatever else was registered before or after it:
\* the search backtracks from branches that fit the first parts only.
LookupIsBestMatch ==
  \A m \in Methods, p \in Paths :
    /\ Lookup(parser.path_matcher, m, p) = Best(m, p)
    /\ \A i, j \in Best(m, p) : i = j

\* The value PathMatcher::Lookup binds to a variable is made of exactly the
\* parts of the path that fall on the segments of that variable, "**" and
\* custom verbs included; a value of several parts splits into as many again,
\* since an escaped "/" stays escaped in it.  The bindings of the query string
\* follow, without those of system parameters.
VariablesBindTheirSegments ==
  \A m \in Methods, p \in Paths :
    LET parts == Parts(p)
    IN \A found \in LookupBindings(parser.path_matcher, m, p, Query, System) :
         LET d == The(Meaning(found.method))
             a == The(Alignments(Whole(d), parts))
             Of(v) == {i \in DOMAIN parts : a[i] \in v[1] + 1 .. v[1] + v[2]}
             several(v) == v[2] > 1 \/ HasWildCardPath(d, v)
             bound(v) == SetToSortSeq(Of(v), <)
             value(v) == [k \in DOMAIN bound(v) |->
                            UrlUnescapeString(parts[bound(v)[k]], ~several(v))]
             bindings == found.variable_bindings
             slashes(s) == {i \in DOMAIN s : s[i] = "/"}
         IN /\ \A k \in DOMAIN d.vars :
                 LET v == d.vars[k]
                 IN /\ bindings[k] = [field_path |-> v[3], value |-> Join(value(v))]
                    /\ several(v) => Cardinality(slashes(bindings[k].value))
                                       = Max({Cardinality(Of(v)), 1}) - 1
            /\ \A k \in Len(d.vars) + 1 .. Len(bindings) :
                 Len(bindings[k].field_path) = 1 => bindings[k].field_path[1] \notin System
=============================================================================
