---------------------------- MODULE HttpTemplate ----------------------------
(***************************************************************************)
(* src/api_spec/src/http_template.cc: the recursive descent parser of URI  *)
(* templates, and the grammar it is meant to accept.                       *)
(*                                                                         *)
(* A string is the sequence of its characters.  A parser is a record; a    *)
(* parsing function maps a parser to the parser it leaves, whose ok is     *)
(* FALSE when the function returns false.  Every function returns false on *)
(* a parser that has failed, as every caller in the code gives up at once. *)
(* tb_ and te_ are one position: te_ is tb_, or tb_ + 1 once the current   *)
(* character has been looked at.                                           *)
(***************************************************************************)
EXTENDS Integers, SequencesExt

kSingleParameterKey == <<"/", ".">>
kWildCardPathPartKey == <<"*">>
kWildCardPathKey == <<"*", "*">>
WildCardKeys == {kSingleParameterKey, kWildCardPathPartKey, kWildCardPathKey}

Parser(input) ==
  [input |-> input, tb |-> 0, ok |-> TRUE, in_variable |-> FALSE,
   segments |-> <<>>, verb |-> <<>>, variables |-> <<>>]

Failed(p) == [p EXCEPT !.ok = FALSE]

EnsureCurrent(p) == p.ok /\ p.tb < Len(p.input)

\* EnsureCurrent() && current_char() == c
At(p, c) == EnsureCurrent(p) /\ p.input[p.tb + 1] = c

Consume(p, c) == IF At(p, c) THEN [p EXCEPT !.tb = @ + 1] ELSE Failed(p)

ConsumedAllInput(p) == p.tb >= Len(p.input)

\* The characters from the current one up to the first of stops or the end.
Token(p, stops) ==
  LET ends == {i \in p.tb .. Len(p.input) :
                 i < Len(p.input) => p.input[i + 1] \in stops}
  IN SubSeq(p.input, p.tb + 1, Min(ends))

Push(p, segment) == [p EXCEPT !.segments = Append(@, segment)]

-----------------------------------------------------------------------------
(* Variables *)

StartVariable(p) ==
  IF p.in_variable
  THEN Failed(p)   \* nested variables are not allowed
  ELSE [p EXCEPT !.in_variable = TRUE,
                 !.variables = Append(@, [start_segment |-> Len(p.segments),
                                          end_segment |-> 0,
                                          field_path |-> <<>>,
                                          has_wildcard_path |-> FALSE])]

ValidateVariable(var, segments) ==
  /\ var.field_path # <<>>
  /\ var.start_segment < var.end_segment
  /\ var.end_segment <= Len(segments)

InVariable(p) == p.in_variable /\ p.variables # <<>>

EndVariable(p) ==
  LET q == [p EXCEPT !.variables[Len(p.variables)].end_segment = Len(p.segments),
                     !.in_variable = FALSE]
  IN IF InVariable(p) /\ ValidateVariable(Last(q.variables), q.segments)
     THEN q ELSE Failed(p)

AddFieldIdentifier(p, id) ==
  IF InVariable(p)
  THEN [p EXCEPT !.variables[Len(p.variables)].field_path = Append(@, id)]
  ELSE Failed(p)

MarkVariableHasWildCardPath(p) ==
  IF InVariable(p)
  THEN [p EXCEPT !.variables[Len(p.variables)].has_wildcard_path = TRUE]
  ELSE Failed(p)

\* Mutant: the custom verb is not counted.
PostProcessNoVerb(p) ==
  [p EXCEPT !.variables =
     [i \in DOMAIN @ |->
        IF @[i].has_wildcard_path
        THEN [@[i] EXCEPT !.end_segment = @ - Len(p.segments) - 1]
        ELSE @[i]]]

\* The end of a variable with "**" is counted from the end of the path, -1
\* being the end; a custom verb will be one more segment there.
PostProcessVariables(p) ==
  [p EXCEPT !.variables =
     [i \in DOMAIN @ |->
        IF @[i].has_wildcard_path
        THEN [@[i] EXCEPT !.end_segment =
                @ - Len(p.segments) - 1 - (IF p.verb = <<>> THEN 0 ELSE 1)]
        ELSE @[i]]]

-----------------------------------------------------------------------------
(* Recursive descent *)

LiteralStops == {"/", ":", "}"}
IdentifierStops == {".", "}", "="}

ParseLiteralSegment(p) ==
  LET ls == Token(p, LiteralStops)
  IN IF p.ok /\ ls # <<>> THEN Push([p EXCEPT !.tb = @ + Len(ls)], ls) ELSE Failed(p)

ParseVerb(p) ==
  LET q   == Consume(p, ":")
      lit == Token(q, LiteralStops)
  IN IF q.ok /\ lit # <<>> THEN [q EXCEPT !.tb = @ + Len(lit), !.verb = lit] ELSE Failed(q)

ParseIdentifier(p) ==
  LET idf == Token(p, IdentifierStops)
  IN IF p.ok /\ idf # <<>>
     THEN AddFieldIdentifier([p EXCEPT !.tb = @ + Len(idf)], idf)
     ELSE Failed(p)

RECURSIVE ParseFieldPath(_)
MoreFieldPath(p) == IF At(p, ".") THEN ParseFieldPath(Consume(p, ".")) ELSE p
ParseFieldPath(p) == MoreFieldPath(ParseIdentifier(p))

RECURSIVE ParseSegments(_)

\* The segments after "=", or a single wildcard.
VariableSegments(p) ==
  IF At(p, "=") THEN ParseSegments(Consume(p, "=")) ELSE Push(p, kWildCardPathPartKey)

VariableEnd(p) == IF p.ok THEN Consume(EndVariable(p), "}") ELSE p

ParseVariable(p) ==
  VariableEnd(VariableSegments(ParseFieldPath(StartVariable(Consume(p, "{")))))

\* After "*", or after "**".
WildCardPath(p) == IF p.in_variable THEN MarkVariableHasWildCardPath(p) ELSE p
ParseWildCard(p) ==
  IF At(p, "*") THEN WildCardPath(Push(Consume(p, "*"), kWildCardPathKey))
                ELSE Push(p, kWildCardPathPartKey)

ParseSegment(p) ==
  CASE At(p, "*") -> ParseWildCard(Consume(p, "*"))
    [] At(p, "{") -> ParseVariable(p)
    [] OTHER      -> ParseLiteralSegment(p)

MoreSegments(p) == IF At(p, "/") THEN ParseSegments(Consume(p, "/")) ELSE p
ParseSegments(p) == MoreSegments(ParseSegment(p))

OptionalVerb(p) == IF At(p, ":") THEN ParseVerb(p) ELSE p
ParseTemplate(p) == OptionalVerb(ParseSegments(Consume(p, "/")))

\* Mutant: found_wild_card is cleared by the next segment.
ValidatePartsAdjacent(segments) ==
  \A i, j \in DOMAIN segments :
    i + 1 = j /\ segments[i] = kWildCardPathKey => segments[j] \notin WildCardKeys

\* Only constant path segments are allowed after "**".
ValidateParts(segments) ==
  \A i, j \in DOMAIN segments :
    i < j /\ segments[i] = kWildCardPathKey => segments[j] \notin WildCardKeys

Parsed(p) ==
  IF p.ok /\ ConsumedAllInput(p) /\ ValidateParts(p.segments)
  THEN {[segments |-> p.segments, verb |-> p.verb, variables |-> p.variables]}
  ELSE {}

\* HttpTemplate::Parse: the template of ht, none for an invalid ht.
Parse(ht) == Parsed(PostProcessVariables(ParseTemplate(Parser(ht))))

-----------------------------------------------------------------------------
(* The grammar, read as the set of all derivations of a string.  A meaning *)
(* is the segments and, for each variable, the number of segments before   *)
(* it, the number it has and its field path.                               *)

Without(s, chars) == s # <<>> /\ ToSet(s) \cap chars = {}

\* Segment alternatives that begin with "*" or "{" are not literals.
IsLiteral(s) == Without(s, LiteralStops) /\ Head(s) \notin {"*", "{"}

RECURSIVE FieldPaths(_)
FieldPaths(s) ==
  (IF Without(s, IdentifierStops) THEN {<<s>>} ELSE {})
    \cup UNION {{<<SubSeq(s, 1, i - 1)>> \o rest : rest \in FieldPaths(SubSeq(s, i + 1, Len(s)))} :
                  i \in {k \in DOMAIN s : s[k] = "." /\ Without(SubSeq(s, 1, k - 1), IdentifierStops)}}

RECURSIVE SegmentsMeanings(_, _)

\* Variable = "{" FieldPath [ "=" Segments ] "}"
VariableMeanings(body) ==
  {[segs |-> <<kWildCardPathPartKey>>, vars |-> <<<<0, 1, path>>>>] : path \in FieldPaths(body)}
    \cup UNION {{[segs |-> m.segs, vars |-> <<<<0, Len(m.segs), path>>>>] :
                   m \in SegmentsMeanings(SubSeq(body, i + 1, Len(body)), TRUE),
                   path \in FieldPaths(SubSeq(body, 1, i - 1))} :
                  i \in {k \in DOMAIN body : body[k] = "="}}

\* Segment = "*" | "**" | LITERAL | Variable
SegmentMeanings(s, nested) ==
  IF s \in {kWildCardPathPartKey, kWildCardPathKey} \/ IsLiteral(s)
  THEN {[segs |-> <<s>>, vars |-> <<>>]}
  ELSE IF ~nested /\ Len(s) > 1 /\ Head(s) = "{" /\ Last(s) = "}"
       THEN VariableMeanings(SubSeq(s, 2, Len(s) - 1))
       ELSE {}

\* Segments = Segment { "/" Segment }
SegmentsMeanings(s, nested) ==
  SegmentMeanings(s, nested)
    \cup UNION {{[segs |-> m.segs \o n.segs,
                  vars |-> m.vars \o [v \in DOMAIN n.vars |->
                                        <<n.vars[v][1] + Len(m.segs), n.vars[v][2], n.vars[v][3]>>]] :
                   m \in SegmentMeanings(SubSeq(s, 1, i - 1), nested),
                   n \in SegmentsMeanings(SubSeq(s, i + 1, Len(s)), nested)} :
                  i \in {k \in DOMAIN s : s[k] = "/"}}

\* Template = "/" Segments [ ":" LITERAL ]
Derivations(s) ==
  LET verbs == {<<Len(s) + 1, <<>>>>}
                 \cup {<<i, SubSeq(s, i + 1, Len(s))>> : i \in {k \in DOMAIN s : s[k] = ":"}}
  IN IF s = <<>> \/ Head(s) # "/" THEN {}
     ELSE UNION {{[segs |-> m.segs, vars |-> m.vars, verb |-> v[2]] :
                    m \in SegmentsMeanings(SubSeq(s, 2, v[1] - 1), FALSE)} :
                   v \in {w \in verbs : w[1] > Len(s) \/ Without(w[2], LiteralStops)}}

\* The derivations in which the first "**" is the last wildcard.
Meanings(s) ==
  {d \in Derivations(s) :
     LET wilds == {k \in DOMAIN d.segs : d.segs[k] \in WildCardKeys}
     IN \A k \in wilds : d.segs[k] = kWildCardPathKey => k = Max(wilds)}

HasWildCardPath(d, v) == \E k \in v[1] + 1 .. v[1] + v[2] : d.segs[k] = kWildCardPathKey

\* What the parser has to answer for a derivation.  The segments after a
\* variable that holds "**" have a fixed number, which locates its end.
Described(d) ==
  LET after(v) == Len(d.segs) - v[1] - v[2] + (IF d.verb = <<>> THEN 0 ELSE 1)
  IN [segments |-> d.segs, verb |-> d.verb,
      variables |-> [i \in DOMAIN d.vars |->
        LET v == d.vars[i]
            wild == HasWildCardPath(d, v)
        IN [start_segment |-> v[1],
            end_segment |-> IF wild THEN -1 - after(v) ELSE v[1] + v[2],
            field_path |-> v[3], has_wildcard_path |-> wild]]]
=============================================================================
