----------------------------- MODULE QuotaConfig -----------------------------
(***************************************************************************)
(* src/quota/src/config_parser_impl.cc: the quotas a request has to pay,   *)
(* from the rules of a QuotaSpec.  A regex (std::regex, external) is the   *)
(* set of strings it matches.                                              *)
(***************************************************************************)
EXTENDS Attributes

\* A specification is a sequence of rules; a rule has its quotas in a row.
AreQuotaSpecs(specs) ==
  /\ specs \in Seq(ToSet(specs))
  /\ \A spec \in ToSet(specs) :
       /\ spec \in Seq(ToSet(spec))
       /\ \A rule \in ToSet(spec) : rule.quotas \in Seq(ToSet(rule.quotas))

MatchString(match, value) ==
  CASE match.type = "exact"  -> value = match.exact
    [] match.type = "prefix" -> IsPrefix(match.prefix, value)
    [] match.type = "regex"  -> value \in match.regex
    [] OTHER                 -> TRUE   \* match_type not set

\* Every clause: the attribute is there, is a string and matches.
MatchAttributes(clause, attributes) ==
  \A name \in DOMAIN clause :
    /\ name \in DOMAIN attributes
    /\ attributes[name].type = "string"
    /\ MatchString(clause[name], attributes[name].value)

\* A rule without a match applies to all requests.
RuleApplies(rule, attributes) ==
  rule.match = {} \/ \E clause \in rule.match : MatchAttributes(clause, attributes)

\* Mutant: only the first rule that applies.
GetRequirementsFirst(spec, attributes, results) ==
  results \o FoldLeft(LAMBDA quotas, rule :
                        IF quotas = <<>> /\ RuleApplies(rule, attributes) THEN rule.quotas ELSE quotas,
                      <<>>, spec)

GetRequirements(spec, attributes, results) ==
  FoldLeft(LAMBDA quotas, rule : IF RuleApplies(rule, attributes) THEN quotas \o rule.quotas
                                 ELSE quotas,
           results, spec)

\* The requirements of one specification after the other.
AddQuotas(specs, attributes, results) ==
  FoldLeft(LAMBDA quotas, spec : GetRequirements(spec, attributes, quotas), results, specs)
=============================================================================
