----------------------------- MODULE Attributes -----------------------------
(***************************************************************************)
(* include/attributes_builder.h: the attributes of a request, a function   *)
(* from names to values that carry their type.  A string value is the      *)
(* sequence of its characters, as in HttpTemplate.                         *)
(***************************************************************************)
EXTENDS Integers, SequencesExt, Pointers

SetValue(attributes, key, type, value) ==
  [name \in DOMAIN attributes \cup {key} |->
     IF name = key THEN [type |-> type, value |-> value] ELSE attributes[name]]

AddString(attributes, key, str) == SetValue(attributes, key, "string", str)
AddInt64(attributes, key, value) == SetValue(attributes, key, "int64", value)
AddBool(attributes, key, value) == SetValue(attributes, key, "bool", value)
AddDuration(attributes, key, value) == SetValue(attributes, key, "duration", value)

\* The clock is not told apart.
AddTimestamp(attributes, key) == SetValue(attributes, key, "timestamp", "now")

\* A map that is not empty replaces the one there was; an empty one does not.
AddStringMap(attributes, key, map) ==
  IF DOMAIN map = {} THEN attributes ELSE SetValue(attributes, key, "string_map", map)

\* What a getter that may fail has found.
AddFound(attributes, key, type, found) ==
  IF found = {} THEN attributes ELSE SetValue(attributes, key, type, The(found))

IPSuffixed == {"source.ip", "destination.ip"}

\* inet_pton, for the addresses that occur here.
InetPton(value) == IF value = <<"10.0.0.1">> THEN {<<10, 0, 0, 1>>} ELSE {}

IpOrString(name, value) ==
  LET bytes == IF value = <<>> THEN {value} ELSE InetPton(value)
  IN IF name \in IPSuffixed /\ bytes # {}
     THEN [type |-> "bytes", value |-> The(bytes)]
     ELSE [type |-> "string", value |-> value]

\* Attributes::MergeFrom
MergeFrom(attributes, more) ==
  [name \in DOMAIN attributes \cup DOMAIN more |->
     IF name \in DOMAIN more THEN more[name] ELSE attributes[name]]

\* The merge of a field that may not be there.
MergeFound(attributes, found) ==
  IF found = {} THEN attributes ELSE MergeFrom(attributes, The(found))

\* The merge of one map after the other: the last one that has a name says
\* its value.
MergeEach(attributes, maps) ==
  LET with(name) == {k \in DOMAIN maps : name \in DOMAIN maps[k]}
  IN MergeFrom(attributes,
       [name \in UNION {DOMAIN maps[k] : k \in DOMAIN maps} |-> maps[Max(with(name))][name]])
=============================================================================
