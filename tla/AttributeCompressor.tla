------------------------ MODULE AttributeCompressor ------------------------
(***************************************************************************)
(* src/attribute_compressor.cc and src/delta_update.cc: attributes are     *)
(* sent with words replaced by dictionary indexes, and a report batch only *)
(* sends what changed since its previous entry.                            *)
(*                                                                         *)
(* An Attributes message is a function from names (words) to values.  A    *)
(* value is what the compressor tells apart: the words it looks up, in     *)
(* order (one for a string, keys and values for a string map, none for the *)
(* other kinds), and the rest of it, raw, which is copied as it is.        *)
(***************************************************************************)
EXTENDS Integers, SequencesExt

CONSTANTS
  Dict,      \* GetGlobalWords(), a sequence of distinct words
  BaseSize   \* kGlobalDictionaryBaseSize

ASSUME CompressorAssumption ==
  /\ Dict \in Seq(STRING)
  /\ \A i, j \in 1..Len(Dict) : Dict[i] = Dict[j] => i = j
  /\ BaseSize \in Nat

NoWord == "<no such word>"

-----------------------------------------------------------------------------
(* The global dictionary; top is GlobalDictionary::top_index_ *)

\* Mutant: "it->second <= top_index_".
InGlobalOffByOne(w, top) == \E i \in 1..Len(Dict) : Dict[i] = w /\ i <= top + 1

InGlobal(w, top) == \E i \in 1..Len(Dict) : Dict[i] = w /\ i <= top

GlobalIndex(w) == (CHOOSE i \in 1..Len(Dict) : Dict[i] = w) - 1

ShrinkToBase(top) == IF top > BaseSize THEN BaseSize ELSE top

-----------------------------------------------------------------------------
(* One message: the words it adds and the indexes it uses *)

MessageDictIndex(idx) == -(idx + 1)

\* MessageDictionary::GetIndex once the word has its place in words.
GetIndex(w, top, words) ==
  IF InGlobal(w, top) THEN GlobalIndex(w)
  ELSE MessageDictIndex((CHOOSE i \in 1..Len(words) : words[i] = w) - 1)

\* Dictionary lookups made for attributes a: <<n, 0>> for the name n, <<n, i>>
\* for the i-th word of its value.  A view gives the top_index_ each one reads;
\* they differ only when another thread runs ShrinkToBase meanwhile.
Lookups(a) == UNION {{n} \X (0..Len(a[n].words)) : n \in DOMAIN a}
SameView(a, top) == [l \in Lookups(a) |-> top]
RacingViews(a, top) == [Lookups(a) -> {top, ShrinkToBase(top)}]

WordOf(a, l) == IF l[2] = 0 THEN l[1] ELSE a[l[1]].words[l[2]]

\* Mutant: set_global_word_count(GetGlobalWords().size()).
CreateWithFullCount(top) ==
  [gwc |-> Len(Dict), words |-> <<>>, prev |-> <<>>, entries |-> <<>>]

\* The compressor of one batch: global_word_count, MessageDictionary's words,
\* DeltaUpdate's prev_map_ and the entries of the report under construction.
CreateBatchCompressor(top) ==
  [gwc |-> top, words |-> <<>>, prev |-> <<>>, entries |-> <<>>]

\* Mutant: DeltaUpdate::Check compares with nothing but the presence of a value.
SameAsPrevByName(b, i, v) == i \in DOMAIN b.prev

\* DeltaUpdate::Check: index i carries value v since an earlier entry.
SameAsPrev(b, i, v) == i \in DOMAIN b.prev /\ b.prev[i] = v

\* Message words as b has them once the names of a are in.
NameIndex(b, a, view, n) ==
  IF InGlobal(n, view[<<n, 0>>]) \/ Contains(b.words, n)
  THEN {GetIndex(n, view[<<n, 0>>], b.words)} ELSE {}

\* Names whose value CompressByDict encodes.
Changed(b, a, view) ==
  {n \in DOMAIN a : ~\E i \in NameIndex(b, a, view, n) : SameAsPrev(b, i, a[n])}

\* Words that GetIndex appends to the message's dictionary, in the order in
\* which the (unordered) attribute map is walked: any order.
NewWords(b, a, view) ==
  LET used == {l \in Lookups(a) : l[2] = 0 \/ l[1] \in Changed(b, a, view)}
  IN {WordOf(a, l) : l \in {k \in used : ~InGlobal(WordOf(a, k), view[k])}}
       \ ToSet(b.words)

\* Mutant: DeltaUpdate::Finish always allows the delta.
DeltaAlwaysOk(b, indexes) == TRUE

\* DeltaUpdate::Finish: no name of the previous entry is missing.
DeltaOk(b, indexes) == DOMAIN b.prev \subseteq indexes

\* CompressByDict with the message words new appended: the entry, and whether
\* the delta is possible.
CompressByDict(b, a, view, new) ==
  LET words == b.words \o new
      idx == [n \in DOMAIN a |-> GetIndex(n, view[<<n, 0>>], words)]
      name(i) == CHOOSE n \in DOMAIN a : idx[n] = i
      changed == Changed(b, a, view)
      value(n) == [raw |-> a[n].raw,
                   idx |-> [p \in 1..Len(a[n].words) |->
                              GetIndex(a[n].words[p], view[<<n, p>>], words)]]
      ok == DeltaOk(b, {idx[n] : n \in DOMAIN a})
  IN [ok |-> ok,
      batch |->
        [gwc |-> b.gwc, words |-> words,
         prev |-> [i \in {idx[n] : n \in DOMAIN a} |-> a[name(i)]],
         entries |-> IF ok THEN Append(b.entries,
                                       [i \in {idx[n] : n \in changed} |-> value(name(i))])
                     ELSE b.entries]]

\* BatchCompressorImpl::Add: the results it can have.
Add(b, a, view) ==
  {CompressByDict(b, a, view, new) : new \in SetToSeqs(NewWords(b, a, view))}

-----------------------------------------------------------------------------
(* The receiver (external): what a finished batch says.  Index i is a global *)
(* word below global_word_count, or a word of the message.                   *)

WordAt(b, i) ==
  IF i \in 0..b.gwc-1 /\ i < Len(Dict) THEN Dict[i + 1]
  ELSE IF -i \in 1..Len(b.words) THEN b.words[-i] ELSE NoWord

DecodeValue(b, e) ==
  [raw |-> e.raw, words |-> [p \in DOMAIN e.idx |-> WordAt(b, e.idx[p])]]

\* The k-th entry: what the entries up to it have set, the latest value of each.
DecodeEntry(b, k) ==
  LET idx == UNION {DOMAIN b.entries[j] : j \in 1..k}
      last(i) == CHOOSE j \in 1..k : /\ i \in DOMAIN b.entries[j]
                                     /\ \A m \in j+1..k : i \notin DOMAIN b.entries[m]
  IN [w \in {WordAt(b, i) : i \in idx} |->
        LET i == CHOOSE i \in idx : WordAt(b, i) = w
        IN DecodeValue(b, b.entries[last(i)][i])]

DecodeBatch(b) == [k \in 1..Len(b.entries) |-> DecodeEntry(b, k)]
=============================================================================
