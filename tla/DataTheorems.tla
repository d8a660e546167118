---------------------------- MODULE DataTheorems ----------------------------
(***************************************************************************)
(* Induction, sums and sequences: the lemmas the other proofs rest on.     *)
(*                                                                         *)
(* Induction is by well-foundedness (the library's WFMin takes sets and    *)
(* no operators): of the counterexamples, a smallest one.  A fold of the   *)
(* community modules is a CHOOSE of a recursive function; that function is *)
(* shown to exist and to be unique, and the laws of SumFunctionOnSet       *)
(* follow.                                                                 *)
(***************************************************************************)
EXTENDS Integers, SequencesExt, FiniteSetTheorems, SequenceTheorems, TLAPS

\* A non-empty set of natural numbers has a least element.
LEMMA LeastNat ==
  ASSUME NEW T, T \subseteq Nat, T # {}
  PROVE  \E m \in T : \A k \in T : m <= k
<1> DEFINE R == OpToRel(<, Nat)
<1>1. IsWellFoundedOn(R, Nat)
  BY NatLessThanWellFounded
<1>2. \A x, y \in Nat : <<x, y>> \in R <=> x < y
  BY DEF OpToRel
<1> HIDE DEF R
<1>3. PICK m \in T : \A y \in T : <<y, m>> \notin R
  BY <1>1, WFMin
<1>4. ASSUME NEW k \in T PROVE m <= k
  <2>1. m \in Nat /\ k \in Nat
    OBVIOUS
  <2>2. ~(k < m)
    BY <1>2, <1>3, <2>1, Zenon
  <2> QED BY <2>1, <2>2
<1> QED BY <1>4

\* Among subsets of a finite set there is one that contains no other of them:
\* the smallest counterexample, from which the inductions below argue.
LEMMA SmallestSet ==
  ASSUME NEW S, IsFiniteSet(S), NEW Bad, Bad \subseteq SUBSET S, Bad # {}
  PROVE  \E B \in Bad : \A C \in Bad : C \subseteq B => C = B
<1>1. IsWellFoundedOn(StrictSubsetOrdering(S), SUBSET S)
  BY FS_StrictSubsetOrderingWellFounded, FS_FiniteSubsetsOfFinite
<1>2. PICK B \in Bad : \A y \in Bad : <<y, B>> \notin StrictSubsetOrdering(S)
  BY <1>1, WFMin
<1> QED BY <1>2 DEF StrictSubsetOrdering

\* Induction over the natural numbers, the induction hypothesis being a set.
LEMMA NatInductionSet ==
  ASSUME NEW G, 0 \in G, \A n \in Nat : n \in G => n + 1 \in G
  PROVE  Nat \subseteq G
<1> SUFFICES ASSUME Nat \ G # {} PROVE FALSE
  OBVIOUS
<1>1. PICK m \in Nat \ G : \A k \in Nat \ G : m <= k
  BY LeastNat
<1>2. m - 1 \in Nat /\ m = (m - 1) + 1
  BY <1>1
<1>3. m - 1 \in G
  BY <1>1, <1>2
<1> QED BY <1>2, <1>3

\* Induction over the subsets of a finite set, one element added at a time.
LEMMA SetInduction ==
  ASSUME NEW S, IsFiniteSet(S), NEW G, {} \in G,
         \A t \in SUBSET S, x \in S : t \in G /\ x \notin t => t \cup {x} \in G
  PROVE  SUBSET S \subseteq G
<1> SUFFICES ASSUME (SUBSET S) \ G # {} PROVE FALSE
  OBVIOUS
<1>1. PICK B \in (SUBSET S) \ G : \A C \in (SUBSET S) \ G : C \subseteq B => C = B
  <2> DEFINE Bad == (SUBSET S) \ G
  <2>1. Bad \subseteq SUBSET S /\ Bad # {}
    OBVIOUS
  <2> HIDE DEF Bad
  <2>2. \E B \in Bad : \A C \in Bad : C \subseteq B => C = B
    BY <2>1, SmallestSet
  <2> QED BY <2>2 DEF Bad
<1>2. PICK x \in B : TRUE
  OBVIOUS
<1>3. B \ {x} \in SUBSET S /\ B \ {x} \in G /\ x \in S
  BY <1>1, <1>2
<1>4. (B \ {x}) \cup {x} = B
  BY <1>2
<1> QED BY <1>3, <1>4

\* g folds every subset of S: F[x] is the step for x, c says which element comes first.
Folds(g, S, base, F, c) ==
  g = [t \in SUBSET S |-> IF t = {} THEN base ELSE F[c[t]][g[t \ {c[t]}]]]

Chooses(c, S) == \A t \in SUBSET S : t # {} => c[t] \in t

\* There is at most one function that folds every subset.
LEMMA FoldUnique ==
  ASSUME NEW S, IsFiniteSet(S), NEW base, NEW F, NEW c, Chooses(c, S),
         NEW g, Folds(g, S, base, F, c), NEW h, Folds(h, S, base, F, c)
  PROVE  g = h
<1> DEFINE Bad == {t \in SUBSET S : g[t] # h[t]}
<1>1. CASE Bad = {}
  <2>1. \A t \in SUBSET S : g[t] = h[t]
    BY <1>1
  <2>2. g = [t \in SUBSET S |-> g[t]] /\ h = [t \in SUBSET S |-> h[t]]
    BY DEF Folds
  <2> HIDE DEF Bad
  <2> QED BY <2>1, <2>2, Zenon
<1>2. CASE Bad # {}
  <2>1. PICK B \in Bad : \A C \in Bad : C \subseteq B => C = B
    <3>1. Bad \subseteq SUBSET S
      OBVIOUS
    <3> HIDE DEF Bad
    <3> QED BY <1>2, <3>1, SmallestSet
  <2>2. B # {} /\ c[B] \in B /\ g[B] = F[c[B]][g[B \ {c[B]}]] /\ h[B] = F[c[B]][h[B \ {c[B]}]]
    BY DEF Folds, Chooses
  <2>3. g[B \ {c[B]}] = h[B \ {c[B]}]
    BY <2>1, <2>2
  <2> QED BY <2>2, <2>3
<1> QED BY <1>1, <1>2

\* Folding the subsets of a subset gives the same values.
LEMMA FoldRestricted ==
  ASSUME NEW S, NEW base, NEW F, NEW c, Chooses(c, S),
         NEW g, Folds(g, S, base, F, c), NEW T \in SUBSET S,
         NEW h, h = [t \in SUBSET T |-> g[t]]
  PROVE  Folds(h, T, base, F, c)
<1> DEFINE k == [t \in SUBSET T |-> IF t = {} THEN base ELSE F[c[t]][h[t \ {c[t]}]]]
<1>1. ASSUME NEW t \in SUBSET T PROVE h[t] = k[t]
  <2>1. t \in SUBSET S /\ t \ {c[t]} \in SUBSET T
    OBVIOUS
  <2>2. g[t] = IF t = {} THEN base ELSE F[c[t]][g[t \ {c[t]}]]
    BY <2>1 DEF Folds
  <2> QED BY <2>1, <2>2
<1>2. h = k
  BY <1>1
<1> QED BY <1>2 DEF Folds

\* There is a function that folds every subset of a finite set.
LEMMA FoldExists ==
  ASSUME NEW S, IsFiniteSet(S), NEW base, NEW F, NEW c, Chooses(c, S)
  PROVE  \E g : Folds(g, S, base, F, c)
<1> DEFINE Bad == {t \in SUBSET S : ~\E g : Folds(g, t, base, F, c)}
<1>1. CASE S \notin Bad
  BY <1>1
<1>2. CASE S \in Bad
  <2>1. PICK B \in Bad : \A C \in Bad : C \subseteq B => C = B
    <3>1. Bad \subseteq SUBSET S /\ Bad # {}
      BY <1>2
    <3> HIDE DEF Bad
    <3> QED BY <3>1, SmallestSet
  <2> DEFINE fold(t) == CHOOSE g : Folds(g, t, base, F, c)
             value(t) == fold(t)[t]
             h == [t \in SUBSET B |-> IF t = {} THEN base ELSE F[c[t]][value(t \ {c[t]})]]
  <2>2. ASSUME NEW t \in SUBSET B, t # B PROVE Folds(fold(t), t, base, F, c)
    <3>1. t \in SUBSET S /\ t \notin Bad
      BY <2>1, <2>2
    <3>2. \E g : Folds(g, t, base, F, c)
      BY <3>1
    <3> QED BY <3>2, Zenon
  <2>3. ASSUME NEW t \in SUBSET B, t # B PROVE h[t] = value(t)
    <3>1. Folds(fold(t), t, base, F, c)
      BY <2>2, <2>3
    <3>2. CASE t = {}
      BY <3>1, <3>2 DEF Folds
    <3>3. CASE t # {}
      <4> DEFINE u == t \ {c[t]}
      <4>1. c[t] \in t /\ u \in SUBSET B /\ u # B /\ u \in SUBSET t /\ u \in SUBSET S
        BY <3>3 DEF Chooses
      <4>2. Folds(fold(u), u, base, F, c)
        BY <2>2, <4>1
      <4>3. Chooses(c, t) /\ Chooses(c, u) /\ IsFiniteSet(u)
        <5>1. Chooses(c, t) /\ Chooses(c, u)
          BY DEF Chooses
        <5>2. IsFiniteSet(u)
          BY <4>1, FS_Subset
        <5> QED BY <5>1, <5>2
      <4> HIDE DEF fold, u, Bad
      <4>4. Folds([x \in SUBSET u |-> fold(t)[x]], u, base, F, c)
        BY <3>1, <4>1, <4>3, FoldRestricted
      <4>5. fold(u) = [x \in SUBSET u |-> fold(t)[x]]
        BY <4>2, <4>3, <4>4, FoldUnique
      <4>6. fold(u)[u] = fold(t)[u]
        BY <4>5
      <4>7. fold(t)[t] = F[c[t]][fold(t)[u]]
        BY <3>1, <3>3 DEF Folds, u
      <4>8. h[t] = F[c[t]][fold(u)[u]]
        BY <3>3 DEF u
      <4> QED BY <4>6, <4>7, <4>8
    <3> QED BY <3>2, <3>3
  <2>4. Folds(h, B, base, F, c)
    <3> DEFINE k == [t \in SUBSET B |-> IF t = {} THEN base ELSE F[c[t]][h[t \ {c[t]}]]]
    <3>1. ASSUME NEW t \in SUBSET B PROVE h[t] = k[t]
      <4>1. CASE t = {}
        BY <4>1
      <4>2. CASE t # {}
        <5>1. t \ {c[t]} \in SUBSET B /\ t \ {c[t]} # B
          BY <4>2 DEF Chooses
        <5> HIDE DEF value
        <5>2. h[t \ {c[t]}] = value(t \ {c[t]})
          BY <2>3, <5>1
        <5>3. h[t] = F[c[t]][value(t \ {c[t]})]
          BY <4>2
        <5>4. k[t] = F[c[t]][h[t \ {c[t]}]]
          BY <4>2
        <5> QED BY <5>2, <5>3, <5>4
      <4> QED BY <4>1, <4>2
    <3>2. h = k
      <4> HIDE DEF value
      <4> QED BY <3>1
    <3> QED BY <3>2 DEF Folds
  <2> QED BY <2>1, <2>4
<1> QED BY <1>1, <1>2

\* What holds of the empty set, and of a set when it holds of it without the
\* element that is chosen, holds of every subset.
LEMMA ChosenInduction ==
  ASSUME NEW S, IsFiniteSet(S), NEW c, Chooses(c, S), NEW G, {} \in G,
         \A t \in SUBSET S : t # {} /\ t \ {c[t]} \in G => t \in G
  PROVE  SUBSET S \subseteq G
<1> SUFFICES ASSUME (SUBSET S) \ G # {} PROVE FALSE
  OBVIOUS
<1>1. PICK B \in (SUBSET S) \ G : \A C \in (SUBSET S) \ G : C \subseteq B => C = B
  <2> DEFINE Bad == (SUBSET S) \ G
  <2>1. Bad \subseteq SUBSET S /\ Bad # {}
    OBVIOUS
  <2> HIDE DEF Bad
  <2>2. \E B \in Bad : \A C \in Bad : C \subseteq B => C = B
    BY <2>1, SmallestSet
  <2> QED BY <2>2 DEF Bad
<1>2. B # {} /\ c[B] \in B
  BY DEF Chooses
<1>3. B \ {c[B]} \in SUBSET S /\ B \ {c[B]} # B /\ B \ {c[B]} \subseteq B
  BY <1>2
<1>4. B \ {c[B]} \in G
  BY <1>1, <1>3
<1> QED BY <1>2, <1>4

\* A fold whose steps stay in a set stays in it.
LEMMA FoldTyped ==
  ASSUME NEW S, IsFiniteSet(S), NEW c, Chooses(c, S), NEW D, NEW base \in D, NEW F,
         \A x \in S, d \in D : F[x][d] \in D
  PROVE  \E g : Folds(g, S, base, F, c) /\ \A t \in SUBSET S : g[t] \in D
<1>1. PICK g : Folds(g, S, base, F, c)
  BY FoldExists
<1> DEFINE G == {t \in SUBSET S : g[t] \in D}
<1>2. {} \in G
  BY <1>1 DEF Folds
<1>3. ASSUME NEW t \in SUBSET S, t # {}, t \ {c[t]} \in G PROVE t \in G
  <2>1. c[t] \in S /\ g[t] = F[c[t]][g[t \ {c[t]}]]
    BY <1>1, <1>3 DEF Folds, Chooses
  <2> QED BY <1>3, <2>1
<1> HIDE DEF G
<1>4. SUBSET S \subseteq G
  BY <1>2, <1>3, ChosenInduction
<1> QED BY <1>1, <1>4 DEF G

\* A fold over a sequence takes the last position first.
LEMMA MaxOf ==
  ASSUME NEW n \in Nat
  PROVE  IsFiniteSet(1..n) /\ \A t \in SUBSET (1..n) : t # {} => Max(t) \in t /\ \A x \in t : x <= Max(t)
<1>1. ASSUME NEW t \in SUBSET (1..n), t # {} PROVE \E m \in t : \A x \in t : x <= m
  <2> DEFINE T == {k \in 0..n : n - k \in t}
  <2>1. T \subseteq Nat
    OBVIOUS
  <2>2. T # {}
    <3>1. PICK x \in t : TRUE
      BY <1>1
    <3>2. n - x \in 0..n /\ n - (n - x) = x
      BY <3>1
    <3>3. n - x \in T
      BY <3>2
    <3> QED BY <3>3
  <2>3. PICK k \in T : \A j \in T : k <= j
    <3> HIDE DEF T
    <3> QED BY <2>1, <2>2, LeastNat
  <2>4. n - k \in t /\ k \in 0..n
    OBVIOUS
  <2>5. ASSUME NEW x \in t PROVE x <= n - k
    <3>1. x \in 1..n /\ n - x \in 0..n /\ n - (n - x) = x
      OBVIOUS
    <3>2. n - x \in T
      BY <3>1
    <3>3. k <= n - x
      BY <2>3, <3>2
    <3> QED BY <2>4, <3>1, <3>3
  <2> QED BY <2>4, <2>5
<1>2. ASSUME NEW t \in SUBSET (1..n), t # {} PROVE Max(t) \in t /\ \A x \in t : x <= Max(t)
  <2>1. PICK m \in t : \A x \in t : m >= x
    BY <1>1, <1>2
  <2>2. Max(t) \in t /\ \A x \in t : Max(t) >= x
    BY <2>1 DEF Max
  <2>3. \A x \in t : x \in Int
    OBVIOUS
  <2> QED BY <2>2, <2>3
<1> QED BY <1>2, FS_Interval

\* What a walk over the positions 1..n from base comes to, the last one's step last.
WalksOver(g, n, base, F) ==
  g = [t \in SUBSET (1..n) |-> IF t = {} THEN base ELSE F[Max(t)][g[t \ {Max(t)}]]]

\* A walk whose steps stay in a set stays in it.
LEMMA WalkTyped ==
  ASSUME NEW n \in Nat, NEW D, NEW base \in D, NEW F, \A i \in 1..n, d \in D : F[i][d] \in D
  PROVE  \E g : WalksOver(g, n, base, F) /\ \A t \in SUBSET (1..n) : g[t] \in D
<1> DEFINE c == [t \in SUBSET (1..n) |-> Max(t)]
<1>1. IsFiniteSet(1..n) /\ Chooses(c, 1..n)
  BY MaxOf DEF Chooses
<1>2. \A t \in SUBSET (1..n) : c[t] = Max(t)
  OBVIOUS
<1> HIDE DEF c
<1>3. PICK g : Folds(g, 1..n, base, F, c) /\ \A t \in SUBSET (1..n) : g[t] \in D
  BY <1>1, FoldTyped
<1> DEFINE h == [t \in SUBSET (1..n) |-> IF t = {} THEN base ELSE F[Max(t)][g[t \ {Max(t)}]]]
<1>4. \A t \in SUBSET (1..n) : g[t] = h[t]
  BY <1>2, <1>3 DEF Folds
<1>5. g = [t \in SUBSET (1..n) |-> g[t]] /\ h = [t \in SUBSET (1..n) |-> h[t]]
  BY <1>3 DEF Folds
<1>6. g = h
  <2> HIDE DEF h
  <2> QED BY <1>4, <1>5
<1> QED BY <1>3, <1>6 DEF WalksOver

\* Induction along a walk.
LEMMA WalkInduction ==
  ASSUME NEW n \in Nat, NEW G, {} \in G,
         \A t \in SUBSET (1..n) : t # {} /\ t \ {Max(t)} \in G => t \in G
  PROVE  SUBSET (1..n) \subseteq G
<1> DEFINE S == 1..n
           c == [t \in SUBSET S |-> Max(t)]
<1>1. IsFiniteSet(S) /\ Chooses(c, S)
  BY MaxOf DEF Chooses
<1>2. \A t \in SUBSET S : c[t] = Max(t)
  OBVIOUS
<1>3. \A t \in SUBSET S : t # {} /\ t \ {Max(t)} \in G => t \in G
  OBVIOUS
<1> HIDE DEF c, S
<1>4. \A t \in SUBSET S : t # {} /\ t \ {c[t]} \in G => t \in G
  BY <1>2, <1>3
<1>5. SUBSET S \subseteq G
  BY <1>1, <1>4, ChosenInduction
<1> QED BY <1>5 DEF S

-----------------------------------------------------------------------------
(* Sums *)

\* The element a fold takes first.
AnyOf(S) == CHOOSE x \in S : TRUE

\* What is chosen from a set is in it.
LEMMA AnyOfIn == \A t : t # {} => AnyOf(t) \in t
BY DEF AnyOf

\* A function of sets that adds an integer for one element after the other has
\* integer values.
LEMMA IterInt ==
  ASSUME NEW S, IsFiniteSet(S), NEW g, g[{}] = 0,
         \A t \in SUBSET S : t # {} /\ g[t \ {AnyOf(t)}] \in Int => g[t] \in Int
  PROVE  \A t \in SUBSET S : g[t] \in Int
<1> DEFINE Bad == {t \in SUBSET S : g[t] \notin Int}
<1>1. CASE Bad = {}
  BY <1>1
<1>2. CASE Bad # {}
  <2>1. PICK B \in Bad : \A C \in Bad : C \subseteq B => C = B
    <3>1. Bad \subseteq SUBSET S
      OBVIOUS
    <3> HIDE DEF Bad
    <3> QED BY <1>2, <3>1, SmallestSet
  <2>2. B # {}
    <3>1. g[B] \notin Int
      OBVIOUS
    <3> QED BY <3>1
  <2>3. AnyOf(B) \in B
    BY <2>2, AnyOfIn
  <2>4. g[B \ {AnyOf(B)}] \in Int
    BY <2>1, <2>3
  <2> QED BY <2>2, <2>4
<1> QED BY <1>1, <1>2

\* g sums f over every subset of S.
IsSum(g, f, S) ==
  g = [t \in SUBSET S |-> IF t = {} THEN 0 ELSE f[AnyOf(t)] + g[t \ {AnyOf(t)}]]

\* The values of a sum, and how each is made from that of a smaller set.
LEMMA IsSumFacts ==
  ASSUME NEW f, NEW S, IsFiniteSet(S), \A x \in S : f[x] \in Int, NEW g, IsSum(g, f, S)
  PROVE  /\ g \in [SUBSET S -> Int] /\ g[{}] = 0
         /\ \A t \in SUBSET S : t # {} => g[t] = f[AnyOf(t)] + g[t \ {AnyOf(t)}]
<1>1. g[{}] = 0 /\ \A t \in SUBSET S : t # {} => g[t] = f[AnyOf(t)] + g[t \ {AnyOf(t)}]
  BY DEF IsSum
<1>2. ASSUME NEW t \in SUBSET S, t # {}, g[t \ {AnyOf(t)}] \in Int PROVE g[t] \in Int
  <2>1. AnyOf(t) \in S
    BY <1>2, AnyOfIn
  <2>2. f[AnyOf(t)] \in Int
    BY <2>1
  <2>3. g[t] = f[AnyOf(t)] + g[t \ {AnyOf(t)}]
    BY <1>1, <1>2
  <2> QED BY <1>2, <2>2, <2>3
<1>3. \A t \in SUBSET S : g[t] \in Int
  BY <1>1, <1>2, IterInt
<1>4. g = [t \in SUBSET S |-> g[t]]
  BY DEF IsSum
<1>5. g \in [SUBSET S -> Int]
  BY <1>3, <1>4
<1> QED BY <1>1, <1>5

\* There is at most one function that sums f over every subset.
LEMMA IsSumUnique ==
  ASSUME NEW f, NEW S, IsFiniteSet(S), NEW g, IsSum(g, f, S), NEW h, IsSum(h, f, S)
  PROVE  g = h
<1> DEFINE Bad == {t \in SUBSET S : g[t] # h[t]}
<1>1. CASE Bad = {}
  <2>1. \A t \in SUBSET S : g[t] = h[t]
    BY <1>1
  <2>2. g = [t \in SUBSET S |-> g[t]] /\ h = [t \in SUBSET S |-> h[t]]
    BY DEF IsSum
  <2> HIDE DEF Bad
  <2> QED BY <2>1, <2>2, Zenon
<1>2. CASE Bad # {}
  <2>1. PICK B \in Bad : \A C \in Bad : C \subseteq B => C = B
    <3>1. Bad \subseteq SUBSET S
      OBVIOUS
    <3> HIDE DEF Bad
    <3> QED BY <1>2, <3>1, SmallestSet
  <2>2. B # {}
    <3>1. g[B] # h[B] /\ g[{}] = 0 /\ h[{}] = 0
      BY DEF IsSum
    <3> QED BY <3>1
  <2>3. AnyOf(B) \in B
    BY <2>2, AnyOfIn
  <2>4. g[B \ {AnyOf(B)}] = h[B \ {AnyOf(B)}]
    BY <2>1, <2>3
  <2>5. g[B] = f[AnyOf(B)] + g[B \ {AnyOf(B)}] /\ h[B] = f[AnyOf(B)] + h[B \ {AnyOf(B)}]
    BY <2>2 DEF IsSum
  <2> QED BY <2>4, <2>5
<1> QED BY <1>1, <1>2

\* SumFunctionOnSet is the value of that function.
LEMMA SumIsFold ==
  ASSUME NEW f, NEW S, IsFiniteSet(S), \A x \in S : f[x] \in Int
  PROVE  \E g : IsSum(g, f, S) /\ SumFunctionOnSet(f, S) = g[S]
<1> DEFINE F == [x \in S |-> [y \in Int |-> f[x] + y]]
           c == [t \in SUBSET S |-> AnyOf(t)]
<1>1. Chooses(c, S)
  BY AnyOfIn DEF Chooses
<1>2. PICK g : Folds(g, S, 0, F, c)
  <2> HIDE DEF F, c
  <2> QED BY <1>1, FoldExists
<1>3. IsSum(g, f, S)
  <2>1. g = [t \in SUBSET S |-> g[t]] /\ g[{}] = 0
    BY <1>2 DEF Folds
  <2>2. ASSUME NEW t \in SUBSET S, t # {} PROVE g[t] = F[AnyOf(t)][g[t \ {AnyOf(t)}]]
    <3> HIDE DEF F
    <3> QED BY <1>2, <2>2 DEF Folds
  <2>3. ASSUME NEW t \in SUBSET S, t # {}, g[t \ {AnyOf(t)}] \in Int
        PROVE  g[t] = f[AnyOf(t)] + g[t \ {AnyOf(t)}] /\ g[t] \in Int
    <3>1. AnyOf(t) \in S
      BY <2>3, AnyOfIn
    <3>2. f[AnyOf(t)] \in Int
      BY <3>1
    <3>3. g[t] = F[AnyOf(t)][g[t \ {AnyOf(t)}]]
      <4> HIDE DEF F
      <4> QED BY <2>2, <2>3
    <3>4. g[t] = f[AnyOf(t)] + g[t \ {AnyOf(t)}]
      <4>1. \A y \in Int : F[AnyOf(t)][y] = f[AnyOf(t)] + y
        BY <3>1
      <4> HIDE DEF F
      <4> QED BY <2>3, <3>3, <4>1
    <3> QED BY <2>3, <3>2, <3>4
  <2>4. \A t \in SUBSET S : g[t] \in Int
    <3> HIDE DEF F, c
    <3> QED BY <2>1, <2>3, IterInt
  <2>5. ASSUME NEW t \in SUBSET S
        PROVE  g[t] = IF t = {} THEN 0 ELSE f[AnyOf(t)] + g[t \ {AnyOf(t)}]
    <3>1. t \ {AnyOf(t)} \in SUBSET S
      OBVIOUS
    <3> HIDE DEF F, c
    <3> QED BY <2>1, <2>3, <2>4, <3>1
  <2> HIDE DEF F, c
  <2> QED BY <2>1, <2>5 DEF IsSum
<1>4. IsSum(CHOOSE h : IsSum(h, f, S), f, S)
  BY <1>3, Zenon
<1>5. SumFunctionOnSet(f, S) = (CHOOSE h : IsSum(h, f, S))[S]
  BY DEF SumFunctionOnSet, FoldFunctionOnSet, MapThenFoldSet, IsSum, AnyOf
<1> QED BY <1>4, <1>5

\* A sum of integers is an integer.
LEMMA SumInt ==
  ASSUME NEW f, NEW S, IsFiniteSet(S), \A x \in S : f[x] \in Int
  PROVE  SumFunctionOnSet(f, S) \in Int
<1>1. PICK g : IsSum(g, f, S) /\ SumFunctionOnSet(f, S) = g[S]
  BY SumIsFold
<1>2. g \in [SUBSET S -> Int]
  BY <1>1, IsSumFacts
<1> QED BY <1>1, <1>2

\* The sum over the empty set.
LEMMA SumEmpty ==
  ASSUME NEW f
  PROVE  SumFunctionOnSet(f, {}) = 0
<1>1. IsFiniteSet({}) /\ \A x \in {} : f[x] \in Int
  BY FS_EmptySet
<1>2. PICK g : IsSum(g, f, {}) /\ SumFunctionOnSet(f, {}) = g[{}]
  BY <1>1, SumIsFold
<1>3. g[{}] = 0
  BY <1>1, <1>2, IsSumFacts
<1> QED BY <1>2, <1>3

\* The sum is the chosen element's value and the sum over the others.
LEMMA SumAny ==
  ASSUME NEW f, NEW S, IsFiniteSet(S), \A x \in S : f[x] \in Int, S # {}
  PROVE  SumFunctionOnSet(f, S) = f[AnyOf(S)] + SumFunctionOnSet(f, S \ {AnyOf(S)})
<1> DEFINE T == S \ {AnyOf(S)}
<1>1. IsFiniteSet(T) /\ T \in SUBSET S /\ \A x \in T : f[x] \in Int
  BY FS_RemoveElement
<1>2. PICK g : IsSum(g, f, S) /\ SumFunctionOnSet(f, S) = g[S]
  BY SumIsFold
<1>3. PICK h : IsSum(h, f, T) /\ SumFunctionOnSet(f, T) = h[T]
  <2> HIDE DEF T
  <2> QED BY <1>1, SumIsFold
<1>4. g[S] = f[AnyOf(S)] + g[T]
  BY <1>2 DEF IsSum
<1> HIDE DEF T
<1> DEFINE r == [t \in SUBSET T |-> g[t]]
<1>5. IsSum(r, f, T)
  <2>1. ASSUME NEW t \in SUBSET T
        PROVE  r[t] = IF t = {} THEN 0 ELSE f[AnyOf(t)] + r[t \ {AnyOf(t)}]
    <3>1. t \in SUBSET S /\ t \ {AnyOf(t)} \in SUBSET T
      BY <1>1
    <3>2. g[t] = IF t = {} THEN 0 ELSE f[AnyOf(t)] + g[t \ {AnyOf(t)}]
      BY <1>2, <3>1 DEF IsSum
    <3> QED BY <3>1, <3>2
  <2>2. r = [t \in SUBSET T |-> r[t]]
    OBVIOUS
  <2> HIDE DEF r
  <2> QED BY <2>1, <2>2 DEF IsSum
<1>6. r = h
  <2> HIDE DEF r
  <2> QED BY <1>1, <1>3, <1>5, IsSumUnique
<1>7. r[T] = g[T]
  OBVIOUS
<1> QED BY <1>2, <1>3, <1>4, <1>6, <1>7 DEF T

\* The sum is any element's value and the sum over the others: the order in which
\* the fold chooses does not matter.
LEMMA SumElem ==
  ASSUME NEW f, NEW S, IsFiniteSet(S), \A x \in S : f[x] \in Int, NEW e \in S
  PROVE  SumFunctionOnSet(f, S) = f[e] + SumFunctionOnSet(f, S \ {e})
<1> DEFINE sum(t) == SumFunctionOnSet(f, t)
           Bad == {t \in SUBSET S : \E x \in t : sum(t) # f[x] + sum(t \ {x})}
<1>0. \A t \in SUBSET S : IsFiniteSet(t) /\ sum(t) \in Int
  BY FS_Subset, SumInt
<1>1. ASSUME NEW t \in SUBSET S, t # {} PROVE sum(t) = f[AnyOf(t)] + sum(t \ {AnyOf(t)})
  BY <1>0, <1>1, SumAny
<1> HIDE DEF sum
<1>2. CASE Bad = {}
  BY <1>2 DEF sum
<1>3. CASE Bad # {}
  <2>1. PICK B \in Bad : \A C \in Bad : C \subseteq B => C = B
    <3>1. Bad \subseteq SUBSET S
      OBVIOUS
    <3> HIDE DEF Bad
    <3> QED BY <1>3, <3>1, SmallestSet
  <2>2. PICK x \in B : sum(B) # f[x] + sum(B \ {x})
    OBVIOUS
  <2> DEFINE y == AnyOf(B)
  <2>3. y \in B
    BY <2>2, AnyOfIn
  <2>4. sum(B) = f[y] + sum(B \ {y})
    BY <1>1, <2>2
  <2> HIDE DEF y
  <2>5. x # y
    BY <2>2, <2>4
  <2>a. \A t \in SUBSET S : t \notin Bad => \A z \in t : sum(t) = f[z] + sum(t \ {z})
    OBVIOUS
  <2>b. \A z \in B : B \ {z} \in SUBSET S /\ B \ {z} \notin Bad
    <3>1. B \in SUBSET S
      OBVIOUS
    <3> HIDE DEF Bad
    <3> QED BY <2>1, <3>1
  <2>6. sum(B \ {y}) = f[x] + sum((B \ {y}) \ {x})
    <3>1. x \in B \ {y}
      BY <2>5
    <3> HIDE DEF Bad
    <3> QED BY <2>3, <2>a, <2>b, <3>1
  <2>7. sum(B \ {x}) = f[y] + sum((B \ {x}) \ {y})
    <3>1. y \in B \ {x}
      BY <2>3, <2>5
    <3> HIDE DEF Bad
    <3> QED BY <2>a, <2>b, <3>1
  <2>8. (B \ {x}) \ {y} = (B \ {y}) \ {x}
    OBVIOUS
  <2>9. f[x] \in Int /\ f[y] \in Int /\ sum((B \ {y}) \ {x}) \in Int
    BY <1>0, <2>2, <2>3
  <2> QED BY <2>2, <2>4, <2>6, <2>7, <2>8, <2>9
<1> QED BY <1>2, <1>3

\* One more element adds its value.
LEMMA SumAdd ==
  ASSUME NEW f, NEW S, IsFiniteSet(S), \A x \in S : f[x] \in Int, NEW e, e \notin S, f[e] \in Int
  PROVE  SumFunctionOnSet(f, S \cup {e}) = f[e] + SumFunctionOnSet(f, S)
<1> DEFINE T == S \cup {e}
<1>1. IsFiniteSet(T) /\ (\A x \in T : f[x] \in Int) /\ e \in T /\ T \ {e} = S
  BY FS_AddElement
<1> HIDE DEF T
<1>2. SumFunctionOnSet(f, T) = f[e] + SumFunctionOnSet(f, T \ {e})
  BY <1>1, SumElem
<1> QED BY <1>1, <1>2 DEF T

\* A sum of natural numbers is a natural number.
LEMMA SumNat ==
  ASSUME NEW f, NEW S, IsFiniteSet(S), \A x \in S : f[x] \in Nat
  PROVE  SumFunctionOnSet(f, S) \in Nat
<1> DEFINE G == {t \in SUBSET S : SumFunctionOnSet(f, t) \in Nat}
<1>1. {} \in G
  BY SumEmpty
<1>2. ASSUME NEW t \in SUBSET S, NEW x \in S, t \in G, x \notin t PROVE t \cup {x} \in G
  <2>1. IsFiniteSet(t) /\ \A y \in t : f[y] \in Int
    BY FS_Subset
  <2>2. SumFunctionOnSet(f, t \cup {x}) = f[x] + SumFunctionOnSet(f, t)
    BY <1>2, <2>1, SumAdd
  <2>3. SumFunctionOnSet(f, t) \in Nat /\ f[x] \in Nat
    BY <1>2
  <2> QED BY <2>2, <2>3
<1>3. SUBSET S \subseteq G
  <2> HIDE DEF G
  <2> QED BY <1>1, <1>2, SetInduction
<1> QED BY <1>3

\* The sum over two disjoint sets.
LEMMA SumUnion ==
  ASSUME NEW f, NEW S, IsFiniteSet(S), NEW T, IsFiniteSet(T), S \cap T = {},
         \A x \in S \cup T : f[x] \in Int
  PROVE  SumFunctionOnSet(f, S \cup T) = SumFunctionOnSet(f, S) + SumFunctionOnSet(f, T)
<1> DEFINE sum(t) == SumFunctionOnSet(f, t)
           G == {t \in SUBSET T : sum(S \cup t) = sum(S) + sum(t)}
<1>0. sum(S) \in Int /\ \A t \in SUBSET T : IsFiniteSet(t) /\ IsFiniteSet(S \cup t) /\ sum(t) \in Int
  BY FS_Subset, FS_Union, SumInt
<1>1. {} \in G
  <2>1. sum({}) = 0 /\ S \cup {} = S
    BY SumEmpty
  <2> HIDE DEF sum
  <2> QED BY <1>0, <2>1
<1>2. ASSUME NEW t \in SUBSET T, NEW x \in T, t \in G, x \notin t PROVE t \cup {x} \in G
  <2>1. /\ x \notin S \cup t /\ f[x] \in Int
        /\ (\A y \in S \cup t : f[y] \in Int) /\ \A y \in t : f[y] \in Int
    BY <1>2
  <2>2. sum((S \cup t) \cup {x}) = f[x] + sum(S \cup t)
    BY <1>0, <2>1, SumAdd
  <2>3. sum(t \cup {x}) = f[x] + sum(t)
    BY <1>0, <1>2, <2>1, SumAdd
  <2>4. (S \cup t) \cup {x} = S \cup (t \cup {x})
    OBVIOUS
  <2>5. sum(S \cup t) = sum(S) + sum(t)
    BY <1>2
  <2> HIDE DEF sum
  <2>6. sum(S) \in Int /\ sum(t) \in Int
    BY <1>0
  <2>7. sum(S \cup (t \cup {x})) = sum(S) + sum(t \cup {x})
    <3>1. sum(S \cup (t \cup {x})) = f[x] + sum(S \cup t)
      BY <2>2, <2>4
    <3>2. f[x] \in Int
      BY <2>1
    <3> HIDE DEF G
    <3> QED BY <2>3, <2>5, <2>6, <3>1, <3>2
  <2> QED BY <2>7
<1>3. SUBSET T \subseteq G
  <2> HIDE DEF G
  <2> QED BY <1>1, <1>2, SetInduction
<1> QED BY <1>3

\* Renaming the indices does not change a sum.
LEMMA SumImage ==
  ASSUME NEW f, NEW g, NEW S, IsFiniteSet(S), NEW T, NEW b \in Bijection(S, T),
         \A x \in S : f[b[x]] \in Int /\ g[x] = f[b[x]]
  PROVE  SumFunctionOnSet(f, T) = SumFunctionOnSet(g, S)
<1> DEFINE img(t) == {b[x] : x \in t}
           G == {t \in SUBSET S : /\ IsFiniteSet(img(t))
                                 /\ SumFunctionOnSet(f, img(t)) = SumFunctionOnSet(g, t)}
<1>0. /\ b \in [S -> T] /\ \A x, y \in S : b[x] = b[y] => x = y
      /\ \A y \in T : \E x \in S : b[x] = y
  BY DEF Bijection, Injection, Surjection, IsInjective
<1>1. {} \in G
  <2>1. img({}) = {}
    OBVIOUS
  <2> HIDE DEF img
  <2> QED BY <2>1, SumEmpty, FS_EmptySet
<1>2. ASSUME NEW t \in SUBSET S, NEW x \in S, t \in G, x \notin t PROVE t \cup {x} \in G
  <2>1. img(t \cup {x}) = img(t) \cup {b[x]}
    BY <1>0
  <2>2. b[x] \notin img(t)
    BY <1>0, <1>2
  <2>3. \A y \in img(t) : f[y] \in Int
    OBVIOUS
  <2>4. IsFiniteSet(t) /\ \A y \in t : g[y] \in Int
    BY FS_Subset
  <2>5. IsFiniteSet(img(t)) /\ SumFunctionOnSet(f, img(t)) = SumFunctionOnSet(g, t)
    BY <1>2
  <2> HIDE DEF img
  <2>6. SumFunctionOnSet(f, img(t) \cup {b[x]}) = f[b[x]] + SumFunctionOnSet(f, img(t))
    BY <2>2, <2>3, <2>5, SumAdd
  <2>7. SumFunctionOnSet(g, t \cup {x}) = g[x] + SumFunctionOnSet(g, t)
    BY <1>2, <2>4, SumAdd
  <2>8. IsFiniteSet(img(t) \cup {b[x]})
    BY <2>5, FS_AddElement
  <2> QED BY <2>1, <2>5, <2>6, <2>7, <2>8
<1>3. SUBSET S \subseteq G
  <2> HIDE DEF G
  <2> QED BY <1>1, <1>2, SetInduction
<1>4. img(S) = T
  BY <1>0
<1> QED BY <1>3, <1>4

\* The sum depends on the values at the indices only.
LEMMA SumSame ==
  ASSUME NEW f, NEW g, NEW S, IsFiniteSet(S), \A x \in S : f[x] \in Int /\ g[x] = f[x]
  PROVE  SumFunctionOnSet(f, S) = SumFunctionOnSet(g, S)
<1> DEFINE G == {t \in SUBSET S : SumFunctionOnSet(f, t) = SumFunctionOnSet(g, t)}
<1>1. {} \in G
  BY SumEmpty
<1>2. ASSUME NEW t \in SUBSET S, NEW x \in S, t \in G, x \notin t PROVE t \cup {x} \in G
  <2>1. IsFiniteSet(t) /\ \A y \in t : f[y] \in Int /\ g[y] \in Int
    BY FS_Subset
  <2>2. /\ SumFunctionOnSet(f, t \cup {x}) = f[x] + SumFunctionOnSet(f, t)
        /\ SumFunctionOnSet(g, t \cup {x}) = g[x] + SumFunctionOnSet(g, t)
    BY <1>2, <2>1, SumAdd
  <2>3. SumFunctionOnSet(f, t) = SumFunctionOnSet(g, t) /\ f[x] = g[x]
    BY <1>2
  <2> QED BY <2>2, <2>3
<1>3. SUBSET S \subseteq G
  <2> HIDE DEF G
  <2> QED BY <1>1, <1>2, SetInduction
<1> QED BY <1>3

\* Changing one value changes the sum by the difference.
LEMMA SumUpdate ==
  ASSUME NEW f, NEW g, NEW S, IsFiniteSet(S), NEW e \in S, f[e] \in Int, g[e] \in Int,
         \A x \in S : x # e => f[x] \in Int /\ g[x] = f[x]
  PROVE  SumFunctionOnSet(g, S) = SumFunctionOnSet(f, S) + (g[e] - f[e])
<1> DEFINE T == S \ {e}
<1>1. IsFiniteSet(T) /\ \A x \in T : f[x] \in Int /\ g[x] = f[x]
  BY FS_RemoveElement
<1>2. \A x \in S : f[x] \in Int /\ g[x] \in Int
  OBVIOUS
<1>3. /\ SumFunctionOnSet(f, S) = f[e] + SumFunctionOnSet(f, T)
      /\ SumFunctionOnSet(g, S) = g[e] + SumFunctionOnSet(g, T)
  BY <1>2, SumElem
<1> HIDE DEF T
<1>4. SumFunctionOnSet(f, T) = SumFunctionOnSet(g, T) /\ SumFunctionOnSet(f, T) \in Int
  BY <1>1, SumSame, SumInt
<1>5. \A a, b, c \in Int : a + c = (b + c) + (a - b)
  OBVIOUS
<1> QED BY <1>3, <1>4, <1>5

\* More indices do not make a sum of natural numbers smaller.
LEMMA SumMonotone ==
  ASSUME NEW f, NEW T, IsFiniteSet(T), NEW S \in SUBSET T, \A x \in T : f[x] \in Nat
  PROVE  SumFunctionOnSet(f, S) <= SumFunctionOnSet(f, T)
<1> DEFINE R == T \ S
<1>1. IsFiniteSet(S) /\ IsFiniteSet(R) /\ S \cap R = {} /\ S \cup R = T
  BY FS_Subset
<1>2. \A x \in S \cup R : f[x] \in Int /\ f[x] \in Nat
  OBVIOUS
<1> HIDE DEF R
<1>3. SumFunctionOnSet(f, S \cup R) = SumFunctionOnSet(f, S) + SumFunctionOnSet(f, R)
  BY <1>1, <1>2, SumUnion
<1>4. SumFunctionOnSet(f, S) \in Nat /\ SumFunctionOnSet(f, R) \in Nat
  BY <1>1, <1>2, SumNat
<1>5. \A a, b \in Nat : a <= a + b
  OBVIOUS
<1> QED BY <1>1, <1>3, <1>4, <1>5

\* Zeros add nothing: the sum over the rest is the whole sum.
LEMMA SumZero ==
  ASSUME NEW f, NEW S, IsFiniteSet(S), \A x \in S : f[x] = 0
  PROVE  SumFunctionOnSet(f, S) = 0
<1> DEFINE G == {t \in SUBSET S : SumFunctionOnSet(f, t) = 0}
<1>1. {} \in G
  BY SumEmpty
<1>2. ASSUME NEW t \in SUBSET S, NEW x \in S, t \in G, x \notin t PROVE t \cup {x} \in G
  <2>1. IsFiniteSet(t) /\ \A y \in t : f[y] \in Int
    BY FS_Subset
  <2>2. SumFunctionOnSet(f, t \cup {x}) = f[x] + SumFunctionOnSet(f, t)
    BY <1>2, <2>1, SumAdd
  <2> QED BY <1>2, <2>2
<1> HIDE DEF G
<1>3. S \in G
  BY <1>1, <1>2, SetInduction
<1> QED BY <1>3 DEF G

LEMMA SumRest ==
  ASSUME NEW f, NEW S, IsFiniteSet(S), \A x \in S : f[x] \in Int,
         NEW T \in SUBSET S, \A x \in S \ T : f[x] = 0, NEW g, g = [x \in T |-> f[x]]
  PROVE  SumFunction(g) = SumFunctionOnSet(f, S)
<1> DEFINE R == S \ T
<1>1. IsFiniteSet(T) /\ IsFiniteSet(R) /\ T \cap R = {} /\ T \cup R = S
  BY FS_Subset
<1>2. SumFunctionOnSet(f, R) = 0
  BY <1>1, SumZero
<1> HIDE DEF R
<1>3. SumFunctionOnSet(f, T \cup R) = SumFunctionOnSet(f, T) + SumFunctionOnSet(f, R)
  BY <1>1, SumUnion
<1>4. SumFunctionOnSet(f, T) \in Int /\ SumFunctionOnSet(f, T) = SumFunctionOnSet(g, T)
  BY <1>1, SumInt, SumSame
<1>5. SumFunction(g) = SumFunctionOnSet(g, T)
  BY DEF SumFunction
<1>6. SumFunctionOnSet(f, S) = SumFunctionOnSet(f, T) + SumFunctionOnSet(f, R)
  BY ONLY <1>1, <1>3, Zenon
<1> QED BY ONLY <1>2, <1>4, <1>5, <1>6

\* One more index at the end of an interval.
LEMMA SumNext ==
  ASSUME NEW f, NEW k \in Nat, \A i \in 1..k + 1 : f[i] \in Int
  PROVE  SumFunctionOnSet(f, 1..k + 1) = SumFunctionOnSet(f, 1..k) + f[k + 1]
<1>1. IsFiniteSet(1..k) /\ k + 1 \notin 1..k /\ (1..k) \cup {k + 1} = 1..k + 1
  BY FS_Interval
<1>2. f[k + 1] \in Int /\ \A i \in 1..k : f[i] \in Int
  OBVIOUS
<1>3. SumFunctionOnSet(f, (1..k) \cup {k + 1}) = f[k + 1] + SumFunctionOnSet(f, 1..k)
  BY <1>1, <1>2, SumAdd
<1>4. SumFunctionOnSet(f, 1..k) \in Int
  BY <1>1, <1>2, SumInt
<1>5. \A a, b \in Int : a + b = b + a
  OBVIOUS
<1> QED BY <1>1, <1>2, <1>3, <1>4, <1>5

\* The sum over an interval is that of its first n values and that of the others.
LEMMA SumSplit ==
  ASSUME NEW n \in Nat, NEW m \in Nat, NEW f, NEW g,
         \A i \in 1..n + m : f[i] \in Int, \A i \in 1..m : g[i] = f[n + i]
  PROVE  SumFunctionOnSet(f, 1..n + m)
           = SumFunctionOnSet(f, 1..n) + SumFunctionOnSet(g, 1..m)
<1> DEFINE A == 1..n
           B == n + 1..n + m
           M == 1..m
           b == [i \in M |-> n + i]
<1>1. IsFiniteSet(A) /\ IsFiniteSet(B) /\ IsFiniteSet(M) /\ A \cap B = {} /\ A \cup B = 1..n + m
  <2>1. IsFiniteSet(A) /\ IsFiniteSet(B) /\ IsFiniteSet(M)
    BY FS_Interval
  <2> QED BY <2>1
<1>2. b \in Bijection(M, B)
  <2>1. b \in [M -> B] /\ \A i, j \in M : b[i] = b[j] => i = j
    OBVIOUS
  <2>2. ASSUME NEW y \in B PROVE \E i \in M : b[i] = y
    <3>1. y - n \in M /\ n + (y - n) = y
      OBVIOUS
    <3> QED BY <3>1
  <2> HIDE DEF b, M, B
  <2> QED BY <2>1, <2>2 DEF Bijection, Injection, Surjection, IsInjective
<1>3. \A i \in M : f[b[i]] \in Int /\ g[i] = f[b[i]]
  OBVIOUS
<1>4. \A i \in A \cup B : f[i] \in Int
  OBVIOUS
<1> HIDE DEF A, B, M, b
<1>5. SumFunctionOnSet(f, A \cup B) = SumFunctionOnSet(f, A) + SumFunctionOnSet(f, B)
  BY <1>1, <1>4, SumUnion
<1>6. SumFunctionOnSet(f, B) = SumFunctionOnSet(g, M)
  BY <1>1, <1>2, <1>3, SumImage
<1> QED BY <1>1, <1>5, <1>6 DEF A, M

\* A set of positions that has, with a position, all the earlier ones, is an
\* interval.
LEMMA InitialSegment ==
  ASSUME NEW m \in Nat, NEW P \in SUBSET (1..m),
         \A k \in P, j \in 1..m : j < k => j \in P
  PROVE  /\ Cardinality(P) \in 0..m
         /\ P = 1..Cardinality(P)
<1>1. CASE P = {}
  <2>1. Cardinality(P) = 0
    BY <1>1, FS_EmptySet
  <2> QED BY <1>1, <2>1
<1>2. CASE P # {}
  <2> DEFINE T == {m - k : k \in P}
  <2>1. T \subseteq Nat /\ T # {}
    BY <1>2
  <2>2. PICK a \in T : \A b \in T : a <= b
    <3> HIDE DEF T
    <3> QED BY <2>1, LeastNat
  <2>3. PICK p \in P : a = m - p
    OBVIOUS
  <2>4. \A k \in P : k <= p
    <3> SUFFICES ASSUME NEW k \in P PROVE k <= p
      OBVIOUS
    <3>1. m - p <= m - k
      BY <2>2, <2>3
    <3> QED BY <3>1
  <2>5. P = 1..p
    <3> HIDE DEF T
    <3>1. p \in 1..m
      OBVIOUS
    <3>2. ASSUME NEW k \in P PROVE k \in 1..p
      BY <2>4, <3>1
    <3>3. ASSUME NEW k \in 1..p PROVE k \in P
      <4>1. k \in 1..m /\ (k = p \/ k < p)
        BY <3>1
      <4> QED BY <4>1
    <3> QED BY <3>2, <3>3
  <2>6. Cardinality(1..p) = p
    BY FS_Interval
  <2> QED BY <2>5, <2>6
<1> QED BY <1>1, <1>2

\* The sum of a sequence of values with one more at its end.
LEMMA SumAppend ==
  ASSUME NEW k \in Nat, NEW f, NEW h, \A i \in 1..k + 1 : h[i] \in Int, \A i \in 1..k : h[i] = f[i]
  PROVE  SumFunctionOnSet(h, 1..k + 1) = SumFunctionOnSet(f, 1..k) + h[k + 1]
<1>1. SumFunctionOnSet(h, 1..k + 1) = SumFunctionOnSet(h, 1..k) + h[k + 1]
  BY SumNext
<1>2. IsFiniteSet(1..k) /\ \A i \in 1..k : h[i] \in Int /\ f[i] = h[i]
  BY FS_Interval
<1>3. SumFunctionOnSet(h, 1..k) = SumFunctionOnSet(f, 1..k)
  BY <1>2, SumSame
<1> QED BY <1>1, <1>3

\* The sum of a sequence of values with the e-th taken out.
LEMMA SumRemove ==
  ASSUME NEW k \in Nat, NEW e \in 1..k, NEW f, NEW h, \A i \in 1..k : f[i] \in Int,
         \A i \in 1..k - 1 : h[i] = IF i < e THEN f[i] ELSE f[i + 1]
  PROVE  SumFunctionOnSet(h, 1..k - 1) = SumFunctionOnSet(f, 1..k) - f[e]
<1> DEFINE S == 1..k - 1
           T == (1..k) \ {e}
           b == [i \in S |-> IF i < e THEN i ELSE i + 1]
<1>1. b \in Bijection(S, T)
  <2>1. b \in [S -> T] /\ \A i, j \in S : b[i] = b[j] => i = j
    OBVIOUS
  <2>2. ASSUME NEW y \in T PROVE \E i \in S : b[i] = y
    <3>1. CASE y < e
      BY <3>1
    <3>2. CASE e < y
      <4>1. y - 1 \in S /\ b[y - 1] = y
        BY <3>2
      <4> QED BY <4>1
    <3> QED BY <3>1, <3>2
  <2> HIDE DEF b, S, T
  <2> QED BY <2>1, <2>2 DEF Bijection, Injection, Surjection, IsInjective
<1>2. \A i \in S : f[b[i]] \in Int /\ h[i] = f[b[i]]
  OBVIOUS
<1>3. IsFiniteSet(S) /\ IsFiniteSet(1..k)
  BY FS_Interval
<1> HIDE DEF b, S
<1>4. SumFunctionOnSet(f, T) = SumFunctionOnSet(h, S)
  <2> HIDE DEF T
  <2> QED BY <1>1, <1>2, <1>3, SumImage
<1>5. SumFunctionOnSet(f, 1..k) = f[e] + SumFunctionOnSet(f, T)
  <2> DEFINE K == 1..k
  <2>1. IsFiniteSet(K) /\ e \in K /\ (\A x \in K : f[x] \in Int) /\ T = K \ {e}
    BY <1>3
  <2> HIDE DEF K, T
  <2>2. SumFunctionOnSet(f, K) = f[e] + SumFunctionOnSet(f, K \ {e})
    BY <2>1, SumElem
  <2> QED BY <2>1, <2>2 DEF K
<1>6. SumFunctionOnSet(f, T) \in Int /\ f[e] \in Int
  <2>1. IsFiniteSet(T) /\ \A x \in T : f[x] \in Int
    BY <1>3, FS_RemoveElement
  <2> HIDE DEF T
  <2> QED BY <2>1, SumInt
<1>7. \A x, y \in Int : y = (x + y) - x
  OBVIOUS
<1>8. SumFunctionOnSet(f, T) = SumFunctionOnSet(f, 1..k) - f[e]
  BY <1>5, <1>6, <1>7
<1> QED BY <1>4, <1>8 DEF S

-----------------------------------------------------------------------------
(* Sequences *)

\* What is at the positions of a sequence.
LEMMA SetOfSeq ==
  ASSUME NEW S, NEW s \in Seq(S)
  PROVE  /\ ToSet(s) \subseteq S /\ s \in Seq(ToSet(s))
         /\ \A i \in 1..Len(s) : s[i] \in ToSet(s)
         /\ \A x \in ToSet(s) : \E i \in 1..Len(s) : s[i] = x
<1>1. Len(s) \in Nat /\ s \in [1..Len(s) -> S] /\ DOMAIN s = 1..Len(s)
  BY LenProperties
<1>2. ToSet(s) = {s[i] : i \in 1..Len(s)}
  BY <1>1 DEF ToSet
<1>3. s \in [1..Len(s) -> ToSet(s)]
  BY <1>1, <1>2
<1>4. s \in Seq(ToSet(s))
  BY <1>1, <1>3, SeqDef
<1> QED BY <1>1, <1>2, <1>4

\* A sequence with one more at its end.
LEMMA Appended ==
  ASSUME NEW S, NEW s \in Seq(S), NEW e \in S
  PROVE  /\ Append(s, e) \in Seq(S) /\ Len(Append(s, e)) = Len(s) + 1
         /\ ToSet(Append(s, e)) = ToSet(s) \cup {e}
         /\ IsInjective(s) /\ e \notin ToSet(s) => IsInjective(Append(s, e))
<1> DEFINE r == Append(s, e)
<1>1. /\ r \in Seq(S) /\ Len(r) = Len(s) + 1 /\ Len(s) \in Nat
      /\ DOMAIN r = 1..Len(s) + 1 /\ DOMAIN s = 1..Len(s)
      /\ \A i \in 1..Len(s) : r[i] = s[i]
      /\ r[Len(s) + 1] = e
  BY AppendProperties, LenProperties
<1> HIDE DEF r
<1>2. ToSet(r) = ToSet(s) \cup {e}
  <2>1. \A i \in 1..Len(s) + 1 : i \in 1..Len(s) \/ i = Len(s) + 1
    BY <1>1
  <2>2. 1..Len(s) \subseteq 1..Len(s) + 1 /\ Len(s) + 1 \in 1..Len(s) + 1
    BY <1>1
  <2>3. ToSet(r) \subseteq ToSet(s) \cup {e}
    BY <1>1, <2>1 DEF ToSet
  <2>4. ToSet(s) \cup {e} \subseteq ToSet(r)
    BY <1>1, <2>2 DEF ToSet
  <2> QED BY <2>3, <2>4
<1>3. ASSUME IsInjective(s), e \notin ToSet(s) PROVE IsInjective(r)
  <2> SUFFICES ASSUME NEW i \in 1..Len(s) + 1, NEW j \in 1..Len(s) + 1, r[i] = r[j]
               PROVE  i = j
    BY <1>1 DEF IsInjective
  <2>1. \A k \in 1..Len(s) : s[k] # e
    BY <1>1, <1>3 DEF ToSet
  <2>2. (i \in 1..Len(s) \/ i = Len(s) + 1) /\ (j \in 1..Len(s) \/ j = Len(s) + 1)
    BY <1>1
  <2> QED BY <1>1, <1>3, <2>1, <2>2 DEF IsInjective
<1> QED BY <1>1, <1>2, <1>3 DEF r

\* A sequence without its first element.
LEMMA Shortened ==
  ASSUME NEW S, NEW s \in Seq(S), s # <<>>, NEW r, r = Tail(s)
  PROVE  /\ r \in Seq(S) /\ Len(r) = Len(s) - 1
         /\ \A i \in 1..Len(s) - 1 : r[i] = s[i + 1]
         /\ ToSet(r) \subseteq ToSet(s)
         /\ IsInjective(s) => IsInjective(r)
<1>1. /\ r \in Seq(S) /\ Len(r) = Len(s) - 1 /\ Len(s) \in Nat \ {0}
      /\ DOMAIN r = 1..Len(s) - 1 /\ DOMAIN s = 1..Len(s)
      /\ \A i \in 1..Len(s) - 1 : r[i] = s[i + 1]
  BY HeadTailProperties, LenProperties, EmptySeq
<1>2. \A i \in 1..Len(s) - 1 : i + 1 \in 1..Len(s) /\ i \in Int
  BY <1>1
<1>3. ToSet(r) \subseteq ToSet(s)
  BY <1>1, <1>2 DEF ToSet
<1>4. ASSUME IsInjective(s) PROVE IsInjective(r)
  <2> SUFFICES ASSUME NEW i \in 1..Len(s) - 1, NEW j \in 1..Len(s) - 1, r[i] = r[j]
               PROVE  i = j
    BY <1>1 DEF IsInjective
  <2>1. i + 1 = j + 1
    BY <1>1, <1>2, <1>4 DEF IsInjective
  <2> QED BY <1>2, <2>1
<1> QED BY <1>1, <1>3, <1>4

\* A sequence without the first occurrence of e.
LEMMA RemovedFirst ==
  ASSUME NEW S, NEW s \in Seq(S), NEW e, NEW r, r = RemoveFirst(s, e)
  PROVE  \/ e \notin ToSet(s) /\ r = s
         \/ \E k \in 1..Len(s) :
              /\ s[k] = e /\ \A i \in 1..k - 1 : s[i] # e
              /\ r \in Seq(S) /\ Len(r) = Len(s) - 1
              /\ \A i \in 1..Len(s) - 1 : r[i] = IF i < k THEN s[i] ELSE s[i + 1]
<1>1. Len(s) \in Nat /\ DOMAIN s = 1..Len(s) /\ \A i \in 1..Len(s) : s[i] \in S
  BY LenProperties, ElementOfSeq
<1>2. CASE ~\E i \in 1..Len(s) : s[i] = e
  BY <1>1, <1>2 DEF RemoveFirst, ToSet
<1>3. CASE \E i \in 1..Len(s) : s[i] = e
  <2> DEFINE I == {i \in 1..Len(s) : s[i] = e}
             k == Min(I)
  <2>1. k \in I /\ \A i \in I : k <= i
    <3>1. \E m \in I : \A i \in I : m <= i
      <4>1. I \subseteq Nat /\ I # {}
        BY <1>1, <1>3
      <4> HIDE DEF I
      <4> QED BY <4>1, LeastNat
    <3> HIDE DEF I
    <3> QED BY <3>1 DEF Min
  <2>2. r = SubSeq(s, 1, k - 1) \o SubSeq(s, k + 1, Len(s))
    <3>1. SelectInSeq(s, LAMBDA v : v = e) = k
      BY <1>3 DEF SelectInSeq
    <3> HIDE DEF k
    <3> QED BY <1>3, <3>1 DEF RemoveFirst, RemoveAt
  <2>3. k \in 1..Len(s) /\ s[k] = e /\ \A i \in 1..k - 1 : s[i] # e
    <3>1. \A i \in 1..k - 1 : i \in 1..Len(s) /\ ~(k <= i)
      BY <1>1, <2>1
    <3> HIDE DEF k
    <3> QED BY <2>1, <3>1
  <2> HIDE DEF k
  <2>4. /\ SubSeq(s, 1, k - 1) \in Seq(S) /\ Len(SubSeq(s, 1, k - 1)) = k - 1
        /\ \A i \in 1..k - 1 : SubSeq(s, 1, k - 1)[i] = s[i]
    <3>1. /\ 1 \in Int /\ k - 1 \in Int /\ \A i \in 1..k - 1 : s[i] \in S
          /\ k \in Int /\ k >= 1
      BY <1>1, <2>3
    <3> QED BY <3>1, SubSeqProperties
  <2>5. /\ SubSeq(s, k + 1, Len(s)) \in Seq(S) /\ Len(SubSeq(s, k + 1, Len(s))) = Len(s) - k
        /\ \A i \in 1..Len(s) - k : SubSeq(s, k + 1, Len(s))[i] = s[k + i]
    <3>1. /\ k + 1 \in Int /\ Len(s) \in Int /\ \A i \in k + 1..Len(s) : s[i] \in S
          /\ k \in 1..Len(s)
      BY <1>1, <2>3
    <3> DEFINE q == SubSeq(s, k + 1, Len(s))
    <3>2. /\ q \in Seq(S)
          /\ Len(q) = IF k + 1 <= Len(s) THEN Len(s) - (k + 1) + 1 ELSE 0
          /\ \A i \in 1..(Len(s) - (k + 1) + 1) : q[i] = s[(k + 1) + i - 1]
      BY <3>1, SubSeqProperties
    <3> HIDE DEF q
    <3>3. Len(q) = Len(s) - k
      BY <3>1, <3>2
    <3>4. ASSUME NEW i \in 1..Len(s) - k PROVE q[i] = s[k + i]
      <4>1. i \in 1..(Len(s) - (k + 1) + 1) /\ (k + 1) + i - 1 = k + i
        BY <3>1
      <4> QED BY <3>2, <4>1
    <3> QED BY <3>2, <3>3, <3>4 DEF q
  <2>6. /\ r \in Seq(S) /\ Len(r) = (k - 1) + (Len(s) - k)
        /\ \A i \in 1..(k - 1) + (Len(s) - k) :
             r[i] = IF i <= k - 1 THEN s[i] ELSE SubSeq(s, k + 1, Len(s))[i - (k - 1)]
    <3> DEFINE p == SubSeq(s, 1, k - 1)
               q == SubSeq(s, k + 1, Len(s))
    <3>1. p \in Seq(S) /\ q \in Seq(S) /\ Len(p) = k - 1 /\ Len(q) = Len(s) - k /\ r = p \o q
      BY <2>2, <2>4, <2>5
    <3>2. \A i \in 1..k - 1 : p[i] = s[i]
      BY <2>4
    <3> HIDE DEF p, q
    <3>3. p \in Seq(S) /\ q \in Seq(S)
      BY <3>1
    <3>4. /\ p \o q \in Seq(S) /\ Len(p \o q) = Len(p) + Len(q)
          /\ \A i \in 1..Len(p) + Len(q) :
               (p \o q)[i] = IF i <= Len(p) THEN p[i] ELSE q[i - Len(p)]
      BY ONLY <3>3, ConcatProperties
    <3>5. /\ r \in Seq(S) /\ Len(r) = Len(p) + Len(q)
          /\ \A i \in 1..Len(p) + Len(q) : r[i] = IF i <= Len(p) THEN p[i] ELSE q[i - Len(p)]
      BY <3>1, <3>4
    <3>6. \A i \in 1..(k - 1) + (Len(s) - k) : i <= k - 1 => i \in 1..k - 1
      OBVIOUS
    <3> QED BY <3>1, <3>2, <3>5, <3>6 DEF q
  <2>7. Len(r) = Len(s) - 1
    BY <1>1, <2>3, <2>6
  <2>8. ASSUME NEW i \in 1..Len(s) - 1 PROVE r[i] = IF i < k THEN s[i] ELSE s[i + 1]
    <3>1. /\ i \in 1..(k - 1) + (Len(s) - k) /\ (i <= k - 1 <=> i < k)
          /\ ~(i < k) => i - (k - 1) \in 1..Len(s) - k /\ k + (i - (k - 1)) = i + 1
      BY <1>1, <2>3
    <3> QED BY <2>5, <2>6, <3>1
  <2> QED BY <2>3, <2>6, <2>7, <2>8
<1> QED BY <1>2, <1>3

\* Where nothing occurs twice, that is the sequence without e.
LEMMA Without1 ==
  ASSUME NEW S, NEW s \in Seq(S), IsInjective(s), NEW e, NEW r, r = RemoveFirst(s, e)
  PROVE  /\ r \in Seq(S) /\ IsInjective(r) /\ ToSet(r) = ToSet(s) \ {e}
         /\ Len(r) = Len(s) - (IF e \in ToSet(s) THEN 1 ELSE 0)
<1>1. Len(s) \in Nat /\ DOMAIN s = 1..Len(s)
  BY LenProperties
<1>2. CASE e \notin ToSet(s) /\ r = s
  BY <1>1, <1>2
<1>3. ASSUME NEW k \in 1..Len(s), s[k] = e, r \in Seq(S), Len(r) = Len(s) - 1,
             \A i \in 1..Len(s) - 1 : r[i] = IF i < k THEN s[i] ELSE s[i + 1]
      PROVE  /\ IsInjective(r) /\ ToSet(r) = ToSet(s) \ {e} /\ e \in ToSet(s)
  <2>1. DOMAIN r = 1..Len(s) - 1
    BY <1>3, LenProperties
  <2> DEFINE b(i) == IF i < k THEN i ELSE i + 1
  <2>2. \A i \in 1..Len(s) - 1 : r[i] = s[b(i)]
    BY <1>3
  <2>3. /\ \A i \in 1..Len(s) - 1 : b(i) \in 1..Len(s) /\ b(i) # k
        /\ \A i, j \in 1..Len(s) - 1 : b(i) = b(j) => i = j
    BY <1>1, <1>3
  <2>4. ASSUME NEW j \in 1..Len(s), j # k PROVE \E i \in 1..Len(s) - 1 : b(i) = j
    <3>1. CASE j < k
      <4>1. j \in 1..Len(s) - 1 /\ b(j) = j
        BY <1>1, <1>3, <3>1
      <4> QED BY <4>1
    <3>2. CASE ~(j < k)
      <4>1. j - 1 \in 1..Len(s) - 1 /\ b(j - 1) = j
        BY <1>1, <1>3, <2>4, <3>2
      <4> QED BY <4>1
    <3> QED BY <3>1, <3>2
  <2> HIDE DEF b
  <2>5. IsInjective(r)
    BY <1>1, <2>1, <2>2, <2>3 DEF IsInjective
  <2>6. ToSet(r) \subseteq ToSet(s) \ {e}
    <3> SUFFICES ASSUME NEW i \in 1..Len(s) - 1 PROVE r[i] \in ToSet(s) /\ r[i] # e
      BY <2>1 DEF ToSet
    <3>1. s[b(i)] # s[k]
      BY <1>1, <2>3 DEF IsInjective
    <3> QED BY <1>1, <1>3, <2>2, <2>3, <3>1 DEF ToSet
  <2>7. ToSet(s) \ {e} \subseteq ToSet(r)
    <3> SUFFICES ASSUME NEW j \in 1..Len(s), s[j] # e PROVE s[j] \in ToSet(r)
      BY <1>1 DEF ToSet
    <3>1. PICK i \in 1..Len(s) - 1 : b(i) = j
      BY <1>3, <2>4
    <3> QED BY <2>1, <2>2, <3>1 DEF ToSet
  <2>8. e \in ToSet(s)
    BY <1>1, <1>3 DEF ToSet
  <2> QED BY <2>5, <2>6, <2>7, <2>8
<1>4. \/ e \notin ToSet(s) /\ r = s
      \/ \E k \in 1..Len(s) :
           /\ s[k] = e
           /\ r \in Seq(S) /\ Len(r) = Len(s) - 1
           /\ \A i \in 1..Len(s) - 1 : r[i] = IF i < k THEN s[i] ELSE s[i + 1]
  BY RemovedFirst
<1> QED BY <1>1, <1>2, <1>3, <1>4

\* g[i] has, of the first i elements of s, those outside T.
Keeps(g, s, T) ==
  g = [i \in 0..Len(s) |-> IF i = 0 THEN <<>>
                           ELSE IF s[i] \in T THEN g[i - 1] ELSE Append(g[i - 1], s[i])]

\* There is such a function.
LEMMA KeepsExists ==
  ASSUME NEW S, NEW s \in Seq(S), NEW T
  PROVE  \E g : Keeps(g, s, T)
<1> DEFINE Is(g, n) == g = [i \in 0..n |-> IF i = 0 THEN <<>>
                              ELSE IF s[i] \in T THEN g[i - 1] ELSE Append(g[i - 1], s[i])]
           G == {n \in Nat : \E g : Is(g, n)}
<1>1. 0 \in G
  <2> DEFINE g == [i \in 0..0 |-> <<>>]
  <2>1. Is(g, 0)
    OBVIOUS
  <2> HIDE DEF Is
  <2> QED BY <2>1
<1>2. ASSUME NEW n \in G PROVE n + 1 \in G
  <2>1. PICK g : Is(g, n)
    OBVIOUS
  <2> DEFINE next == IF s[n + 1] \in T THEN g[n] ELSE Append(g[n], s[n + 1])
             h == [i \in 0..n + 1 |-> IF i = n + 1 THEN next ELSE g[i]]
             k == [i \in 0..n + 1 |-> IF i = 0 THEN <<>>
                     ELSE IF s[i] \in T THEN h[i - 1] ELSE Append(h[i - 1], s[i])]
  <2>2. n \in Nat
    OBVIOUS
  <2>3. ASSUME NEW i \in 0..n + 1 PROVE h[i] = k[i]
    <3>1. CASE i = n + 1
      <4>1. i # 0 /\ i - 1 = n /\ n \in 0..n + 1 /\ n # n + 1
        BY <2>2, <3>1
      <4>2. h[i - 1] = g[n]
        BY <4>1
      <4>3. h[i] = next
        BY <3>1
      <4>4. k[i] = IF s[i] \in T THEN h[i - 1] ELSE Append(h[i - 1], s[i])
        BY <4>1
      <4> HIDE DEF h, k
      <4> QED BY <3>1, <4>2, <4>3, <4>4
    <3>2. CASE i # n + 1
      <4>1. i \in 0..n /\ h[i] = g[i]
        BY <2>2, <3>2
      <4>2. g[i] = IF i = 0 THEN <<>>
                   ELSE IF s[i] \in T THEN g[i - 1] ELSE Append(g[i - 1], s[i])
        BY <2>1, <4>1
      <4>3. CASE i = 0
        BY <4>1, <4>2, <4>3
      <4>4. CASE i # 0
        <5>1. i - 1 \in 0..n + 1 /\ i - 1 # n + 1
          BY <2>2, <4>1, <4>4
        <5>2. h[i - 1] = g[i - 1]
          BY <5>1
        <5>3. k[i] = IF s[i] \in T THEN h[i - 1] ELSE Append(h[i - 1], s[i])
          BY <4>4
        <5> HIDE DEF h, k
        <5> QED BY <4>1, <4>2, <4>4, <5>2, <5>3
      <4> QED BY <4>3, <4>4
    <3> QED BY <3>1, <3>2
  <2>4. h = k
    <3>1. /\ h = [i \in 0..n + 1 |-> h[i]] /\ k = [i \in 0..n + 1 |-> k[i]]
      OBVIOUS
    <3> HIDE DEF h, k
    <3> QED BY <2>3, <3>1
  <2>5. Is(h, n + 1)
    <3> HIDE DEF h
    <3> QED BY <2>4
  <2> HIDE DEF Is
  <2> QED BY <2>2, <2>5
<1> HIDE DEF G
<1>3. Nat \subseteq G
  BY <1>1, <1>2, NatInductionSet
<1>4. Len(s) \in G
  BY <1>3, LenProperties
<1> QED BY <1>4 DEF G, Keeps

\* What it keeps.
LEMMA KeepsFacts ==
  ASSUME NEW S, NEW s \in Seq(S), NEW T, NEW g, Keeps(g, s, T)
  PROVE  g[Len(s)] \in Seq(S) /\ ToSet(g[Len(s)]) = ToSet(s) \ T
<1>1. Len(s) \in Nat /\ DOMAIN s = 1..Len(s) /\ \A i \in 1..Len(s) : s[i] \in S
  BY LenProperties, ElementOfSeq
<1> DEFINE first(n) == {s[i] : i \in 1..n}
           Good(n) == g[n] \in Seq(S) /\ ToSet(g[n]) = first(n) \ T
           G == {n \in Nat : n <= Len(s) => Good(n)}
<1>2. 0 \in G
  <2>1. g[0] = <<>>
    BY <1>1 DEF Keeps
  <2>2. g[0] \in Seq(S) /\ DOMAIN g[0] = {}
    BY <2>1
  <2>3. ToSet(g[0]) = {} /\ first(0) = {}
    BY <2>2 DEF ToSet
  <2> HIDE DEF first
  <2> QED BY <2>2, <2>3
<1>3. ASSUME NEW n \in G PROVE n + 1 \in G
  <2>1. n \in Nat
    OBVIOUS
  <2> SUFFICES ASSUME n + 1 <= Len(s) PROVE Good(n + 1)
    BY <2>1
  <2>2. Good(n)
    BY <1>1, <2>1
  <2>3. n + 1 \in 1..Len(s) /\ n + 1 \in 0..Len(s) /\ n + 1 # 0 /\ (n + 1) - 1 = n
    BY <1>1, <2>1
  <2>4. g[n + 1] = IF s[n + 1] \in T THEN g[n] ELSE Append(g[n], s[n + 1])
    BY <2>3 DEF Keeps
  <2>5. first(n + 1) = first(n) \cup {s[n + 1]}
    <3>1. 1..n + 1 = 1..n \cup {n + 1}
      BY <2>1
    <3> QED BY <3>1
  <2> HIDE DEF first
  <2>6. CASE s[n + 1] \in T
    BY <2>2, <2>4, <2>5, <2>6
  <2>7. CASE s[n + 1] \notin T
    <3>1. s[n + 1] \in S
      BY <1>1, <2>3
    <3>2. /\ Append(g[n], s[n + 1]) \in Seq(S)
          /\ ToSet(Append(g[n], s[n + 1])) = ToSet(g[n]) \cup {s[n + 1]}
      BY <2>2, <3>1, Appended
    <3> QED BY <2>2, <2>4, <2>5, <2>7, <3>2
  <2> QED BY <2>6, <2>7
<1> HIDE DEF G
<1>4. Nat \subseteq G
  BY <1>2, <1>3, NatInductionSet
<1>5. Good(Len(s))
  <2>1. Len(s) \in G
    BY <1>1, <1>4
  <2> QED BY <1>1, <2>1 DEF G
<1>6. first(Len(s)) = ToSet(s)
  BY <1>1 DEF ToSet
<1> QED BY <1>5, <1>6

\* The elements of a finite set in a row.
LEMMA InARow ==
  ASSUME NEW S, IsFiniteSet(S)
  PROVE  SetToSeq(S) \in Seq(S) /\ Len(SetToSeq(S)) = Cardinality(S) /\ IsInjective(SetToSeq(S))
<1> DEFINE k == Cardinality(S)
<1>1. k \in Nat /\ ExistsBijection(1..k, S)
  BY FS_CardinalityType
<1>2. \E f \in [1..k -> S] : IsInjective(f)
  BY <1>1 DEF ExistsBijection, Bijection, Injection, IsInjective
<1>3. SetToSeq(S) \in [1..k -> S] /\ IsInjective(SetToSeq(S))
  BY <1>2 DEF SetToSeq
<1> HIDE DEF k
<1>4. SetToSeq(S) \in Seq(S)
  BY <1>1, <1>3, SeqDef
<1>5. Len(SetToSeq(S)) = k
  BY <1>1, <1>3, <1>4, LenProperties
<1> QED BY <1>3, <1>4, <1>5 DEF k
=============================================================================
