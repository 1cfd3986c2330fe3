----------------------------- MODULE FiniteSums -----------------------------
(***************************************************************************)
(* Lemmas about the natural numbers, sums over finite sets and the         *)
(* concatenation of sequences, for the other proofs.                       *)
(*                                                                         *)
(* The induction theorems of the library take a predicate as a parameter,  *)
(* which no installed prover instantiates.  Induction is stated here for a *)
(* set instead, the set of the numbers that have the property: the least   *)
(* element of its complement comes from the well-founded ordering of       *)
(* finite sets by strict inclusion.                                        *)
(***************************************************************************)
EXTENDS Integers, FiniteSets, FiniteSetTheorems, SequencesExt, TLAPS

(* A set of natural numbers that is not empty has a least element. *)
LEMMA NatMin ==
  ASSUME NEW T \in SUBSET Nat, T # {}
  PROVE \E m \in T : \A k \in T : m <= k
<1>. DEFINE F == {0..k : k \in T}
<1>1. F \subseteq FiniteSubsetsOf(Nat) /\ F # {}
  <2>1. ASSUME NEW k \in T PROVE 0..k \in FiniteSubsetsOf(Nat)
    <3>1. k \in Int /\ 0 \in Int /\ (0..k) \in SUBSET Nat OBVIOUS
    <3>2. IsFiniteSet(0..k) BY <3>1, FS_Interval
    <3>. QED BY <3>1, <3>2 DEF FiniteSubsetsOf
  <2>. QED BY <2>1
<1>2. PICK f \in F : \A g \in F : ~(<<g, f>> \in StrictSubsetOrdering(Nat))
  BY <1>1, FS_StrictSubsetOrderingWellFounded, WFMin, Zenon
<1>3. PICK m \in T : f = 0..m
  BY <1>2
<1>4. ASSUME NEW k \in T, k < m PROVE FALSE
  <2>1. (0..k) \subseteq (0..m) /\ 0..k # 0..m
    BY <1>4
  <2>2. 0..k \in F /\ <<0..k, 0..m>> \in StrictSubsetOrdering(Nat)
    BY <2>1 DEF StrictSubsetOrdering
  <2>. QED BY <2>2, <1>2, <1>3
<1>. QED
  BY <1>4

(* A set that holds 0 and the successor of each of its numbers holds them all. *)
LEMMA SetInduction ==
  ASSUME NEW T, 0 \in T, \A n \in Nat : n \in T => n + 1 \in T
  PROVE  Nat \subseteq T
<1> SUFFICES ASSUME Nat \ T # {} PROVE FALSE
  OBVIOUS
<1>1. PICK m \in Nat \ T : \A k \in Nat \ T : m <= k
  BY NatMin
<1>2. m - 1 \in Nat /\ m - 1 \in T
  BY <1>1
<1>. QED
  BY <1>1, <1>2

----------------------------------------------------------------------------
(* SumFunctionOnSet, one chosen element after the other. *)

Chosen(s) == CHOOSE x \in s : TRUE
IsSum(g, f, S) ==
  g = [s \in SUBSET S |-> IF s = {} THEN 0 ELSE f[Chosen(s)] + g[s \ {Chosen(s)}]]
Iter(f, S) == CHOOSE g : IsSum(g, f, S)

(* The sum is the value at S of the function its definition chooses. *)
LEMMA SumIsIter ==
  ASSUME NEW f, NEW S
  PROVE  SumFunctionOnSet(f, S) = Iter(f, S)[S]
BY DEF SumFunctionOnSet, FoldFunctionOnSet, MapThenFoldSet, IsSum, Chosen, Iter

(* The element chosen is one of the set. *)
LEMMA ChosenIn == ASSUME NEW s, s # {} PROVE Chosen(s) \in s
BY DEF Chosen

(* Without it the set has one element less. *)
LEMMA Smaller ==
  ASSUME NEW s, IsFiniteSet(s), s # {}
  PROVE  /\ IsFiniteSet(s \ {Chosen(s)})
         /\ Cardinality(s) \in Nat \ {0} /\ Cardinality(s \ {Chosen(s)}) = Cardinality(s) - 1
<1>1. Chosen(s) \in s
  BY ChosenIn
<1>2. Cardinality(s) \in Nat /\ Cardinality(s) # 0
  BY FS_CardinalityType, FS_EmptySet
<1>. QED
  BY <1>1, <1>2, FS_RemoveElement

(* There is a function that satisfies the recursion, with natural values. *)
LEMMA SumExists ==
  ASSUME NEW S, IsFiniteSet(S), NEW f, \A x \in S : f[x] \in Nat
  PROVE  \E g \in [SUBSET S -> Nat] : IsSum(g, f, S)
<1>. DEFINE Small(n) == {s \in SUBSET S : Cardinality(s) <= n}
           Step(g, s) == IF s = {} THEN 0 ELSE f[Chosen(s)] + g[s \ {Chosen(s)}]
           Good == {n \in Nat : \E g \in [Small(n) -> Nat] : \A s \in Small(n) : g[s] = Step(g, s)}
<1>0. \A s \in SUBSET S : IsFiniteSet(s) /\ Cardinality(s) \in Nat
  BY FS_Subset, FS_CardinalityType
<1>1. 0 \in Good
  <2>1. \A s \in Small(0) : s = {}
    BY <1>0, FS_EmptySet
  <2>2. [s \in Small(0) |-> 0] \in [Small(0) -> Nat]
    OBVIOUS
  <2>. QED
    BY <2>1, <2>2
<1>2. ASSUME NEW n \in Nat, n \in Good PROVE n + 1 \in Good
  <2>1. PICK g \in [Small(n) -> Nat] : \A s \in Small(n) : g[s] = Step(g, s)
    BY <1>2
  <2>. DEFINE h == [s \in Small(n + 1) |-> Step(g, s)]
  <2>2. ASSUME NEW s \in Small(n + 1), s # {}
        PROVE  /\ s \ {Chosen(s)} \in Small(n) /\ Chosen(s) \in S
    <3>1. IsFiniteSet(s) /\ Cardinality(s) <= n + 1 /\ s \in SUBSET S
      BY <1>0
    <3>2. Cardinality(s) \in Nat /\ Cardinality(s \ {Chosen(s)}) = Cardinality(s) - 1
      BY <3>1, <2>2, Smaller
    <3>3. Cardinality(s \ {Chosen(s)}) <= n
      BY <3>1, <3>2
    <3>. QED
      BY <3>1, <3>3, <2>2, ChosenIn
  <2>3. h \in [Small(n + 1) -> Nat]
    BY <2>2
  <2>4. \A s \in Small(n) : s \in Small(n + 1) /\ h[s] = g[s]
    <3> SUFFICES ASSUME NEW s \in Small(n) PROVE s \in Small(n + 1) /\ h[s] = g[s]
      OBVIOUS
    <3>1. s \in Small(n + 1)
      BY <1>0
    <3>2. g[s] = Step(g, s)
      BY <2>1
    <3>. QED
      BY <3>1, <3>2
  <2>5. \A s \in Small(n + 1) : h[s] = Step(h, s)
    <3> SUFFICES ASSUME NEW s \in Small(n + 1) PROVE h[s] = Step(h, s)
      OBVIOUS
    <3>1. h[s] = Step(g, s)
      OBVIOUS
    <3>2. CASE s = {}
      BY <3>1, <3>2
    <3>3. CASE s # {}
      BY <3>1, <3>3, <2>2, <2>4
    <3>. QED
      BY <3>2, <3>3
  <2>6. \E k \in [Small(n + 1) -> Nat] : \A s \in Small(n + 1) : k[s] = Step(k, s)
    <3>. HIDE DEF h
    <3>. QED
      BY <2>3, <2>5
  <2>. HIDE DEF Small, Step
  <2>. QED
    BY <2>6
<1>3. Cardinality(S) \in Good
  <2>. HIDE DEF Good
  <2>. QED
    BY <1>1, <1>2, SetInduction, FS_CardinalityType
<1>4. Small(Cardinality(S)) = SUBSET S
  BY FS_Subset
<1>5. PICK g \in [SUBSET S -> Nat] : \A s \in SUBSET S : g[s] = Step(g, s)
  BY <1>3, <1>4
<1>6. IsSum(g, f, S)
  BY <1>5 DEF IsSum
<1>. QED
  BY <1>6

(* Two such functions, of two sets, agree on the subsets they share. *)
LEMMA SumAgrees ==
  ASSUME NEW S, NEW T, NEW f, NEW e, NEW g, NEW h, IsSum(g, f, S), IsSum(h, e, T),
         NEW u, IsFiniteSet(u), u \in SUBSET S, u \in SUBSET T, \A x \in u : f[x] = e[x]
  PROVE  g[u] = h[u]
<1>. DEFINE Good == {n \in Nat : \A s \in SUBSET u : Cardinality(s) = n => g[s] = h[s]}
<1>0. \A s \in SUBSET u : IsFiniteSet(s) /\ Cardinality(s) \in Nat
  BY FS_Subset, FS_CardinalityType
<1>1. 0 \in Good
  <2>1. \A s \in SUBSET u : Cardinality(s) = 0 => s = {}
    BY <1>0, FS_EmptySet
  <2>2. g[{}] = 0 /\ h[{}] = 0
    BY DEF IsSum
  <2>. QED
    BY <2>1, <2>2
<1>2. ASSUME NEW n \in Nat, n \in Good PROVE n + 1 \in Good
  <2> SUFFICES ASSUME NEW s \in SUBSET u, Cardinality(s) = n + 1 PROVE g[s] = h[s]
    OBVIOUS
  <2>. DEFINE c == Chosen(s)
  <2>1. s # {}
    BY FS_EmptySet
  <2>2. c \in s /\ c \in u
    BY <2>1, ChosenIn
  <2>3. s \ {c} \in SUBSET u /\ Cardinality(s \ {c}) = n
    BY <1>0, <2>1, Smaller
  <2>4. g[s \ {c}] = h[s \ {c}]
    BY <1>2, <2>3
  <2>5. g[s] = f[c] + g[s \ {c}]
    BY <2>1 DEF IsSum
  <2>6. h[s] = e[c] + h[s \ {c}]
    BY <2>1 DEF IsSum
  <2>. QED
    BY <2>2, <2>4, <2>5, <2>6
<1>3. Cardinality(u) \in Good
  <2>. HIDE DEF Good
  <2>. QED
    BY <1>1, <1>2, SetInduction, FS_CardinalityType
<1>. QED
  BY <1>3

(* The one that is chosen satisfies the recursion. *)
LEMMA IterIsSum ==
  ASSUME NEW S, IsFiniteSet(S), NEW f, \A x \in S : f[x] \in Nat
  PROVE  IsSum(Iter(f, S), f, S)
BY SumExists DEF Iter

(* One step of a sum. *)
LEMMA SumStep ==
  ASSUME NEW S, IsFiniteSet(S), S # {}, NEW f, \A x \in S : f[x] \in Nat
  PROVE  SumFunctionOnSet(f, S) = f[Chosen(S)] + SumFunctionOnSet(f, S \ {Chosen(S)})
<1>. DEFINE R == S \ {Chosen(S)}
<1>1. IsFiniteSet(R)
  BY Smaller
<1>2. IsSum(Iter(f, S), f, S) /\ IsSum(Iter(f, R), f, R)
  BY <1>1, IterIsSum
<1>3. Iter(f, S)[R] = Iter(f, R)[R]
  BY <1>1, <1>2, SumAgrees
<1>4. Iter(f, S)[S] = f[Chosen(S)] + Iter(f, S)[R]
  BY <1>2 DEF IsSum
<1>. QED
  BY <1>3, <1>4, SumIsIter

(* The empty sum. *)
LEMMA SumEmpty == ASSUME NEW f PROVE SumFunctionOnSet(f, {}) = 0
<1>1. IsSum(Iter(f, {}), f, {})
  BY IterIsSum, FS_EmptySet
<1>. QED
  BY <1>1, SumIsIter DEF IsSum

(* A sum is a natural number. *)
LEMMA SumType ==
  ASSUME NEW S, IsFiniteSet(S), NEW f, \A x \in S : f[x] \in Nat
  PROVE  SumFunctionOnSet(f, S) \in Nat
<1>1. PICK g \in [SUBSET S -> Nat] : IsSum(g, f, S)
  BY SumExists
<1>2. g[S] = Iter(f, S)[S]
  BY <1>1, IterIsSum, SumAgrees
<1>. QED
  BY <1>1, <1>2, SumIsIter

(* It depends on the values summed only. *)
LEMMA SumSame ==
  ASSUME NEW S, IsFiniteSet(S), NEW f, NEW e, \A x \in S : f[x] \in Nat /\ e[x] = f[x]
  PROVE  SumFunctionOnSet(e, S) = SumFunctionOnSet(f, S)
<1>1. IsSum(Iter(f, S), f, S) /\ IsSum(Iter(e, S), e, S)
  BY IterIsSum
<1>2. Iter(e, S)[S] = Iter(f, S)[S]
  BY <1>1, SumAgrees
<1>. QED
  BY <1>2, SumIsIter

(* Whatever element is taken out, what remains is the rest. *)
LEMMA SumSplit ==
  ASSUME NEW S, IsFiniteSet(S), NEW f, \A x \in S : f[x] \in Nat, NEW a \in S
  PROVE  SumFunctionOnSet(f, S) = f[a] + SumFunctionOnSet(f, S \ {a})
<1>. DEFINE Sum(s) == SumFunctionOnSet(f, s)
           Good == {n \in Nat : \A s \in SUBSET S : Cardinality(s) = n =>
                                  \A x \in s : Sum(s) = f[x] + Sum(s \ {x})}
<1>0. \A s \in SUBSET S : IsFiniteSet(s) /\ Cardinality(s) \in Nat /\ Sum(s) \in Nat
  <2> SUFFICES ASSUME NEW s \in SUBSET S
               PROVE  IsFiniteSet(s) /\ Cardinality(s) \in Nat /\ Sum(s) \in Nat
    OBVIOUS
  <2>1. IsFiniteSet(s)
    BY FS_Subset
  <2>. QED
    BY <2>1, FS_CardinalityType, SumType
<1>1. 0 \in Good
  <2>1. \A s \in SUBSET S : Cardinality(s) = 0 => s = {}
    BY <1>0, FS_EmptySet
  <2>. HIDE DEF Sum
  <2>. QED
    BY <2>1
<1>2. ASSUME NEW n \in Nat, n \in Good PROVE n + 1 \in Good
  <2> SUFFICES ASSUME NEW s \in SUBSET S, Cardinality(s) = n + 1, NEW x \in s
               PROVE  Sum(s) = f[x] + Sum(s \ {x})
    OBVIOUS
  <2>. DEFINE c == Chosen(s)
  <2>1. c \in s
    BY ChosenIn
  <2>2. Sum(s) = f[c] + Sum(s \ {c})
    BY <1>0, SumStep
  <2>3. CASE x = c
    BY <2>2, <2>3
  <2>4. CASE x # c
    <3>1. /\ s \ {c} \in SUBSET S /\ s \ {x} \in SUBSET S /\ (s \ {c}) \ {x} \in SUBSET S
          /\ (s \ {x}) \ {c} = (s \ {c}) \ {x}
          /\ x \in s \ {c} /\ c \in s \ {x}
      BY <2>1, <2>4
    <3>2. Cardinality(s \ {c}) = n /\ Cardinality(s \ {x}) = n
      BY <1>0, <2>1, FS_RemoveElement
    <3>3. Sum(s \ {c}) = f[x] + Sum((s \ {c}) \ {x})
      BY <1>2, <3>1, <3>2
    <3>4. Sum(s \ {x}) = f[c] + Sum((s \ {x}) \ {c})
      BY <1>2, <3>1, <3>2
    <3>5. f[c] \in Nat /\ f[x] \in Nat /\ Sum((s \ {c}) \ {x}) \in Nat
      BY <1>0, <3>1, <2>1
    <3>. HIDE DEF Sum, c
    <3>. QED
      BY <2>2, <3>1, <3>3, <3>4, <3>5
  <2>. QED
    BY <2>3, <2>4
<1>3. Cardinality(S) \in Good
  <2>. HIDE DEF Good
  <2>. QED
    BY <1>1, <1>2, SetInduction, FS_CardinalityType
<1>. QED
  BY <1>3

----------------------------------------------------------------------------
(* FlattenSeq, one sequence after the other. *)

FlatStep(f, seqs, i) == IF i = 1 THEN seqs[i] ELSE f[i - 1] \o seqs[i]
IsFlat(f, seqs) == f = [i \in 1..Len(seqs) |-> FlatStep(f, seqs, i)]

(* There is a function that concatenates the first i sequences. *)
LEMMA FlatExists ==
  ASSUME NEW S, NEW seqs, Len(seqs) \in Nat, \A i \in 1..Len(seqs) : seqs[i] \in Seq(S)
  PROVE  \E f \in [1..Len(seqs) -> Seq(S)] : IsFlat(f, seqs)
<1>. DEFINE Good == {n \in Nat : n <= Len(seqs) =>
                       \E f \in [1..n -> Seq(S)] : \A i \in 1..n : f[i] = FlatStep(f, seqs, i)}
<1>1. 0 \in Good
  <2>. DEFINE e == [i \in 1..0 |-> <<>>]
  <2>1. e \in [1..0 -> Seq(S)] /\ \A i \in 1..0 : e[i] = FlatStep(e, seqs, i)
    OBVIOUS
  <2>. HIDE DEF e
  <2>. QED
    BY <2>1
<1>2. ASSUME NEW n \in Nat, n \in Good PROVE n + 1 \in Good
  <2>. SUFFICES ASSUME n + 1 <= Len(seqs)
       PROVE \E f \in [1..(n + 1) -> Seq(S)] : \A i \in 1..(n + 1) : f[i] = FlatStep(f, seqs, i)
    OBVIOUS
  <2>1. PICK f \in [1..n -> Seq(S)] : \A i \in 1..n : f[i] = FlatStep(f, seqs, i)
    BY <1>2
  <2>. DEFINE g == [i \in 1..(n + 1) |-> FlatStep(f, seqs, i)]
  <2>2. ASSUME NEW i \in 1..(n + 1) PROVE FlatStep(f, seqs, i) \in Seq(S)
    <3>1. seqs[i] \in Seq(S)
      OBVIOUS
    <3>2. CASE i = 1
      BY <3>1, <3>2 DEF FlatStep
    <3>3. CASE i # 1
      <4>1. i - 1 \in 1..n /\ f[i - 1] \in Seq(S)
        BY <3>3
      <4>. QED
        BY <3>1, <3>3, <4>1 DEF FlatStep
    <3>. QED
      BY <3>2, <3>3
  <2>3. g \in [1..(n + 1) -> Seq(S)]
    BY <2>2
  <2>4. ASSUME NEW i \in 1..(n + 1) PROVE g[i] = FlatStep(g, seqs, i)
    <3>1. g[i] = FlatStep(f, seqs, i)
      OBVIOUS
    <3>2. i # 1 => g[i - 1] = f[i - 1]
      <4>. SUFFICES ASSUME i # 1 PROVE g[i - 1] = f[i - 1]
        OBVIOUS
      <4>1. i - 1 \in 1..n /\ i - 1 \in 1..(n + 1)
        OBVIOUS
      <4>. QED
        BY <4>1, <2>1
    <3>. QED
      BY <3>1, <3>2 DEF FlatStep
  <2>. HIDE DEF g
  <2>. QED
    BY <2>3, <2>4
<1>3. Len(seqs) \in Good
  <2>. HIDE DEF Good
  <2>. QED
    BY <1>1, <1>2, SetInduction
<1>4. PICK f \in [1..Len(seqs) -> Seq(S)] : \A i \in 1..Len(seqs) : f[i] = FlatStep(f, seqs, i)
  BY <1>3
<1>5. f = [i \in 1..Len(seqs) |-> FlatStep(f, seqs, i)]
  BY <1>4
<1>. QED
  BY <1>4, <1>5 DEF IsFlat

(* FlattenSeq is that function at the last sequence; and it has the        *)
(* properties of each that appending keeps.                                *)
LEMMA FlattenFrom ==
  ASSUME NEW S, NEW seqs, Len(seqs) \in Nat \ {0},
         \A i \in 1..Len(seqs) : seqs[i] \in Seq(S)
  PROVE  \E f \in [1..Len(seqs) -> Seq(S)] :
           /\ FlattenSeq(seqs) = f[Len(seqs)]
           /\ f[1] = seqs[1]
           /\ \A i \in 2..Len(seqs) : f[i] = f[i - 1] \o seqs[i]
<1>. DEFINE g == CHOOSE f : IsFlat(f, seqs)
<1>1. PICK f \in [1..Len(seqs) -> Seq(S)] : IsFlat(f, seqs)
  BY FlatExists
<1>2. IsFlat(g, seqs)
  BY <1>1
<1>3. FlattenSeq(seqs) = g[Len(seqs)]
  BY Zenon DEF FlattenSeq, IsFlat, FlatStep
<1>. HIDE DEF g
<1>4. DOMAIN g = 1..Len(seqs) /\ \A i \in 1..Len(seqs) : g[i] = FlatStep(g, seqs, i)
  BY <1>2 DEF IsFlat
<1>5. DOMAIN f = 1..Len(seqs) /\ \A i \in 1..Len(seqs) : f[i] = FlatStep(f, seqs, i)
  BY <1>1 DEF IsFlat
<1>a. ASSUME NEW h PROVE FlatStep(h, seqs, 1) = seqs[1]
  BY DEF FlatStep
<1>b. ASSUME NEW h, NEW i \in 2..Len(seqs) PROVE FlatStep(h, seqs, i) = h[i - 1] \o seqs[i]
  <2>1. i # 1
    OBVIOUS
  <2>. QED
    BY <2>1 DEF FlatStep
<1>c. 1 \in 1..Len(seqs)
  OBVIOUS
<1>d. g[1] = seqs[1] /\ f[1] = seqs[1]
  <2>1. g[1] = FlatStep(g, seqs, 1) /\ f[1] = FlatStep(f, seqs, 1)
    BY <1>4, <1>5, <1>c, Zenon
  <2>. QED
    BY <2>1, <1>a, Zenon
<1>. DEFINE Same == {n \in Nat : n + 1 \in 1..Len(seqs) => g[n + 1] = f[n + 1]}
<1>6. 0 \in Same
  BY <1>d
<1>7. ASSUME NEW n \in Nat, n \in Same PROVE n + 1 \in Same
  <2>. SUFFICES ASSUME n + 2 \in 1..Len(seqs) PROVE g[n + 2] = f[n + 2]
    OBVIOUS
  <2>1. n + 1 \in 1..Len(seqs) /\ (n + 2) - 1 = n + 1 /\ n + 2 # 1
    OBVIOUS
  <2>2. g[n + 1] = f[n + 1]
    BY <1>7, <2>1
  <2>3. n + 2 \in 2..Len(seqs)
    OBVIOUS
  <2>4. g[n + 2] = FlatStep(g, seqs, n + 2) /\ f[n + 2] = FlatStep(f, seqs, n + 2)
    BY <1>4, <1>5, Zenon
  <2>5. /\ FlatStep(g, seqs, n + 2) = g[(n + 2) - 1] \o seqs[n + 2]
        /\ FlatStep(f, seqs, n + 2) = f[(n + 2) - 1] \o seqs[n + 2]
    BY <1>b, <2>3, Zenon
  <2>. QED
    BY <2>1, <2>2, <2>4, <2>5, Zenon
<1>8. Nat \subseteq Same
  <2>. HIDE DEF Same
  <2>. QED
    BY <1>6, <1>7, SetInduction
<1>9. ASSUME NEW i \in 1..Len(seqs) PROVE g[i] = f[i]
  <2>1. i - 1 \in Nat /\ (i - 1) + 1 = i
    OBVIOUS
  <2>. QED
    BY <1>8, <2>1
<1>10. FlattenSeq(seqs) = f[Len(seqs)]
  BY <1>3, <1>9
<1>12. ASSUME NEW i \in 2..Len(seqs) PROVE f[i] = f[i - 1] \o seqs[i]
  <2>1. i \in 1..Len(seqs)
    OBVIOUS
  <2>2. f[i] = FlatStep(f, seqs, i)
    BY <1>5, <2>1, Zenon
  <2>. QED
    BY <2>2, <1>b
<1>. QED
  BY <1>10, <1>d, <1>12

=============================================================================
