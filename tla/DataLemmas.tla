------------------------------ MODULE DataLemmas ------------------------------
(***************************************************************************)
(* What the proofs use about the data of the model: the function that a    *)
(* fold of the community modules stands for exists, and a sum does not     *)
(* depend on the order of its terms; a finite set of numbers has a greatest*)
(* and a least; sorting is a permutation.                                  *)
(*                                                                         *)
(* Inductions over a finite set are by a smallest counterexample, since an *)
(* induction principle with a predicate as its parameter cannot be used.   *)
(***************************************************************************)
EXTENDS Percentile, FiniteSetsExt, Functions, FiniteSetTheorems, SequenceTheorems,
        WellFoundedInduction, TLAPS

\* c takes an element out of every set.
Chooses(c, S) == \A s \in SUBSET S : s # {} => c[s] \in s

\* g folds step over the subsets of S, an element that c takes out at a time.
Folds(g, S, base, step, c) ==
  g = [s \in SUBSET S |-> IF s = {} THEN base ELSE step[<<c[s], g[s \ {c[s]}]>>]]

\* g adds up v over the subsets of S, whatever the order.
AddsUp(g, S, v) ==
  /\ g \in [SUBSET S -> Nat] /\ g[{}] = 0
  /\ \A s \in SUBSET S : \A x \in s : g[s] = v[x] + g[s \ {x}]

\* A set of subsets of a finite set has a smallest member.
LEMMA SmallestSubset ==
  ASSUME NEW S, IsFiniteSet(S), NEW Bad, Bad \subseteq SUBSET S, Bad # {}
  PROVE  \E T \in Bad : \A U \in Bad : U \subseteq T => U = T
<1>1. IsWellFoundedOn(StrictSubsetOrdering(S), SUBSET S)
  BY FS_StrictSubsetOrderingWellFounded, FS_FiniteSubsetsOfFinite
<1>2. PICK T \in Bad : \A U \in Bad : <<U, T>> \notin StrictSubsetOrdering(S)
  BY <1>1, WFMin
<1> QED BY <1>2 DEF StrictSubsetOrdering

\* One step of a fold
LEMMA FoldAt ==
  ASSUME NEW S, NEW base, NEW step, NEW c, NEW g, Folds(g, S, base, step, c)
  PROVE  \A s \in SUBSET S : g[s] = IF s = {} THEN base ELSE step[<<c[s], g[s \ {c[s]}]>>]
BY DEF Folds

\* Folds over two sets agree on what is in both.
LEMMA FoldsAgree ==
  ASSUME NEW S, IsFiniteSet(S), NEW base, NEW step, NEW c, Chooses(c, S), NEW A \in SUBSET S,
         NEW B \in SUBSET S, NEW g, NEW h, Folds(g, A, base, step, c), Folds(h, B, base, step, c),
         NEW s, s \subseteq A, s \subseteq B
  PROVE  g[s] = h[s]
<1> DEFINE Bad == {t \in SUBSET (A \cap B) : g[t] # h[t]}
<1>1. SUFFICES ASSUME Bad # {} PROVE FALSE
  OBVIOUS
<1>2. Bad \subseteq SUBSET S
  OBVIOUS
<1>3. PICK T \in Bad : \A U \in Bad : U \subseteq T => U = T
  <2> HIDE DEF Bad
  <2> QED BY <1>1, <1>2, SmallestSubset
<1>4. T \in SUBSET A /\ T \in SUBSET B
  OBVIOUS
<1>5. /\ \A t \in SUBSET A : g[t] = IF t = {} THEN base ELSE step[<<c[t], g[t \ {c[t]}]>>]
      /\ \A t \in SUBSET B : h[t] = IF t = {} THEN base ELSE step[<<c[t], h[t \ {c[t]}]>>]
  BY FoldAt
<1>6. g[T] # h[T]
  OBVIOUS
<1>7. T # {}
  BY <1>4, <1>5, <1>6
<1>8. c[T] \in T
  BY <1>4, <1>7 DEF Chooses
<1>9. g[T \ {c[T]}] = h[T \ {c[T]}]
  BY <1>3, <1>4, <1>8
<1> HIDE DEF Bad
<1> QED BY <1>4, <1>5, <1>6, <1>7, <1>9

\* There is a fold over every finite set.
LEMMA FoldExists ==
  ASSUME NEW S, IsFiniteSet(S), NEW base, NEW step, NEW c, Chooses(c, S)
  PROVE  \E g : Folds(g, S, base, step, c)
<1> DEFINE Bad == {t \in SUBSET S : ~ \E g : Folds(g, t, base, step, c)}
<1>1. SUFFICES ASSUME Bad # {} PROVE FALSE
  OBVIOUS
<1>2. Bad \subseteq SUBSET S
  OBVIOUS
<1>3. PICK T \in Bad : \A U \in Bad : U \subseteq T => U = T
  <2> HIDE DEF Bad
  <2> QED BY <1>1, <1>2, SmallestSubset
\* the folds over the smaller sets, put together
<1> DEFINE Of(u) == CHOOSE g : Folds(g, u, base, step, c)
           Rest(s) == s \ {c[s]}
           g0 == [s \in SUBSET T |->
                    IF s = {} THEN base ELSE step[<<c[s], Of(Rest(s))[Rest(s)]>>]]
<1>4. ASSUME NEW u \in SUBSET T, u # T PROVE Folds(Of(u), u, base, step, c)
  <2>1. \E g : Folds(g, u, base, step, c)
    BY <1>3, <1>4
  <2> QED BY <2>1
<1>5. ASSUME NEW s \in SUBSET T, s # {}
      PROVE  Rest(s) \in SUBSET T /\ Rest(s) # T /\ Rest(s) \subseteq s
  BY <1>5 DEF Chooses
<1>6. ASSUME NEW s \in SUBSET T, s # {} PROVE g0[Rest(s)] = Of(Rest(s))[Rest(s)]
  <2> DEFINE r == Rest(s)
             q == Rest(r)
  <2>1. r \in SUBSET T /\ r # T /\ r \in SUBSET r
    BY <1>5, <1>6
  <2>2. Folds(Of(r), r, base, step, c)
    BY <2>1, <1>4
  <2>3. CASE r = {}
    <3>1. Of(r)[r] = base
      <4> HIDE DEF r, Of
      <4>1. \A t \in SUBSET r :
              Of(r)[t] = IF t = {} THEN base ELSE step[<<c[t], Of(r)[t \ {c[t]}]>>]
        BY <2>2, FoldAt
      <4> QED BY <2>1, <2>3, <4>1
    <3> QED BY <2>1, <2>3, <3>1
  <2>4. CASE r # {}
    <3>1. q \in SUBSET T /\ q # T /\ q \subseteq r
      <4> HIDE DEF r
      <4> QED BY <2>1, <2>4, <1>5
    <3>2. Folds(Of(q), q, base, step, c)
      BY <3>1, <1>4
    <3>3. Of(r)[q] = Of(q)[q]
      <4> HIDE DEF r, Of, q
      <4>1. r \in SUBSET S /\ q \in SUBSET S
        BY <2>1, <3>1
      <4> QED BY <4>1, <2>2, <3>2, <3>1, FoldsAgree
    <3>4. Of(r)[r] = step[<<c[r], Of(r)[q]>>]
      <4> HIDE DEF Of, r
      <4> QED BY <2>1, <2>2, <2>4, FoldAt
    <3>5. g0[r] = step[<<c[r], Of(q)[q]>>]
      <4> HIDE DEF Of, r
      <4> QED BY <2>1, <2>4
    <3> QED BY <3>3, <3>4, <3>5
  <2> QED BY <2>3, <2>4
<1>7. g0 = [s \in SUBSET T |-> IF s = {} THEN base ELSE step[<<c[s], g0[Rest(s)]>>]]
  <2> HIDE DEF Of, Rest
  <2> DEFINE g1 == [s \in SUBSET T |-> IF s = {} THEN base ELSE step[<<c[s], g0[Rest(s)]>>]]
  <2>1. \A s \in SUBSET T : g0[s] = g1[s]
    BY <1>6
  <2> QED BY <2>1
<1>8. Folds(g0, T, base, step, c)
  <2> HIDE DEF g0
  <2> QED BY <1>7 DEF Folds
<1> QED BY <1>3, <1>8

\* g folds op over the values of the subsets of S, in the order c gives.
FoldsBy(g, S, v, base, op, c) ==
  g = [s \in SUBSET S |-> IF s = {} THEN base ELSE op[<<v[c[s]], g[s \ {c[s]}]>>]]

\* g folds op over the subsets of S, whatever the order.
FoldsUp(g, S, v, base, op) ==
  /\ g \in [SUBSET S -> Nat] /\ g[{}] = base
  /\ \A s \in SUBSET S : \A x \in s : g[s] = op[<<v[x], g[s \ {x}]>>]

\* Operands of which either may come first
Swaps(op) ==
  /\ op \in [Nat \X Nat -> Nat]
  /\ \A a, b, n \in Nat : op[<<a, op[<<b, n>>]>>] = op[<<b, op[<<a, n>>]>>]

\* What such a fold computes does not depend on the order, and there is one.
LEMMA FoldInAnyOrder ==
  ASSUME NEW S, IsFiniteSet(S), NEW v, \A x \in S : v[x] \in Nat, NEW base \in Nat,
         NEW op, Swaps(op), NEW c, Chooses(c, S)
  PROVE  /\ \E g : FoldsBy(g, S, v, base, op, c)
         /\ \A g : FoldsBy(g, S, v, base, op, c) => FoldsUp(g, S, v, base, op)
<1> DEFINE Fold(g) == FoldsBy(g, S, v, base, op, c)
           step == [p \in S \X Nat |-> op[<<v[p[1]], p[2]>>]]
<1>1. ASSUME NEW s \in SUBSET S, s # {} PROVE c[s] \in s /\ c[s] \in S /\ s \ {c[s]} \in SUBSET S
  BY <1>1 DEF Chooses
<1>2. \A a, n \in Nat : op[<<a, n>>] \in Nat
  BY DEF Swaps
\* a function that satisfies one step of either form at each set has natural numbers as values
<1>3. ASSUME NEW g, \A s \in SUBSET S : g[s] =
               IF s = {} THEN base ELSE step[<<c[s], g[s \ {c[s]}]>>]
      PROVE  \A s \in SUBSET S : g[s] \in Nat
  <2> DEFINE NoNumber == {s \in SUBSET S : g[s] \notin Nat}
  <2>1. SUFFICES ASSUME NoNumber # {} PROVE FALSE
    OBVIOUS
  <2>2. PICK T \in NoNumber : \A U \in NoNumber : U \subseteq T => U = T
    <3>1. NoNumber \subseteq SUBSET S
      OBVIOUS
    <3> HIDE DEF NoNumber
    <3> QED BY <2>1, <3>1, SmallestSubset
  <2>3. T # {} /\ T \in SUBSET S
    <3>1. T \in SUBSET S /\ g[T] \notin Nat /\ g[{}] = base
      BY <1>3
    <3> QED BY <3>1
  <2>4. T \ {c[T]} \notin NoNumber
    BY <1>1, <2>2, <2>3
  <2>5. g[T \ {c[T]}] \in Nat /\ c[T] \in S
    BY <1>1, <2>3, <2>4
  <2>6. g[T] = op[<<v[c[T]], g[T \ {c[T]}]>>] /\ v[c[T]] \in Nat
    BY <1>3, <2>3, <2>5
  <2> QED BY <1>2, <2>5, <2>6
<1>4. \E g : Fold(g)
  <2>1. PICK g : Folds(g, S, base, step, c)
    <3> HIDE DEF step
    <3> QED BY FoldExists
  <2>2. \A s \in SUBSET S : g[s] = IF s = {} THEN base ELSE step[<<c[s], g[s \ {c[s]}]>>]
    <3> HIDE DEF step
    <3> QED BY <2>1, FoldAt
  <2>3. \A s \in SUBSET S : g[s] \in Nat
    BY <1>3, <2>2
  <2>4. \A s \in SUBSET S : g[s] = IF s = {} THEN base ELSE op[<<v[c[s]], g[s \ {c[s]}]>>]
    BY <1>1, <2>2, <2>3
  <2>5. g = [s \in SUBSET S |-> g[s]]
    BY <2>1 DEF Folds
  <2> QED BY <2>4, <2>5 DEF FoldsBy
<1>5. ASSUME NEW g, Fold(g) PROVE FoldsUp(g, S, v, base, op)
  <2>1. \A s \in SUBSET S : g[s] = IF s = {} THEN base ELSE op[<<v[c[s]], g[s \ {c[s]}]>>]
    BY <1>5 DEF FoldsBy
  <2>2. \A s \in SUBSET S : g[s] \in Nat
    <3> DEFINE NoNumber == {s \in SUBSET S : g[s] \notin Nat}
    <3>1. SUFFICES ASSUME NoNumber # {} PROVE FALSE
      OBVIOUS
    <3>2. PICK T \in NoNumber : \A U \in NoNumber : U \subseteq T => U = T
      <4>1. NoNumber \subseteq SUBSET S
        OBVIOUS
      <4> HIDE DEF NoNumber
      <4> QED BY <3>1, <4>1, SmallestSubset
    <3>3. T # {} /\ T \in SUBSET S
      BY <2>1
    <3>4. g[T \ {c[T]}] \in Nat /\ c[T] \in S
      BY <1>1, <3>2, <3>3
    <3>5. v[c[T]] \in Nat /\ g[T] = op[<<v[c[T]], g[T \ {c[T]}]>>]
      BY <2>1, <3>3, <3>4
    <3>6. g[T] \notin Nat
      OBVIOUS
    <3> QED BY <1>2, <3>4, <3>5, <3>6
  <2>3. ASSUME NEW U \in SUBSET S, NEW y \in U, g[U] # op[<<v[y], g[U \ {y}]>>] PROVE FALSE
    <3> DEFINE Bad == {s \in SUBSET S : \E x \in s : g[s] # op[<<v[x], g[s \ {x}]>>]}
    <3>1. PICK T \in Bad : \A V \in Bad : V \subseteq T => V = T
      <4>1. Bad \subseteq SUBSET S /\ Bad # {}
        BY <2>3
      <4> HIDE DEF Bad
      <4> QED BY <4>1, SmallestSubset
    <3>2. PICK x \in T : g[T] # op[<<v[x], g[T \ {x}]>>]
      OBVIOUS
    <3> DEFINE z == c[T]
    <3>3. T \in SUBSET S /\ z \in T /\ g[T] = op[<<v[z], g[T \ {z}]>>] /\ z # x
      BY <1>1, <2>1, <3>2
    <3>4. g[T \ {z}] = op[<<v[x], g[(T \ {z}) \ {x}]>>]
      <4>1. T \ {z} \in SUBSET S /\ T \ {z} \subseteq T /\ T \ {z} # T /\ x \in T \ {z}
        BY <3>2, <3>3
      <4>2. T \ {z} \notin Bad
        BY <3>1, <4>1
      <4> QED BY <4>1, <4>2
    <3>5. g[T \ {x}] = op[<<v[z], g[(T \ {x}) \ {z}]>>]
      <4>1. T \ {x} \in SUBSET S /\ T \ {x} \subseteq T /\ T \ {x} # T /\ z \in T \ {x}
        BY <3>2, <3>3
      <4>2. T \ {x} \notin Bad
        BY <3>1, <4>1
      <4> QED BY <4>1, <4>2
    <3>6. (T \ {x}) \ {z} = (T \ {z}) \ {x}
      OBVIOUS
    <3>7. v[x] \in Nat /\ v[z] \in Nat /\ g[(T \ {x}) \ {z}] \in Nat
      BY <2>2, <3>2, <3>3
    <3>8. op[<<v[z], op[<<v[x], g[(T \ {x}) \ {z}]>>]>>]
            = op[<<v[x], op[<<v[z], g[(T \ {x}) \ {z}]>>]>>]
      BY <3>7 DEF Swaps
    <3> HIDE DEF Bad, z
    <3> QED BY <3>2, <3>3, <3>4, <3>5, <3>6, <3>8
  <2>4. g = [s \in SUBSET S |-> g[s]] /\ g[{}] = base
    BY <1>5, <2>1 DEF FoldsBy
  <2> QED BY <2>2, <2>3, <2>4 DEF FoldsUp
<1> QED BY <1>4, <1>5

\* A fold that adds
LEMMA FoldAdds ==
  ASSUME NEW S, IsFiniteSet(S), NEW v, \A x \in S : v[x] \in Nat, NEW c, Chooses(c, S)
  PROVE  LET Fold(g) == g = [s \in SUBSET S |-> IF s = {} THEN 0 ELSE v[c[s]] + g[s \ {c[s]}]]
         IN  (\E g : Fold(g)) /\ \A g : Fold(g) => AddsUp(g, S, v)
<1> DEFINE Fold(g) == g = [s \in SUBSET S |-> IF s = {} THEN 0 ELSE v[c[s]] + g[s \ {c[s]}]]
           plus == [p \in Nat \X Nat |-> p[1] + p[2]]
           Same(g) == FoldsBy(g, S, v, 0, plus, c)
<1>1. Swaps(plus) /\ \A a, b \in Nat : plus[<<a, b>>] = a + b
  <2>1. \A a, b \in Nat : plus[<<a, b>>] = a + b /\ a + b \in Nat
    OBVIOUS
  <2>2. \A a, b, n \in Nat : a + (b + n) = b + (a + n)
    OBVIOUS
  <2>3. plus \in [Nat \X Nat -> Nat]
    OBVIOUS
  <2> HIDE DEF plus
  <2> QED BY <2>1, <2>2, <2>3 DEF Swaps
<1>2. ASSUME NEW s \in SUBSET S, s # {}
      PROVE  c[s] \in s /\ v[c[s]] \in Nat /\ s \ {c[s]} \in SUBSET S
  BY <1>2 DEF Chooses
<1> HIDE DEF plus
<1>3. (\E g : Same(g)) /\ \A g : Same(g) => FoldsUp(g, S, v, 0, plus)
  <2>1. Swaps(plus) /\ 0 \in Nat
    BY <1>1
  <2> QED BY <2>1, FoldInAnyOrder
<1>4. ASSUME NEW g, \A s \in SUBSET S : g[s] \in Nat PROVE Same(g) <=> Fold(g)
  BY <1>1, <1>2, <1>4 DEF FoldsBy
<1>5. ASSUME NEW g, Same(g) PROVE AddsUp(g, S, v) /\ Fold(g)
  <2> HIDE DEF Same, Fold
  <2>1. FoldsUp(g, S, v, 0, plus)
    BY <1>3, <1>5
  <2>2. \A s \in SUBSET S : g[s] \in Nat
    BY <2>1 DEF FoldsUp
  <2>3. ASSUME NEW s \in SUBSET S, NEW x \in s PROVE g[s] = v[x] + g[s \ {x}]
    <3>1. g[s] = plus[<<v[x], g[s \ {x}]>>]
      BY <2>1 DEF FoldsUp
    <3>2. v[x] \in Nat /\ g[s \ {x}] \in Nat
      BY <2>2
    <3> QED BY <1>1, <3>1, <3>2
  <2> QED BY <1>4, <1>5, <2>1, <2>2, <2>3 DEF FoldsUp, AddsUp
<1>6. ASSUME NEW g, Fold(g) PROVE Same(g)
  <2> DEFINE NoNumber == {s \in SUBSET S : g[s] \notin Nat}
  <2>1. \A s \in SUBSET S : g[s] = IF s = {} THEN 0 ELSE v[c[s]] + g[s \ {c[s]}]
    BY <1>6
  <2>2. ASSUME NoNumber # {} PROVE FALSE
    <3>1. PICK T \in NoNumber : \A U \in NoNumber : U \subseteq T => U = T
      <4>1. NoNumber \subseteq SUBSET S
        OBVIOUS
      <4> HIDE DEF NoNumber
      <4> QED BY <2>2, <4>1, SmallestSubset
    <3>2. T \in SUBSET S /\ T # {} /\ g[T] \notin Nat
      BY <2>1
    <3>3. g[T] = v[c[T]] + g[T \ {c[T]}]
      BY <2>1, <3>2
    <3>4. g[T \ {c[T]}] \in Nat /\ v[c[T]] \in Nat
      BY <1>2, <3>1, <3>2
    <3> QED BY <3>2, <3>3, <3>4
  <2>3. \A s \in SUBSET S : g[s] \in Nat
    BY <2>2
  <2> HIDE DEF Same, Fold
  <2> QED BY <1>4, <1>6, <2>3
<1> HIDE DEF Same
<1>7. (\E g : Fold(g)) /\ \A g : Fold(g) => AddsUp(g, S, v)
  <2> HIDE DEF Fold
  <2> QED BY <1>3, <1>5, <1>6
<1> QED BY <1>7

-----------------------------------------------------------------------------
(* Sums                                                                     *)

SumOver(v, S) == MapThenSumSet(LAMBDA x : v[x], S)

\* Two functions that add up the same values agree.
LEMMA AddsUpAgree ==
  ASSUME NEW S, IsFiniteSet(S), NEW A, NEW B, S \subseteq A, S \subseteq B, NEW v, NEW w,
         NEW g, NEW h, AddsUp(g, A, v), AddsUp(h, B, w), \A x \in S : v[x] = w[x]
  PROVE  g[S] = h[S]
<1> DEFINE Bad == {t \in SUBSET S : g[t] # h[t]}
<1>1. SUFFICES ASSUME Bad # {} PROVE FALSE
  OBVIOUS
<1>2. PICK T \in Bad : \A U \in Bad : U \subseteq T => U = T
  <2>1. Bad \subseteq SUBSET S
    OBVIOUS
  <2> HIDE DEF Bad
  <2> QED BY <1>1, <2>1, SmallestSubset
<1>3. T \in SUBSET A /\ T \in SUBSET B /\ T \in SUBSET S /\ g[T] # h[T]
  OBVIOUS
<1>4. PICK x \in T : TRUE
  BY <1>3 DEF AddsUp
<1>5. g[T] = v[x] + g[T \ {x}] /\ h[T] = w[x] + h[T \ {x}] /\ v[x] = w[x]
  BY <1>3 DEF AddsUp
<1>6. T \ {x} \in SUBSET S /\ T \ {x} # T
  BY <1>3
<1>7. g[T \ {x}] = h[T \ {x}]
  BY <1>2, <1>6
<1> HIDE DEF Bad
<1> QED BY <1>3, <1>5, <1>7

\* A sum of the community modules adds up.
LEMMA SumAddsUp ==
  ASSUME NEW S, IsFiniteSet(S), NEW v, \A x \in S : v[x] \in Nat
  PROVE  \E g : AddsUp(g, S, v) /\ SumOver(v, S) = g[S]
<1> DEFINE c == [s \in SUBSET S |-> CHOOSE x \in s : TRUE]
           Fold(g) == g = [s \in SUBSET S |-> IF s = {} THEN 0 ELSE v[c[s]] + g[s \ {c[s]}]]
           Term(g) == g = [s \in SUBSET S |-> IF s = {} THEN 0
                             ELSE v[CHOOSE x \in s : TRUE] + g[s \ {CHOOSE x \in s : TRUE}]]
           h == CHOOSE g : Term(g)
<1>1. Chooses(c, S)
  BY DEF Chooses
<1>2. (\E g : Fold(g)) /\ \A g : Fold(g) => AddsUp(g, S, v)
  <2> HIDE DEF c
  <2> QED BY <1>1, FoldAdds
<1>3. ASSUME NEW g PROVE Fold(g) <=> Term(g)
  <2>1. \A s \in SUBSET S : c[s] = CHOOSE x \in s : TRUE
    OBVIOUS
  <2> HIDE DEF c
  <2> QED BY <2>1
<1>4. Term(h)
  <2> HIDE DEF Term, Fold
  <2> QED BY <1>2, <1>3
<1>5. SumOver(v, S) = h[S]
  BY DEF SumOver, MapThenSumSet, MapThenFoldSet
<1>6. AddsUp(h, S, v)
  <2> HIDE DEF Term, Fold, h
  <2> QED BY <1>2, <1>3, <1>4
<1> QED BY <1>5, <1>6

\* A sum does not depend on which terms are taken out first.
LEMMA FoldIsSum ==
  ASSUME NEW S, IsFiniteSet(S), NEW v, \A x \in S : v[x] \in Nat, NEW c, Chooses(c, S)
  PROVE  LET Fold(g) == g = [s \in SUBSET S |-> IF s = {} THEN 0 ELSE v[c[s]] + g[s \ {c[s]}]]
         IN  (\E g : Fold(g)) /\ \A g : Fold(g) => g[S] = SumOver(v, S)
<1> DEFINE Fold(g) == g = [s \in SUBSET S |-> IF s = {} THEN 0 ELSE v[c[s]] + g[s \ {c[s]}]]
<1>1. (\E g : Fold(g)) /\ \A g : Fold(g) => AddsUp(g, S, v)
  BY FoldAdds
<1>2. PICK h : AddsUp(h, S, v) /\ SumOver(v, S) = h[S]
  BY SumAddsUp
<1>3. \A g : AddsUp(g, S, v) => g[S] = h[S]
  BY <1>2, AddsUpAgree
<1> HIDE DEF Fold
<1>4. (\E g : Fold(g)) /\ \A g : Fold(g) => g[S] = SumOver(v, S)
  BY <1>1, <1>2, <1>3
<1> QED BY <1>4 DEF Fold

\* What a sum of the community modules is the value of
SumFold(g, S, v) ==
  g = [s \in SUBSET S |-> IF s = {} THEN 0
                          ELSE v[CHOOSE x \in s : TRUE] + g[s \ {CHOOSE x \in s : TRUE}]]

LEMMA SumIsFold ==
  ASSUME NEW S, IsFiniteSet(S), NEW v, \A x \in S : v[x] \in Nat
  PROVE  (\E g : SumFold(g, S, v)) /\ \A g : SumFold(g, S, v) => g[S] = SumOver(v, S)
<1> DEFINE c == [s \in SUBSET S |-> CHOOSE x \in s : TRUE]
           Fold(g) == g = [s \in SUBSET S |-> IF s = {} THEN 0 ELSE v[c[s]] + g[s \ {c[s]}]]
<1>1. Chooses(c, S)
  BY DEF Chooses
<1>2. ASSUME NEW g PROVE Fold(g) <=> SumFold(g, S, v)
  <2>1. \A s \in SUBSET S : c[s] = CHOOSE x \in s : TRUE
    OBVIOUS
  <2> HIDE DEF c
  <2> QED BY <2>1 DEF SumFold
<1> HIDE DEF c
<1>3. (\E g : Fold(g)) /\ \A g : Fold(g) => g[S] = SumOver(v, S)
  BY <1>1, FoldIsSum
<1> HIDE DEF Fold
<1> QED BY <1>2, <1>3

\* A sum is a number, nothing for the empty set, and any term can be taken out of it.
LEMMA SumFacts ==
  ASSUME NEW S, IsFiniteSet(S), NEW v, \A x \in S : v[x] \in Nat
  PROVE  /\ SumOver(v, S) \in Nat /\ (S = {} => SumOver(v, S) = 0)
         /\ \A x \in S : SumOver(v, S) = v[x] + SumOver(v, S \ {x})
<1>1. PICK g : AddsUp(g, S, v) /\ SumOver(v, S) = g[S]
  BY SumAddsUp
<1>2. ASSUME NEW x \in S PROVE SumOver(v, S \ {x}) = g[S \ {x}]
  <2>1. IsFiniteSet(S \ {x}) /\ S \ {x} \subseteq S /\ \A y \in S \ {x} : v[y] \in Nat
    BY FS_RemoveElement
  <2>2. PICK h : AddsUp(h, S \ {x}, v) /\ SumOver(v, S \ {x}) = h[S \ {x}]
    BY <2>1, SumAddsUp
  <2> QED BY <1>1, <2>1, <2>2, AddsUpAgree
<1>3. g[S] \in Nat /\ g[{}] = 0 /\ \A x \in S : g[S] = v[x] + g[S \ {x}]
  BY <1>1 DEF AddsUp
<1> QED BY <1>1, <1>2, <1>3

\* Sums of the same terms are the same.
LEMMA SumSame ==
  ASSUME NEW S, IsFiniteSet(S), NEW v, NEW w, \A x \in S : v[x] \in Nat /\ v[x] = w[x]
  PROVE  SumOver(v, S) = SumOver(w, S)
<1>1. PICK g : AddsUp(g, S, v) /\ SumOver(v, S) = g[S]
  BY SumAddsUp
<1>2. PICK h : AddsUp(h, S, w) /\ SumOver(w, S) = h[S]
  BY SumAddsUp
<1> QED BY <1>1, <1>2, AddsUpAgree

\* A new term is added to a sum.
LEMMA SumAdd ==
  ASSUME NEW S, IsFiniteSet(S), NEW x, x \notin S, NEW v, \A y \in S \cup {x} : v[y] \in Nat
  PROVE  SumOver(v, S \cup {x}) = v[x] + SumOver(v, S)
<1>1. IsFiniteSet(S \cup {x}) /\ x \in S \cup {x} /\ (S \cup {x}) \ {x} = S
  BY FS_AddElement
<1> QED BY <1>1, SumFacts

\* A sum may be taken over what stands for its terms, one for one.
LEMMA SumRenamed ==
  ASSUME NEW S, IsFiniteSet(S), NEW T, NEW p \in Bijection(S, T), NEW v, NEW w,
         \A x \in T : v[x] \in Nat, \A x \in S : w[x] = v[p[x]]
  PROVE  SumOver(w, S) = SumOver(v, T)
<1> DEFINE Image(U) == {p[x] : x \in U}
           Bad == {U \in SUBSET S : SumOver(w, U) # SumOver(v, Image(U))}
<1>1. /\ \A x \in S : p[x] \in T
      /\ \A x, y \in S : p[x] = p[y] => x = y
      /\ \A t \in T : \E x \in S : p[x] = t
  BY DEF Bijection, Injection, Surjection, IsInjective
<1>2. Image(S) = T
  BY <1>1
<1>3. ASSUME Bad # {} PROVE FALSE
  <2>1. PICK U \in Bad : \A W \in Bad : W \subseteq U => W = U
    <3>1. Bad \subseteq SUBSET S
      OBVIOUS
    <3> HIDE DEF Bad
    <3> QED BY <1>3, <3>1, SmallestSubset
  <2>2. U \in SUBSET S /\ IsFiniteSet(U) /\ SumOver(w, U) # SumOver(v, Image(U))
    BY FS_Subset
  <2>3. IsFiniteSet(Image(U)) /\ \A x \in Image(U) : v[x] \in Nat
    <3>1. [x \in U |-> p[x]] \in Surjection(U, Image(U))
      <4> HIDE DEF Bad
      <4> QED BY DEF Surjection
    <3>2. IsFiniteSet(Image(U))
      <4> HIDE DEF Image, Bad
      <4> QED BY <2>2, <3>1, FS_Surjection
    <3> QED BY <1>1, <2>2, <3>2
  <2>4. \A x \in U : w[x] \in Nat
    BY <1>1, <2>2
  <2>5. U # {}
    <3>1. U = {} => Image(U) = {}
      OBVIOUS
    <3> HIDE DEF Image, Bad
    <3> QED BY <2>2, <2>3, <2>4, <3>1, SumFacts
  <2>6. PICK x \in U : TRUE
    BY <2>5
  <2>7. U \ {x} \in SUBSET S /\ U \ {x} \subseteq U /\ U \ {x} # U
    BY <2>2
  <2>8. SumOver(w, U \ {x}) = SumOver(v, Image(U \ {x}))
    BY <2>1, <2>7
  <2>9. p[x] \in Image(U) /\ Image(U) \ {p[x]} = Image(U \ {x})
    BY <1>1, <2>2
  <2> HIDE DEF Image, Bad
  <2>10. SumOver(w, U) = w[x] + SumOver(w, U \ {x})
    BY <2>2, <2>4, SumFacts
  <2>11. SumOver(v, Image(U)) = v[p[x]] + SumOver(v, Image(U) \ {p[x]})
    BY <2>3, <2>9, SumFacts
  <2>12. w[x] = v[p[x]]
    BY <2>2
  <2> QED BY <2>2, <2>8, <2>9, <2>10, <2>11, <2>12
<1>4. S \notin Bad
  BY <1>3
<1> QED BY <1>2, <1>4

\* A factor that bounds every term bounds the sum.
LEMMA SumBound ==
  ASSUME NEW S, IsFiniteSet(S), NEW v, NEW w, NEW k \in Nat,
         \A x \in S : v[x] \in Nat /\ w[x] \in Nat /\ v[x] <= k * w[x]
  PROVE  SumOver(v, S) <= k * SumOver(w, S)
<1> DEFINE Bad == {t \in SUBSET S : ~(SumOver(v, t) <= k * SumOver(w, t))}
<1>1. SUFFICES ASSUME Bad # {} PROVE FALSE
  OBVIOUS
<1>2. PICK T \in Bad : \A U \in Bad : U \subseteq T => U = T
  <2>1. Bad \subseteq SUBSET S
    OBVIOUS
  <2> HIDE DEF Bad
  <2> QED BY <1>1, <2>1, SmallestSubset
<1>3. T \in SUBSET S /\ ~(SumOver(v, T) <= k * SumOver(w, T)) /\ IsFiniteSet(T)
  BY FS_Subset
<1>4. /\ SumOver(v, T) \in Nat /\ SumOver(w, T) \in Nat
      /\ (T = {} => SumOver(v, T) = 0 /\ SumOver(w, T) = 0)
  BY <1>3, SumFacts
<1>5. T # {}
  BY <1>3, <1>4
<1>6. PICK x \in T : TRUE
  BY <1>5
<1> DEFINE R == T \ {x}
<1>7. R \in SUBSET S /\ R # T /\ R \subseteq T /\ IsFiniteSet(R)
  BY <1>3, FS_RemoveElement
<1>8. SumOver(v, R) <= k * SumOver(w, R)
  BY <1>2, <1>7
<1> HIDE DEF Bad
<1>9. SumOver(v, T) = v[x] + SumOver(v, R) /\ SumOver(w, T) = w[x] + SumOver(w, R)
  BY <1>3, SumFacts
<1>10. /\ SumOver(v, R) \in Nat /\ SumOver(w, R) \in Nat
       /\ v[x] \in Nat /\ w[x] \in Nat /\ v[x] <= k * w[x]
  BY <1>3, <1>7, SumFacts
<1> HIDE DEF R
<1>11. /\ k * (w[x] + SumOver(w, R)) = k * w[x] + k * SumOver(w, R)
       /\ k * w[x] \in Nat /\ k * SumOver(w, R) \in Nat
  BY <1>10
<1> QED BY <1>3, <1>8, <1>9, <1>10, <1>11

-----------------------------------------------------------------------------
(* Products                                                                 *)

\* g multiplies v over the subsets of S.
MultipliesUp(g, S, v) ==
  /\ g \in [SUBSET S -> Nat] /\ g[{}] = 1
  /\ \A s \in SUBSET S : \A x \in s : g[s] = v[x] * g[s \ {x}]

\* A fold that multiplies
LEMMA FoldMultiplies ==
  ASSUME NEW S, IsFiniteSet(S), NEW v, \A x \in S : v[x] \in Nat, NEW c, Chooses(c, S)
  PROVE  LET Fold(g) == g = [s \in SUBSET S |-> IF s = {} THEN 1 ELSE v[c[s]] * g[s \ {c[s]}]]
         IN  (\E g : Fold(g)) /\ \A g : Fold(g) => MultipliesUp(g, S, v)
<1> DEFINE Fold(g) == g = [s \in SUBSET S |-> IF s = {} THEN 1 ELSE v[c[s]] * g[s \ {c[s]}]]
           times == [p \in Nat \X Nat |-> p[1] * p[2]]
           Same(g) == FoldsBy(g, S, v, 1, times, c)
<1>1. Swaps(times) /\ \A a, b \in Nat : times[<<a, b>>] = a * b
  <2>1. \A a, b \in Nat : times[<<a, b>>] = a * b /\ a * b \in Nat
    OBVIOUS
  <2>2. \A a, b, n \in Nat : a * (b * n) = b * (a * n)
    OBVIOUS
  <2>3. times \in [Nat \X Nat -> Nat]
    OBVIOUS
  <2> HIDE DEF times
  <2> QED BY <2>1, <2>2, <2>3 DEF Swaps
<1>2. ASSUME NEW s \in SUBSET S, s # {}
      PROVE  c[s] \in s /\ v[c[s]] \in Nat /\ s \ {c[s]} \in SUBSET S
  BY <1>2 DEF Chooses
<1> HIDE DEF times
<1>3. (\E g : Same(g)) /\ \A g : Same(g) => FoldsUp(g, S, v, 1, times)
  <2>1. Swaps(times) /\ 1 \in Nat
    BY <1>1
  <2> QED BY <2>1, FoldInAnyOrder
<1>4. ASSUME NEW g, \A s \in SUBSET S : g[s] \in Nat PROVE Same(g) <=> Fold(g)
  BY <1>1, <1>2, <1>4 DEF FoldsBy
<1>5. ASSUME NEW g, Same(g) PROVE MultipliesUp(g, S, v) /\ Fold(g)
  <2> HIDE DEF Same, Fold
  <2>1. FoldsUp(g, S, v, 1, times)
    BY <1>3, <1>5
  <2>2. \A s \in SUBSET S : g[s] \in Nat
    BY <2>1 DEF FoldsUp
  <2>3. ASSUME NEW s \in SUBSET S, NEW x \in s PROVE g[s] = v[x] * g[s \ {x}]
    <3>1. g[s] = times[<<v[x], g[s \ {x}]>>]
      BY <2>1 DEF FoldsUp
    <3>2. v[x] \in Nat /\ g[s \ {x}] \in Nat
      BY <2>2
    <3> QED BY <1>1, <3>1, <3>2
  <2> QED BY <1>4, <1>5, <2>1, <2>2, <2>3 DEF FoldsUp, MultipliesUp
<1>6. ASSUME NEW g, Fold(g) PROVE Same(g)
  <2> DEFINE NoNumber == {s \in SUBSET S : g[s] \notin Nat}
  <2>1. \A s \in SUBSET S : g[s] = IF s = {} THEN 1 ELSE v[c[s]] * g[s \ {c[s]}]
    BY <1>6
  <2>2. ASSUME NoNumber # {} PROVE FALSE
    <3>1. PICK T \in NoNumber : \A U \in NoNumber : U \subseteq T => U = T
      <4>1. NoNumber \subseteq SUBSET S
        OBVIOUS
      <4> HIDE DEF NoNumber
      <4> QED BY <2>2, <4>1, SmallestSubset
    <3>2. T \in SUBSET S /\ T # {} /\ g[T] \notin Nat
      BY <2>1
    <3>3. g[T] = v[c[T]] * g[T \ {c[T]}]
      BY <2>1, <3>2
    <3>4. g[T \ {c[T]}] \in Nat /\ v[c[T]] \in Nat
      BY <1>2, <3>1, <3>2
    <3> QED BY <3>2, <3>3, <3>4
  <2>3. \A s \in SUBSET S : g[s] \in Nat
    BY <2>2
  <2> HIDE DEF Same, Fold
  <2> QED BY <1>4, <1>6, <2>3
<1> HIDE DEF Same
<1>7. (\E g : Fold(g)) /\ \A g : Fold(g) => MultipliesUp(g, S, v)
  <2> HIDE DEF Fold
  <2> QED BY <1>3, <1>5, <1>6
<1> QED BY <1>7

\* Two functions that multiply the same values agree.
LEMMA MultipliesUpAgree ==
  ASSUME NEW S, IsFiniteSet(S), NEW A, NEW B, S \subseteq A, S \subseteq B, NEW v,
         NEW g, NEW h, MultipliesUp(g, A, v), MultipliesUp(h, B, v)
  PROVE  g[S] = h[S]
<1> DEFINE Bad == {t \in SUBSET S : g[t] # h[t]}
<1>1. SUFFICES ASSUME Bad # {} PROVE FALSE
  OBVIOUS
<1>2. PICK T \in Bad : \A U \in Bad : U \subseteq T => U = T
  <2>1. Bad \subseteq SUBSET S
    OBVIOUS
  <2> HIDE DEF Bad
  <2> QED BY <1>1, <2>1, SmallestSubset
<1>3. T \in SUBSET A /\ T \in SUBSET B /\ T \in SUBSET S /\ g[T] # h[T]
  OBVIOUS
<1>4. PICK x \in T : TRUE
  BY <1>3 DEF MultipliesUp
<1>5. g[T] = v[x] * g[T \ {x}] /\ h[T] = v[x] * h[T \ {x}]
  BY <1>3 DEF MultipliesUp
<1>6. T \ {x} \in SUBSET S /\ T \ {x} # T
  BY <1>3
<1>7. g[T \ {x}] = h[T \ {x}]
  BY <1>2, <1>6
<1> HIDE DEF Bad
<1> QED BY <1>3, <1>5, <1>7

-----------------------------------------------------------------------------
(* Arithmetic                                                               *)

\* A product grows with its factors.
LEMMA Multiplied ==
  ASSUME NEW a \in Nat, NEW b \in Nat, a <= b, NEW k \in Nat
  PROVE  k * a <= k * b /\ k * a \in Nat /\ a * k <= b * k /\ a * k \in Nat
<1>1. b - a \in Nat /\ k * (b - a) \in Nat /\ k * (b - a) = k * b - k * a
  OBVIOUS
<1> QED BY <1>1

\* Division keeps the order of its dividends.
LEMMA Divided ==
  ASSUME NEW a \in Nat, NEW b \in Nat, a <= b, NEW n \in Nat \ {0}
  PROVE  a \div n <= b \div n /\ a \div n \in Nat
<1>1. \A x \in Nat : x \div n \in Nat /\ n * (x \div n) <= x /\ x < n * (x \div n) + n
  OBVIOUS
<1>2. SUFFICES ASSUME b \div n < a \div n PROVE FALSE
  BY <1>1
<1> DEFINE p == a \div n
           q == b \div n
<1>3. p \in Nat /\ q \in Nat /\ n * p <= a /\ b < n * q + n
  BY <1>1
<1>4. p - (q + 1) \in Nat
  BY <1>2, <1>3
<1> HIDE DEF p, q
<1>5. n * (p - (q + 1)) >= 0 /\ n * (p - (q + 1)) = n * p - (n * q + n)
  BY <1>3, <1>4
<1> QED BY <1>3, <1>5

\* A quotient and a remainder are the only ones.
LEMMA Quotient ==
  ASSUME NEW q \in Nat, NEW n \in Nat \ {0}, NEW r \in 0 .. n - 1
  PROVE  (q * n + r) \div n = q /\ (q * n + r) % n = r
<1> DEFINE a == q * n + r
           p == a \div n
           s == a % n
<1>1. a \in Nat /\ p \in Nat /\ s \in 0 .. n - 1 /\ a = n * p + s
  <2>1. q * n \in Nat
    OBVIOUS
  <2>2. \A x \in Nat : x \div n \in Nat /\ x % n \in 0 .. n - 1 /\ x = n * (x \div n) + (x % n)
    OBVIOUS
  <2>3. a \in Nat
    BY <2>1
  <2> HIDE DEF a
  <2> QED BY <2>2, <2>3
<1>2. q * n = n * q /\ n * q \in Nat /\ a = n * q + r
  OBVIOUS
<1> HIDE DEF a, p, s
<1>3. ASSUME NEW x \in Nat, NEW y \in Nat, x < y PROVE n * x + n <= n * y
  <2>1. n * (x + 1) <= n * y
    BY <1>3, Multiplied
  <2>2. n * (x + 1) = n * x + n
    OBVIOUS
  <2> QED BY <2>1, <2>2
<1>4. p = q
  <2>1. n * p \in Nat /\ r \in Nat /\ s \in Nat /\ r < n /\ s < n
    BY <1>1
  <2>2. ~(n * p + n <= n * q) /\ ~(n * q + n <= n * p)
    BY <1>1, <1>2, <2>1
  <2> QED BY <1>1, <1>3, <2>2
<1>5. s = r
  BY <1>1, <1>2, <1>4
<1> QED BY <1>4, <1>5 DEF p, s, a

\* A multiple of the divisor is added to the quotient, and changes no remainder.
LEMMA Shifted ==
  ASSUME NEW k \in Nat, NEW n \in Nat \ {0}, NEW m \in Nat
  PROVE  (k * n + m) \div n = k + m \div n /\ (k * n + m) % n = m % n
<1> DEFINE p == m \div n
           s == m % n
<1>1. p \in Nat /\ s \in 0 .. n - 1 /\ m = n * p + s
  OBVIOUS
<1> HIDE DEF p, s
<1>2. k * n + m = (k + p) * n + s
  <2>1. (k + p) * n = k * n + n * p /\ k * n \in Nat /\ n * p \in Nat
    BY <1>1
  <2> QED BY <1>1, <2>1
<1>3. k + p \in Nat
  BY <1>1
<1>4. ((k + p) * n + s) \div n = k + p /\ ((k + p) * n + s) % n = s
  BY <1>1, <1>3, Quotient
<1> QED BY <1>2, <1>4 DEF p, s

-----------------------------------------------------------------------------
(* Greatest and least elements                                              *)

\* Of sets that the elements of a finite set stand for, one is smallest.
LEMMA SmallestImage ==
  ASSUME NEW S, IsFiniteSet(S), S # {}, NEW F \in [S -> SUBSET S]
  PROVE  \E m \in S : \A k \in S : F[k] \subseteq F[m] => F[k] = F[m]
<1> DEFINE Images == {F[b] : b \in S}
<1>1. Images \subseteq SUBSET S /\ Images # {}
  OBVIOUS
<1>2. PICK T \in Images : \A U \in Images : U \subseteq T => U = T
  <2> HIDE DEF Images
  <2> QED BY <1>1, SmallestSubset
<1> QED BY <1>2

\* A finite set of integers has a greatest element.
LEMMA MaxFacts ==
  ASSUME NEW S, IsFiniteSet(S), S # {}, \A x \in S : x \in Int
  PROVE  Max(S) \in S /\ \A y \in S : Max(S) >= y
<1> DEFINE F == [b \in S |-> {y \in S : y > b}]
<1>1. F \in [S -> SUBSET S]
  OBVIOUS
<1>2. PICK m \in S : \A k \in S : F[k] \subseteq F[m] => F[k] = F[m]
  <2> HIDE DEF F
  <2> QED BY <1>1, SmallestImage
<1>3. \A y, k \in S : y \in F[k] <=> y > k
  OBVIOUS
<1> HIDE DEF F
<1>4. ASSUME NEW y \in S, y > m PROVE FALSE
  <2>1. \A x \in S : x > y => x > m
    BY <1>4
  <2>2. F[y] \subseteq F[m]
    BY <1>1, <1>3, <2>1
  <2>3. ~(y > y)
    BY <1>4
  <2> QED BY <1>2, <1>3, <1>4, <2>2, <2>3
<1>5. \A y \in S : m >= y
  BY <1>4
<1> QED BY <1>5 DEF Max

\* And a least one.
LEMMA MinFacts ==
  ASSUME NEW S, IsFiniteSet(S), S # {}, \A x \in S : x \in Int
  PROVE  Min(S) \in S /\ \A y \in S : Min(S) <= y
<1> DEFINE F == [b \in S |-> {y \in S : y < b}]
<1>1. F \in [S -> SUBSET S]
  OBVIOUS
<1>2. PICK m \in S : \A k \in S : F[k] \subseteq F[m] => F[k] = F[m]
  <2> HIDE DEF F
  <2> QED BY <1>1, SmallestImage
<1>3. \A y, k \in S : y \in F[k] <=> y < k
  OBVIOUS
<1> HIDE DEF F
<1>4. ASSUME NEW y \in S, y < m PROVE FALSE
  <2>1. \A x \in S : x < y => x < m
    BY <1>4
  <2>2. F[y] \subseteq F[m]
    BY <1>1, <1>3, <2>1
  <2>3. ~(y < y)
    BY <1>4
  <2> QED BY <1>2, <1>3, <1>4, <2>2, <2>3
<1>5. \A y \in S : m <= y
  BY <1>4
<1> QED BY <1>5 DEF Min

-----------------------------------------------------------------------------
(* Sorting                                                                  *)

\* The places of a sequence of numbers are taken once each.
LEMMA PlacesDiffer ==
  ASSUME NEW s \in Seq(Nat)
  PROVE  [i \in 1 .. Len(s) |-> Place(s, i)] \in Bijection(1 .. Len(s), 1 .. Len(s))
<1> DEFINE D == 1 .. Len(s)
           Before(j, i) == s[j] < s[i] \/ (s[j] = s[i] /\ j < i)
           Ahead(i) == {j \in D : Before(j, i)}
           place == [i \in D |-> Place(s, i)]
<1>1. DOMAIN s = D /\ Len(s) \in Nat /\ \A i \in D : s[i] \in Nat
  BY LenProperties
<1>2. IsFiniteSet(D) /\ Cardinality(D) = Len(s)
  BY <1>1, FS_Interval
<1>3. ASSUME NEW i \in D
      PROVE  /\ IsFiniteSet(Ahead(i)) /\ Cardinality(Ahead(i)) \in Nat
             /\ Cardinality(Ahead(i)) < Len(s)
             /\ Place(s, i) = 1 + Cardinality(Ahead(i))
  <2>1. Ahead(i) \subseteq D \ {i}
    BY <1>1
  <2>2. IsFiniteSet(D \ {i}) /\ Cardinality(D \ {i}) = Len(s) - 1
    BY <1>2, FS_RemoveElement
  <2>3. IsFiniteSet(Ahead(i)) /\ Cardinality(Ahead(i)) <= Len(s) - 1
    BY <2>1, <2>2, FS_Subset
  <2>4. Cardinality(Ahead(i)) \in Nat
    BY <2>3, FS_CardinalityType
  <2>5. Place(s, i) = 1 + Cardinality(Ahead(i))
    BY <1>1 DEF Place
  <2> HIDE DEF Ahead
  <2> QED BY <1>1, <2>3, <2>4, <2>5
<1>4. ASSUME NEW i \in D, NEW k \in D, Before(i, k) PROVE Place(s, i) < Place(s, k)
  <2>1. Ahead(i) \subseteq Ahead(k) /\ i \in Ahead(k) /\ i \notin Ahead(i)
    BY <1>1, <1>4
  <2>2. Cardinality(Ahead(i)) <= Cardinality(Ahead(k)) /\ Cardinality(Ahead(i)) # Cardinality(Ahead(k))
    <3> HIDE DEF Ahead
    <3> QED BY <1>3, <2>1, FS_Subset
  <2> HIDE DEF Ahead
  <2> QED BY <1>3, <2>2
<1>5. \A i, k \in D : i # k => Before(i, k) \/ Before(k, i)
  BY <1>1
<1>6. \A i \in D : Place(s, i) \in D
  <2> HIDE DEF Ahead
  <2> QED BY <1>1, <1>3
<1>7. place \in Injection(D, D)
  <2>1. \A i, k \in D : Place(s, i) = Place(s, k) => i = k
    <3> HIDE DEF Before
    <3>1. \A i \in D : Place(s, i) \in Nat
      BY <1>6
    <3> QED BY <1>4, <1>5, <3>1
  <2> HIDE DEF D
  <2> QED BY <1>6, <2>1 DEF Injection, IsInjective
<1>8. place \in Surjection(D, D)
  <2> HIDE DEF D, place
  <2> QED BY <1>2, <1>7, FS_Injection
<1> QED BY <1>7, <1>8 DEF Bijection

\* Sorting rearranges a sequence.
LEMMA AscendingFacts ==
  ASSUME NEW s \in Seq(Nat)
  PROVE  /\ Ascending(s) \in Seq(Nat) /\ Len(Ascending(s)) = Len(s)
         /\ \E p \in Bijection(1 .. Len(s), 1 .. Len(s)) :
              \A n \in 1 .. Len(s) : Ascending(s)[n] = s[p[n]]
<1> DEFINE D == 1 .. Len(s)
           place == [i \in D |-> Place(s, i)]
           p == [n \in D |-> CHOOSE i \in D : Place(s, i) = n]
<1>1. DOMAIN s = D /\ Len(s) \in Nat /\ \A i \in D : s[i] \in Nat
  BY LenProperties
<1>2. place \in Bijection(D, D)
  BY PlacesDiffer
<1>3. /\ \A i \in D : Place(s, i) \in D
      /\ \A i, k \in D : Place(s, i) = Place(s, k) => i = k
      /\ \A n \in D : \E i \in D : Place(s, i) = n
  <2> HIDE DEF D
  <2> QED BY <1>2 DEF Bijection, Injection, Surjection, IsInjective
<1>4. \A n \in D : p[n] \in D /\ Place(s, p[n]) = n
  <2> HIDE DEF D
  <2> QED BY <1>3
<1>5. p \in Bijection(D, D)
  <2>1. \A m, n \in D : p[m] = p[n] => m = n
    BY <1>4
  <2>2. \A i \in D : \E n \in D : p[n] = i
    <3>1. ASSUME NEW i \in D PROVE Place(s, i) \in D /\ p[Place(s, i)] = i
      <4> DEFINE n == Place(s, i)
      <4>1. n \in D
        BY <1>3
      <4>2. p[n] \in D /\ Place(s, p[n]) = n
        BY <1>4, <4>1
      <4> HIDE DEF p, D
      <4> QED BY <1>3, <4>1, <4>2
    <3> QED BY <3>1
  <2>3. p \in [D -> D]
    BY <1>4
  <2> HIDE DEF D, p
  <2> QED BY <2>1, <2>2, <2>3 DEF Bijection, Injection, Surjection, IsInjective
<1>6. Ascending(s) = [n \in D |-> s[p[n]]]
  BY <1>1 DEF Ascending
<1>7. \A n \in D : s[p[n]] \in Nat
  BY <1>1, <1>4
<1>8. Ascending(s) \in Seq(Nat) /\ Len(Ascending(s)) = Len(s)
  <2> HIDE DEF p
  <2> QED BY <1>1, <1>6, <1>7
<1>9. \A n \in D : Ascending(s)[n] = s[p[n]]
  <2> HIDE DEF p
  <2> QED BY <1>6
<1> HIDE DEF p
<1> QED BY <1>5, <1>8, <1>9
=============================================================================
