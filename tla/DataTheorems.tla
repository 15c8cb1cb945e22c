---------------------------- MODULE DataTheorems ----------------------------
(***************************************************************************)
(* Facts about data that the proofs of several components need: the least  *)
(* number of a set, induction over the subsets of a finite set, and sums.  *)
(* The folds of the community modules are recursive functions, and what    *)
(* one computes needs an induction: of the subsets that are not good there *)
(* would be a smallest one.                                                *)
(***************************************************************************)
EXTENDS Integers, Functions, FiniteSetsExt, FiniteSetTheorems, TLAPS

-----------------------------------------------------------------------------
(* Induction.                                                              *)

\* A nonempty set of natural numbers has a least one.
LEMMA LeastExists ==
    ASSUME NEW T, T \subseteq Nat, T # {}
    PROVE  \E i \in T : \A j \in T : i <= j
<1>. DEFINE R == OpToRel(<, Nat)
<1>1. IsWellFoundedOn(R, Nat)
  BY NatLessThanWellFounded
<1>2. \A i, j \in Nat : i < j => <<i, j>> \in R
  BY DEF OpToRel
<1>. HIDE DEF R
<1>3. PICK i \in T : \A j \in T : ~ (<<j, i>> \in R)
  BY <1>1, WFMin
<1>4. ASSUME NEW j \in T
      PROVE  i <= j
  <2>1. i \in Nat /\ j \in Nat
    OBVIOUS
  <2>2. ~ (j < i)
    BY <1>2, <1>3, <2>1
  <2>. QED
    BY <2>1, <2>2
<1>. QED
  BY <1>4

\* Of finitely many positions one is the last.
LEMMA MaxIsOne ==
    ASSUME NEW n \in Nat, NEW S \in SUBSET (1..n), S # {}
    PROVE  Max(S) \in S
<1>. DEFINE T == {k \in Nat : n - k \in S}
<1>1. PICK i \in S : TRUE
  OBVIOUS
<1>2. n - i \in T
  <2>1. i \in Int /\ n - i \in Nat /\ n - (n - i) = i
    BY <1>1
  <2>. QED
    BY <2>1
<1>3. PICK least \in T : \A k \in T : least <= k
  BY <1>2, LeastExists
<1>4. PICK m \in S : m = n - least
  BY <1>3
<1>5. \A j \in S : m >= j
  <2>. SUFFICES ASSUME NEW j \in S
       PROVE  m >= j
    OBVIOUS
  <2>1. j \in Int /\ n - j \in Nat /\ n - (n - j) = j
    OBVIOUS
  <2>2. least <= n - j
    BY <1>3, <2>1
  <2>3. least \in Nat
    BY <1>3
  <2>. HIDE DEF T
  <2>. QED
    BY <1>4, <2>1, <2>2, <2>3
<1>. HIDE DEF T
<1>6. \E x \in S : \A y \in S : x >= y
  BY <1>5
<1>. QED
  BY <1>6, Zenon DEF Max

\* A set that holds 1, and with a number the next one, holds all up to n.
LEMMA StepInduction ==
    ASSUME NEW n \in Nat, NEW good, 1 \in good,
           \A i \in 1..n : i \in good /\ i + 1 <= n => i + 1 \in good
    PROVE  \A i \in 1..n : i \in good
<1>. DEFINE bad == {i \in 1..n : i \notin good}
<1>1. SUFFICES ASSUME bad # {} PROVE FALSE
  OBVIOUS
<1>2. bad \subseteq Nat
  OBVIOUS
<1>. HIDE DEF bad
<1>3. PICK i \in bad : \A j \in bad : i <= j
  BY <1>1, <1>2, LeastExists
<1>4. i \in 1..n /\ i # 1
  BY DEF bad
<1>5. i - 1 \in 1..n /\ ~(i <= i - 1) /\ (i - 1) + 1 = i
  BY <1>4
<1>6. i - 1 \in good
  BY <1>3, <1>5 DEF bad
<1>. QED
  BY <1>3, <1>4, <1>5, <1>6 DEF bad

\* The values g[1], ..., g[n] that step leads through.
Follows(g, n, first, step) == g[1] = first /\ \A i \in 1..n : i # 1 => g[i] = step[g[i - 1]]

\* Every step has a sequence of values that follows it.
LEMMA StepsExist ==
    ASSUME NEW X, NEW first \in X, NEW step, \A x \in X : step[x] \in X, NEW n \in Nat \ {0}
    PROVE  \E g \in [1..n -> X] : Follows(g, n, first, step)
<1>. DEFINE good == {k \in 1..n : \E g \in [1..k -> X] : Follows(g, k, first, step)}
<1>1. 1 \in good
  <2>1. PICK g : g = [i \in 1..1 |-> first]
    OBVIOUS
  <2>2. g \in [1..1 -> X] /\ Follows(g, 1, first, step)
    BY <2>1 DEF Follows
  <2>. QED
    BY <2>2
<1>2. ASSUME NEW k \in 1..n, k \in good, k + 1 <= n
      PROVE  k + 1 \in good
  <2>1. PICK g \in [1..k -> X] : Follows(g, k, first, step)
    BY <1>2
  <2>2. PICK h : h = [i \in 1..(k + 1) |-> IF i = k + 1 THEN step[g[k]] ELSE g[i]]
    OBVIOUS
  <2>3. h \in [1..(k + 1) -> X]
    BY <2>2
  <2>8. g[1] = first /\ \A i \in 1..k : i # 1 => g[i] = step[g[i - 1]]
    BY <2>1 DEF Follows
  <2>4. \A i \in 1..k : h[i] = g[i]
    BY <2>2
  <2>5. h[k + 1] = step[h[k]]
    BY <2>2
  <2>6. ASSUME NEW i \in 1..(k + 1), i # 1
        PROVE  h[i] = step[h[i - 1]]
    <3>1. CASE i = k + 1
      BY <2>5, <3>1
    <3>2. CASE i # k + 1
      <4>1. i \in 1..k /\ i - 1 \in 1..k
        BY <2>6, <3>2
      <4>. QED
        BY <2>8, <2>4, <2>6, <4>1
    <3>. QED
      BY <3>1, <3>2
  <2>7. h[1] = first
    BY <2>8, <2>4
  <2>9. Follows(h, k + 1, first, step)
    BY <2>6, <2>7 DEF Follows
  <2>. QED
    BY <1>2, <2>3, <2>9
<1>. HIDE DEF good
<1>3. \A k \in 1..n : k \in good
  BY <1>1, <1>2, StepInduction
<1>4. n \in good
  BY <1>3
<1>. QED
  BY <1>4 DEF good

\* A set that holds each subset of S whose strict subsets it holds, holds all.
LEMMA SubsetInduction ==
    ASSUME NEW S, IsFiniteSet(S), NEW good,
           \A s \in SUBSET S : (\A u \in SUBSET s : u # s => u \in good) => s \in good
    PROVE  \A s \in SUBSET S : s \in good
<1>. DEFINE bad == {s \in SUBSET S : s \notin good}
            R == StrictSubsetOrdering(S)
<1>1. SUFFICES ASSUME bad # {} PROVE FALSE
  OBVIOUS
<1>2. IsWellFoundedOn(R, SUBSET S)
  BY FS_StrictSubsetOrderingWellFounded, FS_FiniteSubsetsOfFinite
<1>3. PICK s \in bad : \A u \in bad : <<u, s>> \notin R
  <2>. HIDE DEF R
  <2>1. bad \subseteq SUBSET S
    OBVIOUS
  <2>. HIDE DEF bad
  <2>. QED
    BY <1>1, <1>2, <2>1, WFMin
<1>4. ASSUME NEW u \in SUBSET s, u # s
      PROVE  u \in good
  <2>1. <<u, s>> \in R
    BY <1>4 DEF StrictSubsetOrdering
  <2>. QED
    BY <1>3, <2>1
<1>. QED
  BY <1>4

\* A set that holds a subset of S whenever it holds what is left of it without any
\* one of its elements, holds all.
LEMMA RemovalInduction ==
    ASSUME NEW S, IsFiniteSet(S), NEW good,
           \A s \in SUBSET S : (\A x \in s : s \ {x} \in good) => s \in good
    PROVE  \A s \in SUBSET S : s \in good
<1>1. ASSUME NEW s \in SUBSET S, \A u \in SUBSET s : u # s => u \in good
      PROVE  s \in good
  <2>1. \A x \in s : s \ {x} \in good
    BY <1>1
  <2>. QED
    BY <2>1
<1>. QED
  BY <1>1, SubsetInduction

-----------------------------------------------------------------------------
(* The recursive function behind a sum.                                    *)

SumOf(f, D) == SumFunctionOnSet(f, D)

AnyOf(s) == CHOOSE x \in s : TRUE

SumStep(f, g, s) == IF s = {} THEN 0 ELSE f[AnyOf(s)] + g[s \ {AnyOf(s)}]

SumSolves(f, D, g) == g = [s \in SUBSET D |-> SumStep(f, g, s)]

SumIter(f, D) == CHOOSE g : SumSolves(f, D, g)

LEMMA SumIsIter ==
    ASSUME NEW f, NEW D
    PROVE  SumOf(f, D) = SumIter(f, D)[D]
  BY DEF SumOf, SumFunctionOnSet, FoldFunctionOnSet, MapThenFoldSet, SumIter, SumSolves, SumStep, AnyOf

LEMMA AnyOfIsIn ==
    ASSUME NEW s, s # {}
    PROVE  AnyOf(s) \in s
  BY DEF AnyOf

\* Two solutions agree where both are defined.
LEMMA SolutionsAgree ==
    ASSUME NEW f, NEW D, NEW g, SumSolves(f, D, g), NEW E, NEW h, SumSolves(f, E, h),
           NEW u, u \subseteq D, u \subseteq E, IsFiniteSet(u)
    PROVE  g[u] = h[u]
<1>. DEFINE good == {s \in SUBSET u : g[s] = h[s]}
<1>1. ASSUME NEW s \in SUBSET u, \A x \in s : s \ {x} \in good
      PROVE  s \in good
  <2>1. g[s] = SumStep(f, g, s) /\ h[s] = SumStep(f, h, s)
    BY DEF SumSolves
  <2>2. CASE s = {}
    BY <2>1, <2>2 DEF SumStep
  <2>3. CASE s # {}
    <3>1. g[s \ {AnyOf(s)}] = h[s \ {AnyOf(s)}]
      BY <1>1, <2>3, AnyOfIsIn
    <3>. QED
      BY <2>1, <3>1, Zenon DEF SumStep
  <2>. QED
    BY <2>2, <2>3
<1>2. \A s \in SUBSET u : (\A x \in s : s \ {x} \in good) => s \in good
  BY <1>1
<1>. HIDE DEF good
<1>3. \A s \in SUBSET u : s \in good
  BY <1>2, RemovalInduction, Zenon
<1>4. u \in good
  BY <1>3
<1>. QED
  BY <1>4 DEF good

\* There is one.
LEMMA IterSolves ==
    ASSUME NEW f, NEW D, IsFiniteSet(D)
    PROVE  SumSolves(f, D, SumIter(f, D))
<1>. DEFINE good == {s \in SUBSET D : SumSolves(f, s, SumIter(f, s))}
<1>1. ASSUME NEW s \in SUBSET D, \A u \in SUBSET s : u # s => u \in good
      PROVE  s \in good
  <2>. DEFINE val(u) == SumIter(f, u)[u]
              g == [t \in SUBSET s |-> IF t = {} THEN 0 ELSE f[AnyOf(t)] + val(t \ {AnyOf(t)})]
  <2>1. ASSUME NEW u \in SUBSET s, u # s
        PROVE  g[u] = val(u)
    <3>1. SumSolves(f, u, SumIter(f, u))
      BY <1>1, <2>1
    <3>2. val(u) = SumStep(f, SumIter(f, u), u)
      BY <3>1 DEF SumSolves
    <3>3. CASE u = {}
      BY <3>2, <3>3 DEF SumStep
    <3>4. CASE u # {}
      <4>1. PICK w : w = u \ {AnyOf(u)}
        OBVIOUS
      <4>2. w \in SUBSET s /\ w # s /\ w \subseteq u /\ IsFiniteSet(w)
        BY <4>1, <3>4, AnyOfIsIn, FS_Subset
      <4>3. SumSolves(f, w, SumIter(f, w))
        BY <1>1, <4>2
      <4>4. SumIter(f, u)[w] = val(w)
        BY <3>1, <4>2, <4>3, SolutionsAgree
      <4>5. val(u) = f[AnyOf(u)] + SumIter(f, u)[w]
        BY <3>2, <3>4, <4>1, Zenon DEF SumStep
      <4>6. g[u] = f[AnyOf(u)] + val(w)
        BY <3>4, <4>1
      <4>. QED
        BY <4>4, <4>5, <4>6, Zenon
    <3>. QED
      BY <3>3, <3>4
  <2>2. ASSUME NEW t \in SUBSET s
        PROVE  g[t] = SumStep(f, g, t)
    <3>1. CASE t = {}
      BY <3>1 DEF SumStep
    <3>2. CASE t # {}
      <4>1. PICK u : u = t \ {AnyOf(t)}
        OBVIOUS
      <4>2. u \in SUBSET s /\ u # s
        BY <4>1, <3>2, AnyOfIsIn
      <4>3. g[u] = val(u)
        BY <2>1, <4>2
      <4>4. g[t] = f[AnyOf(t)] + val(u)
        BY <3>2, <4>1
      <4>5. SumStep(f, g, t) = f[AnyOf(t)] + g[u]
        BY <3>2, <4>1, Zenon DEF SumStep
      <4>. QED
        BY <4>3, <4>4, <4>5, Zenon
    <3>. QED
      BY <3>1, <3>2
  <2>3. PICK h : h = g
    OBVIOUS
  <2>4. h = [t \in SUBSET s |-> SumStep(f, h, t)]
    BY <2>2, <2>3
  <2>5. SumSolves(f, s, h)
    BY <2>4 DEF SumSolves
  <2>. QED
    BY <2>5 DEF SumIter
<1>2. \A s \in SUBSET D : (\A u \in SUBSET s : u # s => u \in good) => s \in good
  BY <1>1
<1>. HIDE DEF good
<1>3. D \in good
  BY <1>2, SubsetInduction
<1>. QED
  BY <1>3 DEF good

\* A sum that is written otherwise is this one if its function solves the same
\* equation.
LEMMA SolutionIsSum ==
    ASSUME NEW f, NEW D, IsFiniteSet(D), NEW g, SumSolves(f, D, g)
    PROVE  g[D] = SumOf(f, D)
<1>1. SumSolves(f, D, SumIter(f, D))
  BY IterSolves
<1>2. g[D] = SumIter(f, D)[D]
  BY <1>1, SolutionsAgree
<1>. QED
  BY <1>2, SumIsIter

-----------------------------------------------------------------------------
(* Sums.                                                                   *)

LEMMA SumEmpty ==
    ASSUME NEW f
    PROVE  SumOf(f, {}) = 0
<1>1. SumSolves(f, {}, SumIter(f, {}))
  BY FS_EmptySet, IterSolves
<1>2. SumIter(f, {})[{}] = SumStep(f, SumIter(f, {}), {})
  BY <1>1 DEF SumSolves
<1>. QED
  BY <1>2, SumIsIter DEF SumStep

LEMMA SumPicked ==
    ASSUME NEW f, NEW D, IsFiniteSet(D), D # {}
    PROVE  SumOf(f, D) = f[AnyOf(D)] + SumOf(f, D \ {AnyOf(D)})
<1>1. PICK E : E = D \ {AnyOf(D)}
  OBVIOUS
<1>2. IsFiniteSet(E) /\ E \subseteq D
  BY <1>1, FS_Subset
<1>3. SumSolves(f, D, SumIter(f, D)) /\ SumSolves(f, E, SumIter(f, E))
  BY <1>2, IterSolves
<1>4. SumIter(f, D)[E] = SumIter(f, E)[E]
  BY <1>2, <1>3, SolutionsAgree
<1>5. SumIter(f, D)[D] = SumStep(f, SumIter(f, D), D)
  BY <1>3 DEF SumSolves
<1>. QED
  BY <1>1, <1>4, <1>5, SumIsIter, Zenon DEF SumStep

\* A sum of integers is one.
LEMMA SumInt ==
    ASSUME NEW f, NEW D, IsFiniteSet(D), \A x \in D : f[x] \in Int
    PROVE  SumOf(f, D) \in Int
<1>. DEFINE good == {s \in SUBSET D : SumOf(f, s) \in Int}
<1>1. ASSUME NEW s \in SUBSET D, \A x \in s : s \ {x} \in good
      PROVE  s \in good
  <2>1. CASE s = {}
    BY <2>1, SumEmpty
  <2>2. CASE s # {}
    <3>1. AnyOf(s) \in s /\ f[AnyOf(s)] \in Int
      BY <2>2, AnyOfIsIn
    <3>2. SumOf(f, s \ {AnyOf(s)}) \in Int
      BY <1>1, <3>1
    <3>3. IsFiniteSet(s)
      BY FS_Subset
    <3>. QED
      BY <2>2, <3>1, <3>2, <3>3, SumPicked
  <2>. QED
    BY <2>1, <2>2
<1>2. \A s \in SUBSET D : (\A x \in s : s \ {x} \in good) => s \in good
  BY <1>1
<1>. HIDE DEF good
<1>3. \A s \in SUBSET D : s \in good
  BY <1>2, RemovalInduction, Zenon
<1>4. D \in good
  BY <1>3
<1>. QED
  BY <1>4 DEF good

\* It does not matter in which order a sum is taken.
LEMMA SumRemove ==
    ASSUME NEW f, NEW D, IsFiniteSet(D), \A x \in D : f[x] \in Int, NEW y \in D
    PROVE  SumOf(f, D) = f[y] + SumOf(f, D \ {y})
<1>. DEFINE good == {s \in SUBSET D : \A x \in s : SumOf(f, s) = f[x] + SumOf(f, s \ {x})}
<1>1. ASSUME NEW s \in SUBSET D, \A x \in s : s \ {x} \in good, NEW x \in s
      PROVE  SumOf(f, s) = f[x] + SumOf(f, s \ {x})
  <2>1. PICK p : p = AnyOf(s)
    OBVIOUS
  <2>2. p \in s
    BY <2>1, AnyOfIsIn
  <2>3. \A u \in SUBSET D : IsFiniteSet(u)
    BY FS_Subset
  <2>4. SumOf(f, s) = f[p] + SumOf(f, s \ {p})
    BY <2>1, <2>3, SumPicked
  <2>5. CASE x = p
    BY <2>4, <2>5
  <2>6. CASE x # p
    <3>1. PICK rest : rest = s \ {p, x}
      OBVIOUS
    <3>2. (s \ {p}) \ {x} = rest /\ (s \ {x}) \ {p} = rest
      BY <3>1
    <3>3. SumOf(f, s \ {p}) = f[x] + SumOf(f, rest)
      BY <1>1, <2>2, <2>6, <3>2
    <3>4. SumOf(f, s \ {x}) = f[p] + SumOf(f, rest)
      BY <1>1, <2>2, <2>6, <3>2
    <3>5. SumOf(f, rest) \in Int
      BY <2>3, <3>1, SumInt
    <3>. QED
      BY <2>2, <2>4, <3>3, <3>4, <3>5
  <2>. QED
    BY <2>5, <2>6
<1>2. \A s \in SUBSET D : (\A x \in s : s \ {x} \in good) => s \in good
  BY <1>1
<1>. HIDE DEF good
<1>3. \A s \in SUBSET D : s \in good
  BY <1>2, RemovalInduction, Zenon
<1>4. D \in good
  BY <1>3
<1>. QED
  BY <1>4 DEF good

\* A sum of terms that are each at most another's is at most that one.
LEMMA SumMonotone ==
    ASSUME NEW f, NEW g, NEW D, IsFiniteSet(D),
           \A x \in D : f[x] \in Int /\ g[x] \in Int /\ f[x] <= g[x]
    PROVE  SumOf(f, D) <= SumOf(g, D)
<1>. DEFINE good == {s \in SUBSET D : SumOf(f, s) <= SumOf(g, s)}
<1>1. ASSUME NEW s \in SUBSET D, \A x \in s : s \ {x} \in good
      PROVE  s \in good
  <2>1. CASE s = {}
    BY <2>1, SumEmpty
  <2>2. CASE s # {}
    <3>1. PICK p : p = AnyOf(s)
      OBVIOUS
    <3>2. p \in s
      BY <2>2, <3>1, AnyOfIsIn
    <3>3. PICK u : u = s \ {p}
      OBVIOUS
    <3>4. IsFiniteSet(s) /\ IsFiniteSet(u)
      BY <3>3, FS_Subset
    <3>5. SumOf(f, u) \in Int /\ SumOf(g, u) \in Int /\ SumOf(f, u) <= SumOf(g, u)
      BY <1>1, <3>2, <3>3, <3>4, SumInt
    <3>6. SumOf(f, s) = f[p] + SumOf(f, u) /\ SumOf(g, s) = g[p] + SumOf(g, u)
      BY <2>2, <3>1, <3>3, <3>4, SumPicked
    <3>7. SumOf(f, s) <= SumOf(g, s)
      BY <3>2, <3>5, <3>6
    <3>. QED
      BY <3>7
  <2>. QED
    BY <2>1, <2>2
<1>2. \A s \in SUBSET D : (\A x \in s : s \ {x} \in good) => s \in good
  BY <1>1
<1>. HIDE DEF good
<1>3. \A s \in SUBSET D : s \in good
  BY <1>2, RemovalInduction, Zenon
<1>4. D \in good
  BY <1>3
<1>. QED
  BY <1>4 DEF good

\* Equal terms have equal sums.
LEMMA SumSame ==
    ASSUME NEW f, NEW g, NEW D, IsFiniteSet(D), \A x \in D : f[x] \in Int /\ f[x] = g[x]
    PROVE  SumOf(f, D) = SumOf(g, D)
<1>1. SumOf(f, D) <= SumOf(g, D) /\ SumOf(g, D) <= SumOf(f, D)
  <2>1. \A x \in D : f[x] \in Int /\ g[x] \in Int /\ f[x] <= g[x] /\ g[x] <= f[x]
    OBVIOUS
  <2>2. SumOf(f, D) <= SumOf(g, D)
    BY <2>1, SumMonotone
  <2>3. SumOf(g, D) <= SumOf(f, D)
    BY <2>1, SumMonotone
  <2>. QED
    BY <2>2, <2>3
<1>2. SumOf(f, D) \in Int /\ SumOf(g, D) \in Int
  BY SumInt
<1>. QED
  BY <1>1, <1>2

\* Terms that are zero add up to zero.
LEMMA SumOfZeros ==
    ASSUME NEW f, NEW D, IsFiniteSet(D), \A x \in D : f[x] = 0
    PROVE  SumOf(f, D) = 0
<1>. DEFINE good == {s \in SUBSET D : SumOf(f, s) = 0}
<1>1. ASSUME NEW s \in SUBSET D, \A x \in s : s \ {x} \in good
      PROVE  SumOf(f, s) = 0
  <2>1. CASE s = {}
    BY <2>1, SumEmpty
  <2>2. CASE s # {}
    <3>1. AnyOf(s) \in s
      BY <2>2, AnyOfIsIn
    <3>2. f[AnyOf(s)] = 0 /\ SumOf(f, s \ {AnyOf(s)}) = 0
      BY <1>1, <3>1
    <3>3. IsFiniteSet(s)
      BY FS_Subset
    <3>4. SumOf(f, s) = f[AnyOf(s)] + SumOf(f, s \ {AnyOf(s)})
      BY <2>2, <3>3, SumPicked
    <3>. QED
      BY <3>2, <3>4
  <2>. QED
    BY <2>1, <2>2
<1>2. \A s \in SUBSET D : (\A x \in s : s \ {x} \in good) => s \in good
  BY <1>1
<1>. HIDE DEF good
<1>3. \A s \in SUBSET D : s \in good
  BY <1>2, RemovalInduction, Zenon
<1>4. D \in good
  BY <1>3
<1>. QED
  BY <1>4 DEF good

\* Terms that are no less than zero add up to more in a larger set.
LEMMA SumOfPart ==
    ASSUME NEW f, NEW D, IsFiniteSet(D), \A x \in D : f[x] \in Nat, NEW E \in SUBSET D
    PROVE  SumOf(f, E) \in Nat /\ SumOf(f, E) <= SumOf(f, D)
<1>. DEFINE good == {s \in SUBSET D : SumOf(f, s \cap E) <= SumOf(f, s)}
<1>1. \A u \in SUBSET D : IsFiniteSet(u) /\ SumOf(f, u) \in Int
  BY FS_Subset, SumInt
<1>2. ASSUME NEW s \in SUBSET D, \A x \in s : s \ {x} \in good
      PROVE  s \in good
  <2>1. CASE s \subseteq E
    <3>1. s \cap E = s
      BY <2>1
    <3>. QED
      BY <1>1, <3>1
  <2>2. CASE ~(s \subseteq E)
    <3>1. PICK x \in s : x \notin E
      BY <2>2
    <3>2. PICK u : u = s \ {x}
      OBVIOUS
    <3>3. s \cap E = u \cap E /\ u \in SUBSET D /\ s \cap E \in SUBSET D
      BY <3>1, <3>2
    <3>4. SumOf(f, u \cap E) <= SumOf(f, u)
      BY <1>2, <3>2
    <3>5. SumOf(f, s) = f[x] + SumOf(f, u)
      BY <1>1, <3>2, SumRemove
    <3>6. SumOf(f, u) \in Int /\ SumOf(f, s \cap E) \in Int
      BY <1>1, <3>3
    <3>8. f[x] \in Nat
      BY <3>1
    <3>7. PICK part \in Int : part = SumOf(f, s \cap E)
      BY <3>6
    <3>9. part <= SumOf(f, u)
      BY <3>3, <3>4, <3>7, Zenon
    <3>10. part <= SumOf(f, s)
      BY <3>5, <3>6, <3>8, <3>9
    <3>. QED
      BY <3>7, <3>10
  <2>. QED
    BY <2>1, <2>2
<1>3. \A s \in SUBSET D : (\A x \in s : s \ {x} \in good) => s \in good
  BY <1>2
<1>4. \A s \in SUBSET D : s \in good
  <2>. HIDE DEF good
  <2>. QED
    BY <1>3, RemovalInduction, Zenon
<1>5. D \in good /\ D \cap E = E
  BY <1>4
<1>6. SumOf(f, E) >= 0
  <2>1. PICK zero : zero = [x \in D |-> 0]
    OBVIOUS
  <2>2. SumOf(zero, E) = 0
    BY <1>1, <2>1, SumOfZeros
  <2>3. SumOf(zero, E) <= SumOf(f, E)
    BY <1>1, <2>1, SumMonotone
  <2>. QED
    BY <1>1, <2>2, <2>3
<1>. QED
  BY <1>1, <1>5, <1>6

\* Terms that are zero may be left out.
LEMMA SumWithoutZeros ==
    ASSUME NEW f, NEW D, IsFiniteSet(D), \A x \in D : f[x] \in Int,
           NEW E \in SUBSET D, \A x \in D \ E : f[x] = 0
    PROVE  SumOf(f, E) = SumOf(f, D)
<1>. DEFINE good == {s \in SUBSET D : SumOf(f, s \cap E) = SumOf(f, s)}
<1>1. \A u \in SUBSET D : IsFiniteSet(u) /\ SumOf(f, u) \in Int
  BY FS_Subset, SumInt
<1>2. ASSUME NEW s \in SUBSET D, \A x \in s : s \ {x} \in good
      PROVE  SumOf(f, s \cap E) = SumOf(f, s)
  <2>1. CASE s \subseteq E
    <3>1. s \cap E = s
      BY <2>1
    <3>. QED
      BY <3>1
  <2>2. CASE ~(s \subseteq E)
    <3>1. PICK x \in s : x \notin E
      BY <2>2
    <3>2. PICK u : u = s \ {x}
      OBVIOUS
    <3>3. s \cap E = u \cap E /\ u \in SUBSET D
      BY <3>1, <3>2
    <3>4. SumOf(f, u \cap E) = SumOf(f, u)
      BY <1>2, <3>2
    <3>5. SumOf(f, s) = f[x] + SumOf(f, u)
      BY <1>1, <3>2, SumRemove
    <3>6. SumOf(f, u) \in Int /\ f[x] = 0
      BY <1>1, <3>1, <3>3
    <3>7. SumOf(f, s) = SumOf(f, u)
      BY <3>5, <3>6
    <3>. QED
      BY <3>3, <3>4, <3>7, Zenon
  <2>. QED
    BY <2>1, <2>2
<1>3. \A s \in SUBSET D : (\A x \in s : s \ {x} \in good) => s \in good
  BY <1>2
<1>4. \A s \in SUBSET D : s \in good
  <2>. HIDE DEF good
  <2>. QED
    BY <1>3, RemovalInduction, Zenon
<1>5. D \in good /\ D \cap E = E
  BY <1>4
<1>. QED
  BY <1>5

LEMMA SumAppend ==
    ASSUME NEW i \in Nat, NEW f, \A x \in 1..(i + 1) : f[x] \in Int
    PROVE  SumOf(f, 1..(i + 1)) = f[i + 1] + SumOf(f, 1..i)
<1>1. PICK D : D = 1..(i + 1)
  OBVIOUS
<1>2. D \ {i + 1} = 1..i /\ i + 1 \in D
  BY <1>1
<1>3. IsFiniteSet(D) /\ \A x \in D : f[x] \in Int
  BY <1>1, FS_Interval
<1>4. \A y \in D : SumOf(f, D) = f[y] + SumOf(f, D \ {y})
  BY <1>3, SumRemove
<1>. QED
  BY <1>1, <1>2, <1>4, Zenon

\* f[i] is the step of g from i to the next.
Steps(f, g, n) ==
    /\ g \in [1..(n + 1) -> Int]
    /\ \A i \in 1..n : f[i] = g[i + 1] - g[i]

LEMMA StepsAreInt ==
    ASSUME NEW n \in Nat \ {0}, NEW g, NEW f, Steps(f, g, n), NEW i \in 1..n
    PROVE  /\ f[i] \in Int /\ f[i] = g[i + 1] - g[i]
           /\ g[i] \in Int /\ g[i + 1] \in Int /\ g[1] \in Int
<1>1. i \in 1..(n + 1) /\ i + 1 \in 1..(n + 1) /\ 1 \in 1..(n + 1)
  OBVIOUS
<1>. QED
  BY <1>1 DEF Steps

\* Steps from one number to the next add up to the way from the first to the last.
LEMMA SumOfSteps ==
    ASSUME NEW n \in Nat \ {0}, NEW g, NEW f, Steps(f, g, n)
    PROVE  SumOf(f, 1..n) = g[n + 1] - g[1]
<1>. DEFINE good == {k \in 1..n : SumOf(f, 1..k) = g[k + 1] - g[1]}
<1>1. \A i \in 1..n : f[i] \in Int
  BY StepsAreInt
<1>2. 1 \in good
  <2>1. 1..0 = {} /\ 0 + 1 = 1 /\ 1 \in 1..n
    OBVIOUS
  <2>2. \A x \in 1..(0 + 1) : f[x] \in Int
    BY <1>1
  <2>3. SumOf(f, 1..(0 + 1)) = f[0 + 1] + SumOf(f, 1..0)
    BY <2>2, SumAppend
  <2>4. SumOf(f, 1..1) = f[1] + SumOf(f, {})
    BY <2>1, <2>3, Zenon
  <2>5. SumOf(f, {}) = 0
    BY SumEmpty
  <2>6. f[1] \in Int /\ f[1] = g[1 + 1] - g[1]
    BY <2>1, StepsAreInt
  <2>. QED
    BY <2>1, <2>4, <2>5, <2>6
<1>3. ASSUME NEW i \in 1..n, i \in good, i + 1 <= n
      PROVE  i + 1 \in good
  <2>1. PICK j \in 1..n : j = i + 1
    BY <1>3
  <2>2. \A x \in 1..(i + 1) : f[x] \in Int
    BY <1>1, <1>3
  <2>3. SumOf(f, 1..(i + 1)) = f[i + 1] + SumOf(f, 1..i)
    BY <2>2, SumAppend
  <2>4. SumOf(f, 1..j) = f[j] + SumOf(f, 1..i)
    BY <2>1, <2>3, Zenon
  <2>5. SumOf(f, 1..i) = g[j] - g[1]
    BY <1>3, <2>1
  <2>6. f[j] = g[j + 1] - g[j] /\ g[j] \in Int /\ g[j + 1] \in Int /\ g[1] \in Int
    BY <2>1, StepsAreInt
  <2>7. SumOf(f, 1..j) = g[j + 1] - g[1]
    BY <2>4, <2>5, <2>6
  <2>. QED
    BY <2>1, <2>7
<1>4. n \in good
  <2>. HIDE DEF good
  <2>1. \A i \in 1..n : i \in good
    BY <1>2, <1>3, StepInduction
  <2>. QED
    BY <2>1
<1>. QED
  BY <1>4

\* The sum of sums is the sum of the terms.
LEMMA SumPlus ==
    ASSUME NEW f, NEW g, NEW h, NEW D, IsFiniteSet(D),
           \A x \in D : f[x] \in Int /\ g[x] \in Int /\ h[x] = f[x] + g[x]
    PROVE  SumOf(h, D) = SumOf(f, D) + SumOf(g, D)
<1>. DEFINE good == {s \in SUBSET D : SumOf(h, s) = SumOf(f, s) + SumOf(g, s)}
<1>1. ASSUME NEW s \in SUBSET D, \A x \in s : s \ {x} \in good
      PROVE  SumOf(h, s) = SumOf(f, s) + SumOf(g, s)
  <2>1. CASE s = {}
    BY <2>1, SumEmpty
  <2>2. CASE s # {}
    <3>1. PICK p : p = AnyOf(s)
      OBVIOUS
    <3>2. p \in s
      BY <2>2, <3>1, AnyOfIsIn
    <3>3. PICK u : u = s \ {p}
      OBVIOUS
    <3>4. IsFiniteSet(s) /\ IsFiniteSet(u)
      BY <3>3, FS_Subset
    <3>5. SumOf(f, u) \in Int /\ SumOf(g, u) \in Int
      BY <3>3, <3>4, SumInt
    <3>6. SumOf(h, u) = SumOf(f, u) + SumOf(g, u)
      BY <1>1, <3>2, <3>3
    <3>7. /\ SumOf(f, s) = f[p] + SumOf(f, u) /\ SumOf(g, s) = g[p] + SumOf(g, u)
          /\ SumOf(h, s) = h[p] + SumOf(h, u)
      BY <2>2, <3>1, <3>3, <3>4, SumPicked
    <3>8. f[p] \in Int /\ g[p] \in Int /\ h[p] = f[p] + g[p]
      BY <3>2
    <3>. QED
      BY <3>5, <3>6, <3>7, <3>8
  <2>. QED
    BY <2>1, <2>2
<1>2. \A s \in SUBSET D : (\A x \in s : s \ {x} \in good) => s \in good
  BY <1>1
<1>. HIDE DEF good
<1>3. \A s \in SUBSET D : s \in good
  BY <1>2, RemovalInduction, Zenon
<1>4. D \in good
  BY <1>3
<1>. QED
  BY <1>4 DEF good

\* A table of numbers, what is in one of its columns, and its margins.
IsTable(table, D, E) == \A x \in D, y \in E : table[x][y] \in Int

Column(table, D, y) == [x \in D |-> table[x][y]]

RowSums(row, table, D, E) == \A x \in D : row[x] = SumOf(table[x], E)

ColumnSums(col, table, D, E) == \A y \in E : col[y] = SumOf(Column(table, D, y), D)

\* A table of numbers has the same sum by rows as by columns.
LEMMA SumSwap ==
    ASSUME NEW D, IsFiniteSet(D), NEW E, IsFiniteSet(E), NEW table, IsTable(table, D, E),
           NEW row, RowSums(row, table, D, E), NEW col, ColumnSums(col, table, D, E)
    PROVE  SumOf(row, D) = SumOf(col, E)
<1>. DEFINE at(y) == [x \in D |-> table[x][y]]
            part(s) == [y \in E |-> SumOf(at(y), s)]
            good == {s \in SUBSET D : SumOf(row, s) = SumOf(part(s), E)}
<1>1. \A s \in SUBSET D : IsFiniteSet(s)
  BY FS_Subset
<1>2. ASSUME NEW s \in SUBSET D, \A x \in s : s \ {x} \in good
      PROVE  SumOf(row, s) = SumOf(part(s), E)
  <2>1. CASE s = {}
    <3>1. \A y \in E : part(s)[y] = 0
      BY <2>1, SumEmpty
    <3>2. SumOf(part(s), E) = 0
      BY <3>1, SumOfZeros
    <3>. QED
      BY <2>1, <3>2, SumEmpty
  <2>2. CASE s # {}
    <3>1. PICK p : p = AnyOf(s)
      OBVIOUS
    <3>2. p \in s
      BY <2>2, <3>1, AnyOfIsIn
    <3>3. PICK u : u = s \ {p}
      OBVIOUS
    <3>4. IsFiniteSet(s) /\ IsFiniteSet(u) /\ u \in SUBSET D
      BY <1>1, <3>3
    <3>5. SumOf(row, u) = SumOf(part(u), E)
      BY <1>2, <3>2, <3>3
    <3>6. SumOf(row, s) = row[p] + SumOf(row, u)
      BY <2>2, <3>1, <3>3, <3>4, SumPicked
    <3>7. row[p] = SumOf(table[p], E)
      BY <3>2 DEF RowSums
    <3>8. ASSUME NEW y \in E
          PROVE  table[p][y] \in Int /\ part(u)[y] \in Int /\ part(s)[y] = table[p][y] + part(u)[y]
      <4>1. \A x \in D : at(y)[x] \in Int
        BY DEF IsTable
      <4>2. SumOf(at(y), u) \in Int
        <5>1. \A x \in u : at(y)[x] \in Int
          BY <3>4, <4>1
        <5>. HIDE DEF at
        <5>. QED
          BY <3>4, <5>1, SumInt
      <4>3. SumOf(at(y), s) = at(y)[p] + SumOf(at(y), u)
        <5>. HIDE DEF at
        <5>. QED
          BY <2>2, <3>1, <3>3, <3>4, SumPicked
      <4>4. at(y)[p] = table[p][y] /\ table[p][y] \in Int
        BY <3>2 DEF IsTable
      <4>5. part(u)[y] = SumOf(at(y), u) /\ part(s)[y] = SumOf(at(y), s)
        OBVIOUS
      <4>. QED
        BY <4>2, <4>3, <4>4, <4>5, Zenon
    <3>9. SumOf(part(s), E) = SumOf(table[p], E) + SumOf(part(u), E)
      <4>. HIDE DEF part
      <4>. QED
        BY <3>8, SumPlus
    <3>. QED
      BY <3>5, <3>6, <3>7, <3>9, Zenon
  <2>. QED
    BY <2>1, <2>2
<1>3. \A s \in SUBSET D : (\A x \in s : s \ {x} \in good) => s \in good
  BY <1>2
<1>4. \A s \in SUBSET D : s \in good
  <2>. HIDE DEF good
  <2>. QED
    BY <1>3, RemovalInduction, Zenon
<1>5. SumOf(row, D) = SumOf(part(D), E)
  BY <1>4
<1>6. \A y \in E : part(D)[y] = col[y]
  BY DEF Column, ColumnSums
<1>7. \A y \in E : part(D)[y] \in Int
  <2>1. ASSUME NEW y \in E PROVE SumOf(at(y), D) \in Int
    <3>1. \A x \in D : at(y)[x] \in Int
      BY DEF IsTable
    <3>. HIDE DEF at
    <3>. QED
      BY <3>1, SumInt
  <2>. QED
    BY <2>1
<1>8. SumOf(part(D), E) = SumOf(col, E)
  <2>. HIDE DEF part
  <2>. QED
    BY <1>6, <1>7, SumSame
<1>. QED
  BY <1>5, <1>8
=============================================================================
