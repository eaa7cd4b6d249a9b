------------------------------ MODULE SumLemmas ------------------------------
(***************************************************************************)
(* What a sum over a finite set of naturals is, whatever order the fold    *)
(* takes its elements in.  The community modules define SumFunctionOnSet   *)
(* by recursion on a chosen element; here it is shown to exist, to be a    *)
(* natural number, and to split over any element and any disjoint union.   *)
(* The models count reads with it (QueryEngine) and merge moments.         *)
(***************************************************************************)
EXTENDS Functions, Integers, FiniteSets, FiniteSetTheorems, WellFoundedInduction, TLAPS

\* The recursion behind the fold, one step of it and the whole.
SumStep(f, g, s) ==
  IF s = {} THEN 0 ELSE f[CHOOSE x \in s : TRUE] + g[s \ {CHOOSE x \in s : TRUE}]
IsSum(f, g, Sets) == g = [s \in Sets |-> SumStep(f, g, s)]

NatValued(f, S) == \A x \in S : f[x] \in Nat
-----------------------------------------------------------------------------
\* Every nonempty set of naturals has a least element.
LEMMA LeastNat ==
  ASSUME NEW T \in SUBSET Nat, T # {}
  PROVE  \E n \in T : \A k \in T : n <= k
<1>1. PICK n \in T : \A k \in T : ~(<<k, n>> \in OpToRel(<, Nat))
  BY NatLessThanWellFounded, WFMin
<1>2. ASSUME NEW k \in T, ~(n <= k) PROVE FALSE
  <2>1. k \in Nat /\ n \in Nat /\ k < n
    BY <1>2
  <2>2. <<k, n>> \in OpToRel(<, Nat)
    BY <2>1 DEF OpToRel
  <2> QED
    BY <1>1, <2>2
<1> QED
  BY <1>2

\* Induction up to n, on the set of numbers for which something holds.
LEMMA InductionUpTo ==
  ASSUME NEW n \in Nat, NEW Good, 0 \in Good,
         \A k \in 1 .. n : k - 1 \in Good => k \in Good
  PROVE  \A k \in 0 .. n : k \in Good
<1> DEFINE Bad == {k \in 0 .. n : k \notin Good}
<1>1. ASSUME Bad # {} PROVE FALSE
  <2>1. PICK m \in Bad : \A k \in Bad : m <= k
    <3>1. Bad \in SUBSET Nat
      OBVIOUS
    <3> HIDE DEF Bad
    <3> QED
      BY <1>1, <3>1, LeastNat
  <2>2. m \in 1 .. n /\ m - 1 \in 0 .. n /\ ~(m <= m - 1) /\ m \notin Good
    OBVIOUS
  <2>3. m - 1 \in Good
    <3>1. m - 1 \notin Bad
      <4> HIDE DEF Bad
      <4> QED
        BY <2>1, <2>2
    <3> QED
      BY <2>2, <3>1
  <2> QED
    BY <2>2, <2>3
<1> QED
  BY <1>1

\* A primitive recursion up to n has a solution.
Iterates(f, n, base, step) ==
  f = [a \in 0 .. n |-> IF a = 0 THEN base ELSE step[a][f[a - 1]]]
LEMMA IterationExists ==
  ASSUME NEW n \in Nat, NEW S, NEW base \in S, NEW step \in [1 .. n -> [S -> S]]
  PROVE  \E f \in [0 .. n -> S] : Iterates(f, n, base, step)
<1> DEFINE Solves(f, m) ==
             /\ f \in [0 .. m -> S]
             /\ \A a \in 0 .. m : f[a] = IF a = 0 THEN base ELSE step[a][f[a - 1]]
           Solvable(m) == \E f : Solves(f, m)
           Good == {m \in 0 .. n : Solvable(m)}
<1>1. 0 \in Good
  <2>1. Solves([a \in 0 .. 0 |-> base], 0)
    OBVIOUS
  <2> HIDE DEF Solves
  <2> QED
    BY <2>1
<1>2. ASSUME NEW m \in 1 .. n, m - 1 \in Good PROVE m \in Good
  <2>1. PICK f : Solves(f, m - 1)
    BY <1>2
  <2> DEFINE g == [a \in 0 .. m |-> IF a = m THEN step[m][f[m - 1]] ELSE f[a]]
  <2>2. /\ f[m - 1] \in S /\ step[m][f[m - 1]] \in S
        /\ \A a \in 0 .. m - 1 : f[a] \in S
    <3>1. m - 1 \in 0 .. m - 1 /\ f \in [0 .. m - 1 -> S] /\ step[m] \in [S -> S]
      BY <2>1
    <3> QED
      BY <3>1
  <2>3. g \in [0 .. m -> S]
    BY <2>2
  <2>4. ASSUME NEW a \in 0 .. m
        PROVE  g[a] = IF a = 0 THEN base ELSE step[a][g[a - 1]]
    <3>1. CASE a = m
      <4>1. m - 1 \in 0 .. m /\ m - 1 # m /\ a # 0
        BY <3>1
      <4>2. g[a] = step[m][f[m - 1]] /\ g[m - 1] = f[m - 1]
        BY <3>1, <4>1
      <4> QED
        BY <3>1, <4>1, <4>2
    <3>2. CASE a # m
      <4>1. a \in 0 .. m - 1 /\ g[a] = f[a] /\ (a # 0 => a - 1 \in 0 .. m /\ a - 1 # m)
        BY <3>2
      <4>2. f[a] = IF a = 0 THEN base ELSE step[a][f[a - 1]]
        BY <4>1, <2>1
      <4>3. a # 0 => g[a - 1] = f[a - 1]
        BY <4>1
      <4> HIDE DEF g
      <4> QED
        BY <4>1, <4>2, <4>3
    <3> QED
      BY <3>1, <3>2
  <2>5. Solves(g, m)
    BY <2>3, <2>4
  <2> HIDE DEF Solves
  <2> QED
    BY <2>5
<1>3. n \in 0 .. n /\ n \in Good
  <2> HIDE DEF Good
  <2>1. \A k \in 0 .. n : k \in Good
    BY <1>1, <1>2, InductionUpTo
  <2> QED
    BY <2>1
<1>4. PICK f : Solves(f, n)
  <2> HIDE DEF Solves
  <2> QED
    BY <1>3
<1>5. f = [a \in 0 .. n |-> f[a]]
  BY <1>4
<1> QED
  BY <1>4, <1>5 DEF Iterates

\* Induction over a finite set, by a counterexample of least size.
LEMMA SmallestBad ==
  ASSUME NEW S, IsFiniteSet(S), NEW Bad \in SUBSET (SUBSET S), Bad # {}
  PROVE  \E s \in Bad : IsFiniteSet(s) /\ \A t \in SUBSET s : t # s => t \notin Bad
<1>1. \A s \in SUBSET S : IsFiniteSet(s) /\ Cardinality(s) \in Nat
  BY FS_Subset, FS_CardinalityType
<1> DEFINE Sizes == {Cardinality(s) : s \in Bad}
<1>2. Sizes \in SUBSET Nat /\ Sizes # {}
  BY <1>1
<1>3. PICK n \in Sizes : \A k \in Sizes : n <= k
  <2> HIDE DEF Sizes
  <2> QED
    BY <1>2, LeastNat
<1>4. PICK s \in Bad : Cardinality(s) = n
  BY <1>3
<1>5. ASSUME NEW t \in SUBSET s, t # s, t \in Bad PROVE FALSE
  <2>1. /\ IsFiniteSet(s) /\ Cardinality(t) <= Cardinality(s)
        /\ Cardinality(s) = Cardinality(t) => s = t
    BY <1>1, FS_Subset
  <2>2. n <= Cardinality(t)
    BY <1>3, <1>5
  <2>3. Cardinality(s) \in Nat /\ Cardinality(t) \in Nat
    BY <1>1
  <2> QED
    BY <1>4, <1>5, <2>1, <2>2, <2>3
<1> QED
  BY <1>1, <1>5

LEMMA SumUnfold ==
  ASSUME NEW f, NEW S
  PROVE  SumFunctionOnSet(f, S) = (CHOOSE g : IsSum(f, g, SUBSET S))[S]
BY DEF SumFunctionOnSet, FoldFunctionOnSet, MapThenFoldSet, IsSum, SumStep

\* The recursion has a solution: on sets of up to n elements, for every n.
LEMMA SumExists ==
  ASSUME NEW f, NEW S, IsFiniteSet(S)
  PROVE  \E g : IsSum(f, g, SUBSET S)
<1> DEFINE Small(n) == {s \in SUBSET S : Cardinality(s) <= n}
           Bad      == {n \in Nat : ~ \E g : IsSum(f, g, Small(n))}
<1>1. \A s \in SUBSET S : IsFiniteSet(s) /\ Cardinality(s) \in Nat /\ Cardinality(s) <= Cardinality(S)
  BY FS_Subset, FS_CardinalityType
<1>2. ASSUME Bad # {} PROVE FALSE
  <2>1. PICK n \in Bad : \A k \in Bad : n <= k
    <3>1. Bad \in SUBSET Nat
      OBVIOUS
    <3> HIDE DEF Bad
    <3> QED
      BY <1>2, <3>1, LeastNat
  <2>2. n \in Nat /\ ~ \E g : IsSum(f, g, Small(n))
    OBVIOUS
  <2>3. CASE n = 0
    <3>1. \A s \in Small(n) : s = {}
      BY <1>1, <2>3, FS_EmptySet
    <3> DEFINE g0 == [s \in Small(n) |-> 0]
    <3>2. IsSum(f, g0, Small(n))
      <4> HIDE DEF Small
      <4> QED
        BY <3>1 DEF IsSum, SumStep
    <3> QED
      BY <2>2, <3>2
  <2>4. CASE n # 0
    <3>1. n - 1 \in Nat /\ n - 1 \notin Bad
      <4>1. n - 1 \in Nat /\ ~(n <= n - 1)
        BY <2>2, <2>4
      <4> HIDE DEF Bad
      <4> QED
        BY <2>1, <4>1
    <3>2. PICK g : IsSum(f, g, Small(n - 1))
      BY <3>1
    <3> DEFINE h == [s \in Small(n) |-> IF s \in Small(n - 1) THEN g[s] ELSE SumStep(f, g, s)]
    <3>3. \A s \in Small(n) : s # {} =>
            /\ s \ {CHOOSE x \in s : TRUE} \in Small(n - 1)
            /\ s \ {CHOOSE x \in s : TRUE} \in Small(n)
      <4> SUFFICES ASSUME NEW s \in Small(n), s # {}
                   PROVE  /\ s \ {CHOOSE x \in s : TRUE} \in Small(n - 1)
                          /\ s \ {CHOOSE x \in s : TRUE} \in Small(n)
        OBVIOUS
      <4>1. (CHOOSE x \in s : TRUE) \in s
        OBVIOUS
      <4>2. PICK c : c = CHOOSE x \in s : TRUE
        OBVIOUS
      <4>3. Cardinality(s \ {c}) = Cardinality(s) - 1
        BY <1>1, <4>1, <4>2, FS_RemoveElement
      <4>4. Cardinality(s) \in Nat /\ Cardinality(s) <= n
        BY <1>1
      <4>5. s \ {c} \in Small(n - 1) /\ s \ {c} \in Small(n)
        BY <2>2, <4>3, <4>4
      <4> QED
        BY <4>2, <4>5
    <3>4. \A s \in Small(n) : h[s] = SumStep(f, g, s)
      <4> HIDE DEF Small
      <4> QED
        BY <3>2 DEF IsSum
    <3>5. \A s \in Small(n) : SumStep(f, g, s) = SumStep(f, h, s)
      <4> SUFFICES ASSUME NEW s \in Small(n) PROVE SumStep(f, g, s) = SumStep(f, h, s)
        OBVIOUS
      <4>1. CASE s = {}
        BY <4>1 DEF SumStep
      <4>2. CASE s # {}
        <5>1. g[s \ {CHOOSE x \in s : TRUE}] = h[s \ {CHOOSE x \in s : TRUE}]
          BY <3>3, <4>2
        <5> HIDE DEF h
        <5> QED
          BY <4>2, <5>1, Zenon DEF SumStep
      <4> QED
        BY <4>1, <4>2
    <3>6. IsSum(f, h, Small(n))
      <4>1. \A s \in Small(n) : h[s] = SumStep(f, h, s)
        BY <3>4, <3>5
      <4>2. h = [s \in Small(n) |-> h[s]]
        OBVIOUS
      <4> HIDE DEF h, Small
      <4> QED
        BY <4>1, <4>2 DEF IsSum
    <3> QED
      BY <2>2, <3>6
  <2> QED
    BY <2>3, <2>4
<1>3. Cardinality(S) \in Nat /\ Small(Cardinality(S)) = SUBSET S
  BY <1>1
<1> QED
  BY <1>2, <1>3

\* The sums over all subsets of S at once, as the fold computes them.
Sums(f, S) == CHOOSE g : IsSum(f, g, SUBSET S)

LEMMA SumsRecursive ==
  ASSUME NEW f, NEW S, IsFiniteSet(S), NEW s \in SUBSET S
  PROVE  Sums(f, S)[s] = SumStep(f, Sums(f, S), s)
<1>1. IsSum(f, Sums(f, S), SUBSET S)
  BY SumExists DEF Sums
<1> QED
  BY <1>1 DEF IsSum

\* Which element is taken first does not matter.
LEMMA SumsSplit ==
  ASSUME NEW f, NEW S, IsFiniteSet(S), NatValued(f, S)
  PROVE  \A s \in SUBSET S :
           /\ Sums(f, S)[s] \in Nat
           /\ \A x \in s : Sums(f, S)[s] = f[x] + Sums(f, S)[s \ {x}]
<1> DEFINE g       == Sums(f, S)
           Good(s) == g[s] \in Nat /\ \A x \in s : g[s] = f[x] + g[s \ {x}]
           Bad     == {s \in SUBSET S : ~Good(s)}
<1> SUFFICES ASSUME Bad # {} PROVE FALSE
  OBVIOUS
<1>1. PICK s \in Bad : IsFiniteSet(s) /\ \A t \in SUBSET s : t # s => t \notin Bad
  <2>1. Bad \in SUBSET (SUBSET S)
    OBVIOUS
  <2> HIDE DEF Bad
  <2> QED
    BY <2>1, SmallestBad
<1>2. s \in SUBSET S /\ ~Good(s)
  OBVIOUS
<1>3. \A t \in SUBSET s : t # s => Good(t)
  <2> HIDE DEF Good
  <2> QED
    BY <1>1, <1>2
<1>4. \A x \in s : Good(s \ {x}) /\ f[x] \in Nat
  <2>1. \A x \in s : s \ {x} \in SUBSET s /\ s \ {x} # s
    OBVIOUS
  <2> HIDE DEF Good
  <2> QED
    BY <1>2, <1>3, <2>1 DEF NatValued
<1>5. g[s] = SumStep(f, g, s)
  BY <1>2, SumsRecursive
<1> HIDE DEF g
<1>6. CASE s = {}
  BY <1>2, <1>5, <1>6 DEF SumStep
<1>7. CASE s # {}
  <2>1. PICK c \in s : g[s] = f[c] + g[s \ {c}]
    <3>1. (CHOOSE x \in s : TRUE) \in s
      BY <1>7
    <3>2. g[s] = f[CHOOSE x \in s : TRUE] + g[s \ {CHOOSE x \in s : TRUE}]
      BY <1>5, <1>7, Zenon DEF SumStep
    <3> QED
      BY <3>1, <3>2
  <2>2. g[s] \in Nat
    BY <1>4, <2>1
  <2>3. ASSUME NEW x \in s PROVE g[s] = f[x] + g[s \ {x}]
    <3>1. CASE x = c
      BY <2>1, <3>1
    <3>2. CASE x # c
      <4>1. c \in s \ {x} /\ x \in s \ {c}
        BY <3>2
      <4>2. g[s \ {c}] = f[x] + g[(s \ {c}) \ {x}] /\ g[s \ {x}] = f[c] + g[(s \ {x}) \ {c}]
        BY <1>4, <4>1
      <4>3. (s \ {c}) \ {x} = (s \ {x}) \ {c}
        OBVIOUS
      <4>4. g[(s \ {c}) \ {x}] = g[(s \ {x}) \ {c}]
        BY <4>3, Zenon
      <4>5. g[(s \ {x}) \ {c}] \in Nat
        <5>1. (s \ {x}) \ {c} \in SUBSET s /\ (s \ {x}) \ {c} # s
          OBVIOUS
        <5> QED
          BY <1>3, <5>1
      <4> QED
        BY <1>4, <2>1, <4>2, <4>4, <4>5
    <3> QED
      BY <3>1, <3>2
  <2> QED
    BY <1>2, <2>2, <2>3
<1> QED
  BY <1>6, <1>7

\* Sums over subsets of a set agree with those over subsets of a larger one.
LEMMA SumsAgree ==
  ASSUME NEW f, NEW g, NEW S, IsFiniteSet(S), NEW T \in SUBSET S, NatValued(f, S),
         \A x \in T : f[x] = g[x]
  PROVE  \A s \in SUBSET T : Sums(f, S)[s] = Sums(g, T)[s]
<1> DEFINE Bad == {s \in SUBSET T : Sums(f, S)[s] # Sums(g, T)[s]}
<1> SUFFICES ASSUME Bad # {} PROVE FALSE
  OBVIOUS
<1>1. IsFiniteSet(T)
  BY FS_Subset
<1>2. PICK s \in Bad : IsFiniteSet(s) /\ \A t \in SUBSET s : t # s => t \notin Bad
  <2>1. Bad \in SUBSET (SUBSET T)
    OBVIOUS
  <2> HIDE DEF Bad
  <2> QED
    BY <1>1, <2>1, SmallestBad
<1>3. s \in SUBSET T /\ s \in SUBSET S /\ Sums(f, S)[s] # Sums(g, T)[s]
  OBVIOUS
<1>4. Sums(f, S)[s] = SumStep(f, Sums(f, S), s)
  BY <1>3, SumsRecursive
<1>5. Sums(g, T)[s] = SumStep(g, Sums(g, T), s)
  BY <1>1, <1>3, SumsRecursive
<1>6. CASE s = {}
  BY <1>3, <1>4, <1>5, <1>6 DEF SumStep
<1>7. CASE s # {}
  <2>1. PICK c : c = CHOOSE x \in s : TRUE
    OBVIOUS
  <2>2. c \in s
    BY <1>7, <2>1
  <2>3. s \ {c} \notin Bad /\ s \ {c} \in SUBSET T
    <3>1. s \ {c} \in SUBSET s /\ s \ {c} # s
      BY <2>2
    <3> HIDE DEF Bad
    <3> QED
      BY <1>2, <1>3, <3>1
  <2>4. Sums(f, S)[s \ {c}] = Sums(g, T)[s \ {c}]
    BY <2>3
  <2>5. f[c] = g[c]
    BY <1>3, <2>2
  <2>6. Sums(f, S)[s] = f[c] + Sums(f, S)[s \ {c}]
    BY <1>4, <1>7, <2>1, Zenon DEF SumStep
  <2>7. Sums(g, T)[s] = g[c] + Sums(g, T)[s \ {c}]
    BY <1>5, <1>7, <2>1, Zenon DEF SumStep
  <2> QED
    BY <1>3, <2>4, <2>5, <2>6, <2>7, Zenon
<1> QED
  BY <1>6, <1>7
-----------------------------------------------------------------------------
(* What the other modules use.                                             *)

LEMMA SumNat ==
  ASSUME NEW f, NEW S, IsFiniteSet(S), NatValued(f, S)
  PROVE  SumFunctionOnSet(f, S) \in Nat
<1>1. SumFunctionOnSet(f, S) = Sums(f, S)[S]
  BY SumUnfold DEF Sums
<1> QED
  BY <1>1, SumsSplit

LEMMA SumEmpty ==
  ASSUME NEW f
  PROVE  SumFunctionOnSet(f, {}) = 0
<1>1. SumFunctionOnSet(f, {}) = Sums(f, {})[{}]
  BY SumUnfold DEF Sums
<1>2. IsFiniteSet({}) /\ {} \in SUBSET {}
  BY FS_EmptySet
<1>3. Sums(f, {})[{}] = SumStep(f, Sums(f, {}), {})
  BY <1>2, SumsRecursive
<1> QED
  BY <1>1, <1>3 DEF SumStep

\* Only the values summed matter.
LEMMA SumSame ==
  ASSUME NEW f, NEW g, NEW S, IsFiniteSet(S), NatValued(f, S), \A x \in S : f[x] = g[x]
  PROVE  SumFunctionOnSet(f, S) = SumFunctionOnSet(g, S)
<1>1. SumFunctionOnSet(f, S) = Sums(f, S)[S] /\ SumFunctionOnSet(g, S) = Sums(g, S)[S]
  BY SumUnfold DEF Sums
<1>2. S \in SUBSET S
  OBVIOUS
<1> QED
  BY <1>1, <1>2, SumsAgree

LEMMA SumRemove ==
  ASSUME NEW f, NEW S, IsFiniteSet(S), NatValued(f, S), NEW x \in S
  PROVE  SumFunctionOnSet(f, S) = f[x] + SumFunctionOnSet(f, S \ {x})
<1>1. /\ SumFunctionOnSet(f, S) = Sums(f, S)[S]
      /\ SumFunctionOnSet(f, S \ {x}) = Sums(f, S \ {x})[S \ {x}]
  BY SumUnfold DEF Sums
<1>2. Sums(f, S)[S] = f[x] + Sums(f, S)[S \ {x}]
  BY SumsSplit
<1>3. Sums(f, S)[S \ {x}] = Sums(f, S \ {x})[S \ {x}]
  <2>1. S \ {x} \in SUBSET S /\ S \ {x} \in SUBSET (S \ {x})
    OBVIOUS
  <2> QED
    BY <2>1, SumsAgree
<1> QED
  BY <1>1, <1>2, <1>3

\* A sum over two disjoint sets is the two sums.
LEMMA SumUnion ==
  ASSUME NEW f, NEW A, NEW B, IsFiniteSet(A), IsFiniteSet(B), A \cap B = {},
         NatValued(f, A \union B)
  PROVE  SumFunctionOnSet(f, A \union B) = SumFunctionOnSet(f, A) + SumFunctionOnSet(f, B)
<1> DEFINE Bad == {s \in SUBSET A :
                     SumFunctionOnSet(f, s \union B) # SumFunctionOnSet(f, s) + SumFunctionOnSet(f, B)}
<1> SUFFICES ASSUME Bad # {} PROVE FALSE
  OBVIOUS
<1>1. PICK s \in Bad : IsFiniteSet(s) /\ \A t \in SUBSET s : t # s => t \notin Bad
  <2>1. Bad \in SUBSET (SUBSET A)
    OBVIOUS
  <2> HIDE DEF Bad
  <2> QED
    BY <2>1, SmallestBad
<1>2. /\ s \in SUBSET A
      /\ SumFunctionOnSet(f, s \union B) # SumFunctionOnSet(f, s) + SumFunctionOnSet(f, B)
  OBVIOUS
<1>3. SumFunctionOnSet(f, B) \in Nat
  BY SumNat DEF NatValued
<1>4. CASE s = {}
  <2>1. s \union B = B
    BY <1>4
  <2>2. SumFunctionOnSet(f, s) = 0
    BY <1>4, SumEmpty
  <2>3. SumFunctionOnSet(f, s \union B) = SumFunctionOnSet(f, B)
    BY <2>1, Zenon
  <2> HIDE DEF Bad
  <2> QED
    BY <1>2, <1>3, <2>2, <2>3
<1>5. CASE s # {}
  <2>1. PICK x \in s : TRUE
    BY <1>5
  <2>2. s \ {x} \in SUBSET A /\ s \ {x} \notin Bad
    <3>1. s \ {x} \in SUBSET s /\ s \ {x} # s
      OBVIOUS
    <3> HIDE DEF Bad
    <3> QED
      BY <1>1, <1>2, <3>1
  <2>3. SumFunctionOnSet(f, (s \ {x}) \union B)
          = SumFunctionOnSet(f, s \ {x}) + SumFunctionOnSet(f, B)
    BY <2>2
  <2>4. SumFunctionOnSet(f, s) = f[x] + SumFunctionOnSet(f, s \ {x})
    BY <1>1, <1>2, SumRemove DEF NatValued
  <2>5. SumFunctionOnSet(f, s \union B) = f[x] + SumFunctionOnSet(f, (s \union B) \ {x})
    <3>1. IsFiniteSet(s \union B) /\ x \in s \union B /\ NatValued(f, s \union B)
      BY <1>1, <1>2, FS_Union DEF NatValued
    <3> QED
      BY <3>1, SumRemove
  <2>6. (s \union B) \ {x} = (s \ {x}) \union B
    BY <1>2
  <2>7. f[x] \in Nat /\ SumFunctionOnSet(f, s \ {x}) \in Nat
    <3>1. IsFiniteSet(s \ {x}) /\ NatValued(f, s \ {x}) /\ f[x] \in Nat
      BY <1>1, <1>2, FS_Subset DEF NatValued
    <3> QED
      BY <3>1, SumNat
  <2>8. SumFunctionOnSet(f, (s \union B) \ {x}) = SumFunctionOnSet(f, (s \ {x}) \union B)
    BY <2>6, Zenon
  <2> HIDE DEF Bad
  <2> QED
    BY <1>2, <1>3, <2>3, <2>4, <2>5, <2>7, <2>8
<1> QED
  BY <1>4, <1>5

\* Adding up the sizes of pairwise disjoint finite sets sizes their union.
LEMMA SumOfSizes ==
  ASSUME NEW f, NEW U, NEW S, IsFiniteSet(S),
         \A x \in S : IsFiniteSet(U[x]) /\ f[x] = Cardinality(U[x]),
         \A x, y \in S : x # y => U[x] \cap U[y] = {}
  PROVE  /\ IsFiniteSet(UNION {U[x] : x \in S})
         /\ SumFunctionOnSet(f, S) = Cardinality(UNION {U[x] : x \in S})
<1>1. NatValued(f, S)
  BY FS_CardinalityType DEF NatValued
<1> DEFINE All(s)  == UNION {U[x] : x \in s}
           Good(s) == IsFiniteSet(All(s)) /\ SumFunctionOnSet(f, s) = Cardinality(All(s))
           Bad     == {s \in SUBSET S : ~Good(s)}
<1>2. ASSUME Bad # {} PROVE FALSE
  <2>1. PICK s \in Bad : IsFiniteSet(s) /\ \A t \in SUBSET s : t # s => t \notin Bad
    <3>1. Bad \in SUBSET (SUBSET S)
      OBVIOUS
    <3> HIDE DEF Bad
    <3> QED
      BY <1>2, <3>1, SmallestBad
  <2>2. s \in SUBSET S /\ ~Good(s)
    OBVIOUS
  <2>3. CASE s = {}
    <3>1. All(s) = {}
      BY <2>3
    <3> HIDE DEF All
    <3> QED
      BY <2>2, <2>3, <3>1, SumEmpty, FS_EmptySet
  <2>4. CASE s # {}
    <3>1. PICK x \in s : TRUE
      BY <2>4
    <3>2. Good(s \ {x})
      <4>1. s \ {x} \in SUBSET s /\ s \ {x} # s
        OBVIOUS
      <4>2. s \ {x} \notin Bad
        <5> HIDE DEF Bad
        <5> QED
          BY <2>1, <4>1
      <4> HIDE DEF Good
      <4> QED
        BY <2>2, <4>1, <4>2
    <3>3. SumFunctionOnSet(f, s) = f[x] + SumFunctionOnSet(f, s \ {x})
      <4>1. IsFiniteSet(s) /\ NatValued(f, s)
        BY <1>1, <2>1, <2>2 DEF NatValued
      <4> QED
        BY <4>1, SumRemove
    <3>4. All(s) = U[x] \union All(s \ {x}) /\ U[x] \cap All(s \ {x}) = {}
      BY <2>2
    <3>5. IsFiniteSet(U[x]) /\ f[x] = Cardinality(U[x])
      BY <2>2
    <3> HIDE DEF All
    <3>6. /\ IsFiniteSet(U[x] \union All(s \ {x}))
          /\ Cardinality(U[x] \union All(s \ {x}))
               = Cardinality(U[x]) + Cardinality(All(s \ {x})) - Cardinality({})
      <4>1. /\ IsFiniteSet(U[x] \union All(s \ {x}))
            /\ Cardinality(U[x] \union All(s \ {x}))
                 = Cardinality(U[x]) + Cardinality(All(s \ {x}))
                   - Cardinality(U[x] \cap All(s \ {x}))
        BY <3>2, <3>5, FS_Union
      <4>2. U[x] \cap All(s \ {x}) = {}
        BY <3>4
      <4> QED
        BY <4>1, <4>2, Zenon
    <3>7. Cardinality({}) = 0 /\ Cardinality(U[x]) \in Nat /\ Cardinality(All(s \ {x})) \in Nat
      BY <3>2, <3>5, FS_EmptySet, FS_CardinalityType
    <3>8. IsFiniteSet(All(s)) /\ Cardinality(All(s)) = Cardinality(U[x] \union All(s \ {x}))
      <4>1. All(s) = U[x] \union All(s \ {x})
        BY <3>4
      <4> QED
        BY <3>6, <4>1, Zenon
    <3> QED
      BY <2>2, <3>2, <3>3, <3>5, <3>6, <3>7, <3>8
  <2> QED
    BY <2>3, <2>4
<1>3. Good(S)
  <2>1. S \in SUBSET S /\ S \notin Bad
    BY <1>2
  <2> HIDE DEF Good
  <2> QED
    BY <2>1
<1> QED
  BY <1>3

\* A sum of zeros and at most one 1.
LEMMA SumOfOne ==
  ASSUME NEW S, IsFiniteSet(S), NEW f, NEW T \in SUBSET S,
         \A x \in S : f[x] = IF x \in T THEN 1 ELSE 0,
         \A x, y \in T : x = y
  PROVE  SumFunctionOnSet(f, S) = IF T = {} THEN 0 ELSE 1
<1> DEFINE U == [x \in S |-> IF x \in T THEN {0} ELSE {}]
<1>1. IsFiniteSet({0}) /\ Cardinality({0}) = 1 /\ IsFiniteSet({}) /\ Cardinality({}) = 0
  BY FS_Singleton, FS_EmptySet
<1>2. \A x \in S : IsFiniteSet(U[x]) /\ f[x] = Cardinality(U[x])
  BY <1>1
<1>3. \A x, y \in S : x # y => U[x] \cap U[y] = {}
  OBVIOUS
<1>4. UNION {U[x] : x \in S} = IF T = {} THEN {} ELSE {0}
  <2>1. \A x \in S : U[x] = IF x \in T THEN {0} ELSE {}
    OBVIOUS
  <2> HIDE DEF U
  <2>2. CASE T = {}
    BY <2>1, <2>2
  <2>3. CASE T # {}
    <3>1. PICK t : t \in T
      BY <2>3
    <3>2. U[t] = {0} /\ t \in S
      BY <2>1, <3>1
    <3> QED
      BY <2>1, <2>3, <3>2
  <2> QED
    BY <2>2, <2>3
<1> HIDE DEF U
<1>5. SumFunctionOnSet(f, S) = Cardinality(UNION {U[x] : x \in S})
  <2>1. IsFiniteSet(S)
    OBVIOUS
  <2> QED
    BY <2>1, <1>2, <1>3, SumOfSizes
<1> QED
  BY <1>1, <1>4, <1>5
===============================================================================
