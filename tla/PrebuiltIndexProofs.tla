------------------------- MODULE PrebuiltIndexProofs -------------------------
(***************************************************************************)
(* What initialize() builds is sound for every table, grid, rounding of    *)
(* the grid arithmetic, order of scores and outlier budget.                *)
(*                                                                         *)
(* The argument: a median cut and a crack are the partitioning pass of     *)
(* KdCrackProofs; the tiles of a grid come from a counting sort whose      *)
(* slots are a permutation of the table (SlotsPermute); what the sweep has *)
(* folded in and kept is stated of the rows it has passed; and children    *)
(* share out their parent's rows, so that merged summaries stay exact.     *)
(***************************************************************************)
EXTENDS PrebuiltIndex, KdCrackProofs, SumLemmas

USE DimsAssumption, TableAssumption, ExtentAssumption, PrebuiltAssumption
-----------------------------------------------------------------------------
(* Grid arithmetic.                                                        *)

LEMMA RowsFinite ==
  /\ IsFiniteSet(RowIds) /\ IsFiniteSet(Positions) /\ Cardinality(RowIds) = N
  /\ Cardinality(Positions) = N
  /\ \A S \in SUBSET RowIds :
       IsFiniteSet(S) /\ Cardinality(S) \in Nat /\ Cardinality(S) <= N
<1>1. IsFiniteSet(0 .. N - 1) /\ Cardinality(0 .. N - 1) = N
  <2>1. 0 \in Int /\ N - 1 \in Int /\ N \in Nat
    OBVIOUS
  <2>2. /\ IsFiniteSet(0 .. N - 1)
        /\ Cardinality(0 .. N - 1) = IF 0 > N - 1 THEN 0 ELSE N - 1 - 0 + 1
    BY ONLY <2>1, FS_Interval
  <2> QED
    BY <2>1, <2>2
<1>2. /\ IsFiniteSet(RowIds) /\ Cardinality(RowIds) = N /\ N \in Nat
      /\ IsFiniteSet(Positions) /\ Cardinality(Positions) = N
  BY <1>1 DEF RowIds, Positions
<1>3. ASSUME NEW S \in SUBSET RowIds
      PROVE  IsFiniteSet(S) /\ Cardinality(S) \in Nat /\ Cardinality(S) <= N
  <2>1. IsFiniteSet(S) /\ Cardinality(S) <= Cardinality(RowIds)
    BY <1>2, FS_Subset
  <2>2. Cardinality(S) \in Nat
    BY <2>1, FS_CardinalityType
  <2> QED
    BY <1>2, <2>1, <2>2
<1> QED
  BY <1>2, <1>3

LEMMA ThresholdsAreIntegers ==
  ASSUME threshold \in RoundedAxes, NEW a \in Axes
  PROVE  \A i \in 1 .. K - 1 : threshold[a][i] \in Int
<1>1. RootBounds.low[a] \in Int /\ RootBounds.high[a] \in Int
  BY DEF RootBounds, Rect, Vec
<1>2. threshold[a] \in Rounded(a)
  BY DEF RoundedAxes
<1>3. threshold[a] \in [1 .. K - 1 -> RootBounds.low[a] .. RootBounds.high[a]]
  BY <1>2 DEF Rounded
<1> QED
  BY <1>1, <1>3

\* Cells are numbered in the order of their values.
LEMMA CellsInOrder ==
  ASSUME threshold \in RoundedAxes, NEW a \in Axes, NEW v \in Int, NEW w \in Int, v <= w
  PROVE  /\ CellOf(a, v) \in Cells
         /\ CellOf(a, v) <= CellOf(a, w)
<1> DEFINE below(x) == {i \in 1 .. K - 1 : threshold[a][i] <= x}
<1>1. IsFiniteSet(1 .. K - 1) /\ Cardinality(1 .. K - 1) = K - 1
  <2>1. 1 \in Int /\ K - 1 \in Int /\ K \in Nat \ {0}
    OBVIOUS
  <2>2. /\ IsFiniteSet(1 .. K - 1)
        /\ Cardinality(1 .. K - 1) = IF 1 > K - 1 THEN 0 ELSE K - 1 - 1 + 1
    BY ONLY <2>1, FS_Interval
  <2> QED
    BY <2>1, <2>2
<1>2. below(v) \in SUBSET (1 .. K - 1) /\ below(w) \in SUBSET (1 .. K - 1)
  OBVIOUS
<1>3. below(v) \in SUBSET below(w)
  BY ThresholdsAreIntegers
<1>4. CellOf(a, v) = Cardinality(below(v)) /\ CellOf(a, w) = Cardinality(below(w))
  BY DEF CellOf
<1> HIDE DEF below
<1>5. /\ IsFiniteSet(below(v)) /\ IsFiniteSet(below(w))
      /\ Cardinality(below(v)) \in Nat /\ Cardinality(below(v)) <= K - 1
  BY <1>1, <1>2, FS_Subset, FS_CardinalityType
<1>6. Cardinality(below(v)) <= Cardinality(below(w))
  BY <1>3, <1>5, FS_Subset
<1> QED
  BY <1>4, <1>5, <1>6 DEF Cells

\* A tile with a row in the query's rectangle lies between the cells of its corners.
LEMMA TileIsRouted ==
  ASSUME threshold \in RoundedAxes, NEW q \in Queries, NEW r \in RowIds,
         ContainsPoint(q, Point[r])
  PROVE  TileId(TileOfRow(r)) \in Routed(q)
<1> DEFINE idx == [a \in Axes |-> CellOf(a, Point[r][a])]
<1>1. ASSUME NEW a \in Axes
      PROVE  /\ CellOf(a, Point[r][a]) \in Cells
             /\ CellOf(a, q.low[a]) <= CellOf(a, Point[r][a])
             /\ CellOf(a, Point[r][a]) <= CellOf(a, q.high[a])
  <2>1. /\ q.low[a] \in Int /\ q.high[a] \in Int /\ Point[r][a] \in Int
        /\ q.low[a] <= Point[r][a] /\ Point[r][a] < q.high[a]
    BY DEF Rect, Vec, ContainsPoint
  <2>2. q.low[a] <= Point[r][a] /\ Point[r][a] <= q.high[a]
    BY <2>1
  <2> QED
    BY <2>1, <2>2, CellsInOrder
<1>2. idx \in [Axes -> Cells]
  BY <1>1
<1>3. TileOfRow(r) = Flatten(idx)
  BY DEF TileOfRow
<1>4. \A a \in Axes : CellOf(a, q.low[a]) <= idx[a] /\ idx[a] <= CellOf(a, q.high[a])
  BY <1>1
<1> HIDE DEF idx
<1> QED
  BY <1>2, <1>3, <1>4 DEF Routed
-----------------------------------------------------------------------------
(* The rows held out.                                                      *)

LEMMA SmallerOf ==
  ASSUME NEW a \in Nat, NEW b \in Nat
  PROVE  Min({a, b}) = IF a <= b THEN a ELSE b
<1>1. CASE a <= b
  <2>1. a \in {a, b} /\ \A y \in {a, b} : a <= y
    BY <1>1
  <2>2. \A x \in {a, b} : (\A y \in {a, b} : x <= y) => x = a
    BY <1>1
  <2> QED
    BY <1>1, <2>1, <2>2 DEF Min
<1>2. CASE ~(a <= b)
  <2>1. b \in {a, b} /\ \A y \in {a, b} : b <= y
    BY <1>2
  <2>2. \A x \in {a, b} : (\A y \in {a, b} : x <= y) => x = b
    BY <1>2
  <2> QED
    BY <1>2, <2>1, <2>2 DEF Min
<1> QED
  BY <1>1, <1>2

\* One row observed: the heap keeps holding the highest of those seen.
LEMMA ObserveKeepsHighest ==
  ASSUME NEW seen \in SUBSET Scored, NEW r \in RowIds, r \notin seen, budget \in Nat,
         Highest(heap, seen), Observe(r)
  PROVE  Highest(heap', IF Score[r] > 0 THEN seen \union {r} ELSE seen)
<1>1. /\ seen \in SUBSET RowIds /\ IsFiniteSet(seen) /\ Cardinality(seen) \in Nat
      /\ heap \in SUBSET seen /\ heap \in SUBSET RowIds
      /\ IsFiniteSet(heap) /\ Cardinality(heap) \in Nat
      /\ \A s \in RowIds : Score[s] \in Nat
  BY RowsFinite DEF Scored, Highest
<1>2. /\ Cardinality(heap) = IF budget <= Cardinality(seen) THEN budget ELSE Cardinality(seen)
      /\ \A s \in seen \ heap, k \in heap : Score[s] <= Score[k]
  BY <1>1, SmallerOf DEF Highest
<1>3. CASE Score[r] = 0 /\ heap' = heap
  BY <1>3
<1>4. CASE budget = 0 /\ Score[r] > 0
  <2>1. heap = {} /\ heap' = {}
    <3>1. Cardinality(heap) = 0
      BY <1>1, <1>2, <1>4
    <3>2. heap = {}
      BY <1>1, <3>1, FS_EmptySet
    <3> QED
      BY <1>4, <3>1, <3>2 DEF Observe
  <2>2. IsFiniteSet(seen \union {r}) /\ Cardinality(seen \union {r}) \in Nat /\ Cardinality({}) = 0
    BY <1>1, FS_AddElement, FS_CardinalityType, FS_EmptySet
  <2>3. Min({budget, Cardinality(seen \union {r})}) = 0
    <3>1. budget \in Nat /\ budget <= Cardinality(seen \union {r})
      BY <1>4, <2>2
    <3> QED
      BY ONLY <1>4, <2>2, <3>1, SmallerOf
  <2> QED
    BY <1>4, <2>1, <2>2, <2>3 DEF Highest
<1>5. CASE Score[r] > 0 /\ Cardinality(heap) < budget /\ heap' = heap \union {r}
  <2>1. heap = seen
    <3>1. Cardinality(seen) = Cardinality(heap)
      BY <1>1, <1>2, <1>5
    <3> QED
      BY <1>1, <3>1, FS_Subset
  <2>2. /\ IsFiniteSet(seen \union {r})
        /\ Cardinality(seen \union {r}) = Cardinality(seen) + 1
    BY <1>1, FS_AddElement
  <2>3. Min({budget, Cardinality(seen \union {r})}) = Cardinality(seen \union {r})
    BY <1>1, <1>5, <2>1, <2>2, SmallerOf
  <2> QED
    BY <1>5, <2>1, <2>3 DEF Highest
<1>6. CASE /\ Score[r] > 0 /\ budget > 0 /\ Cardinality(heap) = budget
           /\ \E low \in Lowest(heap) :
                heap' = IF Displaces(r, low) THEN (heap \ {low}) \union {r} ELSE heap
  <2>1. PICK low \in Lowest(heap) :
          heap' = IF Displaces(r, low) THEN (heap \ {low}) \union {r} ELSE heap
    BY <1>6
  <2>2. low \in heap /\ \A k \in heap : Score[low] <= Score[k]
    BY DEF Lowest
  <2>3. /\ IsFiniteSet(seen \union {r})
        /\ Cardinality(seen \union {r}) = Cardinality(seen) + 1
        /\ budget <= Cardinality(seen)
    <3>1. Cardinality(heap) <= Cardinality(seen)
      BY <1>1, FS_Subset
    <3> QED
      BY <1>1, <1>6, <3>1, FS_AddElement
  <2>4. Min({budget, Cardinality(seen \union {r})}) = budget
    <3>1. budget \in Nat /\ Cardinality(seen \union {r}) \in Nat
          /\ budget <= Cardinality(seen \union {r})
      BY <1>1, <2>3
    <3> QED
      BY ONLY <3>1, SmallerOf
  <2>5. CASE Score[r] > Score[low]
    <3>1. heap' = (heap \ {low}) \union {r}
      BY <2>1, <2>5 DEF Displaces
    <3>2. Cardinality(heap') = budget
      <4>1. IsFiniteSet(heap \ {low}) /\ Cardinality(heap \ {low}) = budget - 1
        BY <1>1, <1>6, <2>2, FS_RemoveElement
      <4>2. r \notin heap \ {low}
        BY <1>1
      <4>3. Cardinality((heap \ {low}) \union {r}) = budget - 1 + 1
        BY <4>1, <4>2, FS_AddElement
      <4> QED
        BY <3>1, <4>3
    <3>3. ASSUME NEW s \in (seen \union {r}) \ heap', NEW k \in heap'
          PROVE  Score[s] <= Score[k]
      <4>1. s \in seen /\ (s = low \/ s \notin heap) /\ (k = r \/ k \in heap)
        BY <3>1, <3>3
      <4>2. Score[s] <= Score[low]
        BY <1>1, <1>2, <2>2, <4>1
      <4>3. Score[low] <= Score[k]
        BY <1>1, <2>2, <2>5, <4>1
      <4>4. Score[s] \in Nat /\ Score[low] \in Nat /\ Score[k] \in Nat
        BY <1>1, <2>2, <4>1
      <4> QED
        BY <4>2, <4>3, <4>4
    <3>4. heap' \subseteq seen \union {r}
      BY <1>1, <3>1
    <3> QED
      BY <1>6, <2>4, <3>2, <3>3, <3>4 DEF Highest
  <2>6. CASE ~(Score[r] > Score[low])
    <3>1. heap' = heap
      BY <2>1, <2>6 DEF Displaces
    <3>2. ASSUME NEW s \in (seen \union {r}) \ heap, NEW k \in heap
          PROVE  Score[s] <= Score[k]
      <4>1. CASE s = r
        <5>1. Score[r] <= Score[low] /\ Score[low] <= Score[k]
          BY <1>1, <2>2, <2>6
        <5>2. Score[r] \in Nat /\ Score[low] \in Nat /\ Score[k] \in Nat
          BY <1>1, <2>2
        <5> QED
          BY <4>1, <5>1, <5>2
      <4>2. CASE s # r
        BY <1>2, <3>2, <4>2
      <4> QED
        BY <4>1, <4>2
    <3> QED
      BY <1>1, <1>6, <2>4, <3>1, <3>2 DEF Highest
  <2> QED
    BY <2>5, <2>6
<1>7. \/ Score[r] = 0 /\ heap' = heap
      \/ budget = 0 /\ Score[r] > 0
      \/ Score[r] > 0 /\ Cardinality(heap) < budget /\ heap' = heap \union {r}
      \/ /\ Score[r] > 0 /\ budget > 0 /\ Cardinality(heap) = budget
         /\ \E low \in Lowest(heap) :
              heap' = IF Displaces(r, low) THEN (heap \ {low}) \union {r} ELSE heap
  BY <1>1 DEF Observe
<1> QED
  BY <1>3, <1>4, <1>5, <1>6, <1>7

-----------------------------------------------------------------------------
(* The tiles of a grid.                                                    *)

\* A primitive recursion up to n has a solution.
LEMMA RecursionExists ==
  ASSUME NEW n \in Nat, NEW base \in Nat, NEW step \in [1 .. n -> [Nat -> Nat]]
  PROVE  \E f \in [0 .. n -> Nat] :
           f = [a \in 0 .. n |-> IF a = 0 THEN base ELSE step[a][f[a - 1]]]
<1> DEFINE Solves(f, m) ==
             /\ f \in [0 .. m -> Nat]
             /\ \A a \in 0 .. m : f[a] = IF a = 0 THEN base ELSE step[a][f[a - 1]]
           Solvable(m) == \E f : Solves(f, m)
           Bad == {m \in 0 .. n : ~Solvable(m)}
<1>1. ASSUME Bad # {} PROVE FALSE
  <2>1. PICK m \in Bad : \A k \in Bad : m <= k
    <3>1. Bad \in SUBSET Nat
      OBVIOUS
    <3> HIDE DEF Bad
    <3> QED
      BY <1>1, <3>1, LeastNat
  <2>2. m # 0
    <3>1. Solves([a \in 0 .. 0 |-> base], 0)
      OBVIOUS
    <3> QED
      BY <3>1
  <2>3. m - 1 \in 0 .. n /\ m - 1 \notin Bad /\ m \in 1 .. n
    <3> HIDE DEF Solvable
    <3>1. m \in 0 .. n
      BY <2>1
    <3>2. m - 1 \in 0 .. n /\ m \in 1 .. n /\ m - 1 \in Int /\ ~(m <= m - 1)
      BY <2>2, <3>1
    <3> HIDE DEF Bad
    <3> QED
      BY <2>1, <3>2
  <2>4. PICK f : Solves(f, m - 1)
    BY <2>3
  <2> DEFINE g == [a \in 0 .. m |-> IF a = m THEN step[m][f[m - 1]] ELSE f[a]]
  <2>5. /\ f[m - 1] \in Nat /\ step[m][f[m - 1]] \in Nat
        /\ \A a \in 0 .. m - 1 : f[a] \in Nat
    <3>1. m - 1 \in 0 .. m - 1 /\ f \in [0 .. m - 1 -> Nat] /\ step[m] \in [Nat -> Nat]
      BY <2>3, <2>4
    <3> QED
      BY <3>1
  <2>6. g \in [0 .. m -> Nat]
    BY <2>3, <2>5
  <2>7. ASSUME NEW a \in 0 .. m
        PROVE  g[a] = IF a = 0 THEN base ELSE step[a][g[a - 1]]
    <3>1. CASE a = m
      <4>1. m - 1 \in 0 .. m /\ m - 1 # m /\ a # 0
        BY ONLY <3>1, <2>3, n \in Nat
      <4>2. g[a] = step[m][f[m - 1]] /\ g[m - 1] = f[m - 1]
        BY <3>1, <4>1
      <4> QED
        BY <3>1, <4>1, <4>2
    <3>2. CASE a # m
      <4>1. a \in 0 .. m - 1 /\ g[a] = f[a] /\ (a # 0 => a - 1 \in 0 .. m /\ a - 1 # m)
        BY <3>2, <2>3
      <4>2. f[a] = IF a = 0 THEN base ELSE step[a][f[a - 1]]
        BY <4>1, <2>4
      <4>3. a # 0 => g[a - 1] = f[a - 1]
        BY <4>1
      <4> HIDE DEF g
      <4> QED
        BY <4>1, <4>2, <4>3
    <3> QED
      BY <3>1, <3>2
  <2>8. Solves(g, m)
    BY <2>6, <2>7
  <2> QED
    BY <2>1, <2>8
<1>2. n \in 0 .. n /\ n \notin Bad
  <2> HIDE DEF Bad
  <2> QED
    BY <1>1
<1>3. PICK f : Solves(f, n)
  BY <1>2
<1>4. f = [a \in 0 .. n |-> f[a]]
  BY <1>3
<1> QED
  BY <1>3, <1>4

\* The number of tiles over the first axes multiplies up.
LEMMA TilesOverRec ==
  /\ TilesOver[0] = 1
  /\ \A a \in Axes : TilesOver[a] = TilesOver[a - 1] * K
  /\ \A a \in 0 .. Dims : TilesOver[a] \in Nat \ {0}
<1> DEFINE times == [a \in 1 .. Dims |-> [x \in Nat |-> x * K]]
<1>1. times \in [1 .. Dims -> [Nat -> Nat]] /\ Dims \in Nat /\ 1 \in Nat
  <2>1. \A x \in Nat : x * K \in Nat
    OBVIOUS
  <2> QED
    BY <2>1
<1>2. PICK f \in [0 .. Dims -> Nat] :
        f = [a \in 0 .. Dims |-> IF a = 0 THEN 1 ELSE times[a][f[a - 1]]]
  <2> HIDE DEF times
  <2> QED
    BY ONLY <1>1, RecursionExists, ZenonT(60)
<1>3. ASSUME NEW a \in 0 .. Dims, a # 0
      PROVE  times[a][f[a - 1]] = f[a - 1] * K
  <2>1. a \in 1 .. Dims /\ f[a - 1] \in Nat
    BY <1>3
  <2> QED
    BY <2>1
<1> HIDE DEF times
<1>4. f = [a \in 0 .. Dims |-> IF a = 0 THEN 1 ELSE f[a - 1] * K]
  BY <1>2, <1>3
<1>5. TilesOver = [a \in 0 .. Dims |-> IF a = 0 THEN 1 ELSE TilesOver[a - 1] * K]
  BY <1>4 DEF TilesOver
<1>6. TilesOver[0] = 1 /\ \A a \in Axes : TilesOver[a] = TilesOver[a - 1] * K
  <2>1. \A a \in 0 .. Dims : TilesOver[a] = IF a = 0 THEN 1 ELSE TilesOver[a - 1] * K
    BY <1>5
  <2>2. 0 \in 0 .. Dims /\ \A a \in Axes : a \in 0 .. Dims /\ a # 0
    BY DEF Axes
  <2> QED
    BY <2>1, <2>2
<1> DEFINE Bad == {a \in 0 .. Dims : TilesOver[a] \notin Nat \ {0}}
<1>7. ASSUME Bad # {} PROVE FALSE
  <2>1. PICK a \in Bad : \A b \in Bad : a <= b
    <3>1. Bad \in SUBSET Nat
      OBVIOUS
    <3> HIDE DEF Bad
    <3> QED
      BY <1>7, <3>1, LeastNat
  <2>2. a \in Axes /\ a - 1 \in 0 .. Dims /\ a - 1 \notin Bad
    BY <2>1, <1>6 DEF Axes
  <2>3. TilesOver[a - 1] \in Nat \ {0} /\ TilesOver[a] = TilesOver[a - 1] * K
    BY <2>2, <1>6
  <2>4. \A x \in Nat \ {0}, y \in Nat \ {0} : x * y \in Nat \ {0}
    OBVIOUS
  <2> QED
    BY <2>1, <2>3, <2>4
<1> QED
  BY <1>6, <1>7

\* One more digit.
LEMMA DigitFits ==
  ASSUME NEW x \in Nat, NEW t \in Nat, NEW k \in Nat, NEW d \in Nat, x < t, d < k
  PROVE  x * k + d \in Nat /\ x * k + d < t * k
<1>1. t - x - 1 \in Nat /\ (t - x - 1) * k \in Nat
  OBVIOUS
<1>2. t * k = x * k + k + (t - x - 1) * k
  OBVIOUS
<1> QED
  BY <1>1, <1>2

\* The number of a cell is one of a tile.
LEMMA FlattenInRange ==
  ASSUME NEW idx \in [Axes -> Cells]
  PROVE  Flatten(idx) \in 0 .. TileCount - 1
<1> DEFINE shift == [a \in 1 .. Dims |-> [x \in Nat |-> x * K + idx[a]]]
<1>1. shift \in [1 .. Dims -> [Nat -> Nat]] /\ Dims \in Nat /\ 0 \in Nat
  <2>1. \A a \in 1 .. Dims, x \in Nat : x * K + idx[a] \in Nat
    BY DEF Axes, Cells
  <2> QED
    BY <2>1
<1>2. PICK f \in [0 .. Dims -> Nat] :
        f = [a \in 0 .. Dims |-> IF a = 0 THEN 0 ELSE shift[a][f[a - 1]]]
  <2> HIDE DEF shift
  <2> QED
    BY ONLY <1>1, RecursionExists, ZenonT(60)
<1>3. ASSUME NEW a \in 0 .. Dims, a # 0
      PROVE  shift[a][f[a - 1]] = f[a - 1] * K + idx[a]
  <2>1. a \in 1 .. Dims /\ f[a - 1] \in Nat
    BY <1>3
  <2> QED
    BY <2>1
<1> HIDE DEF shift
<1>4. f = [a \in 0 .. Dims |-> IF a = 0 THEN 0 ELSE f[a - 1] * K + idx[a]]
  BY <1>2, <1>3
<1>5. PICK flat : /\ flat = [a \in 0 .. Dims |-> IF a = 0 THEN 0 ELSE flat[a - 1] * K + idx[a]]
                  /\ Flatten(idx) = flat[Dims]
  BY <1>4 DEF Flatten
<1>6. flat[0] = 0 /\ \A a \in Axes : flat[a] = flat[a - 1] * K + idx[a]
  <2>1. \A a \in 0 .. Dims : flat[a] = IF a = 0 THEN 0 ELSE flat[a - 1] * K + idx[a]
    BY <1>5
  <2>2. 0 \in 0 .. Dims /\ \A a \in Axes : a \in 0 .. Dims /\ a # 0
    BY DEF Axes
  <2> QED
    BY <2>1, <2>2
<1> DEFINE Fits(a) == flat[a] \in Nat /\ flat[a] < TilesOver[a]
           Bad     == {a \in 0 .. Dims : ~Fits(a)}
<1>7. ASSUME Bad # {} PROVE FALSE
  <2>1. PICK a \in Bad : \A b \in Bad : a <= b
    <3>1. Bad \in SUBSET Nat
      OBVIOUS
    <3> HIDE DEF Bad
    <3> QED
      BY <1>7, <3>1, LeastNat
  <2>2. a \in Axes /\ a - 1 \in 0 .. Dims /\ a - 1 \notin Bad
    <3>1. Fits(0)
      BY <1>6, TilesOverRec
    <3> HIDE DEF Fits
    <3>2. a \in 0 .. Dims /\ ~Fits(a) /\ a # 0
      BY <2>1, <3>1
    <3>3. a \in Axes /\ a - 1 \in 0 .. Dims /\ ~(a <= a - 1)
      BY <3>2 DEF Axes
    <3> HIDE DEF Bad
    <3> QED
      BY <2>1, <3>3
  <2>3. /\ TilesOver[a - 1] \in Nat /\ flat[a - 1] \in Nat /\ flat[a - 1] < TilesOver[a - 1]
        /\ K \in Nat /\ idx[a] \in Nat /\ idx[a] < K
        /\ TilesOver[a] = TilesOver[a - 1] * K /\ flat[a] = flat[a - 1] * K + idx[a]
    BY <2>2, <1>6, TilesOverRec DEF Cells
  <2>4. flat[a - 1] * K + idx[a] \in Nat /\ flat[a - 1] * K + idx[a] < TilesOver[a - 1] * K
    BY ONLY <2>3, DigitFits
  <2>5. Fits(a)
    BY <2>3, <2>4
  <2> QED
    BY <2>1, <2>5
<1>8. flat[Dims] \in Nat /\ flat[Dims] < TilesOver[Dims] /\ TilesOver[Dims] \in Nat
  BY <1>7, TilesOverRec
<1> HIDE DEF Bad
<1> QED
  BY <1>5, <1>8 DEF TileCount


LEMMA TilesAreCells ==
  ASSUME threshold \in RoundedAxes, NEW r \in RowIds
  PROVE  TileOfRow(r) \in 0 .. TileCount - 1 /\ TileId(TileOfRow(r)) \in Tiles
<1> DEFINE idx == [a \in Axes |-> CellOf(a, Point[r][a])]
<1>1. \A a \in Axes : Point[r][a] \in Int
  BY DEF Vec
<1>2. idx \in [Axes -> Cells]
  <2>1. \A a \in Axes : CellOf(a, Point[r][a]) \in Cells
    BY <1>1, CellsInOrder
  <2> QED
    BY <2>1
<1>3. TileOfRow(r) = Flatten(idx)
  BY DEF TileOfRow
<1>4. TileOfRow(r) \in 0 .. TileCount - 1
  <2> HIDE DEF idx
  <2> QED
    BY <1>2, <1>3, FlattenInRange
<1>5. TileCount \in Nat
  BY TilesOverRec DEF TileCount
<1> QED
  BY <1>4, <1>5 DEF TileId, Tiles

LEMMA EdgesAreIntegers ==
  ASSUME edge \in RoundedAxes, NEW a \in Axes
  PROVE  \A i \in 1 .. K - 1 : edge[a][i] \in Int
<1>1. RootBounds.low[a] \in Int /\ RootBounds.high[a] \in Int
  BY DEF RootBounds, Rect, Vec
<1>2. edge[a] \in Rounded(a)
  BY DEF RoundedAxes
<1>3. edge[a] \in [1 .. K - 1 -> RootBounds.low[a] .. RootBounds.high[a]]
  BY <1>2 DEF Rounded
<1> QED
  BY <1>1, <1>3

LEMMA TileBoundsAreRectangles ==
  ASSUME edge \in RoundedAxes, NEW c \in Nat
  PROVE  TileBounds(c) \in Rect
<1> DEFINE idx == TileIndex(c)
           low  == [a \in Axes |-> IF idx[a] = 0 THEN RootBounds.low[a] ELSE edge[a][idx[a]]]
           high == [a \in Axes |-> IF idx[a] = K - 1 THEN RootBounds.high[a]
                                   ELSE edge[a][idx[a] + 1]]
<1>1. ASSUME NEW a \in Axes PROVE idx[a] \in 0 .. K - 1
  <2>1. Dims - a \in 0 .. Dims
    BY DEF Axes
  <2>2. TilesOver[Dims - a] \in Nat \ {0}
    BY <2>1, TilesOverRec
  <2>3. \A t \in Nat \ {0} : (c \div t) \in Nat
    OBVIOUS
  <2>4. \A x \in Nat : x % K \in 0 .. K - 1
    OBVIOUS
  <2>5. idx[a] = (c \div TilesOver[Dims - a]) % K
    BY DEF TileIndex
  <2> HIDE DEF idx
  <2> QED
    BY <2>2, <2>3, <2>4, <2>5
<1>2. \A a \in Axes : RootBounds.low[a] \in Int /\ RootBounds.high[a] \in Int
  BY DEF RootBounds, Rect, Vec
<1> HIDE DEF idx
<1>3. ASSUME NEW a \in Axes PROVE low[a] \in Int /\ high[a] \in Int
  <2>1. CASE idx[a] = 0
    BY <1>1, <1>2, <2>1, EdgesAreIntegers
  <2>2. CASE idx[a] # 0
    BY <1>1, <1>2, <2>2, EdgesAreIntegers
  <2> QED
    BY <2>1, <2>2
<1>4. low \in Vec /\ high \in Vec
  <2>1. low = [a \in Axes |-> low[a]] /\ high = [a \in Axes |-> high[a]]
    OBVIOUS
  <2> HIDE DEF low, high
  <2> QED
    BY <1>3, <2>1 DEF Vec
<1>5. TileBounds(c) = [low |-> low, high |-> high]
  BY DEF TileBounds, idx
<1> HIDE DEF low, high
<1> QED
  BY <1>4, <1>5 DEF Rect
-----------------------------------------------------------------------------
(* The counting sort is a permutation of the rows.                         *)

\* The rows that come before a row: those of earlier tiles, and those of its own
\* tile with a smaller id.
Earlier(r) == {s \in RowIds : \/ TileOfRow(s) < TileOfRow(r)
                              \/ TileOfRow(s) = TileOfRow(r) /\ s < r}

LEMMA SlotCountsEarlier ==
  ASSUME threshold \in RoundedAxes, NEW r \in RowIds
  PROVE  SlotOf(r) = Cardinality(Earlier(r)) /\ SlotOf(r) \in Positions
<1> DEFINE T == {s \in RowIds : TileOfRow(s) < TileOfRow(r)}
           M == {s \in InTile(TileOfRow(r)) : s < r}
<1>1. T \in SUBSET RowIds /\ M \in SUBSET RowIds /\ Earlier(r) \in SUBSET RowIds
  BY DEF InTile, Earlier
<1>2. \A s \in RowIds : TileOfRow(s) \in Int /\ s \in Int
  BY TilesAreCells DEF RowIds
<1>3. T \cap M = {} /\ T \union M = Earlier(r)
  BY <1>2 DEF InTile, Earlier
<1>4. SlotOf(r) = Cardinality(T) + Cardinality(M)
  BY DEF SlotOf, Offset
<1>5. Cardinality(Earlier(r)) = Cardinality(T) + Cardinality(M)
  <2>1. IsFiniteSet(T) /\ IsFiniteSet(M) /\ Cardinality(T) \in Nat /\ Cardinality(M) \in Nat
    BY <1>1, RowsFinite
  <2> HIDE DEF T, M
  <2>2. Cardinality(T \union M) = Cardinality(T) + Cardinality(M) - Cardinality(T \cap M)
    BY ONLY <2>1, FS_Union
  <2>3. Cardinality(T \cap M) = 0
    BY ONLY <1>3, FS_EmptySet
  <2>4. Cardinality(Earlier(r)) = Cardinality(T) + Cardinality(M) - 0
    BY ONLY <1>3, <2>2, <2>3, Zenon
  <2> QED
    BY ONLY <2>1, <2>4
<1>6. Cardinality(Earlier(r)) \in 0 .. N - 1
  <2>1. r \notin Earlier(r)
    BY <1>2 DEF Earlier
  <2>2. Earlier(r) \in SUBSET (RowIds \ {r})
    BY <1>1, <2>1
  <2>3. IsFiniteSet(RowIds \ {r}) /\ Cardinality(RowIds \ {r}) = N - 1
    BY RowsFinite, FS_RemoveElement
  <2>4. Cardinality(Earlier(r)) \in Nat /\ Cardinality(Earlier(r)) <= N - 1
    BY <1>1, <2>2, <2>3, RowsFinite, FS_Subset
  <2> QED
    BY <2>4
<1> QED
  BY <1>4, <1>5, <1>6 DEF Positions

\* A row that comes before another gets the smaller slot.
LEMMA SlotsInOrder ==
  ASSUME threshold \in RoundedAxes, NEW r \in RowIds, NEW s \in RowIds, r \in Earlier(s)
  PROVE  SlotOf(r) < SlotOf(s)
<1>1. \A x \in RowIds : TileOfRow(x) \in Int /\ x \in Int
  BY TilesAreCells DEF RowIds
<1>2. Earlier(r) \subseteq Earlier(s) /\ r \notin Earlier(r)
  BY <1>1 DEF Earlier
<1>3. Earlier(r) \in SUBSET (Earlier(s) \ {r}) /\ Earlier(s) \in SUBSET RowIds
  BY <1>2 DEF Earlier
<1>4. /\ IsFiniteSet(Earlier(s)) /\ Cardinality(Earlier(s)) \in Nat
      /\ IsFiniteSet(Earlier(s) \ {r})
      /\ Cardinality(Earlier(s) \ {r}) = Cardinality(Earlier(s)) - 1
  BY <1>3, RowsFinite, FS_RemoveElement
<1>5. Cardinality(Earlier(r)) <= Cardinality(Earlier(s)) - 1
  BY <1>3, <1>4, FS_Subset
<1>6. SlotOf(r) = Cardinality(Earlier(r)) /\ SlotOf(s) = Cardinality(Earlier(s))
      /\ SlotOf(r) \in Int
  BY SlotCountsEarlier DEF Positions
<1> QED
  BY <1>4, <1>5, <1>6

LEMMA SlotsDiffer ==
  ASSUME threshold \in RoundedAxes, NEW r \in RowIds, NEW s \in RowIds, SlotOf(r) = SlotOf(s)
  PROVE  r = s
<1>1. \A x \in RowIds : TileOfRow(x) \in Int /\ x \in Int /\ SlotOf(x) \in Int
  <2>1. \A x \in RowIds : TileOfRow(x) \in 0 .. TileCount - 1
    BY TilesAreCells
  <2>2. \A x \in RowIds : SlotOf(x) \in 0 .. N - 1
    BY SlotCountsEarlier DEF Positions
  <2>3. N \in Nat /\ TileCount \in Nat
    BY TilesOverRec DEF TileCount
  <2> QED
    BY ONLY <2>1, <2>2, <2>3 DEF RowIds
<1>2. r = s \/ r \in Earlier(s) \/ s \in Earlier(r)
  BY <1>1 DEF Earlier
<1> QED
  BY <1>1, <1>2, SlotsInOrder

\* Every slot has one row.
LEMMA SlotsPermute ==
  ASSUME threshold \in RoundedAxes, NEW p \in Positions
  PROVE  RowFor(p) \in RowIds /\ SlotOf(RowFor(p)) = p
<1>1. \E r \in RowIds : SlotOf(r) = p
  <2> SUFFICES ASSUME \A r \in RowIds : SlotOf(r) # p PROVE FALSE
    OBVIOUS
  <2> DEFINE f == [r \in RowIds |-> SlotOf(r)]
  <2>1. f \in [RowIds -> Positions \ {p}]
    BY SlotCountsEarlier
  <2>2. /\ IsFiniteSet(Positions \ {p}) /\ Cardinality(Positions \ {p}) = N - 1
        /\ IsFiniteSet(RowIds) /\ Cardinality(RowIds) = N /\ N - 1 < N
    BY RowsFinite, FS_RemoveElement
  <2>3. \E x, y \in RowIds : x # y /\ f[x] = f[y]
    <3> HIDE DEF f
    <3>1. Cardinality(Positions \ {p}) < Cardinality(RowIds)
      BY <2>2
    <3> QED
      BY ONLY <2>1, <2>2, <3>1, FS_PigeonHole
  <2> QED
    BY <2>3, SlotsDiffer
<1> QED
  BY <1>1 DEF RowFor

\* The offsets of the tiles: where the rows of the tiles before them end.
LEMMA OffsetsInOrder ==
  ASSUME threshold \in RoundedAxes
  PROVE  /\ Offset(0) = 0 /\ Offset(TileCount) = N
         /\ \A c \in Nat : Offset(c) \in 0 .. N
         /\ \A c \in Nat, d \in Nat : c <= d => Offset(c) <= Offset(d)
<1> DEFINE before(c) == {r \in RowIds : TileOfRow(r) < c}
<1>1. \A r \in RowIds : TileOfRow(r) \in Nat /\ TileOfRow(r) < TileCount
  BY TilesAreCells, TilesOverRec DEF TileCount
<1>2. \A c : before(c) \in SUBSET RowIds
  OBVIOUS
<1>3. \A c : Offset(c) = Cardinality(before(c))
  BY DEF Offset
<1>4. before(0) = {} /\ before(TileCount) = RowIds
  BY <1>1
<1>5. \A c, d \in Nat : c <= d => before(c) \subseteq before(d)
  BY <1>1
<1> HIDE DEF before
<1>6. \A c \in Nat : Offset(c) \in 0 .. N
  BY <1>2, <1>3, RowsFinite
<1>7. ASSUME NEW c \in Nat, NEW d \in Nat, c <= d PROVE Offset(c) <= Offset(d)
  BY <1>2, <1>3, <1>5, <1>7, RowsFinite, FS_Subset
<1> QED
  BY <1>3, <1>4, <1>6, <1>7, RowsFinite, FS_EmptySet

\* A row's slot lies in the range of its tile, and only there.
LEMMA SlotInTile ==
  ASSUME threshold \in RoundedAxes, NEW r \in RowIds, NEW c \in Nat
  PROVE  Offset(c) <= SlotOf(r) /\ SlotOf(r) < Offset(c + 1) <=> TileOfRow(r) = c
<1>1. /\ \A x \in RowIds : TileOfRow(x) \in Nat /\ x \in Int
      /\ SlotOf(r) \in Nat /\ SlotOf(r) = Cardinality(Earlier(r))
      /\ \A d \in Nat : Offset(d) \in Nat
  <2>1. \A x \in RowIds : TileOfRow(x) \in 0 .. TileCount - 1
    BY TilesAreCells
  <2>2. SlotOf(r) \in 0 .. N - 1 /\ SlotOf(r) = Cardinality(Earlier(r))
    BY SlotCountsEarlier DEF Positions
  <2>3. \A d \in Nat : Offset(d) \in 0 .. N
    BY OffsetsInOrder
  <2>4. TileCount \in Nat
    BY TilesOverRec DEF TileCount
  <2>5. N \in Nat
    OBVIOUS
  <2> QED
    BY ONLY <2>1, <2>2, <2>3, <2>4, <2>5 DEF RowIds
<1> DEFINE t == TileOfRow(r)
           before(d) == {s \in RowIds : TileOfRow(s) < d}
<1>2. t \in Nat /\ t + 1 \in Nat
  BY <1>1
<1>3. Offset(t) <= SlotOf(r)
  <2>1. before(t) \in SUBSET Earlier(r) /\ Earlier(r) \in SUBSET RowIds
    BY DEF Earlier
  <2>2. Cardinality(before(t)) <= Cardinality(Earlier(r))
    BY <2>1, RowsFinite, FS_Subset
  <2> QED
    BY <2>2, <1>1 DEF Offset
<1>4. SlotOf(r) < Offset(t + 1)
  <2>1. Earlier(r) \in SUBSET (before(t + 1) \ {r}) /\ r \in before(t + 1)
    BY <1>1, <1>2 DEF Earlier
  <2>2. before(t + 1) \in SUBSET RowIds
    OBVIOUS
  <2>3. Offset(t + 1) = Cardinality(before(t + 1))
    BY DEF Offset
  <2> HIDE DEF before, t
  <2>4. IsFiniteSet(before(t + 1)) /\ Cardinality(before(t + 1)) \in Nat
    BY <2>2, RowsFinite
  <2>5. /\ IsFiniteSet(before(t + 1) \ {r})
        /\ Cardinality(before(t + 1) \ {r}) = Cardinality(before(t + 1)) - 1
    BY <2>1, <2>4, FS_RemoveElement
  <2>6. Cardinality(Earlier(r)) <= Cardinality(before(t + 1)) - 1
    BY <2>1, <2>5, FS_Subset
  <2> QED
    BY <1>1, <2>3, <2>4, <2>6
<1> HIDE DEF t
<1>5. CASE t = c
  BY <1>3, <1>4, <1>5 DEF t
<1>6. CASE t < c
  <2>1. Offset(t + 1) <= Offset(c)
    BY <1>2, <1>6, OffsetsInOrder
  <2> QED
    BY <1>1, <1>2, <1>4, <1>6, <2>1 DEF t
<1>7. CASE c < t
  <2>1. c + 1 \in Nat /\ Offset(c + 1) <= Offset(t)
    BY <1>2, <1>7, OffsetsInOrder
  <2> QED
    BY <1>1, <1>2, <1>3, <1>7, <2>1 DEF t
<1> QED
  BY <1>2, <1>5, <1>6, <1>7

-----------------------------------------------------------------------------
(* The grid as BuildGrid lays it out.                                      *)

LEMMA GridNodes ==
  ASSUME ConfigSound, BuildGrid
  PROVE  /\ nodeCount' \in Nat \ {0} /\ Ids' = {0} \union Tiles /\ 0 \notin Tiles
         /\ nodes' \in [Ids' -> Node]
         /\ nodes'[0].begin = 0 /\ nodes'[0].end = N /\ ~nodes'[0].leaf
         /\ \A i \in Tiles : /\ nodes'[i].leaf /\ i - 1 \in Nat
                             /\ nodes'[i].begin = Offset(i - 1) /\ nodes'[i].end = Offset(i)
                             /\ Offset(i - 1) \in 0 .. N /\ Offset(i) \in 0 .. N
                             /\ Offset(i - 1) <= Offset(i)
<1> DEFINE bounds == [c \in 1 .. TileCount |-> TileBounds(c - 1)]
           begin  == [c \in 1 .. TileCount |-> Offset(c - 1)]
           record(i) == [bounds |-> IF i = 0 THEN RootBounds ELSE bounds[i],
                         begin  |-> IF i = 0 THEN 0 ELSE begin[i],
                         end    |-> IF i \in {0, TileCount} THEN N ELSE begin[i + 1],
                         leaf   |-> i # 0, left |-> 0, right |-> 0]
<1>1. TileCount \in Nat \ {0}
  BY TilesOverRec DEF TileCount
<1>2. Len(bounds) = TileCount
  BY <1>1
<1>3. nodeCount' = 1 + TileCount /\ nodes' = [i \in 0 .. TileCount |-> record(i)]
  <2>1. ResetWithChildren(RootBounds, bounds, begin)
    BY DEF BuildGrid
  <2> HIDE DEF bounds, begin
  <2> QED
    BY <1>2, <2>1 DEF ResetWithChildren
<1>4. Ids' = 0 .. TileCount /\ Ids' = {0} \union Tiles /\ 0 \notin Tiles
  <2>1. Ids' = 0 .. nodeCount' - 1
    BY DEF Ids
  <2>2. nodeCount' - 1 = TileCount
    BY <1>1, <1>3
  <2>3. 0 .. TileCount = {0} \union (1 .. TileCount) /\ 0 \notin 1 .. TileCount
    BY <1>1
  <2> QED
    BY <2>1, <2>2, <2>3 DEF Tiles
<1>5. edge \in RoundedAxes /\ threshold \in RoundedAxes
  BY DEF ConfigSound
<1>6. /\ Offset(0) = 0 /\ Offset(TileCount) = N
      /\ \A c \in Nat : Offset(c) \in 0 .. N
      /\ \A c \in Nat, d \in Nat : c <= d => Offset(c) <= Offset(d)
  BY <1>5, OffsetsInOrder
<1>7. RootBounds \in Rect
  BY DEF RootBounds, Rect, Vec
<1>8. /\ nodes'[0].begin = 0 /\ nodes'[0].end = N /\ ~nodes'[0].leaf
      /\ nodes'[0] \in Node
  <2>1. nodes'[0] = record(0)
    BY <1>1, <1>3
  <2>2. record(0) = [bounds |-> RootBounds, begin |-> 0, end |-> N, leaf |-> FALSE,
                     left |-> 0, right |-> 0]
    OBVIOUS
  <2>3. record(0) \in Node
    BY <1>7, <2>2 DEF Node
  <2> HIDE DEF record
  <2> QED
    BY <2>1, <2>2, <2>3
<1>9. ASSUME NEW i \in Tiles
      PROVE  /\ nodes'[i].leaf /\ i - 1 \in Nat
             /\ nodes'[i].begin = Offset(i - 1) /\ nodes'[i].end = Offset(i)
             /\ Offset(i - 1) \in 0 .. N /\ Offset(i) \in 0 .. N
             /\ Offset(i - 1) <= Offset(i)
             /\ nodes'[i] \in Node
  <2>1. /\ i \in 1 .. TileCount /\ i \in 0 .. TileCount /\ i # 0 /\ i - 1 \in Nat /\ i \in Nat
        /\ i - 1 <= i
    BY <1>1 DEF Tiles
  <2>2. /\ Offset(i - 1) \in 0 .. N /\ Offset(i) \in 0 .. N /\ Offset(i - 1) <= Offset(i)
    BY <1>6, <2>1
  <2>3. nodes'[i] = record(i)
    BY <1>3, <2>1
  <2>4. bounds[i] = TileBounds(i - 1) /\ begin[i] = Offset(i - 1)
    BY <2>1
  <2>5. (IF i \in {0, TileCount} THEN N ELSE begin[i + 1]) = Offset(i)
    <3>1. CASE i = TileCount
      BY <1>6, <3>1
    <3>2. CASE i # TileCount
      <4>1. i + 1 \in 1 .. TileCount /\ i + 1 - 1 = i
        BY <1>1, <2>1, <3>2
      <4> QED
        BY <2>1, <3>2, <4>1
    <3> QED
      BY <3>1, <3>2
  <2> HIDE DEF bounds, begin
  <2>6. record(i) = [bounds |-> TileBounds(i - 1), begin |-> Offset(i - 1), end |-> Offset(i),
                     leaf |-> TRUE, left |-> 0, right |-> 0]
    BY <2>1, <2>4, <2>5
  <2>7. TileBounds(i - 1) \in Rect
    BY <1>5, <2>1, TileBoundsAreRectangles
  <2>8. Offset(i - 1) \in Nat /\ Offset(i) \in Nat
    BY <2>2
  <2>9. record(i) \in Node
    BY <2>6, <2>7, <2>8 DEF Node
  <2> HIDE DEF record
  <2> QED
    BY <2>1, <2>2, <2>3, <2>6, <2>9
<1>10. nodes' \in [Ids' -> Node]
  <2>1. nodes' = [i \in Ids' |-> nodes'[i]]
    BY <1>3, <1>4
  <2>2. \A i \in Ids' : nodes'[i] \in Node
    BY <1>4, <1>8, <1>9
  <2> QED
    BY <2>1, <2>2
<1>11. nodeCount' \in Nat \ {0}
  BY <1>1, <1>3
<1> QED
  BY ONLY <1>4, <1>8, <1>9, <1>10, <1>11

\* Where the sort puts the rows.
LEMMA GridRows ==
  ASSUME ConfigSound, BuildGrid
  PROVE  /\ rowAt' \in [Positions -> RowIds] /\ pointAt' \in [Positions -> Vec]
         /\ flagAt' = [p \in Positions |-> FALSE]
         /\ IsInjective(rowAt')
         /\ \A p \in Positions : pointAt'[p] = Point[rowAt'[p]]
         /\ \A p \in Positions, c \in Nat :
              Offset(c) <= p /\ p < Offset(c + 1) <=> TileOfRow(rowAt'[p]) = c
         /\ \A r \in RowIds : SlotOf(r) \in Positions /\ rowAt'[SlotOf(r)] = r
<1>1. /\ rowAt' = [p \in Positions |-> RowFor(p)]
      /\ pointAt' = [p \in Positions |-> Point[RowFor(p)]]
      /\ flagAt' = [p \in Positions |-> FALSE]
  BY DEF BuildGrid
<1>2. threshold \in RoundedAxes
  BY DEF ConfigSound
<1>3. \A p \in Positions : RowFor(p) \in RowIds /\ SlotOf(RowFor(p)) = p
  BY <1>2, SlotsPermute
<1>4. rowAt' \in [Positions -> RowIds] /\ pointAt' \in [Positions -> Vec]
      /\ \A p \in Positions : pointAt'[p] = Point[rowAt'[p]]
  BY <1>1, <1>3
<1>5. IsInjective(rowAt')
  <2>1. \A p, s \in Positions : rowAt'[p] = rowAt'[s] => p = s
    BY <1>1, <1>3
  <2>2. DOMAIN rowAt' = Positions
    BY <1>1
  <2> QED
    BY <2>1, <2>2 DEF IsInjective
<1>6. ASSUME NEW p \in Positions, NEW c \in Nat
      PROVE  Offset(c) <= p /\ p < Offset(c + 1) <=> TileOfRow(rowAt'[p]) = c
  <2>1. rowAt'[p] \in RowIds /\ SlotOf(rowAt'[p]) = p
    BY <1>1, <1>3
  <2>2. PICK r : r = rowAt'[p]
    OBVIOUS
  <2>3. Offset(c) <= SlotOf(r) /\ SlotOf(r) < Offset(c + 1) <=> TileOfRow(r) = c
    BY <1>2, <2>1, <2>2, SlotInTile
  <2> QED
    BY <2>1, <2>2, <2>3
<1>7. ASSUME NEW r \in RowIds PROVE SlotOf(r) \in Positions /\ rowAt'[SlotOf(r)] = r
  <2>1. SlotOf(r) \in Positions
    BY <1>2, SlotCountsEarlier
  <2>2. rowAt'[SlotOf(r)] = RowFor(SlotOf(r))
    BY <1>1, <2>1
  <2>3. RowFor(SlotOf(r)) \in RowIds /\ SlotOf(RowFor(SlotOf(r))) = SlotOf(r)
    BY <1>3, <2>1
  <2>4. RowFor(SlotOf(r)) = r
    BY <1>2, <2>3, SlotsDiffer
  <2> QED
    BY <2>1, <2>2, <2>4
<1> QED
  BY <1>1, <1>4, <1>5, <1>6, <1>7

LEMMA GridLaysOut ==
  ASSUME ConfigSound, PartitionsSound, FlagsSound, GridSound, BuildGrid
  PROVE  /\ PartitionsSound' /\ RowsAligned' /\ FlagsSound' /\ GridSound'
<1>1. /\ nodeCount' \in Nat \ {0} /\ Ids' = {0} \union Tiles /\ 0 \notin Tiles
      /\ nodes' \in [Ids' -> Node]
      /\ nodes'[0].begin = 0 /\ nodes'[0].end = N /\ ~nodes'[0].leaf
      /\ \A i \in Tiles : /\ nodes'[i].leaf /\ i - 1 \in Nat
                          /\ nodes'[i].begin = Offset(i - 1) /\ nodes'[i].end = Offset(i)
                          /\ Offset(i - 1) \in 0 .. N /\ Offset(i) \in 0 .. N
                          /\ Offset(i - 1) <= Offset(i)
  BY GridNodes
<1>2. /\ rowAt' \in [Positions -> RowIds] /\ pointAt' \in [Positions -> Vec]
      /\ flagAt' = [p \in Positions |-> FALSE]
      /\ IsInjective(rowAt')
      /\ \A p \in Positions : pointAt'[p] = Point[rowAt'[p]]
      /\ \A p \in Positions, c \in Nat :
           Offset(c) <= p /\ p < Offset(c + 1) <=> TileOfRow(rowAt'[p]) = c
      /\ \A r \in RowIds : SlotOf(r) \in Positions /\ rowAt'[SlotOf(r)] = r
  BY GridRows
<1>3. /\ phase = "build" /\ phase' = phase /\ substrate = "grid_akd" /\ owner = <<>>
      /\ owner' = [r \in RowIds |-> TileId(TileOfRow(r))]
      /\ crack' = crack /\ substrate' = substrate /\ persist' = persist /\ budget' = budget
      /\ edge' = edge /\ threshold' = threshold /\ flagged' = flagged
  BY DEF BuildGrid, configVars
<1>4. crack = NoCrack
  BY <1>3 DEF PartitionsSound
<1>5. /\ NoCrack \in Crack /\ NoCrack.leaf = 0 /\ NoCrack.at = 0 /\ NoCrack.retired = {}
      /\ ~NoCrack.on
  <2>1. EmptyRect \in Rect
    BY DEF EmptyRect, Rect, Vec
  <2> QED
    BY <2>1 DEF NoCrack, Crack
<1>6. /\ Span(nodes'[0]) = Positions
      /\ \A i \in Tiles : /\ Span(nodes'[i]) = Offset(i - 1) .. Offset(i) - 1
                          /\ \A p \in Span(nodes'[i]) : p \in Positions
  BY <1>1 DEF Span, Positions
<1>7. ASSUME NEW p \in Positions, NEW i \in Tiles
      PROVE  p \in Span(nodes'[i]) <=> TileOfRow(rowAt'[p]) = i - 1
  <2>1. i - 1 \in Nat /\ i - 1 + 1 = i /\ p \in Int /\ Offset(i - 1) \in Int /\ Offset(i) \in Int
    <3>1. i \in Int
      BY TilesOverRec DEF Tiles, TileCount
    <3> QED
      BY <1>1, <3>1 DEF Positions
  <2>2. Offset(i - 1) <= p /\ p < Offset(i) <=> TileOfRow(rowAt'[p]) = i - 1
    BY <1>2, <2>1
  <2> QED
    BY <1>6, <2>1, <2>2
<1>8. \A r \in RowIds : /\ TileOfRow(r) \in 0 .. TileCount - 1 /\ TileId(TileOfRow(r)) \in Tiles
                        /\ TileId(TileOfRow(r)) - 1 = TileOfRow(r)
  <2>1. \A r \in RowIds : TileOfRow(r) \in 0 .. TileCount - 1 /\ TileId(TileOfRow(r)) \in Tiles
    BY TilesAreCells DEF ConfigSound
  <2> QED
    BY <2>1, TilesOverRec DEF TileId, TileCount
<1>9. Ranges'
  BY <1>1 DEF Ranges
<1>10. CrackTypeOK'
  <2>1. flagAt' \in [Positions -> BOOLEAN]
    BY <1>2
  <2> QED
    BY <1>1, <1>2, <1>3, <1>4, <1>5, <2>1 DEF CrackTypeOK
<1>11. Covered'
  <2> SUFFICES ASSUME NEW p \in Positions
               PROVE  \E i \in Ids' : nodes'[i].leaf /\ p \in Span(nodes'[i])
    BY DEF Covered, PositionsOf
  <2>1. rowAt'[p] \in RowIds
    BY <1>2
  <2>2. PICK i : i = TileId(TileOfRow(rowAt'[p]))
    OBVIOUS
  <2>3. i \in Tiles /\ TileOfRow(rowAt'[p]) = i - 1
    BY <1>8, <2>1, <2>2
  <2> QED
    BY <1>1, <1>7, <2>3
<1>12. Nested'
  <2> SUFFICES ASSUME NEW i \in Ids', NEW j \in Ids', nodes'[i].leaf, i # j
               PROVE  \/ Span(nodes'[i]) \cap Span(nodes'[j]) = {}
                      \/ Span(nodes'[i]) \subseteq Span(nodes'[j]) /\ ~nodes'[j].leaf
    BY DEF Nested, PositionsOf
  <2>1. i \in Tiles
    BY <1>1
  <2>2. CASE j = 0
    BY <1>1, <1>6, <2>1, <2>2
  <2>3. CASE j # 0
    <3>1. j \in Tiles
      BY <1>1, <2>3
    <3>2. i \in Int /\ j \in Int
      BY <2>1, <3>1, TilesOverRec DEF Tiles, TileCount
    <3>3. ASSUME NEW p \in Span(nodes'[i]), p \in Span(nodes'[j]) PROVE FALSE
      <4>1. p \in Positions
        BY <1>6, <2>1
      <4>2. TileOfRow(rowAt'[p]) = i - 1 /\ TileOfRow(rowAt'[p]) = j - 1
        BY <1>7, <2>1, <3>1, <3>3, <4>1
      <4> QED
        BY <3>2, <4>2
    <3> QED
      BY <3>3
  <2> QED
    BY <2>2, <2>3
<1>13. PositionsOf(0)' = Positions
  BY <1>6 DEF PositionsOf, Positions
<1>14. PartitionsSound'
  BY <1>3, <1>4, <1>5, <1>9, <1>10, <1>11, <1>12, <1>13 DEF PartitionsSound, Positions
<1>15. RowsAligned'
  BY <1>2 DEF RowsAligned
<1>16. FlagsSound'
  <2>1. flagged' = {}
    BY <1>3 DEF FlagsSound
  <2>2. \A p \in Positions : flagAt'[p] = FALSE
    BY <1>2
  <2>3. \A p \in Positions : flagAt'[p] = (rowAt'[p] \in flagged')
    <3>1. \A x : (x \in flagged') = FALSE
      BY <2>1
    <3> QED
      BY ONLY <2>2, <3>1, Zenon
  <2>4. Positions' = Positions
    BY DEF Positions
  <2> QED
    BY <2>1, <2>2, <2>3, <2>4 DEF FlagsSound
<1>17. ASSUME NEW i \in Tiles
       PROVE  RowsOf(i)' = {r \in RowIds : owner'[r] = i}
  <2>1. RowsOf(i)' = {rowAt'[p] : p \in Span(nodes'[i])}
    BY DEF RowsOf, PositionsOf
  <2>2. ASSUME NEW p \in Span(nodes'[i])
        PROVE  rowAt'[p] \in RowIds /\ owner'[rowAt'[p]] = i
    <3>1. p \in Positions /\ TileOfRow(rowAt'[p]) = i - 1 /\ rowAt'[p] \in RowIds
      BY <1>2, <1>6, <1>7
    <3>2. i \in Int
      BY TilesOverRec DEF Tiles, TileCount
    <3> QED
      BY <1>3, <3>1, <3>2 DEF TileId
  <2>3. ASSUME NEW r \in RowIds, owner'[r] = i
        PROVE  \E p \in Span(nodes'[i]) : rowAt'[p] = r
    <3>1. TileId(TileOfRow(r)) = i
      BY <1>3, <2>3
    <3>2. SlotOf(r) \in Positions /\ rowAt'[SlotOf(r)] = r /\ TileOfRow(r) = i - 1
      BY <1>2, <1>8, <3>1
    <3>3. PICK p \in Positions : p = SlotOf(r)
      BY <3>2
    <3> QED
      BY <1>7, <3>2, <3>3
  <2> QED
    BY <2>1, <2>2, <2>3
<1>18. GridSound'
  <2>1. Tiles' = Tiles /\ TileId(1)' = TileId(1)
    BY DEF Tiles, TileCount, TileId
  <2>2. owner' = [r \in RowIds |-> TileId(TileOfRow(r))']
    BY <1>3 DEF TileId, TileOfRow, CellOf
  <2>3. owner' = [r \in RowIds |-> TileId(TileOfRow(r))]'
    BY <2>2
  <2> QED
    BY <1>1, <1>3, <1>17, <2>1, <2>3 DEF GridSound
<1> QED
  BY <1>14, <1>15, <1>16, <1>18

-----------------------------------------------------------------------------
(* The median cuts of the static tree.                                     *)

LEMMA HighestOf ==
  ASSUME NEW S, IsFiniteSet(S), S # {}, NEW x \in [S -> Int]
  PROVE  \E m \in S : \A p \in S : x[p] <= x[m]
<1> DEFINE above(s) == {p \in S : x[p] > x[s]}
           ranks    == {Cardinality(above(s)) : s \in S}
<1>1. \A s \in S : above(s) \in SUBSET S /\ IsFiniteSet(above(s)) /\ Cardinality(above(s)) \in Nat
  <2>1. \A s \in S : above(s) \in SUBSET S
    OBVIOUS
  <2> HIDE DEF above
  <2> QED
    BY <2>1, FS_Subset, FS_CardinalityType
<1>2. PICK n \in ranks : \A k \in ranks : n <= k
  <2>1. ranks \in SUBSET Nat /\ ranks # {}
    <3> HIDE DEF above
    <3>1. \A k \in ranks : k \in Nat
      BY <1>1
    <3>2. \E s \in S : Cardinality(above(s)) \in ranks
      OBVIOUS
    <3> QED
      BY <3>1, <3>2
  <2> HIDE DEF ranks
  <2> QED
    BY <2>1, LeastNat
<1>3. PICK m \in S : n = Cardinality(above(m))
  OBVIOUS
<1>4. ASSUME NEW p \in S, ~(x[p] <= x[m]) PROVE FALSE
  <2>1. p \in above(m) /\ above(p) \in SUBSET (above(m) \ {p})
    BY <1>4
  <2> HIDE DEF above
  <2>2. /\ IsFiniteSet(above(m) \ {p})
        /\ Cardinality(above(m) \ {p}) = Cardinality(above(m)) - 1
    BY <1>1, <2>1, FS_RemoveElement
  <2>3. Cardinality(above(p)) <= Cardinality(above(m)) - 1
    BY <2>1, <2>2, FS_Subset
  <2>4. Cardinality(above(m)) <= Cardinality(above(p))
    BY <1>2, <1>3
  <2> QED
    BY <1>1, <2>3, <2>4
<1> QED
  BY <1>4

LEMMA RangeSize ==
  ASSUME CrackTypeOK, Ranges, NEW i \in Ids
  PROVE  /\ PositionsOf(i) \in SUBSET Positions /\ IsFiniteSet(PositionsOf(i))
         /\ Population(i) \in 0 .. N /\ Cardinality(PositionsOf(i)) = Population(i)
<1>1. /\ nodes[i].begin \in Nat /\ nodes[i].end \in Nat
      /\ nodes[i].begin <= nodes[i].end /\ nodes[i].end <= N
  BY DEF CrackTypeOK, Ranges, Node
<1>2. PositionsOf(i) = nodes[i].begin .. nodes[i].end - 1
  BY DEF PositionsOf, Span
<1>3. /\ IsFiniteSet(PositionsOf(i))
      /\ Cardinality(PositionsOf(i)) = nodes[i].end - nodes[i].begin
  <2>1. nodes[i].begin \in Int /\ nodes[i].end - 1 \in Int
    BY <1>1
  <2>2. /\ IsFiniteSet(nodes[i].begin .. nodes[i].end - 1)
        /\ Cardinality(nodes[i].begin .. nodes[i].end - 1)
             = IF nodes[i].begin > nodes[i].end - 1 THEN 0
               ELSE nodes[i].end - 1 - nodes[i].begin + 1
    BY ONLY <2>1, FS_Interval
  <2> QED
    BY <1>1, <1>2, <2>2
<1> QED
  BY <1>1, <1>2, <1>3 DEF Population, Positions

\* There is a coordinate of rank n / 2.
LEMMA MedianIsACoordinate ==
  ASSUME CrackTypeOK, Ranges, NEW i \in Ids, NEW axis \in Axes, Population(i) > 0
  PROVE  Median(i, axis) \in Int
<1> DEFINE P       == PositionsOf(i)
           x       == [p \in P |-> pointAt[p][axis]]
           at(v)   == {p \in P : pointAt[p][axis] < v}
           upTo(v) == {p \in P : pointAt[p][axis] <= v}
           half    == Population(i) \div 2
           V       == {pointAt[p][axis] : p \in P}
           Rank(v) == Cardinality(at(v)) <= half /\ half < Cardinality(upTo(v))
<1>1. /\ P \in SUBSET Positions /\ IsFiniteSet(P) /\ Cardinality(P) = Population(i)
      /\ Population(i) \in Nat
  BY RangeSize
<1>2. half \in Nat /\ half < Population(i)
  BY <1>1
<1>3. \A p \in P : pointAt[p][axis] \in Int
  BY <1>1 DEF CrackTypeOK, Vec
<1>4. x \in [P -> Int]
  BY <1>3
<1>5. \A v : at(v) \in SUBSET P /\ upTo(v) \in SUBSET P
  OBVIOUS
<1>6. \A S \in SUBSET P : IsFiniteSet(S) /\ Cardinality(S) \in Nat
  BY <1>1, FS_Subset, FS_CardinalityType
<1> DEFINE W == {p \in P : half < Cardinality(upTo(x[p]))}
<1>7. W # {}
  <2>1. P # {}
    <3>1. Cardinality({}) = 0
      BY FS_EmptySet
    <3> HIDE DEF P
    <3>2. P = {} => Cardinality(P) = 0
      BY ONLY <3>1, Zenon
    <3> QED
      BY <1>1, <3>2
  <2>2. PICK m \in P : \A p \in P : x[p] <= x[m]
    <3> HIDE DEF x, P
    <3> QED
      BY <1>1, <1>4, <2>1, HighestOf
  <2>3. upTo(x[m]) = P
    BY <2>2
  <2>4. half < Cardinality(upTo(x[m]))
    BY <1>1, <1>2, <2>3
  <2> QED
    BY <2>4
<1>8. PICK m \in W : \A p \in W : x[m] <= x[p]
  <2> DEFINE y == [p \in W |-> 0 - x[p]]
  <2>1. y \in [W -> Int] /\ IsFiniteSet(W)
    <3>1. \A p \in W : 0 - x[p] \in Int
      BY <1>3
    <3>2. W \in SUBSET P
      OBVIOUS
    <3> HIDE DEF W, P
    <3> QED
      BY <1>6, <3>1, <3>2
  <2>2. PICK m \in W : \A p \in W : y[p] <= y[m]
    <3> HIDE DEF y, W
    <3> QED
      BY <1>7, <2>1, HighestOf
  <2>3. ASSUME NEW p \in W PROVE x[m] <= x[p]
    <3>1. y[p] = 0 - x[p] /\ y[m] = 0 - x[m] /\ y[p] <= y[m]
      BY <2>2
    <3>2. x[p] \in Int /\ x[m] \in Int
      BY <1>4
    <3> HIDE DEF x, y
    <3> QED
      BY <3>1, <3>2
  <2> QED
    BY <2>3
<1> DEFINE v == x[m]
<1>9. Cardinality(at(v)) <= half
  <2> SUFFICES ASSUME half < Cardinality(at(v)) PROVE FALSE
    BY <1>2, <1>5, <1>6
  <2>1. at(v) # {}
    <3>1. Cardinality({}) = 0
      BY FS_EmptySet
    <3> HIDE DEF at, half, v
    <3>2. at(v) = {} => Cardinality(at(v)) = 0
      BY ONLY <3>1, Zenon
    <3> QED
      BY <1>2, <3>2
  <2> DEFINE z == [p \in at(v) |-> x[p]]
  <2>2. z \in [at(v) -> Int] /\ IsFiniteSet(at(v))
    BY <1>3, <1>5, <1>6
  <2>3. PICK w \in at(v) : \A p \in at(v) : z[p] <= z[w]
    <3> HIDE DEF z, at
    <3> QED
      BY <2>1, <2>2, HighestOf
  <2>4. at(v) \in SUBSET upTo(x[w]) /\ w \in P /\ x[w] < v
    BY <2>3
  <2>5. Cardinality(at(v)) <= Cardinality(upTo(x[w]))
    <3>1. IsFiniteSet(upTo(x[w]))
      BY <1>5, <1>6
    <3> QED
      BY <2>4, <3>1, FS_Subset
  <2>6. half < Cardinality(upTo(x[w]))
    <3>1. Cardinality(at(v)) \in Nat /\ Cardinality(upTo(x[w])) \in Nat
      BY <1>5, <1>6
    <3> HIDE DEF at, upTo, half, v
    <3> QED
      BY <1>2, <2>5, <3>1
  <2>7. w \in W
    BY <2>4, <2>6
  <2>8. x[m] <= x[w] /\ x[m] \in Int /\ x[w] \in Int
    BY <1>3, <1>8, <2>4, <2>7
  <2> QED
    BY <2>4, <2>8
<1>10. v \in V /\ Rank(v)
  <2>1. m \in P /\ half < Cardinality(upTo(x[m]))
    OBVIOUS
  <2> QED
    BY <1>9, <2>1
<1>11. Median(i, axis) = CHOOSE u \in V : Rank(u)
  BY DEF Median
<1>12. Median(i, axis) \in V
  <2> HIDE DEF V, Rank, v
  <2> QED
    BY <1>10, <1>11
<1> QED
  BY <1>3, <1>12

-----------------------------------------------------------------------------
(* What a pass over a leaf, with or without a cut, leaves as it was.       *)

\* Either the partition is cut in two, or the tree stays as it was.
CutOrNot(i, axis, pivot) ==
  \/ CutSucceeds(i, axis, pivot) /\ AddChildren(i, axis, pivot)
  \/ ~CutSucceeds(i, axis, pivot) /\ UNCHANGED treeVars

LEMMA PassKeepsTable ==
  ASSUME PartitionsSound, RowsAligned, FlagsSound,
         NEW i \in Ids, nodes[i].leaf, NEW axis \in Axes, NEW pivot \in Int,
         PartitionRange(i, axis, pivot), phase' = phase, flagged' = flagged
  PROVE  /\ pointAt' \in [Positions -> Vec]
         /\ rowAt' \in [Positions -> RowIds]
         /\ flagAt' \in [Positions -> BOOLEAN]
         /\ RowsAligned' /\ FlagsSound'
         /\ \A j \in Ids : {rowAt'[p] : p \in PositionsOf(j)} = RowsOf(j)
<1>1. CrackTypeOK /\ Ranges /\ Nested
  BY DEF PartitionsSound
<1>2. PICK move : Moves(move, i, axis, pivot) /\ SwapPositions(move)
  BY <1>1, PartitionRangeMoves
<1>3. /\ pointAt' \in [Positions -> Vec]
      /\ rowAt' \in [Positions -> RowIds]
      /\ flagAt' \in [Positions -> BOOLEAN]
      /\ IsInjective(rowAt) => IsInjective(rowAt')
      /\ \A p \in Positions : /\ move[p] \in Positions
                              /\ pointAt'[p] = pointAt[move[p]]
                              /\ rowAt'[p] = rowAt[move[p]]
                              /\ flagAt'[p] = flagAt[move[p]]
      /\ \A j \in Ids : {rowAt'[p] : p \in PositionsOf(j)} = RowsOf(j)
  BY <1>1, <1>2, MoveWithin
<1>4. Positions' = Positions
  BY DEF Positions
<1>5. RowsAligned'
  BY <1>3, <1>4 DEF RowsAligned
<1>6. FlagsSound'
  <2>1. ASSUME NEW p \in Positions PROVE flagAt'[p] = (rowAt'[p] \in flagged')
    <3>1. flagAt[move[p]] = (rowAt[move[p]] \in flagged)
      BY <1>3 DEF FlagsSound
    <3> QED
      BY <1>3, <3>1
  <2>2. ASSUME phase' # "ready" PROVE flagged' = {} /\ \A p \in Positions : ~flagAt'[p]
    BY <1>3, <2>2 DEF FlagsSound
  <2> QED
    BY <1>4, <2>1, <2>2 DEF FlagsSound
<1> QED
  BY <1>3, <1>5, <1>6

LEMMA PassKeepsTree ==
  ASSUME PartitionsSound, NEW i \in Ids, nodes[i].leaf, NEW axis \in Axes, NEW pivot \in Int,
         CutOrNot(i, axis, pivot)
  PROVE  /\ nodeCount' \in Nat \ {0} /\ nodes' \in [Ids' -> Node]
         /\ Ids \subseteq Ids'
         /\ Ranges' /\ Covered' /\ Nested'
         /\ \A j \in Ids : /\ PositionsOf(j)' = PositionsOf(j)
                           /\ nodes'[j].begin = nodes[j].begin /\ nodes'[j].end = nodes[j].end
         /\ \A j \in Ids \ {i} : nodes'[j] = nodes[j]
<1>1. CrackTypeOK /\ Ranges /\ Covered /\ Nested
  BY DEF PartitionsSound
<1>2. CASE CutSucceeds(i, axis, pivot) /\ AddChildren(i, axis, pivot)
  <2>1. Ranges' /\ Covered' /\ Nested'
    BY <1>1, <1>2, PartitionsAfterCut
  <2>2. /\ nodeCount' \in Nat \ {0}
        /\ Ids' = Ids \union {nodeCount, nodeCount + 1}
        /\ nodes' \in [Ids' -> Node]
        /\ \A j \in Ids : PositionsOf(j)' = PositionsOf(j)
        /\ \A j \in Ids \ {i} : nodes'[j] = nodes[j]
        /\ nodes'[i].begin = nodes[i].begin /\ nodes'[i].end = nodes[i].end
    BY <1>1, <1>2, TreeCut
  <2>3. \A j \in Ids : nodes'[j].begin = nodes[j].begin /\ nodes'[j].end = nodes[j].end
    BY <2>2
  <2> QED
    BY <2>1, <2>2, <2>3
<1>3. CASE UNCHANGED treeVars
  <2>1. nodes' = nodes /\ nodeCount' = nodeCount
    BY <1>3 DEF treeVars
  <2>2. Ids' = Ids /\ \A j : PositionsOf(j)' = PositionsOf(j)
    BY <2>1 DEF Ids, PositionsOf, Span
  <2>3. Ranges' /\ Covered' /\ Nested'
    BY <1>1, <2>1, <2>2 DEF Ranges, Covered, Nested, PositionsOf, Span, Ids, Positions
  <2> QED
    BY <1>1, <2>1, <2>2, <2>3 DEF CrackTypeOK
<1> QED
  BY <1>2, <1>3 DEF CutOrNot

\* A partition keeps its range and its rows, and so its summary stays right.
LEMMA PassKeepsRows ==
  ASSUME PartitionsSound, RowsAligned, FlagsSound,
         NEW i \in Ids, nodes[i].leaf, NEW axis \in Axes, NEW pivot \in Int,
         PartitionRange(i, axis, pivot), CutOrNot(i, axis, pivot),
         phase' = phase, flagged' = flagged
  PROVE  \A j \in Ids : /\ PositionsOf(j)' = PositionsOf(j) /\ RowsOf(j)' = RowsOf(j)
                        /\ Population(j)' = Population(j)
<1> SUFFICES ASSUME NEW j \in Ids
             PROVE  /\ PositionsOf(j)' = PositionsOf(j) /\ RowsOf(j)' = RowsOf(j)
                    /\ Population(j)' = Population(j)
  OBVIOUS
<1>1. /\ PositionsOf(j)' = PositionsOf(j)
      /\ nodes'[j].begin = nodes[j].begin /\ nodes'[j].end = nodes[j].end
  BY PassKeepsTree
<1>2. {rowAt'[p] : p \in PositionsOf(j)} = RowsOf(j)
  BY PassKeepsTable
<1>3. RowsOf(j)' = {rowAt'[p] : p \in PositionsOf(j)'}
  BY DEF RowsOf
<1>4. RowsOf(j)' = RowsOf(j)
  BY ONLY <1>1, <1>2, <1>3, Zenon
<1>5. Population(j)' = Population(j)
  BY <1>1 DEF Population
<1> QED
  BY <1>1, <1>4, <1>5

-----------------------------------------------------------------------------
(* The layout, step by step.                                               *)

LEMMA InitLaysOut ==
  ASSUME PrebuiltInit
  PROVE  LayoutInv
<1>1. CrackInit /\ CrackInv
  BY InitEstablishes DEF PrebuiltInit
<1>2. /\ phase = "build" /\ owner = <<>> /\ flagged = {}
      /\ substrate \in Substrates /\ persist \in BOOLEAN /\ budget \in Budgets
      /\ edge \in RoundedAxes /\ threshold \in RoundedAxes
      /\ splits = IF substrate = "static_kd" THEN <<[id |-> 0, axis |-> 1]>> ELSE <<>>
  BY DEF PrebuiltInit
<1>3. /\ CrackTypeOK /\ Ranges /\ Covered /\ Nested /\ ColumnsAgree
      /\ crack = NoCrack /\ nodeCount = 1
      /\ nodes[0].leaf /\ nodes[0].begin = 0 /\ nodes[0].end = N
  BY <1>1 DEF CrackInv, CrackInit
<1>4. ~NoCrack.on
  BY DEF NoCrack
<1>5. PartitionsSound
  <2>1. PositionsOf(0) = Positions
    BY <1>3 DEF PositionsOf, Span, Positions
  <2> QED
    BY <1>3, <1>4, <2>1 DEF PartitionsSound
<1>6. RowsAligned
  BY <1>3 DEF RowsAligned, ColumnsAgree
<1>7. FlagsSound
  <2>1. \A p \in Positions : flagAt[p] = (rowAt[p] \in flagged)
    BY <1>2, <1>3 DEF ColumnsAgree
  <2>2. \A p \in Positions : ~flagAt[p]
    BY <1>2, <2>1
  <2> QED
    BY <1>2, <2>1, <2>2 DEF FlagsSound
<1>8. BuildSound
  <2>1. CASE substrate = "static_kd"
    <3>1. splits = <<[id |-> 0, axis |-> 1]>> /\ 1 \in Axes /\ 0 \in Ids /\ nodes[0].leaf
      BY <1>2, <1>3, <2>1 DEF Axes, Ids
    <3>2. [id |-> 0, axis |-> 1] \in [id : Nat, axis : Axes]
      BY <3>1
    <3>3. splits \in Seq([id : Nat, axis : Axes]) /\ DOMAIN splits = {1} /\ splits[1].id = 0
      BY <3>1, <3>2
    <3> QED
      BY <1>2, <2>1, <3>1, <3>3 DEF BuildSound
  <2>2. CASE substrate # "static_kd"
    <3>1. splits = <<>> /\ DOMAIN splits = {} /\ splits \in Seq([id : Nat, axis : Axes])
      BY <1>2, <2>2
    <3> QED
      BY <3>1 DEF BuildSound
  <2> QED
    BY <2>1, <2>2
<1>9. GridSound
  BY <1>2 DEF GridSound
<1> QED
  BY <1>2, <1>5, <1>6, <1>7, <1>8, <1>9 DEF LayoutInv, ConfigSound

\* A step that moves no row and adds no partition.
LEMMA QuietKeepsLayout ==
  ASSUME LayoutInv, UNCHANGED <<crackVars, configVars, owner, flagged>>,
         phase' # "ready" => phase # "ready",
         phase' \in {"build", "sweep", "parents", "flags", "ready"},
         substrate = "grid_akd" /\ phase' # "build" => owner # <<>>
  PROVE  /\ ConfigSound' /\ PartitionsSound' /\ RowsAligned' /\ FlagsSound' /\ GridSound'
<1>1. /\ pointAt' = pointAt /\ rowAt' = rowAt /\ flagAt' = flagAt /\ crack' = crack
      /\ nodes' = nodes /\ nodeCount' = nodeCount /\ owner' = owner /\ flagged' = flagged
      /\ substrate' = substrate /\ persist' = persist /\ budget' = budget
      /\ edge' = edge /\ threshold' = threshold
  BY DEF crackVars, tableVars, treeVars, configVars
<1>2. ConfigSound /\ PartitionsSound /\ RowsAligned /\ FlagsSound /\ GridSound
  BY DEF LayoutInv
<1>3. ConfigSound'
  BY <1>1, <1>2 DEF ConfigSound, RoundedAxes, Rounded
<1>4. /\ Ids' = Ids /\ Positions' = Positions
      /\ \A j : PositionsOf(j)' = PositionsOf(j) /\ RowsOf(j)' = RowsOf(j)
  BY <1>1 DEF Ids, Positions, PositionsOf, Span, RowsOf
<1>5. PartitionsSound'
  <2>1. CrackTypeOK' /\ Ranges'
    BY <1>1, <1>2 DEF PartitionsSound, CrackTypeOK, Ranges, Ids
  <2>2. Covered' /\ Nested'
    BY <1>1, <1>2, <1>4 DEF PartitionsSound, Covered, Nested
  <2> QED
    BY <1>1, <1>2, <1>4, <2>1, <2>2 DEF PartitionsSound
<1>6. RowsAligned'
  BY <1>1, <1>2, <1>4 DEF RowsAligned
<1>7. FlagsSound'
  BY <1>1, <1>2, <1>4 DEF FlagsSound
<1>8. GridSound'
  <2>1. Tiles' = Tiles /\ \A r \in RowIds : TileId(TileOfRow(r))' = TileId(TileOfRow(r))
    BY <1>1 DEF Tiles, TileCount, TileId, TileOfRow, CellOf
  <2>2. owner = [r \in RowIds |-> TileId(TileOfRow(r))]
          => owner' = [r \in RowIds |-> TileId(TileOfRow(r))]'
    BY <1>1, <2>1
  <2> QED
    BY <1>1, <1>2, <1>4, <2>1, <2>2 DEF GridSound
<1> QED
  BY <1>3, <1>5, <1>6, <1>7, <1>8

\* Nothing waits to be split outside the median build.
LEMMA NothingToSplit ==
  ASSUME BuildSound, splits' = splits, splits = <<>>
  PROVE  BuildSound'
<1>1. splits' = <<>> /\ DOMAIN splits' = {} /\ splits' \in Seq([id : Nat, axis : Axes])
  OBVIOUS
<1> QED
  BY <1>1 DEF BuildSound

LEMMA QuietStepsKeepLayout ==
  ASSUME LayoutInv,
         \/ EndBuild \/ MaterializeRow \/ ScoreRow \/ StoreActive \/ StoreParents
         \/ UNCHANGED prebuiltVars
  PROVE  LayoutInv'
<1>1. BuildSound /\ GridSound /\ phase \in {"build", "sweep", "parents", "flags", "ready"}
  BY DEF LayoutInv
<1>2. CASE EndBuild
  <2>1. /\ UNCHANGED <<crackVars, configVars, owner, flagged>> /\ splits' = splits
        /\ phase = "build" /\ phase' \in {"sweep", "ready"} /\ splits = <<>>
        /\ substrate = "grid_akd" => owner # <<>>
    BY <1>2 DEF EndBuild, Built
  <2> QED
    BY <1>1, <2>1, QuietKeepsLayout, NothingToSplit DEF LayoutInv
<1>3. CASE MaterializeRow \/ ScoreRow \/ StoreActive \/ StoreParents
  <2>1. /\ UNCHANGED <<crackVars, configVars, owner, flagged>> /\ splits' = splits
        /\ phase \in {"sweep", "parents"} /\ phase' \in {"sweep", "parents", "flags"}
    BY <1>3 DEF MaterializeRow, ScoreRow, StoreActive, StoreParents
  <2>2. splits = <<>> /\ (substrate = "grid_akd" => owner # <<>>)
    BY <1>1, <2>1 DEF BuildSound, GridSound
  <2> QED
    BY <1>1, <2>1, <2>2, QuietKeepsLayout, NothingToSplit DEF LayoutInv
<1>4. CASE UNCHANGED prebuiltVars
  <2>1. /\ UNCHANGED <<crackVars, configVars, owner, flagged>> /\ splits' = splits
        /\ phase' = phase
    BY <1>4 DEF prebuiltVars
  <2>2. ConfigSound' /\ PartitionsSound' /\ RowsAligned' /\ FlagsSound' /\ GridSound'
    BY <1>1, <2>1, QuietKeepsLayout DEF GridSound
  <2>3. BuildSound'
    <3>1. nodes' = nodes /\ nodeCount' = nodeCount /\ substrate' = substrate
      BY <2>1 DEF crackVars, treeVars, configVars
    <3> QED
      BY <1>1, <2>1, <3>1 DEF BuildSound, Ids
  <2> QED
    BY <1>1, <2>1, <2>2, <2>3 DEF LayoutInv
<1> QED
  BY <1>2, <1>3, <1>4


LEMMA TailOf ==
  ASSUME NEW S, NEW s \in Seq(S), s # <<>>
  PROVE  /\ Head(s) = s[1] /\ 1 \in DOMAIN s /\ Head(s) \in S
         /\ Tail(s) \in Seq(S)
         /\ \A k \in DOMAIN Tail(s) : k + 1 \in DOMAIN s /\ Tail(s)[k] = s[k + 1] /\ k \in Nat \ {0}
<1>1. s \in [1 .. Len(s) -> S] /\ Len(s) \in Nat /\ Len(s) > 0
  OBVIOUS
<1>2. /\ Head(s) = s[1] /\ Tail(s) \in Seq(S) /\ Len(Tail(s)) = Len(s) - 1
      /\ \A k \in 1 .. Len(s) - 1 : Tail(s)[k] = s[k + 1]
  BY <1>1
<1>3. DOMAIN Tail(s) = 1 .. Len(s) - 1
  BY <1>1, <1>2
<1> QED
  BY <1>1, <1>2, <1>3

\* What waits after the first range is taken off the stack.
LEMMA WaitingAfterHead ==
  ASSUME BuildSound, splits # <<>>
  PROVE  /\ Head(splits).id \in Ids /\ nodes[Head(splits).id].leaf /\ Head(splits).axis \in Axes
         /\ Tail(splits) \in Seq([id : Nat, axis : Axes])
         /\ \A k \in DOMAIN Tail(splits) :
              /\ k \in Nat \ {0}
              /\ Tail(splits)[k].id \in Ids /\ nodes[Tail(splits)[k].id].leaf
              /\ Tail(splits)[k].id # Head(splits).id
         /\ \A k, l \in DOMAIN Tail(splits) : k # l => Tail(splits)[k].id # Tail(splits)[l].id
<1>1. /\ splits \in Seq([id : Nat, axis : Axes])
      /\ \A k \in DOMAIN splits : splits[k].id \in Ids /\ nodes[splits[k].id].leaf
      /\ \A k, l \in DOMAIN splits : k # l => splits[k].id # splits[l].id
  BY DEF BuildSound
<1>2. /\ Head(splits) = splits[1] /\ 1 \in DOMAIN splits
      /\ Head(splits) \in [id : Nat, axis : Axes]
      /\ Tail(splits) \in Seq([id : Nat, axis : Axes])
      /\ \A k \in DOMAIN Tail(splits) : /\ k + 1 \in DOMAIN splits
                                        /\ Tail(splits)[k] = splits[k + 1] /\ k \in Nat \ {0}
  BY <1>1, TailOf
<1>3. \A k \in DOMAIN Tail(splits) : k + 1 # 1
  BY <1>2
<1>4. \A k, l \in DOMAIN Tail(splits) : k # l => k + 1 # l + 1
  BY <1>2
<1> QED
  BY <1>1, <1>2, <1>3, <1>4

LEMMA StopKeepsLayout ==
  ASSUME LayoutInv, StopSplitting
  PROVE  LayoutInv'
<1>1. /\ UNCHANGED <<crackVars, configVars, owner, flagged>> /\ phase = "build" /\ phase' = phase
      /\ splits # <<>> /\ splits' = Tail(splits)
  BY DEF StopSplitting
<1>2. BuildSound /\ substrate = "static_kd"
  BY <1>1 DEF LayoutInv, BuildSound
<1>3. ConfigSound' /\ PartitionsSound' /\ RowsAligned' /\ FlagsSound' /\ GridSound'
  BY <1>1, <1>2, QuietKeepsLayout
<1>4. BuildSound'
  <2>1. nodes' = nodes /\ nodeCount' = nodeCount /\ substrate' = substrate
    BY <1>1 DEF crackVars, treeVars, configVars
  <2> QED
    BY <1>1, <1>2, <2>1, WaitingAfterHead DEF BuildSound, Ids
<1> QED
  BY <1>1, <1>3, <1>4 DEF LayoutInv

\* Two ranges pushed on a stack.
LEMMA PushTwo ==
  ASSUME NEW S, NEW a \in S, NEW b \in S, NEW t \in Seq(S)
  PROVE  /\ <<a, b>> \o t \in Seq(S)
         /\ \A k \in DOMAIN (<<a, b>> \o t) :
              \/ k = 1 /\ (<<a, b>> \o t)[k] = a
              \/ k = 2 /\ (<<a, b>> \o t)[k] = b
              \/ k - 2 \in DOMAIN t /\ (<<a, b>> \o t)[k] = t[k - 2] /\ k \in Nat
<1>1. <<a, b>> \in Seq(S) /\ Len(<<a, b>>) = 2 /\ Len(t) \in Nat /\ DOMAIN t = 1 .. Len(t)
  OBVIOUS
<1>2. /\ <<a, b>> \o t \in Seq(S) /\ Len(<<a, b>> \o t) = Len(t) + 2
      /\ DOMAIN (<<a, b>> \o t) = 1 .. Len(t) + 2
  BY <1>1
<1>3. \A k \in 1 .. Len(t) + 2 :
        (<<a, b>> \o t)[k] = IF k <= 2 THEN <<a, b>>[k] ELSE t[k - 2]
  BY <1>1
<1> QED
  BY <1>1, <1>2, <1>3

\* The two halves wait to be split; the range itself no longer does.
LEMMA CutPushesChildren ==
  ASSUME LayoutInv, splits # <<>>, NEW i, NEW axis, NEW pivot \in Int,
         i = Head(splits).id, axis = Head(splits).axis,
         CutSucceeds(i, axis, pivot), AddChildren(i, axis, pivot),
         UNCHANGED <<phase, substrate>>,
         splits' = <<[id |-> nodeCount, axis |-> NextAxis(axis)],
                     [id |-> nodeCount + 1, axis |-> NextAxis(axis)]>> \o Tail(splits)
  PROVE  BuildSound'
<1>1. BuildSound /\ CrackTypeOK /\ Ranges
  BY DEF LayoutInv, PartitionsSound
<1> DEFINE a == [id |-> nodeCount, axis |-> NextAxis(axis)]
           b == [id |-> nodeCount + 1, axis |-> NextAxis(axis)]
           t == Tail(splits)
           Wait == [id : Nat, axis : Axes]
<1>2. /\ i \in Ids /\ nodes[i].leaf /\ axis \in Axes /\ t \in Seq(Wait)
      /\ \A k \in DOMAIN t : /\ k \in Nat \ {0} /\ t[k].id \in Ids /\ nodes[t[k].id].leaf
                             /\ t[k].id # i
      /\ \A k, l \in DOMAIN t : k # l => t[k].id # t[l].id
  BY <1>1, WaitingAfterHead
<1>3. /\ nodeCount \in Nat /\ nodeCount + 1 \in Nat
      /\ Ids' = Ids \union {nodeCount, nodeCount + 1}
      /\ nodeCount \notin Ids /\ nodeCount + 1 \notin Ids
      /\ \A j \in Ids \ {i} : nodes'[j] = nodes[j]
      /\ nodes'[nodeCount].leaf /\ nodes'[nodeCount + 1].leaf
  <2>1. /\ Ids' = Ids \union {nodeCount, nodeCount + 1}
        /\ nodeCount \notin Ids /\ nodeCount + 1 \notin Ids
        /\ \A j \in Ids \ {i} : nodes'[j] = nodes[j]
        /\ nodes'[nodeCount] = LeftChild(nodes[i], axis, pivot, SplitPos(i, axis, pivot))
        /\ nodes'[nodeCount + 1] = RightChild(nodes[i], axis, pivot, SplitPos(i, axis, pivot))
    BY <1>1, <1>2, TreeCut
  <2>2. nodes[i] \in Node
    BY <1>1, <1>2 DEF CrackTypeOK
  <2>3. nodes'[nodeCount].leaf /\ nodes'[nodeCount + 1].leaf
    BY <1>2, <2>1, <2>2 DEF LeftChild, RightChild, Node
  <2>4. nodeCount \in Nat
    BY <1>1 DEF CrackTypeOK
  <2> QED
    BY <2>1, <2>3, <2>4
<1>4. NextAxis(axis) \in Axes
  BY <1>2 DEF NextAxis, Axes
<1>5. a \in Wait /\ b \in Wait /\ a.id = nodeCount /\ b.id = nodeCount + 1 /\ a.id # b.id
  BY <1>3, <1>4
<1> HIDE DEF a, b, t, Wait
<1>6. /\ splits' \in Seq(Wait)
      /\ \A k \in DOMAIN splits' : \/ k = 1 /\ splits'[k] = a
                                   \/ k = 2 /\ splits'[k] = b
                                   \/ k - 2 \in DOMAIN t /\ splits'[k] = t[k - 2] /\ k \in Nat
  <2>1. splits' = <<a, b>> \o t
    BY DEF a, b, t
  <2>2. /\ <<a, b>> \o t \in Seq(Wait)
        /\ \A k \in DOMAIN (<<a, b>> \o t) :
              \/ k = 1 /\ (<<a, b>> \o t)[k] = a
              \/ k = 2 /\ (<<a, b>> \o t)[k] = b
              \/ k - 2 \in DOMAIN t /\ (<<a, b>> \o t)[k] = t[k - 2] /\ k \in Nat
    BY ONLY <1>2, <1>5, PushTwo
  <2> QED
    BY ONLY <2>1, <2>2, Zenon
<1>7. ASSUME NEW k \in DOMAIN splits'
      PROVE  splits'[k].id \in Ids' /\ nodes'[splits'[k].id].leaf
  <2>1. CASE splits'[k] = a \/ splits'[k] = b
    BY ONLY <1>3, <1>5, <2>1
  <2>2. CASE k - 2 \in DOMAIN t /\ splits'[k] = t[k - 2]
    <3>1. t[k - 2].id \in Ids \ {i} /\ nodes[t[k - 2].id].leaf
      BY ONLY <1>2, <2>2
    <3>2. nodes'[t[k - 2].id].leaf /\ t[k - 2].id \in Ids'
      BY ONLY <1>3, <3>1
    <3> QED
      BY ONLY <2>2, <3>2
  <2> QED
    BY <1>6, <2>1, <2>2
<1>8. ASSUME NEW k \in DOMAIN splits', NEW l \in DOMAIN splits', k # l
      PROVE  splits'[k].id # splits'[l].id
  <2>1. /\ \/ k = 1 /\ splits'[k] = a
           \/ k = 2 /\ splits'[k] = b
           \/ k - 2 \in DOMAIN t /\ splits'[k] = t[k - 2] /\ k \in Nat
        /\ \/ l = 1 /\ splits'[l] = a
           \/ l = 2 /\ splits'[l] = b
           \/ l - 2 \in DOMAIN t /\ splits'[l] = t[l - 2] /\ l \in Nat
    BY <1>6
  <2>2. CASE k - 2 \in DOMAIN t /\ splits'[k] = t[k - 2] /\ k \in Nat
             /\ l - 2 \in DOMAIN t /\ splits'[l] = t[l - 2] /\ l \in Nat
    <3>1. k - 2 # l - 2
      BY ONLY <1>8, <2>2
    <3> QED
      BY ONLY <1>2, <2>2, <3>1
  <2>3. \A m \in DOMAIN t : t[m].id # a.id /\ t[m].id # b.id
    BY ONLY <1>2, <1>3, <1>5
  <2> QED
    BY ONLY <1>5, <1>8, <2>1, <2>2, <2>3
<1>9. phase' = "build" /\ substrate' = "static_kd"
  BY <1>1 DEF BuildSound
<1> QED
  BY <1>6, <1>7, <1>8, <1>9 DEF BuildSound, Wait, Axes

LEMMA SplitKeepsLayout ==
  ASSUME LayoutInv, SplitAtMedian
  PROVE  LayoutInv'
<1>1. PICK i, axis, pivot :
        /\ i = Head(splits).id /\ axis = Head(splits).axis /\ pivot = Median(i, axis)
        /\ Population(i) > MaxPopulation
        /\ PartitionRange(i, axis, pivot)
        /\ \/ /\ CutSucceeds(i, axis, pivot)
              /\ AddChildren(i, axis, pivot)
              /\ splits' = <<[id |-> nodeCount, axis |-> NextAxis(axis)],
                             [id |-> nodeCount + 1, axis |-> NextAxis(axis)]>> \o Tail(splits)
           \/ /\ ~CutSucceeds(i, axis, pivot)
              /\ splits' = Tail(splits)
              /\ UNCHANGED treeVars
  BY DEF SplitAtMedian
<1>2. /\ phase = "build" /\ splits # <<>> /\ phase' = phase /\ crack' = crack /\ owner' = owner
      /\ flagged' = flagged /\ UNCHANGED configVars
      /\ substrate' = substrate /\ persist' = persist /\ budget' = budget
      /\ edge' = edge /\ threshold' = threshold
  BY DEF SplitAtMedian, configVars
<1>3. /\ PartitionsSound /\ RowsAligned /\ FlagsSound /\ BuildSound /\ GridSound /\ ConfigSound
      /\ CrackTypeOK /\ Ranges /\ substrate = "static_kd"
  BY <1>2 DEF LayoutInv, PartitionsSound, BuildSound
<1>4. i \in Ids /\ nodes[i].leaf /\ axis \in Axes
  BY <1>1, <1>2, <1>3, WaitingAfterHead
<1>5. pivot \in Int
  <2>1. Population(i) > 0
    <3>1. Population(i) \in 0 .. N /\ MaxPopulation \in Nat
      BY <1>3, <1>4, RangeSize
    <3> QED
      BY <1>1, <3>1
  <2> QED
    BY <1>1, <1>3, <1>4, <2>1, MedianIsACoordinate
<1>6. CutOrNot(i, axis, pivot)
  BY <1>1 DEF CutOrNot
<1>7. /\ pointAt' \in [Positions -> Vec] /\ rowAt' \in [Positions -> RowIds]
      /\ flagAt' \in [Positions -> BOOLEAN]
      /\ RowsAligned' /\ FlagsSound'
  BY <1>1, <1>2, <1>3, <1>4, <1>5, PassKeepsTable
<1>8. /\ nodeCount' \in Nat \ {0} /\ nodes' \in [Ids' -> Node]
      /\ Ids \subseteq Ids'
      /\ Ranges' /\ Covered' /\ Nested'
      /\ \A j \in Ids : PositionsOf(j)' = PositionsOf(j)
  BY <1>3, <1>4, <1>5, <1>6, PassKeepsTree
<1>9. PartitionsSound'
  <2>1. CrackTypeOK'
    BY <1>2, <1>3, <1>7, <1>8 DEF CrackTypeOK, Positions
  <2>2. 0 \in Ids
    BY <1>3 DEF CrackTypeOK, Ids
  <2>3. PositionsOf(0)' = Positions /\ Positions' = Positions
    BY <1>3, <1>8, <2>2 DEF PartitionsSound, Positions
  <2>4. crack' = NoCrack /\ ~NoCrack.on
    BY <1>2, <1>3 DEF PartitionsSound, NoCrack
  <2> QED
    BY <1>8, <2>1, <2>3, <2>4 DEF PartitionsSound
<1>10. ConfigSound'
  BY <1>2, <1>3 DEF ConfigSound, RoundedAxes, Rounded
<1>11. GridSound'
  BY <1>2, <1>3 DEF GridSound
<1>12. BuildSound'
  <2>1. CASE CutSucceeds(i, axis, pivot)
    BY <1>1, <1>2, <1>5, <2>1, CutPushesChildren
  <2>2. CASE ~CutSucceeds(i, axis, pivot)
    <3>1. nodes' = nodes /\ nodeCount' = nodeCount /\ splits' = Tail(splits)
      BY <1>1, <2>2 DEF treeVars
    <3> QED
      BY <1>2, <1>3, <3>1, WaitingAfterHead DEF BuildSound, Ids
  <2> QED
    BY <2>1, <2>2
<1> QED
  BY <1>2, <1>7, <1>9, <1>10, <1>11, <1>12 DEF LayoutInv


LEMMA GridKeepsLayout ==
  ASSUME LayoutInv, BuildGrid
  PROVE  LayoutInv'
<1>1. /\ phase' = phase /\ splits' = splits /\ substrate = "grid_akd" /\ UNCHANGED configVars
      /\ substrate' = substrate /\ persist' = persist /\ budget' = budget
      /\ edge' = edge /\ threshold' = threshold
  BY DEF BuildGrid, configVars
<1>2. /\ PartitionsSound' /\ RowsAligned' /\ FlagsSound' /\ GridSound'
  BY GridLaysOut DEF LayoutInv
<1>3. ConfigSound'
  BY <1>1 DEF LayoutInv, ConfigSound, RoundedAxes, Rounded
<1>4. BuildSound'
  <2>1. BuildSound /\ splits = <<>>
    BY <1>1 DEF LayoutInv, BuildSound
  <2> QED
    BY <1>1, <2>1, NothingToSplit
<1> QED
  BY <1>1, <1>2, <1>3, <1>4 DEF LayoutInv

LEMMA FlagsKeepLayout ==
  ASSUME LayoutInv, InstallFlags
  PROVE  LayoutInv'
<1>1. /\ phase = "flags" /\ phase' = "ready" /\ splits' = splits /\ flagged' = heap
      /\ flagAt' = [p \in Positions |-> rowAt[p] \in heap]
      /\ pointAt' = pointAt /\ rowAt' = rowAt /\ nodes' = nodes /\ nodeCount' = nodeCount
      /\ crack' = crack /\ owner' = owner
      /\ substrate' = substrate /\ persist' = persist /\ budget' = budget
      /\ edge' = edge /\ threshold' = threshold
  BY DEF InstallFlags, treeVars, configVars
<1>2. ConfigSound /\ PartitionsSound /\ RowsAligned /\ FlagsSound /\ BuildSound /\ GridSound
  BY DEF LayoutInv
<1>3. ConfigSound'
  BY <1>1, <1>2 DEF ConfigSound, RoundedAxes, Rounded
<1>4. /\ Ids' = Ids /\ Positions' = Positions
      /\ \A j : PositionsOf(j)' = PositionsOf(j) /\ RowsOf(j)' = RowsOf(j)
  BY <1>1 DEF Ids, Positions, PositionsOf, Span, RowsOf
<1>5. PartitionsSound'
  <2>1. flagAt' \in [Positions -> BOOLEAN]
    BY <1>1
  <2>2. CrackTypeOK' /\ Ranges'
    BY <1>1, <1>2, <2>1 DEF PartitionsSound, CrackTypeOK, Ranges, Ids, Positions
  <2>3. Covered' /\ Nested'
    BY <1>1, <1>2, <1>4 DEF PartitionsSound, Covered, Nested
  <2> QED
    BY <1>1, <1>2, <1>4, <2>2, <2>3 DEF PartitionsSound
<1>6. RowsAligned'
  BY <1>1, <1>2, <1>4 DEF RowsAligned
<1>7. FlagsSound'
  <2>1. \A p \in Positions : flagAt'[p] = (rowAt'[p] \in flagged')
    BY <1>1
  <2> QED
    BY <1>1, <1>4, <2>1 DEF FlagsSound
<1>8. BuildSound'
  BY <1>1, <1>2, NothingToSplit DEF BuildSound
<1>9. GridSound'
  <2>1. Tiles' = Tiles /\ \A r \in RowIds : TileId(TileOfRow(r))' = TileId(TileOfRow(r))
    BY <1>1 DEF Tiles, TileCount, TileId, TileOfRow, CellOf
  <2>2. owner = [r \in RowIds |-> TileId(TileOfRow(r))]
          => owner' = [r \in RowIds |-> TileId(TileOfRow(r))]'
    BY <1>1, <2>1
  <2> QED
    BY <1>1, <1>2, <1>4, <2>1, <2>2 DEF GridSound
<1> QED
  BY <1>1, <1>3, <1>5, <1>6, <1>7, <1>8, <1>9 DEF LayoutInv

\* The cut a query is making: which leaf, and where.
LEMMA FaceCut ==
  ASSUME PartitionsSound, CrackFace
  PROVE  \E i \in Ids, axis \in Axes, pivot \in Int :
           /\ i = crack.at /\ nodes[i].leaf
           /\ PartitionRange(i, axis, pivot) /\ CutOrNot(i, axis, pivot)
           /\ \/ /\ nodeCount' = nodeCount + 2
                 /\ nodes'[nodeCount] = LeftChild(nodes[i], axis, pivot, SplitPos(i, axis, pivot))
                 /\ nodes'[nodeCount + 1] = RightChild(nodes[i], axis, pivot, SplitPos(i, axis, pivot))
                 /\ crack' = [crack EXCEPT !.at = Toward(crack.face), !.face = @ + 1,
                                           !.retired = @ \union {i}]
              \/ /\ nodeCount' = nodeCount /\ nodes' = nodes
                 /\ crack' = [crack EXCEPT !.face = @ + 1]
<1>1. /\ crack.on /\ crack.face \in Faces /\ nodes[crack.at].leaf
      /\ CrackTypeOK /\ Ranges /\ crack \in Crack /\ crack.at \in Ids
      /\ SplitAtFace
  BY DEF CrackFace, MoreFaces, PartitionsSound, CrackTypeOK
<1>2. PICK i, axis, pivot :
        /\ i = crack.at /\ axis = Axis(crack.face) /\ pivot = Pivot(crack.q, crack.face)
        /\ PartitionRange(i, axis, pivot)
        /\ \/ /\ CutSucceeds(i, axis, pivot)
              /\ AddChildren(i, axis, pivot)
              /\ crack' = [crack EXCEPT !.at = Toward(crack.face), !.face = @ + 1,
                                        !.retired = @ \union {i}]
           \/ /\ ~CutSucceeds(i, axis, pivot)
              /\ crack' = [crack EXCEPT !.face = @ + 1]
              /\ UNCHANGED treeVars
  BY <1>1 DEF SplitAtFace
<1>3. axis \in Axes /\ pivot \in Int
  <2>1. crack.face \in Int /\ axis \in Axes /\ crack.q \in Rect
    BY <1>1, <1>2 DEF Crack, Faces, Axis, LowerFace, Axes
  <2> QED
    BY <1>2, <2>1 DEF Pivot, Rect, Vec
<1>4. CutOrNot(i, axis, pivot)
  BY <1>2 DEF CutOrNot
<1>5. CASE /\ CutSucceeds(i, axis, pivot) /\ AddChildren(i, axis, pivot)
           /\ crack' = [crack EXCEPT !.at = Toward(crack.face), !.face = @ + 1,
                                     !.retired = @ \union {i}]
  <2>1. /\ nodes'[nodeCount] = LeftChild(nodes[i], axis, pivot, SplitPos(i, axis, pivot))
        /\ nodes'[nodeCount + 1] = RightChild(nodes[i], axis, pivot, SplitPos(i, axis, pivot))
    BY <1>1, <1>2, <1>3, <1>5, TreeCut
  <2>2. nodeCount' = nodeCount + 2
    BY <1>5 DEF AddChildren
  <2> QED
    BY <1>1, <1>2, <1>3, <1>4, <1>5, <2>1, <2>2
<1>6. CASE /\ ~CutSucceeds(i, axis, pivot) /\ UNCHANGED treeVars
           /\ crack' = [crack EXCEPT !.face = @ + 1]
  BY <1>1, <1>2, <1>3, <1>4, <1>6 DEF treeVars
<1> QED
  BY <1>2, <1>5, <1>6

\* A query's step: begun, ended, or one more cut.
LEMMA RefineKeepsRows ==
  ASSUME LayoutInv, Refine
  PROVE  /\ UNCHANGED <<configVars, phase, splits, owner, sweepVars, summary, flagged>>
         /\ phase = "ready" /\ Ids \subseteq Ids' /\ (substrate = "static_kd" => Ids' = Ids)
         /\ \A j \in Ids : /\ PositionsOf(j)' = PositionsOf(j) /\ RowsOf(j)' = RowsOf(j)
                           /\ Population(j)' = Population(j)
         /\ RowsAligned' /\ FlagsSound'
<1>1. /\ UNCHANGED <<configVars, phase, splits, owner, sweepVars, summary, flagged>>
      /\ phase = "ready" /\ phase' = phase /\ flagged' = flagged
      /\ PartitionsSound /\ RowsAligned /\ FlagsSound /\ CrackTypeOK
  BY DEF Refine, LayoutInv, PartitionsSound
<1>2. CASE CrackFace
  <2>1. PICK i \in Ids, axis \in Axes, pivot \in Int :
          /\ nodes[i].leaf /\ PartitionRange(i, axis, pivot) /\ CutOrNot(i, axis, pivot)
    BY <1>1, <1>2, FaceCut
  <2>2. \A j \in Ids : /\ PositionsOf(j)' = PositionsOf(j) /\ RowsOf(j)' = RowsOf(j)
                       /\ Population(j)' = Population(j)
    BY <1>1, <2>1, PassKeepsRows
  <2>3. RowsAligned' /\ FlagsSound'
    BY <1>1, <2>1, PassKeepsTable
  <2>4. Ids \subseteq Ids'
    BY <1>1, <2>1, PassKeepsTree
  <2>5. substrate # "static_kd"
    BY <1>1, <1>2 DEF PartitionsSound, CrackFace
  <2> QED
    BY <1>1, <2>2, <2>3, <2>4, <2>5
<1>3. CASE (\E i \in Ids, q \in Queries : BeginRefine(i, q)) \/ EndRefine
  <2>1. UNCHANGED <<tableVars, treeVars>>
    BY <1>3 DEF BeginRefine, EndRefine
  <2>2. /\ pointAt' = pointAt /\ rowAt' = rowAt /\ flagAt' = flagAt
        /\ nodes' = nodes /\ nodeCount' = nodeCount
    BY <2>1 DEF tableVars, treeVars
  <2>3. /\ Ids' = Ids /\ Positions' = Positions
        /\ \A j : /\ PositionsOf(j)' = PositionsOf(j) /\ RowsOf(j)' = RowsOf(j)
                  /\ Population(j)' = Population(j)
    BY <2>2 DEF Ids, Positions, PositionsOf, Span, RowsOf, Population
  <2>4. RowsAligned' /\ FlagsSound'
    BY <1>1, <2>2, <2>3 DEF RowsAligned, FlagsSound
  <2> QED
    BY <1>1, <2>3, <2>4
<1> QED
  BY <1>2, <1>3 DEF Refine


LEMMA FaceKeepsPartitions ==
  ASSUME LayoutInv, phase = "ready", CrackFace, UNCHANGED <<phase, substrate, flagged>>
  PROVE  PartitionsSound'
<1>1. /\ PartitionsSound /\ RowsAligned /\ FlagsSound /\ CrackTypeOK /\ Ranges
      /\ crack.on /\ crack \in Crack /\ crack.leaf \in Ids /\ crack.retired \in SUBSET Ids
      /\ crack.face \in Faces /\ substrate # "static_kd" /\ nodeCount \in Nat \ {0}
      /\ phase' = phase /\ flagged' = flagged /\ substrate' = substrate
  BY DEF LayoutInv, PartitionsSound, CrackTypeOK, CrackFace, MoreFaces
<1>2. PICK i \in Ids, axis \in Axes, pivot \in Int :
        /\ i = crack.at /\ nodes[i].leaf
        /\ PartitionRange(i, axis, pivot) /\ CutOrNot(i, axis, pivot)
        /\ \/ /\ nodeCount' = nodeCount + 2
              /\ nodes'[nodeCount] = LeftChild(nodes[i], axis, pivot, SplitPos(i, axis, pivot))
              /\ nodes'[nodeCount + 1] = RightChild(nodes[i], axis, pivot, SplitPos(i, axis, pivot))
              /\ crack' = [crack EXCEPT !.at = Toward(crack.face), !.face = @ + 1,
                                        !.retired = @ \union {i}]
           \/ /\ nodeCount' = nodeCount /\ nodes' = nodes
              /\ crack' = [crack EXCEPT !.face = @ + 1]
  BY <1>1, FaceCut
<1>3. /\ pointAt' \in [Positions -> Vec] /\ rowAt' \in [Positions -> RowIds]
      /\ flagAt' \in [Positions -> BOOLEAN]
  BY <1>1, <1>2, PassKeepsTable
<1>4. /\ nodeCount' \in Nat \ {0} /\ nodes' \in [Ids' -> Node] /\ Ids \subseteq Ids'
      /\ Ranges' /\ Covered' /\ Nested'
      /\ \A j \in Ids : PositionsOf(j)' = PositionsOf(j)
  BY <1>1, <1>2, PassKeepsTree
<1>5. crack.face \in Nat /\ crack.face + 1 \in 1 .. 2 * Dims + 1
  BY <1>1 DEF Faces
<1>6. /\ crack' \in Crack /\ crack'.leaf \in Ids' /\ crack'.at \in Ids'
      /\ crack'.retired \in SUBSET Ids' /\ nodes'[crack'.at].leaf
  <2>1. CASE /\ nodeCount' = nodeCount + 2
             /\ nodes'[nodeCount] = LeftChild(nodes[i], axis, pivot, SplitPos(i, axis, pivot))
             /\ nodes'[nodeCount + 1] = RightChild(nodes[i], axis, pivot, SplitPos(i, axis, pivot))
             /\ crack' = [crack EXCEPT !.at = Toward(crack.face), !.face = @ + 1,
                                       !.retired = @ \union {i}]
    <3>1. Ids' = 0 .. nodeCount + 1 /\ Ids = 0 .. nodeCount - 1
      BY <1>1, <2>1 DEF Ids
    <3>2. Toward(crack.face) \in {nodeCount, nodeCount + 1}
      BY DEF Toward
    <3>3. nodes[i] \in Node
      BY <1>1 DEF CrackTypeOK
    <3>4. nodes'[nodeCount].leaf /\ nodes'[nodeCount + 1].leaf
      BY <1>2, <2>1, <3>3 DEF LeftChild, RightChild, Node
    <3>5. Toward(crack.face) \in Ids' /\ Toward(crack.face) \in Nat /\ nodes'[Toward(crack.face)].leaf
      BY <1>1, <3>1, <3>2, <3>4
    <3>6. crack.retired \union {i} \in SUBSET Ids' /\ crack.retired \union {i} \in SUBSET Nat
      BY <1>1, <1>4, <3>1
    <3>7. /\ crack'.leaf = crack.leaf /\ crack'.at = Toward(crack.face)
          /\ crack'.retired = crack.retired \union {i} /\ crack' \in Crack
      BY <1>1, <1>5, <2>1, <3>5, <3>6 DEF Crack
    <3> QED
      BY <1>1, <1>4, <3>5, <3>6, <3>7
  <2>2. CASE /\ nodeCount' = nodeCount /\ nodes' = nodes
             /\ crack' = [crack EXCEPT !.face = @ + 1]
    <3>1. /\ crack'.leaf = crack.leaf /\ crack'.at = crack.at /\ crack'.retired = crack.retired
          /\ crack' \in Crack
      BY <1>1, <1>5, <2>2 DEF Crack
    <3> QED
      BY <1>1, <1>2, <1>4, <2>2, <3>1
  <2> QED
    BY <1>2, <2>1, <2>2
<1>7. CrackTypeOK'
  BY <1>3, <1>4, <1>6 DEF CrackTypeOK, Positions
<1>8. PositionsOf(0)' = Positions /\ Positions' = Positions
  <2>1. 0 \in Ids
    BY <1>1 DEF Ids
  <2> QED
    BY <1>1, <1>4, <2>1 DEF PartitionsSound, Positions
<1> QED
  BY <1>1, <1>4, <1>6, <1>7, <1>8 DEF PartitionsSound

LEMMA RefineKeepsLayout ==
  ASSUME LayoutInv, Refine
  PROVE  LayoutInv'
<1>1. /\ UNCHANGED <<configVars, phase, splits, owner, sweepVars, summary, flagged>>
      /\ phase = "ready" /\ Ids \subseteq Ids'
      /\ \A j \in Ids : RowsOf(j)' = RowsOf(j)
      /\ RowsAligned' /\ FlagsSound'
  BY RefineKeepsRows
<1>2. /\ phase' = phase /\ splits' = splits /\ owner' = owner /\ flagged' = flagged
      /\ substrate' = substrate /\ persist' = persist /\ budget' = budget
      /\ edge' = edge /\ threshold' = threshold
  BY <1>1 DEF configVars
<1>3. ConfigSound /\ PartitionsSound /\ BuildSound /\ GridSound /\ CrackTypeOK
  BY DEF LayoutInv, PartitionsSound
<1>4. PartitionsSound'
  <2>1. CASE CrackFace
    BY <1>1, <1>2, <2>1, FaceKeepsPartitions
  <2>2. CASE (\E i \in Ids, q \in Queries : Reaches(q, i) /\ BeginRefine(i, q)) \/ EndRefine
    <3>1. /\ pointAt' = pointAt /\ rowAt' = rowAt /\ flagAt' = flagAt
          /\ nodes' = nodes /\ nodeCount' = nodeCount
      BY <2>2 DEF BeginRefine, EndRefine, tableVars, treeVars
    <3>2. /\ Ids' = Ids /\ Positions' = Positions
          /\ \A j : PositionsOf(j)' = PositionsOf(j)
      BY <3>1 DEF Ids, Positions, PositionsOf, Span
    <3>3. Ranges' /\ Covered' /\ Nested'
      BY <1>3, <3>1, <3>2 DEF PartitionsSound, Ranges, Covered, Nested
    <3>4. /\ NoCrack \in Crack /\ ~NoCrack.on /\ NoCrack.leaf = 0 /\ NoCrack.at = 0
          /\ NoCrack.retired = {}
      <4>1. EmptyRect \in Rect
        BY DEF EmptyRect, Rect, Vec
      <4> QED
        BY <4>1 DEF NoCrack, Crack
    <3>5. /\ crack' \in Crack /\ crack'.leaf \in Ids /\ crack'.at \in Ids
          /\ crack'.retired \subseteq Ids
          /\ crack'.on => nodes[crack'.at].leaf /\ substrate # "static_kd"
      <4>1. CASE EndRefine
        <5>1. crack' = NoCrack /\ 0 \in Ids
          BY <1>3, <4>1 DEF EndRefine, CrackTypeOK, Ids
        <5> QED
          BY <3>4, <5>1
      <4>2. ASSUME NEW i \in Ids, NEW q \in Queries, Reaches(q, i), BeginRefine(i, q)
            PROVE  /\ crack' \in Crack /\ crack'.leaf \in Ids /\ crack'.at \in Ids
                   /\ crack'.retired \subseteq Ids
                   /\ nodes[crack'.at].leaf /\ substrate # "static_kd"
        <5>1. crack' = [NoCrack EXCEPT !.on = TRUE, !.leaf = i, !.at = i, !.q = q] /\ nodes[i].leaf
          BY <4>2 DEF BeginRefine, Refinable
        <5>2. i \in Nat /\ q \in Rect
          BY DEF Ids
        <5>3. /\ crack' \in Crack /\ crack'.leaf = i /\ crack'.at = i /\ crack'.retired = {}
          BY <3>4, <5>1, <5>2 DEF Crack
        <5>4. substrate # "static_kd"
          BY <4>2 DEF Reaches
        <5> QED
          BY <5>1, <5>3, <5>4
      <4> QED
        BY <2>2, <4>1, <4>2
    <3>6. CrackTypeOK'
      BY <1>3, <3>1, <3>2, <3>5 DEF CrackTypeOK
    <3> QED
      BY <1>1, <1>2, <1>3, <3>1, <3>2, <3>3, <3>5, <3>6 DEF PartitionsSound
  <2> QED
    BY <2>1, <2>2 DEF Refine
<1>5. ConfigSound'
  BY <1>2, <1>3 DEF ConfigSound, RoundedAxes, Rounded
<1>6. BuildSound'
  BY <1>1, <1>2, <1>3, NothingToSplit DEF BuildSound
<1>7. GridSound'
  <2>1. Tiles' = Tiles /\ \A r \in RowIds : TileId(TileOfRow(r))' = TileId(TileOfRow(r))
    BY <1>2 DEF Tiles, TileCount, TileId, TileOfRow, CellOf
  <2>2. owner = [r \in RowIds |-> TileId(TileOfRow(r))]
          => owner' = [r \in RowIds |-> TileId(TileOfRow(r))]'
    BY <1>2, <2>1
  <2>3. Tiles \subseteq Ids => Tiles \subseteq Ids' /\ \A i \in Tiles : RowsOf(i)' = RowsOf(i)
    BY <1>1
  <2> QED
    BY <1>1, <1>2, <1>3, <2>1, <2>2, <2>3 DEF GridSound
<1> QED
  BY <1>1, <1>2, <1>4, <1>5, <1>6, <1>7 DEF LayoutInv
-----------------------------------------------------------------------------
LEMMA LayoutStep ==
  ASSUME LayoutInv, [PrebuiltNext]_prebuiltVars
  PROVE  LayoutInv'
<1>1. CASE StopSplitting
  BY <1>1, StopKeepsLayout
<1>2. CASE SplitAtMedian
  BY <1>2, SplitKeepsLayout
<1>3. CASE BuildGrid
  BY <1>3, GridKeepsLayout
<1>4. CASE EndBuild \/ MaterializeRow \/ ScoreRow \/ StoreActive \/ StoreParents
           \/ UNCHANGED prebuiltVars
  BY <1>4, QuietStepsKeepLayout
<1>5. CASE InstallFlags
  BY <1>5, FlagsKeepLayout
<1>6. CASE Refine
  BY <1>6, RefineKeepsLayout
<1> QED
  BY <1>1, <1>2, <1>3, <1>4, <1>5, <1>6 DEF PrebuiltNext

\* However initialize() laid the table out, and whatever queries crack later, the
\* partitions are contiguous ranges that nest, and the grid's tiles hold the rows
\* its arithmetic gives them.
THEOREM LayoutInvariant == PrebuiltSpec => []LayoutInv
<1>1. PrebuiltInit => LayoutInv
  BY InitLaysOut
<1>2. LayoutInv /\ [PrebuiltNext]_prebuiltVars => LayoutInv'
  BY LayoutStep
<1> QED
  BY <1>1, <1>2, PTL DEF PrebuiltSpec

\* Median cuts, counting sorts and cracks move the columns of the table together,
\* leave every position in exactly one active partition, and the flags installed
\* at the end are on the rows the scorer kept.
THEOREM LayoutStaysSound == PrebuiltSpec => []LayoutSound
<1>1. LayoutInv => LayoutSound
  <2> SUFFICES ASSUME LayoutInv PROVE LayoutSound
    OBVIOUS
  <2>1. PartitionsSound /\ RowsAligned /\ FlagsSound /\ Covered /\ Nested
    BY DEF LayoutInv, PartitionsSound
  <2>2. LeavesTile
    <3> SUFFICES ASSUME NEW p \in Positions
                 PROVE  \E i \in Ids :
                          /\ nodes[i].leaf /\ p \in PositionsOf(i)
                          /\ \A j \in Ids : nodes[j].leaf /\ p \in PositionsOf(j) => j = i
      BY DEF LeavesTile
    <3>1. PICK i \in Ids : nodes[i].leaf /\ p \in PositionsOf(i)
      BY <2>1 DEF Covered
    <3>2. \A j \in Ids : nodes[j].leaf /\ p \in PositionsOf(j) => j = i
      BY <2>1, <3>1 DEF Nested
    <3> QED
      BY <3>1, <3>2
  <2> QED
    BY <2>1, <2>2 DEF LayoutSound, RowsAligned, FlagsSound
<1> QED
  BY <1>1, LayoutInvariant, PTL

\* However the cell boundaries were rounded, the cells between those of a query's
\* corners hold every row the query selects: a descent that visits only the tiles
\* GridAkdAccessPath::overlapping_children names misses nothing.
THEOREM RoutingMissesNothing == PrebuiltSpec => []RoutesEveryRow
<1>1. LayoutInv => RoutesEveryRow
  <2> SUFFICES ASSUME LayoutInv, owner # <<>>, NEW q \in Queries, NEW r \in RowIds,
                      ContainsPoint(q, Point[r])
               PROVE  owner[r] \in Routed(q)
    BY DEF RoutesEveryRow
  <2>1. threshold \in RoundedAxes /\ owner[r] = TileId(TileOfRow(r))
    BY DEF LayoutInv, ConfigSound, GridSound
  <2>2. TileId(TileOfRow(r)) \in Routed(q)
    BY <2>1, TileIsRouted
  <2> QED
    BY <2>1, <2>2
<1> QED
  BY <1>1, LayoutInvariant, PTL

-----------------------------------------------------------------------------
(* The sweep.                                                              *)

Passed == {r \in Scored : r < swept}

\* What the sweep has folded in after n rows.
Folded(n) == [i \in Ids |-> [r \in RowIds |-> IF r < n /\ i = OwnerOf(r) THEN 1 ELSE 0]]

LEMMA FrozenOwners ==
  ASSUME UNCHANGED <<crackVars, configVars, owner>>
  PROVE  /\ Ids' = Ids /\ Active' = Active /\ Eager' = Eager
         /\ \A r : OwnerOf(r)' = OwnerOf(r)
         /\ \A n : Folded(n)' = Folded(n)
<1>1. /\ nodes' = nodes /\ nodeCount' = nodeCount /\ rowAt' = rowAt /\ owner' = owner
      /\ substrate' = substrate /\ persist' = persist
  BY DEF crackVars, tableVars, treeVars, configVars
<1>2. Ids' = Ids
  BY <1>1 DEF Ids
<1>3. Active' = Active
  BY <1>1, <1>2 DEF Active
<1>4. \A i : RowsOf(i)' = RowsOf(i)
  BY <1>1 DEF RowsOf, PositionsOf, Span
<1>5. ASSUME NEW r PROVE OwnerOf(r)' = OwnerOf(r)
  BY <1>1 DEF OwnerOf, Active, RowsOf, PositionsOf, Span, Ids
<1>6. ASSUME NEW n PROVE Folded(n)' = Folded(n)
  BY <1>2, <1>5 DEF Folded, RowIds
<1>7. Eager' = Eager
  BY <1>1 DEF Eager, Prebuilt
<1> QED
  BY <1>2, <1>3, <1>5, <1>6, <1>7

\* SweepSound, its parts by name, in a state and in the next.
SweepCounted == /\ phase = "build" => swept = 0 /\ DOMAIN acc = {0}
                /\ swept \in 0 .. N /\ (phase \in {"parents", "flags"} => swept = N)
                /\ DOMAIN acc \subseteq Ids
HeapSound    == /\ phase # "ready" => Highest(heap, Passed)
                /\ phase = "ready" => heap = {} /\ (budget > 0 => Highest(flagged, Scored))
MomentsSound == Eager /\ phase \in {"sweep", "parents"} => acc = Folded(swept)

LEMMA SweepParts == SweepSound <=> SweepCounted /\ HeapSound /\ MomentsSound
BY DEF SweepSound, SweepCounted, HeapSound, MomentsSound, Passed, Folded

LEMMA SweepPartsNext == (SweepSound <=> SweepCounted /\ HeapSound /\ MomentsSound)'
BY SweepParts, PTL

LEMMA InitSweeps ==
  ASSUME PrebuiltInit
  PROVE  SweepSound
<1>1. /\ phase = "build" /\ swept = 0 /\ heap = {} /\ acc = [i \in {0} |-> NoRows]
      /\ nodeCount = 1 /\ budget \in Nat
  BY DEF PrebuiltInit, CrackInit
<1>2. Passed = {}
  BY <1>1 DEF Passed, Scored, RowIds
<1>3. Highest(heap, Passed)
  <2>1. Cardinality({}) = 0
    BY FS_EmptySet
  <2>2. Min({budget, 0}) = 0
    BY <1>1, SmallerOf
  <2> QED
    BY <1>1, <1>2, <2>1, <2>2 DEF Highest
<1>4. SweepCounted
  BY <1>1 DEF SweepCounted, Ids
<1> QED
  BY <1>1, <1>3, <1>4, SweepParts DEF HeapSound, MomentsSound

\* A step that neither sweeps a row nor installs the flags.
LEMMA HeapStays ==
  ASSUME HeapSound, UNCHANGED <<swept, heap, flagged, budget>>,
         phase' = "ready" <=> phase = "ready"
  PROVE  HeapSound'
<1>1. Passed' = Passed /\ Scored' = Scored
  BY DEF Passed, Scored, RowIds
<1>2. Highest(heap, Passed) => Highest(heap, Passed)'
  BY <1>1 DEF Highest
<1>3. Highest(flagged, Scored) => Highest(flagged, Scored)'
  BY <1>1 DEF Highest
<1> QED
  BY <1>2, <1>3 DEF HeapSound

LEMMA RootExists == LayoutInv => 0 \in Ids
BY DEF LayoutInv, PartitionsSound, CrackTypeOK, Ids

LEMMA RootExistsNext == (LayoutInv => 0 \in Ids)'
BY RootExists, PTL

LEMMA BuildKeepsSweep ==
  ASSUME LayoutInv, LayoutInv', SweepSound, StopSplitting \/ SplitAtMedian \/ BuildGrid
  PROVE  SweepSound'
<1>1. /\ phase = "build" /\ phase' = phase /\ swept' = swept /\ acc' = acc /\ heap' = heap
      /\ flagged' = flagged /\ budget' = budget
  BY DEF StopSplitting, SplitAtMedian, BuildGrid, sweepVars, configVars
<1>2. SweepCounted /\ HeapSound
  BY SweepParts
<1>3. 0 \in Ids'
  BY RootExistsNext
<1>4. SweepCounted'
  BY <1>1, <1>2, <1>3 DEF SweepCounted
<1>5. HeapSound' /\ MomentsSound'
  BY <1>1, <1>2, HeapStays DEF MomentsSound
<1> QED
  BY <1>4, <1>5, SweepPartsNext

LEMMA EndBuildKeepsSweep ==
  ASSUME LayoutInv, SweepSound, EndBuild
  PROVE  SweepSound'
<1>1. /\ phase = "build" /\ phase' = IF Eager \/ Scoring THEN "sweep" ELSE "ready"
      /\ acc' = [i \in Ids |-> NoRows] /\ UNCHANGED <<crackVars, configVars, owner>>
      /\ swept' = swept /\ heap' = heap /\ flagged' = flagged /\ budget' = budget
  BY DEF EndBuild, configVars
<1>2. SweepCounted /\ HeapSound /\ swept = 0 /\ budget \in Nat
  BY <1>1, SweepParts DEF SweepCounted, LayoutInv, ConfigSound
<1>3. Ids' = Ids /\ Eager' = Eager /\ Folded(0)' = Folded(0)
  BY <1>1, FrozenOwners
<1>4. SweepCounted'
  BY <1>1, <1>2, <1>3 DEF SweepCounted
<1>5. HeapSound'
  <2>1. CASE phase' = "sweep"
    BY <1>1, <1>2, <2>1, HeapStays
  <2>2. CASE phase' = "ready"
    <3>1. budget = 0
      BY <1>1, <1>2, <2>2 DEF Scoring
    <3>2. Passed = {}
      BY <1>2 DEF Passed, Scored, RowIds
    <3>3. heap = {}
      BY <1>1, <1>2, <3>2 DEF HeapSound, Highest
    <3> QED
      BY <1>1, <2>2, <3>1, <3>3 DEF HeapSound
  <2> QED
    BY <1>1, <2>1, <2>2
<1>6. MomentsSound'
  <2>1. Folded(0) = [i \in Ids |-> NoRows]
    BY DEF Folded, NoRows, RowIds
  <2>2. swept' = 0
    BY <1>1, <1>2
  <2>3. acc' = Folded(swept)'
    <3>1. Folded(swept)' = Folded(0)'
      BY <2>2
    <3> QED
      BY <1>1, <1>3, <2>1, <3>1
  <2> QED
    BY <2>3 DEF MomentsSound
<1> QED
  BY <1>4, <1>5, <1>6, SweepPartsNext

\* One more row scored.
LEMMA ObserveKeepsHeap ==
  ASSUME LayoutInv, HeapSound, phase = "sweep", phase' = "sweep",
         swept \in RowIds, swept' = swept + 1, Observe(swept), budget' = budget
  PROVE  HeapSound'
<1>1. swept \in Int /\ budget \in Nat
  BY DEF RowIds, LayoutInv, ConfigSound
<1>2. Passed \in SUBSET Scored /\ swept \notin Passed
  BY <1>1 DEF Passed
<1>3. Highest(heap, Passed)
  BY DEF HeapSound
<1>4. PICK seen, r : seen = Passed /\ r = swept
  OBVIOUS
<1>5. Highest(heap', IF Score[r] > 0 THEN seen \union {r} ELSE seen)
  BY <1>1, <1>2, <1>3, <1>4, ObserveKeepsHighest
<1>6. Passed' = IF Score[r] > 0 THEN seen \union {r} ELSE seen
  <2>1. \A s \in RowIds : s \in Int /\ (s < swept + 1 <=> s < swept \/ s = swept)
    BY <1>1 DEF RowIds
  <2>2. Passed' = {s \in Scored : s < swept + 1}
    BY DEF Passed, Scored, RowIds
  <2>3. \A s : s \in Passed' <=> s \in (IF Score[r] > 0 THEN seen \union {r} ELSE seen)
    BY <1>4, <2>1, <2>2 DEF Passed, Scored
  <2> QED
    BY <2>3
<1>7. Highest(heap, Passed)'
  BY <1>5, <1>6 DEF Highest
<1> QED
  BY <1>7 DEF HeapSound

LEMMA RowKeepsSweep ==
  ASSUME LayoutInv, SweepSound, MaterializeRow \/ ScoreRow
  PROVE  SweepSound'
<1>1. /\ phase = "sweep" /\ phase' = phase /\ swept \in RowIds /\ swept' = swept + 1
      /\ Observe(swept) /\ UNCHANGED <<crackVars, configVars, owner>>
      /\ budget' = budget
      /\ \/ Eager /\ acc' = [acc EXCEPT ![OwnerOf(swept)][swept] = @ + 1]
         \/ ~Eager /\ acc' = acc
  BY DEF MaterializeRow, ScoreRow, configVars
<1>2. SweepCounted /\ HeapSound /\ MomentsSound
  BY SweepParts
<1>3. Ids' = Ids /\ Eager' = Eager /\ \A n : Folded(n)' = Folded(n)
  BY <1>1, FrozenOwners
<1>4. swept \in Int /\ swept + 1 \in 0 .. N
  BY <1>1 DEF RowIds
<1>5. DOMAIN acc' = DOMAIN acc
  BY <1>1
<1>6. SweepCounted'
  BY <1>1, <1>2, <1>3, <1>4, <1>5 DEF SweepCounted
<1>7. HeapSound'
  BY <1>1, <1>2, ObserveKeepsHeap
<1>8. MomentsSound'
  <2> SUFFICES ASSUME Eager PROVE acc' = Folded(swept)'
    BY <1>3 DEF MomentsSound
  <2>1. acc = Folded(swept) /\ acc' = [acc EXCEPT ![OwnerOf(swept)][swept] = @ + 1]
    BY <1>1, <1>2 DEF MomentsSound
  <2>2. PICK n, own : n = swept /\ own = [r \in RowIds |-> OwnerOf(r)]
    OBVIOUS
  <2>3. acc = [i \in Ids |-> [r \in RowIds |-> IF r < n /\ i = own[r] THEN 1 ELSE 0]]
    BY <2>1, <2>2 DEF Folded
  <2>4. acc' = [acc EXCEPT ![own[n]][n] = @ + 1] /\ n \in RowIds /\ n \in Int
    BY <1>1, <1>4, <2>1, <2>2
  <2>5. \A r \in RowIds : r \in Int
    BY DEF RowIds
  <2> DEFINE after == [i \in Ids |-> [r \in RowIds |-> IF r < n + 1 /\ i = own[r] THEN 1 ELSE 0]]
  <2>6. acc' = after
    <3>1. ASSUME NEW i \in Ids
          PROVE  acc'[i] = [r \in RowIds |-> IF r < n + 1 /\ i = own[r] THEN 1 ELSE 0]
      <4>1. acc[i] = [r \in RowIds |-> IF r < n /\ i = own[r] THEN 1 ELSE 0]
        BY ONLY <2>3
      <4>2. \A r \in RowIds : r < n + 1 <=> r < n \/ r = n
        BY ONLY <2>4, <2>5
      <4>3. CASE i = own[n]
        <5>1. acc'[i] = [acc[i] EXCEPT ![n] = @ + 1]
          BY ONLY <2>3, <2>4, <4>3
        <5>2. acc[i][n] = 0 /\ acc[i][n] + 1 = 1
          BY ONLY <2>4, <4>1
        <5> QED
          BY ONLY <2>4, <4>1, <4>2, <4>3, <5>1, <5>2
      <4>4. CASE i # own[n]
        <5>1. acc'[i] = acc[i]
          BY ONLY <2>3, <2>4, <4>4
        <5> QED
          BY ONLY <4>1, <4>2, <4>4, <5>1
      <4> QED
        BY <4>3, <4>4
    <3>2. acc' = [i \in Ids |-> acc'[i]]
      BY ONLY <2>3, <2>4
    <3> QED
      BY <3>1, <3>2
  <2>7. PICK m : m = n + 1
    OBVIOUS
  <2>8. after = Folded(m)
    BY <2>2, <2>7 DEF Folded
  <2>9. Folded(swept)' = Folded(m)'
    BY <1>1, <2>2, <2>7 DEF Folded
  <2> QED
    BY <1>3, <2>6, <2>8, <2>9
<1> QED
  BY <1>6, <1>7, <1>8, SweepPartsNext

\* What comes after the sweep moves nothing it counted.
LEMMA StoreKeepsSweep ==
  ASSUME LayoutInv, SweepSound, StoreActive \/ StoreParents \/ UNCHANGED prebuiltVars
  PROVE  SweepSound'
<1>1. /\ UNCHANGED <<crackVars, configVars, owner>> /\ swept' = swept /\ acc' = acc
      /\ heap' = heap /\ flagged' = flagged /\ budget' = budget
      /\ \/ phase = "sweep" /\ swept = N /\ phase' = IF Eager THEN "parents" ELSE "flags"
         \/ phase = "parents" /\ phase' = "flags"
         \/ phase' = phase
  BY DEF StoreActive, StoreParents, prebuiltVars, sweepVars, configVars
<1>2. SweepCounted /\ HeapSound /\ MomentsSound
  BY SweepParts
<1>3. Ids' = Ids /\ Eager' = Eager /\ \A n : Folded(n)' = Folded(n)
  BY <1>1, FrozenOwners
<1>4. SweepCounted'
  BY <1>1, <1>2, <1>3 DEF SweepCounted
<1>5. HeapSound'
  BY <1>1, <1>2, HeapStays
<1>6. MomentsSound'
  <2>1. Folded(swept)' = Folded(swept)
    BY <1>1, <1>3 DEF Folded, RowIds, OwnerOf, Active, RowsOf, PositionsOf, Span, Ids,
       crackVars, tableVars, treeVars, configVars
  <2> QED
    BY <1>1, <1>2, <1>3, <2>1 DEF MomentsSound
<1> QED
  BY <1>4, <1>5, <1>6, SweepPartsNext


LEMMA FlagsKeepSweep ==
  ASSUME LayoutInv, SweepSound, InstallFlags
  PROVE  SweepSound'
<1>1. /\ phase = "flags" /\ phase' = "ready" /\ swept' = swept /\ acc' = acc
      /\ heap' = {} /\ flagged' = heap /\ nodeCount' = nodeCount /\ budget' = budget
  BY DEF InstallFlags, treeVars, configVars
<1>2. SweepCounted /\ HeapSound
  BY SweepParts
<1>3. SweepCounted'
  BY <1>1, <1>2 DEF SweepCounted, Ids
<1>4. HeapSound'
  <2>1. swept = N /\ N \in Int
    BY <1>1, <1>2 DEF SweepCounted
  <2>2. Passed = Scored
    BY <2>1 DEF Passed, Scored, RowIds
  <2>3. Highest(heap, Scored)
    BY <1>1, <1>2, <2>2 DEF HeapSound
  <2>4. Highest(flagged, Scored)'
    BY <1>1, <2>3 DEF Highest, Scored, RowIds
  <2> QED
    BY <1>1, <2>4 DEF HeapSound
<1>5. MomentsSound'
  BY <1>1 DEF MomentsSound
<1> QED
  BY <1>3, <1>4, <1>5, SweepPartsNext

LEMMA RefineKeepsSweep ==
  ASSUME LayoutInv, SweepSound, Refine
  PROVE  SweepSound'
<1>1. /\ UNCHANGED <<configVars, phase, splits, owner, sweepVars, summary, flagged>>
      /\ phase = "ready" /\ Ids \subseteq Ids'
  BY RefineKeepsRows
<1>2. /\ phase' = phase /\ swept' = swept /\ acc' = acc /\ heap' = heap
      /\ flagged' = flagged /\ budget' = budget
  BY <1>1 DEF configVars, sweepVars
<1>3. SweepCounted /\ HeapSound
  BY SweepParts
<1>4. SweepCounted'
  BY <1>1, <1>2, <1>3 DEF SweepCounted
<1>5. HeapSound'
  BY <1>2, <1>3, HeapStays
<1>6. MomentsSound'
  BY <1>1, <1>2 DEF MomentsSound
<1> QED
  BY <1>4, <1>5, <1>6, SweepPartsNext

LEMMA SweepStep ==
  ASSUME LayoutInv, SweepSound, [PrebuiltNext]_prebuiltVars
  PROVE  SweepSound'
<1>1. LayoutInv'
  BY LayoutStep
<1>2. CASE StopSplitting \/ SplitAtMedian \/ BuildGrid
  BY <1>1, <1>2, BuildKeepsSweep
<1>3. CASE EndBuild
  BY <1>3, EndBuildKeepsSweep
<1>4. CASE MaterializeRow \/ ScoreRow
  BY <1>4, RowKeepsSweep
<1>5. CASE StoreActive \/ StoreParents \/ UNCHANGED prebuiltVars
  BY <1>5, StoreKeepsSweep
<1>6. CASE InstallFlags
  BY <1>6, FlagsKeepSweep
<1>7. CASE Refine
  BY <1>7, RefineKeepsSweep
<1> QED
  BY <1>2, <1>3, <1>4, <1>5, <1>6, <1>7 DEF PrebuiltNext

\* Whatever the order, the ties and the budget, the heap holds the rows of highest
\* score among those the sweep has passed.
THEOREM SweepInvariant == PrebuiltSpec => [](LayoutInv /\ SweepSound)
<1>1. PrebuiltInit => LayoutInv /\ SweepSound
  BY InitLaysOut, InitSweeps
<1>2. LayoutInv /\ SweepSound /\ [PrebuiltNext]_prebuiltVars => LayoutInv' /\ SweepSound'
  BY LayoutStep, SweepStep
<1> QED
  BY <1>1, <1>2, PTL DEF PrebuiltSpec

\* The outlier index holds as many rows as its budget allows, none of them at the
\* mean, and no row left in the samples outscores one held out.
THEOREM OutliersAreTheTop == PrebuiltSpec => []HoldsOutTheTop
<1>1. SweepSound => HoldsOutTheTop
  <2> SUFFICES ASSUME SweepSound, phase = "ready", budget > 0
               PROVE  /\ flagged \subseteq Scored
                      /\ Cardinality(flagged) = Min({budget, Cardinality(Scored)})
                      /\ \A r \in RowIds \ flagged, f \in flagged : Score[r] <= Score[f]
    BY DEF HoldsOutTheTop
  <2>1. Highest(flagged, Scored)
    BY SweepParts DEF HeapSound
  <2>2. ASSUME NEW r \in RowIds \ flagged, NEW f \in flagged PROVE Score[r] <= Score[f]
    <3>1. f \in Scored /\ Score[r] \in Nat /\ Score[f] \in Nat /\ Score[f] > 0
      BY <2>1 DEF Highest, Scored
    <3>2. CASE r \in Scored
      BY <2>1, <3>2 DEF Highest
    <3>3. CASE r \notin Scored
      BY <3>1, <3>3 DEF Scored
    <3> QED
      BY <3>2, <3>3
  <2> QED
    BY <2>1, <2>2 DEF Highest
<1> QED
  BY <1>1, SweepInvariant, PTL

-----------------------------------------------------------------------------
(* The partitions above a partition.                                       *)

LEMMA InitLinks ==
  ASSUME PrebuiltInit
  PROVE  LinksSound
<1>1. nodeCount = 1 /\ nodes[0].leaf /\ nodes[0].left = 0 /\ nodes[0].right = 0
  BY DEF PrebuiltInit, CrackInit
<1>2. Ids = {0}
  BY <1>1 DEF Ids
<1> QED
  BY <1>1, <1>2 DEF LinksSound

LEMMA SplitKeepsLinks ==
  ASSUME LayoutInv, LinksSound, SplitAtMedian
  PROVE  LinksSound'
<1>1. PICK i, axis, pivot :
        /\ i = Head(splits).id /\ axis = Head(splits).axis /\ pivot = Median(i, axis)
        /\ Population(i) > MaxPopulation
        /\ \/ /\ CutSucceeds(i, axis, pivot)
              /\ AddChildren(i, axis, pivot)
           \/ /\ ~CutSucceeds(i, axis, pivot)
              /\ UNCHANGED treeVars
  BY DEF SplitAtMedian
<1>2. /\ phase = "build" /\ splits # <<>> /\ phase' = phase /\ substrate' = substrate
  BY DEF SplitAtMedian, configVars
<1>3. /\ BuildSound /\ CrackTypeOK /\ Ranges /\ substrate = "static_kd"
  BY <1>2 DEF LayoutInv, PartitionsSound, BuildSound
<1>4. i \in Ids /\ nodes[i].leaf /\ axis \in Axes /\ i \in Nat
  BY <1>1, <1>2, <1>3, WaitingAfterHead DEF Ids
<1>5. pivot \in Int
  <2>1. Population(i) > 0
    <3>1. Population(i) \in 0 .. N /\ MaxPopulation \in Nat
      BY <1>3, <1>4, RangeSize
    <3> QED
      BY <1>1, <3>1
  <2> QED
    BY <1>1, <1>3, <1>4, <2>1, MedianIsACoordinate
<1>6. CASE UNCHANGED treeVars
  <2>1. nodes' = nodes /\ nodeCount' = nodeCount
    BY <1>6 DEF treeVars
  <2> QED
    BY <1>2, <2>1 DEF LinksSound, Ids, PositionsOf, Span
<1>7. CASE CutSucceeds(i, axis, pivot) /\ AddChildren(i, axis, pivot)
  <2> DEFINE cut == SplitPos(i, axis, pivot)
             lo  == nodeCount
             hi  == nodeCount + 1
  <2>1. /\ Ids' = Ids \union {lo, hi} /\ lo \notin Ids /\ hi \notin Ids
        /\ \A j \in Ids : PositionsOf(j)' = PositionsOf(j)
        /\ \A j \in Ids \ {i} : nodes'[j] = nodes[j]
        /\ ~nodes'[i].leaf
        /\ nodes'[i].left = lo /\ nodes'[i].right = hi
        /\ nodes'[lo] = LeftChild(nodes[i], axis, pivot, cut)
        /\ nodes'[hi] = RightChild(nodes[i], axis, pivot, cut)
        /\ nodes[i].begin < cut /\ cut < nodes[i].end /\ cut \in Nat
        /\ Span(nodes'[lo]) = {p \in PositionsOf(i) : p < cut}
        /\ Span(nodes'[hi]) = {p \in PositionsOf(i) : p >= cut}
    BY <1>3, <1>4, <1>5, <1>7, TreeCut
  <2> HIDE DEF cut
  <2>2. /\ nodes[i] \in Node /\ nodes[i].begin \in Nat /\ nodes[i].end \in Nat
        /\ PositionsOf(i) = nodes[i].begin .. nodes[i].end - 1 /\ lo \in Nat
        /\ nodes[i].left = 0 /\ nodes[i].right = 0
    BY <1>2, <1>3, <1>4 DEF CrackTypeOK, Node, PositionsOf, Span, LinksSound
  <2>3. i < lo /\ i < hi
    BY <1>4, <2>2 DEF Ids
  <2>4. /\ nodes'[lo].leaf /\ nodes'[lo].left = 0 /\ nodes'[lo].right = 0
        /\ nodes'[hi].leaf /\ nodes'[hi].left = 0 /\ nodes'[hi].right = 0
    BY <1>4, <2>1, <2>2 DEF LeftChild, RightChild, Node
  <2>5. PositionsOf(i) # {}
    <3>1. nodes[i].begin \in PositionsOf(i)
      BY <2>1, <2>2
    <3> QED
      BY <3>1
  <2>6. Span(nodes'[lo]) \union Span(nodes'[hi]) = PositionsOf(i)
    <3>1. \A p \in PositionsOf(i) : p < cut \/ p >= cut
      BY <2>1, <2>2
    <3> QED
      BY <2>1, <3>1
  <2>7. \A j \in Ids' : PositionsOf(j)' = Span(nodes'[j])
    BY DEF PositionsOf
  <2>8. ASSUME NEW j \in Ids'
        PROVE  IF nodes'[j].leaf THEN nodes'[j].left = 0 /\ nodes'[j].right = 0
               ELSE /\ nodes'[j].left \in Ids' /\ nodes'[j].right \in Ids'
                    /\ nodes'[j].left > j /\ nodes'[j].right > j
                    /\ PositionsOf(nodes[j].left)' \union PositionsOf(nodes[j].right)' = PositionsOf(j)'
                    /\ PositionsOf(j)' # {}
    <3>1. CASE j = i
      <4>1. /\ PositionsOf(nodes[j].left)' = Span(nodes'[lo])
            /\ PositionsOf(nodes[j].right)' = Span(nodes'[hi])
            /\ PositionsOf(j)' = PositionsOf(i)
        BY <1>4, <2>1, <3>1 DEF PositionsOf
      <4> QED
        BY <2>1, <2>3, <2>5, <2>6, <3>1, <4>1
    <3>2. CASE j \in {lo, hi}
      BY <2>4, <3>2
    <3>3. CASE j \in Ids \ {i}
      <4>1. nodes'[j] = nodes[j] /\ PositionsOf(j)' = PositionsOf(j)
        BY <2>1, <3>3
      <4>2. CASE nodes[j].leaf
        BY <1>2, <1>3, <3>3, <4>1, <4>2 DEF LinksSound
      <4>3. CASE ~nodes[j].leaf
        <5>1. /\ nodes[j].left \in Ids /\ nodes[j].right \in Ids
              /\ nodes[j].left > j /\ nodes[j].right > j
              /\ PositionsOf(nodes[j].left) \union PositionsOf(nodes[j].right) = PositionsOf(j)
              /\ PositionsOf(j) # {}
          BY <1>2, <1>3, <3>3, <4>3 DEF LinksSound
        <5>2. PICK l, r : l = nodes[j].left /\ r = nodes[j].right
          OBVIOUS
        <5>3. PositionsOf(l)' = PositionsOf(l) /\ PositionsOf(r)' = PositionsOf(r)
          BY <2>1, <5>1, <5>2
        <5>4. /\ PositionsOf(nodes[j].left)' = PositionsOf(l)'
              /\ PositionsOf(nodes[j].right)' = PositionsOf(r)'
          BY <4>1, <5>2 DEF PositionsOf
        <5> QED
          BY <2>1, <4>1, <4>3, <5>1, <5>2, <5>3, <5>4
      <4> QED
        BY <4>2, <4>3
    <3> QED
      BY <2>1, <3>1, <3>2, <3>3
  <2> QED
    BY <2>8 DEF LinksSound
<1> QED
  BY <1>1, <1>6, <1>7

LEMMA LinksStep ==
  ASSUME LayoutInv, LinksSound, [PrebuiltNext]_prebuiltVars
  PROVE  LinksSound'
<1>1. CASE SplitAtMedian
  BY <1>1, SplitKeepsLinks
<1>2. CASE BuildGrid \/ InstallFlags \/ Refine
  BY <1>2 DEF BuildGrid, InstallFlags, Refine, LinksSound, configVars
<1>3. CASE StopSplitting \/ EndBuild \/ MaterializeRow \/ ScoreRow \/ StoreActive
           \/ StoreParents \/ UNCHANGED prebuiltVars
  <2>1. /\ nodes' = nodes /\ nodeCount' = nodeCount /\ substrate' = substrate
        /\ phase' # "ready" => phase # "ready"
    BY <1>3 DEF StopSplitting, EndBuild, MaterializeRow, ScoreRow, StoreActive, StoreParents,
       prebuiltVars, crackVars, treeVars, configVars
  <2> QED
    BY <2>1 DEF LinksSound, Ids, PositionsOf, Span
<1> QED
  BY <1>1, <1>2, <1>3 DEF PrebuiltNext


\* A recursion along parents, each with a smaller id, has a solution.
ParentsBefore(n, P) == \A i \in 0 .. n : \A j \in P[i] : j \in 0 .. n /\ j < i
Closure(f, n, P)    == f = [i \in 0 .. n |-> P[i] \union UNION {f[j] : j \in P[i]}]

LEMMA ClosureExists ==
  ASSUME NEW n \in Nat, NEW P, ParentsBefore(n, P)
  PROVE  \E f : Closure(f, n, P)
<1>0. \A i \in 0 .. n : \A j \in P[i] : j \in 0 .. n /\ j < i
  BY DEF ParentsBefore
<1> DEFINE Step(f, i)  == P[i] \union UNION {f[j] : j \in P[i]}
           Solves(f, m) == /\ f = [i \in 0 .. m |-> f[i]]
                           /\ \A i \in 0 .. m : f[i] = Step(f, i)
           Solvable(m) == \E f : Solves(f, m)
           Bad == {m \in 0 .. n : ~Solvable(m)}
<1>1. ASSUME Bad # {} PROVE FALSE
  <2>1. PICK m \in Bad : \A k \in Bad : m <= k
    <3>1. Bad \in SUBSET Nat
      OBVIOUS
    <3> HIDE DEF Bad
    <3> QED
      BY <1>1, <3>1, LeastNat
  <2>2. m \in 0 .. n /\ ~Solvable(m)
    OBVIOUS
  <2>3. \E f : m = 0 \/ Solves(f, m - 1)
    <3>1. CASE m # 0
      <4>1. m - 1 \in 0 .. n /\ ~(m <= m - 1)
        BY <2>2, <3>1
      <4>2. m - 1 \notin Bad
        BY <2>1, <4>1
      <4>3. Solvable(m - 1)
        BY <4>1, <4>2
      <4> QED
        BY <4>3
    <3> QED
      BY <3>1
  <2>4. PICK f : m = 0 \/ Solves(f, m - 1)
    BY <2>3
  <2> DEFINE g == [i \in 0 .. m |-> IF i = m THEN Step(f, m) ELSE f[i]]
  <2>5. ASSUME NEW i \in 0 .. m PROVE g[i] = Step(g, i)
    <3>1. i \in 0 .. n /\ i \in Int /\ m \in Int
      BY <2>2
    <3>2. \A j \in P[i] : j \in 0 .. m /\ j # m
      BY <1>0, <2>2, <3>1
    <3>3. \A j \in P[i] : g[j] = f[j]
      BY <3>2
    <3>4. Step(g, i) = Step(f, i)
      <4> HIDE DEF g
      <4>1. {g[j] : j \in P[i]} = {f[j] : j \in P[i]}
        BY <3>3
      <4> QED
        BY <4>1
    <3>5. g[i] = Step(f, i)
      <4>1. CASE i = m
        BY <4>1
      <4>2. CASE i # m
        <5>1. i \in 0 .. m - 1 /\ m # 0
          BY <3>1, <4>2
        <5>2. f[i] = Step(f, i)
          BY <2>4, <5>1
        <5>3. g[i] = f[i]
          BY <4>2
        <5> HIDE DEF g, Step
        <5> QED
          BY <5>2, <5>3
      <4> QED
        BY <4>1, <4>2
    <3> HIDE DEF g, Step
    <3> QED
      BY <3>4, <3>5
  <2>6. g = [i \in 0 .. m |-> g[i]]
    OBVIOUS
  <2>7. Solves(g, m)
    <3> HIDE DEF g, Step
    <3> QED
      BY <2>5, <2>6
  <2> QED
    BY <2>2, <2>7
<1>2. n \in 0 .. n /\ n \notin Bad
  <2> HIDE DEF Bad
  <2> QED
    BY <1>1
<1>3. PICK f : Solves(f, n)
  BY <1>2
<1>4. f = [i \in 0 .. n |-> Step(f, i)]
  <2> HIDE DEF Step
  <2>1. [i \in 0 .. n |-> f[i]] = [i \in 0 .. n |-> Step(f, i)]
    BY <1>3
  <2> QED
    BY <1>3, <2>1
<1> QED
  BY <1>4 DEF Closure

\* The build is over: parents have smaller ids, are not active, and share out
\* their range among their children.
TreeLike ==
  /\ \A i \in Ids : \A j \in Parent(i) :
       j \in Ids /\ j < i /\ ~nodes[j].leaf /\ PositionsOf(i) \subseteq PositionsOf(j)
  /\ \A j \in Ids : ~nodes[j].leaf =>
       /\ PositionsOf(j) # {}
       /\ \A p \in PositionsOf(j) : \E c \in Ids : j \in Parent(c) /\ p \in PositionsOf(c)

LEMMA BuiltIsTreeLike ==
  ASSUME LayoutInv, LinksSound, phase \notin {"build", "ready"}
  PROVE  TreeLike
<1>1. /\ GridSound /\ CrackTypeOK /\ Ranges /\ Covered /\ PositionsOf(0) = Positions
      /\ nodeCount \in Nat /\ Ids = 0 .. nodeCount - 1
  BY DEF LayoutInv, PartitionsSound, CrackTypeOK, Ids
<1>2. CASE substrate = "grid_akd"
  <2>1. /\ Ids = {0} \union Tiles /\ ~nodes[0].leaf /\ \A i \in Tiles : nodes[i].leaf
        /\ \A i \in Tiles : i \in Nat /\ i # 0 /\ 0 < i
    <3>1. TileCount \in Nat
      BY TilesOverRec DEF TileCount
    <3> QED
      BY <1>1, <1>2, <3>1 DEF GridSound, Tiles, LayoutInv
  <2>2. Parent(0) = {} /\ \A i \in Tiles : Parent(i) = {0}
    BY <1>2, <2>1 DEF Parent
  <2>3. \A i \in Ids : PositionsOf(i) \subseteq Positions
    BY <1>1, RangeSize
  <2>4. 0 \in Positions
    BY DEF Positions
  <2>5. ASSUME NEW p \in Positions PROVE \E c \in Ids : 0 \in Parent(c) /\ p \in PositionsOf(c)
    <3>1. PICK c \in Ids : nodes[c].leaf /\ p \in PositionsOf(c)
      BY <1>1 DEF Covered
    <3> QED
      BY <2>1, <2>2, <3>1
  <2> QED
    BY <1>1, <2>1, <2>2, <2>3, <2>4, <2>5 DEF TreeLike
<1>3. CASE substrate # "grid_akd"
  <2>1. \A i \in Ids :
          IF nodes[i].leaf THEN nodes[i].left = 0 /\ nodes[i].right = 0
          ELSE /\ nodes[i].left \in Ids /\ nodes[i].right \in Ids
               /\ nodes[i].left > i /\ nodes[i].right > i
               /\ PositionsOf(nodes[i].left) \union PositionsOf(nodes[i].right) = PositionsOf(i)
               /\ PositionsOf(i) # {}
    BY <1>3 DEF LinksSound
  <2>2. \A i \in Ids : Parent(i) = IF i = 0 THEN {}
                                   ELSE {j \in Ids : i \in {nodes[j].left, nodes[j].right}}
    BY <1>3 DEF Parent
  <2>3. ASSUME NEW i \in Ids, NEW j \in Parent(i)
        PROVE  j \in Ids /\ j < i /\ ~nodes[j].leaf /\ PositionsOf(i) \subseteq PositionsOf(j)
    <3>1. j \in Ids /\ i # 0 /\ (i = nodes[j].left \/ i = nodes[j].right)
      BY <2>2
    <3>2. ~nodes[j].leaf
      BY <2>1, <3>1
    <3>3. i > j /\ i \in Int /\ j \in Int
      BY <1>1, <2>1, <3>1, <3>2
    <3> QED
      BY <2>1, <3>1, <3>2, <3>3
  <2>4. ASSUME NEW j \in Ids, ~nodes[j].leaf, NEW p \in PositionsOf(j)
        PROVE  \E c \in Ids : j \in Parent(c) /\ p \in PositionsOf(c)
    <3>1. PICK c \in {nodes[j].left, nodes[j].right} : p \in PositionsOf(c)
      BY <2>1, <2>4
    <3>2. c \in Ids /\ c > j /\ j \in Nat
      BY <1>1, <2>1, <2>4
    <3>3. c # 0
      BY <1>1, <3>2
    <3> QED
      BY <2>2, <3>1, <3>2, <3>3
  <2> QED
    BY <2>1, <2>3, <2>4 DEF TreeLike
<1> QED
  BY <1>2, <1>3

LEMMA AncestorsRec ==
  ASSUME nodeCount \in Nat \ {0}, TreeLike
  PROVE  \A i \in Ids : Ancestors[i] = Parent(i) \union UNION {Ancestors[j] : j \in Parent(i)}
<1> DEFINE P == [i \in Ids |-> Parent(i)]
           n == nodeCount - 1
<1>1. n \in Nat /\ Ids = 0 .. n
  BY DEF Ids
<1>2. \A i \in 0 .. n : \A j \in P[i] : j \in 0 .. n /\ j < i
  BY <1>1 DEF TreeLike
<1>3. PICK f : f = [i \in 0 .. n |-> P[i] \union UNION {f[j] : j \in P[i]}]
  <2> HIDE DEF P, n
  <2>1. ParentsBefore(n, P)
    BY <1>2 DEF ParentsBefore
  <2>2. PICK g : Closure(g, n, P)
    BY <2>1, <1>1, ClosureExists
  <2>3. g = [i \in 0 .. n |-> P[i] \union UNION {g[j] : j \in P[i]}]
    BY <2>2 DEF Closure
  <2> QED
    BY <2>3
<1>4. f = [i \in Ids |-> Parent(i) \union UNION {f[j] : j \in Parent(i)}]
  <2>1. \A i \in Ids : P[i] = Parent(i)
    OBVIOUS
  <2> HIDE DEF P, n
  <2>2. [i \in Ids |-> P[i] \union UNION {f[j] : j \in P[i]}]
          = [i \in Ids |-> Parent(i) \union UNION {f[j] : j \in Parent(i)}]
    BY <2>1
  <2> QED
    BY <1>1, <1>3, <2>2
<1>5. Ancestors = [i \in Ids |-> Parent(i) \union UNION {Ancestors[j] : j \in Parent(i)}]
  BY <1>4 DEF Ancestors
<1> QED
  BY <1>5

\* An ancestor is retired, and its range takes in the range below it.
LEMMA AncestorsContain ==
  ASSUME nodeCount \in Nat \ {0}, TreeLike
  PROVE  \A i \in Ids : \A j \in Ancestors[i] :
           j \in Ids /\ ~nodes[j].leaf /\ PositionsOf(i) \subseteq PositionsOf(j)
<1> DEFINE Fine(i) == \A j \in Ancestors[i] :
                        j \in Ids /\ ~nodes[j].leaf /\ PositionsOf(i) \subseteq PositionsOf(j)
           Bad == {i \in Ids : ~Fine(i)}
<1>1. Bad \in SUBSET Nat
  BY DEF Ids
<1>2. ASSUME Bad # {} PROVE FALSE
  <2>1. PICK i \in Bad : \A k \in Bad : i <= k
    <3> HIDE DEF Bad
    <3> QED
      BY <1>1, <1>2, LeastNat
  <2>2. i \in Ids /\ ~Fine(i) /\ i \in Int
    BY <1>1
  <2>3. ASSUME NEW j \in Ancestors[i]
        PROVE  j \in Ids /\ ~nodes[j].leaf /\ PositionsOf(i) \subseteq PositionsOf(j)
    <3>1. CASE j \in Parent(i)
      BY <2>2, <3>1 DEF TreeLike
    <3>2. CASE j \notin Parent(i)
      <4>1. Ancestors[i] = Parent(i) \union UNION {Ancestors[k] : k \in Parent(i)}
        BY <2>2, AncestorsRec
      <4>2. PICK k \in Parent(i) : j \in Ancestors[k]
        <5> HIDE DEF Fine, Bad
        <5> QED
          BY <2>3, <3>2, <4>1
      <4>3. k \in Ids /\ k < i /\ PositionsOf(i) \subseteq PositionsOf(k)
        BY <2>2 DEF TreeLike
      <4>4. ~(i <= k)
        BY <2>2, <4>3 DEF Ids
      <4>5. Fine(k)
        <5> HIDE DEF Fine
        <5> QED
          BY <2>1, <4>3, <4>4
      <4> QED
        BY <4>2, <4>3, <4>5
    <3> QED
      BY <3>1, <3>2
  <2> QED
    BY <2>2, <2>3
<1> QED
  BY <1>2

\* An ancestor of an ancestor is one.
LEMMA AncestorsClimb ==
  ASSUME nodeCount \in Nat \ {0}, TreeLike
  PROVE  \A i \in Ids : \A c \in Ancestors[i] : \A j \in Ancestors[c] : j \in Ancestors[i]
<1> DEFINE Fine(i) == \A c \in Ancestors[i] : \A j \in Ancestors[c] : j \in Ancestors[i]
           Bad == {i \in Ids : ~Fine(i)}
<1>1. Bad \in SUBSET Nat
  BY DEF Ids
<1>2. ASSUME Bad # {} PROVE FALSE
  <2>1. PICK i \in Bad : \A k \in Bad : i <= k
    <3> HIDE DEF Bad
    <3> QED
      BY <1>1, <1>2, LeastNat
  <2>2. i \in Ids /\ ~Fine(i) /\ i \in Int
    BY <1>1
  <2>3. ASSUME NEW c \in Ancestors[i], NEW j \in Ancestors[c] PROVE j \in Ancestors[i]
    <3>1. Ancestors[i] = Parent(i) \union UNION {Ancestors[k] : k \in Parent(i)}
      BY <2>2, AncestorsRec
    <3>2. \E k \in Parent(i) : j \in Ancestors[k]
      <4>1. CASE c \in Parent(i)
        BY <4>1
      <4>2. CASE c \notin Parent(i)
        <5>1. PICK k \in Parent(i) : c \in Ancestors[k]
          <6> HIDE DEF Fine, Bad
          <6> QED
            BY <2>3, <3>1, <4>2
        <5>2. k \in Ids /\ k < i
          BY <2>2 DEF TreeLike
        <5>3. ~(i <= k)
          BY <2>2, <5>2 DEF Ids
        <5>4. Fine(k)
          <6> HIDE DEF Fine
          <6> QED
            BY <2>1, <5>2, <5>3
        <5> QED
          BY <5>1, <5>4
      <4> QED
        BY <4>1, <4>2
    <3> HIDE DEF Fine, Bad
    <3> QED
      BY <3>1, <3>2
  <2> QED
    BY <2>2, <2>3
<1> QED
  BY <1>2

\* Whatever a retired partition holds, some active one below it holds.
LEMMA ActiveBelow ==
  ASSUME nodeCount \in Nat \ {0}, TreeLike
  PROVE  \A j \in Ids : ~nodes[j].leaf => \A p \in PositionsOf(j) :
           \E i \in Active : j \in Ancestors[i] /\ p \in PositionsOf(i)
<1> DEFINE Fine(j) == \A p \in PositionsOf(j) :
                        \E i \in Active : j \in Ancestors[i] /\ p \in PositionsOf(i)
           Bad  == {j \in Ids : ~nodes[j].leaf /\ ~Fine(j)}
           Back == {nodeCount - 1 - j : j \in Bad}
<1>1. Back \in SUBSET Nat
  BY DEF Ids
<1>2. ASSUME Bad # {} PROVE FALSE
  <2>1. PICK b \in Back : \A k \in Back : b <= k
    <3>1. Back # {}
      BY <1>2
    <3> HIDE DEF Back
    <3> QED
      BY <1>1, <3>1, LeastNat
  <2>2. PICK j \in Bad : b = nodeCount - 1 - j
    OBVIOUS
  <2>3. j \in Ids /\ ~nodes[j].leaf /\ ~Fine(j) /\ j \in Int
    BY DEF Ids
  <2>4. ASSUME NEW p \in PositionsOf(j)
        PROVE  \E i \in Active : j \in Ancestors[i] /\ p \in PositionsOf(i)
    <3>1. PICK c \in Ids : j \in Parent(c) /\ p \in PositionsOf(c)
      BY <2>3, <2>4 DEF TreeLike
    <3>2. j < c /\ c \in Int
      BY <3>1 DEF TreeLike, Ids
    <3>3. j \in Ancestors[c]
      <4>1. Ancestors[c] = Parent(c) \union UNION {Ancestors[k] : k \in Parent(c)}
        BY <3>1, AncestorsRec
      <4> HIDE DEF Fine, Bad, Back
      <4> QED
        BY <3>1, <4>1
    <3>4. CASE nodes[c].leaf
      BY <3>1, <3>3, <3>4 DEF Active
    <3>5. CASE ~nodes[c].leaf
      <4>1. c \notin Bad
        <5>1. ASSUME c \in Bad PROVE FALSE
          <6>1. nodeCount - 1 - c \in Back
            BY <5>1
          <6>2. b <= nodeCount - 1 - c
            BY <2>1, <6>1
          <6> HIDE DEF Bad, Back, Fine
          <6> QED
            BY <2>2, <2>3, <3>2, <6>2
        <5> QED
          BY <5>1
      <4>2. Fine(c)
        <5> HIDE DEF Fine
        <5> QED
          BY <3>1, <3>5, <4>1
      <4>3. PICK i \in Active : c \in Ancestors[i] /\ p \in PositionsOf(i)
        BY <3>1, <4>2
      <4>4. i \in Ids
        BY DEF Active
      <4>5. j \in Ancestors[i]
        BY <3>3, <4>3, <4>4, AncestorsClimb
      <4> QED
        BY <4>3, <4>5
    <3> QED
      BY <3>4, <3>5
  <2> QED
    BY <2>3, <2>4
<1> QED
  BY <1>2

-----------------------------------------------------------------------------
(* The summaries.                                                          *)

\* Every row is at some position of the table.
LEMMA RowIsSomewhere ==
  ASSUME CrackTypeOK, IsInjective(rowAt), NEW r \in RowIds
  PROVE  \E p \in Positions : rowAt[p] = r
<1> SUFFICES ASSUME \A p \in Positions : rowAt[p] # r PROVE FALSE
  OBVIOUS
<1>1. rowAt \in [Positions -> RowIds \ {r}]
  BY DEF CrackTypeOK
<1>2. /\ IsFiniteSet(RowIds \ {r}) /\ Cardinality(RowIds \ {r}) = N - 1
      /\ IsFiniteSet(Positions) /\ Cardinality(Positions) = N /\ N - 1 < N
  BY RowsFinite, FS_RemoveElement, TableAssumption
<1>3. Cardinality(RowIds \ {r}) < Cardinality(Positions)
  BY <1>2
<1>4. \E x, y \in Positions : x # y /\ rowAt[x] = rowAt[y]
  BY ONLY <1>1, <1>2, <1>3, FS_PigeonHole
<1> QED
  BY <1>1, <1>4 DEF IsInjective

\* Two active partitions share no row.
ApartActive ==
  \A i, j \in Active : i # j => /\ PositionsOf(i) \cap PositionsOf(j) = {}
                                /\ RowsOf(i) \cap RowsOf(j) = {}

LEMMA ActiveApart ==
  ASSUME LayoutInv
  PROVE  ApartActive
<1>1. CrackTypeOK /\ Ranges /\ Nested /\ IsInjective(rowAt) /\ DOMAIN rowAt = Positions
  BY DEF LayoutInv, PartitionsSound, RowsAligned, CrackTypeOK
<1>2. ASSUME NEW i \in Active, NEW j \in Active, i # j
      PROVE  PositionsOf(i) \cap PositionsOf(j) = {} /\ RowsOf(i) \cap RowsOf(j) = {}
  <2>1. i \in Ids /\ j \in Ids /\ nodes[i].leaf /\ nodes[j].leaf
    BY DEF Active
  <2>2. PositionsOf(i) \cap PositionsOf(j) = {}
    BY <1>1, <1>2, <2>1 DEF Nested
  <2>3. PositionsOf(i) \subseteq Positions /\ PositionsOf(j) \subseteq Positions
    BY <1>1, <2>1, RangeSize
  <2> QED
    BY <1>1, <2>2, <2>3 DEF RowsOf, IsInjective
<1> QED
  BY <1>2 DEF ApartActive

\* Once the partitions are built, a row is owned by the active one that holds it.
OwnersHold ==
  \A r \in RowIds : OwnerOf(r) \in Active /\ \A i \in Active : i = OwnerOf(r) <=> r \in RowsOf(i)

LEMMA OwnersByRows ==
  ASSUME LayoutInv, phase \notin {"build", "ready"}
  PROVE  OwnersHold
<1>1. /\ CrackTypeOK /\ Ranges /\ Covered /\ IsInjective(rowAt) /\ GridSound /\ ConfigSound
  BY DEF LayoutInv, PartitionsSound, RowsAligned
<1>2. CASE substrate = "grid_akd"
  <2>1. /\ owner = [r \in RowIds |-> TileId(TileOfRow(r))]
        /\ \A i \in Tiles : RowsOf(i) = {r \in RowIds : owner[r] = i}
        /\ Ids = {0} \union Tiles /\ ~nodes[0].leaf /\ \A i \in Tiles : nodes[i].leaf
    BY <1>1, <1>2 DEF GridSound, LayoutInv
  <2>2. Active = Tiles
    BY <2>1 DEF Active
  <2>3. threshold \in RoundedAxes
    BY <1>1 DEF ConfigSound
  <2>4. ASSUME NEW r \in RowIds
        PROVE  OwnerOf(r) \in Active /\ \A i \in Active : i = OwnerOf(r) <=> r \in RowsOf(i)
    <3>1. OwnerOf(r) = owner[r]
      BY <1>2 DEF OwnerOf
    <3>2. owner[r] \in Tiles
      BY <2>1, <2>3, TilesAreCells
    <3> QED
      BY <2>1, <2>2, <3>1, <3>2
  <2> QED
    BY <2>4 DEF OwnersHold
<1>3. CASE substrate # "grid_akd"
  <2>1. ASSUME NEW r \in RowIds
        PROVE  OwnerOf(r) \in Active /\ \A i \in Active : i = OwnerOf(r) <=> r \in RowsOf(i)
    <3>1. PICK p \in Positions : rowAt[p] = r
      BY <1>1, RowIsSomewhere
    <3>2. PICK i \in Ids : nodes[i].leaf /\ p \in PositionsOf(i)
      BY <1>1 DEF Covered
    <3>3. i \in Active /\ r \in RowsOf(i)
      BY <3>1, <3>2 DEF Active, RowsOf
    <3>4. OwnerOf(r) = CHOOSE j \in Active : r \in RowsOf(j)
      BY <1>3 DEF OwnerOf
    <3>5. OwnerOf(r) \in Active /\ r \in RowsOf(OwnerOf(r))
      BY <3>3, <3>4
    <3>6. ApartActive
      BY ActiveApart
    <3> QED
      BY <3>5, <3>6 DEF ApartActive
  <2> QED
    BY <2>1 DEF OwnersHold
<1> QED
  BY <1>2, <1>3

\* After the last row, an active partition's moments are those of its rows.
OneEach(i) == [r \in RowIds |-> IF r \in RowsOf(i) THEN 1 ELSE 0]

LEMMA MomentsOfActive ==
  ASSUME LayoutInv, SweepSound, Eager, phase \in {"sweep", "parents"}, swept = N
  PROVE  \A i \in Active : acc[i] = OneEach(i)
<1>1. acc = Folded(N)
  BY SweepParts DEF MomentsSound
<1>2. OwnersHold
  BY OwnersByRows
<1>3. ASSUME NEW i \in Active PROVE acc[i] = OneEach(i)
  <2>1. i \in Ids
    BY DEF Active
  <2>2. acc[i] = [r \in RowIds |-> IF r < N /\ i = OwnerOf(r) THEN 1 ELSE 0]
    BY <1>1, <2>1 DEF Folded
  <2>3. \A r \in RowIds : r < N /\ (i = OwnerOf(r) <=> r \in RowsOf(i))
    BY <1>2, TableAssumption DEF OwnersHold, RowIds
  <2> QED
    BY <2>2, <2>3 DEF OneEach
<1> QED
  BY <1>3

\* The active partitions below a retired one.
Under(j) == {i \in Active : j \in Ancestors[i]}

\* A retired partition is made of the active ones below it.
SharedOut ==
  \A j \in Ids :
    /\ nodes[j].leaf  => Under(j) = {}
    /\ ~nodes[j].leaf => /\ Under(j) # {}
                         /\ PositionsOf(j) = UNION {PositionsOf(i) : i \in Under(j)}

LEMMA BuiltIsSharedOut ==
  ASSUME LayoutInv, LinksSound, phase \notin {"build", "ready"}
  PROVE  SharedOut
<1>1. TreeLike /\ nodeCount \in Nat \ {0}
  BY BuiltIsTreeLike DEF LayoutInv, PartitionsSound, CrackTypeOK
<1>2. \A i \in Ids : \A j \in Ancestors[i] :
        j \in Ids /\ ~nodes[j].leaf /\ PositionsOf(i) \subseteq PositionsOf(j)
  BY <1>1, AncestorsContain
<1>3. \A j \in Ids : ~nodes[j].leaf => \A p \in PositionsOf(j) :
        \E i \in Active : j \in Ancestors[i] /\ p \in PositionsOf(i)
  BY <1>1, ActiveBelow
<1>4. ASSUME NEW j \in Ids, nodes[j].leaf PROVE Under(j) = {}
  BY <1>2, <1>4 DEF Under, Active
<1>5. ASSUME NEW j \in Ids, ~nodes[j].leaf
      PROVE  Under(j) # {} /\ PositionsOf(j) = UNION {PositionsOf(i) : i \in Under(j)}
  <2>1. PositionsOf(j) # {}
    BY <1>1, <1>5 DEF TreeLike
  <2>2. \A p \in PositionsOf(j) : \E i \in Under(j) : p \in PositionsOf(i)
    BY <1>3, <1>5 DEF Under
  <2>3. \A i \in Under(j) : PositionsOf(i) \subseteq PositionsOf(j)
    BY <1>2 DEF Under, Active
  <2> QED
    BY <2>1, <2>2, <2>3
<1> QED
  BY <1>4, <1>5 DEF SharedOut

\* Merged over the active partitions below it, a retired partition's population
\* and moments are its own.
LEMMA MergedIsOwn ==
  ASSUME LayoutInv, SharedOut, NEW j \in Ids, ~nodes[j].leaf,
         \A i \in Active : acc[i] = OneEach(i)
  PROVE  /\ SumFunction([i \in Under(j) |-> Population(i)]) = Population(j)
         /\ \A r \in RowIds :
              SumFunction([i \in Under(j) |-> acc[i][r]]) = IF r \in RowsOf(j) THEN 1 ELSE 0
<1>1. CrackTypeOK /\ Ranges /\ nodeCount \in Nat \ {0}
  BY DEF LayoutInv, PartitionsSound, CrackTypeOK
<1>2. IsFiniteSet(Under(j)) /\ Under(j) \in SUBSET Ids /\ Under(j) \in SUBSET Active
  <2>1. IsFiniteSet(Ids)
    <3>1. 0 \in Int /\ nodeCount - 1 \in Int
      BY <1>1
    <3>2. IsFiniteSet(0 .. nodeCount - 1)
      BY ONLY <3>1, FS_Interval
    <3> QED
      BY <3>2 DEF Ids
  <2>2. Under(j) \in SUBSET Ids /\ Under(j) \in SUBSET Active
    BY DEF Under, Active
  <2> QED
    BY ONLY <2>1, <2>2, FS_Subset
<1>3. ApartActive
  BY ActiveApart
<1>4. PositionsOf(j) = UNION {PositionsOf(i) : i \in Under(j)}
  BY DEF SharedOut
<1>5. SumFunction([i \in Under(j) |-> Population(i)]) = Population(j)
  <2> DEFINE S == Under(j)
             f == [i \in S |-> Population(i)]
             U == [i \in S |-> PositionsOf(i)]
  <2>1. \A i \in S : IsFiniteSet(U[i]) /\ f[i] = Cardinality(U[i])
    BY <1>1, <1>2, RangeSize
  <2>2. \A x, y \in S : x # y => U[x] \cap U[y] = {}
    BY <1>2, <1>3 DEF ApartActive
  <2>3. UNION {U[i] : i \in S} = PositionsOf(j) /\ DOMAIN f = S
    BY <1>4
  <2>4. SumFunctionOnSet(f, S) = Cardinality(UNION {U[i] : i \in S})
    <3>1. IsFiniteSet(S)
      BY <1>2
    <3> HIDE DEF S, f, U
    <3> QED
      BY ONLY <3>1, <2>1, <2>2, SumOfSizes
  <2>5. Cardinality(PositionsOf(j)) = Population(j)
    BY <1>1, RangeSize
  <2> QED
    BY <2>3, <2>4, <2>5 DEF SumFunction
<1>6. ASSUME NEW r \in RowIds
      PROVE  SumFunction([i \in Under(j) |-> acc[i][r]]) = IF r \in RowsOf(j) THEN 1 ELSE 0
  <2> DEFINE S == Under(j)
             f == [i \in S |-> acc[i][r]]
             T == {i \in S : r \in RowsOf(i)}
  <2>1. \A i \in S : f[i] = IF i \in T THEN 1 ELSE 0
    BY <1>2 DEF OneEach
  <2>2. \A x, y \in T : x = y
    BY <1>2, <1>3 DEF ApartActive
  <2>3. T = {} <=> r \notin RowsOf(j)
    BY <1>4 DEF RowsOf
  <2>4. SumFunctionOnSet(f, S) = IF T = {} THEN 0 ELSE 1
    <3>1. IsFiniteSet(S) /\ T \in SUBSET S
      BY <1>2
    <3> HIDE DEF S, f, T
    <3> QED
      BY <3>1, <2>1, <2>2, SumOfOne
  <2>5. SumFunction(f) = SumFunctionOnSet(f, S)
    BY DEF SumFunction
  <2> HIDE DEF f, T, S
  <2>6. SumFunction(f) = IF r \in RowsOf(j) THEN 1 ELSE 0
    BY <2>3, <2>4, <2>5
  <2> QED
    BY <2>6 DEF f, S
<1> QED
  BY <1>5, <1>6

\* What the summaries are measured by stays while the table and the tree do.
LEMMA FrozenPartitions ==
  ASSUME UNCHANGED <<rowAt, nodes, nodeCount, substrate, persist>>
  PROVE  /\ Ids' = Ids /\ Active' = Active /\ Eager' = Eager /\ BuiltWith' = BuiltWith
         /\ \A i : ExactFor(i)' = ExactFor(i)
<1>1. Ids' = Ids
  BY DEF Ids
<1>2. Active' = Active
  BY <1>1 DEF Active
<1>3. Eager' = Eager
  BY DEF Eager, Prebuilt
<1>4. Tiles' = Tiles
  BY DEF Tiles, TileCount
<1>5. BuiltWith' = BuiltWith
  BY <1>1, <1>4 DEF BuiltWith
<1>6. ASSUME NEW i PROVE ExactFor(i)' = ExactFor(i)
  BY DEF ExactFor, Exact, Population, RowsOf, PositionsOf, Span
<1> QED
  BY <1>1, <1>2, <1>3, <1>5, <1>6

LEMMA InitSummaries ==
  ASSUME PrebuiltInit
  PROVE  SummariesSound
<1>1. phase = "build" /\ summary = <<>>
  BY DEF PrebuiltInit
<1> QED
  BY <1>1 DEF SummariesSound

\* Nothing is stored before the sweep is over.
LEMMA NothingStoredYet ==
  ASSUME SummariesSound,
         StopSplitting \/ SplitAtMedian \/ BuildGrid \/ EndBuild \/ MaterializeRow \/ ScoreRow
  PROVE  SummariesSound'
<1>1. /\ phase \in {"build", "sweep"} /\ summary' = summary /\ UNCHANGED configVars
      /\ phase' \in {"build", "sweep"} \/ (phase' = "ready" /\ ~Eager)
  BY DEF StopSplitting, SplitAtMedian, BuildGrid, EndBuild, MaterializeRow, ScoreRow
<1>2. Eager' = Eager
  BY <1>1 DEF configVars, Eager, Prebuilt
<1>3. summary = <<>>
  BY <1>1 DEF SummariesSound
<1> QED
  BY <1>1, <1>2, <1>3 DEF SummariesSound

LEMMA ExactWhenCounted ==
  ASSUME NEW i, acc[i] = OneEach(i)
  PROVE  Exact(Population(i), acc[i]) = ExactFor(i)
BY DEF ExactFor, Exact, OneEach

LEMMA ActiveAreStored ==
  ASSUME LayoutInv, SweepSound, SummariesSound, StoreActive
  PROVE  SummariesSound'
<1>1. /\ phase = "sweep" /\ swept = N /\ phase' = IF Eager THEN "parents" ELSE "flags"
      /\ summary' = IF Eager THEN [i \in Active |-> Exact(Population(i), acc[i])] ELSE summary
      /\ UNCHANGED <<rowAt, nodes, nodeCount, substrate, persist>>
  BY DEF StoreActive, crackVars, tableVars, treeVars, configVars
<1>2. /\ Ids' = Ids /\ Active' = Active /\ Eager' = Eager /\ BuiltWith' = BuiltWith
      /\ \A i : ExactFor(i)' = ExactFor(i)
  BY <1>1, FrozenPartitions
<1>3. CASE ~Eager
  <2>1. summary' = <<>> /\ phase' = "flags"
    BY <1>1, <1>3 DEF SummariesSound
  <2> QED
    BY <1>2, <1>3, <2>1 DEF SummariesSound
<1>4. CASE Eager
  <2>1. \A i \in Active : acc[i] = OneEach(i)
    BY <1>1, <1>4, MomentsOfActive
  <2>2. \A i \in Active : Exact(Population(i), acc[i]) = ExactFor(i)
    BY <2>1, ExactWhenCounted
  <2>3. summary' = [i \in Active |-> ExactFor(i)] /\ phase' = "parents"
    BY <1>1, <1>4, <2>2
  <2>4. Active \subseteq Ids
    BY DEF Active
  <2> QED
    BY <1>2, <1>4, <2>3, <2>4 DEF SummariesSound
<1> QED
  BY <1>3, <1>4

LEMMA ParentsAreStored ==
  ASSUME LayoutInv, LinksSound, SweepSound, SummariesSound, StoreParents
  PROVE  SummariesSound'
<1> DEFINE parents == {j \in Ids : Under(j) # {}}
           Merged(i) == Exact(SumFunction([j \in Under(i) |-> Population(j)]),
                              [r \in RowIds |-> SumFunction([j \in Under(i) |-> acc[j][r]])])
<1>1. /\ phase = "parents" /\ phase' = "flags"
      /\ summary' = [i \in DOMAIN summary \union parents |->
                       IF i \in parents THEN Merged(i) ELSE summary[i]]
      /\ UNCHANGED <<rowAt, nodes, nodeCount, substrate, persist>>
  BY DEF StoreParents, Under, crackVars, tableVars, treeVars, configVars
<1>2. /\ Ids' = Ids /\ Active' = Active /\ Eager' = Eager /\ BuiltWith' = BuiltWith
      /\ \A i : ExactFor(i)' = ExactFor(i)
  BY <1>1, FrozenPartitions
<1>3. Eager /\ DOMAIN summary = Active /\ \A i \in DOMAIN summary : summary[i] = ExactFor(i)
  BY <1>1 DEF SummariesSound
<1>4. \A i \in Active : acc[i] = OneEach(i)
  <2>1. swept = N
    BY <1>1, SweepParts DEF SweepCounted
  <2> QED
    BY <1>1, <1>3, <2>1, MomentsOfActive
<1>5. SharedOut
  BY <1>1, BuiltIsSharedOut
<1>6. ASSUME NEW i \in parents PROVE Merged(i) = ExactFor(i)
  <2>1. i \in Ids /\ ~nodes[i].leaf
    BY <1>5 DEF SharedOut
  <2>2. /\ SumFunction([j \in Under(i) |-> Population(j)]) = Population(i)
        /\ \A r \in RowIds :
             SumFunction([j \in Under(i) |-> acc[j][r]]) = IF r \in RowsOf(i) THEN 1 ELSE 0
    BY <1>4, <1>5, <2>1, MergedIsOwn
  <2> QED
    BY <2>2 DEF ExactFor, Exact
<1>7. Ids = Active \union parents /\ parents \subseteq Ids
  BY <1>5 DEF SharedOut, Active
<1>8. BuiltWith \subseteq Ids
  BY <1>1 DEF BuiltWith, LayoutInv, GridSound
<1> HIDE DEF parents, Merged
<1>9. summary' = [i \in Ids |-> ExactFor(i)]
  <2>1. ASSUME NEW i \in Ids
        PROVE  (IF i \in parents THEN Merged(i) ELSE summary[i]) = ExactFor(i)
    BY <1>3, <1>6, <1>7
  <2> QED
    BY <1>1, <1>3, <1>7, <2>1
<1> QED
  BY <1>1, <1>2, <1>8, <1>9 DEF SummariesSound

LEMMA FlagsKeepSummaries ==
  ASSUME SummariesSound, InstallFlags \/ UNCHANGED prebuiltVars
  PROVE  SummariesSound'
<1>1. /\ UNCHANGED <<rowAt, nodes, nodeCount, substrate, persist>> /\ summary' = summary
      /\ phase' = phase \/ (phase = "flags" /\ phase' = "ready")
  BY DEF InstallFlags, prebuiltVars, crackVars, tableVars, treeVars, configVars
<1>2. /\ Ids' = Ids /\ Active' = Active /\ Eager' = Eager /\ BuiltWith' = BuiltWith
      /\ \A i : ExactFor(i)' = ExactFor(i)
  BY <1>1, FrozenPartitions
<1> QED
  BY <1>1, <1>2 DEF SummariesSound

LEMMA RefineKeepsSummaries ==
  ASSUME LayoutInv, SummariesSound, Refine
  PROVE  SummariesSound'
<1>1. /\ UNCHANGED <<configVars, phase, splits, owner, sweepVars, summary, flagged>>
      /\ phase = "ready" /\ Ids \subseteq Ids' /\ (substrate = "static_kd" => Ids' = Ids)
      /\ \A j \in Ids : Population(j)' = Population(j) /\ RowsOf(j)' = RowsOf(j)
  BY RefineKeepsRows
<1>2. summary' = summary /\ phase' = phase /\ substrate' = substrate /\ persist' = persist
  BY <1>1 DEF configVars
<1>3. Eager' = Eager
  BY <1>2 DEF Eager, Prebuilt
<1>4. Eager => BuiltWith' = BuiltWith
  BY <1>1, <1>2 DEF Eager, Prebuilt, BuiltWith, Tiles, TileCount
<1>5. \A i \in Ids : ExactFor(i)' = ExactFor(i)
  BY <1>1 DEF ExactFor, Exact
<1> QED
  BY <1>1, <1>2, <1>3, <1>4, <1>5 DEF SummariesSound

LEMMA SummariesStep ==
  ASSUME PrebuiltInv, [PrebuiltNext]_prebuiltVars
  PROVE  SummariesSound'
<1>1. LayoutInv /\ LinksSound /\ SweepSound /\ SummariesSound
  BY DEF PrebuiltInv
<1>2. CASE StopSplitting \/ SplitAtMedian \/ BuildGrid \/ EndBuild \/ MaterializeRow \/ ScoreRow
  BY <1>1, <1>2, NothingStoredYet
<1>3. CASE StoreActive
  BY <1>1, <1>3, ActiveAreStored
<1>4. CASE StoreParents
  BY <1>1, <1>4, ParentsAreStored
<1>5. CASE InstallFlags \/ UNCHANGED prebuiltVars
  BY <1>1, <1>5, FlagsKeepSummaries
<1>6. CASE Refine
  BY <1>1, <1>6, RefineKeepsSummaries
<1> QED
  BY <1>2, <1>3, <1>4, <1>5, <1>6 DEF PrebuiltNext
-----------------------------------------------------------------------------
\* Along every behaviour of the build, the sweep and the cracks after them: the
\* partitions share out the table, what was swept is folded in once, and each
\* summary stored describes its partition.
THEOREM PrebuiltInvariant == PrebuiltSpec => []PrebuiltInv
<1>1. PrebuiltInit => PrebuiltInv
  BY InitLaysOut, InitLinks, InitSweeps, InitSummaries DEF PrebuiltInv
<1>2. PrebuiltInv /\ [PrebuiltNext]_prebuiltVars => PrebuiltInv'
  <2> SUFFICES ASSUME PrebuiltInv, [PrebuiltNext]_prebuiltVars PROVE PrebuiltInv'
    OBVIOUS
  <2>1. LayoutInv /\ LinksSound /\ SweepSound
    BY DEF PrebuiltInv
  <2> QED
    BY <2>1, LayoutStep, LinksStep, SweepStep, SummariesStep DEF PrebuiltInv
<1> QED
  BY <1>1, <1>2, PTL DEF PrebuiltSpec

\* The summaries a prebuilt index starts with are exact and stay so, whatever
\* queries crack afterwards: every partition built, the retired ones included,
\* has one, and it counts each of its rows once (materialize_all_summaries).
THEOREM SummariesStayExact == PrebuiltSpec => []EagerSummariesExact
<1>1. PrebuiltInv => EagerSummariesExact
  BY DEF PrebuiltInv, SummariesSound, EagerSummariesExact, ExactFor
<1> QED
  BY <1>1, PrebuiltInvariant, PTL

\* What initialize() keeps between two steps has its type: the heap never holds
\* more rows than the budget, and moments and summaries are kept for partitions
\* that exist (materialize_all_summaries, OutlierScorer).
THEOREM PrebuiltTypeCorrect == PrebuiltSpec => []PrebuiltTypeOK
<1>1. PrebuiltInv => PrebuiltTypeOK
  <2> SUFFICES ASSUME PrebuiltInv PROVE PrebuiltTypeOK
    OBVIOUS
  <2>1. LayoutInv /\ SweepCounted /\ HeapSound /\ SummariesSound
    BY SweepParts DEF PrebuiltInv
  <2>2. owner = <<>> \/ owner \in [RowIds -> Tiles]
    <3>1. GridSound /\ threshold \in RoundedAxes
      BY <2>1 DEF LayoutInv, ConfigSound
    <3>2. \A r \in RowIds : TileId(TileOfRow(r)) \in Tiles
      BY <3>1, TilesAreCells
    <3> QED
      BY <3>1, <3>2 DEF GridSound
  <2>3. heap \subseteq RowIds /\ Cardinality(heap) <= budget
    <3>1. budget \in Nat
      BY <2>1, PrebuiltAssumption DEF LayoutInv, ConfigSound
    <3>2. CASE phase = "ready"
      <4>1. heap = {} /\ Cardinality({}) = 0
        BY <2>1, <3>2, FS_EmptySet DEF HeapSound
      <4> QED
        BY <3>1, <4>1
    <3>3. CASE phase # "ready"
      <4>1. Highest(heap, Passed)
        BY <2>1, <3>3 DEF HeapSound
      <4>2. heap \subseteq Passed /\ Cardinality(heap) = Min({budget, Cardinality(Passed)})
        BY <4>1 DEF Highest
      <4>3. Passed \in SUBSET RowIds
        BY DEF Passed, Scored
      <4>4. Cardinality(Passed) \in Nat
        BY <4>3, RowsFinite
      <4>5. Min({budget, Cardinality(Passed)})
              = IF budget <= Cardinality(Passed) THEN budget ELSE Cardinality(Passed)
        BY <3>1, <4>4, SmallerOf
      <4> QED
        BY <3>1, <4>2, <4>3, <4>4, <4>5
    <3> QED
      BY <3>2, <3>3
  <2>4. \A i \in DOMAIN summary :
          summary[i] \in [sampledRows : 0 .. N, population : 0 .. N, nonNan : [RowIds -> Nat]]
    <3> SUFFICES ASSUME NEW i \in DOMAIN summary
                 PROVE  summary[i] \in [sampledRows : 0 .. N, population : 0 .. N,
                                        nonNan : [RowIds -> Nat]]
      OBVIOUS
    <3>1. i \in Ids /\ summary[i] = ExactFor(i)
      BY <2>1 DEF SummariesSound
    <3>2. Population(i) \in 0 .. N
      BY <2>1, <3>1, RangeSize DEF LayoutInv, PartitionsSound
    <3> QED
      BY <3>1, <3>2 DEF ExactFor, Exact
  <2> QED
    BY <2>1, <2>2, <2>3, <2>4 DEF PrebuiltTypeOK, LayoutInv, SweepCounted, SummariesSound
<1> QED
  BY <1>1, PrebuiltInvariant, PTL
===============================================================================
