---------------------------- MODULE KdCrackProofs ----------------------------
(***************************************************************************)
(* KdCrack's invariant holds for every table, every extent, every minimum  *)
(* population and every set of queries, and with it the safety properties  *)
(* the runs check on small instances.                                      *)
(*                                                                         *)
(* The argument: one partitioning pass is an involution on positions that  *)
(* moves only positions of the cut leaf (PartitionRangeMoves), so whatever *)
(* is stated about the set of entries of a partition survives it, because  *)
(* every other partition contains the leaf or misses it (Nested).          *)
(***************************************************************************)
EXTENDS KdCrack, TLAPS, FiniteSetTheorems

USE DimsAssumption, TableAssumption, ExtentAssumption

\* The columns after a pass are the columns before it read through an involution
\* of positions that stays within partition i and sorts its entries by side.
Moves(move, i, axis, pivot) ==
  /\ move \in [Positions -> Positions]
  /\ \A p \in Positions : move[move[p]] = p
  /\ \A p \in PositionsOf(i) : move[p] \in PositionsOf(i)
  /\ \A p \in Positions \ PositionsOf(i) : move[p] = p
  /\ \A p \in PositionsOf(i) :
       pointAt[move[p]][axis] < pivot <=> p < SplitPos(i, axis, pivot)
  /\ ~CutSucceeds(i, axis, pivot) => \A p \in Positions : move[p] = p
-----------------------------------------------------------------------------
\* A partner is a partner's partner, across the two sets of misplaced positions.
LEMMA PartnerSwaps ==
  ASSUME NEW L \in SUBSET Positions, NEW R \in SUBSET Positions, L \cap R = {},
         NEW trade \in Bijection(L, R)
  PROVE  /\ Partner(trade, L, R) \in [Positions -> Positions]
         /\ \A p \in L : Partner(trade, L, R)[p] \in R
         /\ \A p \in R : Partner(trade, L, R)[p] \in L
         /\ \A p \in Positions \ (L \union R) : Partner(trade, L, R)[p] = p
         /\ \A p \in Positions : Partner(trade, L, R)[Partner(trade, L, R)[p]] = p
<1> DEFINE s == Partner(trade, L, R)
<1>1. /\ trade \in [L -> R]
      /\ \A a, b \in L : trade[a] = trade[b] => a = b
      /\ \A r \in R : \E l \in L : trade[l] = r
  BY DEF Bijection, Injection, Surjection, IsInjective
<1>2. \A r \in R : /\ (CHOOSE l \in L : trade[l] = r) \in L
                   /\ trade[CHOOSE l \in L : trade[l] = r] = r
  BY <1>1
<1>3. \A p \in L : s[p] = trade[p]
  BY DEF Partner
<1>4. \A p \in R : s[p] = CHOOSE l \in L : trade[l] = p
  BY DEF Partner
<1>5. \A p \in Positions \ (L \union R) : s[p] = p
  BY DEF Partner
<1>6. \A p \in L : s[p] \in R
  BY <1>1, <1>3
<1>7. \A p \in R : s[p] \in L
  BY <1>2, <1>4
<1>8. s \in [Positions -> Positions]
  <2>1. s = [p \in Positions |-> s[p]]
    BY DEF Partner
  <2>2. \A p \in Positions : s[p] \in Positions
    BY <1>5, <1>6, <1>7
  <2> QED
    BY <2>1, <2>2
<1>9. \A p \in Positions : s[s[p]] = p
  <2> SUFFICES ASSUME NEW p \in Positions PROVE s[s[p]] = p
    OBVIOUS
  <2>1. CASE p \in L
    <3>1. s[p] \in R /\ trade[p] = s[p]
      BY <2>1, <1>3, <1>6
    <3>2. s[s[p]] \in L /\ trade[s[s[p]]] = s[p]
      BY <3>1, <1>2, <1>4
    <3> QED
      BY <2>1, <3>1, <3>2, <1>1
  <2>2. CASE p \in R
    BY <2>2, <1>2, <1>3, <1>4
  <2>3. CASE p \in Positions \ (L \union R)
    BY <2>3, <1>5
  <2> QED
    BY <2>1, <2>2, <2>3
<1> QED
  BY <1>5, <1>6, <1>7, <1>8, <1>9

\* The cut position lies in the closed range of the partition, and the partition
\* in the table.
LEMMA SplitPosInRange ==
  ASSUME CrackTypeOK, Ranges, NEW i \in Ids, NEW axis \in Axes, NEW pivot \in Int
  PROVE  /\ SplitPos(i, axis, pivot) \in nodes[i].begin .. nodes[i].end
         /\ PositionsOf(i) \subseteq Positions
<1>1. /\ nodes[i].begin \in Nat /\ nodes[i].end \in Nat
      /\ nodes[i].begin <= nodes[i].end /\ nodes[i].end <= N
  BY DEF CrackTypeOK, Ranges, Node
<1>2. PositionsOf(i) = nodes[i].begin .. nodes[i].end - 1
  BY DEF PositionsOf, Span
<1>3. /\ IsFiniteSet(PositionsOf(i))
      /\ Cardinality(PositionsOf(i)) = nodes[i].end - nodes[i].begin
  <2>1. nodes[i].begin \in Int /\ nodes[i].end - 1 \in Int
    BY <1>1
  <2>2. /\ IsFiniteSet(nodes[i].begin .. nodes[i].end - 1)
        /\ Cardinality(nodes[i].begin .. nodes[i].end - 1)
             = IF nodes[i].begin > nodes[i].end - 1 THEN 0
               ELSE nodes[i].end - 1 - nodes[i].begin + 1
    BY ONLY <2>1, FS_Interval
  <2> QED
    BY <1>1, <1>2, <2>2
<1>4. /\ Cardinality(Below(i, axis, pivot)) \in Nat
      /\ Cardinality(Below(i, axis, pivot)) <= Cardinality(PositionsOf(i))
  <2>1. Below(i, axis, pivot) \in SUBSET PositionsOf(i)
    BY DEF Below
  <2> QED
    BY <2>1, <1>3, FS_Subset, FS_CardinalityType
<1> QED
  BY <1>1, <1>2, <1>3, <1>4 DEF SplitPos, Positions

\* What one partitioning pass does, told without the trades it is made of.
LEMMA PartitionRangeMoves ==
  ASSUME CrackTypeOK, Ranges, NEW i \in Ids, NEW axis \in Axes, NEW pivot \in Int,
         PartitionRange(i, axis, pivot)
  PROVE  \E move : Moves(move, i, axis, pivot) /\ SwapPositions(move)
<1> DEFINE L == LeftMisplaced(i, axis, pivot)
           R == RightMisplaced(i, axis, pivot)
           cut == SplitPos(i, axis, pivot)
<1>1. PICK trade \in Bijection(L, R) : SwapPositions(Partner(trade, L, R))
  BY DEF PartitionRange
<1> DEFINE s == Partner(trade, L, R)
<1>2. cut \in nodes[i].begin .. nodes[i].end /\ PositionsOf(i) \subseteq Positions
  BY SplitPosInRange
<1>3. nodes[i].begin \in Nat /\ nodes[i].end \in Nat
  BY DEF CrackTypeOK, Node
<1>4. \A p \in PositionsOf(i) : p \in Int /\ nodes[i].begin <= p /\ p < nodes[i].end
  BY <1>3 DEF PositionsOf, Span
<1>5. L \subseteq PositionsOf(i) /\ R \subseteq PositionsOf(i) /\ L \cap R = {}
  BY DEF LeftMisplaced, RightMisplaced, Below
<1>6. /\ s \in [Positions -> Positions]
      /\ \A p \in L : s[p] \in R
      /\ \A p \in R : s[p] \in L
      /\ \A p \in Positions \ (L \union R) : s[p] = p
      /\ \A p \in Positions : s[s[p]] = p
  BY <1>2, <1>5, PartnerSwaps
<1>7. \A p \in PositionsOf(i) : s[p] \in PositionsOf(i)
  BY <1>2, <1>5, <1>6
<1>8. \A p \in Positions \ PositionsOf(i) : s[p] = p
  BY <1>5, <1>6
<1>9. ASSUME NEW p \in PositionsOf(i)
      PROVE  pointAt[s[p]][axis] < pivot <=> p < cut
  <2>1. CASE p \in L
    BY <2>1, <1>6 DEF LeftMisplaced, RightMisplaced, Below
  <2>2. CASE p \in R
    <3>1. ~(p < cut)
      BY <2>2, <1>2, <1>3, <1>4 DEF RightMisplaced
    <3>2. s[p] \notin Below(i, axis, pivot) /\ s[p] \in PositionsOf(i)
      BY <2>2, <1>6 DEF LeftMisplaced
    <3> QED
      BY <3>1, <3>2 DEF Below
  <2>3. CASE p \notin L \union R
    <3>1. s[p] = p
      BY <2>3, <1>2, <1>6
    <3> QED
      BY <2>3, <3>1, <1>2, <1>3, <1>4 DEF LeftMisplaced, RightMisplaced, Below
  <2> QED
    BY <2>1, <2>2, <2>3
<1>10. ASSUME ~CutSucceeds(i, axis, pivot), NEW p \in Positions
       PROVE  s[p] = p
  <2>1. L = {} \/ R = {}
    <3>1. cut = nodes[i].begin \/ cut = nodes[i].end
      BY <1>10 DEF CutSucceeds
    <3>2. CASE cut = nodes[i].begin
      BY <3>2, <1>2, <1>3, <1>4, <1>5 DEF LeftMisplaced
    <3>3. CASE cut = nodes[i].end
      BY <3>3, <1>2, <1>3, <1>4, <1>5 DEF RightMisplaced
    <3> QED
      BY <3>1, <3>2, <3>3
  <2>2. L = {} /\ R = {}
    BY <2>1, <1>6
  <2> QED
    BY <2>2, <1>6
<1> QED
  BY <1>1, <1>6, <1>7, <1>8, <1>9, <1>10 DEF Moves
-----------------------------------------------------------------------------
\* A pass over a leaf moves rows within every partition that holds them, so what
\* the table says of a partition as a whole is as true after it as before.
LEMMA MoveWithin ==
  ASSUME CrackTypeOK, Ranges, Nested,
         NEW i \in Ids, nodes[i].leaf, NEW axis, NEW pivot, NEW move,
         Moves(move, i, axis, pivot), SwapPositions(move)
  PROVE  /\ pointAt' \in [Positions -> Vec]
         /\ rowAt' \in [Positions -> RowIds]
         /\ flagAt' \in [Positions -> BOOLEAN]
         /\ IsInjective(rowAt) => IsInjective(rowAt')
         /\ \A p \in Positions : /\ move[p] \in Positions /\ move[move[p]] = p
                                 /\ pointAt'[p] = pointAt[move[p]]
                                 /\ rowAt'[p] = rowAt[move[p]]
                                 /\ flagAt'[p] = flagAt[move[p]]
         /\ \A j \in Ids : \A p \in PositionsOf(j) : p \in Positions /\ move[p] \in PositionsOf(j)
         /\ \A j \in Ids : nodes[j].leaf /\ j # i => \A p \in PositionsOf(j) : move[p] = p
         /\ \A j \in Ids : {rowAt'[p] : p \in PositionsOf(j)} = RowsOf(j)
<1>1. /\ CrackTypeOK /\ Ranges /\ Nested
      /\ pointAt \in [Positions -> Vec]
      /\ rowAt \in [Positions -> RowIds]
      /\ flagAt \in [Positions -> BOOLEAN]
  BY DEF CrackTypeOK
<1>2. /\ move \in [Positions -> Positions]
      /\ \A p \in Positions : move[move[p]] = p
      /\ \A p \in PositionsOf(i) : move[p] \in PositionsOf(i)
      /\ \A p \in Positions \ PositionsOf(i) : move[p] = p
  BY DEF Moves
<1>3. /\ pointAt' = [p \in Positions |-> pointAt[move[p]]]
      /\ rowAt' = [p \in Positions |-> rowAt[move[p]]]
      /\ flagAt' = [p \in Positions |-> flagAt[move[p]]]
  BY DEF SwapPositions
<1>4. ASSUME NEW j \in Ids PROVE PositionsOf(j) \subseteq Positions
  <2>1. nodes[j].begin \in Nat /\ nodes[j].end \in Nat /\ nodes[j].end <= N
    BY DEF CrackTypeOK, Ranges, Node
  <2> QED
    BY <2>1 DEF PositionsOf, Span, Positions
<1>5. /\ pointAt' \in [Positions -> Vec]
      /\ rowAt' \in [Positions -> RowIds]
      /\ flagAt' \in [Positions -> BOOLEAN]
  BY <1>1, <1>2, <1>3
<1>6. ASSUME IsInjective(rowAt) PROVE IsInjective(rowAt')
  <2>1. ASSUME NEW a \in Positions, NEW b \in Positions, rowAt'[a] = rowAt'[b]
        PROVE  a = b
    <3>1. rowAt[move[a]] = rowAt[move[b]] /\ move[a] \in Positions /\ move[b] \in Positions
      BY <2>1, <1>2, <1>3
    <3>2. move[a] = move[b]
      BY <3>1, <1>1, <1>6 DEF IsInjective
    <3> QED
      BY <3>2, <1>2
  <2> QED
    BY <2>1, <1>3 DEF IsInjective
<1>7. ASSUME NEW j \in Ids, NEW p \in PositionsOf(j)
      PROVE  p \in Positions /\ move[p] \in PositionsOf(j)
  <2>1. CASE p \in PositionsOf(i)
    <3>1. PositionsOf(i) \subseteq PositionsOf(j)
      BY <2>1, <1>1 DEF Nested
    <3> QED
      BY <2>1, <3>1, <1>2, <1>4
  <2>2. CASE p \notin PositionsOf(i)
    BY <2>2, <1>2, <1>4
  <2> QED
    BY <2>1, <2>2
<1>8. ASSUME NEW j \in Ids, nodes[j].leaf, j # i, NEW p \in PositionsOf(j)
      PROVE  move[p] = p
  BY <1>1, <1>2, <1>4, <1>8 DEF Nested
<1>9. \A p \in Positions : /\ move[p] \in Positions /\ move[move[p]] = p
                          /\ pointAt'[p] = pointAt[move[p]]
                          /\ rowAt'[p] = rowAt[move[p]] /\ flagAt'[p] = flagAt[move[p]]
  BY <1>2, <1>3
<1>10. ASSUME NEW j \in Ids
       PROVE  {rowAt'[p] : p \in PositionsOf(j)} = RowsOf(j)
  <2>1. \A p \in PositionsOf(j) : rowAt'[p] = rowAt[move[p]] /\ move[p] \in PositionsOf(j)
    BY <1>7, <1>9
  <2>2. \A p \in PositionsOf(j) : rowAt[p] = rowAt'[move[p]]
    BY <2>1, <1>7, <1>9
  <2> QED
    BY <2>1, <2>2 DEF RowsOf
<1> QED
  BY <1>5, <1>6, <1>7, <1>8, <1>9, <1>10

\* The same of a tree whose bounds enclose its rows.
LEMMA TableAfterMove ==
  ASSUME CrackInv, NEW i \in Ids, nodes[i].leaf, NEW axis, NEW pivot, NEW move,
         Moves(move, i, axis, pivot), SwapPositions(move)
  PROVE  /\ pointAt' \in [Positions -> Vec]
         /\ rowAt' \in [Positions -> RowIds]
         /\ flagAt' \in [Positions -> BOOLEAN]
         /\ ColumnsAgree'
         /\ \A j \in Ids : \A p \in PositionsOf(j) : p \in Positions /\ move[p] \in PositionsOf(j)
         /\ \A j \in Ids : nodes[j].leaf /\ j # i => \A p \in PositionsOf(j) : move[p] = p
         /\ \A j \in Ids : \A p \in PositionsOf(j) :
              ContainsPoint(nodes[j].bounds, pointAt'[p])
         /\ \A j \in Ids : {rowAt'[p] : p \in PositionsOf(j)} = RowsOf(j)
<1>1. CrackTypeOK /\ Ranges /\ Nested /\ ColumnsAgree /\ RowsInBounds
  BY DEF CrackInv
<1>2. /\ pointAt' \in [Positions -> Vec]
      /\ rowAt' \in [Positions -> RowIds]
      /\ flagAt' \in [Positions -> BOOLEAN]
      /\ IsInjective(rowAt) => IsInjective(rowAt')
      /\ \A p \in Positions : /\ move[p] \in Positions /\ pointAt'[p] = pointAt[move[p]]
                              /\ rowAt'[p] = rowAt[move[p]] /\ flagAt'[p] = flagAt[move[p]]
      /\ \A j \in Ids : \A p \in PositionsOf(j) : p \in Positions /\ move[p] \in PositionsOf(j)
      /\ \A j \in Ids : nodes[j].leaf /\ j # i => \A p \in PositionsOf(j) : move[p] = p
      /\ \A j \in Ids : {rowAt'[p] : p \in PositionsOf(j)} = RowsOf(j)
  BY <1>1, MoveWithin
<1>3. ColumnsAgree'
  <2>1. ASSUME NEW p \in Positions
        PROVE  pointAt'[p] = Point[rowAt'[p]] /\ flagAt'[p] = (rowAt'[p] \in Flagged)
    BY <1>1, <1>2 DEF ColumnsAgree
  <2> QED
    BY <1>1, <1>2, <2>1 DEF ColumnsAgree, Positions
<1>4. \A j \in Ids : \A p \in PositionsOf(j) : ContainsPoint(nodes[j].bounds, pointAt'[p])
  BY <1>1, <1>2 DEF RowsInBounds
<1> QED
  BY <1>2, <1>3, <1>4

\* What a cut does to the tree: two leaves, one on each side of the cut position,
\* under a partition that keeps its range.
LEMMA TreeCut ==
  ASSUME CrackTypeOK, Ranges, NEW i \in Ids, nodes[i].leaf, NEW axis \in Axes, NEW pivot \in Int,
         CutSucceeds(i, axis, pivot), AddChildren(i, axis, pivot)
  PROVE  LET cut == SplitPos(i, axis, pivot) IN
         /\ nodeCount' \in Nat \ {0}
         /\ Ids' = Ids \union {nodeCount, nodeCount + 1}
         /\ nodeCount \notin Ids /\ nodeCount + 1 \notin Ids
         /\ nodes' \in [Ids' -> Node]
         /\ \A j \in Ids : PositionsOf(j)' = PositionsOf(j)
         /\ \A j \in Ids \ {i} : nodes'[j] = nodes[j]
         /\ ~nodes'[i].leaf /\ nodes'[i].bounds = nodes[i].bounds
         /\ nodes'[i].begin = nodes[i].begin /\ nodes'[i].end = nodes[i].end
         /\ nodes'[i].left = nodeCount /\ nodes'[i].right = nodeCount + 1
         /\ nodes'[nodeCount] = LeftChild(nodes[i], axis, pivot, cut)
         /\ nodes'[nodeCount + 1] = RightChild(nodes[i], axis, pivot, cut)
         /\ nodes[i].begin < cut /\ cut < nodes[i].end
         /\ cut \in Nat
         /\ Span(nodes'[nodeCount]) = {p \in PositionsOf(i) : p < cut}
         /\ Span(nodes'[nodeCount + 1]) = {p \in PositionsOf(i) : p >= cut}
<1> DEFINE cut == SplitPos(i, axis, pivot)
           n   == nodes[i]
<1>1. /\ CrackTypeOK /\ Ranges
      /\ nodeCount \in Nat \ {0} /\ nodes \in [Ids -> Node]
  BY DEF CrackTypeOK
<1>2. /\ n \in Node /\ n.bounds \in Rect /\ n.begin \in Nat /\ n.end \in Nat
      /\ n.left \in Nat /\ n.right \in Nat
  BY <1>1 DEF Node
<1>3. cut \in n.begin .. n.end
  BY <1>1, SplitPosInRange
<1>4. cut \in Nat /\ n.begin < cut /\ cut < n.end
  BY <1>2, <1>3 DEF CutSucceeds
<1>5. nodeCount' = nodeCount + 2 /\ Ids' = 0 .. nodeCount + 1
  BY <1>1 DEF AddChildren, Ids
<1>6. Ids' = Ids \union {nodeCount, nodeCount + 1} /\ nodeCount \notin Ids /\ nodeCount + 1 \notin Ids
  BY <1>1, <1>5 DEF Ids
<1>7. /\ nodes' = [j \in Ids' |-> nodes'[j]]
      /\ nodes'[i] = [n EXCEPT !.leaf = FALSE, !.left = nodeCount, !.right = nodeCount + 1]
      /\ nodes'[nodeCount] = LeftChild(n, axis, pivot, cut)
      /\ nodes'[nodeCount + 1] = RightChild(n, axis, pivot, cut)
      /\ \A j \in Ids \ {i} : nodes'[j] = nodes[j]
  BY <1>1, <1>5, <1>6 DEF AddChildren, Ids
<1>8. /\ nodes'[i] \in Node
      /\ LeftChild(n, axis, pivot, cut) \in Node
      /\ RightChild(n, axis, pivot, cut) \in Node
  <2>1. [n.bounds EXCEPT !.high[axis] = pivot] \in Rect
    BY <1>2 DEF Rect, Vec
  <2>2. [n.bounds EXCEPT !.low[axis] = pivot] \in Rect
    BY <1>2 DEF Rect, Vec
  <2>3. LeftChild(n, axis, pivot, cut) \in Node
    BY <1>2, <1>4, <2>1 DEF LeftChild, Node
  <2>4. RightChild(n, axis, pivot, cut) \in Node
    BY <1>2, <1>4, <2>2 DEF RightChild, Node
  <2>5. nodes'[i] \in Node
    <3>1. [n EXCEPT !.leaf = FALSE, !.left = nodeCount, !.right = nodeCount + 1] \in Node
      <4>1. nodeCount \in Nat /\ nodeCount + 1 \in Nat
        BY <1>1
      <4>2. n = [bounds |-> n.bounds, begin |-> n.begin, end |-> n.end, leaf |-> n.leaf,
                 left |-> n.left, right |-> n.right]
        BY <1>2 DEF Node
      <4> HIDE DEF n
      <4> QED
        BY <1>2, <4>1, <4>2 DEF Node
    <3> QED
      BY <3>1, <1>7
  <2> QED
    BY <2>3, <2>4, <2>5
<1>9. nodes' \in [Ids' -> Node]
  BY <1>1, <1>6, <1>7, <1>8
<1>10. /\ ~nodes'[i].leaf /\ nodes'[i].bounds = n.bounds
       /\ nodes'[i].begin = n.begin /\ nodes'[i].end = n.end
       /\ nodes'[i].left = nodeCount /\ nodes'[i].right = nodeCount + 1
  BY <1>2, <1>7 DEF Node
<1>11. \A j \in Ids : PositionsOf(j)' = PositionsOf(j)
  BY <1>7, <1>10 DEF PositionsOf, Span
<1>12. /\ LeftChild(n, axis, pivot, cut).begin = n.begin
       /\ LeftChild(n, axis, pivot, cut).end = cut
       /\ RightChild(n, axis, pivot, cut).begin = cut
       /\ RightChild(n, axis, pivot, cut).end = n.end
  BY <1>2 DEF LeftChild, RightChild, Node
<1>13. /\ Span(nodes'[nodeCount]) = {p \in PositionsOf(i) : p < cut}
       /\ Span(nodes'[nodeCount + 1]) = {p \in PositionsOf(i) : p >= cut}
  <2>1. /\ Span(nodes'[nodeCount]) = n.begin .. cut - 1
        /\ Span(nodes'[nodeCount + 1]) = cut .. n.end - 1
        /\ PositionsOf(i) = n.begin .. n.end - 1
    BY <1>7, <1>12 DEF PositionsOf, Span
  <2> QED
    BY <2>1, <1>2, <1>4
<1> QED
  BY <1>1, <1>4, <1>5, <1>6, <1>7, <1>9, <1>10, <1>11, <1>13

\* The same under the invariant.
LEMMA TreeAfterCut ==
  ASSUME CrackInv, NEW i \in Ids, nodes[i].leaf, NEW axis \in Axes, NEW pivot \in Int,
         CutSucceeds(i, axis, pivot), AddChildren(i, axis, pivot)
  PROVE  LET cut == SplitPos(i, axis, pivot) IN
         /\ nodeCount' \in Nat \ {0}
         /\ Ids' = Ids \union {nodeCount, nodeCount + 1}
         /\ nodeCount \notin Ids /\ nodeCount + 1 \notin Ids
         /\ nodes' \in [Ids' -> Node]
         /\ \A j \in Ids : PositionsOf(j)' = PositionsOf(j)
         /\ \A j \in Ids \ {i} : nodes'[j] = nodes[j]
         /\ ~nodes'[i].leaf /\ nodes'[i].bounds = nodes[i].bounds
         /\ nodes'[i].begin = nodes[i].begin /\ nodes'[i].end = nodes[i].end
         /\ nodes'[i].left = nodeCount /\ nodes'[i].right = nodeCount + 1
         /\ nodes'[nodeCount] = LeftChild(nodes[i], axis, pivot, cut)
         /\ nodes'[nodeCount + 1] = RightChild(nodes[i], axis, pivot, cut)
         /\ nodes[i].begin < cut /\ cut < nodes[i].end
         /\ cut \in Nat
         /\ Span(nodes'[nodeCount]) = {p \in PositionsOf(i) : p < cut}
         /\ Span(nodes'[nodeCount + 1]) = {p \in PositionsOf(i) : p >= cut}
<1>1. CrackTypeOK /\ Ranges
  BY DEF CrackInv
<1> QED
  BY <1>1, TreeCut

\* Two leaves in the place of one keep the tree a tree.
LEMMA PartitionsAfterCut ==
  ASSUME CrackTypeOK, Ranges, Covered, Nested, NEW i \in Ids, nodes[i].leaf,
         NEW axis \in Axes, NEW pivot \in Int,
         CutSucceeds(i, axis, pivot), AddChildren(i, axis, pivot)
  PROVE  Ranges' /\ Covered' /\ Nested'
<1> DEFINE cut == SplitPos(i, axis, pivot)
           lo  == nodeCount
           hi  == nodeCount + 1
<1>1. /\ Ids' = Ids \union {lo, hi} /\ lo \notin Ids /\ hi \notin Ids
      /\ \A j \in Ids : PositionsOf(j)' = PositionsOf(j)
      /\ \A j \in Ids \ {i} : nodes'[j] = nodes[j]
      /\ ~nodes'[i].leaf
      /\ nodes'[i].begin = nodes[i].begin /\ nodes'[i].end = nodes[i].end
      /\ nodes'[lo] = LeftChild(nodes[i], axis, pivot, cut)
      /\ nodes'[hi] = RightChild(nodes[i], axis, pivot, cut)
      /\ nodes[i].begin < cut /\ cut < nodes[i].end /\ cut \in Nat
      /\ Span(nodes'[lo]) = {p \in PositionsOf(i) : p < cut}
      /\ Span(nodes'[hi]) = {p \in PositionsOf(i) : p >= cut}
  BY TreeCut
<1> HIDE DEF cut
<1>2. PositionsOf(i) \subseteq Positions
  BY DEF CrackTypeOK, Ranges, Node, PositionsOf, Span, Positions
<1>3. /\ \A j \in Ids' : PositionsOf(j)' = Span(nodes'[j])
      /\ \A j \in Ids : Span(nodes'[j]) = PositionsOf(j)
      /\ \A p \in PositionsOf(i) : p \in Int
  BY <1>1, <1>2 DEF PositionsOf, Positions
<1>4. nodes \in [Ids -> Node] /\ nodes[i] \in Node /\ nodes[i].begin \in Nat /\ nodes[i].end \in Nat
  BY DEF CrackTypeOK, Node
<1>5. /\ nodes'[lo].begin = nodes[i].begin /\ nodes'[lo].end = cut
      /\ nodes'[hi].begin = cut /\ nodes'[hi].end = nodes[i].end
      /\ nodes'[lo].leaf /\ nodes'[hi].leaf
  BY <1>1, <1>4 DEF LeftChild, RightChild, Node
<1>6. Ranges'
  BY <1>1, <1>4, <1>5 DEF Ranges
<1>7. Covered'
  <2> SUFFICES ASSUME NEW p \in Positions
               PROVE  \E j \in Ids' : nodes'[j].leaf /\ p \in Span(nodes'[j])
    BY <1>3 DEF Covered, Positions
  <2>1. PICK k \in Ids : nodes[k].leaf /\ p \in PositionsOf(k)
    BY DEF Covered
  <2>2. CASE k = i
    BY <2>1, <2>2, <1>1, <1>3, <1>5
  <2>3. CASE k # i
    BY <2>1, <2>3, <1>1, <1>3
  <2> QED
    BY <2>2, <2>3
<1>8. Nested'
  <2> SUFFICES ASSUME NEW j \in Ids', NEW k \in Ids', nodes'[j].leaf, j # k
               PROVE  \/ Span(nodes'[j]) \cap Span(nodes'[k]) = {}
                      \/ Span(nodes'[j]) \subseteq Span(nodes'[k]) /\ ~nodes'[k].leaf
    BY <1>3 DEF Nested
  <2>1. j # i
    BY <1>1
  <2>2. CASE j \in Ids /\ k \in Ids
    BY <2>1, <2>2, <1>1, <1>3 DEF Nested
  <2>3. CASE j \in Ids /\ k \in {lo, hi}
    <3>1. PositionsOf(j) \cap PositionsOf(i) = {}
      BY <2>1, <2>3, <1>1 DEF Nested
    <3> QED
      BY <3>1, <2>3, <1>1, <1>3
  <2>4. CASE j \in {lo, hi} /\ k \in {lo, hi}
    BY <2>4, <1>1, <1>3
  <2>5. CASE j \in {lo, hi} /\ k \in Ids
    <3>1. Span(nodes'[j]) \subseteq PositionsOf(i)
      BY <2>5, <1>1
    <3>2. CASE k = i
      BY <3>1, <3>2, <1>1, <1>3
    <3>3. CASE k # i
      BY <3>1, <3>3, <2>5, <1>1, <1>3 DEF Nested
    <3> QED
      BY <3>2, <3>3
  <2> QED
    BY <2>2, <2>3, <2>4, <2>5, <1>1
<1> QED
  BY <1>6, <1>7, <1>8
-----------------------------------------------------------------------------
\* Where a crack in progress stands.
LEMMA CrackTypes ==
  ASSUME CrackInv, crack.on, MoreFaces
  PROVE  /\ crack.at \in Ids /\ crack.leaf \in Ids /\ nodes[crack.at].leaf
         /\ crack.face \in Faces /\ crack.face \in Int
         /\ Axis(crack.face) \in Axes
         /\ crack.q \in Rect /\ Pivot(crack.q, crack.face) \in Int
<1>1. /\ crack \in Crack /\ crack.at \in Ids /\ crack.leaf \in Ids
      /\ nodes[crack.at].leaf /\ crack.face \in Faces
  BY DEF CrackInv, CrackTypeOK, Trimming, MoreFaces
<1>2. crack.face \in Int /\ Axis(crack.face) \in Axes /\ crack.q \in Rect
  BY <1>1 DEF Crack, Faces, Axis, LowerFace, Axes
<1>3. Pivot(crack.q, crack.face) \in Int
  BY <1>2 DEF Pivot, Rect, Vec
<1> QED
  BY <1>1, <1>2, <1>3

\* A face that cuts the partition keeps the invariant.
LEMMA CutPreserves ==
  ASSUME CrackInv, crack.on, MoreFaces, NEW move, NEW i, NEW axis, NEW pivot,
         i = crack.at, axis = Axis(crack.face), pivot = Pivot(crack.q, crack.face),
         Moves(move, i, axis, pivot), SwapPositions(move),
         CutSucceeds(i, axis, pivot), AddChildren(i, axis, pivot),
         crack' = [crack EXCEPT !.at = Toward(crack.face), !.face = @ + 1,
                                !.retired = @ \union {i}]
  PROVE  CrackInv'
<1> DEFINE cut == SplitPos(i, axis, pivot)
           lo  == nodeCount
           hi  == nodeCount + 1
           c   == Toward(crack.face)
<1>1. /\ i \in Ids /\ crack.leaf \in Ids /\ nodes[i].leaf /\ axis \in Axes
      /\ pivot \in Int /\ crack.q \in Rect /\ crack.face \in Int /\ crack.face \in Faces
  BY CrackTypes
<1>2. /\ CrackTypeOK /\ Ranges /\ Covered /\ Nested /\ RowsInBounds /\ ChildrenTile
      /\ Trimming /\ crack \in Crack /\ nodes \in [Ids -> Node] /\ crack.retired \subseteq Ids
      /\ nodeCount \in Nat
  BY DEF CrackInv, CrackTypeOK
<1>3. /\ pointAt' \in [Positions -> Vec]
      /\ rowAt' \in [Positions -> RowIds]
      /\ flagAt' \in [Positions -> BOOLEAN]
      /\ ColumnsAgree'
      /\ \A j \in Ids : \A p \in PositionsOf(j) : p \in Positions /\ move[p] \in PositionsOf(j)
      /\ \A j \in Ids : \A p \in PositionsOf(j) : ContainsPoint(nodes[j].bounds, pointAt'[p])
  BY <1>1, TableAfterMove
<1>4. /\ nodeCount' \in Nat \ {0}
      /\ Ids' = Ids \union {lo, hi} /\ lo \notin Ids /\ hi \notin Ids
      /\ nodes' \in [Ids' -> Node]
      /\ \A j \in Ids : PositionsOf(j)' = PositionsOf(j)
      /\ \A j \in Ids \ {i} : nodes'[j] = nodes[j]
      /\ ~nodes'[i].leaf /\ nodes'[i].bounds = nodes[i].bounds
      /\ nodes'[i].begin = nodes[i].begin /\ nodes'[i].end = nodes[i].end
      /\ nodes'[i].left = lo /\ nodes'[i].right = hi
      /\ nodes'[lo] = LeftChild(nodes[i], axis, pivot, cut)
      /\ nodes'[hi] = RightChild(nodes[i], axis, pivot, cut)
      /\ nodes[i].begin < cut /\ cut < nodes[i].end /\ cut \in Nat
      /\ Span(nodes'[lo]) = {p \in PositionsOf(i) : p < cut}
      /\ Span(nodes'[hi]) = {p \in PositionsOf(i) : p >= cut}
  BY <1>1, TreeAfterCut
<1> HIDE DEF cut
<1>5. /\ \A j \in Ids' : PositionsOf(j)' = Span(nodes'[j])
      /\ \A j \in Ids : Span(nodes'[j]) = PositionsOf(j)
      /\ \A p \in PositionsOf(i) : p \in Int
  BY <1>1, <1>3, <1>4 DEF PositionsOf, Positions
<1>6. /\ nodes[i] \in Node /\ nodes[i].bounds \in Rect
      /\ nodes[i].begin \in Nat /\ nodes[i].end \in Nat
  BY <1>1, <1>2 DEF Node
<1>7. /\ nodes'[lo].begin = nodes[i].begin /\ nodes'[lo].end = cut
      /\ nodes'[hi].begin = cut /\ nodes'[hi].end = nodes[i].end
      /\ nodes'[lo].leaf /\ nodes'[hi].leaf
      /\ nodes'[lo].bounds = [nodes[i].bounds EXCEPT !.high[axis] = pivot]
      /\ nodes'[hi].bounds = [nodes[i].bounds EXCEPT !.low[axis] = pivot]
  BY <1>1, <1>4, <1>6 DEF LeftChild, RightChild, Node
\* The entries of the cut partition, by side.
<1>8. /\ pointAt' = [p \in Positions |-> pointAt[move[p]]]
      /\ \A p \in Positions : move[p] \in Positions /\ move[move[p]] = p
      /\ \A p \in PositionsOf(i) :
           /\ p < cut => pointAt'[p][axis] < pivot
           /\ p >= cut => ~(pointAt'[p][axis] < pivot)
  <2>1. /\ pointAt' = [p \in Positions |-> pointAt[move[p]]]
        /\ \A p \in PositionsOf(i) : pointAt[move[p]][axis] < pivot <=> p < cut
        /\ \A p \in Positions : move[p] \in Positions /\ move[move[p]] = p
    BY DEF SwapPositions, Moves, cut
  <2> QED
    BY <2>1, <1>1, <1>3, <1>4, <1>5
<1>9. c \in {lo, hi} /\ crack'.at = c /\ crack'.leaf = crack.leaf /\ crack'.q = crack.q
      /\ crack'.face = crack.face + 1 /\ crack'.on /\ crack' \in Crack
      /\ crack'.retired = crack.retired \union {i}
  <2>1. c \in {lo, hi}
    BY DEF Toward
  <2>2. c \in Nat /\ crack.face + 1 \in 1 .. 2 * Dims + 1 /\ crack.retired \union {i} \in SUBSET Nat
    BY <2>1, <1>1, <1>2 DEF Faces, Crack, Ids
  <2> QED
    BY <2>1, <2>2, <1>2 DEF Crack
<1>10. CrackTypeOK'
  BY <1>1, <1>2, <1>3, <1>4, <1>9 DEF CrackTypeOK
<1>11. Ranges' /\ Covered' /\ Nested'
  BY <1>1, <1>2, PartitionsAfterCut
<1>12. RowsInBounds'
  <2> SUFFICES ASSUME NEW j \in Ids', NEW p \in Span(nodes'[j])
               PROVE  ContainsPoint(nodes'[j].bounds, pointAt'[p])
    BY <1>5 DEF RowsInBounds
  <2>1. CASE j \in Ids
    BY <2>1, <1>3, <1>4, <1>5
  <2>2. CASE j = lo
    <3>1. p \in PositionsOf(i) /\ pointAt'[p][axis] < pivot
      BY <2>2, <1>4, <1>8
    <3>2. ContainsPoint(nodes[i].bounds, pointAt'[p])
      BY <3>1, <1>1, <1>3
    <3> QED
      BY <2>2, <3>1, <3>2, <1>6, <1>7 DEF ContainsPoint, Rect, Vec
  <2>3. CASE j = hi
    <3>1. p \in PositionsOf(i) /\ ~(pointAt'[p][axis] < pivot) /\ p \in Positions
      BY <2>3, <1>1, <1>3, <1>4, <1>8
    <3>2. ContainsPoint(nodes[i].bounds, pointAt'[p])
      BY <3>1, <1>1, <1>3
    <3>3. pointAt'[p][axis] \in Int /\ pivot <= pointAt'[p][axis]
      BY <3>1, <1>1, <1>3 DEF Vec
    <3> QED
      BY <2>3, <3>2, <3>3, <1>6, <1>7 DEF ContainsPoint, Rect, Vec
  <2> QED
    BY <2>1, <2>2, <2>3, <1>4
<1>13. ChildrenTile'
  <2> SUFFICES ASSUME NEW j \in Ids', ~nodes'[j].leaf
               PROVE  LET n == nodes'[j] IN
                      /\ n.left \in Ids' /\ n.right \in Ids'
                      /\ nodes'[n.left].begin = n.begin /\ nodes'[n.right].end = n.end
                      /\ nodes'[n.left].end = nodes'[n.right].begin
                      /\ nodes'[n.left].end - nodes'[n.left].begin > 0
                      /\ nodes'[n.right].end - nodes'[n.right].begin > 0
    BY DEF ChildrenTile, Population
  <2>1. j \in Ids
    BY <1>4, <1>7
  <2>2. CASE j = i
    BY <2>2, <1>4, <1>6, <1>7
  <2>3. CASE j # i
    <3>1. nodes'[j] = nodes[j] /\ ~nodes[j].leaf
      BY <2>1, <2>3, <1>4
    <3>2. /\ nodes[j].left \in Ids /\ nodes[j].right \in Ids
          /\ nodes[nodes[j].left].begin = nodes[j].begin
          /\ nodes[nodes[j].right].end = nodes[j].end
          /\ nodes[nodes[j].left].end = nodes[nodes[j].right].begin
          /\ nodes[nodes[j].left].end - nodes[nodes[j].left].begin > 0
          /\ nodes[nodes[j].right].end - nodes[nodes[j].right].begin > 0
      BY <2>1, <3>1, <1>2 DEF ChildrenTile, Population
    <3>3. \A k \in Ids : nodes'[k].begin = nodes[k].begin /\ nodes'[k].end = nodes[k].end
      BY <1>4
    <3> QED
      BY <3>1, <3>2, <3>3, <1>4
  <2> QED
    BY <2>2, <2>3
<1>14. Trimming'
  <2>1. nodes'[c].leaf /\ Span(nodes'[c]) \subseteq PositionsOf(i)
    BY <1>4, <1>7, <1>9
  <2>2. /\ PositionsOf(i) \subseteq PositionsOf(crack.leaf)
        /\ \A p \in PositionsOf(crack.leaf) : Qualifies(p) => p \in PositionsOf(i)
        /\ \A face \in 1 .. crack.face - 1 : Undivided(face)
    BY <1>2 DEF Trimming
  <2>3. PositionsOf(crack.leaf)' = PositionsOf(crack.leaf)
    BY <1>1, <1>4, <1>5, <1>9 DEF PositionsOf
  <2>4. ASSUME NEW p \in PositionsOf(crack.leaf), ContainsPoint(crack.q, pointAt'[p])
        PROVE  p \in Span(nodes'[c])
    <3>1. p \in Positions /\ move[p] \in PositionsOf(crack.leaf) /\ pointAt'[p] = pointAt[move[p]]
      BY <1>1, <1>3, <1>8
    <3>2. move[p] \in PositionsOf(i)
      BY <2>2, <2>4, <3>1 DEF Qualifies
    <3>3. p \in PositionsOf(i)
      BY <3>1, <3>2, <1>1, <1>3, <1>8
    <3>4. /\ crack.q.low[axis] <= pointAt'[p][axis]
          /\ pointAt'[p][axis] < crack.q.high[axis]
      BY <2>4, <1>1 DEF ContainsPoint
    <3>5. CASE LowerFace(crack.face)
      <4>1. c = hi /\ pivot = crack.q.low[axis]
        BY <3>5 DEF Toward, Pivot
      <4>2. pointAt'[p][axis] \in Int
        BY <3>1, <1>1, <1>3 DEF Vec
      <4>3. pivot <= pointAt'[p][axis]
        BY <3>4, <4>1
      <4>4. ~(pointAt'[p][axis] < pivot)
        BY <4>2, <4>3, <1>1
      <4>5. ~(p < cut)
        BY <3>3, <4>4, <1>8
      <4> QED
        BY <3>3, <4>1, <4>5, <1>4, <1>5
    <3>6. CASE ~LowerFace(crack.face)
      <4>1. c = lo /\ pivot = crack.q.high[axis]
        BY <3>6 DEF Toward, Pivot
      <4>2. ~(p >= cut)
        BY <3>3, <3>4, <4>1, <1>8
      <4> QED
        BY <3>3, <4>1, <4>2, <1>4, <1>5
    <3> QED
      BY <3>5, <3>6
  <2>5. ASSUME NEW face \in 1 .. crack.face
        PROVE  \/ \A p \in Span(nodes'[c]) : pointAt'[p][Axis(face)] < Pivot(crack.q, face)
               \/ \A p \in Span(nodes'[c]) : ~(pointAt'[p][Axis(face)] < Pivot(crack.q, face))
    <3>1. CASE face = crack.face
      BY <3>1, <1>4, <1>8, <1>9
    <3>2. CASE face # crack.face
      <4>1. Undivided(face)
        BY <3>2, <2>2, <1>1
      <4>2. \A p \in Span(nodes'[c]) : /\ move[p] \in PositionsOf(crack.at)
                                        /\ pointAt'[p] = pointAt[move[p]]
        BY <2>1, <1>1, <1>3, <1>8
      <4> QED
        BY <4>1, <4>2 DEF Undivided, BelowFace
    <3> QED
      BY <3>1, <3>2
  <2>6. \A face \in 1 .. crack'.face - 1 : face \in 1 .. crack.face
    BY <1>1, <1>9
  <2>7. c \in Ids' /\ PositionsOf(crack.at)' = Span(nodes'[c])
    BY <1>4, <1>9 DEF PositionsOf
  <2>8. \A face \in 1 .. crack'.face - 1 : Undivided(face)'
    BY <2>5, <2>6, <2>7, <1>9 DEF Undivided, BelowFace, Axis, LowerFace, Pivot
  <2> QED
    BY <2>1, <2>2, <2>3, <2>4, <2>7, <2>8, <1>9 DEF Trimming, Qualifies
<1> QED
  BY <1>3, <1>10, <1>11, <1>12, <1>13, <1>14 DEF CrackInv

\* A face that cuts nothing off moves nothing, and is behind the crack from then on.
LEMMA NoCutPreserves ==
  ASSUME CrackInv, crack.on, MoreFaces, NEW move, NEW i, NEW axis, NEW pivot,
         i = crack.at, axis = Axis(crack.face), pivot = Pivot(crack.q, crack.face),
         Moves(move, i, axis, pivot), SwapPositions(move),
         ~CutSucceeds(i, axis, pivot), UNCHANGED treeVars,
         crack' = [crack EXCEPT !.face = @ + 1]
  PROVE  CrackInv'
<1> DEFINE cut == SplitPos(i, axis, pivot)
<1>1. /\ i \in Ids /\ crack.leaf \in Ids /\ nodes[i].leaf /\ axis \in Axes
      /\ pivot \in Int /\ crack.face \in Int /\ crack.face \in Faces
  BY CrackTypes
<1>2. /\ CrackTypeOK /\ Ranges /\ Trimming /\ crack \in Crack
      /\ pointAt \in [Positions -> Vec] /\ rowAt \in [Positions -> RowIds]
      /\ flagAt \in [Positions -> BOOLEAN]
  BY DEF CrackInv, CrackTypeOK
<1>3. \A p \in Positions : move[p] = p
  BY DEF Moves
<1>4. pointAt' = pointAt /\ rowAt' = rowAt /\ flagAt' = flagAt
  BY <1>2, <1>3 DEF SwapPositions
<1>5. nodes' = nodes /\ nodeCount' = nodeCount
  BY DEF treeVars
<1>6. /\ crack'.at = i /\ crack'.leaf = crack.leaf /\ crack'.q = crack.q
      /\ crack'.face = crack.face + 1 /\ crack'.on /\ crack' \in Crack
      /\ crack'.retired = crack.retired
  <2>1. crack.face + 1 \in 1 .. 2 * Dims + 1
    BY <1>1 DEF Faces
  <2> QED
    BY <2>1, <1>2 DEF Crack
<1>7. CrackTypeOK'
  BY <1>1, <1>2, <1>4, <1>5, <1>6 DEF CrackTypeOK, Ids
<1>8. /\ Ranges' /\ Covered' /\ Nested' /\ ColumnsAgree' /\ RowsInBounds' /\ ChildrenTile'
  BY <1>4, <1>5 DEF CrackInv, Ranges, Covered, Nested, ColumnsAgree, RowsInBounds,
     ChildrenTile, Population, PositionsOf, Span, Ids
<1>9. Trimming'
  <2>1. Undivided(crack.face)
    <3>1. \A p \in PositionsOf(i) : pointAt[p][axis] < pivot <=> p < cut
      BY <1>2, <1>3, <1>1, SplitPosInRange DEF Moves
    <3>2. cut = nodes[i].begin \/ cut = nodes[i].end
      BY DEF CutSucceeds
    <3>3. \A p \in PositionsOf(i) : p \in Int /\ nodes[i].begin <= p /\ p < nodes[i].end
      BY <1>1, <1>2 DEF PositionsOf, Span, CrackTypeOK, Node
    <3>4. nodes[i].begin \in Int /\ nodes[i].end \in Int
      BY <1>1, <1>2 DEF CrackTypeOK, Node
    <3>5. CASE cut = nodes[i].begin
      BY <3>1, <3>3, <3>4, <3>5 DEF Undivided, BelowFace
    <3>6. CASE cut = nodes[i].end
      BY <3>1, <3>3, <3>4, <3>6 DEF Undivided, BelowFace
    <3> QED
      BY <3>2, <3>5, <3>6
  <2>2. \A face \in 1 .. crack.face : Undivided(face)
    BY <2>1, <1>1, <1>2 DEF Trimming
  <2>3. \A face \in 1 .. crack'.face - 1 : Undivided(face)'
    <3>1. \A face \in 1 .. crack'.face - 1 : face \in 1 .. crack.face
      BY <1>1, <1>6
    <3> QED
      BY <2>2, <3>1, <1>4, <1>5, <1>6
         DEF Undivided, BelowFace, PositionsOf, Span, Axis, LowerFace, Pivot
  <2> QED
    BY <2>3, <1>2, <1>4, <1>5, <1>6 DEF Trimming, Qualifies, PositionsOf, Span
<1> QED
  BY <1>7, <1>8, <1>9 DEF CrackInv

LEMMA CrackFacePreserves ==
  ASSUME CrackInv, CrackFace
  PROVE  CrackInv'
<1>1. PICK i, axis, pivot : i = crack.at /\ axis = Axis(crack.face) /\ pivot = Pivot(crack.q, crack.face)
  OBVIOUS
<1>2. crack.on /\ MoreFaces
  BY DEF CrackFace
<1>3. i \in Ids /\ axis \in Axes /\ pivot \in Int /\ CrackTypeOK /\ Ranges
  BY <1>1, <1>2, CrackTypes DEF CrackInv
<1>4. PICK move : Moves(move, i, axis, pivot) /\ SwapPositions(move)
  <2>1. PartitionRange(i, axis, pivot)
    BY <1>1 DEF CrackFace, SplitAtFace
  <2> QED
    BY <2>1, <1>3, PartitionRangeMoves
<1>5. CASE /\ CutSucceeds(i, axis, pivot)
           /\ AddChildren(i, axis, pivot)
           /\ crack' = [crack EXCEPT !.at = Toward(crack.face), !.face = @ + 1,
                                     !.retired = @ \union {i}]
  BY <1>1, <1>2, <1>4, <1>5, CutPreserves
<1>6. CASE /\ ~CutSucceeds(i, axis, pivot)
           /\ UNCHANGED treeVars
           /\ crack' = [crack EXCEPT !.face = @ + 1]
  BY <1>1, <1>2, <1>4, <1>6, NoCutPreserves
<1> QED
  BY <1>1, <1>5, <1>6 DEF CrackFace, SplitAtFace

LEMMA InitEstablishes ==
  ASSUME CrackInit
  PROVE  CrackInv
<1>1. /\ rowAt = [p \in Positions |-> p] /\ pointAt = [p \in Positions |-> Point[p]]
      /\ flagAt = [p \in Positions |-> p \in Flagged] /\ nodeCount = 1 /\ crack = NoCrack
      /\ nodes = [i \in {0} |-> [bounds |-> RootBounds, begin |-> 0, end |-> N,
                                  leaf |-> TRUE, left |-> 0, right |-> 0]]
  BY DEF CrackInit
<1>2. Positions = RowIds
  BY DEF Positions, RowIds
<1>3. /\ Ids = {0} /\ nodes[0].leaf /\ nodes[0].begin = 0 /\ nodes[0].end = N
      /\ nodes[0].bounds = RootBounds /\ PositionsOf(0) = Positions
  BY <1>1 DEF Ids, PositionsOf, Span, Positions
<1>4. EmptyRect \in Rect /\ RootBounds \in Rect
  BY DEF EmptyRect, RootBounds, Rect, Vec
<1>5. NoCrack \in Crack /\ ~NoCrack.on /\ NoCrack.leaf = 0 /\ NoCrack.at = 0 /\ NoCrack.retired = {}
  BY <1>4 DEF NoCrack, Crack
<1>6. CrackTypeOK
  <2>1. pointAt \in [Positions -> Vec] /\ rowAt \in [Positions -> RowIds] /\ flagAt \in [Positions -> BOOLEAN]
    BY <1>1, <1>2
  <2>2. nodes \in [Ids -> Node]
    BY <1>1, <1>3, <1>4 DEF Node
  <2> QED
    BY <2>1, <2>2, <1>1, <1>3, <1>5 DEF CrackTypeOK
<1>7. Ranges /\ Covered /\ Nested /\ ChildrenTile
  BY <1>3 DEF Ranges, Covered, Nested, ChildrenTile
<1>8. ColumnsAgree
  BY <1>1, <1>2 DEF ColumnsAgree, IsInjective
<1>9. RowsInBounds
  <2> SUFFICES ASSUME NEW p \in Positions, NEW a \in Axes
               PROVE  RootBounds.low[a] <= pointAt[p][a] /\ pointAt[p][a] < RootBounds.high[a]
    BY <1>3 DEF RowsInBounds, ContainsPoint
  <2>1. /\ N # 0 /\ p \in RowIds /\ pointAt[p] = Point[p]
        /\ Point[p][a] \in Int /\ DataBounds.high[a] \in Int
    BY <1>1, <1>2 DEF Positions, Vec, Rect
  <2>2. DataBounds.low[a] <= Point[p][a] /\ Point[p][a] <= DataBounds.high[a]
    BY <2>1
  <2>3. RootBounds.low[a] = DataBounds.low[a] /\ RootBounds.high[a] = DataBounds.high[a] + 1
    BY <2>1 DEF RootBounds
  <2> QED
    BY <2>1, <2>2, <2>3
<1>10. Trimming
  BY <1>1, <1>5 DEF Trimming
<1> QED
  BY <1>6, <1>7, <1>8, <1>9, <1>10 DEF CrackInv

\* A refine that begins or ends touches neither the table nor the tree.
LEMMA RefinePreserves ==
  ASSUME CrackInv,
         \/ \E i \in Ids, q \in Queries : BeginRefine(i, q)
         \/ EndRefine
         \/ UNCHANGED crackVars
  PROVE  CrackInv'
<1>1. /\ pointAt' = pointAt /\ rowAt' = rowAt /\ flagAt' = flagAt
      /\ nodes' = nodes /\ nodeCount' = nodeCount
  BY DEF BeginRefine, EndRefine, crackVars, tableVars, treeVars
<1>2. /\ Ranges' /\ Covered' /\ Nested' /\ ColumnsAgree' /\ RowsInBounds' /\ ChildrenTile'
  BY <1>1 DEF CrackInv, Ranges, Covered, Nested, ColumnsAgree, RowsInBounds,
     ChildrenTile, Population, PositionsOf, Span, Ids
<1>3. CrackTypeOK /\ Trimming
  BY DEF CrackInv
<1>4. /\ NoCrack \in Crack /\ ~NoCrack.on /\ NoCrack.leaf = 0 /\ NoCrack.at = 0
      /\ NoCrack.retired = {} /\ NoCrack.face = 1
  <2>1. EmptyRect \in Rect
    BY DEF EmptyRect, Rect, Vec
  <2> QED
    BY <2>1 DEF NoCrack, Crack
<1>5. ASSUME NEW i \in Ids, NEW q \in Queries, BeginRefine(i, q)
      PROVE  CrackInv'
  <2>1. crack' = [NoCrack EXCEPT !.on = TRUE, !.leaf = i, !.at = i, !.q = q] /\ nodes[i].leaf
    BY <1>5 DEF BeginRefine, Refinable
  <2>2. i \in Nat /\ q \in Rect
    BY DEF Ids
  <2>3. /\ crack' \in Crack /\ crack'.on /\ crack'.leaf = i /\ crack'.at = i
        /\ crack'.retired = {} /\ crack'.face = 1
    BY <2>1, <2>2, <1>4 DEF Crack
  <2>4. CrackTypeOK'
    BY <2>3, <1>1, <1>3 DEF CrackTypeOK, Ids
  <2>5. Trimming'
    BY <2>1, <2>3, <1>1 DEF Trimming, PositionsOf, Span
  <2> QED
    BY <2>4, <2>5, <1>2 DEF CrackInv
<1>6. CASE EndRefine
  <2>1. crack' = NoCrack
    BY <1>6 DEF EndRefine
  <2>2. 0 \in Ids
    BY <1>3 DEF CrackTypeOK, Ids
  <2>3. CrackTypeOK'
    BY <2>1, <2>2, <1>1, <1>3, <1>4 DEF CrackTypeOK, Ids
  <2>4. Trimming'
    BY <2>1, <1>4 DEF Trimming
  <2> QED
    BY <2>3, <2>4, <1>2 DEF CrackInv
<1>7. CASE UNCHANGED crackVars
  <2>1. crack' = crack
    BY <1>7 DEF crackVars
  <2>2. CrackTypeOK'
    BY <2>1, <1>1, <1>3 DEF CrackTypeOK, Ids
  <2>3. Trimming'
    BY <2>1, <1>1, <1>3 DEF Trimming, Undivided, BelowFace, Qualifies, PositionsOf, Span
  <2> QED
    BY <2>2, <2>3, <1>2 DEF CrackInv
<1> QED
  BY <1>5, <1>6, <1>7
-----------------------------------------------------------------------------
\* CrackInv is an invariant of every crack of every table.
THEOREM CrackInvariant == CrackSpec => []CrackInv
<1>1. CrackInit => CrackInv
  BY InitEstablishes
<1>2. CrackInv /\ [CrackNext]_crackVars => CrackInv'
  <2> SUFFICES ASSUME CrackInv, [CrackNext]_crackVars PROVE CrackInv'
    OBVIOUS
  <2>1. CASE \E i \in Ids, q \in Queries : BeginRefine(i, q)
    BY <2>1, RefinePreserves
  <2>2. CASE CrackFace
    BY <2>2, CrackFacePreserves
  <2>3. CASE EndRefine
    BY <2>3, RefinePreserves
  <2>4. CASE UNCHANGED crackVars
    BY <2>4, RefinePreserves
  <2> QED
    BY <2>1, <2>2, <2>3, <2>4 DEF CrackNext
<1> QED
  BY <1>1, <1>2, PTL DEF CrackSpec

\* Every reachable state is well typed: no id, position or face runs out of range.
THEOREM CrackTypeCorrect == CrackSpec => []CrackTypeOK
<1>1. CrackInv => CrackTypeOK
  BY DEF CrackInv
<1> QED
  BY <1>1, CrackInvariant, PTL

\* However often entries trade places, a row's point and flag go with it.
THEOREM ColumnsStayAligned == CrackSpec => []ColumnsAgree
<1>1. CrackInv => ColumnsAgree
  BY DEF CrackInv
<1> QED
  BY <1>1, CrackInvariant, PTL

\* A partition's bounds enclose its rows: classify() may trust them.
THEOREM BoundsEncloseRows == CrackSpec => []RowsInBounds
<1>1. CrackInv => RowsInBounds
  BY DEF CrackInv
<1> QED
  BY <1>1, CrackInvariant, PTL

\* Each position of the table belongs to exactly one leaf.
THEOREM LeavesTileTheTable == CrackSpec => []LeavesTile
<1>1. CrackInv => LeavesTile
  <2> SUFFICES ASSUME CrackInv, NEW p \in Positions
               PROVE  \E i \in Ids :
                        /\ nodes[i].leaf /\ p \in PositionsOf(i)
                        /\ \A j \in Ids : nodes[j].leaf /\ p \in PositionsOf(j) => j = i
    BY DEF LeavesTile
  <2>1. Covered /\ Nested
    BY DEF CrackInv
  <2>2. PICK i \in Ids : nodes[i].leaf /\ p \in PositionsOf(i)
    BY <2>1 DEF Covered
  <2>3. ASSUME NEW j \in Ids, nodes[j].leaf, p \in PositionsOf(j), j # i
        PROVE  FALSE
    BY <2>1, <2>2, <2>3 DEF Nested
  <2> QED
    BY <2>2, <2>3
<1> QED
  BY <1>1, CrackInvariant, PTL

\* A crack ends with the query's rows to themselves: a large final partition lies
\* wholly inside the query, or wholly outside it.
THEOREM CracksIsolate == CrackSpec => []CrackIsolatesQuery
<1>1. CrackInv => CrackIsolatesQuery
  <2> SUFFICES ASSUME CrackInv, crack.on
               PROVE  /\ \A p \in PositionsOf(crack.leaf) : Qualifies(p) => p \in PositionsOf(crack.at)
                      /\ ~MoreFaces /\ Population(crack.at) > MaxPopulation =>
                           \/ \A p \in PositionsOf(crack.at) : Qualifies(p)
                           \/ \A p \in PositionsOf(crack.at) : ~Qualifies(p)
    BY DEF CrackIsolatesQuery
  <2>1. CrackTypeOK /\ Ranges /\ Trimming /\ crack \in Crack /\ crack.at \in Ids
        /\ nodes \in [Ids -> Node] /\ pointAt \in [Positions -> Vec]
    BY DEF CrackInv, CrackTypeOK
  <2>2. ASSUME ~MoreFaces, Population(crack.at) > MaxPopulation
        PROVE  \/ \A p \in PositionsOf(crack.at) : Qualifies(p)
               \/ \A p \in PositionsOf(crack.at) : ~Qualifies(p)
    <3>1. \A face \in Faces : Undivided(face)
      <4>1. crack.face \in 1 .. 2 * Dims + 1 /\ crack.face \notin Faces
        BY <2>1, <2>2 DEF MoreFaces, Crack
      <4>2. crack.face - 1 = 2 * Dims
        BY <4>1 DEF Faces
      <4> QED
        BY <2>1, <4>2 DEF Trimming, Faces
    <3>2. crack.q \in Rect
      BY <2>1 DEF Crack
    <3>3. \A p \in PositionsOf(crack.at) : p \in Positions /\ pointAt[p] \in Vec
      BY <2>1 DEF Ranges, Node, PositionsOf, Span, Positions
    \* the two faces of an axis, and what lies on their query side
    <3>4. ASSUME NEW a \in Axes
          PROVE  /\ a \in Faces /\ a + Dims \in Faces
                 /\ \A p \in PositionsOf(crack.at) :
                      /\ BelowFace(p, a) <=> ~(crack.q.low[a] <= pointAt[p][a])
                      /\ BelowFace(p, a + Dims) <=> pointAt[p][a] < crack.q.high[a]
      <4>1. a \in Int /\ 1 <= a /\ a <= Dims /\ Dims \in Int
        BY DEF Axes
      <4>2. a \in Faces /\ a + Dims \in Faces
        BY <4>1 DEF Faces
      <4>3. /\ LowerFace(a) /\ Axis(a) = a /\ Pivot(crack.q, a) = crack.q.low[a]
            /\ ~LowerFace(a + Dims) /\ Axis(a + Dims) = a
            /\ Pivot(crack.q, a + Dims) = crack.q.high[a]
        BY <4>1 DEF LowerFace, Axis, Pivot
      <4>4. \A p \in PositionsOf(crack.at) : pointAt[p][a] \in Int /\ crack.q.low[a] \in Int
        BY <3>2, <3>3 DEF Rect, Vec
      <4> QED
        BY <4>2, <4>3, <4>4 DEF BelowFace
    <3>5. CASE \E a \in Axes : \/ \A p \in PositionsOf(crack.at) : BelowFace(p, a)
                              \/ \A p \in PositionsOf(crack.at) : ~BelowFace(p, a + Dims)
      BY <3>4, <3>5 DEF Qualifies, ContainsPoint
    <3>6. CASE \A a \in Axes : /\ ~\A p \in PositionsOf(crack.at) : BelowFace(p, a)
                              /\ ~\A p \in PositionsOf(crack.at) : ~BelowFace(p, a + Dims)
      <4>1. \A a \in Axes : \A p \in PositionsOf(crack.at) : ~BelowFace(p, a) /\ BelowFace(p, a + Dims)
        BY <3>1, <3>4, <3>6 DEF Undivided
      <4> QED
        BY <3>4, <4>1 DEF Qualifies, ContainsPoint
    <3> QED
      BY <3>5, <3>6
  <2> QED
    BY <2>1, <2>2 DEF Trimming
<1> QED
  BY <1>1, CrackInvariant, PTL
-----------------------------------------------------------------------------
\* What one step of any kind does to the rows of the partitions that exist.
LEMMA StepKeepsRows ==
  ASSUME CrackInv, [CrackNext]_crackVars, NEW j \in Ids
  PROVE  /\ Ids \subseteq Ids' /\ PositionsOf(j)' = PositionsOf(j)
         /\ RowsOf(j)' = RowsOf(j) /\ (nodes'[j].leaf => nodes[j].leaf)
         /\ nodes[j].leaf /\ nodes'[j].leaf =>
              \A p \in PositionsOf(j) : rowAt'[p] = rowAt[p]
<1>1. CASE UNCHANGED <<tableVars, treeVars>>
  BY <1>1 DEF tableVars, treeVars, RowsOf, PositionsOf, Span, Ids
<1>2. CASE CrackFace
  <2>1. PICK i, axis, pivot : i = crack.at /\ axis = Axis(crack.face) /\ pivot = Pivot(crack.q, crack.face)
    OBVIOUS
  <2>2. crack.on /\ MoreFaces
    BY <1>2 DEF CrackFace
  <2>3. i \in Ids /\ axis \in Axes /\ pivot \in Int /\ nodes[i].leaf /\ CrackTypeOK /\ Ranges
    BY <2>1, <2>2, CrackTypes DEF CrackInv
  <2>4. PICK move : Moves(move, i, axis, pivot) /\ SwapPositions(move)
    <3>1. PartitionRange(i, axis, pivot)
      BY <1>2, <2>1 DEF CrackFace, SplitAtFace
    <3> QED
      BY <3>1, <2>3, PartitionRangeMoves
  <2>5. /\ {rowAt'[p] : p \in PositionsOf(j)} = RowsOf(j)
        /\ nodes[j].leaf /\ j # i => \A p \in PositionsOf(j) : move[p] = p
        /\ \A p \in PositionsOf(j) : p \in Positions
    BY <2>3, <2>4, TableAfterMove
  <2>6. rowAt' = [p \in Positions |-> rowAt[move[p]]]
    BY <2>4 DEF SwapPositions
  <2>7. CASE CutSucceeds(i, axis, pivot) /\ AddChildren(i, axis, pivot)
    <3>1. PositionsOf(j)' = PositionsOf(j) /\ ~nodes'[i].leaf /\ Ids \subseteq Ids'
          /\ (j # i => nodes'[j] = nodes[j])
      BY <2>3, <2>7, TreeAfterCut
    <3> QED
      BY <2>5, <2>6, <3>1 DEF RowsOf
  <2>8. CASE ~CutSucceeds(i, axis, pivot) /\ UNCHANGED treeVars
    <3>1. PositionsOf(j)' = PositionsOf(j) /\ Ids' = Ids /\ nodes' = nodes
      BY <2>8 DEF treeVars, PositionsOf, Span, Ids
    <3>2. \A p \in Positions : move[p] = p
      BY <2>4, <2>8 DEF Moves
    <3> QED
      BY <2>5, <2>6, <3>1, <3>2 DEF RowsOf
  <2> QED
    BY <1>2, <2>1, <2>7, <2>8 DEF CrackFace, SplitAtFace
<1> QED
  BY <1>1, <1>2 DEF CrackNext, BeginRefine, EndRefine, crackVars

\* A partition holds the same rows for ever, so an exact summary of it stays one.
THEOREM ContentsNeverChange == CrackSpec => ContentsFrozen
<1>1. CrackInv /\ [CrackNext]_crackVars => [\A i \in Ids : RowsOf(i)' = RowsOf(i)]_crackVars
  BY StepKeepsRows
<1> QED
  BY <1>1, CrackInvariant, PTL DEF CrackSpec, ContentsFrozen

\* A leaf that survives a step has its rows where they were, so a tracker of its
\* positions still names the rows it was made for.
THEOREM LeavesDoNotMove == CrackSpec => LeafUnmoved
<1>1. CrackInv /\ [CrackNext]_crackVars =>
        [\A i \in Ids : nodes[i].leaf /\ nodes'[i].leaf =>
           \A p \in PositionsOf(i) : rowAt'[p] = rowAt[p]]_crackVars
  BY StepKeepsRows
<1> QED
  BY <1>1, CrackInvariant, PTL DEF CrackSpec, LeafUnmoved
=============================================================================
