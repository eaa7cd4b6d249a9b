------------------------------ MODULE KdCrack -------------------------------
(***************************************************************************)
(* The index table and the k-d tree that cracks it in place                *)
(* (storage/index_table.cpp, substrates/kd_tree.cpp, kd_crack.cpp,         *)
(* adaptive_kd_access_path.cpp).                                           *)
(*                                                                         *)
(* The table holds one entry per row: its point, its row id and its        *)
(* outlier flag.  Every partition of the tree owns a contiguous range of   *)
(* positions.  Refining a leaf toward a query cuts it at each of the       *)
(* query's faces in turn, moving the entries of the range so that both     *)
(* sides of the cut stay contiguous.                                       *)
(***************************************************************************)
EXTENDS Geometry, FiniteSets, Functions

CONSTANTS
  N,                (* rows in the table                                   *)
  Point,            (* the point of each row                               *)
  Flagged,          (* rows held in the outlier index                      *)
  DataBounds,       (* extent of the data, closed, from the manifest       *)
  MaxPopulation,    (* partition_size: a leaf this small is not cracked    *)
  Queries           (* query rectangles                                    *)

Positions == 0 .. N - 1
RowIds    == 0 .. N - 1

ASSUME TableAssumption ==
  /\ N \in Nat
  /\ Point \in [RowIds -> Vec]
  /\ Flagged \subseteq RowIds
  /\ MaxPopulation \in Nat
  /\ Queries \subseteq Rect

ASSUME ExtentAssumption ==
  /\ DataBounds \in Rect
  /\ \A r \in RowIds, a \in Axes :
       DataBounds.low[a] <= Point[r][a] /\ Point[r][a] <= DataBounds.high[a]

VARIABLES
  pointAt, rowAt, flagAt,   (* IndexTable: the columns, by position        *)
  nodeCount, nodes,         (* KdTree::nodes_, by dense id from 0          *)
  crack                     (* the refine() in progress                    *)

tableVars == <<pointAt, rowAt, flagAt>>
treeVars  == <<nodeCount, nodes>>
crackVars == <<tableVars, treeVars, crack>>

Node == [bounds : Rect, begin : Nat, end : Nat, leaf : BOOLEAN,
         left : Nat, right : Nat]      \* left = right = 0: no children

Ids            == 0 .. nodeCount - 1
Span(n)        == n.begin .. n.end - 1
PositionsOf(i) == Span(nodes[i])
RowsOf(i)      == {rowAt[p] : p \in PositionsOf(i)}
Population(i)  == nodes[i].end - nodes[i].begin

\* One call of refine(): the leaf it was asked to refine, the partition the
\* crack is trimming now, the next face of the query to cut at (the lower faces
\* in axis order, then the upper ones), and the partitions split so far.
Faces   == 1 .. 2 * Dims
Crack   == [on : BOOLEAN, leaf : Nat, at : Nat, face : 1 .. 2 * Dims + 1,
            q : Rect, retired : SUBSET Nat]
NoCrack == [on |-> FALSE, leaf |-> 0, at |-> 0, face |-> 1,
            q |-> EmptyRect, retired |-> {}]

LowerFace(face) == face <= Dims
Axis(face)      == IF LowerFace(face) THEN face ELSE face - Dims
Pivot(q, face)  == IF LowerFace(face) THEN q.low[Axis(face)] ELSE q.high[Axis(face)]
-----------------------------------------------------------------------------
\* Mutant: the top edge is not lifted.
MutRootBounds == DataBounds

\* KdTree::compute_root_bounds: the exclusive top is lifted one representable
\* step past the data; on the integer lattice that step is 1.
RootBounds ==
  IF N = 0 THEN EmptyRect
  ELSE [low  |-> DataBounds.low,
        high |-> [a \in Axes |-> DataBounds.high[a] + 1]]

CrackInit ==
  /\ rowAt     = [p \in Positions |-> p]
  /\ pointAt   = [p \in Positions |-> Point[p]]
  /\ flagAt    = [p \in Positions |-> p \in Flagged]
  /\ nodeCount = 1
  /\ nodes     = [i \in {0} |-> [bounds |-> RootBounds, begin |-> 0, end |-> N,
                                 leaf |-> TRUE, left |-> 0, right |-> 0]]
  /\ crack     = NoCrack
-----------------------------------------------------------------------------
\* KdTree::partition_range, a Hoare partition of node i's range: an entry at or
\* above the pivot that sits left of the cut trades places with one below the
\* pivot that sits right of it, the outermost pairs first.
Below(i, axis, pivot)    == {p \in PositionsOf(i) : pointAt[p][axis] < pivot}
SplitPos(i, axis, pivot) == nodes[i].begin + Cardinality(Below(i, axis, pivot))

LeftMisplaced(i, axis, pivot) ==
  {p \in PositionsOf(i) \ Below(i, axis, pivot) : p < SplitPos(i, axis, pivot)}
RightMisplaced(i, axis, pivot) ==
  {p \in Below(i, axis, pivot) : p >= SplitPos(i, axis, pivot)}

\* Mutant: the left entry of a pair is overwritten, not swapped.
MutPartner(trade, L, R) == [p \in Positions |-> IF p \in L THEN trade[p] ELSE p]

\* The position each position trades places with: its own, unless misplaced.
Partner(trade, L, R) ==
  [p \in Positions |-> IF p \in L      THEN trade[p]
                       ELSE IF p \in R THEN CHOOSE l \in L : trade[l] = p
                       ELSE                 p]

\* Mutant: the outlier flags stay where they are.
MutSwapPositions(partner) ==
  /\ pointAt' = [p \in Positions |-> pointAt[partner[p]]]
  /\ rowAt'   = [p \in Positions |-> rowAt[partner[p]]]
  /\ flagAt'  = flagAt

\* IndexTable::swap_positions moves every column of the table.
SwapPositions(partner) ==
  /\ pointAt' = [p \in Positions |-> pointAt[partner[p]]]
  /\ rowAt'   = [p \in Positions |-> rowAt[partner[p]]]
  /\ flagAt'  = [p \in Positions |-> flagAt[partner[p]]]

PartitionRange(i, axis, pivot) ==
  LET L == LeftMisplaced(i, axis, pivot)
      R == RightMisplaced(i, axis, pivot)
  IN  \E trade \in Bijection(L, R) :
        /\ \A x, y \in L : x < y => trade[x] > trade[y]
        /\ SwapPositions(Partner(trade, L, R))

\* Mutant: the left child claims the first position of the right one.
MutLeftChild(n, axis, pivot, s) ==
  [n EXCEPT !.bounds.high[axis] = pivot, !.end = s + 1]

\* KdTree::split_node: the children clip the parent's bounds at the pivot.  A cut
\* that leaves one side empty changes no node.
LeftChild(n, axis, pivot, s) ==
  [n EXCEPT !.bounds.high[axis] = pivot, !.end = s]
RightChild(n, axis, pivot, s) ==
  [n EXCEPT !.bounds.low[axis] = pivot, !.begin = s]

\* Mutants: an empty side is accepted; a cut that leaves a single row on one side
\* is given up although its rows have moved.
MutCutAlways(i, axis, pivot) == TRUE
MutCutBalanced(i, axis, pivot) ==
  SplitPos(i, axis, pivot) \in nodes[i].begin + 2 .. nodes[i].end - 2

CutSucceeds(i, axis, pivot) ==
  SplitPos(i, axis, pivot) \notin {nodes[i].begin, nodes[i].end}

AddChildren(i, axis, pivot) ==
  LET s == SplitPos(i, axis, pivot)
  IN  /\ nodeCount' = nodeCount + 2
      /\ nodes' = [j \in 0 .. nodeCount + 1 |->
           CASE j = i             -> [nodes[i] EXCEPT !.leaf  = FALSE,
                                                      !.left  = nodeCount,
                                                      !.right = nodeCount + 1]
             [] j = nodeCount     -> LeftChild(nodes[i], axis, pivot, s)
             [] j = nodeCount + 1 -> RightChild(nodes[i], axis, pivot, s)
             [] OTHER             -> nodes[j]]

\* Mutant: the side away from the query.
MutTowardFar(face) == IF LowerFace(face) THEN nodeCount ELSE nodeCount + 1

\* The child that faces the query: at or above a lower face, below an upper one.
Toward(face) == IF LowerFace(face) THEN nodeCount + 1 ELSE nodeCount

\* crack_to_query: cut the partition being trimmed at the next face and carry on
\* with the side that faces the query.
SplitAtFace ==
  LET i     == crack.at
      axis  == Axis(crack.face)
      pivot == Pivot(crack.q, crack.face)
  IN  /\ PartitionRange(i, axis, pivot)
      /\ \/ /\ CutSucceeds(i, axis, pivot)
            /\ AddChildren(i, axis, pivot)
            /\ crack' = [crack EXCEPT
                 !.at      = Toward(crack.face),
                 !.face    = @ + 1,
                 !.retired = @ \union {i}]
         \/ /\ ~CutSucceeds(i, axis, pivot)
            /\ crack' = [crack EXCEPT !.face = @ + 1]
            /\ UNCHANGED treeVars

MoreFaces == crack.face \in Faces /\ Population(crack.at) > MaxPopulation
-----------------------------------------------------------------------------
\* AdaptiveKdAccessPath::refine on a leaf the query cuts; a leaf no larger than
\* partition_size is left as it is (no step).
Refinable(i, q) ==
  /\ nodes[i].leaf
  /\ Classify(nodes[i].bounds, q) = "Partial"
  /\ Population(i) > MaxPopulation

BeginRefine(i, q) ==
  /\ ~crack.on
  /\ Refinable(i, q)
  /\ crack' = [NoCrack EXCEPT !.on = TRUE, !.leaf = i, !.at = i, !.q = q]
  /\ UNCHANGED <<tableVars, treeVars>>

CrackFace ==
  /\ crack.on
  /\ MoreFaces
  /\ SplitAtFace

EndRefine ==
  /\ crack.on
  /\ ~MoreFaces
  /\ crack' = NoCrack
  /\ UNCHANGED <<tableVars, treeVars>>

CrackNext ==
  \/ \E i \in Ids, q \in Queries : BeginRefine(i, q)
  \/ CrackFace
  \/ EndRefine

CrackSpec == CrackInit /\ [][CrackNext]_crackVars
-----------------------------------------------------------------------------
CrackTypeOK ==
  /\ pointAt \in [Positions -> Vec]
  /\ rowAt \in [Positions -> RowIds]
  /\ flagAt \in [Positions -> BOOLEAN]
  /\ nodeCount \in Nat \ {0}
  /\ nodes \in [Ids -> Node]
  /\ crack \in Crack
  /\ crack.leaf \in Ids /\ crack.at \in Ids /\ crack.retired \subseteq Ids

\* The columns of the table move together: the point and the outlier flag found
\* at a position are those of the row found there, and no row is lost or doubled
\* (IndexTable::swap_positions: "a mover that omits this silently misattributes
\* flags").
ColumnsAgree ==
  /\ IsInjective(rowAt)
  /\ \A p \in Positions : /\ pointAt[p] = Point[rowAt[p]]
                          /\ flagAt[p] = (rowAt[p] \in Flagged)

\* Every point of a partition's range lies in the partition's bounds, ancestors
\* included: classify() may answer from the bounds alone.
RowsInBounds ==
  \A i \in Ids : \A p \in PositionsOf(i) : ContainsPoint(nodes[i].bounds, pointAt[p])

\* The leaves tile the table: each position belongs to exactly one of them.
LeavesTile ==
  \A p \in Positions : \E i \in Ids :
    /\ nodes[i].leaf /\ p \in PositionsOf(i)
    /\ \A j \in Ids : nodes[j].leaf /\ p \in PositionsOf(j) => j = i

\* The children of a split partition are non-empty and share out its range, so a
\* descent through them sees each row once.
ChildrenTile ==
  \A i \in Ids : ~nodes[i].leaf =>
    LET n == nodes[i]
    IN  /\ n.left \in Ids /\ n.right \in Ids
        /\ nodes[n.left].begin = n.begin /\ nodes[n.right].end = n.end
        /\ nodes[n.left].end = nodes[n.right].begin
        /\ Population(n.left) > 0 /\ Population(n.right) > 0

Qualifies(p) == ContainsPoint(crack.q, pointAt[p])

\* A crack isolates the query: rows of the refined leaf that qualify are all in
\* the partition the crack ends with, and unless that partition is small enough
\* to be left alone the query does not divide it: all of its rows qualify, or
\* (when they all lie beyond one face, a cut without progress) none does
\* (kd_crack.cpp: "keep the >= child", "keep the < child").
CrackIsolatesQuery ==
  crack.on =>
    /\ \A p \in PositionsOf(crack.leaf) : Qualifies(p) => p \in PositionsOf(crack.at)
    /\ ~MoreFaces /\ Population(crack.at) > MaxPopulation =>
         \/ \A p \in PositionsOf(crack.at) : Qualifies(p)
         \/ \A p \in PositionsOf(crack.at) : ~Qualifies(p)

\* The set of rows of a partition never changes once it exists: whatever is
\* cracked below or beside it, its summary keeps describing the same rows.
ContentsFrozen ==
  [][\A i \in Ids : RowsOf(i)' = RowsOf(i)]_crackVars

\* A leaf that survives a step keeps its rows in their places, a cut that makes
\* no progress included: sample trackers hold positions and rely on it.
LeafUnmoved ==
  [][\A i \in Ids : nodes[i].leaf /\ nodes'[i].leaf =>
       \A p \in PositionsOf(i) : rowAt'[p] = rowAt[p]]_crackVars
-----------------------------------------------------------------------------
(* The invariant these follow from.                                        *)

Ranges == \A i \in Ids : nodes[i].begin <= nodes[i].end /\ nodes[i].end <= N

Covered == \A p \in Positions : \E i \in Ids : nodes[i].leaf /\ p \in PositionsOf(i)

\* Moving rows within a leaf moves none across the border of another partition.
Nested ==
  \A i, j \in Ids : nodes[i].leaf /\ i # j =>
    \/ PositionsOf(i) \cap PositionsOf(j) = {}
    \/ PositionsOf(i) \subseteq PositionsOf(j) /\ ~nodes[j].leaf

\* The face no longer divides the rows of the partition being trimmed.
BelowFace(p, face) == pointAt[p][Axis(face)] < Pivot(crack.q, face)
Undivided(face) ==
  \/ \A p \in PositionsOf(crack.at) : BelowFace(p, face)
  \/ \A p \in PositionsOf(crack.at) : ~BelowFace(p, face)

Trimming ==
  crack.on =>
    /\ nodes[crack.at].leaf
    /\ PositionsOf(crack.at) \subseteq PositionsOf(crack.leaf)
    /\ \A p \in PositionsOf(crack.leaf) : Qualifies(p) => p \in PositionsOf(crack.at)
    /\ \A face \in 1 .. crack.face - 1 : Undivided(face)

\* The inductive invariant: at every cut, however many refinements came before,
\* the partitions form a tree over contiguous ranges, the rows of each are inside
\* its bounds, and the faces already cut no longer divide the trimmed partition.
CrackInv ==
  /\ CrackTypeOK /\ Ranges /\ Covered /\ Nested
  /\ ColumnsAgree /\ RowsInBounds /\ ChildrenTile /\ Trimming
=============================================================================
