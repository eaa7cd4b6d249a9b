---------------------------- MODULE PrebuiltIndex ---------------------------
(***************************************************************************)
(* QueryEngine::initialize: the substrate chosen by the factory builds its *)
(* partitions (substrates/static_kd_access_path.cpp and                    *)
(* grid_akd_access_path.cpp; the adaptive one starts with a single root),  *)
(* one sweep over the measures fills the summaries of every partition      *)
(* (aqp/eager_materialize.cpp) and scores the outliers                     *)
(* (aqp/outlier_scorer.cpp), the flags are installed, and queries begin to *)
(* crack what can be cracked.  Tables, trees and cracks are KdCrack's.     *)
(*                                                                         *)
(* Grid arithmetic is rounded.  A coordinate is an integer, one            *)
(* representable step apart from the next; a tile edge that lo + i * width *)
(* should put at an exact place ends up within Rounding steps of it, and   *)
(* so, independently, does the value from which cell_index counts a point  *)
(* to the next cell.                                                       *)
(***************************************************************************)
EXTENDS KdCrack, Sequences, FiniteSetsExt

CONSTANTS
  Substrates,       (* ids registered with SubstrateFactory                *)
  K,                (* partitions_per_dimension                            *)
  Rounding,         (* error of the grid arithmetic, in steps              *)
  Score,            (* OutlierScorer::score_of each row; 0 at the mean     *)
  Budgets           (* outlier budgets, in rows; 0 disables the index      *)

ASSUME PrebuiltAssumption ==
  /\ Substrates \subseteq {"adaptive_kd", "static_kd", "grid_akd"}
  /\ K \in Nat \ {0} /\ Rounding \in Nat
  /\ Score \in [RowIds -> Nat]
  /\ Budgets \subseteq Nat
  /\ N > 0
  /\ Flagged = {}                   \* nothing is held out before the scorer ran

VARIABLES
  substrate,        (* the access path in use                              *)
  persist,          (* summaries persist, so a prebuilt index fills them   *)
  budget,           (* rows the outlier index may hold                     *)
  phase,            (* where initialize() stands                           *)
  splits,           (* static build: ranges still to split, with their axis*)
  edge, threshold,  (* grid: per axis, tile edges and cell thresholds      *)
  owner,            (* grid: owner_, the tile of each row                  *)
  swept,            (* rows the sweep has passed                           *)
  acc,              (* the sweep's moments per partition: rows folded in   *)
  heap,             (* OutlierScorer::heap_                                *)
  summary,          (* the summaries stored, by partition                  *)
  flagged           (* the rows finalize() returned                        *)

configVars   == <<substrate, persist, budget, edge, threshold>>
sweepVars    == <<swept, acc, heap>>
prebuiltVars == <<crackVars, configVars, phase, splits, owner, sweepVars, summary,
                  flagged>>

NoRows    == [r \in RowIds |-> 0]
Prebuilt  == substrate \in {"static_kd", "grid_akd"}
Eager     == persist /\ Prebuilt
-----------------------------------------------------------------------------
(* Grid arithmetic.                                                        *)

Cells     == 0 .. K - 1
TilesOver[axes \in 0 .. Dims] == IF axes = 0 THEN 1 ELSE TilesOver[axes - 1] * K
TileCount == TilesOver[Dims]
Tiles     == 1 .. TileCount

\* Where lo + i * width may come out: near its exact place, and in order.
Rounded(a) ==
  LET low  == RootBounds.low[a]
      span == RootBounds.high[a] - low
      Near(i, v) == /\ K * (v - low) <= i * span + K * Rounding
                    /\ K * (v - low) >= i * span - K * Rounding
  IN  {f \in [1 .. K - 1 -> low .. RootBounds.high[a]] :
         /\ \A i \in DOMAIN f : Near(i, f[i])
         /\ \A i, j \in DOMAIN f : i <= j => f[i] <= f[j]}
RoundedAxes == {f \in [Axes -> UNION {Rounded(a) : a \in Axes}] :
                  \A a \in Axes : f[a] \in Rounded(a)}

ExactAxes == [a \in Axes |-> [i \in 1 .. K - 1 |->
  RootBounds.low[a] + (i * (RootBounds.high[a] - RootBounds.low[a])) \div K]]

\* cell_index: the cells are counted by where the value lies, clamped to the grid.
CellOf(a, v) == Cardinality({i \in 1 .. K - 1 : threshold[a][i] <= v})

Flatten(idx) ==
  LET flat[a \in 0 .. Dims] == IF a = 0 THEN 0 ELSE flat[a - 1] * K + idx[a]
  IN  flat[Dims]
TileIndex(c) == [a \in Axes |-> (c \div TilesOver[Dims - a]) % K]
TileOfRow(r) == Flatten([a \in Axes |-> CellOf(a, Point[r][a])])
\* Mutant: the id of the root is forgotten.
MutTileId(c) == c
TileId(c)    == 1 + c

TileBounds(c) ==
  LET idx == TileIndex(c)
  IN  [low  |-> [a \in Axes |-> IF idx[a] = 0 THEN RootBounds.low[a]
                                ELSE edge[a][idx[a]]],
       high |-> [a \in Axes |-> IF idx[a] = K - 1 THEN RootBounds.high[a]
                                ELSE edge[a][idx[a] + 1]]]

\* Mutant: the last cell the query reaches is left out.
MutRouted(q) == {TileId(Flatten(idx)) : idx \in {idx \in [Axes -> Cells] :
  \A a \in Axes : CellOf(a, q.low[a]) <= idx[a] /\ idx[a] < CellOf(a, q.high[a])}}
\* overlapping_children of the root: the cells between those of the query's corners.
Routed(q) == {TileId(Flatten(idx)) : idx \in {idx \in [Axes -> Cells] :
  \A a \in Axes : CellOf(a, q.low[a]) <= idx[a] /\ idx[a] <= CellOf(a, q.high[a])}}
-----------------------------------------------------------------------------
PrebuiltInit ==
  /\ CrackInit
  /\ substrate \in Substrates /\ persist \in BOOLEAN /\ budget \in Budgets
  /\ edge \in RoundedAxes /\ threshold \in RoundedAxes
  /\ substrate # "grid_akd" => edge = ExactAxes /\ threshold = ExactAxes
  /\ phase = "build"
  /\ splits = IF substrate = "static_kd" THEN <<[id |-> 0, axis |-> 1]>> ELSE <<>>
  /\ owner = <<>>
  /\ swept = 0 /\ acc = [i \in {0} |-> NoRows] /\ heap = {}
  /\ summary = <<>>
  /\ flagged = {}

\* StaticKdAccessPath::median_value: the coordinate of rank n / 2 on the axis.
Median(i, axis) ==
  LET at(v) == {p \in PositionsOf(i) : pointAt[p][axis] < v}
      upTo(v) == {p \in PositionsOf(i) : pointAt[p][axis] <= v}
  IN  CHOOSE v \in {pointAt[p][axis] : p \in PositionsOf(i)} :
        Cardinality(at(v)) <= Population(i) \div 2 /\ Population(i) \div 2 < Cardinality(upTo(v))

NextAxis(axis) == (axis % Dims) + 1

\* StaticKdAccessPath::build, the recursion kept on a stack.  A range is left a
\* leaf when it is small enough, or when no coordinate is below the median.
StopSplitting ==
  /\ phase = "build" /\ splits # <<>>
  /\ Population(Head(splits).id) <= MaxPopulation
  /\ splits' = Tail(splits)
  /\ UNCHANGED <<crackVars, configVars, phase, owner, sweepVars, summary, flagged>>

SplitAtMedian ==
  /\ phase = "build" /\ splits # <<>>
  /\ LET i     == Head(splits).id
         axis  == Head(splits).axis
         pivot == Median(i, axis)
     IN  /\ Population(i) > MaxPopulation
         /\ PartitionRange(i, axis, pivot)
         /\ \/ /\ CutSucceeds(i, axis, pivot)
               /\ AddChildren(i, axis, pivot)
               /\ splits' = <<[id |-> nodeCount, axis |-> NextAxis(axis)],
                              [id |-> nodeCount + 1, axis |-> NextAxis(axis)]>>
                            \o Tail(splits)
            \/ /\ ~CutSucceeds(i, axis, pivot)
               /\ splits' = Tail(splits)
               /\ UNCHANGED treeVars
  /\ UNCHANGED <<crack, configVars, phase, owner, sweepVars, summary, flagged>>

\* The counting sort of the table by tile, stable within a tile, whether the rows
\* come from the prepared table (reorder_by_key) or from the store
\* (scatter_grouped_from_reader).
InTile(c)  == {r \in RowIds : TileOfRow(r) = c}
Offset(c)  == Cardinality({r \in RowIds : TileOfRow(r) < c})
\* Mutant: every row of a tile starts from the tile's first slot.
MutSlotOf(r) == Offset(TileOfRow(r))
SlotOf(r)    == Offset(TileOfRow(r))
              + Cardinality({s \in InTile(TileOfRow(r)) : s < r})
RowFor(p)  == IF \E r \in RowIds : SlotOf(r) = p
              THEN CHOOSE r \in RowIds : SlotOf(r) = p ELSE 0

\* A parent over the whole table, retired, and one leaf per rectangle; the links of
\* the binary tree stay unset.
ResetWithChildren(root, bounds, begin) ==
  LET count == Len(bounds)
  IN  /\ nodeCount' = 1 + count
      /\ nodes' = [i \in 0 .. count |->
           [bounds |-> IF i = 0 THEN root ELSE bounds[i],
            begin  |-> IF i = 0 THEN 0 ELSE begin[i],
            end    |-> IF i \in {0, count} THEN N ELSE begin[i + 1],
            leaf   |-> i # 0, left |-> 0, right |-> 0]]

BuildGrid ==
  /\ phase = "build" /\ substrate = "grid_akd" /\ owner = <<>>
  /\ rowAt'   = [p \in Positions |-> RowFor(p)]
  /\ pointAt' = [p \in Positions |-> Point[RowFor(p)]]
  /\ flagAt'  = [p \in Positions |-> FALSE]
  /\ ResetWithChildren(RootBounds, [c \in 1 .. TileCount |-> TileBounds(c - 1)],
                       [c \in 1 .. TileCount |-> Offset(c - 1)])
  /\ owner' = [r \in RowIds |-> TileId(TileOfRow(r))]
  /\ UNCHANGED <<crack, configVars, phase, splits, sweepVars, summary, flagged>>

Built == /\ splits = <<>>
         /\ substrate = "grid_akd" => owner # <<>>

\* make_scorer: there is one when the budget rounds to a row and some mean is not 0.
Scoring == budget > 0

EndBuild ==
  /\ phase = "build" /\ Built
  /\ phase' = IF Eager \/ Scoring THEN "sweep" ELSE "ready"
  /\ acc' = [i \in Ids |-> NoRows]
  /\ UNCHANGED <<crackVars, configVars, splits, owner, swept, heap, summary, flagged>>
-----------------------------------------------------------------------------
(* The sweep: materialize_all_summaries, or run_scoring_sweep alone.       *)

Active == {i \in Ids : nodes[i].leaf}

\* The substrate's own map, or one derived from the ranges.
OwnerOf(r) == IF substrate = "grid_akd" THEN owner[r]
              ELSE CHOOSE i \in Active : r \in RowsOf(i)

Lowest(S)  == {r \in S : \A s \in S : Score[r] <= Score[s]}
\* Mutant: a full heap lets every row with a score in.
MutDisplaces(r, low) == TRUE
Displaces(r, low)    == Score[r] > Score[low]

\* OutlierScorer::observe: a bounded heap whose front is one of the lowest.
Observe(r) ==
  \/ /\ budget = 0 \/ Score[r] = 0
     /\ heap' = heap
  \/ /\ Score[r] > 0 /\ Cardinality(heap) < budget
     /\ heap' = heap \union {r}
  \/ /\ Score[r] > 0 /\ budget > 0 /\ Cardinality(heap) = budget
     /\ \E low \in Lowest(heap) :
          heap' = IF Displaces(r, low) THEN (heap \ {low}) \union {r} ELSE heap

\* One row of the sweep: with summaries to fill, or for its score alone.
MaterializeRow ==
  /\ phase = "sweep" /\ Eager /\ swept \in RowIds
  /\ swept' = swept + 1
  /\ acc' = [acc EXCEPT ![OwnerOf(swept)][swept] = @ + 1]
  /\ Observe(swept)
  /\ UNCHANGED <<crackVars, configVars, phase, splits, owner, summary, flagged>>

ScoreRow ==
  /\ phase = "sweep" /\ ~Eager /\ swept \in RowIds
  /\ swept' = swept + 1
  /\ Observe(swept)
  /\ UNCHANGED <<crackVars, configVars, phase, splits, owner, acc, summary, flagged>>

Exact(population, moments) ==
  [sampledRows |-> population, population |-> population, nonNan |-> moments]

StoreActive ==
  /\ phase = "sweep" /\ swept = N
  /\ phase' = IF Eager THEN "parents" ELSE "flags"
  /\ summary' = IF Eager THEN [i \in Active |-> Exact(Population(i), acc[i])] ELSE summary
  /\ UNCHANGED <<crackVars, configVars, splits, owner, sweepVars, flagged>>

Parent(i) ==
  IF i = 0 THEN {}
  ELSE IF substrate = "grid_akd" /\ i \in Tiles THEN {0}
  ELSE {j \in Ids : i \in {nodes[j].left, nodes[j].right}}
\* Mutant: the moments go up one level only.
MutAncestors == [i \in Ids |-> Parent(i)]
Ancestors ==
  LET up[i \in Ids] == Parent(i) \union UNION {up[j] : j \in Parent(i)} IN up

\* Every active partition's moments are folded into each partition above it.
StoreParents ==
  /\ phase = "parents"
  /\ phase' = "flags"
  /\ LET under(j) == {i \in Active : j \in Ancestors[i]}
         parents  == {j \in Ids : under(j) # {}}
     IN  summary' = [i \in DOMAIN summary \union parents |->
           IF i \in parents
           THEN Exact(SumFunction([j \in under(i) |-> Population(j)]),
                      [r \in RowIds |-> SumFunction([j \in under(i) |-> acc[j][r]])])
           ELSE summary[i]]
  /\ UNCHANGED <<crackVars, configVars, splits, owner, sweepVars, flagged>>

\* set_flags_by_rowid, on the rows the scorer kept.
InstallFlags ==
  /\ phase = "flags"
  /\ phase' = "ready"
  /\ flagged' = heap
  /\ heap' = {}
  /\ flagAt' = [p \in Positions |-> rowAt[p] \in heap]
  /\ UNCHANGED <<pointAt, rowAt, treeVars, crack, configVars, splits, owner, swept,
                 acc, summary>>
-----------------------------------------------------------------------------
\* Queries crack the leaves they cut: any leaf of the adaptive tree, on the grid
\* only those of the tiles the query is routed to, none of the static tree.
Reaches(q, i) ==
  \/ substrate = "adaptive_kd"
  \/ substrate = "grid_akd" /\ (Ancestors[i] \union {i}) \cap Routed(q) # {}

Refine ==
  /\ phase = "ready"
  /\ \/ \E i \in Ids, q \in Queries : Reaches(q, i) /\ BeginRefine(i, q)
     \/ CrackFace
     \/ EndRefine
  /\ UNCHANGED <<configVars, phase, splits, owner, sweepVars, summary, flagged>>

PrebuiltNext ==
  \/ StopSplitting \/ SplitAtMedian \/ BuildGrid \/ EndBuild
  \/ MaterializeRow \/ ScoreRow \/ StoreActive \/ StoreParents \/ InstallFlags
  \/ Refine

PrebuiltSpec == PrebuiltInit /\ [][PrebuiltNext]_prebuiltVars
-----------------------------------------------------------------------------
PrebuiltTypeOK ==
  /\ phase \in {"build", "sweep", "parents", "flags", "ready"}
  /\ owner = <<>> \/ owner \in [RowIds -> Tiles]
  /\ swept \in 0 .. N
  /\ heap \subseteq RowIds /\ Cardinality(heap) <= budget
  /\ DOMAIN acc \subseteq Ids /\ DOMAIN summary \subseteq Ids
  /\ \A i \in DOMAIN summary : summary[i] \in [sampledRows : 0 .. N, population : 0 .. N,
                                              nonNan : [RowIds -> Nat]]

\* However the table was laid out (in file order, by median cuts, by a counting
\* sort into tiles) and cracked since, its columns still describe the same rows,
\* each row once; every position belongs to exactly one active partition; and
\* the flags, scored before and installed after the rows were moved, are on the
\* rows the scorer kept (IndexTable::set_flags_by_rowid).
LayoutSound ==
  /\ IsInjective(rowAt)
  /\ \A p \in Positions : pointAt[p] = Point[rowAt[p]]
  /\ LeavesTile
  /\ phase = "ready" => \A p \in Positions : flagAt[p] = (rowAt[p] \in flagged)

\* A prebuilt index answers from its summaries unread, so once it is ready every
\* partition it was built with, those above the active ones included, has one
\* that holds each of its rows exactly once, and no crack makes it untrue
\* (eager_materialize.cpp: "a complete summary covering its whole sub-tree").
BuiltWith == IF substrate = "grid_akd" THEN {0} \union Tiles ELSE Ids
EagerSummariesExact ==
  phase = "ready" /\ Eager =>
    /\ BuiltWith \subseteq DOMAIN summary
    /\ \A i \in DOMAIN summary :
         summary[i] = Exact(Population(i), [r \in RowIds |-> IF r \in RowsOf(i) THEN 1 ELSE 0])

\* A query is routed, by arithmetic alone, to every tile that holds a row it
\* selects, however the cell boundaries were rounded: a descent that visits only
\* those tiles misses nothing (GridAkdAccessPath::overlapping_children).
RoutesEveryRow ==
  owner # <<>> => \A q \in Queries, r \in RowIds :
    ContainsPoint(q, Point[r]) => owner[r] \in Routed(q)

\* The one-pass bounded heap holds out the rows of highest score: as many as the
\* budget allows, none of those at the mean, and no row left in the samples
\* outscores one held out, whatever the order and the ties of the scores.
Scored == {r \in RowIds : Score[r] > 0}
HoldsOutTheTop ==
  phase = "ready" /\ budget > 0 =>
    /\ flagged \subseteq Scored
    /\ Cardinality(flagged) = Min({budget, Cardinality(Scored)})
    /\ \A r \in RowIds \ flagged, f \in flagged : Score[r] <= Score[f]

\* What a node is (kd_tree.hpp: "A node owns a contiguous [begin, end) slice of the
\* table and a spatial bounding rectangle"), for the tiles of a grid: a row lies
\* within the bounds of its tile.  cell_index divides, tile_bounds multiplies, and
\* the two round apart.
TilesEncloseRows ==
  owner # <<>> => \A r \in RowIds : ContainsPoint(nodes[owner[r]].bounds, Point[r])
-----------------------------------------------------------------------------
(* The invariant these follow from.                                        *)

ConfigSound ==
  /\ substrate \in Substrates /\ persist \in BOOLEAN /\ budget \in Budgets
  /\ edge \in RoundedAxes /\ threshold \in RoundedAxes

\* The partitions are contiguous ranges; the active ones share out the table, and
\* a crack trims one of them.
PartitionsSound ==
  /\ CrackTypeOK /\ Ranges /\ Covered /\ Nested
  /\ PositionsOf(0) = Positions
  /\ phase # "ready" => crack = NoCrack
  /\ crack.on => nodes[crack.at].leaf /\ substrate # "static_kd"

RowsAligned ==
  /\ IsInjective(rowAt)
  /\ \A p \in Positions : pointAt[p] = Point[rowAt[p]]

\* No row is held out until the flags are installed, and those last.
FlagsSound ==
  /\ phase # "ready" => flagged = {} /\ \A p \in Positions : ~flagAt[p]
  /\ \A p \in Positions : flagAt[p] = (rowAt[p] \in flagged)

\* The ranges still to split are active partitions, each waiting once.
BuildSound ==
  /\ splits \in Seq([id : Nat, axis : Axes])
  /\ splits # <<>> => phase = "build" /\ substrate = "static_kd"
  /\ \A k \in DOMAIN splits : splits[k].id \in Ids /\ nodes[splits[k].id].leaf
  /\ \A k, l \in DOMAIN splits : k # l => splits[k].id # splits[l].id

\* A partition of the median tree comes before its children, which share its range,
\* and has rows if it has children.
LinksSound ==
  phase # "ready" /\ substrate # "grid_akd" => \A i \in Ids :
    LET n == nodes[i]
    IN  IF n.leaf THEN n.left = 0 /\ n.right = 0
        ELSE /\ n.left \in Ids /\ n.right \in Ids /\ n.left > i /\ n.right > i
             /\ PositionsOf(n.left) \union PositionsOf(n.right) = PositionsOf(i)
             /\ PositionsOf(i) # {}

\* The tiles of the grid hold the rows the arithmetic gives them.
GridSound ==
  /\ substrate = "grid_akd" /\ phase # "build" => owner # <<>>
  /\ owner # <<>> =>
       /\ substrate = "grid_akd"
       /\ owner = [r \in RowIds |-> TileId(TileOfRow(r))]
       /\ Tiles \subseteq Ids
       /\ \A i \in Tiles : RowsOf(i) = {r \in RowIds : owner[r] = i}
       /\ phase # "ready" => /\ Ids = {0} \union Tiles /\ ~nodes[0].leaf
                             /\ \A i \in Tiles : nodes[i].leaf

\* The rows the sweep has passed have been folded in where they belong, and those
\* of highest score among them are in the heap.
Highest(kept, rows) ==
  /\ kept \subseteq rows
  /\ Cardinality(kept) = Min({budget, Cardinality(rows)})
  /\ \A r \in rows \ kept, k \in kept : Score[r] <= Score[k]
SweepSound ==
  /\ phase = "build" => swept = 0 /\ DOMAIN acc = {0}
  /\ swept \in 0 .. N /\ (phase \in {"parents", "flags"} => swept = N)
  /\ phase # "ready" => Highest(heap, {r \in Scored : r < swept})
  /\ phase = "ready" => heap = {} /\ (budget > 0 => Highest(flagged, Scored))
  /\ DOMAIN acc \subseteq Ids
  /\ Eager /\ phase \in {"sweep", "parents"} =>
       acc = [i \in Ids |-> [r \in RowIds |-> IF r < swept /\ i = OwnerOf(r) THEN 1 ELSE 0]]

ExactFor(i) == Exact(Population(i), [r \in RowIds |-> IF r \in RowsOf(i) THEN 1 ELSE 0])
SummariesSound ==
  /\ phase \in {"build", "sweep"} \/ ~Eager => summary = <<>>
  /\ phase = "parents" => Eager /\ DOMAIN summary = Active
  /\ phase \in {"flags", "ready"} /\ Eager => BuiltWith \subseteq DOMAIN summary
  /\ DOMAIN summary \subseteq Ids /\ \A i \in DOMAIN summary : summary[i] = ExactFor(i)

LayoutInv ==
  /\ phase \in {"build", "sweep", "parents", "flags", "ready"}
  /\ ConfigSound /\ PartitionsSound /\ RowsAligned /\ FlagsSound /\ BuildSound /\ GridSound

PrebuiltInv == LayoutInv /\ LinksSound /\ SweepSound /\ SummariesSound
=============================================================================
