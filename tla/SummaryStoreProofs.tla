-------------------------- MODULE SummaryStoreProofs --------------------------
(***************************************************************************)
(* The summaries kept over the index stay true for every table, every set  *)
(* of held-out rows, every query and every order of cracks, draws and      *)
(* folds.                                                                  *)
(*                                                                         *)
(* The argument: a step of the store is a step of the cracking index or    *)
(* leaves the index alone, so whatever KdCrackProofs shows of the index    *)
(* holds here.  In particular a partition's rows never change, and a       *)
(* leaf's never move.  What a slot says is therefore stated of rows        *)
(* (SlotSound), and only the tracker of a live leaf of positions.          *)
(***************************************************************************)
EXTENDS SummaryStore, KdCrackProofs

USE TableAssumption, PresentAssumption
-----------------------------------------------------------------------------
(* Rows and positions.                                                     *)

LEMMA PositionsInTable ==
  ASSUME CrackInv, NEW i \in Ids
  PROVE  /\ PositionsOf(i) \subseteq Positions
         /\ FlaggedIn(i) \subseteq PositionsOf(i)
         /\ RowsOf(i) = RowsAt(PositionsOf(i))
         /\ RowsOf(i) \subseteq RowIds
<1>1. CrackTypeOK /\ Ranges
  BY DEF CrackInv
<1>2. PositionsOf(i) \subseteq Positions
  BY <1>1 DEF CrackTypeOK, Ranges, Node, PositionsOf, Span, Positions
<1> QED
  BY <1>1, <1>2 DEF FlaggedIn, RowsOf, RowsAt, CrackTypeOK

\* Two positions never hold the same row, so a set of positions and the rows
\* found there have the same size and the same set algebra.
LEMMA RowsAtSets ==
  ASSUME CrackInv, NEW P \in SUBSET Positions, NEW Q \in SUBSET Positions
  PROVE  /\ RowsAt(P) \subseteq RowIds
         /\ RowsAt(P \ Q) = RowsAt(P) \ RowsAt(Q)
         /\ RowsAt(P \union Q) = RowsAt(P) \union RowsAt(Q)
         /\ P \cap Q = {} => RowsAt(P) \cap RowsAt(Q) = {}
         /\ P \subseteq Q => RowsAt(P) \subseteq RowsAt(Q)
         /\ P # {} => RowsAt(P) # {}
<1>1. rowAt \in [Positions -> RowIds] /\ \A a, b \in Positions : rowAt[a] = rowAt[b] => a = b
  BY DEF CrackInv, CrackTypeOK, ColumnsAgree, IsInjective
<1> QED
  BY <1>1 DEF RowsAt

LEMMA TableFinite ==
  /\ IsFiniteSet(RowIds) /\ IsFiniteSet(Positions)
  /\ \A S \in SUBSET RowIds : IsFiniteSet(S) /\ Cardinality(S) \in Nat
<1>1. IsFiniteSet(0 .. N - 1)
  <2>1. 0 \in Int /\ N - 1 \in Int
    OBVIOUS
  <2> QED
    BY ONLY <2>1, FS_Interval
<1> QED
  BY <1>1, FS_Subset, FS_CardinalityType DEF RowIds, Positions

LEMMA RowsAtCount ==
  ASSUME CrackInv, NEW P \in SUBSET Positions
  PROVE  Cardinality(RowsAt(P)) = Cardinality(P)
<1>1. rowAt \in [Positions -> RowIds] /\ \A a, b \in Positions : rowAt[a] = rowAt[b] => a = b
  BY DEF CrackInv, CrackTypeOK, ColumnsAgree, IsInjective
<1> DEFINE f == [p \in P |-> rowAt[p]]
<1>2. f \in Bijection(P, RowsAt(P))
  BY <1>1 DEF Bijection, Injection, Surjection, IsInjective, RowsAt
<1>3. IsFiniteSet(P)
  BY TableFinite, FS_Subset
<1> QED
  BY <1>2, <1>3, FS_Bijection DEF ExistsBijection

LEMMA PartitionCount ==
  ASSUME CrackInv, NEW i \in Ids
  PROVE  /\ Cardinality(RowsOf(i)) = Population(i)
         /\ RowsAt(FlaggedIn(i)) = HeldOut(i)
         /\ Cardinality(FlaggedIn(i)) = Cardinality(HeldOut(i))
         /\ Cardinality(RowsOf(i) \ Flagged) = Population(i) - Cardinality(HeldOut(i))
         /\ Population(i) \in Nat
<1>1. /\ nodes[i].begin \in Nat /\ nodes[i].end \in Nat
      /\ nodes[i].begin <= nodes[i].end
  BY DEF CrackInv, CrackTypeOK, Ranges, Node
<1>2. Cardinality(PositionsOf(i)) = Population(i)
  <2>1. nodes[i].begin \in Int /\ nodes[i].end - 1 \in Int
    BY <1>1
  <2>2. Cardinality(nodes[i].begin .. nodes[i].end - 1)
          = IF nodes[i].begin > nodes[i].end - 1 THEN 0
            ELSE nodes[i].end - 1 - nodes[i].begin + 1
    BY ONLY <2>1, FS_Interval
  <2> QED
    BY <1>1, <2>2 DEF PositionsOf, Span, Population
<1>3. Cardinality(RowsOf(i)) = Population(i)
  BY <1>2, RowsAtCount, PositionsInTable
<1>4. RowsAt(FlaggedIn(i)) = HeldOut(i)
  <2>1. \A p \in PositionsOf(i) : flagAt[p] = (rowAt[p] \in Flagged)
    BY PositionsInTable DEF CrackInv, ColumnsAgree
  <2> QED
    BY <2>1 DEF FlaggedIn, RowsAt, HeldOut, RowsOf
<1>5. Cardinality(FlaggedIn(i)) = Cardinality(HeldOut(i))
  <2>1. FlaggedIn(i) \subseteq Positions
    BY PositionsInTable
  <2> QED
    BY <2>1, <1>4, RowsAtCount
<1>6. Cardinality(RowsOf(i) \ Flagged) = Cardinality(RowsOf(i)) - Cardinality(HeldOut(i))
  <2>1. IsFiniteSet(RowsOf(i))
    BY PositionsInTable, TableFinite
  <2> QED
    BY <2>1, FS_Difference DEF HeldOut
<1> QED
  BY <1>1, <1>3, <1>4, <1>5, <1>6 DEF Population

\* The same as an implication, which holds of the next state too.
LEMMA PartitionCounts ==
  CrackInv => \A i \in Ids :
    /\ Cardinality(RowsOf(i)) = Population(i)
    /\ RowsAt(FlaggedIn(i)) = HeldOut(i)
    /\ Cardinality(FlaggedIn(i)) = Cardinality(HeldOut(i))
    /\ Cardinality(RowsOf(i) \ Flagged) = Population(i) - Cardinality(HeldOut(i))
    /\ Population(i) \in Nat
BY PartitionCount

\* What a step of the index leaves of a partition.
LEMMA StepKeepsPartition ==
  ASSUME CrackInv, CrackInv', [CrackNext]_crackVars, NEW j \in Ids
  PROVE  /\ j \in Ids'
         /\ RowsOf(j)' = RowsOf(j) /\ HeldOut(j)' = HeldOut(j)
         /\ Population(j)' = Population(j)
         /\ RowsAt(FlaggedIn(j))' = RowsAt(FlaggedIn(j))
         /\ nodes'[j].leaf =>
              /\ nodes[j].leaf
              /\ PositionsOf(j)' = PositionsOf(j) /\ FlaggedIn(j)' = FlaggedIn(j)
              /\ \A P \in SUBSET PositionsOf(j) : RowsAt(P)' = RowsAt(P)
<1>1. /\ j \in Ids' /\ PositionsOf(j)' = PositionsOf(j) /\ RowsOf(j)' = RowsOf(j)
      /\ nodes'[j].leaf => nodes[j].leaf
      /\ nodes[j].leaf /\ nodes'[j].leaf => \A p \in PositionsOf(j) : rowAt'[p] = rowAt[p]
  BY StepKeepsRows
<1>2. HeldOut(j)' = HeldOut(j)
  BY <1>1 DEF HeldOut
<1>3. /\ Population(j)' = Cardinality(RowsOf(j)') /\ Population(j) = Cardinality(RowsOf(j))
      /\ RowsAt(FlaggedIn(j))' = HeldOut(j)' /\ RowsAt(FlaggedIn(j)) = HeldOut(j)
  <2>1. (CrackInv => \A i \in Ids :
           /\ Cardinality(RowsOf(i)) = Population(i)
           /\ RowsAt(FlaggedIn(i)) = HeldOut(i)
           /\ Cardinality(FlaggedIn(i)) = Cardinality(HeldOut(i))
           /\ Cardinality(RowsOf(i) \ Flagged) = Population(i) - Cardinality(HeldOut(i))
           /\ Population(i) \in Nat)'
    BY PartitionCounts, PTL
  <2> QED
    BY <1>1, <2>1, PartitionCount
<1>4. ASSUME nodes'[j].leaf
      PROVE  /\ FlaggedIn(j)' = FlaggedIn(j)
             /\ \A P \in SUBSET PositionsOf(j) : RowsAt(P)' = RowsAt(P)
  <2>1. \A p \in PositionsOf(j) : rowAt'[p] = rowAt[p]
    BY <1>1, <1>4
  <2>2. \A p \in PositionsOf(j) : flagAt'[p] = flagAt[p]
    <3>1. PositionsOf(j) \subseteq Positions
      BY PositionsInTable
    <3> QED
      BY <2>1, <3>1 DEF CrackInv, ColumnsAgree, Positions
  <2>3. FlaggedIn(j)' = FlaggedIn(j)
    BY <1>1, <2>2 DEF FlaggedIn
  <2> QED
    BY <2>1, <2>3 DEF RowsAt
<1> QED
  BY <1>1, <1>2, <1>3, <1>4

\* What a step that touches neither the table nor the tree leaves of it.
LEMMA SameIndex ==
  ASSUME UNCHANGED <<tableVars, treeVars>>
  PROVE  /\ nodes' = nodes /\ rowAt' = rowAt /\ Ids' = Ids
         /\ \A i : /\ PositionsOf(i)' = PositionsOf(i) /\ RowsOf(i)' = RowsOf(i)
                   /\ HeldOut(i)' = HeldOut(i) /\ FlaggedIn(i)' = FlaggedIn(i)
                   /\ Population(i)' = Population(i)
         /\ \A P : RowsAt(P)' = RowsAt(P)
BY DEF tableVars, treeVars, Ids, PositionsOf, Span, RowsOf, HeldOut, FlaggedIn, Population,
       RowsAt
-----------------------------------------------------------------------------
(* Slots and cursors.                                                      *)

LEMMA EmptySlotSound ==
  /\ EmptyBag \in RowBag /\ EmptyBag = Indicator({})
  /\ EmptySlot \in Slot
  /\ [EmptySlot EXCEPT !.current = FALSE] \in Slot
  /\ \A s \in {EmptySlot, [EmptySlot EXCEPT !.current = FALSE]} :
       /\ s.tracker = {} /\ s.population = 0 /\ s.sampledRows = 0 /\ s.nonNan = EmptyBag
       /\ s.outlierRows = 0 /\ s.outlierBank = EmptyBag /\ ~s.materialized
<1>1. EmptyBag \in RowBag /\ EmptyBag = Indicator({})
  BY DEF EmptyBag, RowBag, Indicator
<1>2. EmptySlot \in Slot
  BY <1>1 DEF EmptySlot, Slot
<1>3. [EmptySlot EXCEPT !.current = FALSE] \in Slot
  BY <1>2 DEF Slot
<1>4. LET s == [EmptySlot EXCEPT !.current = FALSE]
      IN  /\ s.tracker = EmptySlot.tracker /\ s.population = EmptySlot.population
          /\ s.sampledRows = EmptySlot.sampledRows /\ s.nonNan = EmptySlot.nonNan
          /\ s.outlierRows = EmptySlot.outlierRows
          /\ s.outlierBank = EmptySlot.outlierBank
          /\ s.materialized = EmptySlot.materialized
  BY <1>2 DEF Slot
<1>5. /\ EmptySlot.tracker = {} /\ EmptySlot.population = 0 /\ EmptySlot.sampledRows = 0
      /\ EmptySlot.nonNan = EmptyBag /\ EmptySlot.outlierRows = 0
      /\ EmptySlot.outlierBank = EmptyBag /\ ~EmptySlot.materialized
  BY DEF EmptySlot
<1> QED
  BY <1>1, <1>2, <1>3, <1>4, <1>5

LEMMA MergedBag ==
  ASSUME NEW A \in SUBSET RowIds, NEW B \in SUBSET RowIds, A \cap B = {}
  PROVE  Merged(Indicator(A \cap Present), B) = Indicator((A \union B) \cap Present)
BY DEF Merged, Indicator

LEMMA MergedNothing ==
  ASSUME NEW bag \in RowBag
  PROVE  Merged(bag, {}) = bag
BY DEF Merged, RowBag

\* The rows in flight for a partition: its leaf's, and all its held-out rows or none.
LEMMA RowsInFlight ==
  ASSUME IndexInv, NEW i \in Ids
  PROVE  /\ RowsOfCursors(i, FALSE) # {} \/ RowsOfCursors(i, TRUE) # {} =>
              nodes[i].leaf /\ store[i].population > 0
         /\ RowsOfCursors(i, TRUE) # {} =>
              /\ RowsOfCursors(i, TRUE) = HeldOut(i)
              /\ ~store[i].materialized
         /\ RowsOfCursors(i, FALSE) \subseteq RowIds /\ RowsOfCursors(i, TRUE) \subseteq RowIds
<1>1. \A c \in batch : c.rows \subseteq RowIds /\ c.outlier \in BOOLEAN
  BY DEF IndexInv, StoreInv, StoreTypeOK, Cursor
<1> QED
  BY <1>1 DEF IndexInv, StoreInv, BatchSound, RowsOfCursors
\* A slot is retired for good: kept with its moments if exact, emptied if not.
LEMMA RetiredSlot ==
  ASSUME NEW s \in Slot
  PROVE  /\ Retired(s) \in Slot
         /\ Retired(s).tracker = {}
         /\ Complete(s) =>
              /\ Retired(s).population = s.population
              /\ Retired(s).sampledRows = s.sampledRows
              /\ Retired(s).nonNan = s.nonNan /\ Retired(s).outlierRows = s.outlierRows
              /\ Retired(s).outlierBank = s.outlierBank
              /\ Retired(s).materialized = s.materialized
         /\ ~Complete(s) => Retired(s) = [EmptySlot EXCEPT !.current = FALSE]
<1>1. CASE Complete(s)
  BY <1>1 DEF Retired, Slot
<1>2. CASE ~Complete(s)
  BY <1>2, EmptySlotSound DEF Retired
<1> QED
  BY <1>1, <1>2
-----------------------------------------------------------------------------
(* The invariant, action by action.                                        *)

\* A crack notes what it splits.
LEMMA CrackFaceRetires ==
  ASSUME CrackInv, CrackFace
  PROVE  \/ crack'.retired = crack.retired
         \/ /\ crack'.retired = crack.retired \union {crack.at}
            /\ ~nodes'[crack.at].leaf
<1> DEFINE i     == crack.at
           axis  == Axis(crack.face)
           pivot == Pivot(crack.q, crack.face)
<1>1. crack \in Crack
  BY DEF CrackInv, CrackTypeOK
<1>2. i \in Ids /\ axis \in Axes /\ pivot \in Int /\ nodes[i].leaf
  BY CrackTypes DEF CrackFace
<1>3. CASE CutSucceeds(i, axis, pivot) /\ AddChildren(i, axis, pivot)
           /\ crack' = [crack EXCEPT !.at = Toward(crack.face), !.face = @ + 1,
                                     !.retired = @ \union {i}]
  BY <1>1, <1>2, <1>3, TreeAfterCut DEF Crack
<1>4. CASE crack' = [crack EXCEPT !.face = @ + 1]
  BY <1>1, <1>4 DEF Crack
<1> QED
  BY <1>3, <1>4 DEF CrackFace, SplitAtFace

\* Between rounds a crack moves rows; slots speak of sets of rows, and the leaves
\* that stay leaves keep theirs in place.
LEMMA CrackOneFacePreserves ==
  ASSUME IndexInv, CrackOneFace
  PROVE  IndexInv'
<1>1. /\ CrackInv /\ StoreTypeOK /\ TrackerMatchesSample /\ BankedOnce
      /\ BatchSound /\ \A j \in Ids : SlotSound(j)
  BY DEF IndexInv, StoreInv
<1>2. CrackFace /\ GrowStore /\ batch' = batch
  BY DEF CrackOneFace
<1>3. CrackInv'
  BY <1>1, <1>2, CrackFacePreserves
<1>4. [CrackNext]_crackVars
  BY <1>2 DEF CrackNext
<1>5. batch = {} /\ batch' = {}
  BY <1>1, <1>2 DEF BatchSound, CrackFace
<1>6. \A j \in Ids' : store'[j] = IF j \in Ids THEN store[j] ELSE EmptySlot
  BY <1>2 DEF GrowStore, Ids
<1>7. \A j \in Ids :
        /\ j \in Ids' /\ RowsOf(j)' = RowsOf(j) /\ HeldOut(j)' = HeldOut(j)
        /\ Population(j)' = Population(j)
        /\ RowsAt(FlaggedIn(j))' = RowsAt(FlaggedIn(j))
        /\ nodes'[j].leaf => /\ nodes[j].leaf
                             /\ PositionsOf(j)' = PositionsOf(j)
                             /\ FlaggedIn(j)' = FlaggedIn(j)
                             /\ \A P \in SUBSET PositionsOf(j) : RowsAt(P)' = RowsAt(P)
  BY <1>1, <1>3, <1>4, StepKeepsPartition
<1>8. StoreTypeOK'
  <2>1. store' = [j \in Ids' |-> store'[j]]
    BY <1>2 DEF GrowStore, Ids
  <2>2. \A j \in Ids' : store'[j] \in Slot
    BY <1>1, <1>6, EmptySlotSound DEF StoreTypeOK
  <2> QED
    BY <2>1, <2>2, <1>5 DEF StoreTypeOK
<1>9. \A j : RowsOfCursors(j, FALSE) = {} /\ RowsOfCursors(j, FALSE)' = {}
  BY <1>5 DEF RowsOfCursors
<1>10. TrackerMatchesSample'
  <2> SUFFICES ASSUME NEW j \in Ids', nodes'[j].leaf
               PROVE  SampleTracked(j)'
    BY DEF TrackerMatchesSample
  <2> DEFINE t == store'[j].tracker
  <2>1. CASE j \in Ids
    <3>1. store'[j] = store[j] /\ nodes[j].leaf
      BY <2>1, <1>6, <1>7
    <3>2. /\ t \subseteq PositionsOf(j) \ FlaggedIn(j)
          /\ store'[j].sampledRows = Cardinality(RowsAt(t))
          /\ store'[j].nonNan = Indicator(RowsAt(t) \cap Present)
      BY <2>1, <3>1, <1>1, <1>9 DEF TrackerMatchesSample, SampleTracked
    <3>3. {rowAt'[p] : p \in t} = RowsAt(t)
      BY <2>1, <3>2, <1>7 DEF RowsAt
    <3> QED
      BY <2>1, <3>2, <3>3, <1>7, <1>9 DEF SampleTracked, RowsAt
  <2>2. CASE j \notin Ids
    <3>1. /\ t = {} /\ store'[j].sampledRows = 0
          /\ store'[j].nonNan = Indicator({})
      BY <2>2, <1>6, EmptySlotSound
    <3>2. {rowAt'[p] : p \in {}} = {} /\ Cardinality({}) = 0
      BY FS_EmptySet
    <3> QED
      BY <3>1, <3>2, <1>9 DEF SampleTracked, RowsAt
  <2> QED
    BY <2>1, <2>2
<1>11. BankedOnce'
  <2> SUFFICES ASSUME NEW j \in Ids'
               PROVE  store'[j].outlierBank =
                        Indicator(IF store'[j].materialized
                                  THEN RowsAt(FlaggedIn(j))' \cap Present ELSE {})
    BY DEF BankedOnce
  <2>1. CASE j \in Ids
    BY <2>1, <1>1, <1>6, <1>7 DEF BankedOnce
  <2>2. CASE j \notin Ids
    BY <2>2, <1>6, EmptySlotSound
  <2> QED
    BY <2>1, <2>2
<1>12. ASSUME NEW j \in Ids' PROVE SlotSound(j)'
  <2>1. CASE j \in Ids
    <3>1. SlotSound(j)
      BY <2>1, <1>1
    <3> QED
      BY <2>1, <3>1, <1>6, <1>7 DEF SlotSound
  <2>2. CASE j \notin Ids
    <3>1. /\ store'[j].tracker = {} /\ store'[j].population = 0
          /\ store'[j].sampledRows = 0 /\ store'[j].nonNan = EmptyBag
          /\ store'[j].outlierRows = 0 /\ ~store'[j].materialized
      BY <2>2, <1>6, EmptySlotSound
    <3>2. /\ {} \in SUBSET (RowsOf(j)' \ Flagged)
          /\ Cardinality({}) = 0 /\ EmptyBag = Indicator({} \cap Present)
      BY FS_EmptySet, EmptySlotSound
    <3>3. \E sample \in SUBSET (RowsOf(j)' \ Flagged) :
            /\ store'[j].sampledRows = Cardinality(sample)
            /\ store'[j].nonNan = Indicator(sample \cap Present)
      BY <3>1, <3>2
    <3>4. ~(store'[j].population > 0)
      BY <3>1
    <3> QED
      BY <3>1, <3>3, <3>4 DEF SlotSound
  <2> QED
    BY <2>1, <2>2
<1>13. BatchSound'
  BY <1>5 DEF BatchSound
<1>14. RetiredAreSplit'
  <2>1. RetiredAreSplit /\ crack.retired \subseteq Ids
    BY <1>1 DEF IndexInv, StoreInv, CrackInv, CrackTypeOK
  <2>2. \A j \in crack.retired : ~nodes'[j].leaf
    BY <2>1, <1>7 DEF RetiredAreSplit
  <2>3. crack'.retired = crack.retired \/ /\ crack'.retired = crack.retired \union {crack.at}
                                          /\ ~nodes'[crack.at].leaf
    BY <1>1, <1>2, CrackFaceRetires
  <2> QED
    BY <2>2, <2>3 DEF RetiredAreSplit
<1> QED
  BY <1>3, <1>8, <1>10, <1>11, <1>12, <1>13, <1>14 DEF IndexInv, StoreInv

LEMMA RetireSplitPreserves ==
  ASSUME IndexInv, RetireSplit
  PROVE  IndexInv'
<1>1. /\ CrackInv /\ StoreTypeOK /\ TrackerMatchesSample /\ BankedOnce /\ RetiredAreSplit
      /\ BatchSound /\ \A j \in Ids : SlotSound(j)
  BY DEF IndexInv, StoreInv
<1>2. EndRefine /\ batch' = batch
  BY DEF RetireSplit
<1>3. CrackInv'
  BY <1>1, <1>2, RefinePreserves
<1>4. batch = {} /\ batch' = {}
  BY <1>1, <1>2 DEF BatchSound, EndRefine
<1>5. UNCHANGED <<tableVars, treeVars>> /\ crack' = NoCrack
  BY <1>2 DEF EndRefine
<1>6. /\ store' = [j \in Ids |-> store'[j]]
      /\ \A j \in Ids : store'[j] = IF j \in crack.retired THEN Retired(store[j]) ELSE store[j]
  BY DEF RetireSplit
<1>7. \A j \in Ids : store[j] \in Slot
  BY <1>1 DEF StoreTypeOK
<1>8. \A j \in Ids :
        \/ store'[j] = store[j]
        \/ /\ j \in crack.retired /\ Complete(store[j])
           /\ store'[j].population = store[j].population /\ store'[j].tracker = {}
           /\ store'[j].sampledRows = store[j].sampledRows
           /\ store'[j].nonNan = store[j].nonNan
           /\ store'[j].outlierRows = store[j].outlierRows
           /\ store'[j].outlierBank = store[j].outlierBank
           /\ store'[j].materialized = store[j].materialized
        \/ j \in crack.retired /\ store'[j] = [EmptySlot EXCEPT !.current = FALSE]
  BY <1>6, <1>7, RetiredSlot
<1>9. StoreTypeOK'
  <2>1. \A j \in Ids : store'[j] \in Slot
    BY <1>6, <1>7, RetiredSlot
  <2>2. store' \in [Ids -> Slot]
    BY <2>1, <1>6
  <2> QED
    BY <2>2, <1>4, <1>5, SameIndex DEF StoreTypeOK
<1>10. \A j : RowsOfCursors(j, FALSE) = {} /\ RowsOfCursors(j, FALSE)' = {}
  BY <1>4 DEF RowsOfCursors
<1>11. TrackerMatchesSample'
  <2> SUFFICES ASSUME NEW j \in Ids, nodes[j].leaf
               PROVE  SampleTracked(j)'
    BY <1>5, SameIndex DEF TrackerMatchesSample
  <2>1. store'[j] = store[j]
    BY <1>1, <1>6 DEF RetiredAreSplit
  <2> QED
    BY <2>1, <1>1, <1>5, <1>10, SameIndex DEF TrackerMatchesSample, SampleTracked
<1>12. BankedOnce'
  <2> SUFFICES ASSUME NEW j \in Ids
               PROVE  store'[j].outlierBank =
                        Indicator(IF store'[j].materialized
                                  THEN RowsAt(FlaggedIn(j)) \cap Present ELSE {})
    BY <1>5, SameIndex DEF BankedOnce
  <2> QED
    BY <1>1, <1>8, EmptySlotSound DEF BankedOnce
<1>13. ASSUME NEW j \in Ids PROVE SlotSound(j)'
  <2>1. SlotSound(j)
    BY <1>1
  <2>2. /\ RowsOf(j)' = RowsOf(j) /\ HeldOut(j)' = HeldOut(j)
        /\ Population(j)' = Population(j)
    BY <1>5, SameIndex
  <2>3. CASE store'[j] = store[j]
    BY <2>1, <2>2, <2>3 DEF SlotSound
  <2>4. CASE /\ Complete(store[j])
             /\ store'[j].population = store[j].population /\ store'[j].tracker = {}
             /\ store'[j].sampledRows = store[j].sampledRows
             /\ store'[j].nonNan = store[j].nonNan
             /\ store'[j].outlierRows = store[j].outlierRows
             /\ store'[j].materialized = store[j].materialized
    BY <2>1, <2>2, <2>4 DEF SlotSound
  <2>5. CASE store'[j] = [EmptySlot EXCEPT !.current = FALSE]
    <3>1. /\ store'[j].tracker = {} /\ store'[j].population = 0
          /\ store'[j].sampledRows = 0 /\ store'[j].nonNan = EmptyBag
          /\ store'[j].outlierRows = 0 /\ ~store'[j].materialized
      BY <2>5, EmptySlotSound
    <3>2. /\ {} \in SUBSET (RowsOf(j)' \ Flagged)
          /\ Cardinality({}) = 0 /\ EmptyBag = Indicator({} \cap Present)
      BY FS_EmptySet, EmptySlotSound
    <3>3. \E sample \in SUBSET (RowsOf(j)' \ Flagged) :
            /\ store'[j].sampledRows = Cardinality(sample)
            /\ store'[j].nonNan = Indicator(sample \cap Present)
      BY <3>1, <3>2
    <3>4. ~(store'[j].population > 0)
      BY <3>1
    <3> QED
      BY <3>1, <3>3, <3>4 DEF SlotSound
  <2> QED
    BY <1>8, <2>3, <2>4, <2>5
<1>14. BatchSound' /\ RetiredAreSplit'
  BY <1>4, <1>5 DEF BatchSound, RetiredAreSplit, NoCrack
<1> QED
  BY <1>3, <1>5, <1>9, <1>11, <1>12, <1>13, <1>14, SameIndex DEF IndexInv, StoreInv

\* Beginning to refine changes no slot, nor does doing nothing; and nothing is wrong
\* when a crack ends without retiring what it split, as it does while summaries are
\* not kept.
LEMMA StoreIdlePreserves ==
  ASSUME IndexInv,
         \/ \E i \in Ids, q \in Queries : RefineLeaf(i, q)
         \/ EndRefine /\ UNCHANGED storeVars
         \/ UNCHANGED indexVars
  PROVE  IndexInv'
<1>1. /\ CrackInv /\ StoreTypeOK /\ TrackerMatchesSample /\ BankedOnce /\ RetiredAreSplit
      /\ BatchSound /\ \A j \in Ids : SlotSound(j)
  BY DEF IndexInv, StoreInv
<1>2. UNCHANGED <<tableVars, treeVars, storeVars>>
  BY DEF RefineLeaf, BeginRefine, EndRefine, indexVars, crackVars
<1>3. CrackInv'
  BY <1>1, RefinePreserves DEF RefineLeaf, indexVars
<1>4. store' = store /\ batch' = batch
  BY <1>2 DEF storeVars
<1>5. \A j : /\ RowsOfCursors(j, FALSE)' = RowsOfCursors(j, FALSE)
             /\ RowsOfCursors(j, TRUE)' = RowsOfCursors(j, TRUE)
  BY <1>4 DEF RowsOfCursors
<1>6. StoreTypeOK' /\ BankedOnce'
  BY <1>1, <1>2, <1>4, SameIndex DEF StoreTypeOK, BankedOnce
<1>7. TrackerMatchesSample'
  BY <1>1, <1>2, <1>4, <1>5, SameIndex DEF TrackerMatchesSample, SampleTracked
<1>8. (\A j \in Ids : SlotSound(j))'
  BY <1>1, <1>2, <1>4, SameIndex DEF SlotSound
<1>9. BatchSound' /\ RetiredAreSplit'
  <2>1. CASE \E i \in Ids, q \in Queries : RefineLeaf(i, q)
    <3>1. batch = {} /\ crack'.retired = {}
      BY <2>1 DEF RefineLeaf, BeginRefine, NoCrack
    <3> QED
      BY <3>1, <1>4 DEF BatchSound, RetiredAreSplit
  <2>2. CASE UNCHANGED indexVars
    <3>1. crack' = crack
      BY <2>2 DEF indexVars, crackVars
    <3> QED
      BY <3>1, <1>1, <1>2, <1>4, SameIndex DEF BatchSound, RetiredAreSplit
  <2>3. CASE EndRefine /\ UNCHANGED storeVars
    <3>1. batch = {} /\ crack'.retired = {}
      BY <2>3, <1>1 DEF EndRefine, NoCrack, BatchSound
    <3> QED
      BY <3>1, <1>4 DEF BatchSound, RetiredAreSplit
  <2> QED
    BY <2>1, <2>2, <2>3
<1> QED
  BY <1>3, <1>6, <1>7, <1>8, <1>9 DEF IndexInv, StoreInv

\* The steps of the store alone leave the index, and CrackInv, as they were.
LEMMA IndexUntouched ==
  ASSUME IndexInv, UNCHANGED crackVars
  PROVE  /\ CrackInv' /\ RetiredAreSplit'
         /\ UNCHANGED <<tableVars, treeVars>> /\ crack' = crack
<1>1. CrackInv'
  BY RefinePreserves DEF IndexInv
<1>2. UNCHANGED <<tableVars, treeVars>> /\ crack' = crack
  BY DEF crackVars
<1> QED
  BY <1>1, <1>2, SameIndex DEF IndexInv, StoreInv, RetiredAreSplit

LEMMA PrepareLeafPreserves ==
  ASSUME IndexInv, NEW i \in Ids, PrepareLeaf(i)
  PROVE  IndexInv'
<1>1. /\ CrackInv /\ StoreTypeOK /\ TrackerMatchesSample /\ BankedOnce
      /\ BatchSound /\ \A j \in Ids : SlotSound(j)
  BY DEF IndexInv, StoreInv
<1>2. UNCHANGED crackVars /\ batch' = batch /\ nodes[i].leaf
  BY DEF PrepareLeaf
<1>3. /\ CrackInv' /\ RetiredAreSplit'
      /\ UNCHANGED <<tableVars, treeVars>> /\ crack' = crack
  BY <1>2, IndexUntouched
<1>4. store \in [Ids -> Slot] /\ store[i] \in Slot
  BY <1>1 DEF StoreTypeOK
<1>5. /\ Population(i) \in Nat /\ Cardinality(FlaggedIn(i)) = Cardinality(HeldOut(i))
      /\ Cardinality(HeldOut(i)) \in Nat
  BY <1>1, PartitionCount, PositionsInTable, TableFinite DEF HeldOut
<1>6. /\ store' \in [Ids -> Slot]
      /\ store'[i].population = IF store[i].population = 0 THEN Population(i)
                                ELSE store[i].population
      /\ store'[i].outlierRows = Cardinality(HeldOut(i))
      /\ store'[i].tracker = store[i].tracker
      /\ store'[i].sampledRows = store[i].sampledRows
      /\ store'[i].nonNan = store[i].nonNan
      /\ store'[i].outlierBank = store[i].outlierBank
      /\ store'[i].materialized = store[i].materialized
      /\ \A j \in Ids \ {i} : store'[j] = store[j]
  BY <1>4, <1>5 DEF PrepareLeaf, Slot
<1>7. StoreTypeOK'
  BY <1>1, <1>2, <1>3, <1>6, SameIndex DEF StoreTypeOK
<1>8. TrackerMatchesSample'
  <2> SUFFICES ASSUME NEW j \in Ids, nodes[j].leaf PROVE SampleTracked(j)'
    BY <1>3, SameIndex DEF TrackerMatchesSample
  <2>1. RowsOfCursors(j, FALSE)' = RowsOfCursors(j, FALSE)
    BY <1>2 DEF RowsOfCursors
  <2>2. /\ store'[j].tracker = store[j].tracker
        /\ store'[j].sampledRows = store[j].sampledRows
        /\ store'[j].nonNan = store[j].nonNan
    BY <1>6
  <2>3. SampleTracked(j)
    BY <1>1 DEF TrackerMatchesSample
  <2>4. /\ RowsAt(store'[j].tracker) = {rowAt'[p] : p \in store'[j].tracker}
        /\ PositionsOf(j)' = PositionsOf(j) /\ FlaggedIn(j)' = FlaggedIn(j)
    BY <1>3, SameIndex DEF RowsAt
  <2> QED
    BY <2>1, <2>2, <2>3, <2>4 DEF SampleTracked, RowsAt
<1>9. BankedOnce'
  BY <1>1, <1>3, <1>6, SameIndex DEF BankedOnce
<1>10. ASSUME NEW j \in Ids PROVE SlotSound(j)'
  <2>1. SlotSound(j)
    BY <1>1
  <2>2. /\ RowsOf(j)' = RowsOf(j) /\ HeldOut(j)' = HeldOut(j)
        /\ Population(j)' = Population(j)
    BY <1>3, SameIndex
  <2>3. CASE j # i
    BY <2>1, <2>2, <2>3, <1>6 DEF SlotSound
  <2>4. CASE j = i
    <3>1. store'[i].population = Population(i)
      BY <2>1, <2>4, <1>6 DEF SlotSound
    \* a partition without rows has none held out
    <3>2. Population(i) = 0 => Cardinality(HeldOut(i)) = 0
      <4>1. IsFiniteSet(RowsOf(i)) /\ HeldOut(i) \subseteq RowsOf(i)
        BY <1>1, PositionsInTable, TableFinite DEF HeldOut
      <4>2. Cardinality(HeldOut(i)) <= Cardinality(RowsOf(i))
        BY <4>1, FS_Subset
      <4>3. Cardinality(RowsOf(i)) = Population(i)
        BY <1>1, PartitionCount
      <4> QED
        BY <4>2, <4>3, <1>5
    <3>3. Population(i) = 0 => store[i].population = 0
      BY <2>1, <2>4 DEF SlotSound
    <3> QED
      BY <2>1, <2>2, <2>4, <3>1, <3>2, <3>3, <1>5, <1>6 DEF SlotSound
  <2> QED
    BY <2>3, <2>4
<1>11. BatchSound'
  <2> SUFFICES ASSUME NEW c \in batch PROVE store'[c.pid].population > 0
                                            /\ store'[c.pid].materialized = store[c.pid].materialized
    BY <1>1, <1>2, <1>3, SameIndex DEF BatchSound
  <2>1. c.pid \in Ids /\ store[c.pid].population > 0
    BY <1>1 DEF BatchSound
  <2> QED
    BY <2>1, <1>6
<1> QED
  BY <1>3, <1>7, <1>8, <1>9, <1>10, <1>11, SameIndex DEF IndexInv, StoreInv

\* A draw marks the rows it will read: what was folded before is still what the
\* tracker holds beside them.
LEMMA DrawReusablePreserves ==
  ASSUME IndexInv, NEW i \in Ids, NEW picks \in SUBSET Eligible(i), DrawReusable(i, picks)
  PROVE  IndexInv'
<1>1. /\ CrackInv /\ StoreTypeOK /\ TrackerMatchesSample /\ BankedOnce
      /\ BatchSound /\ \A j \in Ids : SlotSound(j)
  BY DEF IndexInv, StoreInv
<1>2. /\ UNCHANGED crackVars /\ ~crack.on /\ nodes[i].leaf /\ store[i].population > 0
      /\ \A c \in batch : c.pid # i
      /\ store' = [store EXCEPT ![i].tracker = @ \union picks]
      /\ batch' = batch \union BodyCursor(i, picks) \union OutlierCursor(i)
  BY DEF DrawReusable
<1>3. /\ CrackInv' /\ RetiredAreSplit'
      /\ UNCHANGED <<tableVars, treeVars>> /\ crack' = crack
  BY <1>2, IndexUntouched
<1>4. store \in [Ids -> Slot] /\ store[i] \in Slot /\ i \in Nat
  BY <1>1 DEF StoreTypeOK, Ids
<1>5. /\ picks \subseteq PositionsOf(i) \ FlaggedIn(i) /\ picks \cap store[i].tracker = {}
      /\ PositionsOf(i) \subseteq Positions /\ FlaggedIn(i) \subseteq PositionsOf(i)
      /\ RowsAt(picks) \subseteq RowIds
  BY <1>1, PositionsInTable, RowsAtSets DEF Eligible
<1>6. /\ store' \in [Ids -> Slot]
      /\ store'[i].tracker = store[i].tracker \union picks
      /\ store'[i].population = store[i].population
      /\ store'[i].sampledRows = store[i].sampledRows
      /\ store'[i].nonNan = store[i].nonNan
      /\ store'[i].outlierRows = store[i].outlierRows
      /\ store'[i].outlierBank = store[i].outlierBank
      /\ store'[i].materialized = store[i].materialized
      /\ \A j \in Ids \ {i} : store'[j] = store[j]
  BY <1>2, <1>4, <1>5 DEF Slot
<1>7. /\ RowsAt(FlaggedIn(i)) = HeldOut(i) /\ HeldOut(i) \subseteq RowIds
      /\ RowsAt(FlaggedIn(i)) \subseteq RowIds
  BY <1>1, PartitionCount, PositionsInTable DEF HeldOut
<1>8. \A c \in BodyCursor(i, picks) :
        /\ picks # {} /\ c \in Cursor /\ c.pid = i /\ c.rows = RowsAt(picks) /\ c.outlier = FALSE
  <2> DEFINE new == [pid |-> i, rows |-> RowsAt(picks), outlier |-> FALSE]
  <2>1. new \in Cursor /\ new.pid = i /\ new.rows = RowsAt(picks) /\ new.outlier = FALSE
    BY <1>4, <1>5 DEF Cursor
  <2>2. \A c \in BodyCursor(i, picks) : picks # {} /\ c = new
    BY DEF BodyCursor
  <2> QED
    BY <2>1, <2>2
<1>9. \A c \in OutlierCursor(i) :
        /\ NeedsBanking(i)
        /\ c \in Cursor /\ c.pid = i /\ c.rows = HeldOut(i) /\ c.outlier = TRUE
  <2> DEFINE new == [pid |-> i, rows |-> RowsAt(FlaggedIn(i)), outlier |-> TRUE]
  <2>1. new \in Cursor /\ new.pid = i /\ new.rows = HeldOut(i) /\ new.outlier = TRUE
    BY <1>4, <1>7 DEF Cursor
  <2>2. \A c \in OutlierCursor(i) : NeedsBanking(i) /\ c = new
    BY DEF OutlierCursor
  <2> QED
    BY <2>1, <2>2
<1>10. StoreTypeOK'
  BY <1>1, <1>2, <1>3, <1>6, <1>8, <1>9, SameIndex DEF StoreTypeOK
<1>11. /\ RowsOfCursors(i, FALSE) = {}
       /\ RowsOfCursors(i, FALSE)' = RowsAt(picks)
       /\ \A j \in Ids \ {i} : RowsOfCursors(j, FALSE)' = RowsOfCursors(j, FALSE)
  <2>1. RowsOfCursors(i, FALSE) = {}
    BY <1>2 DEF RowsOfCursors
  <2>2. RowsOfCursors(i, FALSE)' = RowsAt(picks)
    <3>1. CASE picks = {}
      <4>1. {c \in batch' : c.pid = i /\ c.outlier = FALSE} = {}
        BY <3>1, <1>2, <1>8, <1>9
      <4> QED
        BY <3>1, <4>1 DEF RowsOfCursors, RowsAt
    <3>2. CASE picks # {}
      <4>1. BodyCursor(i, picks) # {}
        BY <3>2 DEF BodyCursor
      <4>2. {c \in batch' : c.pid = i /\ c.outlier = FALSE} = BodyCursor(i, picks)
        BY <1>2, <1>8, <1>9
      <4> QED
        BY <1>8, <4>1, <4>2 DEF RowsOfCursors
    <3> QED
      BY <3>1, <3>2
  <2>3. ASSUME NEW j \in Ids \ {i} PROVE RowsOfCursors(j, FALSE)' = RowsOfCursors(j, FALSE)
    <3>1. {c \in batch' : c.pid = j /\ c.outlier = FALSE}
            = {c \in batch : c.pid = j /\ c.outlier = FALSE}
      BY <1>2, <1>8, <1>9
    <3> QED
      BY <3>1 DEF RowsOfCursors
  <2> QED
    BY <2>1, <2>2, <2>3
<1>12. TrackerMatchesSample'
  <2> SUFFICES ASSUME NEW j \in Ids, nodes[j].leaf PROVE SampleTracked(j)'
    BY <1>3, SameIndex DEF TrackerMatchesSample
  <2>1. SampleTracked(j)
    BY <1>1 DEF TrackerMatchesSample
  <2>2. /\ RowsAt(store'[j].tracker) = {rowAt'[p] : p \in store'[j].tracker}
        /\ PositionsOf(j)' = PositionsOf(j) /\ FlaggedIn(j)' = FlaggedIn(j)
    BY <1>3, SameIndex DEF RowsAt
  <2>3. CASE j # i
    <3>1. RowsOfCursors(j, FALSE)' = RowsOfCursors(j, FALSE) /\ store'[j] = store[j]
      BY <2>3, <1>6, <1>11
    <3> QED
      BY <2>1, <2>2, <3>1 DEF SampleTracked, RowsAt
  <2>4. CASE j = i
    <3> DEFINE t == store[i].tracker
    <3>1. /\ t \subseteq PositionsOf(i) \ FlaggedIn(i)
          /\ store[i].sampledRows = Cardinality(RowsAt(t))
          /\ store[i].nonNan = Indicator(RowsAt(t) \cap Present)
      BY <2>1, <2>4, <1>11 DEF SampleTracked
    <3>2. /\ RowsAt(t \union picks) = RowsAt(t) \union RowsAt(picks)
          /\ RowsAt(t) \cap RowsAt(picks) = {}
      <4>1. t \in SUBSET Positions /\ picks \in SUBSET Positions /\ t \cap picks = {}
        BY <1>5, <3>1
      <4> QED
        BY <1>1, <4>1, RowsAtSets
    <3>3. /\ RowsAt(picks) \subseteq RowsAt(t \union picks)
          /\ RowsAt(t \union picks) \ RowsAt(picks) = RowsAt(t)
      BY <3>2
    <3>4. {rowAt'[p] : p \in store'[i].tracker} = RowsAt(t \union picks)
      BY <2>2, <2>4, <1>6
    <3> HIDE DEF t
    <3>5. /\ store'[i].tracker \subseteq PositionsOf(i) \ FlaggedIn(i)
          /\ store'[i].sampledRows = Cardinality(RowsAt(t))
          /\ store'[i].nonNan = Indicator(RowsAt(t) \cap Present)
      BY <3>1, <1>5, <1>6 DEF t
    <3> QED
      BY <2>2, <2>4, <3>3, <3>4, <3>5, <1>11 DEF SampleTracked, RowsAt
  <2> QED
    BY <2>3, <2>4
<1>13. BankedOnce'
  BY <1>1, <1>3, <1>6, SameIndex DEF BankedOnce
<1>14. ASSUME NEW j \in Ids PROVE SlotSound(j)'
  <2>1. SlotSound(j)
    BY <1>1
  <2>2. /\ RowsOf(j)' = RowsOf(j) /\ HeldOut(j)' = HeldOut(j)
        /\ Population(j)' = Population(j)
    BY <1>3, SameIndex
  <2>3. CASE j # i
    BY <2>1, <2>2, <2>3, <1>6 DEF SlotSound
  <2>4. CASE j = i
    <3>1. store[i].population # 0
      BY <1>2
    <3> QED
      BY <2>1, <2>2, <2>4, <3>1, <1>6 DEF SlotSound
  <2> QED
    BY <2>3, <2>4
<1>15. BatchSound'
  <2> SUFFICES ASSUME NEW c \in batch'
               PROVE  /\ c.pid \in Ids /\ nodes[c.pid].leaf
                      /\ store'[c.pid].population > 0
                      /\ c.rows # {}
                      /\ c.outlier => c.rows = HeldOut(c.pid) /\ ~store'[c.pid].materialized
    BY <1>2, <1>3, SameIndex DEF BatchSound
  <2>1. CASE c \in batch
    <3>1. c.pid \in Ids /\ c.pid # i
      BY <2>1, <1>1, <1>2 DEF BatchSound
    <3> QED
      BY <2>1, <3>1, <1>1, <1>6 DEF BatchSound
  <2>2. CASE c \in BodyCursor(i, picks)
    <3>1. picks # {} /\ c.pid = i /\ c.rows = RowsAt(picks) /\ ~c.outlier
      BY <2>2, <1>8
    <3>2. RowsAt(picks) # {}
      BY <3>1 DEF RowsAt
    <3> QED
      BY <3>1, <3>2, <1>2, <1>6
  <2>3. CASE c \in OutlierCursor(i)
    <3>1. NeedsBanking(i) /\ c.pid = i /\ c.rows = HeldOut(i)
      BY <2>3, <1>9
    <3>2. store[i].outlierRows = Cardinality(HeldOut(i)) /\ store[i].outlierRows > 0
      BY <3>1, <1>1, <1>2 DEF NeedsBanking, SlotSound
    <3>3. HeldOut(i) # {}
      BY <3>2, FS_EmptySet
    <3> QED
      BY <3>1, <3>3, <1>2, <1>6 DEF NeedsBanking
  <2> QED
    BY <1>2, <2>1, <2>2, <2>3
<1> QED
  BY <1>3, <1>10, <1>12, <1>13, <1>14, <1>15, SameIndex DEF IndexInv, StoreInv

\* The fold closes the round: every slot's moments catch up with its tracker, and
\* the held-out rows that were read are banked, all of them and for the first time.
LEMMA FoldBatchPreserves ==
  ASSUME IndexInv, FoldBatch
  PROVE  IndexInv'
<1>1. /\ CrackInv /\ StoreTypeOK /\ TrackerMatchesSample /\ BankedOnce
      /\ BatchSound /\ \A j \in Ids : SlotSound(j)
  BY DEF IndexInv, StoreInv
<1>2. UNCHANGED crackVars /\ batch' = {} /\ store' = [j \in Ids |-> Folded(j)]
  BY DEF FoldBatch
<1>3. /\ CrackInv' /\ RetiredAreSplit'
      /\ UNCHANGED <<tableVars, treeVars>> /\ crack' = crack
  BY <1>2, IndexUntouched
<1>4. \A j : RowsOfCursors(j, FALSE)' = {}
  BY <1>2 DEF RowsOfCursors
<1> DEFINE body(j) == RowsOfCursors(j, FALSE)
           held(j) == RowsOfCursors(j, TRUE)
<1>5. ASSUME NEW j \in Ids
      PROVE  /\ store'[j] \in Slot
             /\ store'[j].tracker = store[j].tracker
             /\ store'[j].population = store[j].population
             /\ store'[j].outlierRows = store[j].outlierRows
             /\ store'[j].sampledRows = store[j].sampledRows + Cardinality(body(j))
             /\ store'[j].nonNan = Merged(store[j].nonNan, body(j))
             /\ store'[j].outlierBank = Merged(store[j].outlierBank, held(j))
             /\ store'[j].materialized = (store[j].materialized \/ held(j) # {})
  <2>1. store[j] \in Slot
    BY <1>1 DEF StoreTypeOK
  <2>2. Cardinality(body(j)) \in Nat
    BY RowsInFlight, TableFinite
  <2>3. \A bag \in RowBag : \A rows : Merged(bag, rows) \in RowBag
    <3> SUFFICES ASSUME NEW bag \in RowBag, NEW rows PROVE Merged(bag, rows) \in RowBag
      OBVIOUS
    <3>1. \A r \in RowIds : bag[r] \in Nat
      BY DEF RowBag
    <3>2. \A r \in RowIds : bag[r] + (IF r \in rows \cap Present THEN 1 ELSE 0) \in Nat
      BY <3>1
    <3> QED
      BY <3>2 DEF RowBag, Merged
  <2>4. store'[j] = [store[j] EXCEPT !.sampledRows  = @ + Cardinality(body(j)),
                                     !.nonNan       = Merged(@, body(j)),
                                     !.outlierBank  = Merged(@, held(j)),
                                     !.materialized = @ \/ held(j) # {}]
    BY <1>2 DEF Folded
  <2> DEFINE b == body(j)
             h == held(j)
  <2> HIDE DEF b, h, body, held
  <2>5. /\ Merged(store[j].nonNan, b) \in RowBag /\ Merged(store[j].outlierBank, h) \in RowBag
        /\ (h # {}) \in BOOLEAN
        /\ store[j].sampledRows + Cardinality(b) \in Nat
    BY <2>1, <2>2, <2>3 DEF Slot, b
  <2> QED
    BY <2>1, <2>4, <2>5 DEF Slot, b, h
<1>6. StoreTypeOK'
  BY <1>2, <1>3, <1>5, SameIndex DEF StoreTypeOK
\* a slot without cursors is left as it was
<1>7. ASSUME NEW j \in Ids, body(j) = {}
      PROVE  store'[j].sampledRows = store[j].sampledRows /\ store'[j].nonNan = store[j].nonNan
  <2>1. store[j] \in Slot
    BY <1>1 DEF StoreTypeOK
  <2>2. Cardinality({}) = 0
    BY FS_EmptySet
  <2>3. store[j].sampledRows \in Nat /\ store[j].nonNan \in RowBag
    BY <2>1 DEF Slot
  <2>4. Merged(store[j].nonNan, {}) = store[j].nonNan
    BY <2>3, MergedNothing
  <2> QED
    <3>1. /\ store'[j].sampledRows = store[j].sampledRows + Cardinality(body(j))
          /\ store'[j].nonNan = Merged(store[j].nonNan, body(j))
      BY <1>5
    <3>2. body(j) = {}
      BY <1>7
    <3> HIDE DEF body
    <3> QED
      BY <3>1, <3>2, <2>2, <2>3, <2>4
\* a leaf's sample becomes all that its tracker holds
<1>8. ASSUME NEW j \in Ids, nodes[j].leaf
      PROVE  /\ store[j].tracker \subseteq PositionsOf(j) \ FlaggedIn(j)
             /\ store'[j].sampledRows = Cardinality(RowsAt(store[j].tracker))
             /\ store'[j].nonNan = Indicator(RowsAt(store[j].tracker) \cap Present)
  <2> DEFINE all    == RowsAt(store[j].tracker)
             folded == all \ body(j)
  <2>1. /\ store[j].tracker \subseteq PositionsOf(j) \ FlaggedIn(j)
        /\ body(j) \subseteq all
        /\ store[j].sampledRows = Cardinality(folded)
        /\ store[j].nonNan = Indicator(folded \cap Present)
    BY <1>1, <1>8 DEF TrackerMatchesSample, SampleTracked
  <2>2. all \subseteq RowIds
    <3>1. store[j].tracker \in SUBSET Positions
      BY <2>1, <1>1, PositionsInTable
    <3> QED
      BY <3>1, <1>1, RowsAtSets
  <2>3. store'[j].sampledRows = Cardinality(all)
    <3> HIDE DEF all
    <3>1. IsFiniteSet(all)
      BY <2>2, TableFinite
    <3>2. Cardinality(all \ body(j)) = Cardinality(all) - Cardinality(body(j))
      <4>1. all \cap body(j) = body(j)
        BY <2>1
      <4>2. Cardinality(all \ body(j)) = Cardinality(all) - Cardinality(all \cap body(j))
        BY <3>1, FS_Difference
      <4> QED
        BY <4>1, <4>2, Zenon
    <3>3. Cardinality(all) \in Nat /\ Cardinality(body(j)) \in Nat
      BY <2>1, <2>2, TableFinite
    <3>4. store'[j].sampledRows = Cardinality(all \ body(j)) + Cardinality(body(j))
      BY <1>5, <2>1
    <3> HIDE DEF body
    <3> QED
      BY <3>2, <3>3, <3>4
  <2>4. store'[j].nonNan = Indicator(all \cap Present)
    <3>1. folded \in SUBSET RowIds /\ body(j) \in SUBSET RowIds /\ folded \cap body(j) = {}
          /\ folded \union body(j) = all
      BY <2>1, <2>2
    <3> HIDE DEF folded, all, body
    <3>2. Merged(Indicator(folded \cap Present), body(j)) = Indicator(all \cap Present)
      BY <3>1, MergedBag
    <3> QED
      BY <1>5, <2>1, <3>2
  <2> QED
    BY <2>1, <2>3, <2>4
<1>9. TrackerMatchesSample'
  <2> SUFFICES ASSUME NEW j \in Ids, nodes[j].leaf PROVE SampleTracked(j)'
    BY <1>3, SameIndex DEF TrackerMatchesSample
  <2>1. /\ {rowAt'[p] : p \in store'[j].tracker} = RowsAt(store[j].tracker)
        /\ PositionsOf(j)' = PositionsOf(j) /\ FlaggedIn(j)' = FlaggedIn(j)
    BY <1>3, <1>5, SameIndex DEF RowsAt
  <2>2. RowsAt(store[j].tracker) \ {} = RowsAt(store[j].tracker)
    OBVIOUS
  <2>3. store'[j].tracker \subseteq PositionsOf(j) \ FlaggedIn(j)
    BY <1>5, <1>8
  <2> QED
    BY <2>1, <2>2, <2>3, <1>4, <1>8 DEF SampleTracked, RowsAt
<1>10. BankedOnce'
  <2> SUFFICES ASSUME NEW j \in Ids
               PROVE  store'[j].outlierBank =
                        Indicator(IF store'[j].materialized
                                  THEN RowsAt(FlaggedIn(j)) \cap Present ELSE {})
    BY <1>3, SameIndex DEF BankedOnce
  <2>1. store[j].outlierBank =
          Indicator(IF store[j].materialized THEN RowsAt(FlaggedIn(j)) \cap Present ELSE {})
    BY <1>1 DEF BankedOnce
  <2>2. store[j] \in Slot
    BY <1>1 DEF StoreTypeOK
  <2>3. CASE held(j) = {}
    <3>1. Merged(store[j].outlierBank, {}) = store[j].outlierBank
      BY <2>2, MergedNothing DEF Slot
    <3>2. store'[j].materialized = store[j].materialized
      BY <1>5, <2>2, <2>3 DEF Slot
    <3> QED
      BY <1>5, <2>1, <2>3, <3>1, <3>2
  <2>4. CASE held(j) # {}
    <3>1. held(j) = HeldOut(j) /\ ~store[j].materialized /\ held(j) \in SUBSET RowIds
      BY <2>4, RowsInFlight
    <3>2. RowsAt(FlaggedIn(j)) = HeldOut(j)
      BY <1>1, PartitionCount
    <3>3. store[j].outlierBank = Indicator({} \cap Present) /\ {} \in SUBSET RowIds
      <4>1. {} \cap Present = {}
        OBVIOUS
      <4> QED
        BY <2>1, <3>1, <4>1
    <3>4. Merged(Indicator({} \cap Present), held(j)) = Indicator(held(j) \cap Present)
      <4>1. {} \cap held(j) = {} /\ {} \union held(j) = held(j)
        OBVIOUS
      <4> HIDE DEF held
      <4> QED
        BY <3>1, <3>3, <4>1, MergedBag
    <3> QED
      BY <1>5, <2>4, <3>1, <3>2, <3>3, <3>4
  <2> QED
    BY <2>3, <2>4
<1>11. ASSUME NEW j \in Ids PROVE SlotSound(j)'
  <2>1. SlotSound(j)
    BY <1>1
  <2>2. /\ RowsOf(j)' = RowsOf(j) /\ HeldOut(j)' = HeldOut(j)
        /\ Population(j)' = Population(j)
    BY <1>3, SameIndex
  <2>3. \E sample \in SUBSET (RowsOf(j) \ Flagged) :
          /\ store'[j].sampledRows = Cardinality(sample)
          /\ store'[j].nonNan = Indicator(sample \cap Present)
    <3>1. CASE body(j) = {}
      BY <2>1, <3>1, <1>7 DEF SlotSound
    <3>2. CASE nodes[j].leaf
      <4> DEFINE all == RowsAt(store[j].tracker)
      <4>1. all \subseteq RowsAt(PositionsOf(j) \ FlaggedIn(j))
        BY <3>2, <1>8 DEF RowsAt
      <4>2. RowsAt(PositionsOf(j) \ FlaggedIn(j)) = RowsOf(j) \ HeldOut(j)
        <5>1. PositionsOf(j) \in SUBSET Positions /\ FlaggedIn(j) \in SUBSET Positions
          BY <1>1, PositionsInTable
        <5>2. RowsAt(PositionsOf(j) \ FlaggedIn(j)) = RowsAt(PositionsOf(j)) \ RowsAt(FlaggedIn(j))
          BY <5>1, <1>1, RowsAtSets
        <5> QED
          BY <5>2, <1>1, PositionsInTable, PartitionCount
      <4>3. all \in SUBSET (RowsOf(j) \ Flagged)
        BY <4>1, <4>2 DEF HeldOut
      <4> QED
        BY <3>2, <4>3, <1>8
    <3> QED
      BY <3>1, <3>2, RowsInFlight
  <2>4. store[j].population = 0 => body(j) = {} /\ held(j) = {}
    <3>1. body(j) # {} \/ held(j) # {} => store[j].population > 0
      BY RowsInFlight
    <3>2. store[j].population = 0 => ~(store[j].population > 0)
      OBVIOUS
    <3> QED
      BY <3>1, <3>2
  <2>5. store'[j].population = 0 =>
          /\ store'[j].tracker = {} /\ store'[j].sampledRows = 0
          /\ store'[j].nonNan = EmptyBag
          /\ store'[j].outlierRows = 0 /\ ~store'[j].materialized
    <3> SUFFICES ASSUME store[j].population = 0
                 PROVE  /\ store'[j].tracker = {} /\ store'[j].sampledRows = 0
                        /\ store'[j].nonNan = EmptyBag
                        /\ store'[j].outlierRows = 0 /\ ~store'[j].materialized
      BY <1>5
    <3>1. body(j) = {} /\ held(j) = {}
      BY <2>4
    <3> QED
      BY <3>1, <2>1, <1>5, <1>7 DEF SlotSound
  <2>6. /\ store'[j].population = store[j].population
        /\ store'[j].outlierRows = store[j].outlierRows
    BY <1>5
  <2> QED
    BY <2>1, <2>2, <2>3, <2>5, <2>6 DEF SlotSound
<1>12. BatchSound'
  BY <1>2 DEF BatchSound
<1> QED
  BY <1>3, <1>6, <1>9, <1>10, <1>11, <1>12, SameIndex DEF IndexInv, StoreInv
-----------------------------------------------------------------------------
(* The index and its store together.                                       *)

\* Every step of the store is a crack step or leaves the index alone.
LEMMA IndexStepCracks ==
  ASSUME [IndexNext]_indexVars
  PROVE  [CrackNext]_crackVars
<1>1. CASE IndexNext
  BY <1>1 DEF IndexNext, RefineLeaf, CrackOneFace, RetireSplit, PrepareLeaf, DrawReusable,
     FoldBatch, CrackNext
<1>2. CASE UNCHANGED indexVars
  BY <1>2 DEF indexVars
<1> QED
  BY <1>1, <1>2

\* Keeping summaries over the index is one way to drive it: everything proved of
\* the cracking index is true of the index with its summaries.
THEOREM IndexRefinesCrack == IndexSpec => CrackSpec
<1>1. IndexInit => CrackInit
  BY DEF IndexInit
<1>2. [IndexNext]_indexVars => [CrackNext]_crackVars
  BY IndexStepCracks
<1> QED
  BY <1>1, <1>2, PTL DEF IndexSpec, CrackSpec

LEMMA IndexInitEstablishes ==
  ASSUME IndexInit
  PROVE  IndexInv
<1>1. CrackInv
  BY InitEstablishes DEF IndexInit
<1>2. nodeCount = 1 /\ crack = NoCrack /\ Ids = {0}
  BY DEF IndexInit, CrackInit, Ids
<1>3. batch = {} /\ store = [i \in {0} |-> EmptySlot]
  BY DEF IndexInit, StoreInit
<1>4. StoreTypeOK
  BY <1>2, <1>3, EmptySlotSound DEF StoreTypeOK
<1>5. /\ store[0].tracker = {} /\ store[0].population = 0
      /\ store[0].sampledRows = 0 /\ store[0].nonNan = EmptyBag
      /\ store[0].outlierRows = 0 /\ store[0].outlierBank = EmptyBag
      /\ ~store[0].materialized
  BY <1>3, EmptySlotSound
<1>6. \A j : RowsOfCursors(j, FALSE) = {}
  BY <1>3 DEF RowsOfCursors
<1>7. TrackerMatchesSample
  <2>1. RowsAt({}) = {} /\ Cardinality({}) = 0 /\ {} \ {} = {} /\ {} \cap Present = {}
    BY FS_EmptySet DEF RowsAt
  <2> QED
    BY <1>2, <1>5, <1>6, <2>1, EmptySlotSound DEF TrackerMatchesSample, SampleTracked
<1>8. BankedOnce
  BY <1>2, <1>5, EmptySlotSound DEF BankedOnce
<1>9. \A j \in Ids : SlotSound(j)
  <2>1. /\ {} \in SUBSET (RowsOf(0) \ Flagged)
        /\ Cardinality({}) = 0 /\ EmptyBag = Indicator({} \cap Present)
    BY FS_EmptySet, EmptySlotSound
  <2>2. \E sample \in SUBSET (RowsOf(0) \ Flagged) :
          /\ store[0].sampledRows = Cardinality(sample)
          /\ store[0].nonNan = Indicator(sample \cap Present)
    BY <1>5, <2>1
  <2>3. ~(store[0].population > 0)
    BY <1>5
  <2> QED
    BY <1>2, <1>5, <2>2, <2>3 DEF SlotSound
<1>10. BatchSound /\ RetiredAreSplit
  BY <1>2, <1>3 DEF BatchSound, RetiredAreSplit, NoCrack
<1> QED
  BY <1>1, <1>4, <1>7, <1>8, <1>9, <1>10 DEF IndexInv, StoreInv

\* The same as an implication, which other specifications over the index use.
LEMMA IndexStepPreserves ==
  ASSUME IndexInv, [IndexNext]_indexVars
  PROVE  IndexInv'
<1>1. CASE \E i \in Ids, q \in Queries : RefineLeaf(i, q)
  BY <1>1, StoreIdlePreserves
<1>2. CASE CrackOneFace
  BY <1>2, CrackOneFacePreserves
<1>3. CASE RetireSplit
  BY <1>3, RetireSplitPreserves
<1>4. ASSUME NEW i \in Ids, PrepareLeaf(i) PROVE IndexInv'
  BY <1>4, PrepareLeafPreserves
<1>5. ASSUME NEW i \in Ids, NEW picks \in SUBSET Eligible(i), DrawReusable(i, picks)
      PROVE  IndexInv'
  BY <1>5, DrawReusablePreserves
<1>6. CASE FoldBatch
  BY <1>6, FoldBatchPreserves
<1>7. CASE UNCHANGED indexVars
  BY <1>7, StoreIdlePreserves
<1> QED
  BY <1>1, <1>2, <1>3, <1>4, <1>5, <1>6, <1>7 DEF IndexNext

\* The invariant holds in every reachable state of the index and its summaries.
THEOREM IndexInvariant == IndexSpec => []IndexInv
<1>1. IndexInit => IndexInv
  BY IndexInitEstablishes
<1>2. IndexInv /\ [IndexNext]_indexVars => IndexInv'
  BY IndexStepPreserves
<1> QED
  BY <1>1, <1>2, PTL DEF IndexSpec

\* Slots, trackers and cursors keep their types.
THEOREM StoreTypeCorrect == IndexSpec => []StoreTypeOK
<1>1. IndexInv => StoreTypeOK
  BY DEF IndexInv, StoreInv
<1> QED
  BY <1>1, IndexInvariant, PTL

\* The tracker of a live leaf names exactly the rows of its sample and of the
\* cursors in flight, after any number of cracks: a resumed sample may trust it.
THEOREM TrackersNameTheSample == IndexSpec => []TrackerMatchesSample
<1>1. IndexInv => TrackerMatchesSample
  BY DEF IndexInv, StoreInv
<1> QED
  BY <1>1, IndexInvariant, PTL

\* The held-out rows of a partition are in its bank once or not at all.
THEOREM HeldOutBankedOnce == IndexSpec => []BankedOnce
<1>1. IndexInv => BankedOnce
  BY DEF IndexInv, StoreInv
<1> QED
  BY <1>1, IndexInvariant, PTL

\* A complete slot has sampled every row of its partition that is not held out.
LEMMA CompleteSample ==
  ASSUME IndexInv, NEW i \in Ids, Complete(store[i]), NEW sample \in SUBSET (RowsOf(i) \ Flagged),
         store[i].sampledRows = Cardinality(sample)
  PROVE  sample = RowsOf(i) \ Flagged
<1>1. CrackInv /\ SlotSound(i)
  BY DEF IndexInv, StoreInv
<1>2. /\ store[i].population > 0 /\ store[i].population \in {0, Population(i)}
      /\ store[i].sampledRows >= store[i].population - store[i].outlierRows
  BY <1>1 DEF Complete, SlotSound
<1>3. store[i].population = Population(i) /\ store[i].outlierRows = Cardinality(HeldOut(i))
  <2>1. ~(0 > 0)
    OBVIOUS
  <2> QED
    BY <1>1, <1>2, <2>1 DEF SlotSound
<1>4. Cardinality(RowsOf(i) \ Flagged) = Population(i) - Cardinality(HeldOut(i))
  BY <1>1, PartitionCount
<1>5. IsFiniteSet(RowsOf(i) \ Flagged)
  BY <1>1, PositionsInTable, TableFinite
<1>6. Cardinality(sample) <= Cardinality(RowsOf(i) \ Flagged)
  BY <1>5, FS_Subset
<1>7. Cardinality(sample) \in Nat /\ Cardinality(RowsOf(i) \ Flagged) \in Nat
  BY <1>5, FS_Subset, FS_CardinalityType
<1>8. Cardinality(sample) >= Cardinality(RowsOf(i) \ Flagged)
  BY <1>2, <1>3, <1>4
<1>9. Cardinality(sample) = Cardinality(RowsOf(i) \ Flagged)
  BY <1>6, <1>7, <1>8
<1> QED
  BY <1>5, <1>9, FS_Subset

\* A complete slot has banked its held-out rows, if it has any.
LEMMA CompleteBank ==
  ASSUME IndexInv, NEW i \in Ids, Complete(store[i])
  PROVE  HeldOut(i) = {} \/ store[i].materialized
<1>1. CrackInv /\ SlotSound(i)
  BY DEF IndexInv, StoreInv
<1>2. store[i].population > 0 => store[i].outlierRows = Cardinality(HeldOut(i))
  BY <1>1 DEF SlotSound
<1>3. store[i].population > 0 /\ (store[i].outlierRows = 0 \/ store[i].materialized)
  BY DEF Complete
<1>4. IsFiniteSet(HeldOut(i))
  BY <1>1, PositionsInTable, TableFinite DEF HeldOut
<1>5. Cardinality(HeldOut(i)) = 0 => HeldOut(i) = {}
  BY <1>4, FS_EmptySet
<1> QED
  BY <1>2, <1>3, <1>5

\* A complete slot waits for nothing: no cursor reads for it.
LEMMA CompleteNeedsNothing ==
  ASSUME IndexInv, NEW i \in Ids, Complete(store[i])
  PROVE  RowsOfCursors(i, FALSE) = {} /\ RowsOfCursors(i, TRUE) = {}
<1>1. CrackInv /\ TrackerMatchesSample /\ store[i] \in Slot
  BY DEF IndexInv, StoreInv, StoreTypeOK
<1>2. RowsOfCursors(i, TRUE) = {}
  BY CompleteBank, RowsInFlight
<1>3. ASSUME RowsOfCursors(i, FALSE) # {} PROVE FALSE
  <2>1. SampleTracked(i)
    BY <1>1, <1>3, RowsInFlight DEF TrackerMatchesSample
  <2> DEFINE body   == RowsOfCursors(i, FALSE)
             all    == RowsAt(store[i].tracker)
             folded == all \ body
  <2>2. /\ store[i].tracker \subseteq PositionsOf(i) \ FlaggedIn(i)
        /\ body \subseteq all /\ store[i].sampledRows = Cardinality(folded)
    BY <2>1 DEF SampleTracked
  <2>3. RowsAt(PositionsOf(i) \ FlaggedIn(i)) = RowsOf(i) \ HeldOut(i)
    <3>1. PositionsOf(i) \in SUBSET Positions /\ FlaggedIn(i) \in SUBSET Positions
      BY <1>1, PositionsInTable
    <3>2. RowsAt(PositionsOf(i) \ FlaggedIn(i)) = RowsAt(PositionsOf(i)) \ RowsAt(FlaggedIn(i))
      BY <3>1, <1>1, RowsAtSets
    <3> QED
      BY <3>2, <1>1, PositionsInTable, PartitionCount
  <2>4. all \subseteq RowsOf(i) \ Flagged
    BY <2>2, <2>3 DEF RowsAt, HeldOut
  <2>5. folded = RowsOf(i) \ Flagged
    <3> HIDE DEF body, all
    <3>1. folded \in SUBSET (RowsOf(i) \ Flagged)
      BY <2>4
    <3> HIDE DEF folded
    <3> QED
      BY <3>1, <2>2, CompleteSample
  <2> HIDE DEF body, all
  <2>6. body = {}
    BY <2>2, <2>4, <2>5
  <2> QED
    BY <2>6, <1>3 DEF body
<1> QED
  BY <1>2, <1>3

LEMMA CompleteExact ==
  ASSUME IndexInv
  PROVE  CompleteIsExact
<1> SUFFICES ASSUME NEW i \in Ids, Complete(store[i]), NEW r \in RowIds
             PROVE  store[i].nonNan[r] + store[i].outlierBank[r]
                      = Indicator(RowsOf(i) \cap Present)[r]
  BY DEF CompleteIsExact
<1>1. CrackInv /\ SlotSound(i) /\ BankedOnce
  BY DEF IndexInv, StoreInv
<1>2. PICK sample \in SUBSET (RowsOf(i) \ Flagged) :
             /\ store[i].sampledRows = Cardinality(sample)
             /\ store[i].nonNan = Indicator(sample \cap Present)
  BY <1>1 DEF SlotSound
<1>3. sample = RowsOf(i) \ Flagged
  BY <1>2, CompleteSample
<1>4. store[i].outlierBank = Indicator(HeldOut(i) \cap Present)
  <2>1. RowsAt(FlaggedIn(i)) = HeldOut(i)
    BY <1>1, PartitionCount
  <2>2. store[i].outlierBank =
          Indicator(IF store[i].materialized THEN HeldOut(i) \cap Present ELSE {})
    BY <1>1, <2>1 DEF BankedOnce
  <2>3. {} \cap Present = {}
    OBVIOUS
  <2> QED
    BY <2>2, <2>3, CompleteBank
<1> QED
  BY <1>2, <1>3, <1>4 DEF Indicator, HeldOut

\* Whenever a summary says it is complete, its moments and its bank together are
\* exactly the present rows of its partition, each counted once: a query that
\* contains the partition is answered from it without reading a row.
THEOREM CompleteSummariesExact == IndexSpec => []CompleteIsExact
<1>1. IndexInv => CompleteIsExact
  BY CompleteExact
<1> QED
  BY <1>1, IndexInvariant, PTL

\* A step never touches what a complete summary has recorded, whichever partition
\* it cracks, samples, folds or retires.
LEMMA StepKeepsComplete ==
  ASSUME IndexInv, [IndexNext]_indexVars, NEW i \in Ids, Complete(store[i])
  PROVE  /\ Complete(store'[i])
         /\ store'[i].nonNan = store[i].nonNan
         /\ store'[i].outlierBank = store[i].outlierBank
<1>1. store \in [Ids -> Slot] /\ store[i] \in Slot /\ CrackInv /\ BankedOnce
  BY DEF IndexInv, StoreInv, StoreTypeOK
<1>2. SUFFICES /\ store'[i].population = store[i].population
               /\ store'[i].sampledRows = store[i].sampledRows
               /\ store'[i].nonNan = store[i].nonNan
               /\ store'[i].outlierRows = store[i].outlierRows
               /\ store'[i].outlierBank = store[i].outlierBank
               /\ store'[i].materialized = store[i].materialized
  BY DEF Complete
<1>3. CASE (\E j \in Ids, q \in Queries : RefineLeaf(j, q)) \/ UNCHANGED indexVars
  BY <1>3 DEF RefineLeaf, storeVars, indexVars
<1>4. CASE CrackOneFace
  <2>1. i \in Ids'
    BY <1>1, <1>4, IndexStepCracks, StepKeepsRows DEF IndexNext
  <2>2. store'[i] = store[i]
    BY <2>1, <1>4 DEF CrackOneFace, GrowStore, Ids
  <2> QED
    BY <2>2
<1>5. CASE RetireSplit
  <2>1. store'[i] = IF i \in crack.retired THEN Retired(store[i]) ELSE store[i]
    BY <1>5 DEF RetireSplit
  <2> QED
    BY <2>1, <1>1, RetiredSlot
<1>6. ASSUME NEW j \in Ids, PrepareLeaf(j) PROVE store'[i] = store[i]
  BY <1>1, <1>6 DEF PrepareLeaf
<1>7. ASSUME NEW j \in Ids, NEW picks \in SUBSET Eligible(j), DrawReusable(j, picks)
      PROVE  /\ store'[i].population = store[i].population
             /\ store'[i].sampledRows = store[i].sampledRows
             /\ store'[i].nonNan = store[i].nonNan
             /\ store'[i].outlierRows = store[i].outlierRows
             /\ store'[i].outlierBank = store[i].outlierBank
             /\ store'[i].materialized = store[i].materialized
  <2>1. store' = [store EXCEPT ![j].tracker = @ \union picks]
    BY <1>7 DEF DrawReusable
  <2> QED
    BY <1>1, <2>1 DEF Slot
<1>8. CASE FoldBatch
  <2>1. store'[i] = Folded(i)
    BY <1>8 DEF FoldBatch
  <2>2. RowsOfCursors(i, FALSE) = {} /\ RowsOfCursors(i, TRUE) = {}
    BY CompleteNeedsNothing
  <2>3. store'[i] = [store[i] EXCEPT !.sampledRows  = @ + Cardinality({}),
                                     !.nonNan       = Merged(@, {}),
                                     !.outlierBank  = Merged(@, {}),
                                     !.materialized = @ \/ {} # {}]
    BY <2>1, <2>2, Zenon DEF Folded
  <2>4. /\ Cardinality({}) = 0
        /\ Merged(store[i].nonNan, {}) = store[i].nonNan
        /\ Merged(store[i].outlierBank, {}) = store[i].outlierBank
    BY <1>1, FS_EmptySet, MergedNothing DEF Slot
  <2> QED
    BY <1>1, <2>3, <2>4 DEF Slot
<1> QED
  BY <1>3, <1>4, <1>5, <1>6, <1>7, <1>8 DEF IndexNext

\* A complete summary stays complete for good and is never written again.
THEOREM CompleteStaysFinal == IndexSpec => CompleteIsFinal
<1>1. IndexInv /\ [IndexNext]_indexVars =>
        [\A i \in Ids : Complete(store[i]) =>
           /\ Complete(store'[i])
           /\ store'[i].nonNan = store[i].nonNan
           /\ store'[i].outlierBank = store[i].outlierBank]_indexVars
  BY StepKeepsComplete
<1> QED
  BY <1>1, IndexInvariant, PTL DEF IndexSpec, CompleteIsFinal

\* A draw opens cursors only over rows its partition has not counted.
LEMMA DrawnRowsAreNew ==
  ASSUME IndexInv, NEW i \in Ids, NEW picks \in SUBSET Eligible(i), DrawReusable(i, picks),
         NEW c \in batch' \ batch, NEW r \in c.rows
  PROVE  store[c.pid].nonNan[r] = 0 /\ store[c.pid].outlierBank[r] = 0
<1>1. /\ CrackInv /\ BankedOnce /\ SlotSound(i) /\ TrackerMatchesSample
      /\ batch' = batch \union BodyCursor(i, picks) \union OutlierCursor(i)
      /\ \A d \in batch : d.pid # i
      /\ nodes[i].leaf
  BY DEF IndexInv, StoreInv, DrawReusable
<1>2. RowsAt(FlaggedIn(i)) = HeldOut(i) /\ HeldOut(i) \subseteq RowIds
  BY <1>1, PartitionCount, PositionsInTable DEF HeldOut
<1>3. store[i].outlierBank = Indicator(IF store[i].materialized THEN HeldOut(i) \cap Present ELSE {})
  BY <1>1, <1>2 DEF BankedOnce
<1>4. CASE c \in BodyCursor(i, picks)
  <2>1. c.pid = i /\ c.rows = RowsAt(picks)
    BY <1>4 DEF BodyCursor
  <2>2. RowsOfCursors(i, FALSE) = {}
    BY <1>1 DEF RowsOfCursors
  <2>3. /\ store[i].tracker \subseteq PositionsOf(i)
        /\ store[i].nonNan = Indicator(RowsAt(store[i].tracker) \cap Present)
    BY <1>1, <2>2 DEF TrackerMatchesSample, SampleTracked
  <2>4. /\ RowsAt(picks) \cap RowsAt(store[i].tracker) = {}
        /\ RowsAt(picks) \cap RowsAt(FlaggedIn(i)) = {}
        /\ RowsAt(picks) \subseteq RowIds
    <3>1. /\ picks \in SUBSET Positions /\ store[i].tracker \in SUBSET Positions
          /\ FlaggedIn(i) \in SUBSET Positions
          /\ picks \cap store[i].tracker = {} /\ picks \cap FlaggedIn(i) = {}
      BY <2>3, <1>1, PositionsInTable DEF Eligible
    <3> QED
      BY <3>1, <1>1, RowsAtSets
  <2> QED
    BY <2>1, <2>3, <2>4, <1>2, <1>3 DEF Indicator
<1>5. CASE c \in OutlierCursor(i)
  <2>1. c.pid = i /\ c.rows = HeldOut(i) /\ ~store[i].materialized
    BY <1>2, <1>5 DEF OutlierCursor, NeedsBanking
  <2>2. PICK sample \in SUBSET (RowsOf(i) \ Flagged) :
               store[i].nonNan = Indicator(sample \cap Present)
    BY <1>1 DEF SlotSound
  <2> QED
    BY <2>1, <2>2, <1>2, <1>3 DEF Indicator, HeldOut
<1> QED
  BY <1>1, <1>4, <1>5

\* No row is read a second time for the partition that holds it, however often
\* later rounds and queries come back to it.
THEOREM SamplingWithoutReplacement == IndexSpec => NoRowReadTwice
<1>1. IndexInv /\ [IndexNext]_indexVars =>
        [\A c \in batch' \ batch : \A r \in c.rows :
           store[c.pid].nonNan[r] = 0 /\ store[c.pid].outlierBank[r] = 0]_indexVars
  <2> SUFFICES ASSUME IndexInv, IndexNext, NEW c \in batch' \ batch, NEW r \in c.rows
               PROVE  store[c.pid].nonNan[r] = 0 /\ store[c.pid].outlierBank[r] = 0
    OBVIOUS
  <2>1. PICK i \in Ids : \E picks \in SUBSET Eligible(i) : DrawReusable(i, picks)
    BY DEF IndexNext, RefineLeaf, CrackOneFace, RetireSplit, PrepareLeaf, FoldBatch, storeVars
  <2> QED
    BY <2>1, DrawnRowsAreNew
<1> QED
  BY <1>1, IndexInvariant, PTL DEF IndexSpec, NoRowReadTwice
=============================================================================
