---------------------------- MODULE SummaryStore ----------------------------
(***************************************************************************)
(* The per-partition summaries kept over the cracking index                *)
(* (aqp/partition_state_store.cpp, aqp/summary.cpp, and the persisting     *)
(* halves of emit_reusable and read_round).                                *)
(*                                                                         *)
(* The measures of a partition are sampled in lockstep over the same rows, *)
(* so one slot per partition stands for all of them.  Running moments are  *)
(* a bag of rows: what matters is which rows have been folded in and how   *)
(* often, not the arithmetic.  A slot the store has not grown to, an       *)
(* absent summary and a null tracker all read as zero, as find() and       *)
(* get_or_create() make them do.                                           *)
(***************************************************************************)
EXTENDS KdCrack

CONSTANT Present        \* rows whose measure value is not missing (not NaN)

ASSUME PresentAssumption == Present \subseteq RowIds

VARIABLES
  store,    (* PartitionStateStore::states_by_partition_                    *)
  batch     (* cursors drawn by the read round in progress, not yet folded  *)

storeVars == <<store, batch>>
indexVars == <<crackVars, storeVars>>

RowBag   == [RowIds -> Nat]
EmptyBag == [r \in RowIds |-> 0]
\* MomentStats::add_if_present over each row of a set, then merge: NaN is ignored.
Merged(bag, rows) == [r \in RowIds |-> bag[r] + (IF r \in rows \cap Present THEN 1 ELSE 0)]

\* The tracker is a set of positions.  The code stores offsets from the
\* partition's begin, which never changes.
Slot == [current : BOOLEAN, tracker : SUBSET Positions, population : Nat,
         sampledRows : Nat, nonNan : RowBag, outlierRows : Nat,
         outlierBank : RowBag, materialized : BOOLEAN]

EmptySlot == [current |-> TRUE, tracker |-> {}, population |-> 0,
              sampledRows |-> 0, nonNan |-> EmptyBag, outlierRows |-> 0,
              outlierBank |-> EmptyBag, materialized |-> FALSE]

\* Mutant: held-out rows that were never banked are forgotten.
MutComplete(s) == s.population > 0 /\ s.sampledRows >= s.population - s.outlierRows

\* MeasureSummary::complete
Complete(s) ==
  /\ s.population > 0
  /\ s.sampledRows >= s.population - s.outlierRows
  /\ s.outlierRows = 0 \/ s.materialized

FlaggedIn(i)  == {p \in PositionsOf(i) : flagAt[p]}
RowsAt(P)     == {rowAt[p] : p \in P}

\* A cursor of the round's merge: the rows drawn for one partition, either from
\* its sampled body or, once, all of its held-out rows.
Cursor == [pid : Nat, rows : SUBSET RowIds, outlier : BOOLEAN]
RowsOfCursors(i, outlier) ==
  UNION {c.rows : c \in {d \in batch : d.pid = i /\ d.outlier = outlier}}

StoreInit ==
  /\ store = [i \in {0} |-> EmptySlot]
  /\ batch = {}
-----------------------------------------------------------------------------
\* Mutant: the store does not grow with the tree.
MutGrowStore == UNCHANGED store

\* split_node appends partitions; the store reads an id it has not grown to as
\* an empty slot.
GrowStore ==
  store' = [i \in 0 .. nodeCount' - 1 |-> IF i \in Ids THEN store[i] ELSE EmptySlot]

\* Mutant: an exact summary does not outlive its partition.
MutRetireDrop(s) == [EmptySlot EXCEPT !.current = FALSE]

\* retire_partition: keep an exact summary, drop a partial one, release the tracker.
Retired(s) ==
  IF Complete(s) THEN [s EXCEPT !.current = FALSE, !.tracker = {}]
                 ELSE [EmptySlot EXCEPT !.current = FALSE]

\* The descent's refine(): crack, then retire every partition that was split.
RefineLeaf(i, q) == batch = {} /\ BeginRefine(i, q) /\ UNCHANGED storeVars
CrackOneFace     == CrackFace /\ GrowStore /\ UNCHANGED batch
RetireSplit ==
  /\ EndRefine
  /\ store' = [i \in Ids |-> IF i \in crack.retired THEN Retired(store[i]) ELSE store[i]]
  /\ UNCHANGED batch

\* emit_reusable on the persisting path: get_or_create, then record how many of
\* the partition's rows are held out of its sample.
PrepareLeaf(i) ==
  /\ ~crack.on
  /\ nodes[i].leaf
  /\ ~Complete(store[i])
  /\ store' = [store EXCEPT
       ![i].population  = IF @ = 0 THEN Population(i) ELSE @,
       ![i].outlierRows = Cardinality(FlaggedIn(i))]
  /\ UNCHANGED <<crackVars, batch>>

\* Mutants: rows already sampled can be drawn again; banked rows are banked again.
MutEligible(i)     == PositionsOf(i) \ FlaggedIn(i)
MutNeedsBanking(i) == store[i].outlierRows > 0

\* The draw of a read round for one reusable stratum: mark the picked positions
\* in the tracker and open a cursor over their rows; the partition's held-out
\* rows ride along the first time it is touched.
Eligible(i)     == PositionsOf(i) \ (store[i].tracker \union FlaggedIn(i))
NeedsBanking(i) == store[i].outlierRows > 0 /\ ~store[i].materialized

BodyCursor(i, picks) ==
  IF picks = {} THEN {}
  ELSE {[pid |-> i, rows |-> RowsAt(picks), outlier |-> FALSE]}
OutlierCursor(i) ==
  IF NeedsBanking(i)
  THEN {[pid |-> i, rows |-> RowsAt(FlaggedIn(i)), outlier |-> TRUE]}
  ELSE {}

DrawReusable(i, picks) ==
  /\ ~crack.on
  /\ nodes[i].leaf
  /\ store[i].population > 0
  /\ \A c \in batch : c.pid # i
  /\ picks \subseteq Eligible(i)
  /\ store' = [store EXCEPT ![i].tracker = @ \union picks]
  /\ batch' = batch \union BodyCursor(i, picks) \union OutlierCursor(i)
  /\ UNCHANGED crackVars

\* The fold at the end of the round: update_sampled for the body rows, then
\* bank_outliers for the held-out ones.
Folded(i) ==
  LET s    == store[i]
      body == RowsOfCursors(i, FALSE)
      held == RowsOfCursors(i, TRUE)
  IN  [s EXCEPT !.sampledRows  = @ + Cardinality(body),
                !.nonNan       = Merged(@, body),
                !.outlierBank  = Merged(@, held),
                !.materialized = @ \/ held # {}]

FoldBatch ==
  /\ batch # {}
  /\ store' = [i \in Ids |-> Folded(i)]
  /\ batch' = {}
  /\ UNCHANGED crackVars

IndexInit == CrackInit /\ StoreInit

\* Every order of these steps that the engine can produce, and more: it never
\* refines while a round is in flight.
IndexNext ==
  \/ \E i \in Ids, q \in Queries : RefineLeaf(i, q)
  \/ CrackOneFace
  \/ RetireSplit
  \/ \E i \in Ids : PrepareLeaf(i)
  \/ \E i \in Ids : \E picks \in SUBSET Eligible(i) : DrawReusable(i, picks)
  \/ FoldBatch

\* Whatever drives the index keeps to these steps, in particular the engine when
\* summaries persist: it draws only from eligible rows, never cracks with cursors
\* in flight, and retires everything a crack has split.
IndexSpec == IndexInit /\ [][IndexNext]_indexVars
-----------------------------------------------------------------------------
StoreTypeOK ==
  /\ store \in [Ids -> Slot]
  /\ batch \subseteq Cursor

Indicator(rows) == [r \in RowIds |-> IF r \in rows THEN 1 ELSE 0]

\* A complete summary, of a live leaf or of a partition retired long ago,
\* accounts for every present row of its partition exactly once, and for no
\* other row: a query that contains the partition may answer from it unread.
CompleteIsExact ==
  \A i \in Ids : Complete(store[i]) =>
    \A r \in RowIds : store[i].nonNan[r] + store[i].outlierBank[r]
                        = Indicator(RowsOf(i) \cap Present)[r]

\* The tracker of a leaf still identifies the sampled rows: those folded into
\* its moments, plus those of the cursors in flight.  Cracking moves rows, and a
\* tracker that outlived it would let a later round read a row a second time.
SampleTracked(i) ==
  LET s        == store[i]
      inFlight == RowsOfCursors(i, FALSE)
      folded   == RowsAt(s.tracker) \ inFlight
  IN  /\ s.tracker \subseteq PositionsOf(i) \ FlaggedIn(i)
      /\ inFlight \subseteq RowsAt(s.tracker)
      /\ s.sampledRows = Cardinality(folded)
      /\ s.nonNan = Indicator(folded \cap Present)
TrackerMatchesSample == \A i \in Ids : nodes[i].leaf => SampleTracked(i)

\* The held-out rows of a partition are banked in full or not at all, apart from
\* its sample, and never twice.
BankedOnce ==
  \A i \in Ids :
    store[i].outlierBank =
      Indicator(IF store[i].materialized THEN RowsAt(FlaggedIn(i)) \cap Present ELSE {})

\* A complete summary is final: it stays complete and is never written again.
CompleteIsFinal ==
  [][\A i \in Ids : Complete(store[i]) =>
       /\ Complete(store'[i])
       /\ store'[i].nonNan = store[i].nonNan
       /\ store'[i].outlierBank = store[i].outlierBank]_indexVars

\* Sampling is without replacement across rounds and queries: a row a new cursor
\* reads for a partition is in neither its moments nor its bank yet.
NoRowReadTwice ==
  [][\A c \in batch' \ batch : \A r \in c.rows :
       store[c.pid].nonNan[r] = 0 /\ store[c.pid].outlierBank[r] = 0]_indexVars
-----------------------------------------------------------------------------
(* The invariant these follow from.                                        *)

HeldOut(i) == RowsOf(i) \cap Flagged

\* Stated of rows, not of positions: a split partition keeps its rows while they
\* move, so what a slot says of them stays true until it is retired, and after.
SlotSound(i) ==
  LET s == store[i]
  IN  /\ s.population \in {0, Population(i)}
      /\ s.population = 0 => /\ s.tracker = {} /\ s.sampledRows = 0
                             /\ s.nonNan = EmptyBag
                             /\ s.outlierRows = 0 /\ ~s.materialized
      /\ s.population > 0 => s.outlierRows = Cardinality(HeldOut(i))
      /\ \E sample \in SUBSET (RowsOf(i) \ Flagged) :
           /\ s.sampledRows = Cardinality(sample)
           /\ s.nonNan = Indicator(sample \cap Present)

\* A cursor in flight reads for a live leaf, and held-out rows only while they
\* are not banked; none is in flight during a crack.
BatchSound ==
  /\ batch # {} => ~crack.on
  /\ \A c \in batch :
       /\ c.pid \in Ids /\ nodes[c.pid].leaf
       /\ store[c.pid].population > 0
       /\ c.rows # {}
       /\ c.outlier => c.rows = HeldOut(c.pid) /\ ~store[c.pid].materialized

\* What a crack has split is no leaf, so retiring it releases no tracker in use.
RetiredAreSplit == \A i \in crack.retired : ~nodes[i].leaf

StoreInv ==
  /\ StoreTypeOK /\ RetiredAreSplit
  /\ TrackerMatchesSample /\ BankedOnce
  /\ \A i \in Ids : SlotSound(i)
  /\ BatchSound

IndexInv == CrackInv /\ StoreInv
=============================================================================
