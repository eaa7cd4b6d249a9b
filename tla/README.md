# TLA+ models of the adaptive AQP index

The program answers range-aggregate queries (SUM, COUNT, AVG over a rectangle)
over a table, exactly or within a relative error.  It keeps the rows' points in
an in-memory table that every query may *crack* a little further, and per
partition summaries that later queries reuse.  The measure values themselves are
read from columns, in memory or on disk, only when no summary covers them.

What can go wrong is a combination of those: rows move while summaries, sample
trackers and outlier flags that talk about them persist from query to query.
The modules here model that core, the disk reads below it, and the preparation
and experiment scripts around it; `TLC` checks them on small instances, and
`TLAPS` proves their safety properties for all tables, queries and configurations:
the whole core, from the cracks up to the right answers, the disk reads, and the files
around them.

Paths below are relative to the repository root.

## 1. Inventory

### The core

| Component | State | Operations | Correct when |
|---|---|---|---|
| geometry (`include/a3i/core/geometry.hpp`) | none | containment, intersection of half-open rectangles | used consistently with `KdTree::classify` |
| index table (`src/storage/index_table.cpp`) | points, row ids, outlier flags by position | build, swap, reorder, install flags | the three columns always describe the same row |
| k-d tree and crack (`src/substrates/kd_tree.cpp`, `kd_crack.cpp`) | nodes by dense id: bounds, contiguous range, children | reset, classify, split, crack toward a query | ranges nest, leaves tile, bounds enclose rows, a crack isolates its query |
| adaptive substrate (`src/substrates/adaptive_kd_access_path.cpp`) | the tree | ensure_built, refine | only leaves above `partition_size` are cracked |
| static and grid substrates (`static_kd_access_path.cpp`, `grid_akd_access_path.cpp`) | the same tree, built up front / tiles cracked later | build, refine | same, plus: a row's tile encloses it |
| summaries (`src/aqp/summary.cpp`) | moments, sample count, tracker, outlier bank | add, merge, complete() | a complete summary is exact |
| state store (`src/aqp/partition_state_store.cpp`) | one slot per partition | ensure, retire, find, update, bank, replace | what it keeps still describes its partition |
| descent (`src/aqp/decompose.cpp`) | none of its own | decompose a query into exact parts and strata, crack on the way | every qualifying row counted once |
| sampler and cursors (`src/aqp/sampler.cpp`, `stratum_cursor.cpp`) | trackers, merge heap | draw without replacement, k-way merge | no row drawn twice |
| allocator, estimator (`src/aqp/allocator.cpp`, `estimator.cpp`) | none | plan targets; estimate and certify | targets never exceed the stratum nor fall below the sample |
| engine (`src/engine/query_engine.cpp`, `method.cpp`) | residual strata, exact bucket, metrics | initialize, execute, read_round | each query ends, with a right answer, within its round budget |
| column store (`src/storage/binary_column_store.cpp`) | column files, io_uring ring | gather, scan, would_scan | every wanted value delivered once, to its place |
| outlier scorer, eager materialization (`src/aqp/`) | bounded heap; complete summaries | observe, finalize; materialize | the top scores within budget are held out; eager summaries are exact |

### Around it

| Component | State | Operations | Correct when |
|---|---|---|---|
| converter, manifest, `prepare_dataset.py` (`src/tools/parquet_to_columns_pipeline.cpp`, `src/storage/manifest.cpp`) | column files, manifest | skip, convert, verify | a success leaves the surviving rows of the source as it is |
| workload generator (`src/experiments/workload_generator.cpp`) | workload CSV with a fingerprint | reuse, generate | a configuration always gives the same queries |
| cell runner, `a3i_run` (`src/experiments/cell_runner.cpp`) | temporary result and metadata files | run a cell | both files whole when it succeeds |
| `run_experiments.py` | lock, published files | skip, run, publish, resume | a published file is a complete cell of the build it names |
| truth store, analysis and plotting scripts, CSV import, synthetic data, quantiles | none that persists | | not modelled |

### How they interact

One thread runs a workload.  `QueryEngine::execute` calls
`decompose_descent`, which walks the tree, calls `refine` on the leaves the
query cuts (this moves rows in the table and adds nodes), retires the split
partitions in the state store, and returns exact contributions and strata.
`execute` then estimates, plans and calls `read_round` until the request is met;
`read_round` draws (marking trackers), gathers all values in one batch and folds
them into the store, the bank and the exact bucket.

The store and the table are shared by value of *positions*: a tracker is a set of
positions of the table, and is meaningful only as long as no crack moves them.
Flags are positions too, and travel with the rows.  Summaries talk about *rows*,
and survive.  That split is where most of the hazards are.

The hard behaviours are therefore long sequences of legal calls (crack, sample,
bank, crack again, reuse), steps that take effect before they fail (a cut that
moves rows and then makes no progress), and decisions taken on counts before the
draw that they justify.  Below the core: io_uring completions in any order and of
any length, through slots the kernel shares.  Around it: processes killed between
the files they write, and files judged complete by another's presence.
`PROJECT.json` lists the hazards at their lines with the properties that would
catch each.

## 2. Modules

| Module | Models | Builds on |
|---|---|---|
| `Geometry` | rectangles, `classify` | |
| `KdCrack` | index table, tree, one refine() at a time | `Geometry` |
| `SummaryStore` | summaries, trackers, bank, retirement; `IndexSpec` is the most general client | `KdCrack` |
| `QueryEngine` | `execute`: descent, rounds, metrics | `SummaryStore` |
| `RangeAnswer` | abstract: a request is answered once, with every row known or estimated once | |
| `AnsweringEngine` | the refinement mapping from `QueryEngine` to `RangeAnswer` | both |
| `KdCrackProofs` | theorems about `KdCrack` | `KdCrack` |
| `SummaryStoreProofs` | theorems about `SummaryStore`, and that it implements `KdCrack` | `KdCrackProofs` |
| `SumLemmas` | lemmas about sums and recursion up to a number, used by four modules below | |
| `QueryEngineProofs` | theorems about `QueryEngine`, and that it implements `SummaryStore` and `KdCrack` | `SummaryStoreProofs`, `SumLemmas` |
| `AnsweringEngineProofs` | that the engine implements `RangeAnswer` | `AnsweringEngine`, `QueryEngineProofs` |
| `ColumnGather` | the reads of one round: merge, scan or gather, the io_uring window | |
| `ColumnGatherProofs` | theorems about `ColumnGather` | `ColumnGather`, `SumLemmas` |
| `PrebuiltIndex` | `QueryEngine::initialize` over the three substrates, then cracks | `KdCrack` |
| `PrebuiltIndexProofs` | theorems about `PrebuiltIndex` | `KdCrackProofs`, `SumLemmas` |
| `DatasetFiles` | conversion, manifest, skipping and verification of a dataset | |
| `ResultFiles` | engine processes and the files of a cell | |
| `ExperimentRunner` | workloads, cells, publication, kills | `DatasetFiles`, `ResultFiles` |
| `ExperimentRunnerProofs` | theorems about `ExperimentRunner` | `ExperimentRunner`, `SumLemmas` |
| `MC*` | tables, queries, batches and sources for TLC | |

### KdCrack

`pointAt`, `rowAt`, `flagAt` are the table's columns by position, `nodes` the
tree's vector by id, `crack` the locals of `crack_to_query`: the leaf asked for,
the partition trimmed now, the next face, and the `retired` output list.
`BeginRefine` is `AdaptiveKdAccessPath::refine` up to its threshold test,
`CrackFace` one iteration of either loop of `crack_to_query` (a whole
`split_node`, the moves of `partition_range` included), `EndRefine` its return.
The steps are split so that what holds *between* cuts is stated and proved.

`PartitionRange` gives the Hoare loop by its effect: the entries on the wrong
side trade places in pairs, outermost first.  That is exactly what the two
cursors do, and keeps the order of the remaining rows, so that the model's states
are the program's.

Coordinates are integers.  The code only compares coordinates, so a finite part
of the order is enough; `nextafter(max)` is `max + 1`.  Node fields that repeat
another one (`active` = `leaf`, `parent`, `axis`, `pivot`) are left out.

### SummaryStore

All measures of a partition are sampled over the same rows with one tracker, so
one slot stands for them.  `nonNan` and `outlierBank` are bags of rows: which
rows were folded in and how often is what matters, the floating-point moments are
a function of it.  Rows outside `Present` have a missing value: they are drawn and
counted but not folded.  A slot the store has not grown to, an absent summary and
a null tracker all read as zero in the code; one `EmptySlot` stands for them.
Trackers hold absolute positions, the code's offsets plus the range's constant
begin.

`IndexNext` is the store and the table under *any* client: prepare a leaf, draw
any eligible positions, fold, crack.  It only assumes, as the engine ensures,
that no crack starts while cursors are in flight.  `IndexSpec` is checked on its
own and again as a property of the engine, which shows that the engine is such a
client.

### QueryEngine

`phase` says where `execute` is.  The descent keeps the partitions still to visit
in `todo`, depth first; each visit is one action per case of `descend`.  A round
is `StartRound` (effective targets, escalation), one draw action per stratum,
then `FoldRound` or `EmptyRound`.  `reading.next` is the return address: the pilot
and planned rounds return to the loop, the terminal read to its end, an exact
request to its own.

Statistics are abstracted to what they decide:

- `MaySatisfy` / `MayFail`: a stratum read in full has no variance, one with fewer
  than two samples makes the interval unbounded, anything else may go either way.
- `Plans`: any targets between the clamps of `Allocator::plan` (`min` with the
  stratum, `max` with the sample, the pilot for a stratum below two samples).
  `PilotPlan` is `plan_pilot` as it is.
- `Draws`: any subset of the right size of the eligible positions.
- A stratum read in full has no variance because the sums the variance is taken from
  are finite.  An infinite or overflowing measure does not reach the engine: the
  converter's `write_manifest` writes a non-finite sum as `null`, and `read_manifest`
  throws on it.
- `would_scan` on the fixed span of the table grows with the number of rows, so it
  is a threshold, `ScanRows`.  The gather itself is one step here; `ColumnGather`
  takes it apart.

`RangeAnswer` knows nothing of this.  It says that an answer counts the rectangle's
rows, that every present row of it is either *known* or *estimated*, never both
nor twice, and that an exact request leaves nothing estimated.

### ColumnGather

`Begin` is `read_round` with the cursors of its strata, `MergeRow` one pop of
`KWayMerge` (ties in any order, as a heap breaks them), `ServeResident`,
`ChooseScan` and `ChooseGather` the three ways of `gather_all` and
`gather_batch`, `ScanBlock` one block of `scan_span`, `ReadDirect` one
`pread_exact`.  The io_uring loop is taken apart at the points where the kernel
can come in between: `FillSlot` (one top-up), `SubmitQueue`, `HandleCompletion`,
`Drained`; `KernelReads` and `KernelFails` are the kernel.  `slots`, `freeSlots`
and `loop` are the arrays and counters of the same names.

Lengths are counted in values, so short reads end between values; in the code
they may end inside one, and the arithmetic is the same.  A column holds
`<<c, r>>` at row `r`, which makes a misplaced value visible.  `sortGather`
stands for both `sort_gather_by_row_id` and the `already_sorted` flag derived
from it.  The touched fraction is linear up to its saturation instead of
exponential: what matters is that it grows and that it reaches 1.  The kernel
accepts every queued read on a submit.  A gather that throws ends the process.

### PrebuiltIndex

Follows `initialize()`: `StopSplitting` and `SplitAtMedian` are the recursion of
`StaticKdAccessPath::build` on an explicit stack; `BuildGrid` is the counting
sort of the table by tile, `reset_with_children` and the owner map, whichever of
the two sources the rows come from; `MaterializeRow` and `ScoreRow` are a row of
the sweep with and without summaries; `StoreActive` and `StoreParents` the two
halves of `materialize_all_summaries`; `InstallFlags` is `finalize` and
`set_flags_by_rowid`.  Then queries crack, through `KdCrack`'s own actions, the
leaves they can reach.

Grid arithmetic rounds.  Coordinates are integers one representable step apart;
each inner edge that `lo + i * width` computes, and each threshold at which
`cell_index` passes to the next cell, lies independently within `Rounding` steps
of its exact place, and both are monotone.  The scores of rows are given
(`Score`), their formula is real arithmetic.

### DatasetFiles, ResultFiles, ExperimentRunner

`DatasetFiles` converts one row per step, writes the manifest last, and verifies.
`KillPrepare` leaves, of every column independently, any prefix of what was
written: buffers are flushed per file.  An overwriting conversion truncates the
columns while the previous manifest still stands, and `UpToDate` compares that
manifest with the source, not with the columns, so `Verified` carries the weight.
A source's identity stands for its size and its time in whole seconds, which is what
`up_to_date` compares; two sources that agree in both are one.  The statistics of a
measure are identified with the bag of values they are taken over, which is stricter
than the counts, sums and extremes the script compares, the latter with a tolerance of
1e-9.  The size check is part of `Opens`.  Only `--verify full`, the default, is
modelled, and the configuration is constant: `up_to_date` looks at the source alone, so
a `drop_if` or a domain edited after a preparation takes effect only with `--force`, and
such edits are outside the model.

`ResultFiles` keeps path names apart from files, because a process writes to what
it opened, whatever that is called by then: unlinking or renaming a temporary
under a living engine is how the interesting cases arise.  A row written at an
offset that is not the file's end marks the file torn.

`ExperimentRunner` composes both: an operator issues commands (prepare, replace
the source, edit the workload's size or install a build, run with `--stale`,
`--force` or neither), one at a time and never a preparation during a run;
`ReuseWorkload`, `WriteWorkload` and `WorkloadFails` are `ensure_workload`;
`SkipCell`, `StartCell`, `PublishFirst`, `PublishSecond` and `CellFails` are the
loop of `_run_plan` and `run_cell`, with the two `os.replace` calls apart.
`KillEngine`, `KillRunner` and `KillPreparation` happen at any step.  An engine
may survive its runner (`OrphansSurvive`), a generator may not.  The lock excludes
a second runner, so there is one.  There is one workload and one dataset.

## 3. What TLC checks

| Run | Instance | Shows |
|---|---|---|
| `kd_crack` | 2-D, 6 rows with shared coordinates, threshold 1, 6 queries | the cracking properties and the inductive invariant |
| `summary_store` | 1-D, 4 rows, one flagged, one missing, threshold 1, 3 queries | the store's properties under any client |
| `engine_a3i` | 1-D, 9 rows with gaps, two indistinguishable rows both flagged, one missing; summaries persist, on disk | the engine's properties, termination, `RangeAnswer`, `IndexSpec` |
| `engine_sampling` | 2-D, 8 rows, leaves of up to 6; nothing persists, on disk | the same counting and sampling where strata are sampled over several rounds |
| `column_gather` | 2 columns of 11 rows in pages of 2, slots of one page, ranges of at most two, 3 slots, 5 batches, 2 gathers | every value to its stratum, slots, bytes, termination |
| `prebuilt_index` | 2-D, 5 rows, grid of 3 x 3 with edges off by one step, median tree, adaptive tree, budgets 0 and 2 | layout, eager summaries, routing, outliers |
| `experiments` | 2 cells, workloads of 1 or 2 queries, 2 sources, 2 builds, 5 commands, 2 kills, no orphans | prepared data, published results, successful runs, termination |
| `pre_error_documented` | as `engine_a3i` | a statement of the documentation the code does not keep |
| `tile_bounds_documented` | as `prebuilt_index` | the same |
| `workload_documented`, `coordinates_documented` | as `experiments` | the same |
| `cells_documented` | as `experiments`, two processes, orphans survive | the same |

Properties worth explaining:

- `ContentsFrozen` and `LeafUnmoved` are the two facts about movement everything
  else stands on: a partition's *set* of rows never changes (summaries stay
  right), and a leaf that survives a step does not move a row (trackers stay
  right), even when a cut moved entries before it turned out to make no progress.
- `CompleteIsExact` is the reason a retired summary may answer: for every
  partition, live or retired, a complete slot holds each present row once.
- `TrackerMatchesSample` relates tracker, moments and cursors in flight.
- `EachRowCountsOnce` is an invariant of the query *in progress*: at every step,
  cracks included, a qualifying row is in the bucket, in the add-back, in a
  stratum, awaiting its bank, or in exactly one partition still to visit.
- `ReadsAccountedFor` is about rows, not their number: `m.reads` is what
  `measure_reads` counts, kept as the bag of the rows fetched.  A row fetched twice
  shows even where another row goes unread for it, and a row from outside the
  rectangle shows too.  The counters `sampled_rows`, `exactified_rows` and
  `outlier_rows` are computed apart from it, as in the code, by the effective target
  of each round and by the flags; that they add up to the bag's size is the identity
  of `query.hpp:124`.
- `AnswersAreRight` is refinement of `RangeAnswer`; `EveryQueryAnswered` its
  liveness.
- `IndexSpec` as a property of `engine_a3i` says that every engine step is a step
  of the store's specification or leaves it alone.
- `ValuesReachTheirStrata` is about a whole round: whatever path each value took,
  and also when two cursors list the same row, each cursor gets each of its rows
  as often as it listed it.
- `SlotsAccounted` says that a slot is on the free stack or behind exactly one
  read.  It is why no buffer is overwritten while the kernel may still fill it,
  and why the branch for a full submission queue is never needed.
- `EagerSummariesExact` holds *after* cracks too: the summary of an inner
  partition still describes rows that moved below it.
- `RoutesEveryRow` holds although `TilesEncloseRows` does not: row and query are
  placed by the same monotone function, so routing is right where bounds are not.
- `PreparedIsSurvivors` says what the verification is worth: it compares the
  columns with the manifest, and the manifest with the source, not the columns
  with the source.
- `SuccessMeansMeasured` relates both files of each cell, the build installed now
  and the options of the run, across earlier runs that were killed in between.

Bounds.  In the engine's runs nothing is cut off by a constraint: tables and
query sets are finite and every loop of the program ends, so the state spaces are
complete, for any number of queries in any order.  Six to nine rows with a threshold of one or
two are enough for a tree several levels deep, cracks with and without progress,
cracks inside cracked leaves, partial and complete summaries of retired
partitions, an all-flagged leaf, every escalation and every end of the round
loop.  `PilotSize` 2 makes strata above four rows be piloted rather than read,
`MaxRounds` 4 is the code's default and leaves room for two planned rounds.  Nine
rows let a stratum of `engine_a3i` be sampled by one round and read further by the
next, which is when a row could be fetched again.  `engine_sampling` is where strata
take the most rounds, within one query: nothing persists there, so no query starts from
the samples of another.  Samples carried over are covered by `NoRowReadTwice` in
`summary_store`, of which `engine_a3i` is shown to be a client, and by the theorem
`StrataSampledWithoutReplacement`, which holds with `Persist` on or off.

`column_gather` has two gathers because the ring, once set up, is shared: the
second starts with what the first left in the slots.  Eleven rows make the last
page short; the batches contain adjacent and distant pages, a range too large for
a slot, one split at its cap, two rows of one page, a row wanted twice, a batch
dense enough to be scanned with a block in which nothing is wanted, and none at
all.  `prebuilt_index` has rows at tile edges, two at one point, a tie for the
last place among the outliers and a row without a score.  `experiments` needs
five commands for its longest story (prepare; replace the source and put it back
around a killed preparation; prepare again) and two kills to interrupt a run and
the run that resumes it.  `MaxRows` is 0 there: the cap on survivors is modelled
and not exercised.

Fairness.  `EngineSpec` assumes weak fairness of `EngineStep` only: `execute` is
one thread that keeps running once called.  Queries need not come.  No fairness
is assumed between the branches of a choice: sampling that never satisfies the
request is not excluded, the round budget ends it.  The gather is a step that
returns; a device that never answers is outside the model.

`GatherSpec` assumes weak fairness of the engine's thread and of the kernel:
io_uring promises no order, but a read it accepted completes, in full, short or
with an error; the length of a short read is at least one value, so resuming
makes progress.  `ExperimentRunner`'s `Fairness` says that a preparation, a
runner and an engine that are running go on; nobody need ever issue a command,
and kills are bounded.  An engine that never ends is outside the model.

Deadlock is checked in the engine's runs: the engine can always take another
query.  It is not checked in `column_gather` (a thrown gather ends the process,
and `MaxGathers` bounds the rest), `prebuilt_index` (an index with nothing left
to crack is at rest) and `experiments` (`MaxCommands`).

### Documentation that disagrees with the code

Shown by a run:

- `kd_tree.hpp:3`: a node owns a slice of the table and its bounding rectangle, and the
  tiles of a grid are nodes (`grid_akd_access_path.hpp:4`).  A tile's bounds and its rows are computed by different arithmetic
  (`grid_akd_access_path.cpp:22` and `:36`).  On [0, 1] with 100 cells, 14 of the
  hundredths lie outside their tile; on a constant axis, the only tile with rows
  is the empty [v, v).  A query with a bound in such a gap loses or gains rows.
- `workload_generator.hpp:5`: the same configuration reproduces the same file.  A
  generator killed while writing leaves a shorter file that is reused
  (`workload_generator.cpp:325`).
- `parquet_to_columns_pipeline.cpp:349`: a missing coordinate drops its row.  A
  NaN does not, and a crack over such a row may never end
  (`kd_tree.cpp:138` and `:141`).  `KdCrack` takes the comment's word: its points
  are ordered.
- `run_experiments.py:579`: a present result file is a complete cell.  Not when an
  engine outlives its runner, against which `:147` warns.
- `query.hpp:193`: the error bound before exactification is 0 only when there was
  none.  A scan-to-exactify escalation leaves it 0 (`query_engine.cpp:650`).

Met while modelling, not run:

- `docs/EXPERIMENTS.md:113` gives `measure_reads` as the sampled and the exactified
  rows times the measures and says that `validate_results.py` checks it; `:120` gives
  the access-path split as the same sum.  Both omit the held-out rows.  The code counts
  them apart (`query_engine.cpp:167` and `:487`), and `query.hpp:124` and
  `validate_results.py:410` include them, as `ReadsAccountedFor` does.
- `query.hpp:73` calls `RoundPath::round` 1-based; exact requests record round 0.
- `partition_state_store.hpp:40` says a retired partition's summaries are kept;
  partial ones are dropped.
- `binary_column_store.cpp:97` says a bandwidth ratio of 1.0 disables the scan;
  the touched fraction rounds to 1.0 for dense batches and the scan is taken.
- `binary_column_store.cpp:588` resets the number of unsubmitted reads whatever
  `io_uring_submit` accepted.

## 4. What TLAPS proves

Every safety property that a passing run checks is proved: all invariants and
action properties of the passing runs, and the two refinements among them; those of
`experiments` under the hypotheses stated with them below.  TLC confirms every
inductive invariant named below on the instances of those runs.

### KdCrackProofs

For every number of dimensions and rows, every table, extent, threshold and set of
queries, `CrackSpec` keeps `CrackInv` and, from it, `CrackTypeOK` (a conjunct,
which no run checks apart), `ColumnsAgree`, `RowsInBounds`, `LeavesTile`,
`CrackIsolatesQuery`, and the action properties `ContentsFrozen` and
`LeafUnmoved`.

The argument.  None of the properties is inductive.  `RowsInBounds` needs that
moving rows within a leaf changes no other partition except by permuting the rows
of an ancestor, which is `Nested`; `LeavesTile` follows from `Covered` and
`Nested`; that a crack isolates its query needs `Trimming`: the rows that qualify
stay in the trimmed partition, and the faces already cut divide it no longer.
`CrackInv` is their conjunction with `ChildrenTile`.

The core is one lemma about `PartitionRange`: the pairs swapped form an
involution of the range (`PartnerSwaps`), after it the entries below the pivot are
exactly those left of the cut (`PartitionRangeMoves`), and a cut without progress
moves nothing.  The rest follows per action: `CutPreserves` for a cut that makes
children, `NoCutPreserves` for one that does not, and trivial steps for begin and
end.  `StepKeepsRows` gives the two action properties.

### SummaryStoreProofs

`IndexRefinesCrack` comes first: a step of the store is a step of `CrackSpec` or
leaves the table and the tree alone.  So `CrackInv` and the two action properties
hold of the store as well, and they carry its proof.

`IndexInv` is `CrackInv` with `StoreInv`.  Its point is what each part is stated
of.  `SlotSound` speaks of *rows*: there is a sample among the partition's rows not
held out that the slot's counts and moments are of.  A crack moves rows but
changes no partition's set of them, so the statement outlives the partition's
time as a leaf; this is how `CompleteIsExact` reaches retired partitions.
`TrackerMatchesSample` speaks of *positions*, and only of live leaves, which do
not move.  `BatchSound` says that no cursor is in flight during a crack, and
`RetiredAreSplit` that what a crack hands over for retirement is no leaf, so that
dropping its tracker loses nothing in use.

From it: `StoreTypeOK`, `TrackerMatchesSample`, `BankedOnce`, `CompleteIsExact`,
and the action properties `CompleteIsFinal` and `NoRowReadTwice`.

### QueryEngineProofs, AnsweringEngineProofs

`EngineRefinesIndex` shows that the engine, where summaries persist, is a client
of the store as `IndexSpec` allows: nothing it does breaks the rule that no crack
starts while cursors are in flight.  `EngineRefinesCrack` holds in either
configuration.

`EngineInv` adds to `IndexInv` the state of the query in progress.

- `RowsSettled` is the strengthening of `EachRowCountsOnce`.  It divides the
  qualifying rows into those no partition still to visit has (`Settled`) and the
  others, and says that each settled present row is in the exact bucket, the
  add-back, a stratum or a bank to come, exactly once.  It is stated of rows, so
  that the cracks during the descent do not disturb it.
- `TodoSound` keeps the partitions to visit apart from each other and from the
  strata; `StratumSound` keeps each stratum within one live leaf.
- `DrawSound` is about the middle of a round: the strata already drawn for will
  have reached their targets when the cursors are folded.  It is what makes
  `OutcomeSound` inductive: after a round at full targets everything is read, so
  an exhausted loop cannot occur (`NeverExhausted`) and an exact answer has
  every present row (`ExactAnswersAreExact`).
- `ReadsSound` says of every row that it has been read at most once and, together with
  the rows still to be read for the strata, is counted at most once and only if it is
  one of the query's.  A row enters the bag as it leaves the unread (`GatheredOnce`,
  `FoldReads`), so this is what `ReadsAreAccountedFor` follows from.

All invariants of the two engine runs follow, with `Persist` on or off.  The
statistics are left open (`MaySatisfy`, `Plans`, `Draws`), so what is proved holds
whatever the estimator decides and whichever rows the sampler picks.

`EveryAnswerIsRight` is the refinement of `RangeAnswer`.  Steps inside `execute`
stutter; at the end of a query `RowsSettled`, with nothing left to visit, turns
into the partition of the rectangle's present rows into known and estimated ones;
and `ExactStays` says that an exact request never enters the rounds which may stop
short of a full read, so its answer estimates nothing.

### PrebuiltIndexProofs

For every grid size and rounding of its arithmetic, every score and outlier
budget, and each of the three substrates:

- `LayoutInvariant`: the layout `initialize` leaves, and every later crack, keeps
  `LayoutInv`; from it `LayoutSound` and `RoutesEveryRow`.  Three facts carry it.
  The slots of the counting sort are a permutation of the table (`SlotsPermute`:
  distinct rows get distinct slots, and there are as many).  The
  middle element that `nth_element` leaves exists in any range with rows and is a
  coordinate of one of them, so a median cut is a cut.  Placing is monotone, so the tiles between a query's corners hold every row in it even where
  the tiles' bounds do not.
- `OutliersAreTheTop`: a heap bounded by the budget, over the rows swept so far,
  holds the highest scores of them (`SweepSound`).
- `SummariesStayExact`: the children of an inner partition share out its rows
  (`LinksSound`), so a sum of exact summaries is exact for the parent, and a crack
  leaves the sets of rows, hence the summaries, alone.  `PrebuiltInvariant` is
  the whole inductive invariant, `PrebuiltTypeCorrect` the type invariant.

### ColumnGatherProofs

For every size of columns, pages, slots, ring and ranges and every set of batches,
with the kernel completing reads in any order, short or failed: `GatherInvariant`
(`GatherInv` is inductive), and from it `GatherTypeCorrect` and
`SlotsStayAccounted`; `ReadInvariant` (`ReadInv` is, on top of it), and from it
`BytesStayAsReported` and `ValuesReachStrata`.

The argument for the slots.  `SlotsAccounted` counts, for each slot, the places that name it: the
free stack, the submission queue, the reads in flight, the completions.  The proof
works with `Accounted`, which says of each slot that exactly one of the four counts
is one, and each step of the loop moves one slot from one place to the next.  Three
facts carry the steps.

- What is queued or in flight for a slot is *the* read of that slot's task and
  fill (`TasksSound`, `Answers`).  The kernel holds a set; were two queued reads
  equal, or one equal to a read in flight, a submission would lose one.
- The queue has room for another entry (`QueueHasRoom`, from `NamedOnce`): as many
  entries as the ring has slots would name all of them, also the one in hand.  So
  the branch of `submit_task` that flushes a full queue is never taken.
- When the last completion has been handled and no task is left, every slot is on
  the free stack, so queue, ring and completions are empty (`RingAtRest`), which is
  what the next gather starts from.

The reads stay inside the column and the slot because the plan does:
`CoalescedIsAPlan` shows that every range is within the table, and only a range
that fits a slot becomes a task (`SmallIsPlanned`); a short read leaves the
remainder of its range (`EntryIsARequest`).

The argument for the values.  `ValuesReachTheirStrata` and `BytesAsReported` speak of
a gather that has returned; `ReadInv` says what is true of it before.

- While the cursors merge, the batch holds what each cursor has passed, as often and
  under its mark (`MergeSound`).  Sorted cursors make a sorted batch (`OrderSound`),
  which is what allows the gather to skip its own sort.
- The ranges of a plan are apart, and each row wanted lies in the range that counts it
  among its hits (`Covering`), by induction along the coalescing.  Hence two reads are
  of different columns or of rows that do not meet, and a step that reads for one of
  them leaves what is known of all others (`ReadUpTo`) as it was.
- A task that has not begun has read nothing.  One under way has read exactly the
  values its slot holds, or will hold once the completion waiting for it is handled
  (`Arrived`, `Holding`); that is why a short read resumes where the last one ended,
  with no value read twice.  A task whose slot is free again has delivered its range
  (`Delivered`), although other tasks have written to the same outputs since.
- A scan has every value in its place up to the row it has come to, and has read none
  beyond it (`ScanSound`).
- After an exception the reads in flight are of values not yet read (`KernelSound`), so
  those that still complete read nothing twice.

With all tasks done every row wanted is in a delivered range, in each column
(`Served`), and what the device moved is the ranges, once per column.

### ExperimentRunnerProofs

*The dataset.*  For every source, filter, domain and cap, and any number of killed
preparations and replaced sources: `DatasetInvariant`, and from it
`PreparedStaysSurvivors`, *where no source's first rows have the statistics of another
source and are other rows* (`StatisticsTell`).  The hypothesis is what the program
relies on: `up_to_date` compares the manifest with the source, `verify` the columns with
the manifest's statistics, and nothing the columns with the source.  Two files with the
same rows in another order violate it; a conversion of the one, killed at the manifest
of the other, would pass.  It is about two different sources only, and not needed
at all with `--max-rows`, where no conversion is skipped.

The argument is `DatasetInv`.  A manifest that can be read is one source's own
(`ManifestSound`), for it is written last and whole or not at all.  The columns are
always the first rows of one source, each perhaps cut off elsewhere (`ColumnsSound`):
of which source, a kill leaves open.  A conversion in progress has put aside the rows kept
among those it has read, in order (`ConversionSound`; `Rank` counts them, and
`RankReached` and `RankTells` make the k-th survivor one row).  Verification starts with
the manifest of the source as it is (`Described`): after a conversion by construction,
after a skip by its stamp.  The sizes then make every column as long as the source has
survivors, and the statistics make it the source's.

*The results.*  For every plan, every number of cells, processes, queries and builds, and any
number of commands and kills at any point, *as long as an engine does not outlive
its runner*: `PresentStaysComplete` and `SuccessStaysMeasured`.  The hypothesis is
needed: with `OrphansSurvive`, `cells_documented` breaks the first of them.

The argument is `RunnerInv`.  At most one engine is alive, the child the runner
waits for (`OnlyTheChild`); it writes to the files that the two temporaries of the
current cell name, and these hold what it has written so far (`Writes`).  No two
paths name one file (`NamesDistinct`), so writing to a temporary leaves every
published file alone (`WritingKeepsOutputs`), a rename takes the file away from
where it was (`RenameMoves`), and what a killed engine left is emptied by the next
one that opens the path.  A new file is really new: there are more files than paths
and processes could name (`AFileIsFree`).

`cell_is_fresh` looks at metadata alone.  That this is enough is `MetadataSound`:
where metadata stands, complete results stand beside it, of the same build or a
later one, also after a runner was killed between its two renames
(`HalfPublished`).  So metadata of the build installed now means results of it.
The contents of the dataset do not come into it, only that it opens.

### SumLemmas

The models add up with `SumFunction` of the community modules, defined by
recursion on a chosen element.  The module shows, from well-founded induction on
sizes, that such a sum exists, is a natural number, splits over any element and
any disjoint union, and is the cardinality of a union of disjoint sets where it
adds up their sizes.  `IterationExists` does the same for a function defined by
recursion on the numbers up to a bound, which is how coalescing is written.

### Assumptions

`TableAssumption`, `ExtentAssumption`, `DimsAssumption`: the points are integer
vectors, the manifest's extent encloses them, queries are rectangles.
`PresentAssumption`, `EngineAssumption`: the present rows are rows of the table,
the pilot size, the round budget and the scan threshold are naturals, the last not
zero.  `PrebuiltAssumption`: the table has a row, the grid a cell, scores and budgets are
naturals, and no row is held out before the scorer runs.  `EngineRefinesIndex`
alone also assumes `Persist`.  `StoreAssumption`: sizes are positive, the cap on a
range and a slot are whole numbers of pages, and batches ask for rows of the table.
`CursorsDiffer`: two cursors of a batch differ in their stratum or their mark, for
`read_round` makes at most one of body rows and one of held-out rows per stratum
(`query_engine.cpp:296`).
`RunnerAssumption`, `ResultAssumption`: the plan is a sequence of the cells, which are
finitely many like the processes, and workloads have at least one query.
`CellAssumption`: a cell is a number, missing or not-a-number, and the declared domains
are numbers.  TLC evaluates all of them in the runs; `StatisticsTell` holds of the two
sources of `experiments`.

### Only model-checked

Liveness (`EveryQueryAnswered`, `GatherReturns`, `CommandsEnd`): it needs fairness
and `ENABLED`, which the prover does not do.  What stays open in the models themselves, the outcome
of real arithmetic, is proved irrelevant to the properties, not right.

## 5. Not modelled, and the plan

Not modelled, because it is real or random arithmetic: the estimates, variances
and quantiles, the Neyman allocation, the outlier score, the reservoir and the
calibration of workloads, the rejection and shuffle inside `Sampler::draw`.
Because it keeps no state: the truth store, the analysis and plotting scripts,
reports and dry runs, argument parsing, cache advice.  Because it only produces
the source file: CSV import and the synthetic generator.  Because nothing calls
it: `register_partition` and `replace_with_complete` of the state store.  Full
disks, unchecked stream writes, and partial submissions to the kernel are listed
as hazards without a property.

Next:

`HoarePartition`: the two-cursor loop implements `PartitionRange`.
