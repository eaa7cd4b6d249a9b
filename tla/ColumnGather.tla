---------------------------- MODULE ColumnGather ----------------------------
(***************************************************************************)
(* How one round's rows are read: the k-way merge of the strata's cursors  *)
(* (aqp/stratum_cursor.cpp, QueryEngine::read_round) and the batched       *)
(* gather of the column store (storage/binary_column_store.cpp): sort,     *)
(* choose between scan and gather, coalesce into page ranges, read large   *)
(* ranges directly and small ones through a ring of slots shared with the  *)
(* kernel, scatter the values back into the caller's order.                *)
(*                                                                         *)
(* The unit of length is one value of a column.  What the column c holds   *)
(* for row r is the pair <<c, r>>, so a value read from the wrong place    *)
(* cannot look right.                                                      *)
(***************************************************************************)
EXTENDS Integers, FiniteSets, Sequences

CONSTANTS
  RowCount,         (* rows of every column                                *)
  MeasureCount,     (* columns gathered together                           *)
  RowsPerPage,      (* kRowsPerPage                                        *)
  MaxRangeRows,     (* kMaxRangeBytes: cap on one coalesced range          *)
  SlotRows,         (* kSlotBytes: staging room of one ring slot           *)
  RingDepth,        (* kRingDepth: slots, and entries of the ring's queue  *)
  ScanBlockRows,    (* kScanBlockRows                                      *)
  FullFraction,     (* the touched fraction 1.0, in the steps used here    *)
  Ratio,            (* A3I_RANDOM_SEQ_BW_RATIO, in the same steps          *)
  Batches,          (* the cursor sets a round may ask for                 *)
  MaxGathers,       (* bound: gathers served by one store                  *)
  None              (* a slot or output cell nothing was written to        *)

ASSUME StoreAssumption ==
  /\ {RowCount, MeasureCount, RowsPerPage, MaxRangeRows, SlotRows, RingDepth,
      ScanBlockRows, FullFraction} \subseteq Nat \ {0}
  /\ MaxRangeRows % RowsPerPage = 0 /\ SlotRows % RowsPerPage = 0
  /\ Ratio \in 1 .. FullFraction
  /\ MaxGathers \in Nat
  /\ Batches \subseteq Seq([rows : Seq(0 .. RowCount - 1), tag : Nat, outlier : BOOLEAN])

\* A stratum has at most one cursor of its body rows and one of its held-out rows.
ASSUME CursorsDiffer ==
  \A b \in Batches : \A x, y \in DOMAIN b :
    b[x].tag = b[y].tag /\ b[x].outlier = b[y].outlier => x = y

Rows    == 0 .. RowCount - 1
Columns == 0 .. MeasureCount - 1
Slots   == 0 .. RingDepth - 1
Value   == Columns \X Rows

VARIABLES
  backing,      (* MeasureStorage                                          *)
  sortGather,   (* EngineConfig::sort_gather_by_row_id                     *)
  ring,         (* ring_: not yet tried, live, or unavailable              *)
  gathers,      (* gathers begun                                           *)
  phase,        (* where the gather in progress stands                     *)
  cursors,      (* the cursors being merged, each at its walk position     *)
  batch,        (* the merged batch: row ids and where each one belongs    *)
  ranges,       (* the coalesced page ranges                               *)
  outs,         (* the values handed back                                  *)
  scan,         (* scan_span: column, block offset, cursor into the ids    *)
  direct,       (* reads by pread done so far                              *)
  slots,        (* per slot: its task, how much has arrived, the bytes     *)
  freeSlots,    (* free_slots, a stack                                     *)
  loop,         (* next_task, done, inflight, unsubmitted                  *)
  sq, kernel, cq,  (* entries queued, reads in flight, completions         *)
  stats,        (* GatherPathStats                                         *)
  deviceReads   (* how often each value was read from the device           *)

planVars   == <<cursors, batch, ranges>>
ringVars   == <<slots, freeSlots, loop, sq, kernel, cq>>
configVars == <<backing, sortGather>>
gatherVars == <<configVars, ring, gathers, phase, planVars, outs, scan, direct,
                ringVars, stats, deviceReads>>

N == Len(batch)
NoStats  == [scanRows |-> 0, gatherRows |-> 0, scanBytes |-> 0, gatherBytes |-> 0]
IdleLoop == [next |-> 0, done |-> 0, inflight |-> 0, unsubmitted |-> 0]
Lesser(a, b) == IF a <= b THEN a ELSE b

GatherInit ==
  /\ backing \in {"OnDisk", "Eager"}
  /\ sortGather \in BOOLEAN
  /\ ring = "untried"
  /\ gathers = 0
  /\ phase = "idle"
  /\ cursors = <<>> /\ batch = <<>> /\ ranges = <<>> /\ outs = <<>>
  /\ scan = [column |-> 0, base |-> 0, j |-> 1]
  /\ direct = 0
  /\ slots = [s \in Slots |-> [task |-> 0, filled |-> 0,
                               bytes |-> [b \in 0 .. SlotRows - 1 |-> None]]]
  /\ freeSlots = <<>> /\ loop = IdleLoop
  /\ sq = <<>> /\ kernel = {} /\ cq = <<>>
  /\ stats = NoStats
  /\ deviceReads = [v \in Value |-> 0]
-----------------------------------------------------------------------------
(* The merge.                                                              *)

\* The position in a sequence of ids of the j-th smallest, equal ids in order.
Before(ids, h, i) == ids[h] < ids[i] \/ (ids[h] = ids[i] /\ h < i)
Ranked(ids, j)    == CHOOSE i \in DOMAIN ids :
                       Cardinality({h \in DOMAIN ids : Before(ids, h, i)}) = j - 1
InOrder(ids)      == [j \in DOMAIN ids |-> ids[Ranked(ids, j)]]

\* build_cursor: the rows of a cursor, in draw order or sorted.
Built(c) == [rows |-> IF sortGather THEN InOrder(c.rows) ELSE c.rows,
             pos |-> 1, tag |-> c.tag, outlier |-> c.outlier]

Begin(request) ==
  /\ phase = "idle" /\ gathers < MaxGathers
  /\ gathers' = gathers + 1
  /\ phase' = "merge"
  /\ cursors' = [x \in DOMAIN request |-> Built(request[x])]
  /\ batch' = <<>> /\ stats' = NoStats
  /\ deviceReads' = [v \in Value |-> 0]
  /\ UNCHANGED <<configVars, ring, ranges, outs, scan, direct, ringVars>>

\* KWayMerge::next_chunk takes the least head; the heap breaks ties as it likes.
Live    == {x \in DOMAIN cursors : cursors[x].pos <= Len(cursors[x].rows)}
Peek(x) == cursors[x].rows[cursors[x].pos]

MergeRow(x) ==
  /\ phase = "merge"
  /\ x \in Live /\ \A y \in Live : Peek(x) <= Peek(y)
  /\ batch' = Append(batch, [row |-> Peek(x), tag |-> cursors[x].tag,
                             outlier |-> cursors[x].outlier])
  /\ cursors' = [cursors EXCEPT ![x].pos = @ + 1]
  /\ UNCHANGED <<configVars, ring, gathers, phase, ranges, outs, scan, direct,
                 ringVars, stats, deviceReads>>
-----------------------------------------------------------------------------
(* Order, access path, ranges.                                             *)

\* The ids are visited in ascending order, through a permutation when they are
\* not known to be ascending; results go back through it to the caller's order.
Ascending == sortGather \/ \A i \in 1 .. N - 1 : batch[i].row <= batch[i + 1].row
PosOf(j)  == IF Ascending THEN j ELSE Ranked([i \in 1 .. N |-> batch[i].row], j)
RowAt(j) == batch[PosOf(j)].row
Low      == RowAt(1)
SpanRows == RowAt(N) - Low + 1

\* would_scan: the fraction of the span's pages that n rows scattered over it
\* touch grows with n / span and, in floating point, reaches 1.0.
Touched(n, span) == Lesser(FullFraction, (n * RowsPerPage * FullFraction) \div span)
WouldScan        == Touched(N, SpanRows) >= Ratio

\* Coalescing: the pages of the next row join the last range if they touch it
\* and the range stays below its cap.
PageBegin(r) == (r \div RowsPerPage) * RowsPerPage
PageEnd(r)   == Lesser(RowCount, PageBegin(r) + RowsPerPage)
\* Mutant: a page joins only the range it follows, not the one it lies in.
MutJoins(r, cur) == PageBegin(r) = cur.off + cur.len
Joins(r, cur) == /\ PageBegin(r) <= cur.off + cur.len
                 /\ PageEnd(r) - cur.off <= MaxRangeRows
Extended(rg, r) ==
  [rg EXCEPT !.len   = IF PageEnd(r) > @ + rg.off THEN PageEnd(r) - rg.off ELSE @,
             !.count = @ + 1]
WithRow(rs, j) ==
  LET r == RowAt(j)
      l == Len(rs)
  IN  IF rs # <<>> /\ Joins(r, rs[l])
      THEN [rs EXCEPT ![l] = Extended(rs[l], r)]
      ELSE Append(rs, [off |-> PageBegin(r), len |-> PageEnd(r) - PageBegin(r),
                       first |-> j, count |-> 1])
Coalesced ==
  LET upTo[j \in 0 .. N] == IF j = 0 THEN <<>> ELSE WithRow(upTo[j - 1], j)
  IN  upTo[N]
Bytes(rs) == LET sum[i \in 0 .. Len(rs)] == IF i = 0 THEN 0 ELSE sum[i - 1] + rs[i].len
             IN  sum[Len(rs)]

\* Ranges too large for a slot, or all of them without a ring, are read directly.
Fits(rg) == rg.len <= SlotRows
Picked(small) ==
  LET upTo[k \in 0 .. Len(ranges)] ==
        IF k = 0 THEN <<>>
        ELSE IF Fits(ranges[k]) = small THEN Append(upTo[k - 1], ranges[k])
        ELSE upTo[k - 1]
  IN  upTo[Len(ranges)]
Small    == Picked(TRUE)
Large    == IF ring = "live" THEN Picked(FALSE) ELSE ranges
Total    == Len(Small) * MeasureCount

Blank == [c \in Columns |-> [i \in 1 .. N |-> None]]

\* gather_all on a resident store, or with nothing to read.
ServeResident ==
  /\ phase = "merge" /\ Live = {}
  /\ N = 0 \/ backing = "Eager"
  /\ phase' = "served"
  /\ outs' = [c \in Columns |-> [i \in 1 .. N |-> <<c, batch[i].row>>]]
  /\ UNCHANGED <<configVars, ring, gathers, planVars, scan, direct, ringVars, stats,
                 deviceReads>>

ChooseScan ==
  /\ phase = "merge" /\ Live = {} /\ N > 0 /\ backing = "OnDisk"
  /\ WouldScan
  /\ phase' = "scan"
  /\ scan' = [column |-> 0, base |-> 0, j |-> 1]
  /\ outs' = Blank
  /\ stats' = [stats EXCEPT !.scanRows = N]
  /\ UNCHANGED <<configVars, ring, gathers, planVars, direct, ringVars, deviceReads>>

\* The ring is set up by the first gather that gets here; setting it up may fail.
ChooseGather ==
  /\ phase = "merge" /\ Live = {} /\ N > 0 /\ backing = "OnDisk"
  /\ ~WouldScan
  /\ phase' = "direct"
  /\ ranges' = Coalesced
  /\ ring' \in IF ring = "untried" THEN {"live", "none"} ELSE {ring}
  /\ direct' = 0
  /\ outs' = Blank
  /\ stats' = [stats EXCEPT !.gatherRows  = N,
                            !.gatherBytes = Bytes(Coalesced) * MeasureCount]
  /\ UNCHANGED <<configVars, gathers, cursors, batch, scan, ringVars, deviceReads>>
-----------------------------------------------------------------------------
(* scan_span: each column once over the span, block by block.              *)

BlockBegin == Low + scan.base
BlockCount == Lesser(ScanBlockRows, SpanRows - scan.base)
BlockEnd   == BlockBegin + BlockCount

\* The first visiting position from j on with a row at or past r; N + 1 if none.
Advance(j, r) == CHOOSE i \in j .. N + 1 :
  /\ i = N + 1 \/ RowAt(i) >= r
  /\ \A h \in j .. i - 1 : RowAt(h) < r

ColumnScanned == scan.base >= SpanRows \/ Advance(scan.j, BlockBegin) = N + 1

\* The device delivers the values of a set once more.
Counted(read) == [v \in Value |-> deviceReads[v] + IF v \in read THEN 1 ELSE 0]

\* A block without a wanted row is not read.
ScanBlock ==
  /\ phase = "scan" /\ scan.column \in Columns /\ ~ColumnScanned
  /\ LET c    == scan.column
         from == Advance(scan.j, BlockBegin)
         to   == Advance(from, BlockEnd)
         hits == {PosOf(j) : j \in from .. to - 1}
         read == {<<c, r>> : r \in BlockBegin .. BlockEnd - 1}
     IN  /\ scan' = [scan EXCEPT !.base = @ + ScanBlockRows, !.j = to]
         /\ \/ /\ RowAt(from) >= BlockEnd
               /\ UNCHANGED <<outs, stats, deviceReads>>
            \/ /\ RowAt(from) < BlockEnd
               /\ outs' = [outs EXCEPT ![c] =
                    [i \in 1 .. N |-> IF i \in hits THEN <<c, batch[i].row>> ELSE @[i]]]
               /\ stats' = [stats EXCEPT !.scanBytes = @ + BlockCount]
               /\ deviceReads' = Counted(read)
  /\ UNCHANGED <<configVars, ring, gathers, phase, planVars, direct, ringVars>>

NextColumn ==
  /\ phase = "scan" /\ scan.column \in Columns /\ ColumnScanned
  /\ scan' = [column |-> scan.column + 1, base |-> 0, j |-> 1]
  /\ phase' = IF scan.column + 1 \in Columns THEN "scan" ELSE "served"
  /\ UNCHANGED <<configVars, ring, gathers, planVars, outs, direct, ringVars, stats,
                 deviceReads>>
-----------------------------------------------------------------------------
(* Reading the ranges: large ones directly, small ones through the ring.   *)

\* scatter: a finished range's values go to the caller's positions.
Scattered(c, rg, bytes) ==
  LET hits == {PosOf(j) : j \in rg.first .. rg.first + rg.count - 1}
  IN  [outs EXCEPT ![c] = [i \in 1 .. N |->
         IF i \in hits THEN bytes[batch[i].row - rg.off] ELSE @[i]]]

\* pread_exact: the whole range, however many calls it takes.
ReadDirect ==
  /\ phase = "direct" /\ direct < Len(Large) * MeasureCount
  /\ LET rg == Large[direct \div MeasureCount + 1]
         c  == direct % MeasureCount
     IN  /\ outs' = Scattered(c, rg, [b \in 0 .. rg.len - 1 |-> <<c, rg.off + b>>])
         /\ deviceReads' = Counted({<<c, rg.off + b>> : b \in 0 .. rg.len - 1})
  /\ direct' = direct + 1
  /\ UNCHANGED <<configVars, ring, gathers, phase, planVars, scan, ringVars, stats>>

EndDirect ==
  /\ phase = "direct" /\ direct = Len(Large) * MeasureCount
  /\ phase' = IF ring # "live" \/ Total = 0 THEN "served" ELSE "fill"
  /\ freeSlots' = [i \in 1 .. RingDepth |-> i - 1]
  /\ loop' = IdleLoop
  /\ slots' = [s \in Slots |-> [slots[s] EXCEPT !.task = 0, !.filled = 0]]
  /\ UNCHANGED <<configVars, ring, gathers, planVars, outs, scan, direct, sq, kernel,
                 cq, stats, deviceReads>>

TaskRange(task)  == Small[task \div MeasureCount + 1]
TaskColumn(task) == task % MeasureCount

\* Mutants: a resumed read starts over in the file; it asks for the whole range;
\* it is not announced to the next io_uring_submit.
MutEntryOff(s, task, already) ==
  [slot |-> s, column |-> TaskColumn(task), at |-> already,
   off |-> TaskRange(task).off, len |-> TaskRange(task).len - already]
MutEntryLen(s, task, already) ==
  [slot |-> s, column |-> TaskColumn(task), at |-> already,
   off |-> TaskRange(task).off + already, len |-> TaskRange(task).len]
Entry(s, task, already) ==
  [slot |-> s, column |-> TaskColumn(task), at |-> already,
   off |-> TaskRange(task).off + already, len |-> TaskRange(task).len - already]
MutAnnounced(already, n) == IF already > 0 THEN n ELSE n + 1
Announced(already, n)    == n + 1

\* submit_task: queue the read; a full queue is handed to the kernel first.
QueueFull == Len(sq) = RingDepth
Pending   == IF QueueFull THEN 0 ELSE loop.unsubmitted
SubmitTask(s, task, already) ==
  /\ sq' = Append(IF QueueFull THEN <<>> ELSE sq, Entry(s, task, already))
  /\ kernel' = IF QueueFull THEN kernel \union {sq[i] : i \in DOMAIN sq} ELSE kernel
  /\ slots' = [slots EXCEPT ![s].task = task, ![s].filled = already]

TopUp == loop.inflight < RingDepth /\ loop.next < Total /\ freeSlots # <<>>

FillSlot ==
  /\ phase = "fill" /\ loop.done < Total
  /\ TopUp
  /\ SubmitTask(freeSlots[Len(freeSlots)], loop.next, 0)
  /\ freeSlots' = SubSeq(freeSlots, 1, Len(freeSlots) - 1)
  /\ loop' = [loop EXCEPT !.next = @ + 1, !.inflight = @ + 1,
                          !.unsubmitted = Announced(0, Pending)]
  /\ UNCHANGED <<configVars, ring, gathers, phase, planVars, outs, scan, direct, cq,
                 stats, deviceReads>>

\* io_uring_submit, when there is something to submit.
SubmitQueue ==
  /\ phase = "fill" /\ loop.done < Total /\ ~TopUp
  /\ phase' = "wait"
  /\ IF loop.unsubmitted > 0
     THEN /\ kernel' = kernel \union {sq[i] : i \in DOMAIN sq}
          /\ sq' = <<>>
     ELSE UNCHANGED <<sq, kernel>>
  /\ loop' = [loop EXCEPT !.unsubmitted = 0]
  /\ UNCHANGED <<configVars, ring, gathers, planVars, outs, scan, direct, slots,
                 freeSlots, cq, stats, deviceReads>>

\* The kernel finishes a read, in any order: in full, short, or with an error.
Completed(e, got) ==
  /\ kernel' = kernel \ {e}
  /\ cq' = Append(cq, [slot |-> e.slot, res |-> got])
  /\ slots' = [slots EXCEPT ![e.slot].bytes = [b \in DOMAIN @ |->
                 IF b \in e.at .. e.at + got - 1
                 THEN <<e.column, e.off + (b - e.at)>> ELSE @[b]]]
  /\ deviceReads' = Counted({<<e.column, e.off + b>> : b \in 0 .. got - 1})
  /\ UNCHANGED <<configVars, ring, gathers, phase, planVars, outs, scan, direct,
                 freeSlots, loop, sq, stats>>
KernelReads(e) == e \in kernel /\ \E got \in 1 .. e.len : Completed(e, got)
KernelFails(e) == e \in kernel /\ Completed(e, 0)

\* Mutant: the slot of a short read is given back.
MutReleased(short) == TRUE
Released(short)    == ~short

\* handle_cqe, on the completion waited for and on those already there.
HandleCompletion ==
  /\ phase \in {"wait", "drain"} /\ cq # <<>>
  /\ cq' = Tail(cq)
  /\ LET s     == Head(cq).slot
         task  == slots[s].task
         rg    == TaskRange(task)
         got   == slots[s].filled + Head(cq).res
         short == got < rg.len
     IN  \/ /\ Head(cq).res = 0
            /\ phase' = "thrown"
            /\ UNCHANGED <<outs, slots, freeSlots, loop, sq, kernel>>
         \/ /\ Head(cq).res > 0 /\ short
            /\ phase' = "drain"
            /\ SubmitTask(s, task, got)
            /\ loop' = [loop EXCEPT !.unsubmitted = Announced(got, Pending)]
            /\ freeSlots' = IF Released(short) THEN Append(freeSlots, s) ELSE freeSlots
            /\ UNCHANGED outs
         \/ /\ Head(cq).res > 0 /\ ~short
            /\ phase' = "drain"
            /\ outs' = Scattered(TaskColumn(task), rg, slots[s].bytes)
            /\ slots' = [slots EXCEPT ![s].filled = got]
            /\ freeSlots' = Append(freeSlots, s)
            /\ loop' = [loop EXCEPT !.inflight = @ - 1, !.done = @ + 1]
            /\ UNCHANGED <<sq, kernel>>
  /\ UNCHANGED <<configVars, ring, gathers, planVars, scan, direct, stats, deviceReads>>

Drained ==
  /\ phase = "drain" /\ cq = <<>>
  /\ phase' = IF loop.done < Total THEN "fill" ELSE "served"
  /\ UNCHANGED <<configVars, ring, gathers, planVars, outs, scan, direct, ringVars,
                 stats, deviceReads>>

\* The caller folds the values; the next round may begin.
Return ==
  /\ phase = "served"
  /\ phase' = "idle"
  /\ UNCHANGED <<configVars, ring, gathers, planVars, outs, scan, direct, ringVars,
                 stats, deviceReads>>

Kernel == \E e \in kernel : KernelReads(e) \/ KernelFails(e)
Engine ==
  \/ \E x \in DOMAIN cursors : MergeRow(x)
  \/ ServeResident \/ ChooseScan \/ ChooseGather
  \/ ScanBlock \/ NextColumn
  \/ ReadDirect \/ EndDirect
  \/ FillSlot \/ SubmitQueue \/ HandleCompletion \/ Drained
  \/ Return

GatherNext == Engine \/ Kernel \/ \E request \in Batches : Begin(request)

\* The engine's thread keeps running and the kernel keeps answering; io_uring
\* promises no order, only that every read it accepted completes.
GatherSpec ==
  /\ GatherInit /\ [][GatherNext]_gatherVars
  /\ WF_gatherVars(Engine) /\ WF_gatherVars(Kernel)
-----------------------------------------------------------------------------
GatherTypeOK ==
  /\ backing \in {"OnDisk", "Eager"} /\ sortGather \in BOOLEAN
  /\ ring \in {"untried", "live", "none"}
  /\ phase \in {"idle", "merge", "scan", "direct", "fill", "wait", "drain", "served",
                "thrown"}
  /\ slots \in [Slots -> [task : Nat, filled : 0 .. SlotRows,
                          bytes : [0 .. SlotRows - 1 -> Value \union {None}]]]
  /\ \A e \in kernel : e.len > 0 /\ e.at + e.len <= SlotRows /\ e.off + e.len <= RowCount
  /\ stats \in [DOMAIN NoStats -> Nat]

\* What a round folds is what it asked for: when a gather returns, every row a
\* cursor listed has been read exactly as often as listed, for every measure, and
\* its value carries the tag and the held-out mark of that cursor ("out[i] = value
\* at row_ids[i], regardless of how the reads are scheduled internally").
Fed(c, r, x) == Cardinality({i \in 1 .. N :
  /\ outs[c][i] = <<c, r>>
  /\ batch[i].tag = x.tag /\ batch[i].outlier = x.outlier})
Asked(r, x) == Cardinality({j \in DOMAIN x.rows : x.rows[j] = r})
ValuesReachTheirStrata ==
  phase = "served" =>
    /\ \A c \in Columns, i \in 1 .. N : outs[c][i] = <<c, batch[i].row>>
    /\ \A x \in DOMAIN cursors, c \in Columns, r \in Rows :
         Fed(c, r, cursors[x]) = Asked(r, cursors[x])

\* Every slot is either on the free stack or behind exactly one read: queued, in
\* flight or completed.  No buffer is handed to two reads, none is lost, the
\* window never exceeds the ring, and the queue always has room (the branch that
\* flushes a full queue is never needed).
Ringing == phase \in {"fill", "wait", "drain"}
Entries(s) == Cardinality({i \in DOMAIN sq : sq[i].slot = s})
            + Cardinality({e \in kernel : e.slot = s})
            + Cardinality({i \in DOMAIN cq : cq[i].slot = s})
Free(s)    == Cardinality({i \in DOMAIN freeSlots : freeSlots[i] = s})
SlotsAccounted ==
  Ringing =>
    /\ \A s \in Slots : Free(s) + Entries(s) = 1
    /\ loop.inflight = RingDepth - Len(freeSlots)
    /\ loop.done + loop.inflight = loop.next
    /\ \A s, t \in Slots : Free(s) + Free(t) = 0 /\ slots[s].task = slots[t].task => s = t

\* The device moves what the statistics say and no value twice, however the
\* ranges were cut and however short the reads came back ("the device bytes the
\* gather moves are fixed by the plan").
BytesAsReported ==
  /\ \A v \in Value : deviceReads[v] <= 1
  /\ phase = "served" =>
       Cardinality({v \in Value : deviceReads[v] = 1}) = stats.scanBytes + stats.gatherBytes

\* A gather that was begun comes back, with the values or with an exception.
GatherReturns == phase = "merge" ~> phase \in {"served", "thrown"}
-----------------------------------------------------------------------------
(* The invariant these follow from.                                        *)

\* What is asked for lies in the table, and the ranges planned for it too.
Wanted    == [row : Rows, tag : Nat, outlier : BOOLEAN]
Cursor    == [rows : Seq(Rows), pos : Nat \ {0}, tag : Nat, outlier : BOOLEAN]
PageRange == {rg \in [off : Nat, len : Nat \ {0}, first : Nat, count : Nat] :
                rg.off + rg.len <= RowCount}
PlanSound ==
  /\ cursors \in Seq(Cursor) /\ batch \in Seq(Wanted) /\ ranges \in Seq(PageRange)
  /\ scan \in [column : Nat, base : Nat, j : Nat \ {0}]
  /\ phase = "scan" => N > 0 /\ scan.j <= N + 1
  /\ direct \in Nat

\* A read asks for the part of its range that has not arrived, into the room kept
\* for it in its slot.
Request == {e \in [slot : Slots, column : Columns, at : Nat, off : Nat, len : Nat \ {0}] :
              e.at + e.len <= SlotRows /\ e.off + e.len <= RowCount}
RingTypes ==
  /\ freeSlots \in Seq(Slots) /\ sq \in Seq(Request)
  /\ kernel \subseteq Request /\ IsFiniteSet(kernel)
  /\ cq \in Seq([slot : Slots, res : Nat])
  /\ loop \in [next : Nat, done : Nat, inflight : Nat, unsubmitted : Nat]

\* Between gathers nothing is queued, in flight or unanswered.
RingAtRest == sq = <<>> /\ kernel = {} /\ cq = <<>>

Answers(e) == e = Entry(e.slot, slots[e.slot].task, slots[e.slot].filled)
TasksSound ==
  /\ loop.next <= Total
  /\ \A s \in Slots : Free(s) = 0 =>
       slots[s].task < loop.next /\ slots[s].filled < TaskRange(slots[s].task).len
  /\ \A i \in DOMAIN sq : Answers(sq[i])
  /\ \A e \in kernel : Answers(e)
  /\ \A i \in DOMAIN cq :
       slots[cq[i].slot].filled + cq[i].res <= TaskRange(slots[cq[i].slot].task).len

GatherInv ==
  /\ GatherTypeOK /\ PlanSound /\ RingTypes
  /\ Ringing => SlotsAccounted /\ TasksSound
  /\ ~Ringing /\ phase # "thrown" => RingAtRest
-----------------------------------------------------------------------------
(* The invariant of what is read and where it goes.                        *)

\* Where the request is sorted, the batch, every cursor and what a cursor still
\* has to add to the batch are in ascending order.
OrderSound == sortGather =>
  /\ \A i, k \in 1 .. N : i <= k => batch[i].row <= batch[k].row
  /\ \A x \in DOMAIN cursors : \A i, k \in DOMAIN cursors[x].rows :
       i <= k => cursors[x].rows[i] <= cursors[x].rows[k]
  /\ phase = "merge" => \A x \in Live : \A i \in 1 .. N : batch[i].row <= Peek(x)

\* Of every cursor, the rows it has passed are in the batch, each as often, under
\* the cursor's tag and mark.
Merged(r, x) == {i \in 1 .. N : /\ batch[i].row = r /\ batch[i].tag = x.tag
                                /\ batch[i].outlier = x.outlier}
Passed(r, x) == {j \in 1 .. x.pos - 1 : x.rows[j] = r}
MergeSound ==
  /\ \A x, y \in DOMAIN cursors :
       cursors[x].tag = cursors[y].tag /\ cursors[x].outlier = cursors[y].outlier => x = y
  /\ \A x \in DOMAIN cursors :
       /\ cursors[x].pos <= Len(cursors[x].rows) + 1
       /\ phase \notin {"idle", "merge"} => cursors[x].pos = Len(cursors[x].rows) + 1
       /\ \A r \in Rows :
            Cardinality(Merged(r, cursors[x])) = Cardinality(Passed(r, cursors[x]))

Moved     == {v \in Value : deviceReads[v] = 1}
ReadOnce  == \A v \in Value : deviceReads[v] \in {0, 1}
NothingRead == phase = "merge" => Moved = {} /\ stats = NoStats

\* A scan has put every value where it belongs up to its place, and read nothing
\* beyond it.
InPlace(c, i) == outs[c][i] = <<c, batch[i].row>>
ScanSound ==
  phase = "scan" =>
    /\ scan.column \in Columns /\ DOMAIN outs = Columns
    /\ \A c \in Columns, j \in 1 .. N :
         c < scan.column \/ (c = scan.column /\ j < scan.j) => InPlace(c, PosOf(j))
    /\ \A j \in scan.j .. N : Low + scan.base <= RowAt(j)
    /\ \A c \in Columns, r \in Rows :
         c > scan.column \/ (c = scan.column /\ r >= Low + scan.base)
           => deviceReads[<<c, r>>] = 0
    /\ Cardinality(Moved) = stats.scanBytes /\ stats.gatherBytes = 0

\* The ranges are apart, in order, and every row wanted lies in the range that counts
\* it among its own.
Reach(rg) == rg.off .. rg.off + rg.len - 1
Hits(rg)  == rg.first .. rg.first + rg.count - 1
Apart(rs) == \A k, l \in DOMAIN rs : k < l => rs[k].off + rs[k].len <= rs[l].off
Covering(rs) ==
  /\ Apart(rs)
  /\ \A k \in DOMAIN rs : \A j \in Hits(rs[k]) : j \in 1 .. N /\ RowAt(j) \in Reach(rs[k])
  /\ \A j \in 1 .. N : \E k \in DOMAIN rs : j \in Hits(rs[k])

\* Of column c, the first n values of a range have been read, and no others of it.
ReadUpTo(c, rg, n) == \A b \in 0 .. rg.len - 1 :
  deviceReads[<<c, rg.off + b>>] = IF b < n THEN 1 ELSE 0
Delivered(c, rg) == /\ ReadUpTo(c, rg, rg.len)
                    /\ \A j \in Hits(rg) : InPlace(c, PosOf(j))

\* The direct reads and the reads through the ring, each a column of a range.
Reads         == 0 .. Len(Large) * MeasureCount - 1
Tasks         == 0 .. Total - 1
LargeRange(d) == Large[d \div MeasureCount + 1]
DirectSound == \A d \in Reads :
  IF d < direct THEN Delivered(d % MeasureCount, LargeRange(d))
  ELSE ReadUpTo(d % MeasureCount, LargeRange(d), 0)

\* A task not yet begun has read nothing; one with no slot any more is finished; and
\* in between its slot holds the n values the device has delivered.
Underway(t)   == \E s \in Slots : Free(s) = 0 /\ slots[s].task = t
Arrived(s, n) ==
  \/ n = slots[s].filled /\ ((\E i \in DOMAIN sq : sq[i].slot = s) \/ \E e \in kernel : e.slot = s)
  \/ \E i \in DOMAIN cq : cq[i].slot = s /\ n = slots[s].filled + cq[i].res
Holding(s, t, n) ==
  /\ ReadUpTo(TaskColumn(t), TaskRange(t), n)
  /\ \A b \in 0 .. n - 1 : slots[s].bytes[b] = <<TaskColumn(t), TaskRange(t).off + b>>
Unstarted == \A t \in Tasks : ReadUpTo(TaskColumn(t), TaskRange(t), 0)
RingSound ==
  /\ \A t \in Tasks :
       /\ t >= loop.next => ReadUpTo(TaskColumn(t), TaskRange(t), 0)
       /\ t < loop.next /\ ~Underway(t) => Delivered(TaskColumn(t), TaskRange(t))
  /\ \A s \in Slots, t \in Tasks, n \in 0 .. SlotRows :
       slots[s].task = t /\ Arrived(s, n) => Holding(s, t, n)

Gathering == phase \in {"direct", "fill", "wait", "drain"}
OnlyRanges == \A c \in Columns, r \in Rows :
  deviceReads[<<c, r>>] = 1 => \E k \in DOMAIN ranges : r \in Reach(ranges[k])
GatherSound ==
  Gathering =>
    /\ DOMAIN outs = Columns
    /\ Covering(ranges) /\ OnlyRanges /\ DirectSound
    /\ phase = "direct" => ring # "live" \/ Unstarted
    /\ Ringing => ring = "live" /\ direct = Len(Large) * MeasureCount /\ RingSound
    /\ stats.gatherBytes = Bytes(ranges) * MeasureCount /\ stats.scanBytes = 0

\* After an exception the reads still in flight are reads of values not yet read,
\* no two of them of the same value.
Asks(e) == {<<e.column, e.off + b>> : b \in 0 .. e.len - 1}
KernelSound == phase = "thrown" =>
  /\ \A e \in kernel : Asks(e) \cap Moved = {}
  /\ \A e, f \in kernel : e # f => Asks(e) \cap Asks(f) = {}

Served ==
  phase = "served" =>
    /\ \A c \in Columns, i \in 1 .. N : InPlace(c, i)
    /\ Cardinality(Moved) = stats.scanBytes + stats.gatherBytes

ReadInv ==
  /\ GatherInv /\ OrderSound /\ MergeSound /\ ReadOnce /\ NothingRead
  /\ ScanSound /\ GatherSound /\ KernelSound /\ Served
=============================================================================
