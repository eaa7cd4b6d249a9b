---------------------------- MODULE DatasetFiles ----------------------------
(***************************************************************************)
(* A prepared dataset on disk: scripts/prepare_dataset.py decides whether  *)
(* the columns are up to date, tools/parquet_to_columns_pipeline.cpp       *)
(* streams the source rows into one file per column and writes the         *)
(* manifest (storage/manifest.cpp) last, and the script verifies the       *)
(* result.  A column file is truncated when the conversion opens it, and a *)
(* process that dies leaves any prefix of what it wrote to each.           *)
(*                                                                         *)
(* A column is the sequence of its values.  The statistics of a measure    *)
(* (counts, sum, sum of squares, min, max) are told apart as the bags of   *)
(* values they are taken over.                                             *)
(***************************************************************************)
EXTENDS Integers, SequencesExt, FiniteSetsExt

CONSTANTS
  Dimensions, Measures,   (* column names                                  *)
  Null, NaN,              (* a missing cell; a floating-point not-a-number *)
  Low, High,              (* declared domain of each dimension             *)
  DropColumn, DropAbove,  (* the drop filter: DropColumn > DropAbove       *)
  MaxRows,                (* --max-rows: keep the first survivors; 0: all  *)
  Sources,                (* contents the Parquet file may have            *)
  SourceRows              (* the rows of each                              *)

Columns == Dimensions \union Measures

ASSUME DatasetAssumption ==
  /\ Dimensions # {} /\ Measures # {} /\ Dimensions \cap Measures = {}
  /\ DropColumn \in Columns /\ MaxRows \in Nat
  /\ DOMAIN SourceRows = Sources

\* Cells are numbers, missing, or not-a-number; the declared domain is numeric.
ASSUME CellAssumption ==
  /\ Null \notin Int /\ NaN \notin Int /\ Null # NaN
  /\ Low \in [Dimensions -> Int] /\ High \in [Dimensions -> Int] /\ DropAbove \in Int
  /\ \A s \in Sources : SourceRows[s] \in Seq([Columns -> Int \union {Null, NaN}])

VARIABLES
  source,           (* the content of the Parquet file now                 *)
  column,           (* the column files                                    *)
  manifest,         (* manifest.json                                       *)
  prep,             (* the preparation in progress                         *)
  prepared          (* how the last preparation ended                      *)

datasetVars == <<source, column, manifest, prep, prepared>>

Empty      == [c \in Columns |-> <<>>]
NoManifest == [state |-> "none"]
Idle       == [step |-> "off", next |-> 1, out |-> Empty]
Rows       == SourceRows[source]

DatasetInit ==
  /\ source \in Sources
  /\ column = Empty /\ manifest = NoManifest
  /\ prep = Idle /\ prepared = "no"
-----------------------------------------------------------------------------
\* A value that is unknown never drops its row.
KeepUnder(row) == \/ row[DropColumn] \in {Null, NaN}
                  \/ row[DropColumn] <= DropAbove

\* A missing coordinate, or one outside the domain, drops the row.  The comparisons
\* of a NaN are all false.
InDomain(row) == \A d \in Dimensions :
  /\ row[d] # Null
  /\ row[d] # NaN => Low[d] <= row[d] /\ row[d] <= High[d]

Stored(v) == IF v = Null THEN NaN ELSE v

RowsWritten == Len(prep.out[DropColumn])

CapReached(written) == MaxRows > 0 /\ written >= MaxRows

\* The running minimum and maximum of a dimension; the declared ones of an empty file.
Extent(d, values) ==
  LET known == ToSet(values) \ {NaN}
  IN  IF known = {} THEN [min |-> Low[d], max |-> High[d]]
                    ELSE [min |-> Min(known), max |-> Max(known)]

BagOf(values) == [v \in ToSet(values) |-> Cardinality({i \in DOMAIN values : values[i] = v})]

\* What is written into a manifest, and whether one can be read back.
ManifestOf(out) ==
  [state  |-> "whole", rows |-> RowsWritten, stamp |-> source,
   extent |-> [d \in Dimensions |-> Extent(d, out[d])],
   global |-> [m \in Measures |-> BagOf(out[m])]]
Readable == manifest.state = "whole"

\* BinaryColumnStore: a dataset opens when its manifest parses and every column file
\* has the size the manifest says.
Opens == /\ Readable
         /\ \A c \in Columns : Len(column[c]) = manifest.rows
-----------------------------------------------------------------------------
UpToDate == /\ MaxRows = 0
            /\ Readable /\ manifest.stamp = source

BeginPrepare(force) ==
  /\ prep.step = "off"
  /\ prepared' = "no"
  /\ IF ~force /\ UpToDate
     THEN prep' = [Idle EXCEPT !.step = "verify"] /\ UNCHANGED column
     ELSE prep' = [Idle EXCEPT !.step = "rows"]   /\ column' = Empty
  /\ UNCHANGED <<source, manifest>>

ConvertRow ==
  /\ prep.step = "rows" /\ prep.next \in DOMAIN Rows /\ ~CapReached(RowsWritten)
  /\ LET row == Rows[prep.next]
     IN  prep' = [prep EXCEPT
           !.next = @ + 1,
           !.out  = IF KeepUnder(row) /\ InDomain(row)
                    THEN [c \in Columns |-> Append(@[c], Stored(row[c]))] ELSE @]
  /\ UNCHANGED <<source, column, manifest, prepared>>

CloseColumns ==
  /\ prep.step = "rows"
  /\ prep.next \notin DOMAIN Rows \/ CapReached(RowsWritten)
  /\ column' = prep.out
  /\ prep' = [prep EXCEPT !.step = "manifest"]
  /\ UNCHANGED <<source, manifest, prepared>>

WriteManifest ==
  /\ prep.step = "manifest"
  /\ manifest' = ManifestOf(prep.out)
  /\ prep' = [Idle EXCEPT !.step = "verify"]
  /\ UNCHANGED <<source, column, prepared>>

\* Mutant: only sizes are verified.
MutVerified == Opens
Verified ==
  /\ Opens
  /\ \A d \in Dimensions : LET known == ToSet(column[d]) \ {NaN}
                           IN  known # {} => Extent(d, column[d]) = manifest.extent[d]
  /\ \A m \in Measures : BagOf(column[m]) = manifest.global[m]

VerifyDataset ==
  /\ prep.step = "verify"
  /\ prepared' = IF Verified THEN "ok" ELSE "failed"
  /\ prep' = Idle
  /\ UNCHANGED <<source, column, manifest>>

Prepare == ConvertRow \/ CloseColumns \/ WriteManifest \/ VerifyDataset

\* The process dies: buffered writes are lost, of each column a different part.
FlushedOf(c) == {SubSeq(prep.out[c], 1, n) : n \in 0 .. Len(prep.out[c])}
KillPrepare ==
  /\ prep.step # "off"
  /\ \/ /\ prep.step = "rows"
        /\ column' \in [Columns -> UNION {FlushedOf(c) : c \in Columns}]
        /\ \A c \in Columns : column'[c] \in FlushedOf(c)
        /\ UNCHANGED manifest
     \/ /\ prep.step = "manifest"
        /\ manifest' \in {manifest, [state |-> "broken"]}
        /\ UNCHANGED column
     \/ /\ prep.step = "verify"
        /\ UNCHANGED <<column, manifest>>
  /\ prep' = Idle
  /\ UNCHANGED <<source, prepared>>

ReplaceSource(s) ==
  /\ prep.step = "off" /\ s # source
  /\ source' = s /\ prepared' = "no"
  /\ UNCHANGED <<column, manifest, prep>>
-----------------------------------------------------------------------------
\* The rows of a source that survive, defined on the file as a whole: the k-th is the
\* row kept that has k kept up to it.
Kept(s)    == {i \in DOMAIN SourceRows[s] :
                 KeepUnder(SourceRows[s][i]) /\ InDomain(SourceRows[s][i])}
Rank(s, i) == Cardinality({j \in Kept(s) : j <= i})
Many(s)    == IF MaxRows = 0 \/ Cardinality(Kept(s)) <= MaxRows
              THEN Cardinality(Kept(s)) ELSE MaxRows
SurvivorsOf(s) ==
  [k \in 1 .. Many(s) |-> SourceRows[s][CHOOSE i \in Kept(s) : Rank(s, i) = k]]
Survivors  == SurvivorsOf(source)

\* A preparation that reports success leaves a dataset the engine may open: the
\* columns hold the surviving rows of the source as it is now, in order and in step
\* with one another, and the manifest's extent encloses every known coordinate, which
\* is what the root bounds of the tree are made from (KdCrack's ExtentAssumption).
\* Neither a skipped conversion, nor one killed earlier over the same files, nor the
\* source being replaced and put back may break this.
PreparedIsSurvivors ==
  prepared = "ok" =>
    /\ Opens
    /\ \A c \in Columns :
         column[c] = [i \in DOMAIN Survivors |-> Stored(Survivors[i][c])]
    /\ \A d \in Dimensions : \A v \in ToSet(column[d]) \ {NaN} :
         manifest.extent[d].min <= v /\ v <= manifest.extent[d].max

\* The converter's rule as its comment states it (parquet_to_columns_pipeline.cpp:
\* "a missing or out-of-bounds coordinate drops the row"): no prepared row lacks a
\* coordinate, so the comparisons that crack the table always decide.
EveryRowHasCoordinates ==
  prepared = "ok" => \A d \in Dimensions : NaN \notin ToSet(column[d])
-----------------------------------------------------------------------------
(* The invariant PreparedIsSurvivors follows from.                         *)

\* What a conversion that ends leaves of a source, and what it has put aside or
\* flushed of it before that.
Contents(s) == [c \in Columns |-> [k \in 1 .. Many(s) |-> Stored(SurvivorsOf(s)[k][c])]]
First(q, n) == [k \in 1 .. n |-> q[k]]
Begun(s, n) == [c \in Columns |-> First(Contents(s)[c], n)]
Description(s) ==
  [state  |-> "whole", rows |-> Many(s), stamp |-> s,
   extent |-> [d \in Dimensions |-> Extent(d, Contents(s)[d])],
   global |-> [m \in Measures |-> BagOf(Contents(s)[m])]]

ManifestSound == \/ manifest \in {NoManifest, [state |-> "broken"]}
                 \/ \E s \in Sources : manifest = Description(s)
ColumnsSound  == \E s \in Sources :
  \E part \in [Columns -> 0 .. Many(s)] : column = [c \in Columns |-> First(Contents(s)[c], part[c])]

ConversionSound ==
  /\ prep.step = "rows" =>
       /\ prep.next \in 1 .. Len(Rows) + 1 /\ Rank(source, prep.next - 1) <= Many(source)
       /\ prep.out = Begun(source, Rank(source, prep.next - 1))
  /\ prep.step = "manifest" => prep.out = Contents(source) /\ column = Contents(source)

\* A dataset that is verified has the manifest of the source as it is; only its columns
\* may be another's, and not those of a capped conversion, which is never skipped.
Described == manifest = Description(source) /\ (MaxRows > 0 => column = Contents(source))

Cell     == Int \union {NaN}
PrepType == [step : {"off", "rows", "manifest", "verify"}, next : Nat \ {0},
             out : [Columns -> Seq(Cell)]]
DatasetInv ==
  /\ source \in Sources /\ ManifestSound /\ ColumnsSound /\ ConversionSound
  /\ prep \in PrepType
  /\ prep.step = "verify" => Described
  /\ prepared = "ok" => prep.step = "off" /\ Described /\ Verified

\* The first rows of one source never have the statistics of another without being
\* the same rows.
StatisticsTell == \A s, t \in Sources :
  LET first == Begun(t, Many(s))
  IN  /\ Many(s) <= Many(t)
      /\ \A d \in Dimensions : ToSet(first[d]) \ {NaN} # {}
                                => Extent(d, first[d]) = Extent(d, Contents(s)[d])
      /\ \A m \in Measures : BagOf(first[m]) = BagOf(Contents(s)[m])
      => first = Contents(s)
=============================================================================
