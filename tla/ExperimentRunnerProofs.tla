----------------------- MODULE ExperimentRunnerProofs -----------------------
(***************************************************************************)
(* The prepared columns and the result files of the experiments, for every *)
(* plan and every source, every number of commands and processes killed.   *)
(*                                                                         *)
(* First the dataset: what is reported prepared is the surviving rows of   *)
(* the source, where statistics tell one source from another.  A manifest  *)
(* that can be read is always one source's own, the columns are always the *)
(* first rows of one source, perhaps another, each cut off somewhere; the  *)
(* sizes verified make them as many as the source has, the statistics make *)
(* them its own.                                                           *)
(*                                                                         *)
(* Then the results, as long as a runner takes its engine with it: a file  *)
(* that is there is complete, and a run that ends well leaves what it was  *)
(* asked for.  One engine at most is alive, the runner's child, and it     *)
(* writes to the files its two temporaries name; two paths never name one  *)
(* file, so published files are not written again.  Metadata always stands *)
(* beside results of the same build or a later one.                        *)
(***************************************************************************)
EXTENDS ExperimentRunner, SumLemmas
-----------------------------------------------------------------------------
(* The rows a conversion keeps.                                            *)

LEMMA KeptBounded ==
  ASSUME NEW s \in Sources
  PROVE  /\ SourceRows[s] \in Seq([Columns -> Int \union {Null, NaN}])
         /\ Len(SourceRows[s]) \in Nat /\ DOMAIN SourceRows[s] = 1 .. Len(SourceRows[s])
         /\ Kept(s) \subseteq 1 .. Len(SourceRows[s])
         /\ IsFiniteSet(Kept(s)) /\ Cardinality(Kept(s)) \in Nat
         /\ Many(s) \in Nat /\ Many(s) <= Cardinality(Kept(s)) /\ MaxRows \in Nat
         /\ MaxRows = 0 => Many(s) = Cardinality(Kept(s))
         /\ MaxRows > 0 => Many(s) <= MaxRows
<1>1. SourceRows[s] \in Seq([Columns -> Int \union {Null, NaN}]) /\ MaxRows \in Nat
  BY CellAssumption, DatasetAssumption
<1>2. Len(SourceRows[s]) \in Nat /\ DOMAIN SourceRows[s] = 1 .. Len(SourceRows[s])
  BY <1>1
<1>3. Kept(s) \subseteq 1 .. Len(SourceRows[s])
  BY <1>2 DEF Kept
<1>4. IsFiniteSet(1 .. Len(SourceRows[s]))
  <2>1. 1 \in Int /\ Len(SourceRows[s]) \in Int
    BY <1>2
  <2> QED
    BY ONLY <2>1, FS_Interval
<1>5. IsFiniteSet(Kept(s)) /\ Cardinality(Kept(s)) \in Nat
  BY <1>3, <1>4, FS_Subset, FS_CardinalityType
<1> QED
  BY <1>1, <1>2, <1>3, <1>5 DEF Many

LEMMA RankBounded ==
  ASSUME NEW s \in Sources, NEW i \in Nat
  PROVE  /\ IsFiniteSet({j \in Kept(s) : j <= i}) /\ Rank(s, i) \in Nat
         /\ Rank(s, i) <= Cardinality(Kept(s))
         /\ \A l \in Nat : i <= l => Rank(s, i) <= Rank(s, l)
<1>1. \A l \in Nat : {j \in Kept(s) : j <= l} \in SUBSET Kept(s)
  OBVIOUS
<1>2. \A l \in Nat : IsFiniteSet({j \in Kept(s) : j <= l})
                       /\ Cardinality({j \in Kept(s) : j <= l}) \in Nat
                       /\ Cardinality({j \in Kept(s) : j <= l}) <= Cardinality(Kept(s))
  BY <1>1, KeptBounded, FS_Subset, FS_CardinalityType
<1>3. ASSUME NEW l \in Nat, i <= l PROVE Rank(s, i) <= Rank(s, l)
  <2>1. Kept(s) \subseteq Nat
    BY KeptBounded
  <2>2. {j \in Kept(s) : j <= i} \in SUBSET {j \in Kept(s) : j <= l}
    BY <1>3, <2>1
  <2> QED
    BY <1>2, <2>2, FS_Subset DEF Rank
<1> QED
  BY <1>2, <1>3 DEF Rank

\* A row kept is one more.
LEMMA RankSteps ==
  ASSUME NEW s \in Sources, NEW i \in Nat \ {0}
  PROVE  Rank(s, i) = IF i \in Kept(s) THEN Rank(s, i - 1) + 1 ELSE Rank(s, i - 1)
<1> DEFINE A(l) == {j \in Kept(s) : j <= l}
<1>1. Kept(s) \subseteq Nat /\ i - 1 \in Nat
  BY KeptBounded
<1>2. IsFiniteSet(A(i - 1))
  BY <1>1, RankBounded
<1>3. CASE i \in Kept(s)
  <2>1. A(i) = A(i - 1) \union {i} /\ i \notin A(i - 1)
    BY <1>1, <1>3
  <2> HIDE DEF A
  <2>2. Cardinality(A(i - 1) \union {i}) = Cardinality(A(i - 1)) + 1
    BY <1>2, <2>1, FS_AddElement
  <2> QED
    BY <1>3, <2>1, <2>2 DEF A, Rank
<1>4. CASE i \notin Kept(s)
  <2>1. A(i) = A(i - 1)
    BY <1>1, <1>4
  <2> QED
    BY <1>4, <2>1 DEF Rank
<1> QED
  BY <1>3, <1>4

LEMMA RankEnds ==
  ASSUME NEW s \in Sources
  PROVE  Rank(s, 0) = 0 /\ Rank(s, Len(SourceRows[s])) = Cardinality(Kept(s))
<1>1. {j \in Kept(s) : j <= 0} = {} /\ {j \in Kept(s) : j <= Len(SourceRows[s])} = Kept(s)
  BY KeptBounded
<1> QED
  BY <1>1, FS_EmptySet DEF Rank

\* Each survivor is one row of the source, and the rows kept have different ranks.
LEMMA RankTells ==
  ASSUME NEW s \in Sources, NEW i \in Kept(s), NEW l \in Kept(s), Rank(s, i) = Rank(s, l)
  PROVE  i = l
<1>1. \A x \in Kept(s) : x \in Nat \ {0} /\ x - 1 \in Nat
  BY KeptBounded
<1>2. ASSUME NEW x \in Kept(s), NEW y \in Kept(s), x < y PROVE Rank(s, x) < Rank(s, y)
  <2>1. x \in Nat /\ y \in Nat \ {0} /\ y - 1 \in Nat /\ x <= y - 1
    BY <1>1, <1>2
  <2>2. Rank(s, x) <= Rank(s, y - 1) /\ Rank(s, x) \in Nat /\ Rank(s, y - 1) \in Nat
    BY <2>1, RankBounded
  <2>3. Rank(s, y) = Rank(s, y - 1) + 1
    BY <2>1, RankSteps
  <2> QED
    BY <2>2, <2>3
<1>3. Rank(s, i) \in Nat /\ i \in Nat /\ l \in Nat
  BY <1>1, RankBounded
<1> QED
  BY <1>2, <1>3

LEMMA RankReached ==
  ASSUME NEW s \in Sources, NEW k \in 1 .. Cardinality(Kept(s))
  PROVE  \E i \in Kept(s) : Rank(s, i) = k
<1> PICK len, n : len = Len(SourceRows[s]) /\ n = Cardinality(Kept(s))
  OBVIOUS
<1>1. len \in Nat /\ n \in Nat /\ k \in 1 .. n
  BY KeptBounded
<1>2. Rank(s, 0) = 0 /\ Rank(s, len) = n
  BY RankEnds
<1> DEFINE T == {i \in Nat : k <= Rank(s, i)}
<1>3. len \in T
  BY <1>1, <1>2
<1>4. PICK i \in T : \A l \in T : i <= l
  <2>1. T \in SUBSET Nat /\ T # {}
    BY <1>3
  <2> HIDE DEF T
  <2> QED
    BY <2>1, LeastNat
<1>5. i \in Nat \ {0} /\ i - 1 \in Nat /\ ~(i <= i - 1) /\ k <= Rank(s, i)
  BY <1>1, <1>2
<1>6. ~(k <= Rank(s, i - 1)) /\ Rank(s, i - 1) \in Nat
  BY <1>4, <1>5, RankBounded
<1>7. Rank(s, i) = IF i \in Kept(s) THEN Rank(s, i - 1) + 1 ELSE Rank(s, i - 1)
  BY <1>5, RankSteps
<1>8. i \in Kept(s) /\ Rank(s, i) = k
  BY <1>1, <1>5, <1>6, <1>7
<1> QED
  BY <1>8

LEMMA SurvivorAt ==
  ASSUME NEW s \in Sources, NEW k \in 1 .. Many(s)
  PROVE  /\ \E i \in Kept(s) : Rank(s, i) = k /\ SurvivorsOf(s)[k] = SourceRows[s][i]
         /\ \A i \in Kept(s) : Rank(s, i) = k => SurvivorsOf(s)[k] = SourceRows[s][i]
<1> DEFINE Is(i) == Rank(s, i) = k
<1>1. k \in 1 .. Cardinality(Kept(s))
  BY KeptBounded
<1>2. PICK i \in Kept(s) : Is(i)
  BY <1>1, RankReached
<1>3. PICK x : x = (CHOOSE y \in Kept(s) : Rank(s, y) = k)
  OBVIOUS
<1>4. x \in Kept(s) /\ Rank(s, x) = k
  BY <1>2, <1>3
<1>5. SurvivorsOf(s)[k] = SourceRows[s][x]
  BY <1>3 DEF SurvivorsOf
<1> QED
  BY <1>4, <1>5, RankTells

LEMMA ContentsType ==
  ASSUME NEW s \in Sources, NEW c \in Columns
  PROVE  /\ Contents(s)[c] \in Seq(Cell) /\ Len(Contents(s)[c]) = Many(s)
         /\ DOMAIN Contents(s)[c] = 1 .. Many(s)
         /\ Contents(s)[c] = [k \in 1 .. Many(s) |-> Stored(SurvivorsOf(s)[k][c])]
         /\ \A k \in 1 .. Many(s) : c \in Dimensions /\ Contents(s)[c][k] # NaN =>
              Low[c] <= Contents(s)[c][k] /\ Contents(s)[c][k] <= High[c]
<1>1. Contents(s)[c] = [k \in 1 .. Many(s) |-> Stored(SurvivorsOf(s)[k][c])]
  BY DEF Contents
<1>2. ASSUME NEW k \in 1 .. Many(s)
      PROVE  /\ Contents(s)[c][k] \in Cell
             /\ c \in Dimensions /\ Contents(s)[c][k] # NaN =>
                  Low[c] <= Contents(s)[c][k] /\ Contents(s)[c][k] <= High[c]
  <2>1. PICK i \in Kept(s) : SurvivorsOf(s)[k] = SourceRows[s][i]
    BY SurvivorAt
  <2>2. /\ SourceRows[s][i] \in [Columns -> Int \union {Null, NaN}]
        /\ InDomain(SourceRows[s][i])
    <3> PICK q, R : q = SourceRows[s] /\ R = [Columns -> Int \union {Null, NaN}]
      OBVIOUS
    <3>1. q \in Seq(R) /\ i \in 1 .. Len(q) /\ DOMAIN q = 1 .. Len(q)
      BY KeptBounded
    <3>2. q[i] \in R
      BY ONLY <3>1
    <3> QED
      BY <3>2 DEF Kept
  <2>3. Contents(s)[c][k] = Stored(SourceRows[s][i][c])
    BY <1>1, <2>1
  <2> QED
    BY <2>2, <2>3 DEF Stored, Cell, InDomain
<1>3. Many(s) \in Nat
  BY KeptBounded
<1>4. Contents(s)[c] \in [1 .. Many(s) -> Cell]
  <2>1. \A k \in 1 .. Many(s) : Contents(s)[c][k] \in Cell
    BY <1>2
  <2> QED
    BY <1>1, <2>1
<1> QED
  BY <1>1, <1>2, <1>3, <1>4

-----------------------------------------------------------------------------
(* What has been put aside, flushed and described.                         *)

LEMMA FirstParts ==
  ASSUME NEW q \in Seq(Cell), NEW n \in 0 .. Len(q)
  PROVE  /\ First(q, n) \in Seq(Cell) /\ Len(First(q, n)) = n
         /\ First(q, 0) = <<>> /\ First(q, Len(q)) = q
         /\ n < Len(q) => First(q, n + 1) = Append(First(q, n), q[n + 1])
         /\ \A m \in 0 .. n : SubSeq(First(q, n), 1, m) = First(q, m)
<1>1. DOMAIN q = 1 .. Len(q) /\ Len(q) \in Nat /\ \A k \in 1 .. Len(q) : q[k] \in Cell
  OBVIOUS
<1>2. \A m \in 0 .. Len(q) :
        First(q, m) \in Seq(Cell) /\ Len(First(q, m)) = m /\ DOMAIN First(q, m) = 1 .. m
  <2> TAKE m \in 0 .. Len(q)
  <2>1. First(q, m) \in [1 .. m -> Cell] /\ m \in Nat
    BY <1>1 DEF First
  <2> QED
    BY <2>1
<1>3. First(q, 0) = <<>>
  <2>1. Len(First(q, 0)) = 0 /\ First(q, 0) \in Seq(Cell)
    BY <1>1, <1>2
  <2> QED
    BY ONLY <2>1
<1>4. First(q, Len(q)) = q
  BY <1>1 DEF First
<1>5. ASSUME n < Len(q) PROVE First(q, n + 1) = Append(First(q, n), q[n + 1])
  <2>1. /\ First(q, n) \in Seq(Cell) /\ Len(First(q, n)) = n /\ q[n + 1] \in Cell
        /\ First(q, n + 1) \in Seq(Cell) /\ Len(First(q, n + 1)) = n + 1 /\ n \in Nat
    BY <1>1, <1>2, <1>5
  <2>2. \A k \in 1 .. n + 1 : First(q, n + 1)[k] = IF k = n + 1 THEN q[n + 1] ELSE First(q, n)[k]
    BY <1>1, <1>5 DEF First
  <2>3. PICK x, y, z : x = First(q, n) /\ y = First(q, n + 1) /\ z = q[n + 1]
    OBVIOUS
  <2>4. y = Append(x, z)
    <3>1. /\ x \in Seq(Cell) /\ y \in Seq(Cell) /\ z \in Cell /\ n \in Nat
          /\ Len(x) = n /\ Len(y) = n + 1
          /\ \A k \in 1 .. n + 1 : y[k] = IF k = n + 1 THEN z ELSE x[k]
      BY <2>1, <2>2, <2>3
    <3> QED
      BY ONLY <3>1
  <2> QED
    BY <2>3, <2>4
<1>6. ASSUME NEW m \in 0 .. n PROVE SubSeq(First(q, n), 1, m) = First(q, m)
  <2>1. SubSeq(First(q, n), 1, m) = [k \in 1 .. m |-> First(q, n)[k]]
    BY <1>1, <1>2
  <2>2. \A k \in 1 .. m : First(q, n)[k] = q[k]
    BY <1>1 DEF First
  <2> QED
    BY <2>1, <2>2 DEF First
<1> QED
  BY <1>1, <1>2, <1>3, <1>4, <1>5, <1>6

LEMMA PartsOfContents ==
  ASSUME NEW s \in Sources, NEW c \in Columns, NEW n \in 0 .. Many(s)
  PROVE  /\ First(Contents(s)[c], n) \in Seq(Cell) /\ Len(First(Contents(s)[c], n)) = n
         /\ First(Contents(s)[c], 0) = <<>>
         /\ First(Contents(s)[c], Many(s)) = Contents(s)[c]
         /\ n < Many(s) => First(Contents(s)[c], n + 1)
                             = Append(First(Contents(s)[c], n), Contents(s)[c][n + 1])
         /\ \A m \in 0 .. n : SubSeq(First(Contents(s)[c], n), 1, m) = First(Contents(s)[c], m)
<1> PICK q, l : q = Contents(s)[c] /\ l = Many(s)
  OBVIOUS
<1>1. q \in Seq(Cell) /\ Len(q) = l /\ n \in 0 .. l
  BY ContentsType
<1>2. /\ First(q, n) \in Seq(Cell) /\ Len(First(q, n)) = n
      /\ First(q, 0) = <<>> /\ First(q, Len(q)) = q
      /\ n < Len(q) => First(q, n + 1) = Append(First(q, n), q[n + 1])
      /\ \A m \in 0 .. n : SubSeq(First(q, n), 1, m) = First(q, m)
  <2>1. q \in Seq(Cell) /\ n \in 0 .. Len(q)
    BY <1>1
  <2> QED
    BY ONLY <2>1, FirstParts
<1> QED
  BY <1>1, <1>2

\* The least and the greatest of integers that lie between two.
LEMMA BoundsAttained ==
  ASSUME NEW lo \in Int, NEW hi \in Int, NEW S \in SUBSET (lo .. hi), NEW v \in S
  PROVE  Min(S) <= v /\ v <= Max(S)
<1>1. \E x \in S : \A y \in S : x <= y
  <2> DEFINE T == {n \in Nat : lo + n \in S}
  <2>1. T \in SUBSET Nat /\ v - lo \in T
    OBVIOUS
  <2>2. PICK n \in T : \A k \in T : n <= k
    <3> HIDE DEF T
    <3> QED
      BY <2>1, LeastNat
  <2>3. ASSUME NEW y \in S PROVE lo + n <= y
    <3>1. y - lo \in T /\ y \in Int /\ n \in Nat
      OBVIOUS
    <3>2. n <= y - lo
      BY <2>2, <3>1
    <3> QED
      BY <3>1, <3>2
  <2> QED
    BY <2>3
<1>2. \E x \in S : \A y \in S : x >= y
  <2> DEFINE T == {n \in Nat : hi - n \in S}
  <2>1. T \in SUBSET Nat /\ hi - v \in T
    OBVIOUS
  <2>2. PICK n \in T : \A k \in T : n <= k
    <3> HIDE DEF T
    <3> QED
      BY <2>1, LeastNat
  <2>3. ASSUME NEW y \in S PROVE hi - n >= y
    <3>1. hi - y \in T /\ y \in Int /\ n \in Nat
      OBVIOUS
    <3>2. n <= hi - y
      BY <2>2, <3>1
    <3> QED
      BY <3>1, <3>2
  <2> QED
    BY <2>3
<1>3. \A y \in S : Min(S) <= y
  BY <1>1 DEF Min
<1>4. \A y \in S : Max(S) >= y
  BY <1>2 DEF Max
<1>5. Max(S) \in S
  BY <1>2 DEF Max
<1> QED
  BY <1>3, <1>4, <1>5

\* The extent of a dimension encloses its known coordinates.
LEMMA ExtentEncloses ==
  ASSUME NEW s \in Sources, NEW d \in Dimensions, NEW v \in ToSet(Contents(s)[d]) \ {NaN}
  PROVE  Extent(d, Contents(s)[d]).min <= v /\ v <= Extent(d, Contents(s)[d]).max
<1> PICK known : known = ToSet(Contents(s)[d]) \ {NaN}
  OBVIOUS
<1>1. d \in Columns /\ Low[d] \in Int /\ High[d] \in Int
  BY CellAssumption DEF Columns
<1>2. known \in SUBSET (Low[d] .. High[d])
  <2>1. ASSUME NEW u \in known PROVE u \in Low[d] .. High[d]
    <3>1. PICK k \in 1 .. Many(s) : u = Contents(s)[d][k]
      BY <1>1, ContentsType DEF ToSet
    <3>2. Contents(s)[d] \in Seq(Cell) /\ Len(Contents(s)[d]) = Many(s)
      BY <1>1, ContentsType
    <3>3. u \in Cell /\ u # NaN
      BY <3>1, <3>2
    <3>4. Low[d] <= u /\ u <= High[d]
      BY <1>1, <3>1, <3>3, ContentsType
    <3> QED
      BY <1>1, <3>3, <3>4 DEF Cell
  <2> QED
    BY <2>1
<1>3. Min(known) <= v /\ v <= Max(known)
  BY <1>1, <1>2, BoundsAttained
<1>4. Extent(d, Contents(s)[d]) = [min |-> Min(known), max |-> Max(known)]
  BY DEF Extent
<1> QED
  BY <1>3, <1>4

-----------------------------------------------------------------------------
(* The steps of a preparation.                                             *)

LEMMA EmptyIsBegun ==
  ASSUME NEW s \in Sources
  PROVE  /\ Empty = Begun(s, 0) /\ Empty \in [Columns -> Seq(Cell)] /\ Idle \in PrepType
         /\ \E part \in [Columns -> 0 .. Many(s)] :
              Empty = [c \in Columns |-> First(Contents(s)[c], part[c])]
<1>1. \A c \in Columns : First(Contents(s)[c], 0) = <<>>
  BY KeptBounded, PartsOfContents
<1>2. Empty = Begun(s, 0)
  BY <1>1 DEF Empty, Begun
<1>3. Empty \in [Columns -> Seq(Cell)]
  BY DEF Empty
<1>4. [c \in Columns |-> 0] \in [Columns -> 0 .. Many(s)]
  BY KeptBounded
<1>5. \E part \in [Columns -> 0 .. Many(s)] :
        Empty = [c \in Columns |-> First(Contents(s)[c], part[c])]
  <2> PICK part : part = [c \in Columns |-> 0]
    OBVIOUS
  <2>1. part \in [Columns -> 0 .. Many(s)]
    BY <1>4
  <2>2. \A c \in Columns : First(Contents(s)[c], part[c]) = <<>>
    BY <1>1
  <2>3. Empty = [c \in Columns |-> First(Contents(s)[c], part[c])]
    BY <2>2 DEF Empty
  <2> QED
    BY <2>1, <2>3
<1>6. Idle \in PrepType
  BY <1>3 DEF Idle, PrepType
<1> QED
  BY <1>2, <1>3, <1>5, <1>6

LEMMA DescriptionFields ==
  ASSUME NEW s
  PROVE  /\ Description(s).state = "whole" /\ Description(s).rows = Many(s)
         /\ Description(s).stamp = s
         /\ \A d \in Dimensions : Description(s).extent[d] = Extent(d, Contents(s)[d])
         /\ \A m \in Measures : Description(s).global[m] = BagOf(Contents(s)[m])
BY DEF Description

LEMMA PreparationStarts == DatasetInit => DatasetInv
<1> SUFFICES ASSUME DatasetInit PROVE DatasetInv
  OBVIOUS
<1>1. /\ source \in Sources /\ column = Empty /\ manifest = NoManifest
      /\ prep = Idle /\ prepared = "no"
  BY DEF DatasetInit
<1>2. prep \in PrepType /\ prep.step = "off"
  BY <1>1, EmptyIsBegun DEF Idle
<1>3. ColumnsSound
  BY <1>1, EmptyIsBegun DEF ColumnsSound
<1> QED
  BY <1>1, <1>2, <1>3 DEF DatasetInv, ManifestSound, ConversionSound, PrepType, Cell

LEMMA BeginPreparePreserves ==
  ASSUME DatasetInv, NEW force \in BOOLEAN, BeginPrepare(force)
  PROVE  DatasetInv'
<1>1. /\ source \in Sources /\ source' = source /\ manifest' = manifest /\ prepared' = "no"
      /\ ManifestSound /\ ColumnsSound
  BY DEF DatasetInv, BeginPrepare
<1>2. ManifestSound'
  BY <1>1 DEF ManifestSound
<1>3. CASE ~force /\ UpToDate
  <2>1. prep' = [Idle EXCEPT !.step = "verify"] /\ column' = column
    BY <1>3 DEF BeginPrepare
  <2>2. prep' \in PrepType /\ prep'.step = "verify"
    BY <1>1, <2>1, EmptyIsBegun DEF Idle, PrepType
  <2>3. MaxRows = 0 /\ manifest.state = "whole" /\ manifest.stamp = source
    BY <1>3 DEF UpToDate, Readable
  <2>4. manifest = Description(source)
    <3>1. manifest \notin {NoManifest, [state |-> "broken"]}
      BY <2>3 DEF NoManifest
    <3> QED
      BY <1>1, <2>3, <3>1, DescriptionFields DEF ManifestSound
  <2>5. Described'
    BY <1>1, <2>3, <2>4 DEF Described
  <2>6. ColumnsSound'
    BY <1>1, <2>1 DEF ColumnsSound
  <2> QED
    BY <1>1, <1>2, <2>2, <2>5, <2>6 DEF DatasetInv, ConversionSound, PrepType, Cell
<1>4. CASE ~(~force /\ UpToDate)
  <2>1. prep' = [Idle EXCEPT !.step = "rows"] /\ column' = Empty
    BY <1>4 DEF BeginPrepare
  <2>2. prep' \in PrepType /\ prep'.step = "rows" /\ prep'.next = 1 /\ prep'.out = Empty
    BY <1>1, <2>1, EmptyIsBegun DEF Idle, PrepType
  <2>3. ColumnsSound'
    BY <1>1, <2>1, EmptyIsBegun DEF ColumnsSound
  <2>4. ConversionSound'
    <3>1. /\ Rank(source, 0) = 0 /\ Len(Rows) \in Nat /\ Many(source) \in Nat
          /\ Empty = Begun(source, 0)
      BY <1>1, RankEnds, KeptBounded, EmptyIsBegun DEF Rows
    <3>2. Rows' = Rows /\ prep'.next - 1 = 0
      BY <1>1, <2>2 DEF Rows
    <3>3. prep'.next \in 1 .. Len(Rows') + 1
      BY <2>2, <3>1, <3>2
    <3>4. Rank(source', prep'.next - 1) = 0
      BY <1>1, <3>1, <3>2
    <3> QED
      BY <1>1, <2>2, <3>1, <3>3, <3>4 DEF ConversionSound
  <2> QED
    BY <1>1, <1>2, <2>2, <2>3, <2>4 DEF DatasetInv
<1> QED
  BY <1>3, <1>4

LEMMA ConvertRowPreserves ==
  ASSUME DatasetInv, ConvertRow
  PROVE  DatasetInv'
<1> PICK i, n, l : i = prep.next /\ n = Rank(source, i - 1) /\ l = Many(source)
  OBVIOUS
<1>1. /\ source \in Sources /\ ManifestSound /\ ColumnsSound /\ prep \in PrepType
      /\ prep.step = "rows" /\ prepared # "ok"
      /\ i \in 1 .. Len(Rows) + 1 /\ n <= l /\ prep.out = Begun(source, n)
  BY DEF DatasetInv, ConversionSound, ConvertRow, PrepType, Cell
<1>2. /\ source' = source /\ manifest' = manifest /\ column' = column /\ prepared' = prepared
      /\ i \in DOMAIN Rows /\ ~CapReached(RowsWritten)
      /\ prep' = [prep EXCEPT !.next = @ + 1,
            !.out = IF KeepUnder(Rows[i]) /\ InDomain(Rows[i])
                    THEN [c \in Columns |-> Append(@[c], Stored(Rows[i][c]))] ELSE @]
  BY DEF ConvertRow
<1>3. /\ Rows \in Seq([Columns -> Int \union {Null, NaN}]) /\ Len(Rows) \in Nat
      /\ DOMAIN Rows = 1 .. Len(Rows) /\ i \in 1 .. Len(Rows) /\ i \in Nat \ {0} /\ i - 1 \in Nat
      /\ n \in Nat /\ l \in Nat /\ Rows' = Rows
  <2>1. /\ Rows \in Seq([Columns -> Int \union {Null, NaN}]) /\ Len(Rows) \in Nat
        /\ DOMAIN Rows = 1 .. Len(Rows) /\ Many(source) \in Nat
    BY <1>1, KeptBounded DEF Rows
  <2>2. Rows' = Rows
    BY <1>2 DEF Rows
  <2>3. i \in 1 .. Len(Rows) /\ i \in Nat \ {0} /\ i - 1 \in Nat
    BY <1>2, <2>1
  <2>4. Rank(source, i - 1) \in Nat
    BY <1>1, <2>3, RankBounded
  <2> QED
    BY <2>1, <2>2, <2>3, <2>4
<1>4. prep'.step = "rows" /\ prep'.next = i + 1 /\ prep'.next - 1 = i
  BY <1>1, <1>2, <1>3 DEF PrepType
<1>5. /\ Rank(source, i) <= l /\ prep'.out = Begun(source, Rank(source, i))
      /\ prep'.out \in [Columns -> Seq(Cell)]
  <2>1. CASE i \in Kept(source)
    <3>1. Rank(source, i) = n + 1
      BY <1>1, <1>3, <2>1, RankSteps
    <3>2. n + 1 <= l
      <4>1. /\ Rank(source, i) <= Cardinality(Kept(source)) /\ Cardinality(Kept(source)) \in Nat
            /\ MaxRows \in Nat
        BY <1>1, <1>3, KeptBounded, RankBounded
      <4>2. RowsWritten = n
        <5>1. DropColumn \in Columns
          BY DatasetAssumption
        <5>2. prep.out[DropColumn] = First(Contents(source)[DropColumn], n)
          BY <1>1, <5>1 DEF Begun
        <5> QED
          BY <1>1, <1>3, <5>1, <5>2, PartsOfContents DEF RowsWritten
      <4>3. MaxRows > 0 => n < MaxRows
        BY <1>2, <1>3, <4>1, <4>2 DEF CapReached
      <4>4. l = Cardinality(Kept(source)) \/ (l = MaxRows /\ MaxRows # 0)
        BY DEF Many
      <4> QED
        BY <1>3, <3>1, <4>1, <4>3, <4>4
    <3>3. \A c \in Columns : First(Contents(source)[c], n + 1)
                                = Append(First(Contents(source)[c], n), Contents(source)[c][n + 1])
      <4> TAKE c \in Columns
      <4>1. n \in 0 .. Many(source) /\ n < Many(source)
        BY <1>3, <3>2
      <4> QED
        BY <1>1, <4>1, PartsOfContents
    <3>4. \A c \in Columns : Contents(source)[c][n + 1] = Stored(Rows[i][c])
      <4>1. n + 1 \in 1 .. Many(source)
        BY <1>3, <3>2
      <4>2. SurvivorsOf(source)[n + 1] = Rows[i]
        BY <1>1, <2>1, <3>1, <4>1, SurvivorAt DEF Rows
      <4> TAKE c \in Columns
      <4>3. Contents(source)[c] = [k \in 1 .. Many(source) |-> Stored(SurvivorsOf(source)[k][c])]
        BY <1>1, ContentsType
      <4>4. Contents(source)[c][n + 1] = Stored(SurvivorsOf(source)[n + 1][c])
        BY <4>1, <4>3
      <4> QED
        BY <4>2, <4>4
    <3>5. KeepUnder(Rows[i]) /\ InDomain(Rows[i])
      BY <2>1 DEF Kept, Rows
    <3>6. prep'.out = [c \in Columns |-> Append(prep.out[c], Stored(Rows[i][c]))]
      BY <1>1, <1>2, <3>5 DEF PrepType
    <3>7. \A c \in Columns : prep.out[c] = First(Contents(source)[c], n)
      BY <1>1 DEF Begun
    <3>8. \A c \in Columns : Append(prep.out[c], Stored(Rows[i][c])) = First(Contents(source)[c], n + 1)
      BY <3>3, <3>4, <3>7
    <3>9. prep'.out = Begun(source, n + 1)
      BY <3>6, <3>8 DEF Begun
    <3>10. \A c \in Columns : First(Contents(source)[c], n + 1) \in Seq(Cell)
      BY <1>1, <1>3, <3>2, PartsOfContents
    <3> QED
      BY <3>1, <3>2, <3>9, <3>10 DEF Begun
  <2>2. CASE i \notin Kept(source)
    <3>1. Rank(source, i) = n
      BY <1>1, <1>3, <2>2, RankSteps
    <3>2. ~(KeepUnder(Rows[i]) /\ InDomain(Rows[i]))
      BY <1>3, <2>2 DEF Kept, Rows
    <3>3. prep'.out = prep.out
      BY <1>1, <1>2, <3>2 DEF PrepType
    <3> QED
      BY <1>1, <3>1, <3>3 DEF PrepType
  <2> QED
    BY <2>1, <2>2
<1>6. ConversionSound'
  <2>1. prep'.next \in 1 .. Len(Rows') + 1
    BY <1>3, <1>4
  <2> QED
    BY <1>2, <1>4, <1>5, <2>1 DEF ConversionSound
<1>7. prep' \in PrepType
  <2> PICK o : o = prep'.out
    OBVIOUS
  <2>1. o \in [Columns -> Seq(Cell)]
    BY <1>5
  <2>2. prep' = [prep EXCEPT !.next = i + 1, !.out = o]
    <3> PICK x : prep' = [prep EXCEPT !.next = @ + 1, !.out = x]
      BY <1>2
    <3>1. o = x
      BY <1>1 DEF PrepType
    <3> QED
      BY <3>1
  <2>3. prep' = [step |-> "rows", next |-> i + 1, out |-> o]
    BY <1>1, <2>2 DEF PrepType
  <2>4. i + 1 \in Nat \ {0}
    BY <1>3
  <2> QED
    BY <2>1, <2>3, <2>4 DEF PrepType
<1>8. ManifestSound' /\ ColumnsSound'
  BY <1>1, <1>2 DEF ManifestSound, ColumnsSound
<1> QED
  BY <1>1, <1>2, <1>4, <1>6, <1>7, <1>8 DEF DatasetInv

LEMMA CloseColumnsPreserves ==
  ASSUME DatasetInv, CloseColumns
  PROVE  DatasetInv'
<1> PICK i, n, l : i = prep.next /\ n = Rank(source, i - 1) /\ l = Many(source)
  OBVIOUS
<1>1. /\ source \in Sources /\ ManifestSound /\ prep \in PrepType
      /\ prep.step = "rows" /\ prepared # "ok"
      /\ i \in 1 .. Len(Rows) + 1 /\ n <= l /\ prep.out = Begun(source, n)
  BY DEF DatasetInv, ConversionSound, CloseColumns, PrepType, Cell
<1>2. /\ source' = source /\ manifest' = manifest /\ prepared' = prepared /\ column' = prep.out
      /\ prep' = [prep EXCEPT !.step = "manifest"]
      /\ i \notin DOMAIN Rows \/ CapReached(RowsWritten)
  BY DEF CloseColumns
<1>3. /\ Len(Rows) \in Nat /\ DOMAIN Rows = 1 .. Len(Rows) /\ l \in Nat /\ MaxRows \in Nat
      /\ l <= Cardinality(Kept(source)) /\ Cardinality(Kept(source)) \in Nat
      /\ MaxRows > 0 => l <= MaxRows
  BY <1>1, KeptBounded DEF Rows
<1>4. n \in Nat /\ i - 1 \in Nat
  <2>1. i - 1 \in Nat
    BY <1>1, <1>3
  <2> QED
    BY <1>1, <2>1, RankBounded
<1>5. n = l
  <2>1. CASE i \notin DOMAIN Rows
    <3>1. i - 1 = Len(Rows)
      BY <1>1, <1>3, <2>1
    <3>2. n = Cardinality(Kept(source))
      BY <1>1, <3>1, RankEnds DEF Rows
    <3> QED
      BY <1>1, <1>3, <1>4, <3>2
  <2>2. CASE CapReached(RowsWritten)
    <3>1. DropColumn \in Columns
      BY DatasetAssumption
    <3>2. prep.out[DropColumn] = First(Contents(source)[DropColumn], n)
      BY <1>1, <3>1 DEF Begun
    <3>3. RowsWritten = n
      BY <1>1, <1>3, <1>4, <3>1, <3>2, PartsOfContents DEF RowsWritten
    <3> QED
      BY <1>1, <1>3, <1>4, <2>2, <3>3 DEF CapReached
  <2> QED
    BY <1>2, <2>1, <2>2
<1>6. prep.out = Contents(source)
  <2>1. \A c \in Columns : First(Contents(source)[c], l) = Contents(source)[c]
    BY <1>1, <1>3, PartsOfContents
  <2>2. Contents(source) = [c \in Columns |-> Contents(source)[c]]
    BY DEF Contents
  <2> QED
    BY <1>1, <1>5, <2>1, <2>2 DEF Begun
<1>7. prep' \in PrepType /\ prep'.step = "manifest" /\ prep'.out = prep.out
  BY <1>1, <1>2 DEF PrepType
<1>8. ColumnsSound'
  <2> PICK part : part = [c \in Columns |-> n]
    OBVIOUS
  <2>1. part \in [Columns -> 0 .. Many(source)]
    BY <1>3, <1>4, <1>5
  <2>2. column' = [c \in Columns |-> First(Contents(source)[c], part[c])]
    BY <1>1, <1>2 DEF Begun
  <2> QED
    BY <1>1, <2>1, <2>2 DEF ColumnsSound
<1>9. ManifestSound' /\ ConversionSound'
  BY <1>1, <1>2, <1>6, <1>7 DEF ManifestSound, ConversionSound
<1> QED
  BY <1>1, <1>2, <1>7, <1>8, <1>9 DEF DatasetInv

LEMMA WriteManifestPreserves ==
  ASSUME DatasetInv, WriteManifest
  PROVE  DatasetInv'
<1>1. /\ source \in Sources /\ prepared # "ok" /\ ColumnsSound
      /\ prep.out = Contents(source) /\ column = Contents(source)
  BY DEF DatasetInv, ConversionSound, WriteManifest
<1>2. /\ source' = source /\ prepared' = prepared /\ column' = column
      /\ manifest' = ManifestOf(prep.out) /\ prep' = [Idle EXCEPT !.step = "verify"]
  BY DEF WriteManifest
<1>3. prep' \in PrepType /\ prep'.step = "verify"
  BY <1>1, <1>2, EmptyIsBegun DEF Idle, PrepType
<1>4. RowsWritten = Many(source)
  <2>1. DropColumn \in Columns
    BY DatasetAssumption
  <2> QED
    BY <1>1, <2>1, ContentsType DEF RowsWritten
<1>5. manifest' = Description(source)
  BY <1>1, <1>2, <1>4 DEF ManifestOf, Description
<1>6. Described' /\ ManifestSound' /\ ColumnsSound'
  BY <1>1, <1>2, <1>5 DEF Described, ManifestSound, ColumnsSound
<1> QED
  BY <1>1, <1>2, <1>3, <1>6 DEF DatasetInv, ConversionSound, PrepType, Cell

LEMMA VerifyDatasetPreserves ==
  ASSUME DatasetInv, VerifyDataset
  PROVE  DatasetInv'
<1>1. source \in Sources /\ Described /\ ManifestSound /\ ColumnsSound
  BY DEF DatasetInv, VerifyDataset
<1>2. /\ source' = source /\ column' = column /\ manifest' = manifest /\ prep' = Idle
      /\ prepared' = "ok" => Verified
  BY DEF VerifyDataset
<1>3. prep' \in PrepType /\ prep'.step = "off"
  BY <1>1, <1>2, EmptyIsBegun DEF Idle
<1>4. Described' /\ ManifestSound' /\ ColumnsSound' /\ (Verified => Verified')
  BY <1>1, <1>2 DEF Described, ManifestSound, ColumnsSound, Verified, Opens, Readable
<1> QED
  BY <1>1, <1>2, <1>3, <1>4 DEF DatasetInv, ConversionSound, PrepType, Cell

LEMMA KillPreparePreserves ==
  ASSUME DatasetInv, KillPrepare
  PROVE  DatasetInv'
<1>1. /\ source \in Sources /\ prepared # "ok" /\ ManifestSound /\ ColumnsSound
      /\ ConversionSound /\ prep \in PrepType
  BY DEF DatasetInv, KillPrepare, PrepType, Cell
<1>2. source' = source /\ prepared' = prepared /\ prep' = Idle
  BY DEF KillPrepare
<1>3. prep' \in PrepType /\ prep'.step = "off"
  BY <1>1, <1>2, EmptyIsBegun DEF Idle
<1>4. ManifestSound'
  BY <1>1 DEF KillPrepare, ManifestSound
<1>5. ColumnsSound'
  <2>1. CASE prep.step = "rows"
    <3> PICK n, l : n = Rank(source, prep.next - 1) /\ l = Many(source)
      OBVIOUS
    <3>1. n <= l /\ prep.out = Begun(source, n) /\ prep.next \in Nat \ {0}
      BY <1>1, <2>1 DEF ConversionSound, PrepType
    <3>2. n \in Nat /\ l \in Nat
      <4>1. prep.next - 1 \in Nat
        BY <3>1
      <4> QED
        BY <1>1, <4>1, RankBounded, KeptBounded
    <3>3. /\ DOMAIN column' = Columns /\ column' = [c \in Columns |-> column'[c]]
          /\ \A c \in Columns : column'[c] \in FlushedOf(c)
      BY <2>1 DEF KillPrepare
    <3>4. ASSUME NEW c \in Columns
          PROVE  \E m \in 0 .. l : column'[c] = First(Contents(source)[c], m)
      <4>1. prep.out[c] = First(Contents(source)[c], n) /\ Len(prep.out[c]) = n
        BY <1>1, <3>1, <3>2, PartsOfContents DEF Begun
      <4>2. PICK m \in 0 .. n : column'[c] = SubSeq(prep.out[c], 1, m)
        BY <3>3, <4>1 DEF FlushedOf
      <4>3. SubSeq(First(Contents(source)[c], n), 1, m) = First(Contents(source)[c], m)
        BY <1>1, <3>1, <3>2, PartsOfContents
      <4> QED
        BY <3>1, <3>2, <4>1, <4>2, <4>3
    <3> DEFINE part == [c \in Columns |-> CHOOSE m \in 0 .. l : column'[c] = First(Contents(source)[c], m)]
    <3>5. part \in [Columns -> 0 .. Many(source)]
      BY <3>4
    <3>6. \A c \in Columns : column'[c] = First(Contents(source)[c], part[c])
      BY <3>4
    <3>7. column' = [c \in Columns |-> First(Contents(source)[c], part[c])]
      BY <3>3, <3>6
    <3> HIDE DEF part
    <3> QED
      BY <1>1, <3>5, <3>7 DEF ColumnsSound
  <2>2. CASE prep.step # "rows"
    <3>1. column' = column
      BY <2>2 DEF KillPrepare
    <3> QED
      BY <1>1, <3>1 DEF ColumnsSound
  <2> QED
    BY <2>1, <2>2
<1> QED
  BY <1>1, <1>2, <1>3, <1>4, <1>5 DEF DatasetInv, ConversionSound, PrepType, Cell

LEMMA ReplaceSourcePreserves ==
  ASSUME DatasetInv, NEW s \in Sources, ReplaceSource(s)
  PROVE  DatasetInv'
<1>1. /\ ManifestSound /\ ColumnsSound /\ prep \in PrepType /\ prep.step = "off"
      /\ source' = s /\ prepared' = "no" /\ column' = column /\ manifest' = manifest
      /\ prep' = prep
  BY DEF DatasetInv, ReplaceSource, PrepType, Cell
<1> QED
  BY <1>1 DEF DatasetInv, ManifestSound, ColumnsSound, ConversionSound, PrepType, Cell

LEMMA DatasetStutters ==
  ASSUME DatasetInv, UNCHANGED datasetVars
  PROVE  DatasetInv'
<1>1. /\ source' = source /\ column' = column /\ manifest' = manifest /\ prep' = prep
      /\ prepared' = prepared
  BY DEF datasetVars
<1> QED
  BY <1>1
  DEF DatasetInv, ManifestSound, ColumnsSound, ConversionSound, Described, Verified, Opens,
      Readable, Rows

LEMMA DatasetSteps ==
  ASSUME DatasetInv, [Next]_vars
  PROVE  DatasetInv'
<1>1. CASE UNCHANGED datasetVars
  BY <1>1, DatasetStutters
<1>2. CASE CommandPrepare
  BY <1>2, BeginPreparePreserves DEF CommandPrepare
<1>3. CASE CommandReplaceSource
  BY <1>3, ReplaceSourcePreserves DEF CommandReplaceSource
<1>4. CASE PrepareStep
  BY <1>4, ConvertRowPreserves, CloseColumnsPreserves, WriteManifestPreserves,
     VerifyDatasetPreserves DEF PrepareStep, Prepare
<1>5. CASE KillPreparation
  BY <1>5, KillPreparePreserves DEF KillPreparation
<1>6. CommandEdit \/ CommandRun \/ EngineStep \/ KillEngine \/ KillRunner => UNCHANGED datasetVars
  BY DEF CommandEdit, CommandRun, EngineStep, KillEngine, KillRunner
<1>7. RunnerStep => UNCHANGED datasetVars
  BY DEF RunnerStep, ReuseWorkload, WriteWorkload, WorkloadFails, SkipCell, StartCell,
         PublishFirst, PublishSecond, CellFails, EndRun
<1>8. UNCHANGED vars => UNCHANGED datasetVars
  BY DEF vars
<1> QED
  BY <1>1, <1>2, <1>3, <1>4, <1>5, <1>6, <1>7, <1>8 DEF Next

\* What has been verified is the source's own rows, if its statistics tell.
LEMMA VerifiedIsSurvivors ==
  ASSUME DatasetInv, prepared = "ok", MaxRows = 0 => StatisticsTell
  PROVE  PreparedIsSurvivors
<1>1. /\ source \in Sources /\ ColumnsSound /\ Verified /\ manifest = Description(source)
      /\ MaxRows > 0 => column = Contents(source)
  BY DEF DatasetInv, Described
<1>2. /\ manifest.rows = Many(source) /\ Opens
      /\ \A d \in Dimensions : manifest.extent[d] = Extent(d, Contents(source)[d])
      /\ \A m \in Measures : manifest.global[m] = BagOf(Contents(source)[m])
  BY <1>1, DescriptionFields DEF Verified
<1>3. MaxRows \in Nat /\ DropColumn \in Columns /\ Dimensions \subseteq Columns /\ Measures \subseteq Columns
  BY DatasetAssumption DEF Columns
<1>4. column = Contents(source)
  <2>1. CASE MaxRows > 0
    BY <1>1, <2>1
  <2>2. CASE MaxRows = 0
    <3>0. PICK t \in Sources : \E part \in [Columns -> 0 .. Many(t)] :
            column = [c \in Columns |-> First(Contents(t)[c], part[c])]
      BY <1>1 DEF ColumnsSound
    <3>1. PICK part \in [Columns -> 0 .. Many(t)] :
            column = [c \in Columns |-> First(Contents(t)[c], part[c])]
      BY <3>0
    <3>2. ASSUME NEW c \in Columns PROVE part[c] = Many(source) /\ Many(source) <= Many(t)
      <4>1. part[c] \in 0 .. Many(t) /\ Many(t) \in Nat
        BY <3>1, KeptBounded
      <4>2. Len(First(Contents(t)[c], part[c])) = part[c]
        BY <4>1, PartsOfContents
      <4>3. Len(column[c]) = Many(source)
        BY <1>2 DEF Opens
      <4> QED
        BY <3>1, <4>1, <4>2, <4>3
    <3>3. column = Begun(t, Many(source)) /\ Many(source) <= Many(t)
      BY <1>3, <3>1, <3>2 DEF Begun
    <3> PICK first : first = Begun(t, Many(source))
      OBVIOUS
    <3>4. \A d \in Dimensions : ToSet(first[d]) \ {NaN} # {}
                               => Extent(d, first[d]) = Extent(d, Contents(source)[d])
      BY <1>1, <1>2, <3>3 DEF Verified
    <3>5. \A m \in Measures : BagOf(first[m]) = BagOf(Contents(source)[m])
      BY <1>1, <1>2, <3>3 DEF Verified
    <3>6. first = Contents(source)
      BY <1>1, <2>2, <3>3, <3>4, <3>5 DEF StatisticsTell
    <3> QED
      BY <3>3, <3>6
  <2> QED
    BY <1>3, <2>1, <2>2
<1>5. \A c \in Columns : column[c] = [i \in DOMAIN Survivors |-> Stored(Survivors[i][c])]
  <2>1. DOMAIN Survivors = 1 .. Many(source)
    BY DEF Survivors, SurvivorsOf
  <2> QED
    BY <1>1, <1>4, <2>1, ContentsType DEF Survivors
<1>6. \A d \in Dimensions : \A v \in ToSet(column[d]) \ {NaN} :
        manifest.extent[d].min <= v /\ v <= manifest.extent[d].max
  BY <1>1, <1>2, <1>4, ExtentEncloses
<1> QED
  BY <1>2, <1>5, <1>6 DEF PreparedIsSurvivors

\* However often preparations are killed and sources replaced, the columns are the first
\* rows of one source, each perhaps cut off elsewhere; a manifest that can be read is a
\* source's own; and what was reported prepared has the statistics of the source as it is.
THEOREM DatasetInvariant == Spec => []DatasetInv
<1>1. Init => DatasetInv
  BY PreparationStarts DEF Init
<1>2. DatasetInv /\ [Next]_vars => DatasetInv'
  BY DatasetSteps
<1> QED
  BY <1>1, <1>2, PTL DEF Spec

\* A preparation that reports success has left the surviving rows of the source, where a
\* source's statistics tell its rows from the first rows of another one.  A conversion
\* with a cap on its rows is never skipped, and needs no such hypothesis.
THEOREM PreparedStaysSurvivors ==
  ASSUME MaxRows = 0 => StatisticsTell
  PROVE  Spec => []PreparedIsSurvivors
<1>1. DatasetInv => PreparedIsSurvivors
  BY VerifiedIsSurvivors DEF PreparedIsSurvivors
<1> QED
  BY <1>1, DatasetInvariant, PTL
-----------------------------------------------------------------------------
USE ResultAssumption, RunnerAssumption
-----------------------------------------------------------------------------
(* Paths and files.                                                        *)

LEMMA PathsOfACell ==
  ASSUME NEW key \in Keys
  PROVE  /\ {QTmp(key), QOut(key), MTmp(key), MOut(key)} \subseteq Paths
         /\ QTmp(key) # QOut(key) /\ QTmp(key) # MTmp(key) /\ QTmp(key) # MOut(key)
         /\ QOut(key) # MTmp(key) /\ QOut(key) # MOut(key) /\ MTmp(key) # MOut(key)
BY DEF Paths, QTmp, QOut, MTmp, MOut

LEMMA PathsOfTwoCells ==
  ASSUME NEW key \in Keys, NEW other \in Keys
  PROVE  /\ QTmp(key) # QOut(other) /\ QTmp(key) # MOut(other)
         /\ MTmp(key) # QOut(other) /\ MTmp(key) # MOut(other)
         /\ QOut(key) # MOut(other)
         /\ QOut(key) = QOut(other) => key = other
         /\ MOut(key) = MOut(other) => key = other
BY DEF QTmp, QOut, MTmp, MOut

LEMMA PathsFinite == IsFiniteSet(Paths) /\ Cardinality(Paths) \in Nat
<1>1. IsFiniteSet(0 .. MaxCount)
  BY FS_Interval
<1>2. IsFiniteSet(Keys)
  BY <1>1, FS_Product DEF Keys
<1>3. IsFiniteSet({"qresults", "runmeta"}) /\ IsFiniteSet({"tmp", "out"})
  <2>1. /\ {"qresults", "runmeta"} = {"qresults"} \union {"runmeta"}
        /\ {"tmp", "out"} = {"tmp"} \union {"out"}
    OBVIOUS
  <2>2. \A x : IsFiniteSet({x})
    BY FS_Singleton
  <2>3. /\ IsFiniteSet({"qresults"} \union {"runmeta"})
        /\ IsFiniteSet({"tmp"} \union {"out"})
    BY <2>2, FS_Union
  <2> QED
    BY <2>1, <2>3
<1> DEFINE Names == {"qresults", "runmeta"} \X {"tmp", "out"}
           f == [x \in Keys \X Names |-> <<x[1], x[2][1], x[2][2]>>]
<1>4. IsFiniteSet(Keys \X Names)
  BY <1>2, <1>3, FS_Product
<1>5. f \in Surjection(Keys \X Names, Paths)
  <2>1. \A x \in Keys \X Names : f[x] \in Paths
    BY DEF Paths
  <2>2. ASSUME NEW p \in Paths PROVE \E x \in Keys \X Names : f[x] = p
    <3>1. p = <<p[1], p[2], p[3]>> /\ <<p[1], <<p[2], p[3]>>>> \in Keys \X Names
      BY DEF Paths
    <3>2. f[<<p[1], <<p[2], p[3]>>>>] = p
      BY <3>1
    <3> QED
      BY <3>1, <3>2
  <2> QED
    BY <2>1, <2>2 DEF Surjection
<1> QED
  BY <1>4, <1>5, FS_Surjection, FS_CardinalityType

\* What a function takes as values is no more than what it is defined on.
LEMMA ImageFinite ==
  ASSUME NEW S, IsFiniteSet(S), NEW f
  PROVE  /\ IsFiniteSet({f[x] : x \in S})
         /\ Cardinality({f[x] : x \in S}) <= Cardinality(S)
<1> DEFINE g == [x \in S |-> f[x]]
           T == {f[x] : x \in S}
<1>1. g \in Surjection(S, T)
  BY DEF Surjection
<1> QED
  BY <1>1, FS_Surjection

\* There is always a file that no path names and no process writes.
InUse == {name[q] : q \in Paths} \union {engine[e].q : e \in Processes}
           \union {engine[e].m : e \in Processes}

LEMMA AFileIsFree ==
  ASSUME NEW p \in Paths, name[p] = 0
  PROVE  FileIds \ InUse # {}
<1> DEFINE A == {name[q] : q \in Paths}
           qs == [e \in Processes |-> engine[e].q]
           ms == [e \in Processes |-> engine[e].m]
           B == {qs[e] : e \in Processes}
           C == {ms[e] : e \in Processes}
           a == Cardinality(Paths)
           n == Cardinality(Processes)
<1>1. a \in Nat /\ n \in Nat /\ IsFiniteSet(Paths) /\ IsFiniteSet(Processes)
  BY PathsFinite, FS_CardinalityType
<1>2. IsFiniteSet(A) /\ Cardinality(A) <= a
  BY <1>1, ImageFinite
<1>3. IsFiniteSet(B) /\ Cardinality(B) <= n
  <2> HIDE DEF qs
  <2> QED
    BY <1>1, ImageFinite
<1>4. IsFiniteSet(C) /\ Cardinality(C) <= n
  <2> HIDE DEF ms
  <2> QED
    BY <1>1, ImageFinite
<1>5. InUse = (A \union B) \union C
  BY DEF InUse
<1>6. 0 \in A
  OBVIOUS
<1> HIDE DEF A, B, C
<1>7. /\ IsFiniteSet(A \union B)
      /\ Cardinality(A \union B) = Cardinality(A) + Cardinality(B) - Cardinality(A \cap B)
  BY <1>2, <1>3, FS_Union
<1>8. /\ IsFiniteSet(InUse)
      /\ Cardinality(InUse) =
           Cardinality(A \union B) + Cardinality(C) - Cardinality((A \union B) \cap C)
  BY <1>4, <1>5, <1>7, FS_Union
<1>9. /\ Cardinality(A) \in Nat /\ Cardinality(B) \in Nat /\ Cardinality(C) \in Nat
      /\ Cardinality(A \cap B) \in Nat /\ Cardinality((A \union B) \cap C) \in Nat
      /\ Cardinality(A \union B) \in Nat /\ Cardinality(InUse) \in Nat
  <2>1. IsFiniteSet(A \cap B) /\ IsFiniteSet((A \union B) \cap C)
    BY <1>2, <1>7, FS_Subset
  <2> QED
    BY <2>1, <1>2, <1>3, <1>4, <1>7, <1>8, FS_CardinalityType
<1>10. Cardinality(InUse) <= a + 2 * n
  <2> HIDE DEF a, n
  <2> QED
    BY ONLY <1>1, <1>2, <1>3, <1>4, <1>7, <1>8, <1>9
<1>11. SUFFICES ASSUME FileIds \subseteq InUse PROVE FALSE
  OBVIOUS
<1>12. /\ IsFiniteSet(0 .. a + 2 * n) /\ Cardinality(0 .. a + 2 * n) = a + 2 * n + 1
  <2> HIDE DEF a, n
  <2>1. PICK top \in Nat : top = a + 2 * n
    BY ONLY <1>1
  <2>2. 0 \in Int /\ top \in Int
    BY ONLY <2>1
  <2>3. IsFiniteSet(0 .. top) /\ Cardinality(0 .. top) = IF 0 > top THEN 0 ELSE top - 0 + 1
    BY ONLY <2>2, FS_Interval
  <2>4. Cardinality(0 .. top) = top + 1
    BY ONLY <2>1, <2>3
  <2> QED
    BY <2>1, <2>3, <2>4
<1>13. 0 .. a + 2 * n \subseteq InUse
  <2>1. 0 \in InUse
    BY <1>5, <1>6
  <2>2. 1 .. a + 2 * n \subseteq InUse
    BY <1>11 DEF FileIds
  <2> HIDE DEF a, n
  <2>3. \A i \in 0 .. a + 2 * n : i = 0 \/ i \in 1 .. a + 2 * n
    BY ONLY <1>1
  <2> QED
    BY <2>1, <2>2, <2>3
<1>14. Cardinality(0 .. a + 2 * n) <= Cardinality(InUse)
  BY <1>8, <1>13, FS_Subset
<1> HIDE DEF a, n
<1> QED
  BY ONLY <1>1, <1>9, <1>10, <1>12, <1>14

\* What a process opens for writing is a file of this path alone.
LEMMA OpenedFileIsItsOwn ==
  ASSUME ResultTypes, NamesDistinct, NEW p \in Paths
  PROVE  /\ OpenedFile(p) \in FileIds /\ OpenedFile(p) # 0
         /\ \A q \in Paths \ {p} : name[q] # OpenedFile(p)
         /\ name[p] = OpenedFile(p) \/ \A e \in Processes : engine[e].q # OpenedFile(p)
<1>1. \A f \in FileIds : f # 0 /\ f \in Nat
  BY PathsFinite, FS_CardinalityType DEF FileIds
<1>2. CASE name[p] # 0
  <2>1. OpenedFile(p) = name[p] /\ name[p] \in FileIds
    BY <1>2 DEF OpenedFile, ResultTypes
  <2> QED
    BY <1>1, <1>2, <2>1 DEF NamesDistinct
<1>3. CASE name[p] = 0
  <2> DEFINE S == FileIds \ InUse
  <2>1. OpenedFile(p) = CHOOSE x \in S : \A y \in S : x <= y
    BY <1>3 DEF OpenedFile, InUse, Min
  <2>2. S # {} /\ S \in SUBSET Nat
    BY <1>1, <1>3, AFileIsFree
  <2>3. OpenedFile(p) \in S
    <3> HIDE DEF S
    <3>1. \E x \in S : \A y \in S : x <= y
      BY <2>2, LeastNat
    <3> QED
      BY <2>1, <3>1
  <2>4. OpenedFile(p) \in FileIds /\ OpenedFile(p) \notin InUse
    BY <2>3
  <2> HIDE DEF S
  <2> QED
    BY <1>1, <2>4 DEF InUse
<1> QED
  BY <1>2, <1>3

-----------------------------------------------------------------------------
(* What a step leaves alone.                                               *)

LEMMA KeysOfThePlan ==
  ASSUME RunnerTypes, NEW i \in DOMAIN Plan
  PROVE  Key(i) \in Keys /\ Key(i)[2] = runner.queries
<1>1. Plan[i] \in Cells
  OBVIOUS
<1>2. runner.queries \in 0 .. MaxCount
  BY DEF RunnerTypes
<1> QED
  BY <1>1, <1>2 DEF Key, Keys

\* The runner stopped, no engine is alive: nothing but what the files hold matters.
AtRest ==
  /\ ResultTypes /\ RunnerTypes /\ NamesDistinct
  /\ runner.pc = "stopped" /\ \A e \in Processes : engine[e].step = "none"
  /\ PresentIsComplete /\ MetadataSound
  /\ runner.exit # "ok"

LEMMA RestIsSound ==
  ASSUME AtRest
  PROVE  RunnerInv
BY DEF AtRest, RunnerInv, OnlyTheChild, ChildWrites, HalfPublished, MeasuredSoFar, Looping

LEMMA RestIsSoundNext ==
  ASSUME AtRest'
  PROVE  RunnerInv'
BY RestIsSound, PTL

LEMMA StoppedIsAtRest ==
  ASSUME RunnerInv, runner.pc = "stopped"
  PROVE  /\ \A e \in Processes : engine[e].step = "none"
         /\ ResultTypes /\ RunnerTypes /\ NamesDistinct /\ PresentIsComplete /\ MetadataSound
BY DEF RunnerInv, OnlyTheChild

LEMMA RunnerStarts == Init => RunnerInv
<1> SUFFICES ASSUME Init PROVE RunnerInv
  OBVIOUS
<1> USE DEF Init, ResultInit, DatasetInit
<1>1. ResultTypes
  BY DEF ResultTypes, FileContent, Blank
<1>2. RunnerTypes
  BY DEF RunnerTypes, NoCsv, Stopped, Looping
<1>3. \A key \in Keys : name[QOut(key)] = 0 /\ name[MOut(key)] = 0
  BY PathsOfACell
<1>4. AtRest
  BY <1>1, <1>2, <1>3
     DEF AtRest, NamesDistinct, Stopped, Dead, PresentIsComplete, MetadataSound
<1> QED
  BY <1>4, RestIsSound

LEMMA RunnerStutters ==
  ASSUME RunnerInv, UNCHANGED <<resultVars, build, config, csv, runner>>
  PROVE  RunnerInv'
<1> USE DEF resultVars
<1>1. ResultTypes'
  BY DEF RunnerInv, ResultTypes
<1>2. RunnerTypes'
  BY DEF RunnerInv, RunnerTypes, Looping
<1>3. NamesDistinct' /\ OnlyTheChild'
  BY DEF RunnerInv, NamesDistinct, OnlyTheChild
<1>4. ChildWrites'
  BY DEF RunnerInv, ChildWrites, Writes, Opened, Key
<1>5. PresentIsComplete' /\ MetadataSound'
  BY DEF RunnerInv, PresentIsComplete, Whole, Content, MetadataSound
<1>6. HalfPublished'
  BY DEF RunnerInv, HalfPublished, Key, Content
<1>7. MeasuredSoFar'
  BY DEF RunnerInv, MeasuredSoFar, Measured, Looping, Key, Content
<1> QED
  BY <1>1, <1>2, <1>3, <1>4, <1>5, <1>6, <1>7 DEF RunnerInv

\* Files, build and workload as they were, the runner stopped.
LEMMA StillAtRest ==
  ASSUME RunnerInv, UNCHANGED <<name, file>>, engine' \in [Processes -> {Dead} \union Process],
         RunnerTypes', build <= build', runner'.pc = "stopped", runner'.exit # "ok",
         \A e \in Processes : engine'[e].step = "none"
  PROVE  RunnerInv'
<1>1. ResultTypes'
  BY DEF RunnerInv, ResultTypes
<1>2. NamesDistinct'
  BY DEF RunnerInv, NamesDistinct
<1>3. PresentIsComplete'
  BY DEF RunnerInv, PresentIsComplete, Whole, Content
<1>4. MetadataSound'
  <2> SUFFICES ASSUME NEW key \in Keys
      PROVE  /\ name[QOut(key)] # 0 => Content(QOut(key)).build <= build'
             /\ name[MOut(key)] # 0 => /\ Content(MOut(key)).whole /\ name[QOut(key)] # 0
                                       /\ Content(MOut(key)).build <= Content(QOut(key)).build
    BY DEF MetadataSound, Content
  <2>1. name[QOut(key)] # 0 => Content(QOut(key)).build \in Nat
    BY PathsOfACell DEF RunnerInv, ResultTypes, FileContent, Content
  <2>2. build \in Nat /\ build' \in Nat
    BY DEF RunnerInv, RunnerTypes
  <2> QED
    BY <2>1, <2>2 DEF RunnerInv, MetadataSound
<1> QED
  BY <1>1, <1>2, <1>3, <1>4, RestIsSoundNext DEF AtRest

-----------------------------------------------------------------------------
(* Commands, the workload, cells skipped: files and engines as they were.  *)

LEMMA FilesLeftAlone ==
  ASSUME RunnerInv, UNCHANGED <<resultVars, build>>, runner.pc # "wait",
         runner'.pc \notin {"wait", "publish"}, RunnerTypes', MeasuredSoFar'
  PROVE  RunnerInv'
<1> USE DEF resultVars
<1>1. ResultTypes'
  BY DEF RunnerInv, ResultTypes
<1>2. NamesDistinct'
  BY DEF RunnerInv, NamesDistinct
<1>3. OnlyTheChild'
  BY DEF RunnerInv, OnlyTheChild
<1>4. PresentIsComplete' /\ MetadataSound'
  BY DEF RunnerInv, PresentIsComplete, Whole, Content, MetadataSound
<1>5. ChildWrites' /\ HalfPublished'
  BY DEF ChildWrites, HalfPublished
<1> QED
  BY <1>1, <1>2, <1>3, <1>4, <1>5 DEF RunnerInv

LEMMA NothingMeasured ==
  ASSUME runner'.pc \in {"stopped", "workload"}, runner'.exit # "ok"
  PROVE  MeasuredSoFar'
BY DEF MeasuredSoFar, Looping

LEMMA ForgetPreserves ==
  ASSUME RunnerInv, runner.pc = "stopped", Forget, UNCHANGED <<resultVars, csv>>,
         build' \in Nat, build <= build', config' \in Counts
  PROVE  RunnerInv'
<1>1. RunnerTypes'
  BY DEF RunnerInv, RunnerTypes, Forget, Looping
<1>2. runner'.pc = "stopped" /\ runner'.exit # "ok"
  BY DEF RunnerInv, RunnerTypes, Forget
<1>3. \A e \in Processes : engine'[e].step = "none"
  BY StoppedIsAtRest DEF resultVars
<1>4. engine' \in [Processes -> {Dead} \union Process]
  BY DEF RunnerInv, ResultTypes, resultVars
<1> QED
  BY <1>1, <1>2, <1>3, <1>4, StillAtRest DEF resultVars

LEMMA CommandPreserves ==
  ASSUME RunnerInv, CommandPrepare \/ CommandReplaceSource \/ CommandEdit
  PROVE  RunnerInv'
<1>1. runner.pc = "stopped" /\ Forget /\ UNCHANGED <<resultVars, csv>>
  BY DEF CommandPrepare, CommandReplaceSource, CommandEdit, Command, Resting
<1>2. build' \in Nat /\ build <= build' /\ config' \in Counts
  <2>1. build \in Nat /\ config \in Counts
    BY DEF RunnerInv, RunnerTypes
  <2> QED
    BY <2>1 DEF CommandPrepare, CommandReplaceSource, CommandEdit
<1> QED
  BY <1>1, <1>2, ForgetPreserves

LEMMA CommandRunPreserves ==
  ASSUME RunnerInv, CommandRun
  PROVE  RunnerInv'
<1>1. PICK option \in Options : runner' = [Stopped EXCEPT !.pc = "workload", !.option = option]
  BY DEF CommandRun
<1>2. option \in {"resume", "stale", "force"}
  OBVIOUS
<1>3. RunnerTypes'
  <2>1. /\ build' \in Nat /\ config' \in Counts /\ csv' \in [fp : Nat, queries : 0 .. MaxCount]
    BY DEF RunnerInv, RunnerTypes, CommandRun
  <2>2. runner' = [pc |-> "workload", option |-> option, at |-> 1, queries |-> 0,
                   child |-> 0, errored |-> FALSE, exit |-> "none"]
    BY <1>1 DEF Stopped
  <2>3. 0 \in 0 .. MaxCount
    OBVIOUS
  <2> QED
    BY <1>2, <2>1, <2>2, <2>3 DEF RunnerTypes, Looping
<1>4. runner'.pc = "workload" /\ runner'.exit = "none" /\ runner.pc = "stopped"
  BY <1>1 DEF CommandRun, Command, Resting, Stopped
<1> QED
  BY <1>3, <1>4, NothingMeasured, FilesLeftAlone DEF CommandRun

\* The first cell is about to be tried.
LEMMA EnumeratePreserves ==
  ASSUME RunnerInv, UNCHANGED <<resultVars, build, config>>, runner.pc = "workload",
         NEW n \in 0 .. MaxCount, Enumerate(n), csv' \in [fp : Nat, queries : {n}]
  PROVE  RunnerInv'
<1>1. RunnerTypes'
  BY DEF RunnerInv, RunnerTypes, Looping, Enumerate
<1>2. runner'.pc = "cell" /\ runner'.at = 1 /\ runner'.exit = "none"
  BY DEF RunnerInv, RunnerTypes, Enumerate
<1>3. MeasuredSoFar'
  <2>1. \A i \in DOMAIN Plan : ~(i < 1)
    BY DEF RunnerAssumption
  <2> QED
    BY <1>2, <2>1 DEF MeasuredSoFar
<1> QED
  BY <1>1, <1>2, <1>3, FilesLeftAlone


LEMMA ExitStops ==
  ASSUME RunnerInv, UNCHANGED <<build, config>>, csv' \in [fp : Nat, queries : 0 .. MaxCount],
         NEW how \in {"failed", "killed", "errors", "ok"}, Exit(how)
  PROVE  /\ RunnerTypes' /\ runner'.pc = "stopped" /\ runner'.exit = how
         /\ runner'.queries = runner.queries /\ runner'.option = runner.option
<1>1. runner' = [pc |-> "stopped", option |-> runner.option, at |-> 1,
                 queries |-> runner.queries, child |-> 0, errored |-> FALSE, exit |-> how]
  BY DEF Exit, Stopped
<1>2. /\ runner.option \in {"resume", "stale", "force"} /\ runner.queries \in 0 .. MaxCount
      /\ build \in Nat /\ config \in Counts
  BY DEF RunnerInv, RunnerTypes
<1> QED
  BY <1>1, <1>2 DEF RunnerTypes, Looping

LEMMA WorkloadPreserves ==
  ASSUME RunnerInv, ReuseWorkload \/ WriteWorkload \/ WorkloadFails
  PROVE  RunnerInv'
<1>1. /\ csv \in [fp : Nat, queries : 0 .. MaxCount] /\ runner.pc = "workload"
      /\ UNCHANGED <<resultVars, build, config>>
  BY DEF RunnerInv, RunnerTypes, ReuseWorkload, WriteWorkload, WorkloadFails
<1>2. config \in 0 .. MaxCount /\ config \in Nat
  BY DEF RunnerInv, RunnerTypes
<1>3. CASE ReuseWorkload
  <2>1. csv.queries \in 0 .. MaxCount /\ Enumerate(csv.queries)
        /\ csv' \in [fp : Nat, queries : {csv.queries}]
    BY <1>1, <1>3 DEF ReuseWorkload
  <2> QED
    BY <1>1, <2>1, EnumeratePreserves
<1>4. CASE WriteWorkload
  <2>1. Enumerate(config) /\ csv' \in [fp : Nat, queries : {config}]
    BY <1>2, <1>4 DEF WriteWorkload, Fingerprint
  <2> QED
    BY <1>1, <1>2, <2>1, EnumeratePreserves
<1>5. CASE WorkloadFails
  <2>1. RunnerTypes' /\ runner'.pc = "stopped" /\ runner'.exit = "failed"
    BY <1>1, <1>5, ExitStops DEF WorkloadFails
  <2> QED
    BY <1>1, <2>1, NothingMeasured, FilesLeftAlone
<1> QED
  BY <1>3, <1>4, <1>5

\* A cell skipped has metadata, of the build installed if that was asked for.
LEMMA SkipCellPreserves ==
  ASSUME RunnerInv, SkipCell
  PROVE  RunnerInv'
<1>1. /\ runner' = [runner EXCEPT !.at = @ + 1] /\ runner.pc = "cell"
      /\ UNCHANGED <<resultVars, build, config, csv>>
  BY DEF SkipCell
<1>2. RunnerTypes'
  BY <1>1 DEF RunnerInv, RunnerTypes, Looping
<1>3. /\ runner'.pc = "cell" /\ runner'.at = runner.at + 1 /\ runner'.queries = runner.queries
      /\ runner'.option = runner.option /\ runner'.errored = runner.errored
      /\ runner'.exit = "none" /\ runner.at \in Nat
  BY <1>1 DEF RunnerInv, RunnerTypes
<1>4. \A i : Measured(i) => Measured(i)'
  BY <1>1, <1>3 DEF Measured, Key, Content, resultVars
<1>5. Measured(runner.at)
  <2>1. runner.option \in {"resume", "stale", "force"}
    BY DEF RunnerInv, RunnerTypes
  <2> QED
    BY <2>1 DEF SkipCell, Skipped, Fresh, Measured
<1>6. MeasuredSoFar'
  <2>1. SUFFICES ASSUME ~runner.errored, NEW i \in DOMAIN Plan, i < runner.at + 1
                 PROVE  Measured(i)'
    BY <1>3 DEF MeasuredSoFar
  <2>2. i < runner.at \/ i = runner.at
    BY <1>3, <2>1
  <2>3. i < runner.at => Measured(i)
    BY <1>1, <2>1 DEF RunnerInv, MeasuredSoFar, Looping
  <2> QED
    BY <1>4, <1>5, <2>2, <2>3
<1> QED
  BY <1>1, <1>2, <1>3, <1>6, FilesLeftAlone

LEMMA EndRunPreserves ==
  ASSUME RunnerInv, EndRun
  PROVE  RunnerInv'
<1>1. PICK how \in {"errors", "ok"} : Exit(how) /\ (how = "ok" => ~runner.errored)
  BY DEF EndRun
<1>2. UNCHANGED <<resultVars, build, config, csv>> /\ runner.pc = "cell"
  BY DEF EndRun
<1>3. csv \in [fp : Nat, queries : 0 .. MaxCount] /\ runner.at \in Nat \ {0}
  BY DEF RunnerInv, RunnerTypes
<1>4. /\ RunnerTypes' /\ runner'.pc = "stopped" /\ runner'.exit = how
      /\ runner'.queries = runner.queries /\ runner'.option = runner.option
  BY <1>1, <1>2, <1>3, ExitStops
<1>5. MeasuredSoFar'
  <2>1. SUFFICES ASSUME how = "ok", NEW i \in DOMAIN Plan PROVE Measured(i)'
    BY <1>4 DEF MeasuredSoFar, Looping
  <2>2. i < runner.at
    <3>1. runner.at \notin DOMAIN Plan
      BY DEF EndRun
    <3> QED
      BY <1>3, <3>1
  <2>3. Measured(i)
    BY <1>1, <1>2, <2>1, <2>2 DEF RunnerInv, MeasuredSoFar, Looping
  <2> QED
    BY <1>2, <1>4, <2>3 DEF Measured, Key, Content, resultVars
<1> QED
  BY <1>2, <1>4, <1>5, FilesLeftAlone
-----------------------------------------------------------------------------
(* The engine.                                                             *)

LEMMA StartCellPreserves ==
  ASSUME RunnerInv, StartCell
  PROVE  RunnerInv'
<1>1. PICK e \in Processes :
        /\ engine' = [engine EXCEPT ![e] = [Dead EXCEPT
              !.step = "start", !.key = Key(runner.at), !.build = build]]
        /\ runner' = [runner EXCEPT !.pc = "wait", !.child = e]
  BY DEF StartCell
<1>2. /\ UNCHANGED <<name, file, build, config, csv>> /\ runner.pc = "cell"
      /\ runner.at \in DOMAIN Plan
  BY DEF StartCell
<1> DEFINE key == Key(runner.at)
           started == [Dead EXCEPT !.step = "start", !.key = key, !.build = build]
<1>3. engine' = [engine EXCEPT ![e] = started]
  BY <1>1
<1>4. /\ started \in Process
      /\ started \in [step : {"start"}, key : {key}, build : {build}, toRun : {0},
                      rows : {0}, q : {0}, m : {0}]
  <2>1. key \in Keys /\ build \in Nat
    BY <1>2, KeysOfThePlan DEF RunnerInv, RunnerTypes
  <2> HIDE DEF key
  <2> QED
    BY <2>1 DEF Process, Steps, Dead
<1>5. ResultTypes'
  <2> HIDE DEF started
  <2> QED
    BY <1>2, <1>3, <1>4 DEF RunnerInv, ResultTypes
<1>6. RunnerTypes'
  BY <1>1, <1>2 DEF RunnerInv, RunnerTypes, Looping
<1>7. NamesDistinct' /\ PresentIsComplete' /\ MetadataSound'
  BY <1>2 DEF RunnerInv, NamesDistinct, PresentIsComplete, Whole, Content, MetadataSound
<1>8. /\ runner'.pc = "wait" /\ runner'.child = e /\ runner'.at = runner.at
      /\ runner'.queries = runner.queries /\ runner'.option = runner.option
      /\ runner'.errored = runner.errored /\ runner'.exit = "none"
  BY <1>1, <1>2 DEF RunnerInv, RunnerTypes
<1>9. engine'[e] = started
  <2> HIDE DEF started
  <2> QED
    BY <1>3 DEF RunnerInv, ResultTypes
<1>10. OnlyTheChild'
  BY <1>1, <1>2, <1>8 DEF RunnerInv, OnlyTheChild, ResultTypes
<1>11. ChildWrites'
  <2> HIDE DEF started
  <2> QED
    BY <1>2, <1>4, <1>8, <1>9 DEF ChildWrites, Writes, Key
<1>12. HalfPublished'
  BY <1>8 DEF HalfPublished
<1>13. MeasuredSoFar'
  BY <1>2, <1>8 DEF RunnerInv, MeasuredSoFar, Looping, Measured, Key, Content
<1> QED
  BY <1>5, <1>6, <1>7, <1>10, <1>11, <1>12, <1>13 DEF RunnerInv


\* Published files: nothing that holds of them or of the run is disturbed by a step
\* that leaves their names and contents alone.
OutputsKept ==
  \A key \in Keys :
    /\ name'[QOut(key)] = name[QOut(key)] /\ name'[MOut(key)] = name[MOut(key)]
    /\ name[QOut(key)] # 0 => file'[name[QOut(key)]] = file[name[QOut(key)]]
    /\ name[MOut(key)] # 0 => file'[name[MOut(key)]] = file[name[MOut(key)]]

LEMMA OutputsStaySound ==
  ASSUME RunnerInv, OutputsKept, build' = build
  PROVE  PresentIsComplete' /\ MetadataSound'
<1>1. ASSUME NEW key \in Keys, name'[QOut(key)] # 0 PROVE Whole(QOut(key), key[2])'
  BY <1>1 DEF RunnerInv, PresentIsComplete, OutputsKept, Whole, Content
<1>2. PresentIsComplete'
  BY <1>1 DEF PresentIsComplete
<1>3. ASSUME NEW key \in Keys
      PROVE  /\ name'[QOut(key)] # 0 => Content(QOut(key))'.build <= build'
             /\ name'[MOut(key)] # 0 =>
                  /\ Content(MOut(key))'.whole /\ name'[QOut(key)] # 0
                  /\ Content(MOut(key))'.build <= Content(QOut(key))'.build
  BY DEF RunnerInv, MetadataSound, OutputsKept, Content
<1> QED
  BY <1>2, <1>3 DEF MetadataSound

LEMMA OutputsStayMeasured ==
  ASSUME RunnerInv, OutputsKept, UNCHANGED <<build, runner>>
  PROVE  MeasuredSoFar'
<1>1. ASSUME NEW i \in DOMAIN Plan, Measured(i) PROVE Measured(i)'
  <2>1. Key(i) \in Keys /\ Key(i)' = Key(i)
    BY KeysOfThePlan DEF RunnerInv, Key
  <2> QED
    BY <1>1, <2>1 DEF Measured, OutputsKept, Content
<1> QED
  BY <1>1 DEF RunnerInv, MeasuredSoFar, Looping

\* The process that takes a step is the child the runner waits for.
LEMMA ActiveIsTheChild ==
  ASSUME RunnerInv, NEW e \in Processes, engine[e].step # "none"
  PROVE  /\ runner.pc = "wait" /\ runner.child = e /\ runner.at \in DOMAIN Plan
         /\ Key(runner.at) \in Keys /\ engine[e].key = Key(runner.at)
         /\ Key(runner.at)[2] = runner.queries
         /\ Writes(engine[e], Key(runner.at)) /\ engine[e] \in Process
         /\ csv.queries = runner.queries
<1>1. runner.pc = "wait" /\ runner.child = e
  BY DEF RunnerInv, OnlyTheChild
<1>2. runner.at \in DOMAIN Plan /\ csv.queries = runner.queries
  BY <1>1 DEF RunnerInv, RunnerTypes, Looping
<1>3. Writes(engine[e], Key(runner.at))
  BY <1>1 DEF RunnerInv, ChildWrites
<1>4. engine[e] \in Process
  BY DEF RunnerInv, ResultTypes, Dead
<1> QED
  BY <1>1, <1>2, <1>3, <1>4, KeysOfThePlan DEF RunnerInv, Writes

\* A step of the child keeps the invariant if it keeps the types, the names apart
\* and what is published, and writes on as it should.
LEMMA ChildStepPreserves ==
  ASSUME RunnerInv, NEW e \in Processes, engine[e].step # "none",
         UNCHANGED <<build, config, csv, runner>>, ResultTypes', NamesDistinct',
         NEW content, engine' = [engine EXCEPT ![e] = content],
         Writes(content, Key(runner.at))', OutputsKept
  PROVE  RunnerInv'
<1>1. RunnerTypes'
  BY DEF RunnerInv, RunnerTypes, Looping
<1>2. OnlyTheChild'
  BY DEF RunnerInv, OnlyTheChild, ResultTypes
<1>3. ChildWrites'
  <2>1. engine'[e] = content /\ runner'.child = e
    BY ActiveIsTheChild DEF RunnerInv, ResultTypes
  <2> QED
    BY <2>1 DEF ChildWrites
<1>4. HalfPublished'
  BY ActiveIsTheChild DEF HalfPublished
<1> QED
  BY <1>1, <1>2, <1>3, <1>4, OutputsStaySound, OutputsStayMeasured DEF RunnerInv


LEMMA OpeningKeepsNames ==
  ASSUME ResultTypes, NamesDistinct, NEW p \in Paths,
         name' = [name EXCEPT ![p] = OpenedFile(p)]
  PROVE  /\ NamesDistinct' /\ name' \in [Paths -> FileIds \union {0}]
         /\ name'[p] = OpenedFile(p) /\ OpenedFile(p) \in FileIds /\ OpenedFile(p) # 0
         /\ \A q \in Paths \ {p} : name'[q] = name[q] /\ name[q] # OpenedFile(p)
<1>1. /\ OpenedFile(p) \in FileIds /\ OpenedFile(p) # 0
      /\ \A q \in Paths \ {p} : name[q] # OpenedFile(p)
  BY OpenedFileIsItsOwn
<1>2. name \in [Paths -> FileIds \union {0}]
  BY DEF ResultTypes
<1> HIDE DEF OpenedFile
<1>3. /\ name' \in [Paths -> FileIds \union {0}] /\ name'[p] = OpenedFile(p)
      /\ \A q \in Paths \ {p} : name'[q] = name[q]
  BY <1>1, <1>2
<1>4. NamesDistinct'
  <2> SUFFICES ASSUME NEW q \in Paths, NEW r \in Paths, name'[q] = name'[r], name'[q] # 0
               PROVE  q = r
    BY DEF NamesDistinct
  <2> QED
    BY <1>1, <1>3 DEF NamesDistinct
<1> QED
  BY <1>1, <1>3, <1>4

\* A write to a file that only temporaries name leaves the published ones alone.
LEMMA WritingKeepsOutputs ==
  ASSUME ResultTypes, NEW F,
         \A key \in Keys : /\ name'[QOut(key)] = name[QOut(key)] /\ name[QOut(key)] \notin F
                           /\ name'[MOut(key)] = name[MOut(key)] /\ name[MOut(key)] \notin F,
         \A f \in FileIds \ F : file'[f] = file[f]
  PROVE  OutputsKept
<1> SUFFICES ASSUME NEW key \in Keys
    PROVE  /\ name[QOut(key)] # 0 => file'[name[QOut(key)]] = file[name[QOut(key)]]
           /\ name[MOut(key)] # 0 => file'[name[MOut(key)]] = file[name[MOut(key)]]
  BY DEF OutputsKept
<1>1. QOut(key) \in Paths /\ MOut(key) \in Paths
  BY PathsOfACell
<1>2. name[QOut(key)] \in FileIds \union {0} /\ name[MOut(key)] \in FileIds \union {0}
  BY <1>1 DEF ResultTypes
<1> QED
  BY <1>2

LEMMA EngineOpensPreserves ==
  ASSUME RunnerInv, NEW e \in Processes, EngineOpens(e, csv.queries),
         UNCHANGED <<build, config, csv, runner>>
  PROVE  RunnerInv'
<1>1. PICK key : key = Key(runner.at)
  OBVIOUS
<1>2. PICK p : p = QTmp(key)
  OBVIOUS
<1>3. PICK f : f = OpenedFile(p)
  OBVIOUS
<1>4. PICK blank : blank = [Blank EXCEPT !.build = build]
  OBVIOUS
<1>5. PICK content :
        content = [engine[e] EXCEPT !.step = "rows", !.q = f, !.toRun = csv.queries]
  OBVIOUS
<1>6. /\ engine[e].step = "start" /\ engine[e].key = key /\ key \in Keys
      /\ Writes(engine[e], key) /\ engine[e] \in Process /\ csv.queries = runner.queries
      /\ key[2] = runner.queries
  BY <1>1, ActiveIsTheChild DEF EngineOpens
<1>7. /\ engine[e].build = build /\ engine[e].rows = 0 /\ build \in Nat
      /\ csv.queries \in Nat
  BY <1>6 DEF Writes, RunnerInv, RunnerTypes
<1>8. p \in Paths /\ ResultTypes /\ NamesDistinct
  BY <1>2, <1>6, PathsOfACell DEF RunnerInv
<1>9. /\ name' = [name EXCEPT ![p] = OpenedFile(p)] /\ file' = [file EXCEPT ![f] = blank]
      /\ engine' = [engine EXCEPT ![e] = content]
  BY <1>2, <1>3, <1>4, <1>5, <1>6, <1>7 DEF EngineOpens
<1>10. /\ NamesDistinct' /\ name' \in [Paths -> FileIds \union {0}]
       /\ name'[p] = f /\ f \in FileIds /\ f # 0
       /\ \A q \in Paths \ {p} : name'[q] = name[q] /\ name[q] # f
  BY <1>3, <1>8, <1>9, OpeningKeepsNames
<1>11. blank \in FileContent /\ blank.rows = 0 /\ ~blank.torn /\ blank.build = build
  BY <1>4, <1>7 DEF Blank, FileContent
<1>12. /\ content \in Process /\ content.step = "rows" /\ content.key = key
       /\ content.build = build /\ content.q = f /\ content.toRun = csv.queries
       /\ content.rows = 0
  BY <1>5, <1>6, <1>7, <1>10 DEF Process, Steps
<1>13. ResultTypes'
  BY <1>8, <1>9, <1>10, <1>11, <1>12 DEF ResultTypes
<1>14. file'[f] = blank /\ \A g \in FileIds \ {f} : file'[g] = file[g]
  BY <1>8, <1>9, <1>10 DEF ResultTypes
<1>15. OutputsKept
  <2>1. ASSUME NEW k \in Keys
        PROVE  /\ name'[QOut(k)] = name[QOut(k)] /\ name[QOut(k)] \notin {f}
               /\ name'[MOut(k)] = name[MOut(k)] /\ name[MOut(k)] \notin {f}
    <3>1. {QOut(k), MOut(k)} \subseteq Paths \ {p}
      BY <1>2, <1>6, PathsOfACell, PathsOfTwoCells
    <3> QED
      BY <1>10, <3>1
  <2> QED
    BY <1>8, <1>14, <2>1, WritingKeepsOutputs
<1>16. Writes(content, key)'
  <2>1. 0 <= content.toRun
    BY <1>7, <1>12
  <2> QED
    BY <1>2, <1>6, <1>10, <1>11, <1>12, <1>14, <2>1 DEF Writes, Opened
<1>17. Key(runner.at)' = key
  BY <1>1 DEF Key
<1>18. Writes(content, Key(runner.at))'
  BY <1>16, <1>17 DEF Writes, Opened
<1> QED
  BY <1>6, <1>9, <1>10, <1>13, <1>15, <1>18, ChildStepPreserves


\* The temporaries' files are no published file's.
LEMMA TemporariesApart ==
  ASSUME ResultTypes, NamesDistinct, NEW key \in Keys, NEW p \in {QTmp(key), MTmp(key)},
         name[p] # 0
  PROVE  /\ name[p] \in FileIds
         /\ \A k \in Keys : name[QOut(k)] # name[p] /\ name[MOut(k)] # name[p]
<1>1. p \in Paths
  BY PathsOfACell
<1>2. name[p] \in FileIds
  BY <1>1 DEF ResultTypes
<1>3. ASSUME NEW k \in Keys PROVE name[QOut(k)] # name[p] /\ name[MOut(k)] # name[p]
  <2>1. QOut(k) \in Paths /\ MOut(k) \in Paths /\ p # QOut(k) /\ p # MOut(k)
    BY PathsOfACell, PathsOfTwoCells
  <2> QED
    BY <1>1, <2>1 DEF NamesDistinct
<1> QED
  BY <1>2, <1>3

LEMMA EngineRowPreserves ==
  ASSUME RunnerInv, NEW e \in Processes, EngineRow(e), UNCHANGED <<build, config, csv, runner>>
  PROVE  RunnerInv'
<1>1. PICK key : key = Key(runner.at)
  OBVIOUS
<1>2. PICK f : f = engine[e].q
  OBVIOUS
<1>3. PICK row : row = Written(file[f], e)
  OBVIOUS
<1>4. PICK content : content = [engine[e] EXCEPT !.rows = @ + 1]
  OBVIOUS
<1>5. PICK n : n = engine[e].rows
  OBVIOUS
<1>6. /\ engine[e].step = "rows" /\ engine[e].key = key /\ key \in Keys
      /\ Writes(engine[e], key) /\ engine[e] \in Process /\ n < engine[e].toRun
  BY <1>1, <1>5, ActiveIsTheChild DEF EngineRow
<1>7. /\ engine[e].build = build /\ engine[e].toRun = key[2] /\ build \in Nat
      /\ name[QTmp(key)] = f /\ f # 0 /\ file[f].rows = n /\ ~file[f].torn
      /\ n \in Nat /\ engine[e].toRun \in Nat
  BY <1>2, <1>5, <1>6 DEF Writes, Opened, RunnerInv, RunnerTypes, Process
<1>8. ResultTypes /\ NamesDistinct
  BY DEF RunnerInv
<1>9. f \in FileIds /\ \A k \in Keys : name[QOut(k)] # f /\ name[MOut(k)] # f
  BY <1>6, <1>7, <1>8, TemporariesApart
<1>10. /\ file' = [file EXCEPT ![f] = row] /\ UNCHANGED name
       /\ engine' = [engine EXCEPT ![e] = content]
  BY <1>2, <1>3, <1>4 DEF EngineRow
<1>11. file[f] \in FileContent
  BY <1>8, <1>9 DEF ResultTypes
<1>12. row \in FileContent /\ row.rows = n + 1 /\ ~row.torn /\ row.build = build
  <2>1. row = [file[f] EXCEPT !.rows = n + 1, !.whole = FALSE, !.build = build,
                              !.torn = @ \/ file[f].rows # n]
    BY <1>3, <1>5, <1>7 DEF Written
  <2>2. PICK old \in FileContent : old = file[f]
    BY <1>11
  <2>3. old.rows = n /\ old.torn = FALSE
    BY <1>7, <2>2 DEF FileContent
  <2>4. row = [old EXCEPT !.rows = n + 1, !.whole = FALSE, !.build = build, !.torn = FALSE]
    BY <2>1, <2>2, <2>3
  <2>5. n + 1 \in Nat /\ build \in Nat
    BY <1>7
  <2> QED
    BY <2>2, <2>4, <2>5 DEF FileContent
<1>13. /\ content \in Process /\ content.step = "rows" /\ content.key = key
       /\ content.build = build /\ content.q = f /\ content.toRun = key[2]
       /\ content.rows = n + 1 /\ content.rows <= content.toRun
  <2>1. content = [engine[e] EXCEPT !.rows = n + 1]
    BY <1>4, <1>5
  <2>2. PICK m \in Nat : m = engine[e].toRun
    BY <1>7
  <2>3. n + 1 \in Nat /\ n + 1 <= m
    BY <1>6, <1>7, <2>2
  <2> QED
    BY <1>2, <1>6, <1>7, <2>1, <2>2, <2>3 DEF Process, Steps
<1>14. ResultTypes' /\ NamesDistinct'
  BY <1>8, <1>10, <1>12, <1>13 DEF ResultTypes, NamesDistinct
<1>15. file'[f] = row /\ \A g \in FileIds \ {f} : file'[g] = file[g]
  BY <1>8, <1>9, <1>10 DEF ResultTypes
<1>16. OutputsKept
  <2>1. \A k \in Keys : /\ name'[QOut(k)] = name[QOut(k)] /\ name[QOut(k)] \notin {f}
                        /\ name'[MOut(k)] = name[MOut(k)] /\ name[MOut(k)] \notin {f}
    BY <1>9, <1>10
  <2> QED
    BY <1>8, <1>15, <2>1, WritingKeepsOutputs
<1>17. Writes(content, key)'
  BY <1>7, <1>10, <1>12, <1>13, <1>15 DEF Writes, Opened
<1>18. Writes(content, Key(runner.at))'
  BY <1>1, <1>17 DEF Writes, Opened, Key
<1> QED
  BY <1>6, <1>10, <1>14, <1>16, <1>18, ChildStepPreserves

LEMMA EngineMetaPreserves ==
  ASSUME RunnerInv, NEW e \in Processes, EngineMeta(e), UNCHANGED <<build, config, csv, runner>>
  PROVE  RunnerInv'
<1>1. PICK key : key = Key(runner.at)
  OBVIOUS
<1>2. PICK f : f = engine[e].m
  OBVIOUS
<1>3. PICK meta : meta = [file[f] EXCEPT !.whole = TRUE]
  OBVIOUS
<1>4. PICK content : content = [engine[e] EXCEPT !.step = "done"]
  OBVIOUS
<1>5. /\ engine[e].step = "meta" /\ engine[e].key = key /\ key \in Keys
      /\ Writes(engine[e], key) /\ engine[e] \in Process
  BY <1>1, ActiveIsTheChild DEF EngineMeta
<1>6. /\ engine[e].build = build /\ build \in Nat
      /\ name[MTmp(key)] = f /\ f # 0 /\ file[f].build = build
      /\ engine[e].q # f
  <2>1. name[QTmp(key)] = engine[e].q /\ name[MTmp(key)] = engine[e].m /\ engine[e].m # 0
    BY <1>5 DEF Writes, Opened
  <2>2. engine[e].q # engine[e].m
    BY <1>5, <2>1, PathsOfACell DEF RunnerInv, NamesDistinct
  <2> QED
    BY <1>2, <1>5, <2>1, <2>2 DEF Writes, RunnerInv, RunnerTypes
<1>7. ResultTypes /\ NamesDistinct
  BY DEF RunnerInv
<1>8. f \in FileIds /\ \A k \in Keys : name[QOut(k)] # f /\ name[MOut(k)] # f
  BY <1>5, <1>6, <1>7, TemporariesApart
<1>9. /\ file' = [file EXCEPT ![f] = meta] /\ UNCHANGED name
      /\ engine' = [engine EXCEPT ![e] = content]
  BY <1>2, <1>3, <1>4 DEF EngineMeta
<1>10. meta \in FileContent /\ meta.whole /\ meta.build = build
  BY <1>3, <1>6, <1>7, <1>8 DEF FileContent, ResultTypes
<1>11. /\ content \in Process /\ content.step = "done" /\ content.key = key
       /\ content.build = build /\ content.q = engine[e].q /\ content.m = f
       /\ content.toRun = engine[e].toRun /\ content.rows = engine[e].rows
  BY <1>2, <1>4, <1>5, <1>6 DEF Process, Steps
<1>12. ResultTypes' /\ NamesDistinct'
  BY <1>7, <1>9, <1>10, <1>11 DEF ResultTypes, NamesDistinct
<1>13. file'[f] = meta /\ \A g \in FileIds \ {f} : file'[g] = file[g]
  BY <1>7, <1>8, <1>9 DEF ResultTypes
<1>14. OutputsKept
  <2>1. \A k \in Keys : /\ name'[QOut(k)] = name[QOut(k)] /\ name[QOut(k)] \notin {f}
                        /\ name'[MOut(k)] = name[MOut(k)] /\ name[MOut(k)] \notin {f}
    BY <1>8, <1>9
  <2> QED
    BY <1>7, <1>13, <2>1, WritingKeepsOutputs
<1>15. content.q \in FileIds \ {f}
  BY <1>5, <1>6, <1>11 DEF Writes, Opened, Process
<1>16. Writes(content, key)'
  BY <1>5, <1>6, <1>9, <1>10, <1>11, <1>13, <1>15 DEF Writes, Opened
<1>17. Writes(content, Key(runner.at))'
  BY <1>1, <1>16 DEF Writes, Opened, Key
<1> QED
  BY <1>5, <1>9, <1>12, <1>14, <1>17, ChildStepPreserves

LEMMA EngineFailsPreserves ==
  ASSUME RunnerInv, NEW e \in Processes, EngineFails(e),
         UNCHANGED <<build, config, csv, runner>>
  PROVE  RunnerInv'
<1>1. PICK key : key = Key(runner.at)
  OBVIOUS
<1>2. PICK content : content = [engine[e] EXCEPT !.step = "failed"]
  OBVIOUS
<1>3. /\ engine[e].step # "none" /\ engine[e].key = key
      /\ Writes(engine[e], key) /\ engine[e] \in Process
  BY <1>1, ActiveIsTheChild DEF EngineFails, Running
<1>4. engine' = [engine EXCEPT ![e] = content] /\ UNCHANGED <<name, file>>
  BY <1>2 DEF EngineFails
<1>5. /\ content \in Process /\ content.step = "failed" /\ content.key = key
      /\ content.build = engine[e].build
  BY <1>2, <1>3 DEF Process, Steps
<1>6. ResultTypes' /\ NamesDistinct'
  BY <1>4, <1>5 DEF RunnerInv, ResultTypes, NamesDistinct
<1>7. OutputsKept
  BY <1>4 DEF OutputsKept
<1>8. Writes(content, Key(runner.at))'
  BY <1>1, <1>3, <1>5 DEF Writes, Key
<1> QED
  BY <1>3, <1>4, <1>6, <1>7, <1>8, ChildStepPreserves


LEMMA EngineClosesPreserves ==
  ASSUME RunnerInv, NEW e \in Processes, EngineCloses(e),
         UNCHANGED <<build, config, csv, runner>>
  PROVE  RunnerInv'
<1>1. PICK key : key = Key(runner.at)
  OBVIOUS
<1>2. PICK p : p = MTmp(key)
  OBVIOUS
<1>3. PICK f : f = OpenedFile(p)
  OBVIOUS
<1>4. PICK q : q = engine[e].q
  OBVIOUS
<1>5. PICK blank : blank = [Blank EXCEPT !.build = build]
  OBVIOUS
<1>6. PICK whole : whole = [file[q] EXCEPT !.whole = TRUE]
  OBVIOUS
<1>7. PICK content : content = [engine[e] EXCEPT !.step = "meta", !.m = f]
  OBVIOUS
<1>8. /\ engine[e].step = "rows" /\ engine[e].key = key /\ key \in Keys
      /\ Writes(engine[e], key) /\ engine[e] \in Process
      /\ engine[e].rows = engine[e].toRun
  BY <1>1, ActiveIsTheChild DEF EngineCloses
<1>9. /\ engine[e].build = build /\ build \in Nat /\ engine[e].toRun = key[2]
      /\ name[QTmp(key)] = q /\ q # 0 /\ file[q].rows = engine[e].rows
      /\ ~file[q].torn /\ file[q].build = build
  BY <1>4, <1>8 DEF Writes, Opened, RunnerInv, RunnerTypes
<1>10. p \in Paths /\ QTmp(key) \in Paths \ {p} /\ ResultTypes /\ NamesDistinct
  BY <1>2, <1>8, PathsOfACell DEF RunnerInv
<1>11. /\ name' = [name EXCEPT ![p] = OpenedFile(p)]
       /\ file' = [file EXCEPT ![q] = whole, ![f] = blank]
       /\ engine' = [engine EXCEPT ![e] = content]
  BY <1>2, <1>3, <1>4, <1>5, <1>6, <1>7, <1>8, <1>9 DEF EngineCloses
<1>12. /\ NamesDistinct' /\ name' \in [Paths -> FileIds \union {0}]
       /\ name'[p] = f /\ f \in FileIds /\ f # 0
       /\ \A r \in Paths \ {p} : name'[r] = name[r] /\ name[r] # f
  BY <1>3, <1>10, <1>11, OpeningKeepsNames
<1>13. q \in FileIds /\ q # f /\ \A k \in Keys : name[QOut(k)] # q /\ name[MOut(k)] # q
  BY <1>8, <1>9, <1>10, <1>12, TemporariesApart
<1>14. blank \in FileContent /\ blank.build = build
  BY <1>5, <1>9 DEF Blank, FileContent
<1>15. /\ whole \in FileContent /\ whole.whole /\ ~whole.torn /\ whole.build = build
       /\ whole.rows = engine[e].rows
  <2>1. PICK old \in FileContent : old = file[q]
    BY <1>10, <1>13 DEF ResultTypes
  <2>2. whole = [old EXCEPT !.whole = TRUE]
    BY <1>6, <2>1
  <2> QED
    BY <1>9, <2>1, <2>2 DEF FileContent
<1>16. /\ content \in Process /\ content.step = "meta" /\ content.key = key
       /\ content.build = build /\ content.q = q /\ content.m = f
       /\ content.toRun = key[2] /\ content.rows = engine[e].rows
  BY <1>4, <1>7, <1>8, <1>9, <1>12 DEF Process, Steps
<1>17. ResultTypes'
  BY <1>10, <1>11, <1>12, <1>14, <1>15, <1>16 DEF ResultTypes
<1>18. /\ file'[f] = blank /\ file'[q] = whole
       /\ \A g \in FileIds \ {q, f} : file'[g] = file[g]
  BY <1>10, <1>11, <1>12, <1>13 DEF ResultTypes
<1>19. OutputsKept
  <2>1. ASSUME NEW k \in Keys
        PROVE  /\ name'[QOut(k)] = name[QOut(k)] /\ name[QOut(k)] \notin {q, f}
               /\ name'[MOut(k)] = name[MOut(k)] /\ name[MOut(k)] \notin {q, f}
    <3>1. {QOut(k), MOut(k)} \subseteq Paths \ {p}
      BY <1>2, <1>8, PathsOfACell, PathsOfTwoCells
    <3> QED
      BY <1>12, <1>13, <3>1
  <2> QED
    BY <1>10, <1>18, <2>1, WritingKeepsOutputs
<1>20. Writes(content, key)'
  <2>1. name'[QTmp(key)] = q
    BY <1>9, <1>10, <1>12
  <2>2. content.rows = content.toRun /\ content.rows <= content.toRun
    <3>1. engine[e].rows \in Nat
      BY <1>8 DEF Process
    <3> QED
      BY <3>1, <1>8, <1>9, <1>16
  <2> QED
    BY <2>1, <2>2, <1>2, <1>9, <1>12, <1>14, <1>15, <1>16, <1>18 DEF Writes, Opened
<1>21. Writes(content, Key(runner.at))'
  BY <1>1, <1>20 DEF Writes, Opened, Key
<1> QED
  BY <1>8, <1>11, <1>12, <1>17, <1>19, <1>21, ChildStepPreserves

LEMMA EnginePreserves ==
  ASSUME RunnerInv, EngineStep \/ KillEngine
  PROVE  RunnerInv'
<1>1. UNCHANGED <<build, config, csv, runner>>
  BY DEF EngineStep, KillEngine, runnerVars
<1>2. PICK e \in Processes :
        \/ EngineOpens(e, csv.queries) \/ EngineRow(e) \/ EngineCloses(e)
        \/ EngineMeta(e) \/ EngineFails(e)
  BY DEF EngineStep, KillEngine
<1> QED
  BY <1>1, <1>2, EngineOpensPreserves, EngineRowPreserves, EngineClosesPreserves,
     EngineMetaPreserves, EngineFailsPreserves

-----------------------------------------------------------------------------
(* Publication.                                                            *)

\* A file that is moved is still named once, by another path.
LEMMA RenameMoves ==
  ASSUME ResultTypes, NamesDistinct, NEW from \in Paths, NEW to \in Paths, from # to,
         Rename(from, to)
  PROVE  /\ name' \in [Paths -> FileIds \union {0}] /\ NamesDistinct'
         /\ name'[to] = name[from] /\ name'[from] = 0
         /\ \A p \in Paths \ {from, to} : name'[p] = name[p]
<1>1. name \in [Paths -> FileIds \union {0}] /\ 0 \in FileIds \union {0}
  BY DEF ResultTypes
<1>2. /\ name' \in [Paths -> FileIds \union {0}]
      /\ name'[to] = name[from] /\ name'[from] = 0
      /\ \A p \in Paths \ {from, to} : name'[p] = name[p]
  BY <1>1 DEF Rename
<1>3. NamesDistinct'
  <2> SUFFICES ASSUME NEW p \in Paths, NEW q \in Paths, name'[p] = name'[q], name'[p] # 0
               PROVE  p = q
    BY DEF NamesDistinct
  <2>1. p # from /\ q # from
    BY <1>2
  <2>2. CASE p = to \/ q = to
    BY <1>2, <2>1, <2>2 DEF NamesDistinct
  <2>3. CASE p # to /\ q # to
    BY <1>2, <2>1, <2>3 DEF NamesDistinct
  <2> QED
    BY <2>2, <2>3
<1> QED
  BY <1>2, <1>3

\* When the child is reaped no engine is alive.
LEMMA ReapedAll ==
  ASSUME RunnerInv, runner.pc = "wait", Reap
  PROVE  /\ engine' \in [Processes -> {Dead} \union Process]
         /\ \A e \in Processes : engine'[e].step = "none"
<1>1. runner.child \in Processes /\ engine \in [Processes -> {Dead} \union Process]
  BY DEF RunnerInv, OnlyTheChild, ResultTypes
<1>2. Dead.step = "none"
  BY DEF Dead
<1>3. /\ engine' = [engine EXCEPT ![runner.child] = Dead]
      /\ \A e \in Processes \ {runner.child} : engine[e].step = "none"
  BY DEF Reap, RunnerInv, OnlyTheChild
<1> HIDE DEF Dead
<1> QED
  BY <1>1, <1>2, <1>3

\* What the runner waits for when its child has ended well.
LEMMA ChildIsDone ==
  ASSUME RunnerInv, runner.pc = "wait", Succeeded(runner.child),
         NEW key, key = Key(runner.at)
  PROVE  /\ key \in Keys /\ key[2] = runner.queries /\ runner.at \in DOMAIN Plan
         /\ Whole(QTmp(key), key[2]) /\ Content(QTmp(key)).build = build
         /\ name[MTmp(key)] # 0 /\ Content(MTmp(key)).whole
         /\ Content(MTmp(key)).build = build
<1>1. PICK e \in Processes : e = runner.child
  BY DEF RunnerInv, OnlyTheChild
<1>2. engine[e].step = "done"
  BY <1>1 DEF Succeeded
<1>3. Writes(engine[e], key) /\ key \in Keys /\ key[2] = runner.queries /\ runner.at \in DOMAIN Plan
  BY <1>2, ActiveIsTheChild
<1> QED
  BY <1>2, <1>3 DEF Writes, Opened, Whole, Content

LEMMA PublishFirstPreserves ==
  ASSUME RunnerInv, PublishFirst
  PROVE  RunnerInv'
<1>1. PICK key : key = Key(runner.at)
  OBVIOUS
<1>2. /\ runner.pc = "wait" /\ Succeeded(runner.child) /\ Reap
      /\ UNCHANGED <<file, build, config, csv>>
  BY DEF PublishFirst
<1>3. /\ key \in Keys /\ key[2] = runner.queries /\ runner.at \in DOMAIN Plan
      /\ Whole(QTmp(key), key[2]) /\ Content(QTmp(key)).build = build
      /\ name[MTmp(key)] # 0 /\ Content(MTmp(key)).whole
      /\ Content(MTmp(key)).build = build
  BY <1>1, <1>2, ChildIsDone
<1>4. /\ Rename(QTmp(key), QOut(key))
      /\ runner' = [runner EXCEPT !.pc = "publish", !.child = 0]
  BY <1>1, <1>3 DEF PublishFirst, Whole
<1>5. /\ QTmp(key) \in Paths /\ QOut(key) \in Paths /\ QTmp(key) # QOut(key)
      /\ ResultTypes /\ NamesDistinct
  BY <1>3, PathsOfACell DEF RunnerInv
<1>6. /\ name' \in [Paths -> FileIds \union {0}] /\ NamesDistinct'
      /\ name'[QOut(key)] = name[QTmp(key)]
      /\ \A p \in Paths \ {QTmp(key), QOut(key)} : name'[p] = name[p]
  BY <1>4, <1>5, RenameMoves
<1>7. /\ \A k \in Keys : name'[MOut(k)] = name[MOut(k)]
      /\ \A k \in Keys \ {key} : name'[QOut(k)] = name[QOut(k)]
      /\ name'[MTmp(key)] = name[MTmp(key)]
  <2>1. MTmp(key) \in Paths \ {QTmp(key), QOut(key)}
    BY <1>3, PathsOfACell
  <2>2. ASSUME NEW k \in Keys
        PROVE  /\ MOut(k) \in Paths \ {QTmp(key), QOut(key)}
               /\ k # key => QOut(k) \in Paths \ {QTmp(key), QOut(key)}
    BY <1>3, PathsOfACell, PathsOfTwoCells
  <2> QED
    BY <1>6, <2>1, <2>2
<1>8. /\ engine' \in [Processes -> {Dead} \union Process]
      /\ \A e \in Processes : engine'[e].step = "none"
  BY <1>2, ReapedAll
<1>9. ResultTypes'
  BY <1>2, <1>5, <1>6, <1>8 DEF ResultTypes
<1>10. /\ runner'.pc = "publish" /\ runner'.at = runner.at /\ runner'.exit = "none"
       /\ runner'.queries = runner.queries /\ runner'.option = runner.option
       /\ runner'.errored = runner.errored
  BY <1>2, <1>4 DEF RunnerInv, RunnerTypes
<1>11. RunnerTypes'
  BY <1>2, <1>3, <1>4, <1>10 DEF RunnerInv, RunnerTypes, Looping
<1>12. OnlyTheChild' /\ ChildWrites'
  BY <1>8, <1>10 DEF OnlyTheChild, ChildWrites
<1>13. PresentIsComplete'
  <2>1. ASSUME NEW k \in Keys, name'[QOut(k)] # 0 PROVE Whole(QOut(k), k[2])'
    <3>1. CASE k = key
      BY <1>2, <1>3, <1>6, <3>1 DEF Whole, Content
    <3>2. CASE k # key
      BY <1>2, <1>7, <2>1, <3>2 DEF RunnerInv, PresentIsComplete, Whole, Content
    <3> QED
      BY <3>1, <3>2
  <2> QED
    BY <2>1 DEF PresentIsComplete
<1>14. MetadataSound'
  <2>1. build \in Nat
    BY DEF RunnerInv, RunnerTypes
  <2>2. ASSUME NEW k \in Keys
        PROVE  /\ name'[QOut(k)] # 0 => file[name'[QOut(k)]].build <= build
               /\ name'[MOut(k)] # 0 =>
                    /\ file[name'[MOut(k)]].whole /\ name'[QOut(k)] # 0
                    /\ file[name'[MOut(k)]].build <= file[name'[QOut(k)]].build
    <3>1. CASE k = key
      <4>1. file[name'[QOut(k)]].build = build /\ name'[QOut(k)] # 0
        BY <1>3, <1>6, <3>1 DEF Whole, Content
      <4>2. ASSUME name[MOut(k)] # 0
            PROVE  file[name[MOut(k)]].whole /\ file[name[MOut(k)]].build <= build
        <5>1. name[MOut(k)] \in FileIds /\ name[QOut(k)] # 0 /\ name[QOut(k)] \in FileIds
          BY <4>2, PathsOfACell DEF RunnerInv, ResultTypes, MetadataSound
        <5>2. file[name[MOut(k)]].build \in Nat /\ file[name[QOut(k)]].build \in Nat
          BY <1>5, <5>1 DEF ResultTypes, FileContent
        <5>3. PICK b \in Nat : b = file[name[MOut(k)]].build
          BY <5>2
        <5>4. PICK c \in Nat : c = file[name[QOut(k)]].build
          BY <5>2
        <5>5. b <= c /\ c <= build /\ file[name[MOut(k)]].whole
          BY <4>2, <5>1, <5>3, <5>4 DEF RunnerInv, MetadataSound, Content
        <5> QED
          BY <2>1, <5>3, <5>5
      <4> QED
        BY <1>7, <2>1, <4>1, <4>2
    <3>2. CASE k # key
      BY <1>7, <3>2 DEF RunnerInv, MetadataSound, Content
    <3> QED
      BY <3>1, <3>2
  <2> QED
    BY <1>2, <2>2 DEF MetadataSound, Content
<1>15. HalfPublished'
  <2>1. Key(runner.at)' = key
    BY <1>1, <1>10 DEF Key
  <2>2. /\ name'[QOut(key)] # 0 /\ file'[name'[QOut(key)]].build = build'
        /\ name'[MTmp(key)] # 0 /\ file'[name'[MTmp(key)]].whole
        /\ file'[name'[MTmp(key)]].build = build'
    BY <1>2, <1>3, <1>6, <1>7 DEF Whole, Content
  <2> QED
    BY <2>1, <2>2 DEF HalfPublished, Content
<1>16. MeasuredSoFar'
  <2>1. ASSUME NEW i \in DOMAIN Plan, Measured(i) PROVE Measured(i)'
    <3>1. Key(i) \in Keys /\ Key(i)' = Key(i)
      BY <1>10, KeysOfThePlan DEF RunnerInv, Key
    <3> QED
      BY <1>2, <1>7, <1>10, <2>1, <3>1 DEF Measured, Content
  <2> QED
    BY <1>2, <1>10, <2>1 DEF RunnerInv, MeasuredSoFar, Looping
<1> QED
  BY <1>6, <1>9, <1>11, <1>12, <1>13, <1>14, <1>15, <1>16 DEF RunnerInv


LEMMA AdvanceKeepsTypes ==
  ASSUME RunnerInv, UNCHANGED <<build, config, csv>>, runner.pc \in {"wait", "publish"},
         NEW errored \in BOOLEAN, Advance(errored)
  PROVE  RunnerTypes'
<1>1. PICK e \in BOOLEAN : e = (runner.errored \/ errored)
  OBVIOUS
<1>2. runner' = [runner EXCEPT !.pc = "cell", !.at = @ + 1, !.child = 0, !.errored = e]
  BY <1>1, Zenon DEF Advance
<1>3. /\ runner'.pc = "cell" /\ runner'.queries = runner.queries
      /\ runner'.exit = runner.exit
  BY <1>2 DEF RunnerInv, RunnerTypes
<1>4. runner' \in [pc : {"stopped", "workload", "cell", "wait", "publish"},
                  option : {"resume", "stale", "force"}, at : Nat \ {0},
                  queries : 0 .. MaxCount, child : Processes \union {0},
                  errored : BOOLEAN, exit : {"none", "failed", "killed", "errors", "ok"}]
  <2>1. PICK n \in Nat \ {0} : n = runner.at + 1
    BY DEF RunnerInv, RunnerTypes
  <2>2. runner' = [runner EXCEPT !.pc = "cell", !.at = n, !.child = 0, !.errored = e]
    BY <1>2, <2>1
  <2> QED
    BY <2>2 DEF RunnerInv, RunnerTypes
<1> QED
  BY <1>3, <1>4 DEF RunnerInv, RunnerTypes, Looping

LEMMA PublishSecondPreserves ==
  ASSUME RunnerInv, PublishSecond
  PROVE  RunnerInv'
<1>1. PICK key : key = Key(runner.at)
  OBVIOUS
<1>2. runner.pc = "publish" /\ UNCHANGED <<file, engine, build, config, csv>>
  BY DEF PublishSecond
<1>3. /\ name[QOut(key)] # 0 /\ Content(QOut(key)).build = build
      /\ name[MTmp(key)] # 0 /\ Content(MTmp(key)).whole
      /\ Content(MTmp(key)).build = build
  BY <1>1, <1>2 DEF RunnerInv, HalfPublished
<1>4. runner.at \in DOMAIN Plan /\ key \in Keys /\ runner.at \in Nat /\ build \in Nat
  BY <1>1, <1>2, KeysOfThePlan DEF RunnerInv, RunnerTypes
<1>5. Rename(MTmp(key), MOut(key)) /\ Advance(FALSE)
  BY <1>1, <1>3 DEF PublishSecond
<1>6. /\ MTmp(key) \in Paths /\ MOut(key) \in Paths /\ MTmp(key) # MOut(key)
      /\ ResultTypes /\ NamesDistinct
  BY <1>4, PathsOfACell DEF RunnerInv
<1>7. /\ name' \in [Paths -> FileIds \union {0}] /\ NamesDistinct'
      /\ name'[MOut(key)] = name[MTmp(key)]
      /\ \A p \in Paths \ {MTmp(key), MOut(key)} : name'[p] = name[p]
  BY <1>5, <1>6, RenameMoves
<1>8. /\ \A k \in Keys : name'[QOut(k)] = name[QOut(k)]
      /\ \A k \in Keys \ {key} : name'[MOut(k)] = name[MOut(k)]
  <2>1. ASSUME NEW k \in Keys
        PROVE  /\ QOut(k) \in Paths \ {MTmp(key), MOut(key)}
               /\ k # key => MOut(k) \in Paths \ {MTmp(key), MOut(key)}
    BY <1>4, PathsOfACell, PathsOfTwoCells
  <2> QED
    BY <1>7, <2>1
<1>9. ResultTypes'
  BY <1>2, <1>6, <1>7 DEF ResultTypes
<1>10. /\ runner'.pc = "cell" /\ runner'.at = runner.at + 1 /\ runner'.exit = "none"
       /\ runner'.queries = runner.queries /\ runner'.option = runner.option
       /\ runner'.errored = runner.errored
  BY <1>2, <1>5, Zenon DEF RunnerInv, RunnerTypes, Advance
<1>11. RunnerTypes'
  BY <1>2, <1>5, AdvanceKeepsTypes
<1>12. OnlyTheChild' /\ ChildWrites' /\ HalfPublished'
  BY <1>2, <1>10 DEF RunnerInv, OnlyTheChild, ChildWrites, HalfPublished
<1>13. PresentIsComplete'
  <2>1. ASSUME NEW k \in Keys, name'[QOut(k)] # 0 PROVE Whole(QOut(k), k[2])'
    BY <1>2, <1>8, <2>1 DEF RunnerInv, PresentIsComplete, Whole, Content
  <2> QED
    BY <2>1 DEF PresentIsComplete
<1>14. MetadataSound'
  <2>1. ASSUME NEW k \in Keys
        PROVE  /\ name'[QOut(k)] # 0 => file[name'[QOut(k)]].build <= build
               /\ name'[MOut(k)] # 0 =>
                    /\ file[name'[MOut(k)]].whole /\ name'[QOut(k)] # 0
                    /\ file[name'[MOut(k)]].build <= file[name'[QOut(k)]].build
    <3>1. CASE k = key
      BY <1>3, <1>4, <1>7, <1>8, <3>1 DEF Content
    <3>2. CASE k # key
      BY <1>8, <3>2 DEF RunnerInv, MetadataSound, Content
    <3> QED
      BY <3>1, <3>2
  <2> QED
    BY <1>2, <2>1 DEF MetadataSound, Content
<1>15. MeasuredSoFar'
  <2>1. ASSUME NEW i \in DOMAIN Plan PROVE Key(i) \in Keys /\ Key(i)' = Key(i)
    BY <1>10, KeysOfThePlan DEF RunnerInv, Key
  <2>2. ASSUME NEW i \in DOMAIN Plan, Key(i) = key PROVE Measured(i)'
    BY <1>2, <1>3, <1>7, <1>10, <2>1, <2>2 DEF Measured, Content
  <2>3. ASSUME NEW i \in DOMAIN Plan, Key(i) # key, Measured(i) PROVE Measured(i)'
    BY <1>2, <1>8, <1>10, <2>1, <2>3 DEF Measured, Content
  <2>4. ASSUME ~runner.errored, NEW i \in DOMAIN Plan, i < runner.at + 1
        PROVE  Measured(i)'
    <3>1. i < runner.at \/ i = runner.at
      BY <1>4, <2>4
    <3>2. i < runner.at => Measured(i)
      BY <1>2, <2>4 DEF RunnerInv, MeasuredSoFar, Looping
    <3> QED
      BY <1>1, <2>2, <2>3, <3>1, <3>2
  <2> QED
    BY <1>10, <2>4 DEF MeasuredSoFar
<1> QED
  BY <1>7, <1>9, <1>11, <1>12, <1>13, <1>14, <1>15 DEF RunnerInv

LEMMA CellFailsPreserves ==
  ASSUME RunnerInv, CellFails
  PROVE  RunnerInv'
<1>1. PICK key : key = Key(runner.at)
  OBVIOUS
<1>2. /\ runner.pc = "wait" /\ Reap /\ Advance(TRUE) /\ UNCHANGED <<file, build, config, csv>>
      /\ name' = [name EXCEPT ![QTmp(key)] = 0, ![MTmp(key)] = 0]
  BY <1>1 DEF CellFails
<1>3. runner.at \in DOMAIN Plan /\ key \in Keys /\ runner.at \in Nat
  BY <1>1, <1>2, KeysOfThePlan DEF RunnerInv, RunnerTypes
<1>4. QTmp(key) \in Paths /\ MTmp(key) \in Paths /\ ResultTypes /\ NamesDistinct
  BY <1>3, PathsOfACell DEF RunnerInv
<1>5. /\ name' \in [Paths -> FileIds \union {0}]
      /\ \A p \in Paths : name'[p] = name[p] \/ name'[p] = 0
      /\ \A p \in Paths \ {QTmp(key), MTmp(key)} : name'[p] = name[p]
  BY <1>2, <1>4 DEF ResultTypes
<1>6. \A k \in Keys : name'[QOut(k)] = name[QOut(k)] /\ name'[MOut(k)] = name[MOut(k)]
  <2>1. ASSUME NEW k \in Keys PROVE {QOut(k), MOut(k)} \subseteq Paths \ {QTmp(key), MTmp(key)}
    BY <1>3, PathsOfACell, PathsOfTwoCells
  <2> QED
    BY <1>5, <2>1
<1>7. /\ engine' \in [Processes -> {Dead} \union Process]
      /\ \A e \in Processes : engine'[e].step = "none"
  BY <1>2, ReapedAll
<1>8. ResultTypes'
  BY <1>2, <1>4, <1>5, <1>7 DEF ResultTypes
<1>9. NamesDistinct'
  BY <1>4, <1>5 DEF NamesDistinct
<1>10. OutputsKept
  BY <1>2, <1>6 DEF OutputsKept
<1>11. runner'.pc = "cell" /\ runner'.exit = "none" /\ runner'.errored = TRUE
  <2>1. runner'.errored = (runner.errored \/ TRUE) /\ runner'.pc = "cell"
        /\ runner'.exit = runner.exit
    BY <1>2, Zenon DEF RunnerInv, RunnerTypes, Advance
  <2> QED
    BY <1>2, <2>1 DEF RunnerInv, RunnerTypes
<1>12. RunnerTypes'
  BY <1>2, AdvanceKeepsTypes
<1>13. OnlyTheChild' /\ ChildWrites' /\ HalfPublished' /\ MeasuredSoFar'
  BY <1>7, <1>11 DEF OnlyTheChild, ChildWrites, HalfPublished, MeasuredSoFar
<1>14. PresentIsComplete' /\ MetadataSound'
  BY <1>2, <1>10, OutputsStaySound
<1> QED
  BY <1>8, <1>9, <1>12, <1>13, <1>14 DEF RunnerInv

LEMMA KillRunnerPreserves ==
  ASSUME RunnerInv, KillRunner, ~OrphansSurvive
  PROVE  RunnerInv'
<1>1. /\ Exit("killed") /\ UNCHANGED <<name, file, build, config>>
      /\ engine' = [e \in Processes |-> IF e = runner.child THEN Dead ELSE engine[e]]
  BY DEF KillRunner
<1>2. /\ engine' \in [Processes -> {Dead} \union Process]
      /\ \A e \in Processes : engine'[e].step = "none"
  BY <1>1 DEF RunnerInv, ResultTypes, OnlyTheChild, Dead
<1>3. csv' \in [fp : Nat, queries : 0 .. MaxCount]
  <2>1. /\ csv \in [fp : Nat, queries : 0 .. MaxCount] /\ config \in Nat
        /\ 0 .. config \subseteq 0 .. MaxCount
    BY DEF RunnerInv, RunnerTypes
  <2>2. NoCsv \in [fp : Nat, queries : 0 .. MaxCount]
    BY DEF NoCsv
  <2>3. [fp : {Fingerprint}, queries : 0 .. config] \subseteq [fp : Nat, queries : 0 .. MaxCount]
    BY <2>1 DEF Fingerprint
  <2> QED
    BY <2>1, <2>2, <2>3 DEF KillRunner
<1>4. RunnerTypes' /\ runner'.pc = "stopped" /\ runner'.exit = "killed"
  BY <1>1, <1>3, ExitStops
<1>5. build <= build'
  BY <1>1 DEF RunnerInv, RunnerTypes
<1> QED
  BY <1>1, <1>2, <1>4, <1>5, StillAtRest
-----------------------------------------------------------------------------
(* The theorems.                                                           *)

LEMMA RunnerSteps ==
  ASSUME ~OrphansSurvive
  PROVE  RunnerInv /\ [Next]_vars => RunnerInv'
<1> SUFFICES ASSUME RunnerInv, [Next]_vars PROVE RunnerInv'
  OBVIOUS
<1>1. CASE CommandPrepare \/ CommandReplaceSource \/ CommandEdit
  BY <1>1, CommandPreserves
<1>2. CASE CommandRun
  BY <1>2, CommandRunPreserves
<1>3. CASE RunnerStep
  <2>1. CASE ReuseWorkload \/ WriteWorkload \/ WorkloadFails
    BY <2>1, WorkloadPreserves
  <2>2. CASE SkipCell
    BY <2>2, SkipCellPreserves
  <2>3. CASE StartCell
    BY <2>3, StartCellPreserves
  <2>4. CASE PublishFirst
    BY <2>4, PublishFirstPreserves
  <2>5. CASE PublishSecond
    BY <2>5, PublishSecondPreserves
  <2>6. CASE CellFails
    BY <2>6, CellFailsPreserves
  <2>7. CASE EndRun
    BY <2>7, EndRunPreserves
  <2> QED
    BY <1>3, <2>1, <2>2, <2>3, <2>4, <2>5, <2>6, <2>7 DEF RunnerStep
<1>4. CASE EngineStep \/ KillEngine
  BY <1>4, EnginePreserves
<1>5. CASE KillRunner
  BY <1>5, KillRunnerPreserves
<1>6. CASE PrepareStep \/ KillPreparation \/ UNCHANGED vars
  <2>1. UNCHANGED <<resultVars, build, config, csv, runner>>
    BY <1>6 DEF PrepareStep, KillPreparation, vars, runnerVars
  <2> QED
    BY <2>1, RunnerStutters
<1> QED
  BY <1>1, <1>2, <1>3, <1>4, <1>5, <1>6 DEF Next

\* The invariant holds whatever is commanded and killed, as long as an engine does
\* not outlive the runner that started it.
THEOREM RunnerInvariant ==
  ASSUME ~OrphansSurvive
  PROVE  Spec => []RunnerInv
<1>1. Init => RunnerInv
  BY RunnerStarts
<1>2. RunnerInv /\ [Next]_vars => RunnerInv'
  BY RunnerSteps
<1> QED
  BY <1>1, <1>2, PTL DEF Spec

\* A result file that is there is complete: with a row for each query, written by one
\* process from end to end, and closed (run_cell's temporaries and os.replace).
THEOREM PresentStaysComplete ==
  ASSUME ~OrphansSurvive
  PROVE  Spec => []PresentIsComplete
<1>1. RunnerInv => PresentIsComplete
  BY DEF RunnerInv
<1> QED
  BY <1>1, RunnerInvariant, PTL

LEMMA MeasuredMeansMeasured ==
  ASSUME RunnerInv
  PROVE  SuccessMeansMeasured
<1> SUFFICES ASSUME runner.exit = "ok", NEW i \in DOMAIN Plan
    PROVE  /\ Whole(QOut(Key(i)), runner.queries)
           /\ name[MOut(Key(i))] # 0 /\ Content(MOut(Key(i))).whole
           /\ runner.option # "resume" =>
                Content(QOut(Key(i))).build = build /\ Content(MOut(Key(i))).build = build
  BY DEF SuccessMeansMeasured
<1>1. PICK key \in Keys : key = Key(i) /\ key[2] = runner.queries
  BY KeysOfThePlan DEF RunnerInv
<1>2. /\ name[MOut(key)] # 0
      /\ runner.option # "resume" => Content(MOut(key)).build = build
  BY <1>1 DEF RunnerInv, MeasuredSoFar, Measured
<1>3. /\ Content(MOut(key)).whole /\ name[QOut(key)] # 0
      /\ Content(MOut(key)).build <= Content(QOut(key)).build
      /\ Content(QOut(key)).build <= build
  BY <1>2 DEF RunnerInv, MetadataSound
<1>4. Whole(QOut(key), key[2])
  BY <1>3 DEF RunnerInv, PresentIsComplete
<1>5. build \in Nat /\ Content(QOut(key)).build \in Nat
  BY <1>3, PathsOfACell DEF RunnerInv, RunnerTypes, ResultTypes, FileContent, Content
<1>6. runner.option # "resume" => Content(QOut(key)).build = build
  <2>1. PICK b \in Nat : b = Content(QOut(key)).build
    BY <1>5
  <2> QED
    BY <1>2, <1>3, <1>5, <2>1
<1> QED
  BY <1>1, <1>2, <1>3, <1>4, <1>6

\* A run that reports success has both files of every cell of its plan, complete, and
\* of the build installed where --stale or --force asked for that (cell_is_fresh looks
\* at the metadata alone: it is never newer than the results beside it).
THEOREM SuccessStaysMeasured ==
  ASSUME ~OrphansSurvive
  PROVE  Spec => []SuccessMeansMeasured
<1>1. RunnerInv => SuccessMeansMeasured
  BY MeasuredMeansMeasured
<1> QED
  BY <1>1, RunnerInvariant, PTL
===============================================================================
