-------------------------- MODULE ColumnGatherProofs --------------------------
(***************************************************************************)
(* The gather keeps its slots apart, reads what it reports and hands back  *)
(* what was asked for, for every ring depth, every page and slot size,     *)
(* every batch and every behaviour of the kernel.                          *)
(*                                                                         *)
(* The argument has two halves.  A slot is named once among the free       *)
(* slots, the queue, the reads in flight and the completions: each step    *)
(* moves one slot from one of them to the next, so the counts of the four  *)
(* add up to one before and after.  That the reads stay inside their       *)
(* buffers and columns rests on the plan: ranges are pages of the column,  *)
(* and only those that fit a slot reach the ring.                          *)
(*                                                                         *)
(* On top of that, what is read: the ranges of a plan are apart and cover  *)
(* the batch, so two reads are of different columns or of different rows,  *)
(* and a step that reads for one of them leaves the others as they were.   *)
(* A task has read nothing before it starts, exactly what its slot holds   *)
(* while it is under way, and its whole range once its slot is free again. *)
(* When every task is done, that is every value asked for, in its place,   *)
(* and the ranges once for every column.                                   *)
(***************************************************************************)
EXTENDS ColumnGather, SumLemmas, SequenceTheorems

-----------------------------------------------------------------------------
(* How often a sequence names something.                                   *)

Naming(q, s)  == {i \in DOMAIN q : q[i] = s}
CountIn(q, s) == Cardinality(Naming(q, s))

LEMMA IntervalSize ==
  ASSUME NEW n \in Nat
  PROVE  IsFiniteSet(1 .. n) /\ Cardinality(1 .. n) = n
<1>1. 1 \in Int /\ n \in Int /\ n \in Nat
  OBVIOUS
<1>2. IsFiniteSet(1 .. n) /\ Cardinality(1 .. n) = IF 1 > n THEN 0 ELSE n - 1 + 1
  BY ONLY <1>1, FS_Interval
<1> QED
  BY <1>1, <1>2

LEMMA NamingFinite ==
  ASSUME NEW S, NEW q \in Seq(S), NEW s
  PROVE  /\ IsFiniteSet(Naming(q, s)) /\ CountIn(q, s) \in Nat
         /\ CountIn(q, s) = 0 <=> \A i \in DOMAIN q : q[i] # s
<1>1. DOMAIN q = 1 .. Len(q) /\ Len(q) \in Nat
  OBVIOUS
<1>2. IsFiniteSet(1 .. Len(q)) /\ Naming(q, s) \in SUBSET (1 .. Len(q))
  BY <1>1, IntervalSize DEF Naming
<1>3. IsFiniteSet(Naming(q, s))
  BY <1>2, FS_Subset
<1>4. Naming(q, s) = {} <=> \A i \in DOMAIN q : q[i] # s
  BY DEF Naming
<1> QED
  BY <1>3, <1>4, FS_CardinalityType, FS_EmptySet DEF CountIn

LEMMA CountEmpty ==
  ASSUME NEW s PROVE CountIn(<<>>, s) = 0
<1>1. Naming(<<>>, s) = {}
  BY DEF Naming
<1> QED
  BY <1>1, FS_EmptySet DEF CountIn

\* What is appended comes last, the rest stays in its place.
LEMMA AppendEntries ==
  ASSUME NEW S, NEW q \in Seq(S), NEW e
  PROVE  /\ DOMAIN q = 1 .. Len(q) /\ DOMAIN Append(q, e) = 1 .. Len(q) + 1 /\ Len(q) \in Nat
         /\ Append(q, e)[Len(q) + 1] = e /\ \A i \in DOMAIN q : Append(q, e)[i] = q[i]
  OBVIOUS

LEMMA CountAppend ==
  ASSUME NEW S, NEW q \in Seq(S), NEW x \in S, NEW s
  PROVE  CountIn(Append(q, x), s) = CountIn(q, s) + (IF x = s THEN 1 ELSE 0)
<1>1. /\ DOMAIN q = 1 .. Len(q) /\ Len(q) \in Nat /\ Len(q) + 1 \notin DOMAIN q
      /\ DOMAIN Append(q, x) = 1 .. Len(q) + 1
      /\ \A i \in 1 .. Len(q) : Append(q, x)[i] = q[i]
      /\ Append(q, x)[Len(q) + 1] = x
  OBVIOUS
<1>2. Len(q) + 1 \notin Naming(q, s)
  BY <1>1 DEF Naming
<1>3. CASE x = s
  <2>1. Naming(Append(q, x), s) = Naming(q, s) \cup {Len(q) + 1}
    BY <1>1, <1>3 DEF Naming
  <2>2. IsFiniteSet(Naming(q, s)) /\ CountIn(q, s) = Cardinality(Naming(q, s))
    BY NamingFinite DEF CountIn
  <2>3. Cardinality(Naming(q, s) \cup {Len(q) + 1}) = Cardinality(Naming(q, s)) + 1
    BY ONLY <1>2, <2>2, FS_AddElement
  <2>4. CountIn(Append(q, x), s) = CountIn(q, s) + 1
    BY <2>1, <2>2, <2>3, Zenon DEF CountIn
  <2> QED
    BY <1>3, <2>4
<1>4. CASE x # s
  <2>1. Naming(Append(q, x), s) = Naming(q, s)
    BY <1>1, <1>4 DEF Naming
  <2> QED
    BY <1>4, <2>1, NamingFinite DEF CountIn
<1> QED
  BY <1>3, <1>4

LEMMA CountLast ==
  ASSUME NEW S, NEW q \in Seq(S), q # <<>>, NEW s
  PROVE  /\ SubSeq(q, 1, Len(q) - 1) \in Seq(S)
         /\ Len(SubSeq(q, 1, Len(q) - 1)) = Len(q) - 1
         /\ CountIn(SubSeq(q, 1, Len(q) - 1), s)
              = CountIn(q, s) - (IF q[Len(q)] = s THEN 1 ELSE 0)
<1> DEFINE p == SubSeq(q, 1, Len(q) - 1)
<1>1. Len(q) \in Nat \ {0} /\ DOMAIN q = 1 .. Len(q) /\ q[Len(q)] \in S
  OBVIOUS
<1>2. p \in Seq(S) /\ Len(p) = Len(q) - 1 /\ \A i \in 1 .. Len(q) - 1 : p[i] = q[i]
  BY <1>1
<1> HIDE DEF p
<1> PICK x \in S : x = q[Len(q)]
  BY <1>1
<1>3. Append(p, x) = q
  <2>1. Append(p, x) \in Seq(S) /\ Len(Append(p, x)) = Len(p) + 1
    BY <1>2
  <2>2. Len(p) + 1 = Len(q)
    BY <1>1, <1>2
  <2>3. \A i \in 1 .. Len(q) : Append(p, x)[i] = q[i]
    BY <1>1, <1>2
  <2> QED
    BY <2>1, <2>2, <2>3, SeqEqual
<1>4. CountIn(q, s) = CountIn(p, s) + (IF q[Len(q)] = s THEN 1 ELSE 0)
  <2>1. CountIn(Append(p, x), s) = CountIn(p, s) + (IF x = s THEN 1 ELSE 0)
    BY <1>2, CountAppend
  <2> QED
    BY <1>3, <2>1, Zenon
<1>5. CountIn(p, s) \in Nat
  BY <1>2, NamingFinite
<1>6. CountIn(p, s) = CountIn(q, s) - (IF q[Len(q)] = s THEN 1 ELSE 0)
  BY <1>4, <1>5
<1> QED
  BY <1>2, <1>6 DEF p

LEMMA CountHead ==
  ASSUME NEW S, NEW q \in Seq(S), q # <<>>, NEW s
  PROVE  /\ Tail(q) \in Seq(S) /\ Len(Tail(q)) = Len(q) - 1 /\ Head(q) \in S
         /\ \A i \in DOMAIN Tail(q) : i + 1 \in DOMAIN q /\ Tail(q)[i] = q[i + 1]
         /\ Head(q) = q[1] /\ 1 \in DOMAIN q
         /\ CountIn(Tail(q), s) = CountIn(q, s) - (IF Head(q) = s THEN 1 ELSE 0)
<1>1. /\ Len(q) \in Nat \ {0} /\ DOMAIN q = 1 .. Len(q) /\ Head(q) = q[1] /\ q[1] \in S
      /\ Tail(q) \in Seq(S) /\ Len(Tail(q)) = Len(q) - 1
      /\ DOMAIN Tail(q) = 1 .. Len(q) - 1
      /\ \A i \in 1 .. Len(q) - 1 : Tail(q)[i] = q[i + 1]
  OBVIOUS
<1> DEFINE A == Naming(Tail(q), s)
           B == Naming(q, s) \ {1}
           f == [i \in A |-> i + 1]
<1>2. f \in [A -> B]
  BY <1>1 DEF Naming
<1>3. \A i, j \in A : f[i] = f[j] => i = j
  BY <1>1 DEF Naming
<1>4. \A j \in B : \E i \in A : f[i] = j
  <2> TAKE j \in B
  <2>1. j - 1 \in A /\ f[j - 1] = j
    BY <1>1 DEF Naming
  <2> QED
    BY <2>1
<1>5. ExistsBijection(A, B)
  <2> HIDE DEF A, B, f
  <2> QED
    BY <1>2, <1>3, <1>4 DEF ExistsBijection, Bijection, Injection, Surjection, IsInjective
<1>6. IsFiniteSet(A) /\ IsFiniteSet(Naming(q, s)) /\ CountIn(q, s) \in Nat
  BY <1>1, NamingFinite
<1>7. Cardinality(A) = Cardinality(B)
  <2> HIDE DEF A, B, f
  <2> QED
    BY <1>5, <1>6, FS_Bijection
<1>8. Cardinality(B) = CountIn(q, s) - (IF q[1] = s THEN 1 ELSE 0)
  <2>1. 1 \in Naming(q, s) <=> q[1] = s
    BY <1>1 DEF Naming
  <2>2. Cardinality(B) = IF 1 \in Naming(q, s) THEN Cardinality(Naming(q, s)) - 1
                         ELSE Cardinality(Naming(q, s))
    BY ONLY <1>6, FS_RemoveElement
  <2> HIDE DEF B
  <2> QED
    BY <1>6, <2>1, <2>2 DEF CountIn
<1> QED
  BY <1>1, <1>7, <1>8 DEF CountIn

-----------------------------------------------------------------------------
(* Slots named at most once.                                               *)

LEMMA SlotsFinite ==
  /\ IsFiniteSet(Slots) /\ Cardinality(Slots) = RingDepth /\ RingDepth \in Nat \ {0}
  /\ \A s \in Slots : IsFiniteSet(Slots \ {s}) /\ Cardinality(Slots \ {s}) = RingDepth - 1
<1>1. 0 \in Int /\ RingDepth - 1 \in Int /\ RingDepth \in Nat \ {0}
  BY StoreAssumption
<1>2. /\ IsFiniteSet(0 .. RingDepth - 1)
      /\ Cardinality(0 .. RingDepth - 1) = IF 0 > RingDepth - 1 THEN 0 ELSE RingDepth - 1 - 0 + 1
  BY ONLY <1>1, FS_Interval
<1>3. IsFiniteSet(Slots) /\ Cardinality(Slots) = RingDepth
  BY <1>1, <1>2 DEF Slots
<1>4. \A s \in Slots : IsFiniteSet(Slots \ {s}) /\ Cardinality(Slots \ {s}) = RingDepth - 1
  BY <1>3, FS_RemoveElement
<1> QED
  BY <1>1, <1>3, <1>4

\* Two places of the same slot make its count two.
LEMMA CountedTwice ==
  ASSUME NEW S, NEW q \in Seq(S), NEW i \in DOMAIN q, NEW j \in DOMAIN q, i # j, q[i] = q[j]
  PROVE  CountIn(q, q[i]) > 1
<1>1. IsFiniteSet(Naming(q, q[i])) /\ {i, j} \in SUBSET Naming(q, q[i])
  BY NamingFinite DEF Naming
<1>2. IsFiniteSet({i}) /\ Cardinality({i}) = 1
  BY FS_Singleton
<1>3. IsFiniteSet({i} \cup {j}) /\ Cardinality({i} \cup {j}) = 2
  <2>1. j \notin {i}
    OBVIOUS
  <2>2. IsFiniteSet({i} \cup {j}) /\ Cardinality({i} \cup {j}) = Cardinality({i}) + 1
    BY ONLY <1>2, <2>1, FS_AddElement
  <2>3. IsFiniteSet({i} \cup {j}) /\ Cardinality({i} \cup {j}) = 1 + 1
    BY <1>2, <2>2, Zenon
  <2>4. 1 + 1 = 2
    OBVIOUS
  <2> QED
    BY <2>3, <2>4, Zenon
<1>4. {i} \cup {j} \in SUBSET Naming(q, q[i])
  BY <1>1
<1>5. Cardinality({i} \cup {j}) <= Cardinality(Naming(q, q[i]))
  BY <1>1, <1>4, FS_Subset
<1>6. CountIn(q, q[i]) \in Nat /\ CountIn(q, q[i]) = Cardinality(Naming(q, q[i]))
  BY NamingFinite DEF CountIn
<1>7. 2 <= CountIn(q, q[i])
  BY <1>3, <1>5, <1>6, Zenon
<1> QED
  BY <1>6, <1>7

\* A sequence that names no slot twice is no longer than the ring, and shorter if
\* it misses one.
LEMMA NamedOnce ==
  ASSUME NEW q \in Seq(Slots), \A s \in Slots : CountIn(q, s) <= 1
  PROVE  /\ Len(q) <= RingDepth
         /\ \A s \in Slots : CountIn(q, s) = 0 => Len(q) < RingDepth
         /\ \A s \in Slots : Len(q) = RingDepth => CountIn(q, s) = 1
<1>1. Len(q) \in Nat /\ DOMAIN q = 1 .. Len(q) /\ q \in [1 .. Len(q) -> Slots]
  OBVIOUS
<1>2. \A i, j \in 1 .. Len(q) : i # j => q[i] # q[j]
  <2> SUFFICES ASSUME NEW i \in 1 .. Len(q), NEW j \in 1 .. Len(q), i # j, q[i] = q[j]
               PROVE  FALSE
    OBVIOUS
  <2>1. CountIn(q, q[i]) > 1 /\ CountIn(q, q[i]) <= 1 /\ CountIn(q, q[i]) \in Nat
    BY <1>1, CountedTwice, NamingFinite
  <2> QED
    BY <2>1
<1>3. Len(q) <= RingDepth
  <2>1. CASE RingDepth < Len(q)
    <3>1. Cardinality(Slots) < Cardinality(1 .. Len(q)) /\ IsFiniteSet(1 .. Len(q)) /\ IsFiniteSet(Slots)
      BY <1>1, <2>1, SlotsFinite, IntervalSize
    <3>2. \E i, j \in 1 .. Len(q) : i # j /\ q[i] = q[j]
      BY ONLY <1>1, <3>1, FS_PigeonHole
    <3> QED
      BY <1>2, <3>2
  <2> QED
    BY <1>1, <2>1, SlotsFinite
<1>4. ASSUME NEW s \in Slots, CountIn(q, s) = 0 PROVE Len(q) < RingDepth
  <2>1. q \in [1 .. Len(q) -> Slots \ {s}]
    BY <1>1, <1>4, NamingFinite
  <2>2. CASE RingDepth - 1 < Len(q)
    <3>1. /\ Cardinality(Slots \ {s}) < Cardinality(1 .. Len(q)) /\ IsFiniteSet(1 .. Len(q))
          /\ IsFiniteSet(Slots \ {s})
      BY <1>1, <2>2, SlotsFinite, IntervalSize
    <3>2. \E i, j \in 1 .. Len(q) : i # j /\ q[i] = q[j]
      BY ONLY <2>1, <3>1, FS_PigeonHole
    <3> QED
      BY <1>2, <3>2
  <2> QED
    BY <1>1, <2>2, SlotsFinite
<1>5. ASSUME NEW s \in Slots, Len(q) = RingDepth PROVE CountIn(q, s) = 1
  <2>1. CountIn(q, s) \in Nat /\ CountIn(q, s) <= 1 /\ CountIn(q, s) # 0
    BY <1>1, <1>4, <1>5, SlotsFinite, NamingFinite
  <2> QED
    BY <2>1
<1> QED
  BY <1>3, <1>4, <1>5
-----------------------------------------------------------------------------
(* Sorting: every rank is taken once.                                      *)

BeforeIt(ids, i) == {h \in DOMAIN ids : Before(ids, h, i)}
RankOf(ids, i)   == Cardinality(BeforeIt(ids, i))

LEMMA RankInRange ==
  ASSUME NEW ids \in Seq(Nat), NEW i \in DOMAIN ids
  PROVE  /\ IsFiniteSet(BeforeIt(ids, i)) /\ RankOf(ids, i) \in 0 .. Len(ids) - 1
<1>1. DOMAIN ids = 1 .. Len(ids) /\ Len(ids) \in Nat /\ \A h \in DOMAIN ids : ids[h] \in Nat
  OBVIOUS
<1>2. IsFiniteSet(DOMAIN ids) /\ Cardinality(DOMAIN ids) = Len(ids)
  BY <1>1, IntervalSize
<1>3. IsFiniteSet(DOMAIN ids \ {i}) /\ Cardinality(DOMAIN ids \ {i}) = Len(ids) - 1
  <2>1. Cardinality(DOMAIN ids \ {i}) = Cardinality(DOMAIN ids) - 1 /\ IsFiniteSet(DOMAIN ids \ {i})
    BY <1>2, FS_RemoveElement
  <2> QED
    BY <1>2, <2>1
<1>4. BeforeIt(ids, i) \in SUBSET (DOMAIN ids \ {i})
  BY <1>1 DEF BeforeIt, Before
<1>5. IsFiniteSet(BeforeIt(ids, i)) /\ Cardinality(BeforeIt(ids, i)) <= Len(ids) - 1
  BY <1>3, <1>4, FS_Subset
<1>6. Cardinality(BeforeIt(ids, i)) \in Nat
  BY <1>5, FS_CardinalityType
<1> QED
  BY <1>1, <1>5, <1>6 DEF RankOf

LEMMA RanksDiffer ==
  ASSUME NEW ids \in Seq(Nat), NEW i \in DOMAIN ids, NEW j \in DOMAIN ids, i # j
  PROVE  RankOf(ids, i) # RankOf(ids, j)
<1>1. DOMAIN ids = 1 .. Len(ids) /\ Len(ids) \in Nat /\ \A h \in DOMAIN ids : ids[h] \in Nat
  OBVIOUS
<1>2. ASSUME NEW x \in DOMAIN ids, NEW y \in DOMAIN ids, Before(ids, x, y)
      PROVE  RankOf(ids, x) # RankOf(ids, y)
  <2>0. x \in DOMAIN ids /\ ids[x] \in Nat /\ ids[y] \in Nat
    BY <1>1
  <2>1. x \in BeforeIt(ids, y) /\ x \notin BeforeIt(ids, x)
    <3>1. ~Before(ids, x, x)
      BY <2>0, <1>1 DEF Before
    <3> QED
      BY <2>0, <3>1, <1>2, Zenon DEF BeforeIt
  <2>2. BeforeIt(ids, x) \in SUBSET BeforeIt(ids, y)
    <3>1. ASSUME NEW h \in DOMAIN ids, Before(ids, h, x) PROVE Before(ids, h, y)
      <4>1. ids[h] \in Nat /\ h \in Nat /\ x \in Nat /\ y \in Nat
        BY <1>1
      <4> QED
        BY ONLY <4>1, <2>0, <1>2, <3>1 DEF Before
    <3> QED
      BY <3>1, Zenon DEF BeforeIt
  <2>3. IsFiniteSet(BeforeIt(ids, y))
    BY RankInRange
  <2>4. Cardinality(BeforeIt(ids, y)) # Cardinality(BeforeIt(ids, x))
    BY <2>1, <2>2, <2>3, FS_Subset
  <2> QED
    BY <2>4 DEF RankOf
<1>3. Before(ids, i, j) \/ Before(ids, j, i)
  BY <1>1 DEF Before
<1> QED
  BY <1>2, <1>3

LEMMA RankedIsAPlace ==
  ASSUME NEW ids \in Seq(Nat), NEW j \in DOMAIN ids
  PROVE  Ranked(ids, j) \in DOMAIN ids /\ RankOf(ids, Ranked(ids, j)) = j - 1
<1> DEFINE D == DOMAIN ids
           T == (0 .. Len(ids) - 1) \ {j - 1}
           f == [i \in D |-> RankOf(ids, i)]
<1>1. D = 1 .. Len(ids) /\ Len(ids) \in Nat /\ j - 1 \in 0 .. Len(ids) - 1 /\ j \in D
  OBVIOUS
<1>2. \E i \in D : RankOf(ids, i) = j - 1
  <2> SUFFICES ASSUME \A i \in D : RankOf(ids, i) # j - 1 PROVE FALSE
    OBVIOUS
  <2>1. f \in [D -> T]
    BY RankInRange
  <2>2. IsFiniteSet(D) /\ Cardinality(D) = Len(ids)
    BY <1>1, IntervalSize
  <2>3. /\ IsFiniteSet(0 .. Len(ids) - 1)
        /\ Cardinality(0 .. Len(ids) - 1) = Len(ids)
    <3>1. 0 \in Int /\ Len(ids) - 1 \in Int /\ Len(ids) \in Nat
      BY <1>1
    <3>2. /\ IsFiniteSet(0 .. Len(ids) - 1)
          /\ Cardinality(0 .. Len(ids) - 1)
               = IF 0 > Len(ids) - 1 THEN 0 ELSE Len(ids) - 1 - 0 + 1
      BY ONLY <3>1, FS_Interval
    <3> QED
      BY <1>1, <3>2
  <2>4. IsFiniteSet(T) /\ Cardinality(T) = Len(ids) - 1
    <3>1. Cardinality(T) = Cardinality(0 .. Len(ids) - 1) - 1 /\ IsFiniteSet(T)
      BY <1>1, <2>3, FS_RemoveElement
    <3> QED
      BY <2>3, <3>1
  <2>5. Cardinality(T) < Cardinality(D)
    BY <1>1, <2>2, <2>4
  <2>6. \E x, y \in D : x # y /\ f[x] = f[y]
    <3> HIDE DEF f, D, T
    <3> QED
      BY ONLY <2>1, <2>2, <2>4, <2>5, FS_PigeonHole
  <2> QED
    BY <2>6, RanksDiffer
<1>3. Ranked(ids, j) = CHOOSE i \in DOMAIN ids : RankOf(ids, i) = j - 1
  BY DEF Ranked, RankOf, BeforeIt
<1> HIDE DEF f, T
<1> QED
  BY <1>2, <1>3

LEMMA RowsAreNat ==
  /\ Rows \subseteq Nat /\ \A r \in Rows : r < RowCount
  /\ {RowCount, MeasureCount, RowsPerPage, MaxRangeRows, SlotRows, RingDepth, ScanBlockRows}
       \subseteq Nat \ {0}
  BY StoreAssumption DEF Rows

LEMMA InOrderIsASeq ==
  ASSUME NEW ids \in Seq(Rows)
  PROVE  InOrder(ids) \in Seq(Rows) /\ Len(InOrder(ids)) = Len(ids)
<1>0. ids \in Seq(Nat)
  BY RowsAreNat, SeqMonotonic
<1>1. ids \in Seq(Nat) /\ DOMAIN ids = 1 .. Len(ids) /\ Len(ids) \in Nat
  BY <1>0
<1>2. \A j \in DOMAIN ids : ids[Ranked(ids, j)] \in Rows
  BY <1>1, RankedIsAPlace
<1> QED
  BY <1>1, <1>2 DEF InOrder

-----------------------------------------------------------------------------
(* The plan: pages of the column, and those that fit a slot.               *)

LEMMA DivideDown ==
  ASSUME NEW a \in Nat, NEW b \in Nat \ {0}
  PROVE  /\ a \div b \in Nat /\ (a \div b) * b \in Nat
         /\ (a \div b) * b <= a /\ a < (a \div b) * b + b
         /\ a % b \in 0 .. b - 1
  OBVIOUS

\* Less than k whole multiples of b.
LEMMA DivideBelow ==
  ASSUME NEW a \in Nat, NEW b \in Nat \ {0}, NEW k \in Nat, a < k * b
  PROVE  a \div b \in 0 .. k - 1
<1>1. /\ a \div b \in Nat /\ (a \div b) * b <= a
  BY DivideDown
<1>2. CASE k <= a \div b
  <2>1. PICK d \in Nat : a \div b = k + d
    <3>1. (a \div b) - k \in Nat /\ a \div b = k + ((a \div b) - k)
      BY <1>1, <1>2
    <3> QED
      BY <3>1
  <2>2. (a \div b) * b = k * b + d * b /\ d * b \in Nat
    BY <2>1
  <2> QED
    BY <1>1, <2>2
<1> QED
  BY <1>1, <1>2

LEMMA RowAtInTable ==
  ASSUME batch \in Seq(Wanted), NEW j \in 1 .. N
  PROVE  N \in Nat /\ PosOf(j) \in 1 .. N /\ RowAt(j) \in Rows
<1>1. N \in Nat /\ \A i \in 1 .. N : batch[i] \in Wanted
  BY DEF N
<1>2. \A i \in 1 .. N : batch[i].row \in Rows
  BY <1>1 DEF Wanted
<1> DEFINE ids == [i \in 1 .. N |-> batch[i].row]
<1>3. ids \in Seq(Nat) /\ DOMAIN ids = 1 .. N
  <2>1. \A i \in 1 .. N : batch[i].row \in Nat
    BY <1>2, RowsAreNat
  <2> QED
    BY <1>1, <2>1
<1>4. Ranked(ids, j) \in 1 .. N
  <2> HIDE DEF ids
  <2> QED
    BY <1>3, RankedIsAPlace
<1>5. PosOf(j) \in 1 .. N
  BY <1>4 DEF PosOf
<1> QED
  BY <1>1, <1>2, <1>5 DEF RowAt

LEMMA PagesInTable ==
  ASSUME NEW r \in Rows
  PROVE  /\ PageBegin(r) \in Nat /\ PageEnd(r) \in Nat
         /\ PageBegin(r) < PageEnd(r) /\ PageEnd(r) <= RowCount
         /\ PageBegin(r) <= r /\ r < PageEnd(r)
<1>1. r \in Nat /\ r < RowCount /\ RowCount \in Nat /\ RowsPerPage \in Nat \ {0}
  BY RowsAreNat
<1>2. PageBegin(r) \in Nat /\ PageBegin(r) <= r /\ r < PageBegin(r) + RowsPerPage
  BY <1>1, DivideDown DEF PageBegin
<1> QED
  BY <1>1, <1>2 DEF PageEnd, Lesser

LEMMA WithRowIsAPlan ==
  ASSUME batch \in Seq(Wanted), NEW j \in 1 .. N, NEW rs \in Seq(PageRange)
  PROVE  WithRow(rs, j) \in Seq(PageRange)
<1> DEFINE r == RowAt(j)
           l == Len(rs)
           b == PageBegin(r)
           e == PageEnd(r)
<1>1. /\ b \in Nat /\ e \in Nat /\ b < e /\ e <= RowCount /\ RowCount \in Nat
      /\ j \in Nat
  BY RowAtInTable, PagesInTable, RowsAreNat
<1>2. CASE rs # <<>> /\ Joins(r, rs[l])
  <2>1. l \in 1 .. Len(rs) /\ rs[l] \in PageRange
    BY <1>2
  <2> DEFINE new == Extended(rs[l], r)
  <2>2. new \in PageRange
    <3> PICK rg \in PageRange : rg = rs[l]
      BY <2>1
    <3>1. /\ rg \in [off : Nat, len : Nat \ {0}, first : Nat, count : Nat]
          /\ rg.off + rg.len <= RowCount
      BY DEF PageRange
    <3> DEFINE len == IF e > rg.len + rg.off THEN e - rg.off ELSE rg.len
    <3>2. len \in Nat \ {0} /\ rg.off + len <= RowCount /\ rg.count + 1 \in Nat
      <4>1. /\ rg.off \in Nat /\ rg.len \in Nat \ {0} /\ rg.count \in Nat
            /\ e \in Nat /\ e <= RowCount
        BY <1>1, <3>1
      <4> HIDE DEF b, e, r
      <4> QED
        BY ONLY <1>1, <3>1, <4>1 DEF len
    <3>3. new = [rg EXCEPT !.len = len, !.count = rg.count + 1]
      BY DEF Extended
    <3> HIDE DEF len, new
    <3>4. new = [off |-> rg.off, len |-> len, first |-> rg.first, count |-> rg.count + 1]
      BY <3>1, <3>3
    <3> QED
      BY <3>1, <3>2, <3>4 DEF PageRange
  <2>3. WithRow(rs, j) = [rs EXCEPT ![l] = new]
    BY <1>2, Zenon DEF WithRow
  <2> HIDE DEF new, l
  <2> QED
    BY <2>1, <2>2, <2>3, ExceptSeq
<1>3. CASE ~(rs # <<>> /\ Joins(r, rs[l]))
  <2> DEFINE new == [off |-> b, len |-> e - b, first |-> j, count |-> 1]
  <2>1. new \in PageRange
    BY <1>1 DEF PageRange
  <2>2. WithRow(rs, j) = Append(rs, new)
    BY <1>3 DEF WithRow
  <2> HIDE DEF new
  <2> QED
    BY <2>1, <2>2
<1> QED
  BY <1>2, <1>3

LEMMA CoalescedRecursive ==
  ASSUME batch \in Seq(Wanted)
  PROVE  \E g : /\ \A j \in 0 .. N : g[j] = IF j = 0 THEN <<>> ELSE WithRow(g[j - 1], j)
               /\ Coalesced = g[N]
<1> DEFINE add == [j \in 1 .. N |-> [rs \in Seq(PageRange) |-> WithRow(rs, j)]]
<1>1. N \in Nat /\ <<>> \in Seq(PageRange)
  BY DEF N
<1>2. add \in [1 .. N -> [Seq(PageRange) -> Seq(PageRange)]]
  BY WithRowIsAPlan
<1>3. PICK f \in [0 .. N -> Seq(PageRange)] :
        f = [j \in 0 .. N |-> IF j = 0 THEN <<>> ELSE add[j][f[j - 1]]]
  <2> PICK S : S = Seq(PageRange)
    OBVIOUS
  <2> PICK base : base = <<>>
    OBVIOUS
  <2> PICK n, step : n = N /\ step = add
    OBVIOUS
  <2>1. n \in Nat /\ base \in S /\ step \in [1 .. n -> [S -> S]]
    BY <1>1, <1>2
  <2> HIDE DEF add
  <2>2. \E f \in [0 .. n -> S] : Iterates(f, n, base, step)
    BY <2>1, IterationExists
  <2> QED
    BY <2>2 DEF Iterates
<1>4. ASSUME NEW j \in 0 .. N, j # 0 PROVE add[j][f[j - 1]] = WithRow(f[j - 1], j)
  <2>1. j \in 1 .. N /\ f[j - 1] \in Seq(PageRange)
    BY <1>1, <1>4
  <2> QED
    BY <2>1
<1> HIDE DEF add
<1>5. f = [j \in 0 .. N |-> IF j = 0 THEN <<>> ELSE WithRow(f[j - 1], j)]
  BY <1>3, <1>4
<1>6. PICK g : /\ g = [j \in 0 .. N |-> IF j = 0 THEN <<>> ELSE WithRow(g[j - 1], j)]
               /\ Coalesced = g[N]
  BY <1>5 DEF Coalesced
<1>7. \A j \in 0 .. N : g[j] = IF j = 0 THEN <<>> ELSE WithRow(g[j - 1], j)
  BY <1>6
<1> QED
  BY <1>6, <1>7

LEMMA CoalescedIsAPlan ==
  ASSUME batch \in Seq(Wanted)
  PROVE  Coalesced \in Seq(PageRange)
<1>1. N \in Nat /\ <<>> \in Seq(PageRange)
  BY DEF N
<1>6. PICK g : /\ \A j \in 0 .. N : g[j] = IF j = 0 THEN <<>> ELSE WithRow(g[j - 1], j)
               /\ Coalesced = g[N]
  BY CoalescedRecursive
<1> DEFINE Good == {j \in 0 .. N : g[j] \in Seq(PageRange)}
<1>7. \A j \in 0 .. N : g[j] = IF j = 0 THEN <<>> ELSE WithRow(g[j - 1], j)
  BY <1>6
<1>8. 0 \in Good
  <2>1. 0 \in 0 .. N
    BY <1>1
  <2>2. g[0] = <<>>
    BY <1>7, <2>1
  <2> QED
    BY <1>1, <2>1, <2>2
<1>9. ASSUME NEW j \in 1 .. N, j - 1 \in Good PROVE j \in Good
  <2>1. j \in 0 .. N /\ j # 0 /\ g[j - 1] \in Seq(PageRange)
    BY <1>1, <1>9
  <2>2. g[j] = WithRow(g[j - 1], j)
    BY <1>7, <2>1
  <2>3. g[j] \in Seq(PageRange)
    BY <2>1, <2>2, WithRowIsAPlan
  <2> QED
    BY <2>1, <2>3
<1>10. N \in Good
  <2> HIDE DEF Good
  <2>1. \A j \in 1 .. N : j - 1 \in Good => j \in Good
    BY <1>9
  <2>2. \A j \in 0 .. N : j \in Good
    BY <1>1, <1>8, <2>1, InductionUpTo
  <2>3. N \in 0 .. N
    BY <1>1
  <2> QED
    BY <2>2, <2>3
<1> QED
  BY <1>6, <1>10

LEMMA BytesRecursive ==
  ASSUME NEW rs \in Seq(PageRange)
  PROVE  \E g : /\ \A i \in 0 .. Len(rs) : g[i] = IF i = 0 THEN 0 ELSE g[i - 1] + rs[i].len
               /\ Bytes(rs) = g[Len(rs)]
<1> DEFINE n   == Len(rs)
           add == [i \in 1 .. n |-> [x \in Nat |-> x + rs[i].len]]
<1>1. n \in Nat /\ \A i \in 1 .. n : rs[i].len \in Nat
  BY DEF PageRange
<1>2. 0 \in Nat /\ add \in [1 .. n -> [Nat -> Nat]]
  BY <1>1
<1>3. PICK f \in [0 .. n -> Nat] : Iterates(f, n, 0, add)
  <2> HIDE DEF add, n
  <2> QED
    BY <1>1, <1>2, IterationExists
<1>4. ASSUME NEW i \in 0 .. n, i # 0 PROVE add[i][f[i - 1]] = f[i - 1] + rs[i].len
  <2>1. i \in 1 .. n /\ f[i - 1] \in Nat
    BY <1>1, <1>4
  <2> QED
    BY <2>1
<1>5. f = [i \in 0 .. n |-> IF i = 0 THEN 0 ELSE f[i - 1] + rs[i].len]
  <2> HIDE DEF add
  <2> QED
    BY <1>3, <1>4 DEF Iterates
<1> HIDE DEF add
<1>6. PICK g : /\ g = [i \in 0 .. n |-> IF i = 0 THEN 0 ELSE g[i - 1] + rs[i].len]
               /\ Bytes(rs) = g[n]
  BY <1>5 DEF Bytes
<1> QED
  BY <1>6

LEMMA BytesAreNat ==
  ASSUME NEW rs \in Seq(PageRange)
  PROVE  Bytes(rs) \in Nat
<1> DEFINE n == Len(rs)
<1>1. n \in Nat /\ \A i \in 1 .. n : rs[i].len \in Nat
  BY DEF PageRange
<1>6. PICK g : /\ \A i \in 0 .. n : g[i] = IF i = 0 THEN 0 ELSE g[i - 1] + rs[i].len
               /\ Bytes(rs) = g[n]
  BY BytesRecursive
<1> DEFINE Good == {i \in 0 .. n : g[i] \in Nat}
<1>7. \A i \in 0 .. n : g[i] = IF i = 0 THEN 0 ELSE g[i - 1] + rs[i].len
  BY <1>6
<1>8. 0 \in Good
  <2>1. 0 \in 0 .. n
    BY <1>1
  <2>2. g[0] = 0
    BY <1>7, <2>1
  <2> QED
    BY <2>1, <2>2
<1>9. ASSUME NEW i \in 1 .. n, i - 1 \in Good PROVE i \in Good
  <2>1. i \in 0 .. n /\ i # 0 /\ g[i - 1] \in Nat /\ rs[i].len \in Nat
    BY <1>1, <1>9
  <2>2. g[i] = g[i - 1] + rs[i].len
    BY <1>7, <2>1
  <2>3. g[i] \in Nat
    BY <2>1, <2>2
  <2> QED
    BY <2>1, <2>3
<1>10. n \in Good
  <2> HIDE DEF Good, n
  <2>1. \A i \in 1 .. n : i - 1 \in Good => i \in Good
    BY <1>9
  <2>2. \A i \in 0 .. n : i \in Good
    BY <1>1, <1>8, <2>1, InductionUpTo
  <2>3. n \in 0 .. n
    BY <1>1
  <2> QED
    BY <2>2, <2>3
<1> QED
  BY <1>6, <1>10

PickNext(small, k, p) == IF Fits(ranges[k]) = small THEN Append(p, ranges[k]) ELSE p

LEMMA PickStays ==
  ASSUME ranges \in Seq(PageRange), NEW small \in BOOLEAN, NEW k \in 1 .. Len(ranges),
         NEW p \in Seq({rg \in PageRange : Fits(rg) = small})
  PROVE  PickNext(small, k, p) \in Seq({rg \in PageRange : Fits(rg) = small})
<1> DEFINE Kept == {rg \in PageRange : Fits(rg) = small}
<1>1. ranges[k] \in PageRange
  OBVIOUS
<1>2. CASE Fits(ranges[k]) = small
  <2>1. ranges[k] \in Kept
    BY <1>1, <1>2
  <2> HIDE DEF Kept
  <2> QED
    BY <1>2, <2>1 DEF PickNext
<1>3. CASE Fits(ranges[k]) # small
  BY <1>3 DEF PickNext
<1> QED
  BY <1>2, <1>3

LEMMA PickedRecursive ==
  ASSUME ranges \in Seq(PageRange), NEW small \in BOOLEAN
  PROVE  \E g : /\ \A k \in 0 .. Len(ranges) :
                    g[k] = IF k = 0 THEN <<>> ELSE PickNext(small, k, g[k - 1])
               /\ Picked(small) = g[Len(ranges)]
<1> DEFINE n    == Len(ranges)
           Kept == {rg \in PageRange : Fits(rg) = small}
           pick == [k \in 1 .. n |-> [p \in Seq(Kept) |-> PickNext(small, k, p)]]
<1>1. n \in Nat
  OBVIOUS
<1>2. \A k \in 1 .. n, p \in Seq(Kept) : PickNext(small, k, p) \in Seq(Kept)
  BY PickStays
<1>3. <<>> \in Seq(Kept)
  BY EmptySeq
<1>4. PICK S, base : S = Seq(Kept) /\ base = <<>>
  OBVIOUS
<1>5. pick \in [1 .. n -> [S -> S]] /\ base \in S
  <2> HIDE DEF Kept
  <2> QED
    BY <1>2, <1>3, <1>4
<1>6. PICK f \in [0 .. n -> S] : Iterates(f, n, base, pick)
  <2> HIDE DEF pick, n
  <2> QED
    BY <1>1, <1>5, IterationExists
<1>7. ASSUME NEW k \in 0 .. n, k # 0 PROVE pick[k][f[k - 1]] = PickNext(small, k, f[k - 1])
  <2>1. k \in 1 .. n /\ f[k - 1] \in S
    BY <1>1, <1>7
  <2> HIDE DEF Kept
  <2> QED
    BY <2>1, <1>4
<1>8. f = [k \in 0 .. n |-> IF k = 0 THEN <<>> ELSE PickNext(small, k, f[k - 1])]
  <2> HIDE DEF pick
  <2> QED
    BY <1>4, <1>6, <1>7 DEF Iterates
<1>9. PICK g : /\ g = [k \in 0 .. n |-> IF k = 0 THEN <<>> ELSE PickNext(small, k, g[k - 1])]
               /\ Picked(small) = g[n]
  <2> HIDE DEF pick
  <2> QED
    BY <1>8 DEF Picked, PickNext
<1> HIDE DEF pick
<1>10. \A k \in 0 .. n : g[k] = IF k = 0 THEN <<>> ELSE PickNext(small, k, g[k - 1])
  BY <1>9
<1> QED
  BY <1>9, <1>10

\* The ranges picked are ranges of the plan, and fit a slot or do not as asked.
LEMMA PickedArePlanned ==
  ASSUME ranges \in Seq(PageRange), NEW small \in BOOLEAN
  PROVE  Picked(small) \in Seq({rg \in PageRange : Fits(rg) = small})
<1> DEFINE n    == Len(ranges)
           Kept == {rg \in PageRange : Fits(rg) = small}
<1>1. n \in Nat
  OBVIOUS
<1>2. \A k \in 1 .. n, p \in Seq(Kept) : PickNext(small, k, p) \in Seq(Kept)
  BY PickStays
<1>3. <<>> \in Seq(Kept)
  BY EmptySeq
<1>9. PICK g : /\ \A k \in 0 .. n : g[k] = IF k = 0 THEN <<>> ELSE PickNext(small, k, g[k - 1])
               /\ Picked(small) = g[n]
  BY PickedRecursive
<1> DEFINE Good == {k \in 0 .. n : g[k] \in Seq(Kept)}
<1>10. \A k \in 0 .. n : g[k] = IF k = 0 THEN <<>> ELSE PickNext(small, k, g[k - 1])
  BY <1>9
<1> HIDE DEF Kept
<1>11. 0 \in Good
  <2>1. 0 \in 0 .. n
    BY <1>1
  <2>2. g[0] = <<>>
    BY <1>10, <2>1
  <2> QED
    BY <1>3, <2>1, <2>2
<1>12. ASSUME NEW k \in 1 .. n, k - 1 \in Good PROVE k \in Good
  <2>1. k \in 0 .. n /\ k # 0 /\ g[k - 1] \in Seq(Kept)
    BY <1>1, <1>12
  <2>2. g[k] = PickNext(small, k, g[k - 1])
    BY <1>10, <2>1
  <2>3. g[k] \in Seq(Kept)
    BY <1>2, <2>1, <2>2
  <2> QED
    BY <2>1, <2>3
<1>13. n \in Good
  <2> HIDE DEF Good, n
  <2>1. \A k \in 1 .. n : k - 1 \in Good => k \in Good
    BY <1>12
  <2>2. \A k \in 0 .. n : k \in Good
    BY <1>1, <1>11, <2>1, InductionUpTo
  <2>3. n \in 0 .. n
    BY <1>1
  <2> QED
    BY <2>2, <2>3
<1> QED
  BY <1>9, <1>13 DEF Kept

LEMMA SmallIsPlanned ==
  ASSUME PlanSound
  PROVE  /\ Small \in Seq({rg \in PageRange : rg.len <= SlotRows})
         /\ Large \in Seq(PageRange) /\ Total \in Nat
<1>1. ranges \in Seq(PageRange)
  BY DEF PlanSound
<1>2. /\ Small \in Seq({rg \in PageRange : Fits(rg) = TRUE})
      /\ Picked(FALSE) \in Seq({rg \in PageRange : Fits(rg) = FALSE})
  BY <1>1, PickedArePlanned DEF Small
<1>3. /\ {rg \in PageRange : Fits(rg) = TRUE} \subseteq {rg \in PageRange : rg.len <= SlotRows}
      /\ {rg \in PageRange : Fits(rg) = FALSE} \subseteq PageRange
  BY DEF Fits
<1>4. Small \in Seq({rg \in PageRange : rg.len <= SlotRows})
  BY <1>2, <1>3, SeqMonotonic
<1>5. Picked(FALSE) \in Seq(PageRange)
  BY <1>2, <1>3, SeqMonotonic
<1>6. Large \in Seq(PageRange)
  BY <1>1, <1>5 DEF Large
<1>7. Len(Small) \in Nat /\ MeasureCount \in Nat
  BY <1>4, RowsAreNat
<1> QED
  BY <1>4, <1>6, <1>7 DEF Total

LEMMA TaskInPlan ==
  ASSUME PlanSound, NEW task \in Nat, task < Total
  PROVE  /\ TaskRange(task) \in PageRange /\ TaskRange(task).len <= SlotRows
         /\ TaskColumn(task) \in Columns
<1>1. /\ Small \in Seq({rg \in PageRange : rg.len <= SlotRows})
      /\ Len(Small) \in Nat /\ MeasureCount \in Nat \ {0}
  BY SmallIsPlanned, RowsAreNat
<1>2. task \div MeasureCount \in 0 .. Len(Small) - 1
  BY <1>1, DivideBelow DEF Total
<1>3. task % MeasureCount \in 0 .. MeasureCount - 1
  BY <1>1, DivideDown
<1>4. (task \div MeasureCount) + 1 \in 1 .. Len(Small)
  BY <1>1, <1>2
<1>5. Small[(task \div MeasureCount) + 1] \in {rg \in PageRange : rg.len <= SlotRows}
  BY <1>1, <1>4, ElementOfSeq
<1> QED
  BY <1>3, <1>5 DEF TaskRange, TaskColumn, Columns

LEMMA EntryIsARequest ==
  ASSUME PlanSound, NEW s \in Slots, NEW task \in Nat, task < Total,
         NEW already \in Nat, already < TaskRange(task).len
  PROVE  /\ Entry(s, task, already) \in Request
         /\ Entry(s, task, already).slot = s
<1> PICK rg : rg = TaskRange(task)
  OBVIOUS
<1>1. /\ rg \in PageRange /\ rg.len <= SlotRows /\ TaskColumn(task) \in Columns
      /\ already < rg.len /\ SlotRows \in Nat /\ RowCount \in Nat
  BY TaskInPlan, RowsAreNat
<1>2. /\ rg.off \in Nat /\ rg.len \in Nat /\ rg.off + rg.len <= RowCount
  BY <1>1 DEF PageRange
<1>3. /\ rg.off + already \in Nat /\ rg.len - already \in Nat \ {0}
      /\ already + (rg.len - already) <= SlotRows
      /\ (rg.off + already) + (rg.len - already) <= RowCount
  BY <1>1, <1>2
<1>4. Entry(s, task, already) = [slot |-> s, column |-> TaskColumn(task), at |-> already,
                                 off |-> rg.off + already, len |-> rg.len - already]
  BY DEF Entry
<1> QED
  BY <1>1, <1>3, <1>4 DEF Request

\* The plan of a gather does not change while it is carried out.
LEMMA PlanKept ==
  ASSUME ranges' = ranges
  PROVE  Small' = Small /\ Total' = Total
<1>1. Small' = Small
  BY DEF Small, Picked
<1> QED
  BY <1>1 DEF Total

LEMMA TaskKept ==
  ASSUME ranges' = ranges, NEW s, NEW task, NEW already
  PROVE  /\ TaskRange(task)' = TaskRange(task)
         /\ Entry(s, task, already)' = Entry(s, task, already)
<1>1. TaskRange(task)' = TaskRange(task)
  BY PlanKept DEF TaskRange
<1> QED
  BY <1>1 DEF Entry, TaskColumn
-----------------------------------------------------------------------------
(* Where a slot is named.                                                  *)

Keys(q)     == [i \in DOMAIN q |-> q[i].slot]
InFlight(s) == {e \in kernel : e.slot = s}
Named(s)    == CountIn(freeSlots, s) + CountIn(Keys(sq), s) + Cardinality(InFlight(s))
                 + CountIn(Keys(cq), s)
Completion  == [slot : Slots, res : Nat]

LEMMA KeysAreSlots ==
  ASSUME NEW T, \A x \in T : x.slot \in Slots, NEW q \in Seq(T)
  PROVE  /\ Keys(q) \in Seq(Slots) /\ Len(Keys(q)) = Len(q)
         /\ \A x \in T : Keys(Append(q, x)) = Append(Keys(q), x.slot)
         /\ q # <<>> => Keys(q) # <<>> /\ Keys(Tail(q)) = Tail(Keys(q)) /\ Head(Keys(q)) = Head(q).slot
<1>1. Len(q) \in Nat /\ DOMAIN q = 1 .. Len(q) /\ \A i \in 1 .. Len(q) : q[i] \in T
  OBVIOUS
<1>2. Keys(q) \in Seq(Slots) /\ Len(Keys(q)) = Len(q) /\ DOMAIN Keys(q) = 1 .. Len(q)
      /\ \A i \in 1 .. Len(q) : Keys(q)[i] = q[i].slot
  BY <1>1 DEF Keys
<1>3. ASSUME NEW x \in T PROVE Keys(Append(q, x)) = Append(Keys(q), x.slot)
  <2>1. /\ Append(q, x) \in Seq(T) /\ DOMAIN Append(q, x) = 1 .. Len(q) + 1
        /\ \A i \in 1 .. Len(q) + 1 : Append(q, x)[i] = IF i = Len(q) + 1 THEN x ELSE q[i]
    BY <1>1
  <2>2. /\ Keys(Append(q, x)) \in Seq(Slots) /\ Len(Keys(Append(q, x))) = Len(q) + 1
        /\ \A i \in 1 .. Len(q) + 1 :
             Keys(Append(q, x))[i] = IF i = Len(q) + 1 THEN x.slot ELSE q[i].slot
    BY <1>1, <2>1 DEF Keys
  <2>3. /\ Append(Keys(q), x.slot) \in Seq(Slots) /\ Len(Append(Keys(q), x.slot)) = Len(q) + 1
        /\ \A i \in 1 .. Len(q) + 1 :
             Append(Keys(q), x.slot)[i] = IF i = Len(q) + 1 THEN x.slot ELSE q[i].slot
    <3>1. x.slot \in Slots
      OBVIOUS
    <3> QED
      BY <1>1, <1>2, <3>1
  <2> QED
    BY <2>2, <2>3, SeqEqual
<1>4. ASSUME q # <<>>
      PROVE  Keys(q) # <<>> /\ Keys(Tail(q)) = Tail(Keys(q)) /\ Head(Keys(q)) = Head(q).slot
  <2>1. /\ Tail(q) \in Seq(T) /\ DOMAIN Tail(q) = 1 .. Len(q) - 1 /\ Head(q) = q[1]
        /\ \A i \in 1 .. Len(q) - 1 : Tail(q)[i] = q[i + 1]
        /\ Len(q) # 0
    BY <1>1, <1>4
  <2>2. Keys(q) # <<>>
    BY <1>2, <2>1
  <2>3. /\ Keys(Tail(q)) \in Seq(Slots) /\ Len(Keys(Tail(q))) = Len(q) - 1
        /\ \A i \in 1 .. Len(q) - 1 : Keys(Tail(q))[i] = q[i + 1].slot
    BY <1>1, <2>1 DEF Keys
  <2>4. /\ Tail(Keys(q)) \in Seq(Slots) /\ Len(Tail(Keys(q))) = Len(q) - 1
        /\ \A i \in 1 .. Len(q) - 1 : Tail(Keys(q))[i] = q[i + 1].slot
        /\ Head(Keys(q)) = q[1].slot
    BY <1>1, <1>2, <2>1, <2>2
  <2>5. Keys(Tail(q)) = Tail(Keys(q))
    BY <1>1, <2>3, <2>4, SeqEqual
  <2> QED
    BY <2>1, <2>2, <2>4, <2>5
<1> QED
  BY <1>2, <1>3, <1>4

LEMMA EmptyKeys ==
  ASSUME NEW q, q = <<>> PROVE Keys(q) = <<>> /\ DOMAIN q = {}
<1>1. Len(q) = 0 /\ DOMAIN q = 1 .. 0 /\ 1 .. 0 = {}
  OBVIOUS
<1>2. Keys(q) \in Seq({}) /\ Len(Keys(q)) = 0
  BY <1>1 DEF Keys
<1> QED
  BY <1>1, <1>2, EmptySeq

\* The counts of the model, in the words used here.
LEMMA WhereNamed ==
  ASSUME RingTypes, NEW s
  PROVE  /\ CountIn(freeSlots, s) \in Nat /\ CountIn(Keys(sq), s) \in Nat
         /\ IsFiniteSet(InFlight(s)) /\ Cardinality(InFlight(s)) \in Nat
         /\ CountIn(Keys(cq), s) \in Nat
         /\ Free(s) = CountIn(freeSlots, s)
         /\ Entries(s) = CountIn(Keys(sq), s) + Cardinality(InFlight(s)) + CountIn(Keys(cq), s)
         /\ Free(s) + Entries(s) = Named(s)
         /\ CountIn(freeSlots, s) = 0 <=> \A i \in DOMAIN freeSlots : freeSlots[i] # s
         /\ CountIn(Keys(sq), s) = 0 <=> \A i \in DOMAIN sq : sq[i].slot # s
         /\ Cardinality(InFlight(s)) = 0 <=> \A e \in kernel : e.slot # s
         /\ CountIn(Keys(cq), s) = 0 <=> \A i \in DOMAIN cq : cq[i].slot # s
<1>1. /\ freeSlots \in Seq(Slots) /\ sq \in Seq(Request) /\ cq \in Seq(Completion)
      /\ IsFiniteSet(kernel)
      /\ (\A x \in Request : x.slot \in Slots) /\ \A x \in Completion : x.slot \in Slots
  BY DEF RingTypes, Completion, Request
<1>2. Keys(sq) \in Seq(Slots) /\ Keys(cq) \in Seq(Slots)
  BY <1>1, KeysAreSlots
<1>3. IsFiniteSet(InFlight(s))
  <2>1. InFlight(s) \in SUBSET kernel
    BY DEF InFlight
  <2> QED
    BY <1>1, <2>1, FS_Subset
<1>4. /\ CountIn(freeSlots, s) \in Nat /\ CountIn(Keys(sq), s) \in Nat
      /\ Cardinality(InFlight(s)) \in Nat /\ CountIn(Keys(cq), s) \in Nat
      /\ CountIn(freeSlots, s) = 0 <=> \A i \in DOMAIN freeSlots : freeSlots[i] # s
      /\ CountIn(Keys(sq), s) = 0 <=> \A i \in DOMAIN Keys(sq) : Keys(sq)[i] # s
      /\ CountIn(Keys(cq), s) = 0 <=> \A i \in DOMAIN Keys(cq) : Keys(cq)[i] # s
  BY <1>1, <1>2, <1>3, NamingFinite, FS_CardinalityType
<1>5. /\ Naming(Keys(sq), s) = {i \in DOMAIN sq : sq[i].slot = s}
      /\ Naming(Keys(cq), s) = {i \in DOMAIN cq : cq[i].slot = s}
      /\ Naming(freeSlots, s) = {i \in DOMAIN freeSlots : freeSlots[i] = s}
  BY DEF Naming, Keys
<1>6. /\ Free(s) = CountIn(freeSlots, s)
      /\ Entries(s) = CountIn(Keys(sq), s) + Cardinality(InFlight(s)) + CountIn(Keys(cq), s)
  BY <1>5, Zenon DEF Free, Entries, CountIn, InFlight
<1>7. Free(s) + Entries(s) = Named(s)
  BY <1>4, <1>6 DEF Named
<1>8. /\ CountIn(Keys(sq), s) = 0 <=> \A i \in DOMAIN sq : sq[i].slot # s
      /\ CountIn(Keys(cq), s) = 0 <=> \A i \in DOMAIN cq : cq[i].slot # s
  BY <1>4, Zenon DEF Keys
<1>9. Cardinality(InFlight(s)) = 0 <=> \A e \in kernel : e.slot # s
  <2>1. InFlight(s) = {} <=> \A e \in kernel : e.slot # s
    BY DEF InFlight
  <2> QED
    BY <1>3, <2>1, FS_EmptySet
<1> QED
  BY <1>3, <1>4, <1>6, <1>7, <1>8, <1>9

-----------------------------------------------------------------------------
(* Steps with the ring at rest.                                            *)

LEMMA StatsRecord ==
  DOMAIN NoStats = {"scanRows", "gatherRows", "scanBytes", "gatherBytes"}
BY DEF NoStats

LEMMA QuietStep ==
  ASSUME GatherInv, ~Ringing, phase # "thrown",
         UNCHANGED configVars, UNCHANGED ringVars,
         phase' \in {"idle", "merge", "scan", "direct", "served"},
         ring' \in {"untried", "live", "none"}, stats' \in [DOMAIN NoStats -> Nat],
         PlanSound'
  PROVE  GatherInv'
<1>1. /\ GatherTypeOK /\ RingTypes /\ RingAtRest
      /\ backing' = backing /\ sortGather' = sortGather
      /\ slots' = slots /\ freeSlots' = freeSlots /\ loop' = loop
      /\ sq' = sq /\ kernel' = kernel /\ cq' = cq
  BY DEF GatherInv, configVars, ringVars
<1>2. GatherTypeOK'
  BY <1>1 DEF GatherTypeOK, NoStats
<1>3. RingTypes'
  BY <1>1 DEF RingTypes, Request
<1>4. RingAtRest' /\ ~Ringing'
  BY <1>1 DEF RingAtRest, Ringing
<1> QED
  BY <1>2, <1>3, <1>4 DEF GatherInv

LEMMA BuiltIsACursor ==
  ASSUME NEW c \in [rows : Seq(Rows), tag : Nat, outlier : BOOLEAN]
  PROVE  Built(c) \in Cursor
<1>1. c.rows \in Seq(Rows) /\ c.tag \in Nat /\ c.outlier \in BOOLEAN
  OBVIOUS
<1>2. InOrder(c.rows) \in Seq(Rows)
  BY <1>1, InOrderIsASeq
<1> QED
  BY <1>1, <1>2 DEF Built, Cursor

LEMMA BeginPreserves ==
  ASSUME GatherInv, NEW request \in Batches, Begin(request)
  PROVE  GatherInv'
<1>1. /\ phase = "idle" /\ phase' = "merge" /\ batch' = <<>> /\ stats' = NoStats
      /\ cursors' = [x \in DOMAIN request |-> Built(request[x])]
      /\ UNCHANGED <<configVars, ring, ranges, scan, direct, ringVars>>
  BY DEF Begin
<1>2. request \in Seq([rows : Seq(Rows), tag : Nat, outlier : BOOLEAN])
  BY StoreAssumption DEF Rows
<1>3. cursors' \in Seq(Cursor)
  <2>2. DOMAIN request = 1 .. Len(request) /\ Len(request) \in Nat
    BY <1>2
  <2>3. \A x \in 1 .. Len(request) : request[x] \in [rows : Seq(Rows), tag : Nat, outlier : BOOLEAN]
    BY <1>2, ElementOfSeq
  <2>1. \A x \in DOMAIN request : Built(request[x]) \in Cursor
    BY <2>2, <2>3, BuiltIsACursor
  <2> QED
    BY <1>1, <2>1, <2>2
<1>4. PlanSound'
  BY <1>1, <1>3, EmptySeq DEF GatherInv, PlanSound
<1>5. stats' \in [DOMAIN NoStats -> Nat] /\ ring' \in {"untried", "live", "none"}
  BY <1>1 DEF NoStats, GatherInv, GatherTypeOK
<1> QED
  BY <1>1, <1>4, <1>5, QuietStep DEF Ringing

LEMMA MergeRowPreserves ==
  ASSUME GatherInv, NEW x \in DOMAIN cursors, MergeRow(x)
  PROVE  GatherInv'
<1>1. /\ phase = "merge" /\ phase' = phase /\ x \in Live
      /\ batch' = Append(batch, [row |-> Peek(x), tag |-> cursors[x].tag,
                                 outlier |-> cursors[x].outlier])
      /\ cursors' = [cursors EXCEPT ![x].pos = @ + 1]
      /\ UNCHANGED <<configVars, ring, ranges, scan, direct, ringVars, stats>>
  BY DEF MergeRow
<1>2. /\ cursors \in Seq(Cursor) /\ batch \in Seq(Wanted) /\ x \in 1 .. Len(cursors)
      /\ cursors[x] \in Cursor
  BY DEF GatherInv, PlanSound
<1>3. /\ cursors[x].pos \in 1 .. Len(cursors[x].rows) /\ cursors[x].rows \in Seq(Rows)
      /\ cursors[x].tag \in Nat /\ cursors[x].outlier \in BOOLEAN
  BY <1>1, <1>2 DEF Live, Cursor
<1>4. Peek(x) \in Rows
  BY <1>3 DEF Peek
<1>5. batch' \in Seq(Wanted)
  BY <1>1, <1>2, <1>3, <1>4 DEF Wanted
<1>6. cursors' \in Seq(Cursor)
  <2> DEFINE c == [cursors[x] EXCEPT !.pos = @ + 1]
  <2>1. c \in Cursor
    <3> PICK d \in Cursor : d = cursors[x]
      BY <1>2
    <3>1. d \in [rows : Seq(Rows), pos : Nat \ {0}, tag : Nat, outlier : BOOLEAN]
      BY DEF Cursor
    <3>2. d.pos + 1 \in Nat \ {0}
      BY <3>1
    <3>3. c = [d EXCEPT !.pos = d.pos + 1]
      OBVIOUS
    <3> HIDE DEF c
    <3> QED
      BY <3>1, <3>2, <3>3 DEF Cursor
  <2>2. cursors' = [cursors EXCEPT ![x] = c]
    BY <1>1
  <2> HIDE DEF c
  <2> QED
    BY <1>2, <2>1, <2>2, ExceptSeq
<1>7. PlanSound'
  BY <1>1, <1>5, <1>6 DEF GatherInv, PlanSound
<1>8. stats' \in [DOMAIN NoStats -> Nat] /\ ring' \in {"untried", "live", "none"}
  BY <1>1 DEF GatherInv, GatherTypeOK
<1> QED
  BY <1>1, <1>7, <1>8, QuietStep DEF Ringing

LEMMA ServeResidentPreserves ==
  ASSUME GatherInv, ServeResident
  PROVE  GatherInv'
<1>1. /\ phase = "merge" /\ phase' = "served"
      /\ UNCHANGED <<configVars, ring, planVars, scan, direct, ringVars, stats>>
  BY DEF ServeResident
<1>2. PlanSound'
  BY <1>1 DEF GatherInv, PlanSound, planVars
<1>3. stats' \in [DOMAIN NoStats -> Nat] /\ ring' \in {"untried", "live", "none"}
  BY <1>1 DEF GatherInv, GatherTypeOK
<1> QED
  BY <1>1, <1>2, <1>3, QuietStep DEF Ringing

LEMMA ReturnPreserves ==
  ASSUME GatherInv, Return
  PROVE  GatherInv'
<1>1. /\ phase = "served" /\ phase' = "idle"
      /\ UNCHANGED <<configVars, ring, planVars, scan, direct, ringVars, stats>>
  BY DEF Return
<1>2. PlanSound'
  BY <1>1 DEF GatherInv, PlanSound, planVars
<1>3. stats' \in [DOMAIN NoStats -> Nat] /\ ring' \in {"untried", "live", "none"}
  BY <1>1 DEF GatherInv, GatherTypeOK
<1> QED
  BY <1>1, <1>2, <1>3, QuietStep DEF Ringing

LEMMA ChooseScanPreserves ==
  ASSUME GatherInv, ChooseScan
  PROVE  GatherInv'
<1>1. /\ phase = "merge" /\ phase' = "scan" /\ N > 0
      /\ scan' = [column |-> 0, base |-> 0, j |-> 1]
      /\ stats' = [stats EXCEPT !.scanRows = N]
      /\ UNCHANGED <<configVars, ring, planVars, direct, ringVars>>
  BY DEF ChooseScan
<1>2. batch \in Seq(Wanted) /\ N \in Nat
  BY DEF GatherInv, PlanSound, N
<1>3. PlanSound'
  BY <1>1 DEF GatherInv, PlanSound, planVars, N
<1>4. stats' \in [DOMAIN NoStats -> Nat] /\ ring' \in {"untried", "live", "none"}
  BY <1>1, <1>2, StatsRecord DEF GatherInv, GatherTypeOK
<1> QED
  BY <1>1, <1>3, <1>4, QuietStep DEF Ringing

LEMMA ChooseGatherPreserves ==
  ASSUME GatherInv, ChooseGather
  PROVE  GatherInv'
<1>1. /\ phase = "merge" /\ phase' = "direct" /\ ranges' = Coalesced /\ direct' = 0
      /\ ring' \in IF ring = "untried" THEN {"live", "none"} ELSE {ring}
      /\ stats' = [stats EXCEPT !.gatherRows = N,
                                !.gatherBytes = Bytes(Coalesced) * MeasureCount]
      /\ UNCHANGED <<configVars, cursors, batch, scan, ringVars>>
  BY DEF ChooseGather
<1>2. batch \in Seq(Wanted) /\ N \in Nat
  BY DEF GatherInv, PlanSound, N
<1>3. Coalesced \in Seq(PageRange)
  BY <1>2, CoalescedIsAPlan
<1>4. Bytes(Coalesced) * MeasureCount \in Nat
  BY <1>3, BytesAreNat, RowsAreNat
<1>5. PlanSound'
  BY <1>1, <1>3 DEF GatherInv, PlanSound
<1>6. stats' \in [DOMAIN NoStats -> Nat]
  BY <1>1, <1>2, <1>4, StatsRecord DEF GatherInv, GatherTypeOK
<1>7. ring' \in {"untried", "live", "none"}
  BY <1>1 DEF GatherInv, GatherTypeOK
<1> QED
  BY <1>1, <1>5, <1>6, <1>7, QuietStep DEF Ringing

\* Advance returns the first position with a row at or past r.
LEMMA AdvanceFirst ==
  ASSUME batch \in Seq(Wanted), NEW j \in 1 .. N + 1, NEW r \in Int
  PROVE  /\ Advance(j, r) \in j .. N + 1
         /\ Advance(j, r) = N + 1 \/ RowAt(Advance(j, r)) >= r
         /\ \A h \in j .. Advance(j, r) - 1 : RowAt(h) < r
<1> DEFINE T == {i \in j .. N + 1 : i = N + 1 \/ RowAt(i) >= r}
<1>1. N \in Nat /\ j \in Nat
  BY DEF N
<1>2. \A i \in 1 .. N : RowAt(i) \in Nat
  BY RowAtInTable, RowsAreNat
<1>3. T \in SUBSET Nat /\ N + 1 \in T
  BY <1>1
<1>4. PICK i \in T : \A k \in T : i <= k
  <2> HIDE DEF T
  <2> QED
    BY <1>3, LeastNat
<1>5. i \in j .. N + 1 /\ (i = N + 1 \/ RowAt(i) >= r)
  BY <1>4
<1>6. ASSUME NEW h \in j .. i - 1 PROVE RowAt(h) < r
  <2>1. h \in 1 .. N /\ h \in j .. N + 1 /\ h # N + 1 /\ ~(i <= h)
    BY <1>1, <1>5, <1>6
  <2>2. h \notin T
    <3> HIDE DEF T
    <3> QED
      BY <1>4, <2>1
  <2>3. ~(RowAt(h) >= r) /\ RowAt(h) \in Nat
    BY <1>2, <2>1, <2>2
  <2> QED
    BY <2>3
<1> HIDE DEF T
<1> QED
  BY <1>5, <1>6 DEF Advance

LEMMA ScanBlockPreserves ==
  ASSUME GatherInv, ScanBlock
  PROVE  GatherInv'
<1> DEFINE from == Advance(scan.j, BlockBegin)
           to   == Advance(from, BlockEnd)
<1>1. /\ phase = "scan" /\ phase' = phase /\ ~ColumnScanned
      /\ scan' = [scan EXCEPT !.base = @ + ScanBlockRows, !.j = to]
      /\ stats' = stats \/ stats' = [stats EXCEPT !.scanBytes = @ + BlockCount]
      /\ UNCHANGED <<configVars, ring, planVars, direct, ringVars>>
  BY DEF ScanBlock
<1>2. /\ batch \in Seq(Wanted) /\ N \in Nat /\ N > 0
      /\ scan \in [column : Nat, base : Nat, j : Nat \ {0}] /\ scan.j \in 1 .. N + 1
  <2>1. PlanSound
    BY DEF GatherInv
  <2>2. batch \in Seq(Wanted) /\ N \in Nat
    BY <2>1 DEF PlanSound, N
  <2>3. scan \in [column : Nat, base : Nat, j : Nat \ {0}] /\ N > 0 /\ scan.j <= N + 1
    BY <1>1, <2>1 DEF PlanSound
  <2> QED
    BY <2>2, <2>3
<1>3. RowAt(1) \in Nat /\ RowAt(N) \in Nat
  <2>1. 1 \in 1 .. N /\ N \in 1 .. N
    BY <1>2
  <2>2. RowAt(1) \in Rows /\ RowAt(N) \in Rows
    BY ONLY <1>2, <2>1, RowAtInTable
  <2> QED
    BY <2>2, RowsAreNat
<1>4. SpanRows \in Int /\ ScanBlockRows \in Nat \ {0} /\ Low \in Nat
  <2>1. ScanBlockRows \in Nat \ {0}
    BY RowsAreNat
  <2> QED
    BY <1>3, <2>1 DEF SpanRows, Low
<1>5. BlockCount \in Nat
  BY <1>1, <1>2, <1>4 DEF BlockCount, Lesser, ColumnScanned
<1>6. to \in 1 .. N + 1
  <2>1. BlockBegin \in Int /\ BlockEnd \in Int
    BY <1>2, <1>4, <1>5 DEF BlockBegin, BlockEnd
  <2>2. from \in 1 .. N + 1
    <3>1. from \in scan.j .. N + 1
      BY <1>2, <2>1, AdvanceFirst
    <3> HIDE DEF from
    <3> QED
      BY <1>2, <3>1
  <2>3. to \in from .. N + 1
    <3> HIDE DEF from
    <3> QED
      BY <1>2, <2>1, <2>2, AdvanceFirst
  <2> HIDE DEF from, to
  <2> QED
    BY <1>2, <2>2, <2>3
<1> HIDE DEF to
<1>7. scan' \in [column : Nat, base : Nat, j : Nat \ {0}] /\ scan'.j <= N + 1
  <2>1. scan.base + ScanBlockRows \in Nat /\ to \in Nat \ {0} /\ to <= N + 1
    BY <1>2, <1>4, <1>6
  <2>2. scan' = [column |-> scan.column, base |-> scan.base + ScanBlockRows, j |-> to]
    BY <1>1, <1>2
  <2> QED
    BY <1>2, <2>1, <2>2
<1>8. PlanSound'
  BY <1>1, <1>2, <1>7 DEF GatherInv, PlanSound, planVars, N
<1>9. stats' \in [DOMAIN NoStats -> Nat] /\ ring' \in {"untried", "live", "none"}
  BY <1>1, <1>5, StatsRecord DEF GatherInv, GatherTypeOK
<1> QED
  BY <1>1, <1>8, <1>9, QuietStep DEF Ringing

LEMMA NextColumnPreserves ==
  ASSUME GatherInv, NextColumn
  PROVE  GatherInv'
<1>1. /\ phase = "scan" /\ phase' \in {"scan", "served"}
      /\ scan' = [column |-> scan.column + 1, base |-> 0, j |-> 1]
      /\ UNCHANGED <<configVars, ring, planVars, direct, ringVars, stats>>
  BY DEF NextColumn
<1>2. PlanSound'
  BY <1>1 DEF GatherInv, PlanSound, planVars, N
<1>3. stats' \in [DOMAIN NoStats -> Nat] /\ ring' \in {"untried", "live", "none"}
  BY <1>1 DEF GatherInv, GatherTypeOK
<1> QED
  BY <1>1, <1>2, <1>3, QuietStep DEF Ringing

LEMMA ReadDirectPreserves ==
  ASSUME GatherInv, ReadDirect
  PROVE  GatherInv'
<1>1. /\ phase = "direct" /\ phase' = phase /\ direct' = direct + 1
      /\ UNCHANGED <<configVars, ring, planVars, scan, ringVars, stats>>
  BY DEF ReadDirect
<1>2. PlanSound'
  BY <1>1 DEF GatherInv, PlanSound, planVars, N
<1>3. stats' \in [DOMAIN NoStats -> Nat] /\ ring' \in {"untried", "live", "none"}
  BY <1>1 DEF GatherInv, GatherTypeOK
<1> QED
  BY <1>1, <1>2, <1>3, QuietStep DEF Ringing

-----------------------------------------------------------------------------
(* Steps that use the ring.                                                *)

\* SlotsAccounted, while the ring is in use, by where a slot is named.
Accounted ==
  /\ \A s \in Slots : Named(s) = 1
  /\ loop.inflight = RingDepth - Len(freeSlots)
  /\ loop.done + loop.inflight = loop.next
  /\ \A s, t \in Slots : /\ CountIn(freeSlots, s) = 0 /\ CountIn(freeSlots, t) = 0
                         /\ slots[s].task = slots[t].task
                         => s = t

LEMMA AccountedIsSlotsAccounted ==
  RingTypes => (SlotsAccounted <=> (Ringing => Accounted))
<1> SUFFICES ASSUME RingTypes PROVE SlotsAccounted <=> (Ringing => Accounted)
  OBVIOUS
<1>1. \A s \in Slots : /\ Free(s) + Entries(s) = Named(s)
                       /\ Free(s) = CountIn(freeSlots, s) /\ CountIn(freeSlots, s) \in Nat
  BY WhereNamed
<1>2. \A s, t \in Slots :
        Free(s) + Free(t) = 0 <=> CountIn(freeSlots, s) = 0 /\ CountIn(freeSlots, t) = 0
  BY <1>1
<1> HIDE DEF Free, Entries, Named, CountIn
<1> QED
  BY <1>1, <1>2, Zenon DEF SlotsAccounted, Accounted

LEMMA AccountedIsSlotsAccountedNext ==
  (RingTypes => (SlotsAccounted <=> (Ringing => Accounted)))'
BY AccountedIsSlotsAccounted, PTL

LEMMA RingInUse ==
  ASSUME GatherInv, Ringing
  PROVE  /\ GatherTypeOK /\ PlanSound /\ RingTypes /\ Accounted /\ TasksSound
         /\ RingDepth \in Nat \ {0} /\ SlotRows \in Nat \ {0} /\ Total \in Nat
         /\ \A s \in Slots : slots[s].task \in Nat /\ slots[s].filled \in 0 .. SlotRows
<1>1. GatherTypeOK /\ PlanSound /\ RingTypes /\ SlotsAccounted /\ TasksSound
  BY DEF GatherInv
<1>2. Accounted
  BY <1>1, AccountedIsSlotsAccounted
<1>3. \A s \in Slots : slots[s].task \in Nat /\ slots[s].filled \in 0 .. SlotRows
  BY <1>1 DEF GatherTypeOK
<1> QED
  BY <1>1, <1>2, <1>3, SmallIsPlanned, StoreAssumption

SlotType == [task : Nat, filled : 0 .. SlotRows,
             bytes : [0 .. SlotRows - 1 -> Value \union {None}]]

LEMMA RingStep ==
  ASSUME GatherInv, UNCHANGED <<configVars, ring, planVars, scan, direct, stats>>,
         phase' \in {"fill", "wait", "drain", "served", "thrown"},
         RingTypes', slots' \in [Slots -> SlotType],
         phase' \in {"fill", "wait", "drain"} => Accounted' /\ TasksSound',
         phase' = "served" => RingAtRest'
  PROVE  GatherInv'
<1>1. /\ GatherTypeOK /\ PlanSound
      /\ backing' = backing /\ sortGather' = sortGather /\ ring' = ring /\ stats' = stats
  BY DEF GatherInv, configVars
<1>2. \A e \in kernel' : e.len > 0 /\ e.at + e.len <= SlotRows /\ e.off + e.len <= RowCount
  <2>1. kernel' \subseteq Request
    BY DEF RingTypes
  <2> QED
    BY <2>1 DEF Request
<1>3. GatherTypeOK'
  BY <1>1, <1>2 DEF GatherTypeOK, SlotType, NoStats
<1>4. PlanSound'
  BY <1>1 DEF PlanSound, planVars
<1>5. SlotsAccounted'
  BY AccountedIsSlotsAccountedNext DEF Ringing
<1>6. Ringing' => TasksSound'
  BY DEF Ringing
<1> QED
  BY <1>3, <1>4, <1>5, <1>6 DEF GatherInv, Ringing

LEMMA SlotAssigned ==
  ASSUME NEW x \in SlotType, NEW task \in Nat, NEW filled \in 0 .. SlotRows
  PROVE  /\ [x EXCEPT !.task = task, !.filled = filled] \in SlotType
         /\ [x EXCEPT !.filled = filled] \in SlotType
<1> DEFINE B == [0 .. SlotRows - 1 -> Value \union {None}]
           R == 0 .. SlotRows
<1>1. x \in [task : Nat, filled : R, bytes : B] /\ filled \in R
  BY DEF SlotType
<1> HIDE DEF B, R
<1>2. [x EXCEPT !.filled = filled] \in [task : Nat, filled : R, bytes : B]
  BY ONLY <1>1
<1>3. [x EXCEPT !.task = task, !.filled = filled] \in [task : Nat, filled : R, bytes : B]
  <2>1. task \in Nat
    OBVIOUS
  <2> QED
    BY ONLY <1>1, <2>1
<1> QED
  BY <1>2, <1>3 DEF SlotType, B, R

\* The stack a service starts from names each slot once.
LEMMA FreshStack ==
  ASSUME NEW q, q = [i \in 1 .. RingDepth |-> i - 1]
  PROVE  /\ q \in Seq(Slots) /\ Len(q) = RingDepth
         /\ \A s \in Slots : CountIn(q, s) = 1
<1>1. RingDepth \in Nat \ {0}
  BY StoreAssumption
<1>2. q \in [1 .. RingDepth -> Slots]
  BY <1>1 DEF Slots
<1>3. q \in Seq(Slots) /\ Len(q) = RingDepth /\ DOMAIN q = 1 .. RingDepth
  BY <1>1, <1>2
<1>4. \A s \in Slots : Naming(q, s) = {s + 1}
  BY <1>1, <1>3 DEF Naming, Slots
<1> QED
  BY <1>3, <1>4, FS_Singleton DEF CountIn

LEMMA EndDirectPreserves ==
  ASSUME GatherInv, EndDirect
  PROVE  GatherInv'
<1>1. /\ phase = "direct"
      /\ phase' \in {"served", "fill"}
      /\ freeSlots' = [i \in 1 .. RingDepth |-> i - 1]
      /\ loop' = IdleLoop
      /\ slots' = [s \in Slots |-> [slots[s] EXCEPT !.task = 0, !.filled = 0]]
      /\ UNCHANGED <<configVars, ring, planVars, scan, direct, sq, kernel, cq, stats>>
  BY DEF EndDirect
<1>2. /\ PlanSound /\ GatherTypeOK /\ RingTypes /\ sq = <<>> /\ kernel = {} /\ cq = <<>>
  BY <1>1 DEF GatherInv, Ringing, RingAtRest
<1>3. RingDepth \in Nat \ {0} /\ SlotRows \in Nat
  BY StoreAssumption
<1>4. /\ freeSlots' \in Seq(Slots) /\ Len(freeSlots') = RingDepth
      /\ \A s \in Slots : CountIn(freeSlots', s) = 1
  BY <1>1, FreshStack
<1>5. sq' = <<>> /\ kernel' = {} /\ cq' = <<>>
  BY <1>1, <1>2
<1>6. loop'.inflight = 0 /\ loop'.done = 0 /\ loop'.next = 0
  BY <1>1 DEF IdleLoop
<1>7. slots' \in [Slots -> SlotType]
  <2>1. slots \in [Slots -> SlotType]
    BY <1>2 DEF GatherTypeOK, SlotType
  <2>2. \A s \in Slots : [slots[s] EXCEPT !.task = 0, !.filled = 0] \in SlotType
    <3> TAKE s \in Slots
    <3> PICK x \in SlotType : x = slots[s]
      BY <2>1
    <3>1. [x EXCEPT !.task = 0, !.filled = 0] \in SlotType
      <4>1. 0 \in Nat /\ 0 \in 0 .. SlotRows
        BY <1>3
      <4> QED
        BY <4>1, SlotAssigned
    <3> QED
      BY <3>1
  <2> QED
    BY <1>1, <2>2
<1>8. RingTypes'
  BY <1>1, <1>2, <1>4 DEF RingTypes, Request, IdleLoop
<1>9. ASSUME NEW s \in Slots
      PROVE  CountIn(freeSlots', s) = 1 /\ CountIn(Keys(sq'), s) = 0
             /\ Cardinality(InFlight(s)') = 0 /\ CountIn(Keys(cq'), s) = 0
  <2>2. CountIn(freeSlots', s) = 1
    BY <1>4
  <2>3. Keys(sq') = <<>> /\ Keys(cq') = <<>>
    BY <1>5, EmptyKeys
  <2>4. InFlight(s)' = {}
    BY <1>5 DEF InFlight
  <2> QED
    BY <2>2, <2>3, <2>4, CountEmpty, FS_EmptySet
<1>10. Accounted'
  <2>1. \A s \in Slots : Named(s)' = 1
    <3> TAKE s \in Slots
    <3>1. CountIn(freeSlots', s) = 1 /\ CountIn(Keys(sq'), s) = 0
             /\ Cardinality(InFlight(s)') = 0 /\ CountIn(Keys(cq'), s) = 0
      BY <1>9
    <3> HIDE DEF CountIn
    <3> QED
      BY <3>1 DEF Named
  <2>2. loop'.inflight = RingDepth - Len(freeSlots') /\ loop'.done + loop'.inflight = loop'.next
    BY <1>3, <1>4, <1>6
  <2>3. \A s \in Slots : CountIn(freeSlots', s) = 1
    BY <1>9
  <2> QED
    BY <2>1, <2>2, <2>3 DEF Accounted
<1>11. TasksSound'
  <2>1. Total' \in Nat /\ loop'.next = 0
    BY <1>1, <1>2, <1>6, SmallIsPlanned, PlanKept DEF planVars
  <2>2. \A s \in Slots : Free(s)' # 0
    <3> TAKE s \in Slots
    <3>1. Free(s)' = CountIn(freeSlots', s)
      BY Zenon DEF Free, CountIn, Naming
    <3> QED
      BY <1>9, <3>1
  <2>3. DOMAIN sq' = {} /\ kernel' = {} /\ DOMAIN cq' = {}
    BY <1>5, EmptyKeys
  <2> QED
    BY <2>1, <2>2, <2>3 DEF TasksSound
<1>12. RingAtRest'
  BY <1>1, <1>2 DEF RingAtRest
<1> QED
  BY <1>1, <1>7, <1>8, <1>10, <1>11, <1>12, RingStep

LEMMA WhereNamedNext ==
  ASSUME NEW s
  PROVE  (RingTypes => CountIn(Keys(sq), s) \in Nat /\ Cardinality(InFlight(s)) \in Nat)'
<1>1. RingTypes => CountIn(Keys(sq), s) \in Nat /\ Cardinality(InFlight(s)) \in Nat
  BY WhereNamed
<1> QED
  BY <1>1, PTL

\* A slot named in one place is named in no other.
LEMMA NamedInOnePlace ==
  ASSUME RingTypes, NEW s, Named(s) = 1
  PROVE  /\ CountIn(freeSlots, s) # 0 => CountIn(freeSlots, s) = 1 /\ CountIn(Keys(sq), s) = 0
              /\ Cardinality(InFlight(s)) = 0 /\ CountIn(Keys(cq), s) = 0
         /\ CountIn(Keys(sq), s) # 0 => CountIn(Keys(sq), s) = 1 /\ CountIn(freeSlots, s) = 0
              /\ Cardinality(InFlight(s)) = 0 /\ CountIn(Keys(cq), s) = 0
         /\ Cardinality(InFlight(s)) # 0 => Cardinality(InFlight(s)) = 1
              /\ CountIn(freeSlots, s) = 0 /\ CountIn(Keys(sq), s) = 0 /\ CountIn(Keys(cq), s) = 0
         /\ CountIn(Keys(cq), s) # 0 => CountIn(Keys(cq), s) = 1 /\ CountIn(freeSlots, s) = 0
              /\ Cardinality(InFlight(s)) = 0 /\ CountIn(Keys(sq), s) = 0
<1> PICK a, b, c, d : /\ a = CountIn(freeSlots, s) /\ b = CountIn(Keys(sq), s)
                      /\ c = Cardinality(InFlight(s)) /\ d = CountIn(Keys(cq), s)
  OBVIOUS
<1>1. a \in Nat /\ b \in Nat /\ c \in Nat /\ d \in Nat
  BY WhereNamed
<1>2. a + b + c + d = 1
  BY DEF Named
<1>3. /\ a # 0 => a = 1 /\ b = 0 /\ c = 0 /\ d = 0
      /\ b # 0 => b = 1 /\ a = 0 /\ c = 0 /\ d = 0
      /\ c # 0 => c = 1 /\ a = 0 /\ b = 0 /\ d = 0
      /\ d # 0 => d = 1 /\ a = 0 /\ c = 0 /\ b = 0
  BY ONLY <1>1, <1>2
<1> QED
  BY <1>3, Zenon

\* The queue has room for a slot that is not in it.
LEMMA QueueHasRoom ==
  ASSUME RingTypes, Accounted, NEW s \in Slots, CountIn(Keys(sq), s) = 0
  PROVE  ~QueueFull
<1>1. sq \in Seq(Request) /\ \A x \in Request : x.slot \in Slots
  BY DEF RingTypes, Request
<1>2. Keys(sq) \in Seq(Slots) /\ Len(Keys(sq)) = Len(sq)
  BY <1>1, KeysAreSlots
<1>3. \A t \in Slots : CountIn(Keys(sq), t) <= 1
  <2> TAKE t \in Slots
  <2>1. CountIn(Keys(sq), t) \in Nat /\ (CountIn(Keys(sq), t) # 0 => CountIn(Keys(sq), t) = 1)
    BY WhereNamed, NamedInOnePlace DEF Accounted
  <2> QED
    BY <2>1
<1>4. Len(Keys(sq)) < RingDepth
  BY <1>2, <1>3, NamedOnce
<1> QED
  BY <1>2, <1>4 DEF QueueFull

LEMMA AnswersKept ==
  ASSUME ranges' = ranges, NEW e, slots'[e.slot].task = slots[e.slot].task,
         slots'[e.slot].filled = slots[e.slot].filled
  PROVE  Answers(e)' <=> Answers(e)
<1>1. \A task : TaskRange(task)' = TaskRange(task)
  BY TaskKept
<1>2. Entry(e.slot, slots[e.slot].task, slots[e.slot].filled)'
        = Entry(e.slot, slots[e.slot].task, slots[e.slot].filled)
  BY <1>1 DEF Entry, TaskColumn
<1> QED
  BY <1>2 DEF Answers

LEMMA TaskRangeKept ==
  ASSUME ranges' = ranges, NEW k
  PROVE  /\ \A t : slots'[t].task = k => TaskRange(slots[t].task)' = TaskRange(k)
         /\ \A i : slots'[cq'[i].slot].task = k
               => TaskRange(slots[cq[i].slot].task)' = TaskRange(k)
BY PlanKept DEF TaskRange

LoopType == [next : Nat, done : Nat, inflight : Nat, unsubmitted : Nat]

LEMMA FillSlotPreserves ==
  ASSUME GatherInv, FillSlot
  PROVE  GatherInv'
<1> PICK s : s = freeSlots[Len(freeSlots)]
  OBVIOUS
<1> PICK n : n = loop.next
  OBVIOUS
<1>1. /\ phase = "fill" /\ phase' = phase /\ TopUp
      /\ SubmitTask(s, n, 0)
      /\ freeSlots' = SubSeq(freeSlots, 1, Len(freeSlots) - 1)
      /\ loop' = [loop EXCEPT !.next = @ + 1, !.inflight = @ + 1,
                              !.unsubmitted = Announced(0, Pending)]
      /\ UNCHANGED <<configVars, ring, planVars, scan, direct, cq, stats>>
  BY DEF FillSlot
<1>2. /\ GatherTypeOK /\ PlanSound /\ RingTypes /\ Accounted /\ TasksSound
      /\ RingDepth \in Nat \ {0} /\ SlotRows \in Nat \ {0} /\ Total \in Nat
      /\ \A t \in Slots : slots[t].task \in Nat /\ slots[t].filled \in 0 .. SlotRows
  BY <1>1, RingInUse DEF Ringing
<1>3. /\ freeSlots \in Seq(Slots) /\ freeSlots # <<>> /\ n < Total /\ n \in Nat /\ s \in Slots
      /\ loop \in [next : Nat, done : Nat, inflight : Nat, unsubmitted : Nat]
      /\ sq \in Seq(Request) /\ kernel \subseteq Request
  BY <1>1, <1>2 DEF TopUp, RingTypes
<1>4. /\ freeSlots' \in Seq(Slots) /\ Len(freeSlots') = Len(freeSlots) - 1
      /\ \A t : CountIn(freeSlots', t) = CountIn(freeSlots, t) - (IF s = t THEN 1 ELSE 0)
  BY <1>1, <1>3, CountLast
<1>5. CountIn(freeSlots, s) # 0
  <2>1. Len(freeSlots) \in DOMAIN freeSlots
    BY <1>3
  <2> QED
    BY <1>2, <2>1, WhereNamed
<1>6. /\ CountIn(freeSlots, s) = 1 /\ CountIn(Keys(sq), s) = 0
      /\ Cardinality(InFlight(s)) = 0 /\ CountIn(Keys(cq), s) = 0
  BY <1>2, <1>3, <1>5, NamedInOnePlace DEF Accounted
<1> PICK e : e = Entry(s, n, 0)
  OBVIOUS
<1>7. e \in Request /\ e.slot = s /\ 0 < TaskRange(n).len
  <2>1. TaskRange(n) \in PageRange
    BY <1>2, <1>3, TaskInPlan
  <2>2. 0 < TaskRange(n).len
    BY <2>1 DEF PageRange
  <2> QED
    BY <1>2, <1>3, <2>2, EntryIsARequest
<1>8. /\ sq' = Append(sq, e) /\ kernel' = kernel /\ cq' = cq
      /\ slots' = [slots EXCEPT ![s].task = n, ![s].filled = 0]
      /\ ranges' = ranges
  <2>1. ~QueueFull
    BY <1>2, <1>3, <1>6, QueueHasRoom
  <2> QED
    BY <1>1, <2>1 DEF SubmitTask, planVars
<1>9. /\ slots' \in [Slots -> SlotType]
      /\ slots'[s].task = n /\ slots'[s].filled = 0
      /\ \A t \in Slots \ {s} : slots'[t] = slots[t]
  <2>1. slots \in [Slots -> SlotType]
    BY <1>2 DEF GatherTypeOK, SlotType
  <2>2. slots' = [slots EXCEPT ![s] = [slots[s] EXCEPT !.task = n, !.filled = 0]]
    BY <1>8
  <2>3. [slots[s] EXCEPT !.task = n, !.filled = 0] \in SlotType
    <3>1. n \in Nat /\ 0 \in 0 .. SlotRows /\ slots[s] \in SlotType
      BY <1>2, <1>3, <2>1
    <3> QED
      BY <3>1, SlotAssigned
  <2>4. /\ [slots[s] EXCEPT !.task = n, !.filled = 0].task = n
        /\ [slots[s] EXCEPT !.task = n, !.filled = 0].filled = 0
    <3>1. slots[s] \in SlotType
      BY <1>3, <2>1
    <3> QED
      BY <3>1 DEF SlotType
  <2> HIDE DEF SlotType
  <2> QED
    BY <1>3, <2>1, <2>2, <2>3, <2>4
<1>10. sq' \in Seq(Request) /\ \A t : CountIn(Keys(sq'), t)
                                = CountIn(Keys(sq), t) + (IF s = t THEN 1 ELSE 0)
  <2>1. \A x \in Request : x.slot \in Slots
    BY DEF Request
  <2>2. sq' \in Seq(Request) /\ Keys(sq) \in Seq(Slots) /\ Keys(sq') = Append(Keys(sq), s)
    BY <1>3, <1>7, <1>8, <2>1, KeysAreSlots
  <2> QED
    BY <1>3, <2>2, CountAppend
<1>11. /\ loop'.next = n + 1 /\ loop'.inflight = loop.inflight + 1 /\ loop'.done = loop.done
       /\ loop' \in [next : Nat, done : Nat, inflight : Nat, unsubmitted : Nat]
  <2>1. Announced(0, Pending) \in Nat
    BY <1>3 DEF Announced, Pending
  <2> PICK u \in Nat : u = Announced(0, Pending)
    BY <2>1
  <2>2. loop' = [loop EXCEPT !.next = n + 1, !.inflight = loop.inflight + 1, !.unsubmitted = u]
    BY <1>1
  <2>3. loop \in LoopType /\ n + 1 \in Nat /\ loop.inflight + 1 \in Nat
    BY <1>3 DEF LoopType
  <2>4. /\ loop' \in LoopType /\ loop'.next = n + 1 /\ loop'.inflight = loop.inflight + 1
        /\ loop'.done = loop.done
    <3> PICK l, m, i, k : l = loop /\ m = loop' /\ i = l.inflight + 1 /\ k = n + 1
      OBVIOUS
    <3>2. /\ l \in LoopType /\ i \in Nat /\ k \in Nat /\ u \in Nat
          /\ m = [l EXCEPT !.next = k, !.inflight = i, !.unsubmitted = u]
      BY <2>2, <2>3
    <3>1. m \in LoopType /\ m.next = k /\ m.inflight = i /\ m.done = l.done
      BY ONLY <3>2 DEF LoopType
    <3> QED
      BY <3>1
  <2> QED
    BY <2>4 DEF LoopType
<1>12. RingTypes'
  BY <1>2, <1>4, <1>8, <1>10, <1>11 DEF RingTypes, Request
<1>13. Accounted'
  <2>1. ASSUME NEW t \in Slots PROVE Named(t)' = 1
    <3>1. /\ CountIn(freeSlots, t) \in Nat /\ CountIn(Keys(sq), t) \in Nat
          /\ Cardinality(InFlight(t)) \in Nat /\ CountIn(Keys(cq), t) \in Nat
          /\ Named(t) = 1
      BY <1>2, WhereNamed DEF Accounted
    <3>2. InFlight(t)' = InFlight(t) /\ CountIn(Keys(cq'), t) = CountIn(Keys(cq), t)
      BY <1>8 DEF InFlight
    <3>3. /\ CountIn(freeSlots', t) = CountIn(freeSlots, t) - (IF s = t THEN 1 ELSE 0)
          /\ CountIn(Keys(sq'), t) = CountIn(Keys(sq), t) + (IF s = t THEN 1 ELSE 0)
      BY <1>4, <1>10
    <3> HIDE DEF CountIn, InFlight
    <3> QED
      BY <3>1, <3>2, <3>3 DEF Named
  <2>2. loop'.inflight = RingDepth - Len(freeSlots')
    BY <1>2, <1>3, <1>4, <1>11 DEF Accounted
  <2>3. loop'.done + loop'.inflight = loop'.next
    BY <1>2, <1>3, <1>11 DEF Accounted
  <2>4. ASSUME NEW t \in Slots \ {s}, CountIn(freeSlots', t) = 0
        PROVE  CountIn(freeSlots, t) = 0 /\ slots'[t].task = slots[t].task /\ slots[t].task < n
    <3>1. CountIn(freeSlots, t) = 0
      BY <1>2, <1>4, <2>4, WhereNamed
    <3>2. Free(t) = 0
      BY <1>2, <3>1, WhereNamed
    <3> QED
      BY <1>2, <1>9, <3>1, <3>2 DEF TasksSound
  <2>5. ASSUME NEW a \in Slots, NEW b \in Slots, CountIn(freeSlots', a) = 0,
               CountIn(freeSlots', b) = 0, slots'[a].task = slots'[b].task
        PROVE  a = b
    <3>1. CASE a = s /\ b # s
      BY <1>2, <1>3, <1>9, <2>4, <2>5, <3>1
    <3>2. CASE a # s /\ b = s
      BY <1>2, <1>3, <1>9, <2>4, <2>5, <3>2
    <3>3. CASE a # s /\ b # s
      BY <1>2, <2>4, <2>5, <3>3 DEF Accounted
    <3> QED
      BY <3>1, <3>2, <3>3
  <2> QED
    BY <2>1, <2>2, <2>3, <2>5 DEF Accounted
<1>14. TasksSound'
  <2>1. Total' = Total /\ \A task : TaskRange(task)' = TaskRange(task)
    BY <1>8, PlanKept, TaskKept
  <2>2. loop'.next <= Total'
    BY <1>2, <1>3, <1>11, <2>1
  <2>3. \A t \in Slots : Free(t)' = CountIn(freeSlots', t)
    BY Zenon DEF Free, CountIn, Naming
  <2>4. ASSUME NEW t \in Slots, Free(t)' = 0
        PROVE  slots'[t].task < loop'.next /\ slots'[t].filled < TaskRange(slots[t].task)'.len
    <3>1. CASE t = s
      <4>1. slots'[t].task = n /\ slots'[t].filled = 0
        BY <1>9, <3>1
      <4>2. TaskRange(slots[t].task)' = TaskRange(n)
        BY <1>8, <4>1, TaskRangeKept
      <4> QED
        BY <1>3, <1>7, <1>11, <4>1, <4>2
    <3>2. CASE t # s
      <4>1. CountIn(freeSlots, t) = 0 /\ slots'[t] = slots[t]
        BY <1>2, <1>4, <1>9, <2>3, <2>4, <3>2, WhereNamed
      <4>2. Free(t) = 0
        BY <1>2, <4>1, WhereNamed
      <4>3. slots[t].task < n /\ slots[t].filled < TaskRange(slots[t].task).len
        BY <1>2, <4>2 DEF TasksSound
      <4>4. TaskRange(slots[t].task)' = TaskRange(slots[t].task)
        BY <1>8, <4>1, TaskRangeKept
      <4> QED
        BY <1>2, <1>3, <1>11, <4>1, <4>3, <4>4
    <3> QED
      BY <3>1, <3>2
  <2>5. ASSUME NEW x, x.slot # s, x.slot \in Slots, Answers(x)
        PROVE  Answers(x)'
    BY <1>8, <1>9, <2>5, AnswersKept
  <2>6. Answers(e)'
    <3>1. Entry(s, n, 0)' = Entry(s, n, 0)
      BY <1>8, TaskKept
    <3> QED
      BY <1>7, <1>9, <3>1 DEF Answers
  <2>7. \A i \in DOMAIN sq' : Answers(sq[i])'
    <3> TAKE i \in DOMAIN sq'
    <3>1. /\ i \in 1 .. Len(sq) + 1 /\ sq'[i] = IF i = Len(sq) + 1 THEN e ELSE sq[i]
          /\ DOMAIN sq = 1 .. Len(sq) /\ Len(sq) \in Nat
      BY <1>3, <1>7, <1>8
    <3> PICK x : x = sq'[i]
      OBVIOUS
    <3>2. x = e \/ (x.slot # s /\ x.slot \in Slots /\ Answers(x))
      <4>1. CASE i = Len(sq) + 1
        BY <3>1, <4>1
      <4>2. CASE i # Len(sq) + 1
        <5>1. i \in DOMAIN sq /\ x = sq[i]
          BY <3>1, <4>2
        <5>2. x \in Request
          BY <1>3, <5>1
        <5>3. x.slot # s
          BY <1>2, <1>6, <5>1, WhereNamed
        <5> QED
          BY <1>2, <5>1, <5>2, <5>3 DEF TasksSound, Request
      <4> QED
        BY <4>1, <4>2
    <3>3. Answers(x)'
      BY <2>5, <2>6, <3>2
    <3> QED
      BY <3>3
  <2>8. \A x \in kernel' : Answers(x)'
    <3> TAKE x \in kernel'
    <3>1. x \in kernel /\ x \in Request /\ x.slot \in Slots /\ Answers(x)
      BY <1>2, <1>3, <1>8 DEF TasksSound, Request
    <3>2. x.slot # s
      BY <1>2, <1>6, <3>1, WhereNamed
    <3> QED
      BY <2>5, <3>1, <3>2
  <2>9. \A i \in DOMAIN cq' :
          slots'[cq'[i].slot].filled + cq'[i].res <= TaskRange(slots[cq[i].slot].task)'.len
    <3> TAKE i \in DOMAIN cq'
    <3> PICK t, k : t = cq[i].slot /\ k = slots[t].task
      OBVIOUS
    <3>1. i \in DOMAIN cq /\ cq'[i] = cq[i] /\ t \in Slots
      <4>1. cq' = cq /\ cq \in Seq(Completion)
        BY <1>2, <1>8 DEF RingTypes, Completion
      <4>2. i \in DOMAIN cq /\ cq'[i] = cq[i]
        BY <4>1
      <4>3. cq[i] \in Completion
        BY <4>1, <4>2
      <4> QED
        BY <4>2, <4>3 DEF Completion
    <3>2. t # s
      BY <1>2, <1>6, <3>1, WhereNamed
    <3>3. slots[t].filled + cq[i].res <= TaskRange(k).len
      BY <1>2, <3>1 DEF TasksSound
    <3>4. slots'[t] = slots[t]
      BY <1>9, <3>1, <3>2
    <3>5. slots'[cq'[i].slot].task = k
      BY <3>1, <3>4
    <3>6. TaskRange(slots[cq[i].slot].task)' = TaskRange(k)
      BY <1>8, <3>5, TaskRangeKept
    <3> QED
      BY <3>1, <3>3, <3>4, <3>6
  <2> QED
    BY <2>2, <2>4, <2>7, <2>8, <2>9 DEF TasksSound
<1> QED
  BY <1>1, <1>9, <1>12, <1>13, <1>14, RingStep

\* A step that moves reads but assigns no slot a task keeps what is known of tasks.
LEMMA TasksKept ==
  ASSUME GatherInv, Ringing, slots' = slots, freeSlots' = freeSlots, ranges' = ranges,
         loop'.next = loop.next, RingTypes',
         \A i \in DOMAIN sq' : Answers(sq'[i]), \A e \in kernel' : Answers(e),
         \A i \in DOMAIN cq' : slots[cq'[i].slot].filled + cq'[i].res
                                 <= TaskRange(slots[cq'[i].slot].task).len
  PROVE  TasksSound'
<1>1. RingTypes /\ TasksSound
  BY RingInUse
<1>2. Total' = Total /\ \A task : TaskRange(task)' = TaskRange(task)
  BY PlanKept, TaskKept
<1>3. \A s : Free(s)' = Free(s)
  BY DEF Free
<1>4. \A e : Answers(e) => Answers(e)'
  BY AnswersKept
<1>5. loop'.next <= Total'
  BY <1>1, <1>2 DEF TasksSound
<1>6. \A s \in Slots : Free(s)' = 0 =>
        slots'[s].task < loop'.next /\ slots'[s].filled < TaskRange(slots[s].task)'.len
  <2> TAKE s \in Slots
  <2> PICK k : k = slots[s].task
    OBVIOUS
  <2>1. TaskRange(slots[s].task)' = TaskRange(k)
    BY TaskRangeKept
  <2> QED
    BY <1>1, <1>3, <2>1 DEF TasksSound
<1>7. \A i \in DOMAIN sq' : Answers(sq[i])'
  <2> TAKE i \in DOMAIN sq'
  <2> PICK x : x = sq'[i]
    OBVIOUS
  <2>1. Answers(x)'
    BY <1>4
  <2> QED
    BY <2>1
<1>8. \A e \in kernel' : Answers(e)'
  BY <1>4
<1>9. \A i \in DOMAIN cq' :
        slots'[cq'[i].slot].filled + cq'[i].res <= TaskRange(slots[cq[i].slot].task)'.len
  <2> TAKE i \in DOMAIN cq'
  <2> PICK k : k = slots[cq'[i].slot].task
    OBVIOUS
  <2>1. TaskRange(slots[cq[i].slot].task)' = TaskRange(k)
    BY TaskRangeKept
  <2> QED
    BY <2>1
<1> QED
  BY <1>5, <1>6, <1>7, <1>8, <1>9 DEF TasksSound

\* What is queued, as the kernel gets it.
Queued == {sq[i] : i \in DOMAIN sq}

LEMMA QueuedIsFinite ==
  ASSUME RingTypes
  PROVE  Queued \subseteq Request /\ IsFiniteSet(Queued)
<1>1. sq \in Seq(Request) /\ DOMAIN sq = 1 .. Len(sq) /\ Len(sq) \in Nat
  BY DEF RingTypes
<1> DEFINE image == {sq[i] : i \in 1 .. Len(sq)}
<1>2. Queued = image /\ Queued \subseteq Request
  BY <1>1 DEF Queued
<1>3. IsFiniteSet(1 .. Len(sq)) /\ sq \in [1 .. Len(sq) -> Request]
  BY <1>1, IntervalSize
<1>4. sq \in Surjection(1 .. Len(sq), image)
  BY <1>1 DEF Surjection
<1>5. IsFiniteSet(image)
  <2> HIDE DEF image
  <2> QED
    BY <1>3, <1>4, FS_Surjection
<1> QED
  BY <1>2, <1>5

\* A slot with a read in the queue has none in flight; handed over, that one is.
LEMMA HandedOver ==
  ASSUME RingTypes, TasksSound, NEW s \in Slots, Named(s) = 1
  PROVE  Cardinality({e \in kernel \union Queued : e.slot = s})
           = CountIn(Keys(sq), s) + Cardinality(InFlight(s))
<1> DEFINE after == {e \in kernel \union Queued : e.slot = s}
<1>1. CountIn(Keys(sq), s) \in Nat /\ IsFiniteSet(InFlight(s)) /\ Cardinality(InFlight(s)) \in Nat
  BY WhereNamed
<1>2. CASE CountIn(Keys(sq), s) = 0
  <2>1. \A i \in DOMAIN sq : sq[i].slot # s
    BY <1>2, WhereNamed
  <2>2. after = InFlight(s)
    BY <2>1 DEF Queued, InFlight
  <2> PICK a, b, c : a = Cardinality(after) /\ b = CountIn(Keys(sq), s) /\ c = Cardinality(InFlight(s))
    OBVIOUS
  <2>3. a = c /\ b = 0 /\ c \in Nat
    BY <1>1, <1>2, <2>2, Zenon
  <2>4. a = b + c
    BY ONLY <2>3
  <2> HIDE DEF after
  <2> QED
    BY <2>4, Zenon DEF after
<1>3. CASE CountIn(Keys(sq), s) # 0
  <2>1. CountIn(Keys(sq), s) = 1 /\ Cardinality(InFlight(s)) = 0
    BY <1>3, NamedInOnePlace
  <2>2. \A e \in kernel : e.slot # s
    BY <2>1, WhereNamed
  <2>3. PICK i \in DOMAIN sq : sq[i].slot = s
    BY <1>3, WhereNamed
  <2>4. \A j \in DOMAIN sq : sq[j].slot = s => sq[j] = sq[i]
    BY <2>3 DEF TasksSound, Answers
  <2>5. after = {sq[i]}
    BY <2>2, <2>3, <2>4 DEF Queued
  <2>6. Cardinality(after) = 1
    BY <2>5, FS_Singleton
  <2> QED
    BY <2>1, <2>6
<1> QED
  BY <1>2, <1>3

LEMMA SubmitQueuePreserves ==
  ASSUME GatherInv, SubmitQueue
  PROVE  GatherInv'
<1>1. /\ phase = "fill" /\ phase' = "wait"
      /\ \/ kernel' = kernel \union Queued /\ sq' = <<>>
         \/ sq' = sq /\ kernel' = kernel
      /\ loop' = [loop EXCEPT !.unsubmitted = 0]
      /\ freeSlots' = freeSlots /\ slots' = slots /\ cq' = cq /\ ranges' = ranges
      /\ UNCHANGED <<configVars, ring, planVars, scan, direct, stats>>
  BY DEF SubmitQueue, Queued, planVars
<1>2. /\ GatherTypeOK /\ RingTypes /\ Accounted /\ TasksSound
  BY <1>1, RingInUse DEF Ringing
<1>3. slots' \in [Slots -> SlotType]
  BY <1>1, <1>2 DEF GatherTypeOK, SlotType
<1>4. /\ loop' \in [next : Nat, done : Nat, inflight : Nat, unsubmitted : Nat]
      /\ loop'.next = loop.next /\ loop'.done = loop.done /\ loop'.inflight = loop.inflight
  BY <1>1, <1>2 DEF RingTypes
<1>5. RingTypes'
  <2>1. IsFiniteSet(kernel') /\ kernel' \subseteq Request
    <3>1. IsFiniteSet(kernel) /\ kernel \subseteq Request
      BY <1>2 DEF RingTypes
    <3>2. IsFiniteSet(kernel \union Queued) /\ kernel \union Queued \subseteq Request
      BY <1>2, <3>1, QueuedIsFinite, FS_Union
    <3> QED
      BY <1>1, <3>1, <3>2
  <2>2. sq' \in Seq(Request)
    BY <1>1, <1>2, EmptySeq DEF RingTypes
  <2> QED
    BY <1>1, <1>2, <1>4, <2>1, <2>2 DEF RingTypes, Request
<1>6. \A s \in Slots : Named(s)' = 1
  <2> TAKE s \in Slots
  <2>1. /\ CountIn(freeSlots, s) \in Nat /\ CountIn(Keys(sq), s) \in Nat
        /\ Cardinality(InFlight(s)) \in Nat /\ CountIn(Keys(cq), s) \in Nat
        /\ Named(s) = 1
    BY <1>2, WhereNamed DEF Accounted
  <2>2. CountIn(freeSlots', s) = CountIn(freeSlots, s) /\ CountIn(Keys(cq'), s) = CountIn(Keys(cq), s)
    BY <1>1
  <2>3. CountIn(Keys(sq'), s) + Cardinality(InFlight(s)')
          = CountIn(Keys(sq), s) + Cardinality(InFlight(s))
    <3>1. CASE kernel' = kernel \union Queued /\ sq' = <<>>
      <4>1. InFlight(s)' = {e \in kernel \union Queued : e.slot = s}
        BY <3>1 DEF InFlight
      <4>2. CountIn(Keys(sq'), s) = 0
        BY <3>1, EmptyKeys, CountEmpty
      <4>3. Cardinality(InFlight(s)') = CountIn(Keys(sq), s) + Cardinality(InFlight(s))
        BY <1>2, <2>1, <4>1, HandedOver
      <4> QED
        BY <2>1, <4>2, <4>3
    <3>2. CASE sq' = sq /\ kernel' = kernel
      BY <3>2 DEF InFlight
    <3> QED
      BY <1>1, <3>1, <3>2
  <2>4. CountIn(Keys(sq'), s) \in Nat /\ Cardinality(InFlight(s)') \in Nat
    <3>1. (RingTypes => CountIn(Keys(sq), s) \in Nat /\ Cardinality(InFlight(s)) \in Nat)'
      BY WhereNamedNext
    <3> QED
      BY <1>5, <3>1
  <2> HIDE DEF CountIn, InFlight
  <2> QED
    BY <2>1, <2>2, <2>3, <2>4 DEF Named
<1>7. Accounted'
  BY <1>1, <1>2, <1>4, <1>6 DEF Accounted
<1>8. TasksSound'
  <2>1. \A i \in DOMAIN sq' : Answers(sq'[i])
    BY <1>1, <1>2, EmptyKeys DEF TasksSound
  <2>2. \A e \in kernel' : Answers(e)
    BY <1>1, <1>2 DEF TasksSound, Queued
  <2>3. \A i \in DOMAIN cq' : slots[cq'[i].slot].filled + cq'[i].res
                                 <= TaskRange(slots[cq'[i].slot].task).len
    BY <1>1, <1>2 DEF TasksSound
  <2> QED
    BY <1>1, <1>4, <1>5, <2>1, <2>2, <2>3, TasksKept DEF Ringing
<1> QED
  BY <1>1, <1>3, <1>5, <1>7, <1>8, RingStep

\* The bytes of a read land in the room kept for it.
LEMMA SlotFilled ==
  ASSUME NEW x \in SlotType, NEW e \in Request, NEW got \in 0 .. e.len
  PROVE  [x EXCEPT !.bytes = [b \in DOMAIN x.bytes |->
            IF b \in e.at .. e.at + got - 1 THEN <<e.column, e.off + (b - e.at)>>
                                            ELSE x.bytes[b]]] \in SlotType
<1> DEFINE D == 0 .. SlotRows - 1
           V == Value \union {None}
           y == [b \in DOMAIN x.bytes |->
                   IF b \in e.at .. e.at + got - 1 THEN <<e.column, e.off + (b - e.at)>>
                                                   ELSE x.bytes[b]]
           R == 0 .. SlotRows
<1>1. x.bytes \in [D -> V] /\ DOMAIN x.bytes = D
  BY DEF SlotType
<1>2. /\ e.column \in Columns /\ e.at \in Nat /\ e.off \in Nat /\ e.len \in Nat /\ got \in Nat
      /\ got <= e.len /\ e.off + e.len <= RowCount /\ RowCount \in Nat
  BY RowsAreNat DEF Request
<1>3. \A b \in e.at .. e.at + got - 1 : <<e.column, e.off + (b - e.at)>> \in Value
  <2> TAKE b \in e.at .. e.at + got - 1
  <2>1. e.off + (b - e.at) \in 0 .. RowCount - 1
    BY <1>2
  <2> QED
    BY <1>2, <2>1 DEF Value, Rows
<1>4. y \in [D -> V]
  <2> HIDE DEF D
  <2> QED
    BY <1>1, <1>3
<1>5. x \in [task : Nat, filled : R, bytes : [D -> V]]
  BY DEF SlotType
<1> HIDE DEF D, V, R, y
<1>6. [x EXCEPT !.bytes = y] \in [task : Nat, filled : R, bytes : [D -> V]]
  BY ONLY <1>4, <1>5
<1> QED
  BY <1>6 DEF SlotType, D, V, R, y

\* The kernel's answers, of whatever length, come from reads it was given.
LEMMA CompletedPreserves ==
  ASSUME GatherInv, NEW e \in kernel, NEW got \in 0 .. e.len, Completed(e, got)
  PROVE  GatherInv'
<1>1. /\ phase' = phase /\ kernel' = kernel \ {e}
      /\ cq' = Append(cq, [slot |-> e.slot, res |-> got])
      /\ slots' = [slots EXCEPT ![e.slot].bytes = [b \in DOMAIN @ |->
                     IF b \in e.at .. e.at + got - 1
                     THEN <<e.column, e.off + (b - e.at)>> ELSE @[b]]]
      /\ freeSlots' = freeSlots /\ loop' = loop /\ sq' = sq /\ ranges' = ranges
      /\ UNCHANGED <<configVars, ring, planVars, scan, direct, stats>>
  BY DEF Completed, planVars
<1>2. GatherTypeOK /\ RingTypes /\ PlanSound
  BY DEF GatherInv
<1>3. Ringing \/ phase = "thrown"
  <2>1. kernel # {}
    OBVIOUS
  <2> QED
    BY <2>1 DEF GatherInv, RingAtRest
<1>4. /\ e \in Request /\ e.slot \in Slots /\ got \in Nat /\ got <= e.len /\ e.len \in Nat
  BY <1>2 DEF RingTypes, Request
<1>5. /\ slots' \in [Slots -> SlotType]
      /\ \A s \in Slots : slots'[s].task = slots[s].task /\ slots'[s].filled = slots[s].filled
  <2> PICK x : x = slots[e.slot]
    OBVIOUS
  <2>1. slots \in [Slots -> SlotType] /\ x \in SlotType
    BY <1>2, <1>4 DEF GatherTypeOK, SlotType
  <2> DEFINE y == [b \in DOMAIN x.bytes |->
                     IF b \in e.at .. e.at + got - 1
                     THEN <<e.column, e.off + (b - e.at)>> ELSE x.bytes[b]]
             z == [x EXCEPT !.bytes = y]
  <2>2. slots' = [slots EXCEPT ![e.slot] = z]
    BY <1>1
  <2>3. z \in SlotType
    BY <1>4, <2>1, SlotFilled
  <2>4. z.task = x.task /\ z.filled = x.filled
    BY <2>1 DEF SlotType
  <2> HIDE DEF z, SlotType
  <2> QED
    BY <1>4, <2>1, <2>2, <2>3, <2>4
<1>6. /\ cq' \in Seq(Completion)
      /\ \A s \in Slots : CountIn(Keys(cq'), s) = CountIn(Keys(cq), s) + (IF e.slot = s THEN 1 ELSE 0)
  <2>1. cq \in Seq(Completion) /\ \A x \in Completion : x.slot \in Slots
    BY <1>2 DEF RingTypes, Completion
  <2> PICK d : d = [slot |-> e.slot, res |-> got]
    OBVIOUS
  <2>2. d \in Completion /\ d.slot = e.slot
    BY <1>4 DEF Completion
  <2>3. cq' = Append(cq, d)
    BY <1>1
  <2>4. Keys(cq) \in Seq(Slots) /\ Keys(cq') = Append(Keys(cq), e.slot) /\ cq' \in Seq(Completion)
    BY <2>1, <2>2, <2>3, KeysAreSlots
  <2> QED
    BY <1>4, <2>4, CountAppend
<1>7. IsFiniteSet(kernel') /\ kernel' \subseteq Request
  BY <1>1, <1>2, FS_RemoveElement DEF RingTypes
<1>8. RingTypes'
  BY <1>1, <1>2, <1>6, <1>7 DEF RingTypes, Request, Completion
<1>9. ASSUME Ringing PROVE Accounted' /\ TasksSound'
  <2>1. Accounted /\ TasksSound
    BY <1>9, RingInUse
  <2>2. \A s \in Slots : Named(s)' = 1
    <3> TAKE s \in Slots
    <3>1. /\ CountIn(freeSlots, s) \in Nat /\ CountIn(Keys(sq), s) \in Nat
          /\ Cardinality(InFlight(s)) \in Nat /\ CountIn(Keys(cq), s) \in Nat
          /\ IsFiniteSet(InFlight(s)) /\ Named(s) = 1
      BY <1>2, <2>1, WhereNamed DEF Accounted
    <3>2. CountIn(freeSlots', s) = CountIn(freeSlots, s) /\ CountIn(Keys(sq'), s) = CountIn(Keys(sq), s)
      BY <1>1
    <3>3. Cardinality(InFlight(s)') = Cardinality(InFlight(s)) - (IF e.slot = s THEN 1 ELSE 0)
      <4>1. InFlight(s)' = InFlight(s) \ {e} /\ (e \in InFlight(s) <=> e.slot = s)
        BY <1>1 DEF InFlight
      <4> PICK before : before = InFlight(s)
        OBVIOUS
      <4>2. Cardinality(before \ {e})
              = IF e \in before THEN Cardinality(before) - 1 ELSE Cardinality(before)
        BY <3>1, FS_RemoveElement
      <4> QED
        BY <3>1, <4>1, <4>2
    <3>4. CountIn(Keys(cq'), s) = CountIn(Keys(cq), s) + (IF e.slot = s THEN 1 ELSE 0)
      BY <1>6
    <3> HIDE DEF CountIn, InFlight
    <3> QED
      BY <3>1, <3>2, <3>3, <3>4 DEF Named
  <2>3. Accounted'
    <3>1. /\ loop'.inflight = RingDepth - Len(freeSlots')
          /\ loop'.done + loop'.inflight = loop'.next
      BY <1>1, <2>1 DEF Accounted
    <3>2. \A s, t \in Slots : /\ CountIn(freeSlots', s) = 0 /\ CountIn(freeSlots', t) = 0
                              /\ slots'[s].task = slots'[t].task
                              => s = t
      BY <1>1, <1>5, <2>1 DEF Accounted
    <3> QED
      BY <2>2, <3>1, <3>2 DEF Accounted
  <2>4. \A x : x.slot \in Slots /\ Answers(x) => Answers(x)'
    BY <1>1, <1>5, AnswersKept
  <2>5. Total' = Total /\ \A s : Free(s)' = Free(s)
    BY <1>1, PlanKept DEF Free
  <2>6. \A s \in Slots : Free(s)' = 0 =>
          slots'[s].task < loop'.next /\ slots'[s].filled < TaskRange(slots[s].task)'.len
    <3> TAKE s \in Slots
    <3> PICK k : k = slots[s].task
      OBVIOUS
    <3>1. TaskRange(slots[s].task)' = TaskRange(k)
      BY <1>1, <1>5, TaskRangeKept
    <3> QED
      BY <1>1, <1>5, <2>1, <2>5, <3>1 DEF TasksSound
  <2>7. \A i \in DOMAIN sq' : Answers(sq[i])'
    <3> TAKE i \in DOMAIN sq'
    <3> PICK x : x = sq'[i]
      OBVIOUS
    <3>1. x \in Request /\ Answers(x)
      BY <1>1, <1>2, <2>1 DEF TasksSound, RingTypes
    <3>2. Answers(x)'
      BY <2>4, <3>1 DEF Request
    <3> QED
      BY <3>2
  <2>8. \A x \in kernel' : Answers(x)'
    <3> TAKE x \in kernel'
    <3>1. x \in Request /\ Answers(x)
      BY <1>1, <1>2, <2>1 DEF TasksSound, RingTypes
    <3> QED
      BY <2>4, <3>1 DEF Request
  <2>9. \A i \in DOMAIN cq' :
          slots'[cq'[i].slot].filled + cq'[i].res <= TaskRange(slots[cq[i].slot].task)'.len
    <3> TAKE i \in DOMAIN cq'
    <3> PICK s, d, k : s = cq'[i].slot /\ d = cq'[i].res /\ k = slots[s].task
      OBVIOUS
    <3>1. s \in Slots /\ slots[s].filled + d <= TaskRange(k).len
      <4>1. /\ cq \in Seq(Completion) /\ DOMAIN cq = 1 .. Len(cq) /\ Len(cq) \in Nat
            /\ [slot |-> e.slot, res |-> got] \in Completion
        BY <1>2, <1>4 DEF RingTypes, Completion
      <4>2. i \in 1 .. Len(cq) + 1
            /\ cq'[i] = IF i = Len(cq) + 1 THEN [slot |-> e.slot, res |-> got] ELSE cq[i]
        BY <1>1, <4>1
      <4>3. CASE i = Len(cq) + 1
        <5>1. s = e.slot /\ d = got
          BY <4>2, <4>3
        <5>2. Answers(e)
          BY <2>1 DEF TasksSound
        <5>3. e.len = TaskRange(k).len - slots[s].filled
          BY <5>1, <5>2 DEF Answers, Entry
        <5>4. slots[s].filled \in Nat /\ k \in Nat /\ k < Total
          <6>1. Cardinality(InFlight(s)) # 0
            BY <1>2, <5>1, WhereNamed
          <6>2. CountIn(freeSlots, s) = 0
            BY <1>2, <1>4, <2>1, <5>1, <6>1, NamedInOnePlace DEF Accounted
          <6>3. Free(s) = 0
            BY <1>2, <6>2, WhereNamed
          <6>4. k < loop.next /\ loop.next <= Total /\ loop.next \in Nat /\ Total \in Nat
            BY <1>2, <1>4, <1>9, <2>1, <5>1, <6>3, RingInUse DEF TasksSound, RingTypes
          <6> QED
            BY <1>4, <1>9, <5>1, <6>4, RingInUse
        <5>5. TaskRange(k).len \in Nat
          <6>1. TaskRange(k) \in PageRange
            BY <1>2, <5>4, TaskInPlan
          <6> QED
            BY <6>1 DEF PageRange
        <5> PICK f, l, m : f = slots[s].filled /\ l = TaskRange(k).len /\ m = e.len
          OBVIOUS
        <5>6. f \in Nat /\ l \in Nat /\ d \in Nat /\ d <= m /\ m = l - f
          BY <1>4, <5>1, <5>3, <5>4, <5>5
        <5>7. f + d <= l
          BY ONLY <5>6
        <5> QED
          BY <1>4, <5>1, <5>7, Zenon
      <4>4. CASE i # Len(cq) + 1
        <5>1. i \in DOMAIN cq /\ cq'[i] = cq[i] /\ cq[i] \in Completion
          BY <4>1, <4>2, <4>4
        <5> QED
          BY <2>1, <5>1 DEF TasksSound, Completion
      <4> QED
        BY <4>3, <4>4
    <3>2. slots'[cq'[i].slot].task = k /\ slots'[cq'[i].slot].filled = slots[s].filled
      BY <1>5, <3>1
    <3>3. TaskRange(slots[cq[i].slot].task)' = TaskRange(k)
      BY <1>1, <3>2, TaskRangeKept
    <3> QED
      BY <3>1, <3>2, <3>3
  <2>10. loop'.next <= Total'
    BY <1>1, <2>1, <2>5 DEF TasksSound
  <2> QED
    BY <2>3, <2>6, <2>7, <2>8, <2>9, <2>10 DEF TasksSound
<1> QED
  BY <1>1, <1>3, <1>5, <1>8, <1>9, RingStep DEF Ringing

\* What is known of the completion that is handled next.
LEMMA FirstCompletion ==
  ASSUME GatherInv, Ringing, cq # <<>>,
         NEW s, NEW k, NEW f, NEW r, NEW l, s = Head(cq).slot, k = slots[s].task,
         f = slots[s].filled, r = Head(cq).res, l = TaskRange(k).len
  PROVE  /\ s \in Slots /\ k \in Nat /\ k < loop.next /\ k < Total
         /\ f \in Nat /\ f < l /\ r \in Nat /\ l \in Nat /\ l <= SlotRows /\ f + r <= l
         /\ CountIn(freeSlots, s) = 0 /\ CountIn(Keys(sq), s) = 0
         /\ \A i \in DOMAIN sq : sq[i].slot # s
         /\ \A e \in kernel : e.slot # s
         /\ Tail(cq) \in Seq(Completion)
         /\ \A t : CountIn(Keys(Tail(cq)), t) = CountIn(Keys(cq), t) - (IF s = t THEN 1 ELSE 0)
         /\ \A i \in DOMAIN Tail(cq) :
              /\ i + 1 \in DOMAIN cq /\ Tail(cq)[i] = cq[i + 1]
              /\ Tail(cq)[i].slot \in Slots \ {s}
<1>1. /\ RingTypes /\ Accounted /\ TasksSound /\ PlanSound /\ Total \in Nat /\ loop.next \in Nat
      /\ \A t \in Slots : slots[t].task \in Nat /\ slots[t].filled \in 0 .. SlotRows
      /\ SlotRows \in Nat
  BY RingInUse DEF RingTypes
<1>2. cq \in Seq(Completion) /\ \A x \in Completion : x.slot \in Slots
  BY <1>1 DEF RingTypes, Completion
<1>3. Head(cq) \in Completion /\ Head(cq) = cq[1] /\ 1 \in DOMAIN cq
      /\ Tail(cq) \in Seq(Completion)
      /\ \A i \in DOMAIN Tail(cq) : i + 1 \in DOMAIN cq /\ Tail(cq)[i] = cq[i + 1]
  BY <1>2, CountHead
<1>4. s \in Slots /\ r \in Nat
  BY <1>3 DEF Completion
<1>5. /\ Keys(cq) \in Seq(Slots) /\ Keys(cq) # <<>> /\ Keys(Tail(cq)) = Tail(Keys(cq))
      /\ Head(Keys(cq)) = s
  BY <1>2, KeysAreSlots
<1>6. \A t : CountIn(Keys(Tail(cq)), t) = CountIn(Keys(cq), t) - (IF s = t THEN 1 ELSE 0)
  BY <1>5, CountHead
<1>7. CountIn(Keys(cq), s) # 0
  <2>1. cq[1].slot = s
    BY <1>3
  <2> QED
    BY <1>1, <1>3, <2>1, WhereNamed
<1>8. /\ CountIn(Keys(cq), s) = 1 /\ CountIn(freeSlots, s) = 0
      /\ Cardinality(InFlight(s)) = 0 /\ CountIn(Keys(sq), s) = 0
  BY <1>1, <1>4, <1>7, NamedInOnePlace DEF Accounted
<1>9. (\A i \in DOMAIN sq : sq[i].slot # s) /\ \A e \in kernel : e.slot # s
  BY <1>1, <1>8, WhereNamed
<1>10. Free(s) = 0
  BY <1>1, <1>8, WhereNamed
<1>11. k < loop.next /\ loop.next <= Total /\ f < l
  BY <1>1, <1>4, <1>10 DEF TasksSound
<1>12. k \in Nat /\ k < Total /\ f \in Nat
  BY <1>1, <1>4, <1>11
<1>13. l \in Nat /\ l <= SlotRows
  <2>1. TaskRange(k) \in PageRange /\ TaskRange(k).len <= SlotRows
    BY <1>1, <1>12, TaskInPlan
  <2> QED
    BY <2>1 DEF PageRange
<1>14. f + r <= l
  <2>1. slots[cq[1].slot].filled + cq[1].res <= TaskRange(slots[cq[1].slot].task).len
    BY <1>1, <1>3 DEF TasksSound
  <2> QED
    BY <1>3, <2>1
<1>15. \A i \in DOMAIN Tail(cq) : Tail(cq)[i].slot \in Slots \ {s}
  <2>1. Keys(Tail(cq)) \in Seq(Slots)
    BY <1>2, <1>3, KeysAreSlots
  <2>2. CountIn(Keys(Tail(cq)), s) = 0
    BY <1>6, <1>8
  <2>3. \A i \in DOMAIN Keys(Tail(cq)) : Keys(Tail(cq))[i] # s
    BY <2>1, <2>2, NamingFinite
  <2>4. \A i \in DOMAIN Tail(cq) : Tail(cq)[i].slot # s
    BY <2>3 DEF Keys
  <2>5. \A i \in DOMAIN Tail(cq) : Tail(cq)[i].slot \in Slots
    BY <1>2, <1>3
  <2> QED
    BY <2>4, <2>5
<1> QED
  BY <1>1, <1>3, <1>4, <1>6, <1>8, <1>9, <1>11, <1>12, <1>13, <1>14, <1>15

\* A failed read ends the gather with an exception.
LEMMA ThrownPreserves ==
  ASSUME GatherInv, phase \in {"wait", "drain"}, cq # <<>>, phase' = "thrown", cq' = Tail(cq),
         UNCHANGED <<slots, freeSlots, loop, sq, kernel>>,
         UNCHANGED <<configVars, ring, planVars, scan, direct, stats>>
  PROVE  GatherInv'
<1>1. RingTypes /\ GatherTypeOK
  BY DEF GatherInv
<1>2. cq' \in Seq(Completion)
  <2>1. cq \in Seq(Completion)
    BY <1>1 DEF RingTypes, Completion
  <2> QED
    BY <2>1, CountHead
<1>3. RingTypes'
  BY <1>1, <1>2 DEF RingTypes, Request, Completion
<1>4. slots' \in [Slots -> SlotType]
  BY <1>1 DEF GatherTypeOK, SlotType
<1> QED
  BY <1>3, <1>4, RingStep

\* A slot that changes leaves the others' reads as they were.
LEMMA OthersKeepTheirTasks ==
  ASSUME GatherInv, Ringing, NEW s \in Slots, ranges' = ranges, loop'.next = loop.next,
         \A t \in Slots \ {s} : slots'[t] = slots[t],
         \A t \in Slots \ {s} : CountIn(freeSlots', t) = CountIn(freeSlots, t),
         CountIn(freeSlots', s) = 0 =>
            /\ slots'[s].task < loop.next
            /\ slots'[s].filled < TaskRange(slots'[s].task).len,
         \A i \in DOMAIN sq' :
            \/ sq'[i].slot \in Slots \ {s} /\ Answers(sq'[i])
            \/ sq'[i].slot = s /\ sq'[i] = Entry(s, slots'[s].task, slots'[s].filled),
         \A e \in kernel' : e.slot \in Slots \ {s} /\ Answers(e),
         \A i \in DOMAIN cq' :
            /\ cq'[i].slot \in Slots \ {s}
            /\ slots[cq'[i].slot].filled + cq'[i].res <= TaskRange(slots[cq'[i].slot].task).len
  PROVE  TasksSound'
<1>1. RingTypes /\ TasksSound
  BY RingInUse
<1>2. Total' = Total /\ \A task, got : Entry(s, task, got)' = Entry(s, task, got)
  BY PlanKept, TaskKept
<1>3. loop'.next <= Total'
  BY <1>1, <1>2 DEF TasksSound
<1>4. \A t \in Slots : Free(t)' = CountIn(freeSlots', t)
  BY Zenon DEF Free, CountIn, Naming
<1>5. \A t \in Slots : Free(t)' = 0 =>
        slots'[t].task < loop'.next /\ slots'[t].filled < TaskRange(slots[t].task)'.len
  <2> TAKE t \in Slots
  <2> PICK k : k = slots'[t].task
    OBVIOUS
  <2>1. TaskRange(slots[t].task)' = TaskRange(k)
    BY TaskRangeKept
  <2>2. CASE t = s
    BY <1>4, <2>1, <2>2
  <2>3. CASE t # s
    <3>1. Free(t) = CountIn(freeSlots, t) /\ slots'[t] = slots[t]
      BY <1>1, <2>3, WhereNamed
    <3>2. CountIn(freeSlots', t) = CountIn(freeSlots, t)
      BY <2>3
    <3>3. Free(t)' = Free(t)
      BY <1>4, <3>1, <3>2, Zenon
    <3> HIDE DEF CountIn
    <3> QED
      BY <1>1, <2>1, <3>1, <3>3 DEF TasksSound
  <2> QED
    BY <2>2, <2>3
<1>6. \A x : x.slot \in Slots \ {s} /\ Answers(x) => Answers(x)'
  BY AnswersKept
<1>7. \A i \in DOMAIN sq' : Answers(sq[i])'
  <2> TAKE i \in DOMAIN sq'
  <2> PICK x : x = sq'[i]
    OBVIOUS
  <2>1. CASE x.slot \in Slots \ {s} /\ Answers(x)
    <3>1. Answers(x)'
      BY <1>6, <2>1
    <3> QED
      BY <3>1
  <2>2. CASE x.slot = s /\ x = Entry(s, slots'[s].task, slots'[s].filled)
    <3> PICK task, got : task = slots'[s].task /\ got = slots'[s].filled
      OBVIOUS
    <3>1. Entry(s, task, got)' = Entry(s, task, got)
      BY <1>2
    <3>2. Answers(x)'
      BY <2>2, <3>1 DEF Answers
    <3> QED
      BY <3>2
  <2> QED
    BY <2>1, <2>2
<1>8. \A e \in kernel' : Answers(e)'
  BY <1>6
<1>9. \A i \in DOMAIN cq' :
        slots'[cq'[i].slot].filled + cq'[i].res <= TaskRange(slots[cq[i].slot].task)'.len
  <2> TAKE i \in DOMAIN cq'
  <2> PICK k : k = slots[cq'[i].slot].task
    OBVIOUS
  <2>1. slots'[cq'[i].slot] = slots[cq'[i].slot]
    OBVIOUS
  <2>2. TaskRange(slots[cq[i].slot].task)' = TaskRange(k)
    BY <2>1, TaskRangeKept
  <2> QED
    BY <2>1, <2>2
<1> QED
  BY <1>3, <1>5, <1>7, <1>8, <1>9 DEF TasksSound

\* A short read is queued again, for the rest of its range, in the same slot.
LEMMA ResumedPreserves ==
  ASSUME GatherInv, phase \in {"wait", "drain"}, cq # <<>>, phase' = "drain", cq' = Tail(cq),
         NEW s, NEW k, NEW got, s = Head(cq).slot, k = slots[s].task,
         got = slots[s].filled + Head(cq).res, got < TaskRange(k).len,
         SubmitTask(s, k, got), freeSlots' = freeSlots,
         loop' = [loop EXCEPT !.unsubmitted = Announced(got, Pending)],
         UNCHANGED <<configVars, ring, planVars, scan, direct, stats>>
  PROVE  GatherInv'
<1> PICK f, r, l : f = slots[s].filled /\ r = Head(cq).res /\ l = TaskRange(k).len
  OBVIOUS
<1>1. /\ GatherTypeOK /\ PlanSound /\ RingTypes /\ Accounted /\ TasksSound /\ Ringing
      /\ RingDepth \in Nat \ {0} /\ SlotRows \in Nat \ {0}
  BY RingInUse DEF Ringing
<1>2. /\ s \in Slots /\ k \in Nat /\ k < loop.next /\ k < Total
      /\ f \in Nat /\ f < l /\ r \in Nat /\ l \in Nat /\ l <= SlotRows /\ f + r <= l
      /\ CountIn(freeSlots, s) = 0 /\ CountIn(Keys(sq), s) = 0
      /\ (\A i \in DOMAIN sq : sq[i].slot # s)
      /\ (\A e \in kernel : e.slot # s)
      /\ Tail(cq) \in Seq(Completion)
      /\ \A t : CountIn(Keys(Tail(cq)), t) = CountIn(Keys(cq), t) - (IF s = t THEN 1 ELSE 0)
      /\ \A i \in DOMAIN Tail(cq) :
           /\ i + 1 \in DOMAIN cq /\ Tail(cq)[i] = cq[i + 1]
           /\ Tail(cq)[i].slot \in Slots \ {s}
  BY <1>1, FirstCompletion
<1>3. got \in Nat /\ got < l /\ got \in 0 .. SlotRows
  <2>1. got = f + r /\ got < l
    OBVIOUS
  <2> QED
    BY <1>1, <1>2, <2>1
<1> PICK e : e = Entry(s, k, got)
  OBVIOUS
<1>4. e \in Request /\ e.slot = s
  BY <1>1, <1>2, <1>3, EntryIsARequest
<1>5. /\ sq' = Append(sq, e) /\ kernel' = kernel
      /\ slots' = [slots EXCEPT ![s].task = k, ![s].filled = got] /\ ranges' = ranges
  <2>1. ~QueueFull
    BY <1>1, <1>2, QueueHasRoom
  <2> QED
    BY <2>1 DEF SubmitTask, planVars
<1>6. /\ slots' \in [Slots -> SlotType]
      /\ slots'[s].task = k /\ slots'[s].filled = got
      /\ \A t \in Slots \ {s} : slots'[t] = slots[t]
  <2> PICK x, y : x = slots[s] /\ y = [x EXCEPT !.task = k, !.filled = got]
    OBVIOUS
  <2>1. slots \in [Slots -> SlotType] /\ x \in SlotType
    BY <1>1, <1>2 DEF GatherTypeOK, SlotType
  <2>2. slots' = [slots EXCEPT ![s] = y]
    BY <1>5
  <2>3. y \in SlotType
    BY <1>2, <1>3, <2>1, SlotAssigned
  <2>4. y.task = k /\ y.filled = got
    BY <2>1 DEF SlotType
  <2> HIDE DEF SlotType
  <2> QED
    BY <1>2, <2>1, <2>2, <2>3, <2>4
<1>7. sq' \in Seq(Request) /\ \A t : CountIn(Keys(sq'), t)
                               = CountIn(Keys(sq), t) + (IF s = t THEN 1 ELSE 0)
  <2>1. sq \in Seq(Request) /\ \A x \in Request : x.slot \in Slots
    BY <1>1 DEF RingTypes, Request
  <2>2. Keys(sq) \in Seq(Slots) /\ Keys(Append(sq, e)) = Append(Keys(sq), e.slot)
    BY <1>4, <2>1, KeysAreSlots
  <2>3. sq' \in Seq(Request)
    BY <1>4, <1>5, <2>1
  <2>4. Keys(sq') = Append(Keys(sq), s)
    BY <1>4, <1>5, <2>2, Zenon
  <2>5. \A t : CountIn(Append(Keys(sq), s), t) = CountIn(Keys(sq), t) + (IF s = t THEN 1 ELSE 0)
    <3> PICK q : q = Keys(sq)
      OBVIOUS
    <3>1. q \in Seq(Slots) /\ s \in Slots
      BY <1>2, <2>2
    <3>2. \A t : CountIn(Append(q, s), t) = CountIn(q, t) + (IF s = t THEN 1 ELSE 0)
      BY ONLY <3>1, CountAppend
    <3> QED
      BY <3>2, Zenon
  <2> QED
    BY <2>3, <2>4, <2>5, Zenon
<1>8. /\ loop'.next = loop.next /\ loop'.inflight = loop.inflight /\ loop'.done = loop.done
      /\ loop' \in LoopType
  <2> PICK l0, m, u : l0 = loop /\ m = loop' /\ u = Announced(got, Pending)
    OBVIOUS
  <2>1. l0 \in LoopType
    BY <1>1 DEF RingTypes, LoopType
  <2>2. u \in Nat
    BY <2>1 DEF Announced, Pending, LoopType
  <2>3. m = [l0 EXCEPT !.unsubmitted = u]
    OBVIOUS
  <2>4. m \in LoopType /\ m.next = l0.next /\ m.inflight = l0.inflight /\ m.done = l0.done
    BY ONLY <2>1, <2>2, <2>3 DEF LoopType
  <2> QED
    BY <2>4
<1>9. RingTypes'
  BY <1>1, <1>2, <1>5, <1>7, <1>8 DEF RingTypes, Request, LoopType, Completion
<1>10. \A t \in Slots : Named(t)' = 1
  <2> TAKE t \in Slots
  <2>1. /\ CountIn(freeSlots, t) \in Nat /\ CountIn(Keys(sq), t) \in Nat
        /\ Cardinality(InFlight(t)) \in Nat /\ CountIn(Keys(cq), t) \in Nat
        /\ Named(t) = 1
    BY <1>1, WhereNamed DEF Accounted
  <2>2. /\ InFlight(t)' = InFlight(t) /\ CountIn(freeSlots', t) = CountIn(freeSlots, t)
        /\ CountIn(Keys(sq'), t) = CountIn(Keys(sq), t) + (IF s = t THEN 1 ELSE 0)
        /\ CountIn(Keys(cq'), t) = CountIn(Keys(cq), t) - (IF s = t THEN 1 ELSE 0)
    BY <1>2, <1>5, <1>7 DEF InFlight
  <2> HIDE DEF CountIn, InFlight
  <2> QED
    BY <2>1, <2>2 DEF Named
<1>11. Accounted'
  <2>1. /\ loop'.inflight = RingDepth - Len(freeSlots')
        /\ loop'.done + loop'.inflight = loop'.next
    BY <1>1, <1>8 DEF Accounted
  <2>2. \A t \in Slots : slots'[t].task = slots[t].task
    BY <1>2, <1>6
  <2> QED
    BY <1>1, <1>10, <2>1, <2>2 DEF Accounted
<1>12. TasksSound'
  <2>1. slots'[s].task < loop.next /\ slots'[s].filled < TaskRange(slots'[s].task).len
    BY <1>2, <1>3, <1>6
  <2>2. \A i \in DOMAIN sq' :
            \/ sq'[i].slot \in Slots \ {s} /\ Answers(sq'[i])
            \/ sq'[i].slot = s /\ sq'[i] = Entry(s, slots'[s].task, slots'[s].filled)
    <3> TAKE i \in DOMAIN sq'
    <3>1. /\ sq \in Seq(Request) /\ DOMAIN sq = 1 .. Len(sq) /\ Len(sq) \in Nat
      BY <1>1 DEF RingTypes
    <3>2. i \in 1 .. Len(sq) + 1 /\ sq'[i] = IF i = Len(sq) + 1 THEN e ELSE sq[i]
      BY <1>4, <1>5, <3>1
    <3>3. CASE i = Len(sq) + 1
      BY <1>4, <1>6, <3>2, <3>3
    <3>4. CASE i # Len(sq) + 1
      <4>1. i \in DOMAIN sq /\ sq'[i] = sq[i] /\ sq[i] \in Request
        BY <3>1, <3>2, <3>4
      <4> QED
        BY <1>1, <1>2, <4>1 DEF TasksSound, Request
    <3> QED
      BY <3>3, <3>4
  <2>3. \A x \in kernel' : x.slot \in Slots \ {s} /\ Answers(x)
    BY <1>1, <1>2, <1>5 DEF TasksSound, RingTypes, Request
  <2>4. \A i \in DOMAIN cq' :
            /\ cq'[i].slot \in Slots \ {s}
            /\ slots[cq'[i].slot].filled + cq'[i].res <= TaskRange(slots[cq'[i].slot].task).len
    BY <1>1, <1>2 DEF TasksSound
  <2> QED
    BY <1>1, <1>2, <1>5, <1>6, <1>8, <2>1, <2>2, <2>3, <2>4, OthersKeepTheirTasks
<1> QED
  BY <1>6, <1>9, <1>11, <1>12, RingStep

\* A finished read gives its slot back.
LEMMA FinishedPreserves ==
  ASSUME GatherInv, phase \in {"wait", "drain"}, cq # <<>>, phase' = "drain", cq' = Tail(cq),
         NEW s, NEW got, s = Head(cq).slot, got = slots[s].filled + Head(cq).res,
         slots' = [slots EXCEPT ![s].filled = got], freeSlots' = Append(freeSlots, s),
         loop' = [loop EXCEPT !.inflight = @ - 1, !.done = @ + 1],
         UNCHANGED <<sq, kernel>>,
         UNCHANGED <<configVars, ring, planVars, scan, direct, stats>>
  PROVE  GatherInv'
<1> PICK k, f, r : k = slots[s].task /\ f = slots[s].filled /\ r = Head(cq).res
  OBVIOUS
<1> PICK l : l = TaskRange(k).len
  OBVIOUS
<1>1. /\ GatherTypeOK /\ PlanSound /\ RingTypes /\ Accounted /\ TasksSound /\ Ringing
      /\ RingDepth \in Nat \ {0} /\ SlotRows \in Nat \ {0}
  BY RingInUse DEF Ringing
<1>2. /\ s \in Slots /\ k \in Nat /\ k < loop.next /\ k < Total
      /\ f \in Nat /\ f < l /\ r \in Nat /\ l \in Nat /\ l <= SlotRows /\ f + r <= l
      /\ CountIn(freeSlots, s) = 0 /\ CountIn(Keys(sq), s) = 0
      /\ (\A i \in DOMAIN sq : sq[i].slot # s)
      /\ (\A e \in kernel : e.slot # s)
      /\ Tail(cq) \in Seq(Completion)
      /\ \A t : CountIn(Keys(Tail(cq)), t) = CountIn(Keys(cq), t) - (IF s = t THEN 1 ELSE 0)
      /\ \A i \in DOMAIN Tail(cq) :
           /\ i + 1 \in DOMAIN cq /\ Tail(cq)[i] = cq[i + 1]
           /\ Tail(cq)[i].slot \in Slots \ {s}
  BY <1>1, FirstCompletion
<1>3. got \in 0 .. SlotRows
  <2>1. got = f + r
    OBVIOUS
  <2> QED
    BY <1>1, <1>2, <2>1
<1>4. /\ slots' \in [Slots -> SlotType]
      /\ slots'[s].task = k
      /\ \A t \in Slots \ {s} : slots'[t] = slots[t]
  <2> PICK x, y : x = slots[s] /\ y = [x EXCEPT !.filled = got]
    OBVIOUS
  <2>1. slots \in [Slots -> SlotType] /\ x \in SlotType
    BY <1>1, <1>2 DEF GatherTypeOK, SlotType
  <2>2. slots' = [slots EXCEPT ![s] = y]
    OBVIOUS
  <2>3. y \in SlotType
    <3>1. x.task \in Nat
      BY <2>1 DEF SlotType
    <3> QED
      BY <1>3, <2>1, <3>1, SlotAssigned
  <2>4. y.task = k
    BY <2>1 DEF SlotType
  <2> HIDE DEF SlotType
  <2> QED
    BY <1>2, <2>1, <2>2, <2>3, <2>4
<1>5. /\ freeSlots' \in Seq(Slots) /\ Len(freeSlots') = Len(freeSlots) + 1
      /\ Len(freeSlots) \in Nat
      /\ \A t : CountIn(freeSlots', t) = CountIn(freeSlots, t) + (IF s = t THEN 1 ELSE 0)
  <2>1. freeSlots \in Seq(Slots)
    BY <1>1 DEF RingTypes
  <2>2. freeSlots' \in Seq(Slots) /\ Len(freeSlots') = Len(freeSlots) + 1 /\ Len(freeSlots) \in Nat
    BY <1>2, <2>1
  <2> QED
    BY <1>2, <2>1, <2>2, CountAppend
<1>6. loop.inflight >= 1
  <2>1. \A t \in Slots : CountIn(freeSlots, t) <= 1
    <3> TAKE t \in Slots
    <3>1. CountIn(freeSlots, t) # 0 => CountIn(freeSlots, t) = 1
      BY <1>1, NamedInOnePlace DEF Accounted
    <3>2. CountIn(freeSlots, t) \in Nat
      BY <1>1, WhereNamed
    <3> QED
      BY <3>1, <3>2
  <2>2. freeSlots \in Seq(Slots)
    BY <1>1 DEF RingTypes
  <2>3. Len(freeSlots) < RingDepth
    BY <1>2, <2>1, <2>2, NamedOnce
  <2> QED
    BY <1>1, <1>5, <2>3 DEF Accounted
<1>7. /\ loop'.next = loop.next /\ loop'.inflight = loop.inflight - 1
      /\ loop'.done = loop.done + 1 /\ loop' \in LoopType
      /\ loop.inflight \in Nat /\ loop.done \in Nat
  <2> PICK l0, m, u, v : l0 = loop /\ m = loop' /\ u = l0.inflight - 1 /\ v = l0.done + 1
    OBVIOUS
  <2>1. l0 \in LoopType
    BY <1>1 DEF RingTypes, LoopType
  <2>2. l0.inflight \in Nat /\ l0.done \in Nat /\ u \in Nat /\ v \in Nat
    BY <1>6, <2>1 DEF LoopType
  <2>3. m = [l0 EXCEPT !.inflight = u, !.done = v]
    OBVIOUS
  <2>4. m \in LoopType /\ m.next = l0.next /\ m.inflight = u /\ m.done = v
    BY ONLY <2>1, <2>2, <2>3 DEF LoopType
  <2> QED
    BY <2>2, <2>4
<1>8. RingTypes'
  BY <1>1, <1>2, <1>5, <1>7 DEF RingTypes, Request, LoopType, Completion
<1>9. \A t \in Slots : Named(t)' = 1
  <2> TAKE t \in Slots
  <2>1. /\ CountIn(freeSlots, t) \in Nat /\ CountIn(Keys(sq), t) \in Nat
        /\ Cardinality(InFlight(t)) \in Nat /\ CountIn(Keys(cq), t) \in Nat
        /\ Named(t) = 1
    BY <1>1, WhereNamed DEF Accounted
  <2>2. /\ InFlight(t)' = InFlight(t) /\ CountIn(Keys(sq'), t) = CountIn(Keys(sq), t)
        /\ CountIn(freeSlots', t) = CountIn(freeSlots, t) + (IF s = t THEN 1 ELSE 0)
        /\ CountIn(Keys(cq'), t) = CountIn(Keys(cq), t) - (IF s = t THEN 1 ELSE 0)
    BY <1>2, <1>5 DEF InFlight
  <2> HIDE DEF CountIn, InFlight
  <2> QED
    BY <2>1, <2>2 DEF Named
<1>10. Accounted'
  <2>1. /\ loop'.inflight = RingDepth - Len(freeSlots')
        /\ loop'.done + loop'.inflight = loop'.next
    <3> PICK a, b, c, d, x : a = loop.inflight /\ b = loop.done /\ c = loop.next
                            /\ d = Len(freeSlots) /\ x = Len(freeSlots')
      OBVIOUS
    <3>1. a = RingDepth - d /\ b + a = c /\ x = d + 1 /\ a \in Nat /\ b \in Nat /\ d \in Nat
          /\ RingDepth \in Nat
      BY <1>1, <1>5, <1>7 DEF Accounted
    <3>2. a - 1 = RingDepth - x /\ (b + 1) + (a - 1) = c
      BY ONLY <3>1
    <3> QED
      BY <1>7, <3>2, Zenon
  <2>2. \A t \in Slots : /\ slots'[t].task = slots[t].task
                         /\ CountIn(freeSlots', t) = 0 => CountIn(freeSlots, t) = 0
    <3> TAKE t \in Slots
    <3>1. slots'[t].task = slots[t].task
      BY <1>2, <1>4
    <3>2. CountIn(freeSlots, t) \in Nat
      BY <1>1, WhereNamed
    <3> QED
      BY <1>5, <3>1, <3>2
  <2> QED
    BY <1>1, <1>9, <2>1, <2>2 DEF Accounted
<1>11. TasksSound'
  <2>1. CountIn(freeSlots', s) # 0 /\ ranges' = ranges
    BY <1>2, <1>5 DEF planVars
  <2>2. \A t \in Slots \ {s} : CountIn(freeSlots', t) = CountIn(freeSlots, t)
    <3> TAKE t \in Slots \ {s}
    <3>1. CountIn(freeSlots, t) \in Nat
      BY <1>1, WhereNamed
    <3> QED
      BY <1>5, <3>1
  <2>3. \A i \in DOMAIN sq' : sq'[i].slot \in Slots \ {s} /\ Answers(sq'[i])
    <3> TAKE i \in DOMAIN sq'
    <3>1. sq' = sq /\ sq[i] \in Request /\ sq[i].slot # s /\ Answers(sq[i])
      BY <1>1, <1>2 DEF RingTypes, TasksSound
    <3> QED
      BY <3>1 DEF Request
  <2>4. \A x \in kernel' : x.slot \in Slots \ {s} /\ Answers(x)
    BY <1>1, <1>2 DEF TasksSound, RingTypes, Request
  <2>5. \A i \in DOMAIN cq' :
            /\ cq'[i].slot \in Slots \ {s}
            /\ slots[cq'[i].slot].filled + cq'[i].res <= TaskRange(slots[cq'[i].slot].task).len
    BY <1>1, <1>2 DEF TasksSound
  <2> QED
    BY <1>1, <1>2, <1>4, <1>7, <2>1, <2>2, <2>3, <2>4, <2>5, OthersKeepTheirTasks
<1> QED
  BY <1>4, <1>8, <1>10, <1>11, RingStep

LEMMA HandleCompletionPreserves ==
  ASSUME GatherInv, HandleCompletion
  PROVE  GatherInv'
<1> DEFINE s     == Head(cq).slot
           task  == slots[s].task
           got   == slots[s].filled + Head(cq).res
           short == got < TaskRange(task).len
<1>1. /\ phase \in {"wait", "drain"} /\ cq # <<>> /\ cq' = Tail(cq)
      /\ UNCHANGED <<configVars, ring, planVars, scan, direct, stats>>
  BY DEF HandleCompletion
<1>2. \/ phase' = "thrown" /\ UNCHANGED <<slots, freeSlots, loop, sq, kernel>>
      \/ /\ short /\ phase' = "drain" /\ SubmitTask(s, task, got)
         /\ loop' = [loop EXCEPT !.unsubmitted = Announced(got, Pending)]
         /\ freeSlots' = freeSlots
      \/ /\ phase' = "drain" /\ slots' = [slots EXCEPT ![s].filled = got]
         /\ freeSlots' = Append(freeSlots, s)
         /\ loop' = [loop EXCEPT !.inflight = @ - 1, !.done = @ + 1]
         /\ UNCHANGED <<sq, kernel>>
  BY DEF HandleCompletion, Released
<1>3. CASE phase' = "thrown" /\ UNCHANGED <<slots, freeSlots, loop, sq, kernel>>
  BY <1>1, <1>3, ThrownPreserves
<1>4. CASE /\ short /\ phase' = "drain" /\ SubmitTask(s, task, got)
           /\ loop' = [loop EXCEPT !.unsubmitted = Announced(got, Pending)]
           /\ freeSlots' = freeSlots
  <2> PICK s0, k, g : s0 = s /\ k = slots[s0].task /\ g = slots[s0].filled + Head(cq).res
    OBVIOUS
  <2>1. /\ g < TaskRange(k).len /\ SubmitTask(s0, k, g)
        /\ loop' = [loop EXCEPT !.unsubmitted = Announced(g, Pending)]
    BY <1>4, Zenon
  <2> QED
    BY <1>1, <1>4, <2>1, ResumedPreserves
<1>5. CASE /\ phase' = "drain" /\ slots' = [slots EXCEPT ![s].filled = got]
           /\ freeSlots' = Append(freeSlots, s)
           /\ loop' = [loop EXCEPT !.inflight = @ - 1, !.done = @ + 1]
           /\ UNCHANGED <<sq, kernel>>
  <2> PICK s0, g : s0 = s /\ g = slots[s0].filled + Head(cq).res
    OBVIOUS
  <2>1. slots' = [slots EXCEPT ![s0].filled = g] /\ freeSlots' = Append(freeSlots, s0)
    BY <1>5, Zenon
  <2> QED
    BY <1>1, <1>5, <2>1, FinishedPreserves
<1> QED
  BY <1>2, <1>3, <1>4, <1>5

LEMMA DrainedPreserves ==
  ASSUME GatherInv, Drained
  PROVE  GatherInv'
<1>1. /\ phase = "drain" /\ cq = <<>>
      /\ phase' = IF loop.done < Total THEN "fill" ELSE "served"
      /\ slots' = slots /\ freeSlots' = freeSlots /\ loop' = loop /\ sq' = sq
      /\ kernel' = kernel /\ cq' = cq /\ ranges' = ranges
      /\ UNCHANGED <<configVars, ring, planVars, scan, direct, stats>>
  BY DEF Drained, ringVars, planVars
<1>2. /\ GatherTypeOK /\ RingTypes /\ Accounted /\ TasksSound /\ Ringing
      /\ RingDepth \in Nat \ {0} /\ Total \in Nat
  BY <1>1, RingInUse DEF Ringing
<1>3. RingTypes' /\ slots' \in [Slots -> SlotType]
  BY <1>1, <1>2 DEF RingTypes, Request, GatherTypeOK, SlotType
<1>4. Accounted'
  BY <1>1, <1>2 DEF Accounted, Named, InFlight
<1>5. TasksSound'
  <2>1. /\ \A i \in DOMAIN sq' : Answers(sq'[i])
        /\ \A e \in kernel' : Answers(e)
        /\ \A i \in DOMAIN cq' : slots[cq'[i].slot].filled + cq'[i].res
                                   <= TaskRange(slots[cq'[i].slot].task).len
    BY <1>1, <1>2 DEF TasksSound
  <2> QED
    BY <1>1, <1>2, <1>3, <2>1, TasksKept
<1>6. ASSUME ~(loop.done < Total) PROVE RingAtRest
  <2>1. loop.inflight = 0 /\ Len(freeSlots) = RingDepth
    <3> PICK a, b, c, d, e : a = loop.inflight /\ b = loop.done /\ c = loop.next
                             /\ d = Len(freeSlots) /\ e = Total
      OBVIOUS
    <3>1. /\ a \in Nat /\ b \in Nat /\ c \in Nat /\ d \in Nat /\ e \in Nat /\ RingDepth \in Nat
          /\ a = RingDepth - d /\ b + a = c /\ c <= e /\ ~(b < e)
      BY <1>2, <1>6 DEF RingTypes, Accounted, TasksSound
    <3>2. a = 0 /\ d = RingDepth
      BY ONLY <3>1
    <3> QED
      BY <3>2
  <2>2. ASSUME NEW s \in Slots
        PROVE  CountIn(Keys(sq), s) = 0 /\ Cardinality(InFlight(s)) = 0
    <3>1. \A t \in Slots : CountIn(freeSlots, t) <= 1
      <4> TAKE t \in Slots
      <4>1. CountIn(freeSlots, t) # 0 => CountIn(freeSlots, t) = 1
        BY <1>2, NamedInOnePlace DEF Accounted
      <4>2. CountIn(freeSlots, t) \in Nat
        BY <1>2, WhereNamed
      <4> QED
        BY <4>1, <4>2
    <3>2. freeSlots \in Seq(Slots)
      BY <1>2 DEF RingTypes
    <3>3. CountIn(freeSlots, s) = 1
      BY <2>1, <3>1, <3>2, NamedOnce
    <3>4. CountIn(freeSlots, s) # 0
      BY <3>3
    <3> QED
      BY <1>2, <3>4, NamedInOnePlace DEF Accounted
  <2>3. (\A s \in Slots, i \in DOMAIN sq : sq[i].slot # s) /\ \A s \in Slots, e \in kernel : e.slot # s
    BY <1>2, <2>2, WhereNamed
  <2>4. sq \in Seq(Request) /\ kernel \subseteq Request /\ \A x \in Request : x.slot \in Slots
    BY <1>2 DEF RingTypes, Request
  <2>5. kernel = {}
    BY <2>3, <2>4
  <2>6. sq = <<>>
    <3>1. \A i \in DOMAIN sq : sq[i].slot \in Slots
      BY <2>4
    <3>2. Len(sq) = 0
      BY <2>3, <2>4, <3>1
    <3> QED
      BY <2>4, <3>2, EmptySeq
  <2> QED
    BY <1>1, <2>5, <2>6 DEF RingAtRest
<1>7. phase' = "served" => RingAtRest'
  BY <1>1, <1>6 DEF RingAtRest
<1> QED
  BY <1>1, <1>3, <1>4, <1>5, <1>7, RingStep
-----------------------------------------------------------------------------
(* The invariant.                                                          *)

LEMMA GatherStarts == GatherInit => GatherInv
<1> SUFFICES ASSUME GatherInit PROVE GatherInv
  OBVIOUS
<1>1. RingDepth \in Nat \ {0} /\ SlotRows \in Nat \ {0}
  BY StoreAssumption
<1>2. slots \in [Slots -> SlotType]
  <2> DEFINE D == 0 .. SlotRows - 1
             x == [task |-> 0, filled |-> 0, bytes |-> [b \in D |-> None]]
  <2>1. x \in SlotType
    <3>1. 0 \in 0 .. SlotRows
      BY <1>1
    <3> QED
      BY <3>1 DEF SlotType
  <2>2. slots = [s \in Slots |-> x]
    BY DEF GatherInit
  <2> HIDE DEF x, SlotType
  <2> QED
    BY <2>1, <2>2
<1>3. GatherTypeOK
  BY <1>2 DEF GatherInit, GatherTypeOK, NoStats, SlotType
<1>4. PlanSound
  BY EmptySeq DEF GatherInit, PlanSound
<1>5. RingTypes
  BY EmptySeq, FS_EmptySet DEF GatherInit, RingTypes, IdleLoop
<1>6. RingAtRest /\ ~Ringing
  BY DEF GatherInit, RingAtRest, Ringing
<1> QED
  BY <1>3, <1>4, <1>5, <1>6 DEF GatherInv

LEMMA GatherStutters ==
  ASSUME GatherInv, UNCHANGED gatherVars
  PROVE  GatherInv'
<1>1. /\ UNCHANGED <<ring, phase, scan, direct, stats>>
      /\ backing' = backing /\ sortGather' = sortGather
      /\ cursors' = cursors /\ batch' = batch /\ ranges' = ranges
      /\ slots' = slots /\ freeSlots' = freeSlots /\ loop' = loop
      /\ sq' = sq /\ kernel' = kernel /\ cq' = cq
  BY DEF gatherVars, configVars, planVars, ringVars
<1>2. GatherTypeOK' /\ PlanSound' /\ RingTypes'
  BY <1>1 DEF GatherInv, GatherTypeOK, PlanSound, RingTypes, NoStats, Request, N
<1>3. Ringing' => SlotsAccounted' /\ TasksSound'
  <2> SUFFICES ASSUME Ringing' PROVE SlotsAccounted' /\ TasksSound'
    OBVIOUS
  <2>1. Ringing
    BY <1>1 DEF Ringing
  <2>2. Accounted /\ TasksSound
    BY <2>1, RingInUse
  <2>3. Accounted'
    BY <1>1, <2>2 DEF Accounted, Named, InFlight
  <2>4. TasksSound'
    <3>1. /\ \A i \in DOMAIN sq' : Answers(sq'[i])
          /\ \A e \in kernel' : Answers(e)
          /\ \A i \in DOMAIN cq' : slots[cq'[i].slot].filled + cq'[i].res
                                     <= TaskRange(slots[cq'[i].slot].task).len
      BY <1>1, <2>2 DEF TasksSound
    <3> QED
      BY <1>1, <1>2, <2>1, <3>1, TasksKept
  <2> QED
    BY <1>2, <2>3, <2>4, AccountedIsSlotsAccountedNext
<1>4. ~Ringing' /\ phase' # "thrown" => RingAtRest'
  BY <1>1 DEF GatherInv, Ringing, RingAtRest
<1> QED
  BY <1>2, <1>3, <1>4 DEF GatherInv

LEMMA GatherSteps == GatherInv /\ [GatherNext]_gatherVars => GatherInv'
<1> SUFFICES ASSUME GatherInv, [GatherNext]_gatherVars PROVE GatherInv'
  OBVIOUS
<1>1. CASE UNCHANGED gatherVars
  BY <1>1, GatherStutters
<1>2. CASE Engine
  <2>1. CASE \E x \in DOMAIN cursors : MergeRow(x)
    BY <2>1, MergeRowPreserves
  <2>2. CASE ServeResident \/ ChooseScan \/ ChooseGather
    BY <2>2, ServeResidentPreserves, ChooseScanPreserves, ChooseGatherPreserves
  <2>3. CASE ScanBlock \/ NextColumn
    BY <2>3, ScanBlockPreserves, NextColumnPreserves
  <2>4. CASE ReadDirect \/ EndDirect
    BY <2>4, ReadDirectPreserves, EndDirectPreserves
  <2>5. CASE FillSlot \/ SubmitQueue \/ HandleCompletion \/ Drained
    BY <2>5, FillSlotPreserves, SubmitQueuePreserves, HandleCompletionPreserves, DrainedPreserves
  <2>6. CASE Return
    BY <2>6, ReturnPreserves
  <2> QED
    BY <1>2, <2>1, <2>2, <2>3, <2>4, <2>5, <2>6 DEF Engine
<1>3. CASE Kernel
  <2>1. PICK e \in kernel : KernelReads(e) \/ KernelFails(e)
    BY <1>3 DEF Kernel
  <2>2. e.len \in Nat
    BY DEF GatherInv, RingTypes, Request
  <2>3. \E got \in 0 .. e.len : Completed(e, got)
    BY <2>1, <2>2 DEF KernelReads, KernelFails
  <2> QED
    BY <2>3, CompletedPreserves
<1>4. CASE \E request \in Batches : Begin(request)
  BY <1>4, BeginPreserves
<1> QED
  BY <1>1, <1>2, <1>3, <1>4 DEF GatherNext

\* Throughout every gather, whatever the kernel does and in whatever order it does
\* it, what is planned lies in the table, what is queued or in flight asks for what
\* its slot still lacks, and no read outlives the gather that returned.
THEOREM GatherInvariant == GatherSpec => []GatherInv
<1>1. GatherInit => GatherInv
  BY GatherStarts
<1>2. GatherInv /\ [GatherNext]_gatherVars => GatherInv'
  BY GatherSteps
<1> QED
  BY <1>1, <1>2, PTL DEF GatherSpec

\* Every read the ring is given stays inside its slot and inside its column, and
\* the state keeps its types.
THEOREM GatherTypeCorrect == GatherSpec => []GatherTypeOK
<1>1. GatherInv => GatherTypeOK
  BY DEF GatherInv
<1> QED
  BY <1>1, GatherInvariant, PTL

\* While the ring is in use every slot is free or behind exactly one read, whatever
\* the order and the length of the completions: no buffer is handed to two reads,
\* none is lost, and the window is as wide as the slots in use.
THEOREM SlotsStayAccounted == GatherSpec => []SlotsAccounted
<1>1. GatherInv => SlotsAccounted
  BY DEF GatherInv, SlotsAccounted
<1> QED
  BY <1>1, GatherInvariant, PTL

-----------------------------------------------------------------------------
(* Visiting the rows in ascending order.                                   *)

\* The ranks visit every place.
LEMMA RankedOnto ==
  ASSUME NEW ids \in Seq(Nat), NEW i \in DOMAIN ids
  PROVE  \E j \in DOMAIN ids : Ranked(ids, j) = i
<1> DEFINE j == RankOf(ids, i) + 1
<1>1. DOMAIN ids = 1 .. Len(ids) /\ Len(ids) \in Nat
  OBVIOUS
<1>2. j \in DOMAIN ids /\ RankOf(ids, i) \in Nat
  BY <1>1, RankInRange
<1>3. Ranked(ids, j) \in DOMAIN ids /\ RankOf(ids, Ranked(ids, j)) = j - 1
  BY <1>2, RankedIsAPlace
<1>4. j - 1 = RankOf(ids, i)
  BY <1>2
<1> HIDE DEF j
<1>5. Ranked(ids, j) = i
  BY <1>3, <1>4, RanksDiffer
<1> QED
  BY <1>2, <1>5

\* And visit them in ascending order.
LEMMA RankedOrder ==
  ASSUME NEW ids \in Seq(Nat), NEW j \in DOMAIN ids, NEW k \in DOMAIN ids, j <= k
  PROVE  ids[Ranked(ids, j)] <= ids[Ranked(ids, k)]
<1> PICK x, y : x = Ranked(ids, j) /\ y = Ranked(ids, k)
  OBVIOUS
<1>1. DOMAIN ids = 1 .. Len(ids) /\ Len(ids) \in Nat /\ \A h \in DOMAIN ids : ids[h] \in Nat
  OBVIOUS
<1>2. /\ x \in DOMAIN ids /\ y \in DOMAIN ids
      /\ RankOf(ids, x) = j - 1 /\ RankOf(ids, y) = k - 1
  BY RankedIsAPlace
<1> SUFFICES ASSUME ids[y] < ids[x] PROVE FALSE
  BY <1>1, <1>2
<1>3. BeforeIt(ids, y) \in SUBSET BeforeIt(ids, x)
  <2>1. ASSUME NEW h \in DOMAIN ids, Before(ids, h, y) PROVE Before(ids, h, x)
    <3>1. ids[h] \in Nat /\ ids[x] \in Nat /\ ids[y] \in Nat
      BY <1>1, <1>2
    <3> QED
      BY <3>1, <2>1 DEF Before
  <2> QED
    BY <2>1, Zenon DEF BeforeIt
<1>4. IsFiniteSet(BeforeIt(ids, x)) /\ RankOf(ids, x) \in Nat /\ RankOf(ids, y) \in Nat
  BY <1>1, <1>2, RankInRange
<1>5. RankOf(ids, y) <= RankOf(ids, x)
  BY <1>3, <1>4, FS_Subset DEF RankOf
<1>6. j = k
  BY <1>1, <1>2, <1>5
<1>7. x = y
  BY <1>6
<1> QED
  BY <1>1, <1>2, <1>7

\* Neighbours in order: all in order.
LEMMA AdjacentOrder ==
  ASSUME NEW n \in Nat, NEW f, \A i \in 1 .. n : f[i] \in Nat,
         \A i \in 1 .. n - 1 : f[i] <= f[i + 1]
  PROVE  \A i, k \in 1 .. n : i <= k => f[i] <= f[k]
<1> DEFINE Good == {k \in 0 .. n : \A i \in 1 .. k : f[i] <= f[k]}
<1>1. 0 \in Good
  OBVIOUS
<1>2. ASSUME NEW k \in 1 .. n, k - 1 \in Good PROVE k \in Good
  <2>1. k - 1 \in 0 .. n /\ \A i \in 1 .. k - 1 : f[i] <= f[k - 1]
    BY <1>2
  <2>2. k - 1 # 0 => f[k - 1] <= f[k]
    <3>1. k - 1 # 0 => k - 1 \in 1 .. n - 1 /\ (k - 1) + 1 = k
      OBVIOUS
    <3> QED
      BY <3>1
  <2>3. ASSUME NEW i \in 1 .. k PROVE f[i] <= f[k]
    <3>1. CASE i = k
      BY <3>1
    <3>2. CASE i # k
      <4>1. i \in 1 .. k - 1 /\ k - 1 # 0 /\ i \in 1 .. n /\ k - 1 \in 1 .. n
        BY <3>2
      <4>2. f[i] <= f[k - 1] /\ f[k - 1] <= f[k]
        BY <2>1, <2>2, <4>1
      <4> QED
        BY <4>1, <4>2
    <3> QED
      BY <3>1, <3>2
  <2> QED
    BY <2>3
<1>3. \A k \in 0 .. n : k \in Good
  <2> HIDE DEF Good
  <2>1. \A k \in 1 .. n : k - 1 \in Good => k \in Good
    BY <1>2
  <2> QED
    BY <1>1, <2>1, InductionUpTo
<1> QED
  <2>1. ASSUME NEW i \in 1 .. n, NEW k \in 1 .. n, i <= k PROVE f[i] <= f[k]
    <3>1. k \in Good /\ i \in 1 .. k
      BY <1>3, <2>1
    <3> QED
      BY <3>1
  <2> QED
    BY <2>1

BatchInOrder == sortGather => \A i, k \in 1 .. N : i <= k => batch[i].row <= batch[k].row

\* Every place is visited, and the rows in ascending order.
LEMMA VisitsInOrder ==
  ASSUME batch \in Seq(Wanted), BatchInOrder
  PROVE  /\ \A i \in 1 .. N : \E j \in 1 .. N : PosOf(j) = i
         /\ \A j, k \in 1 .. N : j <= k => RowAt(j) <= RowAt(k)
<1>1. N \in Nat /\ \A i \in 1 .. N : batch[i] \in Wanted
  BY DEF N
<1>2. \A i \in 1 .. N : batch[i].row \in Nat
  BY <1>1, RowsAreNat DEF Wanted
<1> DEFINE ids == [i \in 1 .. N |-> batch[i].row]
<1>3. ids \in Seq(Nat) /\ DOMAIN ids = 1 .. N
  BY <1>1, <1>2
<1>4. \A i \in 1 .. N : ids[i] = batch[i].row
  OBVIOUS
<1>5. CASE Ascending
  <2>1. \A i \in 1 .. N : PosOf(i) = i /\ RowAt(i) = batch[i].row
    BY <1>5 DEF PosOf, RowAt
  <2>2. \A i, k \in 1 .. N : i <= k => batch[i].row <= batch[k].row
    <3>1. CASE sortGather
      BY <3>1 DEF BatchInOrder
    <3>2. CASE ~sortGather
      <4>1. \A i \in 1 .. N - 1 : ids[i] <= ids[i + 1]
        BY <1>1, <1>5, <3>2 DEF Ascending
      <4> PICK n : n = N
        OBVIOUS
      <4>2. n \in Nat /\ (\A i \in 1 .. n : ids[i] \in Nat) /\ \A i \in 1 .. n - 1 : ids[i] <= ids[i + 1]
        BY <1>1, <1>2, <4>1
      <4>3. \A i, k \in 1 .. n : i <= k => ids[i] <= ids[k]
        <5> HIDE DEF ids
        <5> QED
          BY <4>2, AdjacentOrder
      <4> QED
        BY <1>4, <4>3
    <3> QED
      BY <3>1, <3>2
  <2> QED
    BY <2>1, <2>2
<1>6. CASE ~Ascending
  <2>1. \A j \in 1 .. N : PosOf(j) = Ranked(ids, j) /\ RowAt(j) = batch[Ranked(ids, j)].row
    BY <1>6 DEF PosOf, RowAt
  <2> HIDE DEF ids
  <2>2. \A j \in 1 .. N : RowAt(j) = ids[Ranked(ids, j)]
    BY <1>3, <1>4, <2>1, RankedIsAPlace
  <2>3. ASSUME NEW i \in 1 .. N PROVE \E j \in 1 .. N : PosOf(j) = i
    <3>1. PICK j \in DOMAIN ids : Ranked(ids, j) = i
      BY <1>3, RankedOnto
    <3> QED
      BY <1>3, <2>1, <3>1
  <2>4. \A j, k \in 1 .. N : j <= k => RowAt(j) <= RowAt(k)
    BY <1>3, <2>2, RankedOrder
  <2> QED
    BY <2>3, <2>4
<1> QED
  BY <1>5, <1>6

-----------------------------------------------------------------------------
(* Cutting the rows into page ranges.                                      *)

LEMMA MoreMultiples ==
  ASSUME NEW x \in Nat, NEW y \in Nat, x < y, NEW B \in Nat
  PROVE  x * B + B <= y * B
<1>1. PICK d \in Nat : y = x + d /\ d - 1 \in Nat
  <2>1. y - x \in Nat /\ y = x + (y - x) /\ (y - x) - 1 \in Nat
    OBVIOUS
  <2> QED
    BY <2>1
<1>2. y * B = x * B + d * B
  BY <1>1
<1>3. PICK k \in Nat : d = k + 1
  BY <1>1
<1>4. d * B = k * B + B
  BY <1>3
<1>5. x * B \in Nat /\ k * B \in Nat
  BY <1>3
<1> QED
  BY <1>2, <1>4, <1>5

\* The pages of two rows are the same, or the one ends before the other begins.
LEMMA PagesApart ==
  ASSUME NEW q \in Rows, NEW r \in Rows, q <= r
  PROVE  /\ PageEnd(q) <= PageEnd(r)
         /\ PageBegin(r) < PageEnd(q) => PageEnd(r) = PageEnd(q)
         /\ PageEnd(r) - PageBegin(r) <= MaxRangeRows
<1> PICK B, R, x, y : B = RowsPerPage /\ R = RowCount /\ x = q \div RowsPerPage /\ y = r \div RowsPerPage
  OBVIOUS
<1>1. q \in Nat /\ r \in Nat /\ q < R /\ r < R /\ R \in Nat /\ B \in Nat \ {0}
  BY RowsAreNat
<1>2. /\ x \in Nat /\ x * B \in Nat /\ x * B <= q /\ q < x * B + B
      /\ y \in Nat /\ y * B \in Nat /\ y * B <= r /\ r < y * B + B
  BY <1>1, DivideDown
<1>3. x < y => x * B + B <= y * B
  BY <1>1, <1>2, MoreMultiples
<1>4. y < x => y * B + B <= x * B
  BY <1>1, <1>2, MoreMultiples
<1>5. /\ PageBegin(q) = x * B /\ PageEnd(q) = IF R <= x * B + B THEN R ELSE x * B + B
      /\ PageBegin(r) = y * B /\ PageEnd(r) = IF R <= y * B + B THEN R ELSE y * B + B
  BY DEF PageBegin, PageEnd, Lesser
<1>6. B <= MaxRangeRows
  <2>1. MaxRangeRows \in Nat \ {0} /\ MaxRangeRows % B = 0
    BY RowsAreNat, StoreAssumption
  <2> QED
    BY <1>1, <2>1
<1>7. x = y \/ x < y \/ y < x
  BY <1>2
<1>8. CASE x = y
  BY <1>1, <1>2, <1>5, <1>6, <1>8, RowsAreNat
<1>9. CASE x < y
  BY <1>1, <1>2, <1>3, <1>5, <1>6, <1>9, RowsAreNat
<1>10. CASE y < x
  BY <1>1, <1>2, <1>4, <1>10
<1> QED
  BY <1>7, <1>8, <1>9, <1>10

\* What the ranges cover once the first j rows are in them.
CoversUpTo(rs, j) ==
  /\ rs \in Seq(PageRange) /\ Apart(rs)
  /\ j = 0 => rs = <<>>
  /\ \A k \in DOMAIN rs : \A i \in Hits(rs[k]) : i \in 1 .. j /\ RowAt(i) \in Reach(rs[k])
  /\ \A i \in 1 .. j : \E k \in DOMAIN rs : i \in Hits(rs[k])
  /\ j > 0 => /\ rs # <<>> /\ rs[Len(rs)].len <= MaxRangeRows
              /\ rs[Len(rs)].off + rs[Len(rs)].len = PageEnd(RowAt(j))
              /\ rs[Len(rs)].first + rs[Len(rs)].count = j + 1 /\ rs[Len(rs)].count > 0

LEMMA RangeNumbers ==
  ASSUME NEW rg \in PageRange
  PROVE  /\ rg.off \in Nat /\ rg.len \in Nat \ {0} /\ rg.first \in Nat /\ rg.count \in Nat
         /\ rg.off + rg.len <= RowCount
BY DEF PageRange

\* A row that joins the last range.
LEMMA JoinCovers ==
  ASSUME batch \in Seq(Wanted), BatchInOrder, NEW j \in 1 .. N, NEW rs, CoversUpTo(rs, j - 1),
         rs # <<>>, Joins(RowAt(j), rs[Len(rs)])
  PROVE  CoversUpTo(WithRow(rs, j), j)
<1> PICK r, q, l, rg : r = RowAt(j) /\ q = RowAt(j - 1) /\ l = Len(rs) /\ rg = rs[Len(rs)]
  OBVIOUS
<1> PICK new : new = Extended(rg, r)
  OBVIOUS
<1> PICK rs2 : rs2 = WithRow(rs, j)
  OBVIOUS
<1>1. /\ rs \in Seq(PageRange) /\ l \in Nat \ {0} /\ DOMAIN rs = 1 .. l /\ rg \in PageRange
      /\ rg = rs[l] /\ j \in Nat \ {0} /\ j - 1 \in Nat \ {0} /\ N \in Nat /\ j <= N
  BY DEF CoversUpTo, N
<1>2. /\ rg.off \in Nat /\ rg.len \in Nat \ {0} /\ rg.first \in Nat /\ rg.count \in Nat
      /\ MaxRangeRows \in Nat
  BY <1>1, RangeNumbers, RowsAreNat
<1>3. /\ j - 1 \in 1 .. N /\ r \in Rows /\ r \in Nat /\ q \in Rows /\ q \in Nat /\ q <= r
  <2>1. j - 1 \in 1 .. N /\ j - 1 <= j
    BY <1>1
  <2>2. RowAt(j) \in Rows /\ RowAt(j - 1) \in Rows
    BY <2>1, RowAtInTable
  <2>3. RowAt(j - 1) <= RowAt(j)
    BY <2>1, VisitsInOrder
  <2> QED
    BY <2>1, <2>2, <2>3, RowsAreNat
<1>4. /\ PageEnd(r) \in Nat /\ r < PageEnd(r) /\ PageEnd(q) <= PageEnd(r)
      /\ PageEnd(q) \in Nat
  BY <1>3, PagesInTable, PagesApart
<1>5. /\ rs2 \in Seq(PageRange) /\ rs2 = [rs EXCEPT ![l] = new]
  <2>1. rs2 \in Seq(PageRange)
    BY <1>1, WithRowIsAPlan
  <2> QED
    BY <2>1, Zenon DEF WithRow
<1>6. /\ DOMAIN rs2 = 1 .. l /\ Len(rs2) = l /\ rs2[l] = new /\ rs2 # <<>>
      /\ \A k \in 1 .. l : k # l => rs2[k] = rs[k]
  BY <1>1, <1>5
<1>7. rg.off + rg.len = PageEnd(q) /\ rg.first + rg.count = j /\ rg.count > 0
  <2>1. j - 1 > 0 /\ j - 1 + 1 = j
    BY <1>1
  <2> QED
    BY <2>1 DEF CoversUpTo
<1>8. rg.off <= q
  <2>1. j - 1 \in Hits(rg)
    BY <1>1, <1>2, <1>7 DEF Hits
  <2>2. q \in Reach(rg)
    BY <1>1, <2>1 DEF CoversUpTo
  <2> QED
    BY <1>2, <2>2 DEF Reach
<1>9. /\ new.off = rg.off /\ new.off + new.len = PageEnd(r) /\ new.first = rg.first
      /\ new.count = rg.count + 1 /\ new.len = PageEnd(r) - rg.off
  <2> DEFINE len == IF PageEnd(r) > rg.len + rg.off THEN PageEnd(r) - rg.off ELSE rg.len
  <2>1. len = PageEnd(r) - rg.off
    BY <1>2, <1>4, <1>7
  <2>2. new = [rg EXCEPT !.len = len, !.count = rg.count + 1]
    BY DEF Extended
  <2>3. rg \in [off : Nat, len : Nat \ {0}, first : Nat, count : Nat]
    BY <1>1 DEF PageRange
  <2> HIDE DEF len
  <2>4. new.off = rg.off /\ new.len = len /\ new.first = rg.first /\ new.count = rg.count + 1
    BY <2>2, <2>3
  <2> QED
    BY <1>2, <1>4, <2>1, <2>4
<1>10. new.len <= MaxRangeRows
  BY <1>9 DEF Joins
<1>11. /\ \A i \in Hits(new) : i \in Hits(rg) \/ i = j
       /\ j \in Hits(new) /\ \A i \in Hits(rg) : i \in Hits(new)
       /\ r \in Reach(new) /\ \A p \in Reach(rg) : p \in Reach(new)
  <2> PICK o, n, f, c, m, e, d : /\ o = rg.off /\ n = rg.len /\ f = rg.first /\ c = rg.count
                                 /\ m = new.len /\ e = PageEnd(r) /\ d = PageEnd(q)
    OBVIOUS
  <2>1. /\ o \in Nat /\ n \in Nat /\ f \in Nat /\ c \in Nat /\ e \in Nat /\ d \in Nat
        /\ j \in Nat /\ r \in Nat /\ q \in Nat /\ o <= q /\ q <= r /\ r < e /\ d <= e
        /\ o + n = d /\ f + c = j /\ o + m = e /\ m = e - o
    BY <1>1, <1>2, <1>3, <1>4, <1>7, <1>8, <1>9
  <2>2. /\ Hits(rg) = f .. f + c - 1 /\ Hits(new) = f .. f + (c + 1) - 1
        /\ Reach(rg) = o .. o + n - 1 /\ Reach(new) = o .. o + m - 1
    BY <1>9 DEF Hits, Reach
  <2> QED
    BY ONLY <2>1, <2>2
<1>12. Apart(rs2)
  <2>1. ASSUME NEW k \in 1 .. l, NEW m \in 1 .. l, k < m
        PROVE  rs2[k].off + rs2[k].len <= rs2[m].off
    <3>1. rs[k].off + rs[k].len <= rs[m].off
      BY <1>1, <2>1 DEF CoversUpTo, Apart
    <3>2. k # l /\ rs2[k] = rs[k]
      BY <1>1, <1>6, <2>1
    <3>3. rs2[m].off = rs[m].off
      BY <1>1, <1>6, <1>9
    <3> QED
      BY <3>1, <3>2, <3>3
  <2> QED
    BY <1>6, <2>1 DEF Apart
<1>13. ASSUME NEW k \in DOMAIN rs2, NEW i \in Hits(rs2[k])
       PROVE  i \in 1 .. j /\ RowAt(i) \in Reach(rs2[k])
  <2>1. \A m \in 1 .. l : \A h \in Hits(rs[m]) : h \in 1 .. j - 1 /\ RowAt(h) \in Reach(rs[m])
    BY <1>1 DEF CoversUpTo
  <2>2. CASE k # l
    <3>1. k \in 1 .. l /\ rs2[k] = rs[k] /\ i \in Hits(rs[k])
      BY <1>6, <1>13, <2>2
    <3>2. i \in 1 .. j - 1 /\ RowAt(i) \in Reach(rs[k])
      BY <2>1, <3>1
    <3>3. i \in 1 .. j
      BY <1>1, <3>2
    <3> QED
      BY <3>1, <3>2, <3>3
  <2>3. CASE k = l
    <3>1. i \in Hits(rg) \/ i = j
      BY <1>6, <1>11, <1>13, <2>3
    <3>2. i \in Hits(rg) => i \in 1 .. j - 1 /\ RowAt(i) \in Reach(rg)
      BY <1>1, <2>1
    <3>3. i \in 1 .. j
      BY <1>1, <3>1, <3>2
    <3>4. RowAt(i) \in Reach(new)
      BY <1>11, <3>1, <3>2
    <3> QED
      BY <1>6, <2>3, <3>3, <3>4
  <2> QED
    BY <1>6, <2>2, <2>3
<1>14. ASSUME NEW i \in 1 .. j PROVE \E k \in DOMAIN rs2 : i \in Hits(rs2[k])
  <2>1. CASE i = j
    BY <1>1, <1>6, <1>11, <2>1
  <2>2. CASE i # j
    <3>1. i \in 1 .. j - 1
      BY <1>1, <2>2
    <3>2. PICK k \in 1 .. l : i \in Hits(rs[k])
      BY <1>1, <3>1 DEF CoversUpTo
    <3> QED
      BY <1>1, <1>6, <1>11, <3>2
  <2> QED
    BY <2>1, <2>2
<1>15. /\ rs2[Len(rs2)].off + rs2[Len(rs2)].len = PageEnd(RowAt(j))
       /\ rs2[Len(rs2)].first + rs2[Len(rs2)].count = j + 1 /\ rs2[Len(rs2)].count > 0
       /\ rs2[Len(rs2)].len <= MaxRangeRows /\ j # 0
  BY <1>1, <1>2, <1>6, <1>7, <1>9, <1>10
<1> QED
  BY <1>5, <1>6, <1>12, <1>13, <1>14, <1>15 DEF CoversUpTo

\* A row that begins a range of its own.
LEMMA BeginCovers ==
  ASSUME batch \in Seq(Wanted), BatchInOrder, NEW j \in 1 .. N, NEW rs, CoversUpTo(rs, j - 1),
         ~(rs # <<>> /\ Joins(RowAt(j), rs[Len(rs)]))
  PROVE  CoversUpTo(WithRow(rs, j), j)
<1> PICK r, l : r = RowAt(j) /\ l = Len(rs)
  OBVIOUS
<1> PICK new : new = [off |-> PageBegin(r), len |-> PageEnd(r) - PageBegin(r), first |-> j, count |-> 1]
  OBVIOUS
<1> PICK rs2 : rs2 = WithRow(rs, j)
  OBVIOUS
<1>1. /\ rs \in Seq(PageRange) /\ l \in Nat /\ DOMAIN rs = 1 .. l
      /\ j \in Nat \ {0} /\ N \in Nat /\ j <= N
  BY DEF CoversUpTo, N
<1>2. /\ r \in Rows /\ r \in Nat /\ PageBegin(r) \in Nat /\ PageEnd(r) \in Nat
      /\ PageBegin(r) <= r /\ r < PageEnd(r) /\ MaxRangeRows \in Nat
      /\ PageEnd(r) - PageBegin(r) <= MaxRangeRows
  <2>0. r \in Rows
    BY RowAtInTable
  <2>1. r \in Rows /\ r \in Nat /\ r <= r /\ MaxRangeRows \in Nat
    BY <2>0, RowsAreNat
  <2>2. PageEnd(r) - PageBegin(r) <= MaxRangeRows
    BY <2>1, PagesApart
  <2>3. /\ PageBegin(r) \in Nat /\ PageEnd(r) \in Nat /\ PageBegin(r) <= r /\ r < PageEnd(r)
    BY <2>1, PagesInTable
  <2> QED
    BY <2>1, <2>2, <2>3
<1>3. rs2 \in Seq(PageRange) /\ rs2 = Append(rs, new)
  <2>1. rs2 \in Seq(PageRange)
    BY <1>1, WithRowIsAPlan
  <2> QED
    BY <2>1 DEF WithRow
<1>4. /\ DOMAIN rs2 = 1 .. l + 1 /\ Len(rs2) = l + 1 /\ rs2[l + 1] = new /\ rs2 # <<>>
      /\ \A k \in 1 .. l : rs2[k] = rs[k]
  BY <1>1, <1>3
<1>5. /\ new.off = PageBegin(r) /\ new.len = PageEnd(r) - PageBegin(r) /\ new.first = j
      /\ new.count = 1
  OBVIOUS
<1>6. Hits(new) = {j} /\ r \in Reach(new)
  BY <1>1, <1>2, <1>5 DEF Hits, Reach
\* The last range ends before this row's page.
<1>7. ASSUME l # 0 PROVE rs[l].off + rs[l].len <= new.off
  <2> PICK rg, q : rg = rs[l] /\ q = RowAt(j - 1)
    OBVIOUS
  <2>1. rs # <<>> /\ rg \in PageRange /\ j - 1 \in Nat \ {0} /\ j - 1 > 0
    BY <1>1, <1>7 DEF CoversUpTo
  <2>2. rg.off \in Nat /\ rg.len \in Nat \ {0}
    BY <2>1, RangeNumbers
  <2>3. q \in Rows /\ q <= r
    <3>1. j - 1 \in 1 .. N /\ j - 1 <= j
      BY <1>1, <2>1
    <3> QED
      BY <3>1, RowAtInTable, VisitsInOrder
  <2>4. rg.off + rg.len = PageEnd(q) /\ rg.len <= MaxRangeRows
    BY <2>1 DEF CoversUpTo
  <2>5. PageEnd(q) \in Nat /\ (PageBegin(r) < PageEnd(q) => PageEnd(r) = PageEnd(q))
    BY <1>2, <2>3, PagesInTable, PagesApart
  <2>6. ~(PageBegin(r) <= rg.off + rg.len /\ PageEnd(r) - rg.off <= MaxRangeRows)
    BY <2>1 DEF Joins
  <2> QED
    <3> PICK pb, pe, qe, o, len, top : /\ pb = PageBegin(r) /\ pe = PageEnd(r) /\ qe = PageEnd(q)
                                       /\ o = rg.off /\ len = rg.len /\ top = MaxRangeRows
      OBVIOUS
    <3>1. /\ pb \in Nat /\ pe \in Nat /\ qe \in Nat /\ o \in Nat /\ len \in Nat \ {0}
          /\ pe - pb <= top /\ o + len = qe /\ len <= top /\ (pb < qe => pe = qe)
          /\ ~(pb <= o + len /\ pe - o <= top)
      BY <1>2, <2>2, <2>4, <2>5, <2>6
    <3>2. o + len <= pb
      BY ONLY <3>1
    <3> QED
      BY <1>5, <3>2
<1>8. Apart(rs2)
  <2>1. ASSUME NEW k \in 1 .. l + 1, NEW m \in 1 .. l + 1, k < m
        PROVE  rs2[k].off + rs2[k].len <= rs2[m].off
    <3>1. k \in 1 .. l /\ rs2[k] = rs[k]
      BY <1>1, <1>4, <2>1
    <3>2. CASE m \in 1 .. l
      BY <1>1, <1>4, <2>1, <3>1, <3>2 DEF CoversUpTo, Apart
    <3>3. CASE m = l + 1
      <4>1. l # 0 /\ l \in 1 .. l
        BY <1>1, <3>1
      <4>2. rs[l].off + rs[l].len <= new.off
        BY <1>7, <4>1
      <4>3. k = l \/ k < l
        BY <1>1, <3>1
      <4>4. k < l => rs[k].off + rs[k].len <= rs[l].off
        BY <1>1, <3>1, <4>1 DEF CoversUpTo, Apart
      <4>5. /\ rs[k].off \in Nat /\ rs[k].len \in Nat /\ rs[l].off \in Nat /\ rs[l].len \in Nat
        BY <1>1, <3>1, <4>1, RangeNumbers
      <4>6. rs[k].off + rs[k].len <= new.off
        <5> PICK a, b, c, d, e : /\ a = rs[k].off /\ b = rs[k].len /\ c = rs[l].off
                                 /\ d = rs[l].len /\ e = new.off
          OBVIOUS
        <5>1. a \in Nat /\ b \in Nat /\ c \in Nat /\ d \in Nat /\ e \in Nat /\ c + d <= e
          BY <1>2, <1>5, <4>2, <4>5
        <5>2. CASE k = l
          BY <4>2, <5>2
        <5>3. CASE k < l
          <6>1. a + b <= c
            BY <4>4, <5>3
          <6>2. a + b <= e
            BY ONLY <5>1, <6>1
          <6> QED
            BY <6>2
        <5> QED
          BY <4>3, <5>2, <5>3
      <4> QED
        BY <1>4, <3>1, <3>3, <4>6
    <3> QED
      BY <1>1, <3>2, <3>3
  <2> QED
    BY <1>4, <2>1 DEF Apart
<1>9. ASSUME NEW k \in DOMAIN rs2, NEW i \in Hits(rs2[k])
      PROVE  i \in 1 .. j /\ RowAt(i) \in Reach(rs2[k])
  <2>1. CASE k \in 1 .. l
    <3>1. i \in 1 .. j - 1 /\ RowAt(i) \in Reach(rs[k])
      BY <1>1, <1>4, <1>9, <2>1 DEF CoversUpTo
    <3> QED
      BY <1>1, <1>4, <2>1, <3>1
  <2>2. CASE k = l + 1
    BY <1>1, <1>4, <1>6, <1>9, <2>2
  <2> QED
    BY <1>1, <1>4, <2>1, <2>2
<1>10. ASSUME NEW i \in 1 .. j PROVE \E k \in DOMAIN rs2 : i \in Hits(rs2[k])
  <2>1. CASE i = j
    BY <1>1, <1>4, <1>6, <2>1
  <2>2. CASE i # j
    <3>1. i \in 1 .. j - 1
      BY <1>1, <2>2
    <3>2. PICK k \in 1 .. l : i \in Hits(rs[k])
      BY <1>1, <3>1 DEF CoversUpTo
    <3> QED
      BY <1>1, <1>4, <3>2
  <2> QED
    BY <2>1, <2>2
<1>11. /\ rs2[Len(rs2)].off + rs2[Len(rs2)].len = PageEnd(RowAt(j))
       /\ rs2[Len(rs2)].first + rs2[Len(rs2)].count = j + 1 /\ rs2[Len(rs2)].count > 0
       /\ rs2[Len(rs2)].len <= MaxRangeRows /\ j # 0
  BY <1>1, <1>2, <1>4, <1>5
<1> QED
  BY <1>3, <1>4, <1>8, <1>9, <1>10, <1>11 DEF CoversUpTo

\* The plan covers the batch.
LEMMA CoalescedCovers ==
  ASSUME batch \in Seq(Wanted), BatchInOrder
  PROVE  Covering(Coalesced)
<1>1. N \in Nat
  BY DEF N
<1>2. PICK g : /\ \A j \in 0 .. N : g[j] = IF j = 0 THEN <<>> ELSE WithRow(g[j - 1], j)
               /\ Coalesced = g[N]
  BY CoalescedRecursive
<1> DEFINE Good == {j \in 0 .. N : CoversUpTo(g[j], j)}
<1>3. 0 \in Good
  <2>1. 0 \in 0 .. N /\ g[0] = <<>>
    <3>1. 0 \in 0 .. N
      BY <1>1
    <3> QED
      BY <1>2, <3>1
  <2>2. CoversUpTo(<<>>, 0)
    <3>1. <<>> \in Seq(PageRange) /\ DOMAIN <<>> = {} /\ 1 .. 0 = {}
      OBVIOUS
    <3> QED
      BY <3>1 DEF CoversUpTo, Apart
  <2> QED
    BY <2>1, <2>2
<1>4. ASSUME NEW j \in 1 .. N, j - 1 \in Good PROVE j \in Good
  <2>1. j \in 0 .. N /\ j # 0 /\ CoversUpTo(g[j - 1], j - 1)
    BY <1>1, <1>4
  <2>2. g[j] = WithRow(g[j - 1], j)
    BY <1>2, <2>1
  <2>3. CoversUpTo(WithRow(g[j - 1], j), j)
    BY <2>1, JoinCovers, BeginCovers
  <2> QED
    BY <2>1, <2>2, <2>3
<1>5. N \in Good
  <2> HIDE DEF Good
  <2>1. \A j \in 1 .. N : j - 1 \in Good => j \in Good
    BY <1>4
  <2>2. \A j \in 0 .. N : j \in Good
    BY <1>1, <1>3, <2>1, InductionUpTo
  <2>3. N \in 0 .. N
    BY <1>1
  <2> QED
    BY <2>2, <2>3
<1>6. CoversUpTo(Coalesced, N)
  BY <1>2, <1>5
<1> QED
  BY <1>6 DEF CoversUpTo, Covering

-----------------------------------------------------------------------------
(* The ranges picked: apart, and every range is picked for the one or the other. *)

PickedUpTo(small, p, k) ==
  /\ p \in Seq({rg \in PageRange : Fits(rg) = small}) /\ Apart(p)
  /\ \A m \in DOMAIN p : \E i \in 1 .. k : p[m] = ranges[i]
  /\ \A i \in 1 .. k : Fits(ranges[i]) = small => \E m \in DOMAIN p : p[m] = ranges[i]

LEMMA PickKeepsApart ==
  ASSUME ranges \in Seq(PageRange), Apart(ranges), NEW small \in BOOLEAN,
         NEW k \in 1 .. Len(ranges), NEW p, PickedUpTo(small, p, k - 1)
  PROVE  PickedUpTo(small, PickNext(small, k, p), k)
<1> PICK p2 : p2 = PickNext(small, k, p)
  OBVIOUS
<1>1. /\ k \in Nat \ {0} /\ k \in DOMAIN ranges /\ DOMAIN ranges = 1 .. Len(ranges)
      /\ Len(ranges) \in Nat /\ Len(p) \in Nat /\ DOMAIN p = 1 .. Len(p)
  BY DEF PickedUpTo
<1>2. p2 \in Seq({rg \in PageRange : Fits(rg) = small})
  BY PickStays DEF PickedUpTo
<1>3. CASE Fits(ranges[k]) # small
  <2>1. p2 = p
    BY <1>3 DEF PickNext
  <2>2. \A i \in 1 .. k - 1 : i \in 1 .. k
    BY <1>1
  <2>3. \A i \in 1 .. k : i \in 1 .. k - 1 \/ i = k
    BY <1>1
  <2>4. \A m \in DOMAIN p : \E i \in 1 .. k : p[m] = ranges[i]
    BY <2>2 DEF PickedUpTo
  <2>5. \A i \in 1 .. k : Fits(ranges[i]) = small => \E m \in DOMAIN p : p[m] = ranges[i]
    BY <1>3, <2>3 DEF PickedUpTo
  <2> QED
    BY <2>1, <2>4, <2>5 DEF PickedUpTo
<1>4. CASE Fits(ranges[k]) = small
  <2> PICK l, new : l = Len(p) /\ new = ranges[k]
    OBVIOUS
  <2>1. p2 = Append(p, new) /\ p \in Seq({rg \in PageRange : Fits(rg) = small})
    BY <1>4 DEF PickNext, PickedUpTo
  <2>2. /\ DOMAIN p2 = 1 .. l + 1 /\ p2[l + 1] = new /\ \A m \in 1 .. l : p2[m] = p[m]
    BY <1>1, <2>1
  <2>3. ASSUME NEW m \in 1 .. l PROVE \E i \in 1 .. k - 1 : p[m] = ranges[i]
    BY <1>1 DEF PickedUpTo
  <2>4. Apart(p2)
    <3>1. ASSUME NEW m \in 1 .. l + 1, NEW n \in 1 .. l + 1, m < n
          PROVE  p2[m].off + p2[m].len <= p2[n].off
      <4>1. m \in 1 .. l
        BY <1>1, <3>1
      <4>2. CASE n \in 1 .. l
        <5>1. p[m].off + p[m].len <= p[n].off
          BY <1>1, <3>1, <4>1, <4>2 DEF PickedUpTo, Apart
        <5> QED
          BY <2>2, <4>1, <4>2, <5>1
      <4>3. CASE n = l + 1
        <5>1. PICK i \in 1 .. k - 1 : p[m] = ranges[i]
          BY <2>3, <4>1
        <5>2. i \in DOMAIN ranges /\ i < k
          BY <1>1
        <5>3. ranges[i].off + ranges[i].len <= ranges[k].off
          BY <1>1, <5>2 DEF Apart
        <5> QED
          BY <2>2, <4>1, <4>3, <5>1, <5>3
      <4> QED
        BY <1>1, <4>2, <4>3
    <3> QED
      BY <2>2, <3>1 DEF Apart
  <2>5. ASSUME NEW m \in 1 .. l + 1 PROVE \E i \in 1 .. k : p2[m] = ranges[i]
    <3>1. CASE m \in 1 .. l
      <4>1. PICK i \in 1 .. k - 1 : p[m] = ranges[i]
        BY <2>3, <3>1
      <4>2. i \in 1 .. k
        BY <1>1
      <4> QED
        BY <2>2, <3>1, <4>1, <4>2
    <3>2. CASE m = l + 1
      <4>1. k \in 1 .. k
        BY <1>1
      <4> QED
        BY <2>2, <3>2, <4>1
    <3> QED
      BY <1>1, <3>1, <3>2
  <2>6. ASSUME NEW i \in 1 .. k, Fits(ranges[i]) = small
        PROVE  \E m \in 1 .. l + 1 : p2[m] = ranges[i]
    <3>1. CASE i = k
      BY <1>1, <2>2, <3>1
    <3>2. CASE i # k
      <4>1. i \in 1 .. k - 1
        BY <1>1, <3>2
      <4>2. PICK m \in 1 .. l : p[m] = ranges[i]
        BY <1>1, <2>6, <4>1 DEF PickedUpTo
      <4>3. m \in 1 .. l + 1
        BY <1>1
      <4> QED
        BY <2>2, <4>2, <4>3
    <3> QED
      BY <3>1, <3>2
  <2> QED
    BY <1>2, <2>2, <2>4, <2>5, <2>6 DEF PickedUpTo
<1> QED
  BY <1>3, <1>4

LEMMA PickedApart ==
  ASSUME ranges \in Seq(PageRange), Apart(ranges), NEW small \in BOOLEAN
  PROVE  PickedUpTo(small, Picked(small), Len(ranges))
<1> PICK n : n = Len(ranges)
  OBVIOUS
<1>1. n \in Nat
  OBVIOUS
<1>2. PICK g : /\ \A k \in 0 .. n : g[k] = IF k = 0 THEN <<>> ELSE PickNext(small, k, g[k - 1])
               /\ Picked(small) = g[n]
  BY PickedRecursive
<1> DEFINE Good == {k \in 0 .. n : PickedUpTo(small, g[k], k)}
<1>3. 0 \in Good
  <2>1. 0 \in 0 .. n
    BY <1>1
  <2>2. g[0] = <<>>
    BY <1>2, <2>1
  <2>3. PickedUpTo(small, <<>>, 0)
    <3>1. DOMAIN <<>> = {} /\ 1 .. 0 = {}
      OBVIOUS
    <3> QED
      BY <3>1, EmptySeq DEF PickedUpTo, Apart
  <2> QED
    BY <2>1, <2>2, <2>3
<1>4. ASSUME NEW k \in 1 .. n, k - 1 \in Good PROVE k \in Good
  <2>1. k \in 0 .. n /\ k # 0 /\ PickedUpTo(small, g[k - 1], k - 1)
    BY <1>1, <1>4
  <2>2. g[k] = PickNext(small, k, g[k - 1])
    BY <1>2, <2>1
  <2>3. PickedUpTo(small, PickNext(small, k, g[k - 1]), k)
    BY <2>1, PickKeepsApart
  <2> QED
    BY <2>1, <2>2, <2>3
<1>5. n \in Good
  <2> HIDE DEF Good
  <2>1. \A k \in 1 .. n : k - 1 \in Good => k \in Good
    BY <1>4
  <2>2. \A k \in 0 .. n : k \in Good
    BY <1>1, <1>3, <2>1, InductionUpTo
  <2>3. n \in 0 .. n
    BY <1>1
  <2> QED
    BY <2>2, <2>3
<1> QED
  BY <1>2, <1>5

-----------------------------------------------------------------------------
(* What the ranges hold, counted.                                          *)

LEMMA ReachSize ==
  ASSUME NEW rg \in PageRange
  PROVE  /\ Reach(rg) \subseteq Rows /\ IsFiniteSet(Reach(rg)) /\ Cardinality(Reach(rg)) = rg.len
<1>1. /\ rg.off \in Int /\ rg.off + rg.len - 1 \in Int /\ rg.len \in Nat \ {0} /\ rg.off \in Nat
      /\ rg.off + rg.len <= RowCount /\ RowCount \in Nat
  BY RangeNumbers, RowsAreNat
<1> PICK a, b : a = rg.off /\ b = rg.off + rg.len - 1
  OBVIOUS
<1>2. a \in Int /\ b \in Int
  BY <1>1
<1>3. IsFiniteSet(a .. b) /\ Cardinality(a .. b) = IF a > b THEN 0 ELSE b - a + 1
  BY ONLY <1>2, FS_Interval
<1>4. ~(a > b) /\ b - a + 1 = rg.len
  BY <1>1
<1>5. a .. b \subseteq 0 .. RowCount - 1
  BY <1>1
<1>6. Reach(rg) = a .. b
  BY DEF Reach
<1> QED
  BY <1>3, <1>4, <1>5, <1>6 DEF Rows

CoveredBy(rs, i) == {r \in Rows : \E k \in 1 .. i : r \in Reach(rs[k])}

LEMMA BytesCounted ==
  ASSUME NEW rs \in Seq(PageRange), Apart(rs)
  PROVE  IsFiniteSet(CoveredBy(rs, Len(rs))) /\ Cardinality(CoveredBy(rs, Len(rs))) = Bytes(rs)
<1> PICK n : n = Len(rs)
  OBVIOUS
<1>1. n \in Nat /\ DOMAIN rs = 1 .. n /\ \A i \in 1 .. n : rs[i] \in PageRange
  OBVIOUS
<1>2. PICK g : /\ \A i \in 0 .. n : g[i] = IF i = 0 THEN 0 ELSE g[i - 1] + rs[i].len
               /\ Bytes(rs) = g[n]
  BY BytesRecursive
<1> DEFINE Good == {i \in 0 .. n : IsFiniteSet(CoveredBy(rs, i)) /\ Cardinality(CoveredBy(rs, i)) = g[i]}
<1>3. 0 \in Good
  <2>1. CoveredBy(rs, 0) = {} /\ 0 \in 0 .. n
    BY <1>1 DEF CoveredBy
  <2>2. g[0] = 0
    BY <1>2, <2>1
  <2> QED
    BY <2>1, <2>2, FS_EmptySet
<1>4. ASSUME NEW i \in 1 .. n, i - 1 \in Good PROVE i \in Good
  <2>1. /\ i \in 0 .. n /\ i # 0 /\ IsFiniteSet(CoveredBy(rs, i - 1))
        /\ Cardinality(CoveredBy(rs, i - 1)) = g[i - 1]
    BY <1>1, <1>4
  <2>2. g[i] = g[i - 1] + rs[i].len
    BY <1>2, <2>1
  <2>3. /\ Reach(rs[i]) \subseteq Rows /\ IsFiniteSet(Reach(rs[i]))
        /\ Cardinality(Reach(rs[i])) = rs[i].len
    BY <1>1, ReachSize
  <2>4. \A k \in 1 .. i : k \in 1 .. i - 1 \/ k = i
    OBVIOUS
  <2>5. \A k \in 1 .. i - 1 : k \in 1 .. i /\ k \in 1 .. n /\ k < i
    BY <1>1
  <2>6. CoveredBy(rs, i) = CoveredBy(rs, i - 1) \union Reach(rs[i])
    <3>1. i \in 1 .. i
      OBVIOUS
    <3> QED
      BY <2>3, <2>4, <2>5, <3>1 DEF CoveredBy
  <2>7. CoveredBy(rs, i - 1) \cap Reach(rs[i]) = {}
    <3>1. ASSUME NEW r \in Rows, NEW k \in 1 .. i - 1, r \in Reach(rs[k]), r \in Reach(rs[i])
          PROVE  FALSE
      <4>1. rs[k].off + rs[k].len <= rs[i].off
        BY <1>1, <2>5 DEF Apart
      <4>2. rs[k] \in PageRange /\ rs[i] \in PageRange
        BY <1>1, <2>5
      <4>3. rs[k].off \in Nat /\ rs[k].len \in Nat /\ rs[i].off \in Nat /\ rs[i].len \in Nat
        BY <4>2, RangeNumbers
      <4> PICK a, b, c, d : a = rs[k].off /\ b = rs[k].len /\ c = rs[i].off /\ d = rs[i].len
        OBVIOUS
      <4>4. r \in a .. a + b - 1 /\ r \in c .. c + d - 1
        BY <3>1 DEF Reach
      <4>5. a \in Nat /\ b \in Nat /\ c \in Nat /\ d \in Nat /\ a + b <= c
        BY <4>1, <4>3
      <4> QED
        BY ONLY <4>4, <4>5
    <3> QED
      BY <3>1 DEF CoveredBy
  <2>8. /\ IsFiniteSet(CoveredBy(rs, i))
        /\ Cardinality(CoveredBy(rs, i)) = Cardinality(CoveredBy(rs, i - 1)) + Cardinality(Reach(rs[i]))
             - Cardinality(CoveredBy(rs, i - 1) \cap Reach(rs[i]))
    BY <2>1, <2>3, <2>6, FS_Union
  <2>9. Cardinality(CoveredBy(rs, i - 1) \cap Reach(rs[i])) = 0
    BY <2>7, FS_EmptySet
  <2>10. Cardinality(CoveredBy(rs, i - 1)) \in Nat /\ rs[i].len \in Nat
    BY <1>1, <2>1, FS_CardinalityType, RangeNumbers
  <2>11. Cardinality(CoveredBy(rs, i)) = g[i]
    BY <2>1, <2>2, <2>3, <2>8, <2>9, <2>10
  <2> QED
    BY <2>1, <2>8, <2>11
<1>5. n \in Good
  <2> HIDE DEF Good
  <2>1. \A i \in 1 .. n : i - 1 \in Good => i \in Good
    BY <1>4
  <2>2. \A i \in 0 .. n : i \in Good
    BY <1>1, <1>3, <2>1, InductionUpTo
  <2>3. n \in 0 .. n
    BY <1>1
  <2> QED
    BY <2>2, <2>3
<1> QED
  BY <1>2, <1>5

-----------------------------------------------------------------------------
(* The numbering of the reads: every column of every range once.           *)

LEMMA DivideExact ==
  ASSUME NEW a \in Nat, NEW b \in Nat \ {0}
  PROVE  a = (a \div b) * b + (a % b)
OBVIOUS

LEMMA TaskNumbered ==
  ASSUME NEW L \in Nat, NEW M \in Nat \ {0}, NEW k \in 1 .. L, NEW c \in 0 .. M - 1
  PROVE  \E t \in 0 .. L * M - 1 : t \div M + 1 = k /\ t % M = c
<1> PICK m, t : m = k - 1 /\ t = m * M + c
  OBVIOUS
<1>1. m \in Nat /\ m < L /\ m * M \in Nat /\ t \in Nat /\ c \in Nat /\ c < M
  OBVIOUS
<1>2. t < L * M
  <2>1. m * M + M <= L * M
    BY <1>1, MoreMultiples
  <2>2. L * M \in Nat
    OBVIOUS
  <2> PICK p, q : p = m * M /\ q = L * M
    OBVIOUS
  <2> QED
    BY <1>1, <2>1, <2>2
<1> PICK x : x = t \div M
  OBVIOUS
<1>3. x \in Nat /\ x * M \in Nat /\ x * M <= t /\ t < x * M + M /\ t = x * M + (t % M)
  BY <1>1, DivideDown, DivideExact
<1>4. x = m
  <2> PICK p, q : p = m * M /\ q = x * M
    OBVIOUS
  <2>1. p \in Nat /\ q \in Nat /\ q <= t /\ t < q + M /\ t = p + c
    BY <1>1, <1>3
  <2>2. x < m => q + M <= p
    BY <1>1, <1>3, MoreMultiples
  <2>3. m < x => p + M <= q
    BY <1>1, <1>3, MoreMultiples
  <2>4. ~(x < m) /\ ~(m < x)
    BY <1>1, <2>1, <2>2, <2>3
  <2> QED
    BY <1>1, <1>3, <2>4
<1>5. t % M = c
  <2>1. t % M \in Nat
    BY <1>1, DivideDown
  <2> PICK p, q : p = m * M /\ q = t % M
    OBVIOUS
  <2>2. p \in Nat /\ q \in Nat /\ t = p + c /\ t = p + q
    BY <1>1, <1>3, <1>4, <2>1
  <2> QED
    BY <1>1, <2>2
<1>6. t \div M + 1 = k
  BY <1>4
<1>7. t \in 0 .. L * M - 1
  BY <1>1, <1>2
<1> QED
  BY <1>5, <1>6, <1>7

LEMMA NumbersDiffer ==
  ASSUME NEW M \in Nat \ {0}, NEW t \in Nat, NEW u \in Nat, t # u
  PROVE  t \div M # u \div M \/ t % M # u % M
<1>1. t = (t \div M) * M + (t % M) /\ u = (u \div M) * M + (u % M)
  BY DivideExact
<1> SUFFICES ASSUME t \div M = u \div M, t % M = u % M PROVE FALSE
  OBVIOUS
<1> QED
  BY <1>1

\* The numbers of the reads of a sequence of ranges.
LEMMA NumberSplit ==
  ASSUME NEW rs, NEW L, rs \in Seq(PageRange), L = Len(rs), NEW t \in 0 .. L * MeasureCount - 1
  PROVE  /\ t \in Nat /\ t \div MeasureCount \in Nat /\ t \div MeasureCount + 1 \in 1 .. L
         /\ t % MeasureCount \in Columns
         /\ rs[t \div MeasureCount + 1] \in PageRange
<1>1. L \in Nat /\ MeasureCount \in Nat \ {0} /\ L * MeasureCount \in Nat
  BY RowsAreNat
<1>2. t \in Nat /\ t < L * MeasureCount
  BY <1>1
<1>3. t \div MeasureCount \in 0 .. L - 1
  BY <1>1, <1>2, DivideBelow
<1>4. t % MeasureCount \in Columns
  BY <1>1, <1>2, DivideDown DEF Columns
<1> QED
  BY <1>1, <1>2, <1>3, <1>4

\* Two reads share no value.
Others(c, rg, d, rh) == c = d => Reach(rg) \cap Reach(rh) = {}

LEMMA OthersSymmetric ==
  ASSUME NEW c, NEW rg, NEW d, NEW rh, Others(c, rg, d, rh) PROVE Others(d, rh, c, rg)
BY DEF Others

LEMMA BesideEachOther ==
  ASSUME NEW rs \in Seq(PageRange), Apart(rs), NEW k \in DOMAIN rs, NEW l \in DOMAIN rs, k # l
  PROVE  Reach(rs[k]) \cap Reach(rs[l]) = {}
<1>1. ASSUME NEW i \in DOMAIN rs, NEW j \in DOMAIN rs, i < j PROVE Reach(rs[i]) \cap Reach(rs[j]) = {}
  <2> PICK a, b, c, d : a = rs[i].off /\ b = rs[i].len /\ c = rs[j].off /\ d = rs[j].len
    OBVIOUS
  <2>1. a + b <= c
    BY <1>1 DEF Apart
  <2>2. rs[i] \in PageRange /\ rs[j] \in PageRange
    OBVIOUS
  <2>3. a \in Nat /\ b \in Nat /\ c \in Nat /\ d \in Nat
    BY <2>2, RangeNumbers
  <2>4. Reach(rs[i]) = a .. a + b - 1 /\ Reach(rs[j]) = c .. c + d - 1
    BY DEF Reach
  <2>5. (a .. a + b - 1) \cap (c .. c + d - 1) = {}
    BY ONLY <2>1, <2>3
  <2> QED
    BY <2>4, <2>5
<1>2. k < l \/ l < k
  OBVIOUS
<1> QED
  BY <1>1, <1>2

LEMMA ReadsApart ==
  ASSUME NEW rs, NEW L, rs \in Seq(PageRange), L = Len(rs), Apart(rs),
         NEW t \in 0 .. L * MeasureCount - 1, NEW u \in 0 .. L * MeasureCount - 1, t # u
  PROVE  Others(t % MeasureCount, rs[t \div MeasureCount + 1],
                u % MeasureCount, rs[u \div MeasureCount + 1])
<1> PICK x, y : x = t \div MeasureCount /\ y = u \div MeasureCount
  OBVIOUS
<1>1. t \in Nat /\ u \in Nat /\ x \in Nat /\ y \in Nat /\ x + 1 \in 1 .. L /\ y + 1 \in 1 .. L
  BY NumberSplit
<1>2. x # y \/ t % MeasureCount # u % MeasureCount
  BY <1>1, NumbersDiffer, RowsAreNat
<1>3. ASSUME x # y PROVE Reach(rs[x + 1]) \cap Reach(rs[y + 1]) = {}
  <2>1. x + 1 \in DOMAIN rs /\ y + 1 \in DOMAIN rs /\ x + 1 # y + 1
    BY <1>1, <1>3
  <2> QED
    BY <2>1, BesideEachOther
<1> QED
  BY <1>2, <1>3 DEF Others
-----------------------------------------------------------------------------
(* The two lists of ranges.                                                *)

LEMMA ListsPlanned ==
  ASSUME PlanSound, Apart(ranges)
  PROVE  /\ Small \in Seq(PageRange) /\ Apart(Small) /\ Len(Small) \in Nat
         /\ Large \in Seq(PageRange) /\ Apart(Large) /\ Len(Large) \in Nat
         /\ \A m \in DOMAIN Small : Fits(Small[m]) /\ \E k \in DOMAIN ranges : Small[m] = ranges[k]
         /\ \A m \in DOMAIN Large : \E k \in DOMAIN ranges : Large[m] = ranges[k]
         /\ ring = "live" => \A m \in DOMAIN Large : ~Fits(Large[m])
         /\ ring = "live" => \A k \in DOMAIN ranges :
              \/ \E m \in DOMAIN Small : Small[m] = ranges[k]
              \/ \E m \in DOMAIN Large : Large[m] = ranges[k]
         /\ ring # "live" => Large = ranges
<1>1. ranges \in Seq(PageRange) /\ DOMAIN ranges = 1 .. Len(ranges)
  BY DEF PlanSound
<1>2. PickedUpTo(TRUE, Small, Len(ranges)) /\ PickedUpTo(FALSE, Picked(FALSE), Len(ranges))
  BY <1>1, PickedApart DEF Small
<1>3. Small \in Seq(PageRange) /\ Large \in Seq(PageRange)
  <2>1. {rg \in PageRange : rg.len <= SlotRows} \subseteq PageRange
    OBVIOUS
  <2>2. Small \in Seq(PageRange)
    BY <2>1, SmallIsPlanned, SeqMonotonic
  <2> QED
    BY <2>2, SmallIsPlanned
<1>4. /\ Apart(Small)
      /\ \A m \in DOMAIN Small : \E k \in DOMAIN ranges : Small[m] = ranges[k]
      /\ \A k \in DOMAIN ranges : Fits(ranges[k]) = TRUE => \E m \in DOMAIN Small : Small[m] = ranges[k]
  BY <1>1, <1>2 DEF PickedUpTo
<1>5. \A m \in DOMAIN Small : Fits(Small[m])
  <2>1. Small \in Seq({rg \in PageRange : rg.len <= SlotRows})
    BY SmallIsPlanned
  <2>2. \A m \in DOMAIN Small : Small[m] \in {rg \in PageRange : rg.len <= SlotRows}
    BY <2>1, ElementOfSeq
  <2> QED
    BY <2>2 DEF Fits
<1>6. CASE ring # "live"
  <2>1. Large = ranges
    BY <1>6 DEF Large
  <2> QED
    BY <1>1, <1>3, <1>4, <1>5, <1>6, <2>1
<1>7. CASE ring = "live"
  <2>1. Large = Picked(FALSE)
    BY <1>7 DEF Large
  <2>2. /\ Apart(Large)
        /\ \A m \in DOMAIN Large : \E k \in DOMAIN ranges : Large[m] = ranges[k]
        /\ \A k \in DOMAIN ranges : Fits(ranges[k]) = FALSE => \E m \in DOMAIN Large : Large[m] = ranges[k]
    BY <1>1, <1>2, <2>1 DEF PickedUpTo
  <2>3. \A m \in DOMAIN Large : ~Fits(Large[m])
    <3>1. Picked(FALSE) \in Seq({rg \in PageRange : Fits(rg) = FALSE})
      BY <1>2 DEF PickedUpTo
    <3> PICK rs : rs = Large
      OBVIOUS
    <3>2. \A m \in DOMAIN rs : rs[m] \in {rg \in PageRange : Fits(rg) = FALSE}
      <4>1. rs \in Seq({rg \in PageRange : Fits(rg) = FALSE})
        BY <2>1, <3>1
      <4> QED
        BY <4>1, ElementOfSeq
    <3> QED
      BY <3>2
  <2>4. ASSUME NEW k \in DOMAIN ranges
        PROVE  \/ \E m \in DOMAIN Small : Small[m] = ranges[k]
               \/ \E m \in DOMAIN Large : Large[m] = ranges[k]
    <3>1. Fits(ranges[k]) \in BOOLEAN
      BY DEF Fits
    <3> QED
      BY <1>4, <2>2, <3>1
  <2> QED
    BY <1>3, <1>4, <1>5, <1>7, <2>2, <2>3, <2>4
<1> QED
  BY <1>6, <1>7

\* The reads of the plan lie in its ranges, and no two of them share a value.
LEMMA TheReads ==
  ASSUME PlanSound, Apart(ranges)
  PROVE  /\ \A t \in Tasks : /\ TaskColumn(t) \in Columns /\ TaskRange(t) \in PageRange /\ t \in Nat
                             /\ \E k \in DOMAIN ranges : TaskRange(t) = ranges[k]
         /\ \A d \in Reads : /\ d % MeasureCount \in Columns /\ LargeRange(d) \in PageRange /\ d \in Nat
                             /\ \E k \in DOMAIN ranges : LargeRange(d) = ranges[k]
         /\ \A t, u \in Tasks : t # u => Others(TaskColumn(t), TaskRange(t), TaskColumn(u), TaskRange(u))
         /\ \A d, e \in Reads : d # e =>
              Others(d % MeasureCount, LargeRange(d), e % MeasureCount, LargeRange(e))
         /\ ring = "live" => \A t \in Tasks, d \in Reads :
              Others(TaskColumn(t), TaskRange(t), d % MeasureCount, LargeRange(d))
<1>1. /\ Small \in Seq(PageRange) /\ Apart(Small) /\ Len(Small) \in Nat
      /\ Large \in Seq(PageRange) /\ Apart(Large) /\ Len(Large) \in Nat
      /\ \A m \in DOMAIN Small : Fits(Small[m]) /\ \E k \in DOMAIN ranges : Small[m] = ranges[k]
      /\ \A m \in DOMAIN Large : \E k \in DOMAIN ranges : Large[m] = ranges[k]
      /\ ring = "live" => \A m \in DOMAIN Large : ~Fits(Large[m])
      /\ DOMAIN Small = 1 .. Len(Small) /\ DOMAIN Large = 1 .. Len(Large)
  BY ListsPlanned
<1>2. Tasks = 0 .. Len(Small) * MeasureCount - 1
  BY DEF Tasks, Total
<1>3. ASSUME NEW t \in Tasks
      PROVE  /\ TaskColumn(t) \in Columns /\ TaskRange(t) \in PageRange /\ t \in Nat
             /\ \E k \in DOMAIN ranges : TaskRange(t) = ranges[k]
             /\ Fits(TaskRange(t))
  <2> PICK L, rs : L = Len(Small) /\ rs = Small
    OBVIOUS
  <2>1. t \in 0 .. L * MeasureCount - 1 /\ rs \in Seq(PageRange) /\ L = Len(rs)
    BY <1>1, <1>2
  <2>2. /\ t \in Nat /\ t \div MeasureCount + 1 \in 1 .. L
        /\ t % MeasureCount \in Columns /\ rs[t \div MeasureCount + 1] \in PageRange
    BY <2>1, NumberSplit
  <2> QED
    BY <1>1, <2>2 DEF TaskColumn, TaskRange
<1>4. ASSUME NEW d \in Reads
      PROVE  /\ d % MeasureCount \in Columns /\ LargeRange(d) \in PageRange /\ d \in Nat
             /\ \E k \in DOMAIN ranges : LargeRange(d) = ranges[k]
             /\ ring = "live" => ~Fits(LargeRange(d))
  <2> PICK L, rs : L = Len(Large) /\ rs = Large
    OBVIOUS
  <2>1. d \in 0 .. L * MeasureCount - 1 /\ rs \in Seq(PageRange) /\ L = Len(rs)
    BY <1>1 DEF Reads
  <2>2. /\ d \in Nat /\ d \div MeasureCount + 1 \in 1 .. L
        /\ d % MeasureCount \in Columns /\ rs[d \div MeasureCount + 1] \in PageRange
    BY <2>1, NumberSplit
  <2> QED
    BY <1>1, <2>2 DEF LargeRange
<1>5. ASSUME NEW t \in Tasks, NEW u \in Tasks, t # u
      PROVE  Others(TaskColumn(t), TaskRange(t), TaskColumn(u), TaskRange(u))
  <2> PICK L, rs : L = Len(Small) /\ rs = Small
    OBVIOUS
  <2>1. /\ t \in 0 .. L * MeasureCount - 1 /\ u \in 0 .. L * MeasureCount - 1
        /\ rs \in Seq(PageRange) /\ L = Len(rs) /\ Apart(rs)
    BY <1>1, <1>2
  <2>2. Others(t % MeasureCount, rs[t \div MeasureCount + 1],
               u % MeasureCount, rs[u \div MeasureCount + 1])
    BY <1>5, <2>1, ReadsApart
  <2> QED
    BY <2>2 DEF TaskColumn, TaskRange
<1>6. ASSUME NEW d \in Reads, NEW e \in Reads, d # e
      PROVE  Others(d % MeasureCount, LargeRange(d), e % MeasureCount, LargeRange(e))
  <2> PICK L, rs : L = Len(Large) /\ rs = Large
    OBVIOUS
  <2>1. /\ d \in 0 .. L * MeasureCount - 1 /\ e \in 0 .. L * MeasureCount - 1
        /\ rs \in Seq(PageRange) /\ L = Len(rs) /\ Apart(rs)
    BY <1>1 DEF Reads
  <2>2. Others(d % MeasureCount, rs[d \div MeasureCount + 1],
               e % MeasureCount, rs[e \div MeasureCount + 1])
    BY <1>6, <2>1, ReadsApart
  <2> QED
    BY <2>2 DEF LargeRange
<1>7. ASSUME ring = "live", NEW t \in Tasks, NEW d \in Reads
      PROVE  Others(TaskColumn(t), TaskRange(t), d % MeasureCount, LargeRange(d))
  <2>1. Fits(TaskRange(t)) /\ ~Fits(LargeRange(d))
    BY <1>3, <1>4, <1>7
  <2>2. PICK k \in DOMAIN ranges : TaskRange(t) = ranges[k]
    BY <1>3
  <2>3. PICK l \in DOMAIN ranges : LargeRange(d) = ranges[l]
    BY <1>4
  <2>4. k # l
    BY <2>1, <2>2, <2>3
  <2>5. ranges \in Seq(PageRange)
    BY DEF PlanSound
  <2>6. Reach(ranges[k]) \cap Reach(ranges[l]) = {}
    BY <2>4, <2>5, BesideEachOther
  <2> QED
    BY <2>2, <2>3, <2>6 DEF Others
<1> QED
  BY <1>3, <1>4, <1>5, <1>6, <1>7

\* And there is one for every column of every range.
LEMMA EveryRangeIsRead ==
  ASSUME PlanSound, Apart(ranges), NEW c \in Columns, NEW k \in DOMAIN ranges
  PROVE  \/ \E d \in Reads : LargeRange(d) = ranges[k] /\ d % MeasureCount = c
         \/ ring = "live" /\ \E t \in Tasks : TaskRange(t) = ranges[k] /\ TaskColumn(t) = c
<1>1. /\ Small \in Seq(PageRange) /\ Len(Small) \in Nat
      /\ Large \in Seq(PageRange) /\ Len(Large) \in Nat
      /\ ring = "live" => \/ \E m \in DOMAIN Small : Small[m] = ranges[k]
                          \/ \E m \in DOMAIN Large : Large[m] = ranges[k]
      /\ ring # "live" => Large = ranges
      /\ MeasureCount \in Nat \ {0} /\ c \in 0 .. MeasureCount - 1
  BY ListsPlanned, RowsAreNat DEF Columns
<1>2. ASSUME NEW m \in DOMAIN Large, Large[m] = ranges[k]
      PROVE  \E d \in Reads : LargeRange(d) = ranges[k] /\ d % MeasureCount = c
  <2> PICK L, rs : L = Len(Large) /\ rs = Large
    OBVIOUS
  <2>1. m \in 1 .. L /\ L \in Nat /\ MeasureCount \in Nat \ {0} /\ c \in 0 .. MeasureCount - 1
    BY <1>1
  <2>2. \E d \in 0 .. L * MeasureCount - 1 : d \div MeasureCount + 1 = m /\ d % MeasureCount = c
    BY ONLY <2>1, TaskNumbered, ZenonT(60)
  <2>3. PICK d \in 0 .. L * MeasureCount - 1 : d \div MeasureCount + 1 = m /\ d % MeasureCount = c
    BY <2>2
  <2> QED
    BY <1>2, <2>3 DEF Reads, LargeRange
<1>3. ASSUME NEW m \in DOMAIN Small, Small[m] = ranges[k]
      PROVE  \E t \in Tasks : TaskRange(t) = ranges[k] /\ TaskColumn(t) = c
  <2> PICK L, rs : L = Len(Small) /\ rs = Small
    OBVIOUS
  <2>1. m \in 1 .. L /\ L \in Nat /\ MeasureCount \in Nat \ {0} /\ c \in 0 .. MeasureCount - 1
    BY <1>1
  <2>2. \E t \in 0 .. L * MeasureCount - 1 : t \div MeasureCount + 1 = m /\ t % MeasureCount = c
    BY ONLY <2>1, TaskNumbered, ZenonT(60)
  <2>3. PICK t \in 0 .. L * MeasureCount - 1 : t \div MeasureCount + 1 = m /\ t % MeasureCount = c
    BY <2>2
  <2> QED
    BY <1>3, <2>3 DEF Tasks, Total, TaskRange, TaskColumn
<1> QED
  BY <1>1, <1>2, <1>3

-----------------------------------------------------------------------------
(* What reading some values, and writing some places, changes.             *)

Span(c, a, n) == {<<c, a + b>> : b \in 0 .. n - 1}

LEMMA SpanCount ==
  ASSUME NEW c \in Columns, NEW a \in Nat, NEW n \in Nat, a + n <= RowCount
  PROVE  /\ Span(c, a, n) \in SUBSET Value /\ IsFiniteSet(Span(c, a, n))
         /\ Cardinality(Span(c, a, n)) = n
         /\ \A d, r : <<d, r>> \in Span(c, a, n) <=> d = c /\ r \in a .. a + n - 1
<1> PICK z : z = a + n - 1
  OBVIOUS
<1>1. a \in Int /\ z \in Int /\ (a > z <=> n = 0) /\ z - a + 1 = n /\ RowCount \in Nat
      /\ a .. z \subseteq 0 .. RowCount - 1
  BY RowsAreNat
<1>2. IsFiniteSet(a .. z) /\ Cardinality(a .. z) = IF a > z THEN 0 ELSE z - a + 1
  BY ONLY <1>1, FS_Interval
<1>3. Cardinality(a .. z) = n
  BY <1>1, <1>2
<1>4. Span(c, a, n) = {c} \X (a .. z)
  <2>1. ASSUME NEW r \in a .. z PROVE \E b \in 0 .. n - 1 : r = a + b
    <3>1. r - a \in 0 .. n - 1 /\ r = a + (r - a)
      BY <1>1
    <3> QED
      BY <3>1
  <2>2. \A b \in 0 .. n - 1 : a + b \in a .. z
    BY <1>1
  <2> QED
    BY <2>1, <2>2 DEF Span
<1>5. IsFiniteSet({c}) /\ Cardinality({c}) = 1
  BY FS_Singleton
<1> PICK S, T : S = {c} /\ T = a .. z
  OBVIOUS
<1>6. IsFiniteSet(S \X T) /\ Cardinality(S \X T) = Cardinality(S) * Cardinality(T)
  BY <1>2, <1>5, FS_Product
<1>7. Cardinality(S \X T) = n
  BY <1>3, <1>5, <1>6
<1>8. Span(c, a, n) \in SUBSET Value
  BY <1>1, <1>4 DEF Value, Rows
<1>9. \A d, r : <<d, r>> \in {c} \X (a .. z) <=> d = c /\ r \in a .. z
  OBVIOUS
<1> QED
  BY <1>4, <1>6, <1>7, <1>8, <1>9

LEMMA ValuesFinite ==
  /\ IsFiniteSet(Columns) /\ Cardinality(Columns) = MeasureCount
  /\ IsFiniteSet(Rows) /\ IsFiniteSet(Value) /\ IsFiniteSet(Moved)
<1> PICK M, R : M = MeasureCount - 1 /\ R = RowCount - 1
  OBVIOUS
<1>1. 0 \in Int /\ M \in Int /\ R \in Int /\ ~(0 > M) /\ M - 0 + 1 = MeasureCount
  BY RowsAreNat
<1>2. IsFiniteSet(0 .. M) /\ Cardinality(0 .. M) = IF 0 > M THEN 0 ELSE M - 0 + 1
  BY ONLY <1>1, FS_Interval
<1>3. IsFiniteSet(0 .. R)
  BY ONLY <1>1, FS_Interval
<1>4. IsFiniteSet(Columns) /\ IsFiniteSet(Rows) /\ Cardinality(Columns) = MeasureCount
  BY <1>1, <1>2, <1>3 DEF Columns, Rows
<1>5. IsFiniteSet(Value)
  BY <1>4, FS_Product DEF Value
<1>6. Moved \in SUBSET Value
  BY DEF Moved
<1> QED
  BY <1>4, <1>5, <1>6, FS_Subset

LEMMA CountedEffect ==
  ASSUME ReadOnce, NEW A \in SUBSET Value, A \cap Moved = {}, deviceReads' = Counted(A)
  PROVE  /\ ReadOnce' /\ Moved' = Moved \union A
         /\ \A v \in Value : v \notin A => deviceReads'[v] = deviceReads[v]
         /\ \A v \in A : deviceReads'[v] = 1
<1>1. \A v \in Value : deviceReads'[v] = deviceReads[v] + IF v \in A THEN 1 ELSE 0
  BY DEF Counted
<1>2. \A v \in Value : deviceReads[v] \in {0, 1}
  BY DEF ReadOnce
<1>3. \A v \in A : v \in Value /\ deviceReads[v] = 0
  BY <1>2 DEF Moved
<1>4. \A v \in A : deviceReads'[v] = 1
  BY <1>1, <1>3
<1>5. \A v \in Value : v \notin A => deviceReads'[v] = deviceReads[v]
  BY <1>1, <1>2
<1>6. ReadOnce'
  <2>1. ASSUME NEW v \in Value PROVE deviceReads'[v] \in {0, 1}
    BY <1>2, <1>4, <1>5
  <2> QED
    BY <2>1 DEF ReadOnce, Value
<1>7. Moved' = {v \in Value : deviceReads'[v] = 1}
  BY DEF Moved
<1>8. \A v \in Value : deviceReads'[v] = 1 <=> v \in A \/ deviceReads[v] = 1
  BY <1>4, <1>5
<1>9. Moved' = Moved \union A
  BY <1>3, <1>7, <1>8 DEF Moved
<1> QED
  BY <1>4, <1>5, <1>6, <1>9

LEMMA MovedGrows ==
  ASSUME ReadOnce, NEW A \in SUBSET Value, A \cap Moved = {}, deviceReads' = Counted(A),
         IsFiniteSet(A)
  PROVE  Cardinality(Moved') = Cardinality(Moved) + Cardinality(A)
<1>1. Moved' = Moved \union A
  BY CountedEffect
<1> PICK S : S = Moved
  OBVIOUS
<1>2. IsFiniteSet(S) /\ S \cap A = {}
  BY ValuesFinite
<1>3. Cardinality(S \union A) = Cardinality(S) + Cardinality(A) - Cardinality(S \cap A)
  BY <1>2, FS_Union
<1>4. Cardinality(S \cap A) = 0 /\ Cardinality(S) \in Nat /\ Cardinality(A) \in Nat
  BY <1>2, FS_EmptySet, FS_CardinalityType
<1> QED
  BY <1>1, <1>3, <1>4

\* A step reads nothing but values of one range in one column.
OnlyReads(c, rg) == \A d \in Columns, r \in Rows :
  deviceReads'[<<d, r>>] = deviceReads[<<d, r>>] \/ (d = c /\ r \in Reach(rg))
\* What is in its place stays there.
OutsStay == \A c \in Columns, i \in 1 .. N : InPlace(c, i) => outs'[c][i] = <<c, batch[i].row>>

LEMMA InRange ==
  ASSUME NEW rg \in PageRange, NEW b \in 0 .. rg.len - 1
  PROVE  rg.off + b \in Rows /\ rg.off + b \in Reach(rg)
<1>1. /\ rg.off \in Nat /\ rg.len \in Nat \ {0} /\ rg.off + rg.len <= RowCount /\ RowCount \in Nat
  BY RangeNumbers, RowsAreNat
<1> QED
  BY <1>1 DEF Rows, Reach

LEMMA OffsetInRange ==
  ASSUME NEW rg \in PageRange, NEW r \in Reach(rg)
  PROVE  r - rg.off \in 0 .. rg.len - 1 /\ rg.off + (r - rg.off) = r /\ r \in Rows
<1>1. /\ rg.off \in Nat /\ rg.len \in Nat \ {0} /\ rg.off + rg.len <= RowCount /\ RowCount \in Nat
  BY RangeNumbers, RowsAreNat
<1>2. r \in rg.off .. rg.off + rg.len - 1
  BY DEF Reach
<1> QED
  BY <1>1, <1>2 DEF Rows

LEMMA OtherReadsKept ==
  ASSUME NEW c \in Columns, NEW rg \in PageRange, NEW n, NEW d, NEW rh,
         OnlyReads(d, rh), Others(c, rg, d, rh), ReadUpTo(c, rg, n)
  PROVE  ReadUpTo(c, rg, n)'
<1>1. ASSUME NEW b \in 0 .. rg.len - 1
      PROVE  deviceReads'[<<c, rg.off + b>>] = IF b < n THEN 1 ELSE 0
  <2> PICK r : r = rg.off + b
    OBVIOUS
  <2>1. r \in Rows /\ r \in Reach(rg)
    BY InRange
  <2>2. deviceReads[<<c, r>>] = IF b < n THEN 1 ELSE 0
    BY DEF ReadUpTo
  <2>3. ~(c = d /\ r \in Reach(rh))
    BY <2>1 DEF Others
  <2>4. deviceReads'[<<c, r>>] = deviceReads[<<c, r>>]
    BY <2>1, <2>3 DEF OnlyReads
  <2> QED
    BY <2>2, <2>4
<1> QED
  BY <1>1 DEF ReadUpTo

\* Reading the values of a range: the values before n have been read, now those
\* before m have.
LEMMA MoreRead ==
  ASSUME NEW c \in Columns, NEW rg \in PageRange, NEW n \in Nat, NEW m \in Nat, n + m <= rg.len,
         ReadUpTo(c, rg, n), ReadOnce, deviceReads' = Counted(Span(c, rg.off + n, m))
  PROVE  /\ ReadOnce' /\ Moved' = Moved \union Span(c, rg.off + n, m)
         /\ Span(c, rg.off + n, m) \in SUBSET Value
         /\ OnlyReads(c, rg) /\ ReadUpTo(c, rg, n + m)'
<1> PICK A, o, l : A = Span(c, rg.off + n, m) /\ o = rg.off /\ l = rg.len
  OBVIOUS
<1>1. /\ o \in Nat /\ l \in Nat \ {0} /\ o + l <= RowCount /\ RowCount \in Nat
  BY RangeNumbers, RowsAreNat
<1>2. o + n \in Nat /\ (o + n) + m <= RowCount
  BY <1>1
<1>3. /\ A \in SUBSET Value
      /\ \A d, r : <<d, r>> \in A <=> d = c /\ r \in (o + n) .. (o + n) + m - 1
  BY <1>2, SpanCount
<1>4. ASSUME NEW r, r \in (o + n) .. (o + n) + m - 1
      PROVE  r - o \in 0 .. l - 1 /\ ~(r - o < n) /\ r = o + (r - o)
  BY <1>1, <1>4
<1>5. A \cap Moved = {}
  <2> SUFFICES ASSUME NEW v \in A PROVE v \notin Moved
    OBVIOUS
  <2>1. PICK r \in (o + n) .. (o + n) + m - 1 : v = <<c, r>>
    BY <1>3 DEF Value
  <2>2. deviceReads[<<c, o + (r - o)>>] = 0
    BY <1>4 DEF ReadUpTo
  <2>3. deviceReads[v] = 0
    BY <1>4, <2>1, <2>2
  <2> QED
    BY <2>3 DEF Moved
<1>6. /\ ReadOnce' /\ Moved' = Moved \union A
      /\ \A v \in Value : v \notin A => deviceReads'[v] = deviceReads[v]
      /\ \A v \in A : deviceReads'[v] = 1
  BY <1>3, <1>5, CountedEffect
<1>7. OnlyReads(c, rg)
  <2> SUFFICES ASSUME NEW d \in Columns, NEW r \in Rows
               PROVE  deviceReads'[<<d, r>>] = deviceReads[<<d, r>>] \/ (d = c /\ r \in Reach(rg))
    BY DEF OnlyReads
  <2>1. <<d, r>> \in Value
    BY DEF Value
  <2>2. <<d, r>> \in A => d = c /\ r \in Reach(rg)
    BY <1>1, <1>3 DEF Reach
  <2> QED
    BY <1>6, <2>1, <2>2
<1>8. ReadUpTo(c, rg, n + m)'
  <2> SUFFICES ASSUME NEW b \in 0 .. l - 1
               PROVE  deviceReads'[<<c, o + b>>] = IF b < n + m THEN 1 ELSE 0
    BY DEF ReadUpTo
  <2>1. o + b \in Rows /\ <<c, o + b>> \in Value
    BY InRange DEF Value
  <2>2. deviceReads[<<c, o + b>>] = IF b < n THEN 1 ELSE 0
    BY DEF ReadUpTo
  <2>3. <<c, o + b>> \in A <=> o + b \in (o + n) .. (o + n) + m - 1
    BY <1>3
  <2>4. b \in Nat /\ (o + b \in (o + n) .. (o + n) + m - 1 <=> ~(b < n) /\ b < n + m)
    BY <1>1
  <2> QED
    BY <1>6, <2>1, <2>2, <2>3, <2>4
<1> QED
  BY <1>3, <1>6, <1>7, <1>8

LEMMA PlacesKept ==
  ASSUME sortGather' = sortGather, batch' = batch, NEW j
  PROVE  PosOf(j)' = PosOf(j) /\ RowAt(j)' = RowAt(j) /\ N' = N
<1>1. N' = N
  BY DEF N
<1>2. Ascending' <=> Ascending
  BY <1>1 DEF Ascending
<1>3. PosOf(j)' = PosOf(j)
  BY <1>1, <1>2 DEF PosOf
<1> QED
  BY <1>1, <1>3 DEF RowAt

LEMMA DeliveredKept ==
  ASSUME NEW c \in Columns, NEW rg, sortGather' = sortGather, batch' = batch,
         batch \in Seq(Wanted), \A j \in Hits(rg) : j \in 1 .. N,
         Delivered(c, rg), OutsStay, ReadUpTo(c, rg, rg.len)'
  PROVE  Delivered(c, rg)'
<1>1. ASSUME NEW j \in Hits(rg) PROVE InPlace(c, PosOf(j))'
  <2> PICK i : i = PosOf(j)
    OBVIOUS
  <2>1. i \in 1 .. N /\ PosOf(j)' = i
    BY RowAtInTable, PlacesKept
  <2>2. InPlace(c, i)
    BY DEF Delivered
  <2>3. outs'[c][i] = <<c, batch[i].row>>
    BY <2>1, <2>2 DEF OutsStay
  <2> QED
    BY <2>1, <2>3 DEF InPlace
<1> QED
  BY <1>1 DEF Delivered, Hits

\* Scattering the values of a range puts them in their places, and no value out of
\* its place.
LEMMA ScatterEffect ==
  ASSUME NEW c \in Columns, NEW rg \in PageRange, NEW bytes, DOMAIN outs = Columns,
         sortGather' = sortGather, batch' = batch, batch \in Seq(Wanted),
         \A j \in Hits(rg) : j \in 1 .. N /\ RowAt(j) \in Reach(rg),
         \A b \in 0 .. rg.len - 1 : bytes[b] = <<c, rg.off + b>>,
         outs' = Scattered(c, rg, bytes)
  PROVE  /\ DOMAIN outs' = Columns /\ OutsStay
         /\ \A j \in Hits(rg) : InPlace(c, PosOf(j))'
<1> PICK hits : hits = {PosOf(j) : j \in Hits(rg)}
  OBVIOUS
<1>1. \A i \in hits : i \in 1 .. N /\ bytes[batch[i].row - rg.off] = <<c, batch[i].row>>
  <2> SUFFICES ASSUME NEW j \in Hits(rg)
               PROVE  /\ PosOf(j) \in 1 .. N
                      /\ bytes[batch[PosOf(j)].row - rg.off] = <<c, batch[PosOf(j)].row>>
    OBVIOUS
  <2> PICK r, i : r = RowAt(j) /\ i = PosOf(j)
    OBVIOUS
  <2>1. i \in 1 .. N /\ r = batch[i].row /\ r \in Reach(rg)
    BY RowAtInTable DEF RowAt
  <2>2. r - rg.off \in 0 .. rg.len - 1 /\ rg.off + (r - rg.off) = r
    BY <2>1, OffsetInRange
  <2>3. bytes[r - rg.off] = <<c, rg.off + (r - rg.off)>>
    BY <2>2
  <2> QED
    BY <2>1, <2>2, <2>3
<1> PICK old : old = outs[c]
  OBVIOUS
<1> PICK new : new = [i \in 1 .. N |-> IF i \in hits THEN bytes[batch[i].row - rg.off] ELSE old[i]]
  OBVIOUS
<1>2. outs' = [outs EXCEPT ![c] = new]
  BY DEF Scattered, Hits
<1>3. DOMAIN outs' = Columns /\ outs'[c] = new /\ \A d \in Columns : d # c => outs'[d] = outs[d]
  BY <1>2
<1>4. ASSUME NEW i \in hits PROVE outs'[c][i] = <<c, batch[i].row>>
  BY <1>1, <1>3
<1>5. OutsStay
  <2> SUFFICES ASSUME NEW d \in Columns, NEW i \in 1 .. N, InPlace(d, i)
               PROVE  outs'[d][i] = <<d, batch[i].row>>
    BY DEF OutsStay
  <2>1. CASE d # c
    BY <1>3, <2>1 DEF InPlace
  <2>2. CASE d = c /\ i \in hits
    BY <1>4, <2>2
  <2>3. CASE d = c /\ i \notin hits
    BY <1>3, <2>3 DEF InPlace
  <2> QED
    BY <2>1, <2>2, <2>3
<1>6. ASSUME NEW j \in Hits(rg) PROVE InPlace(c, PosOf(j))'
  <2> PICK i : i = PosOf(j)
    OBVIOUS
  <2>1. i \in hits /\ PosOf(j)' = i
    BY PlacesKept
  <2>2. outs'[c][i] = <<c, batch[i].row>>
    BY <1>4, <2>1
  <2> QED
    BY <2>1, <2>2 DEF InPlace
<1> QED
  BY <1>3, <1>5, <1>6

-----------------------------------------------------------------------------
(* The slots in use.                                                       *)

InQueue(s)  == \E i \in DOMAIN sq : sq[i].slot = s
InKernel(s) == \E e \in kernel : e.slot = s
InAnswer(s) == \E i \in DOMAIN cq : cq[i].slot = s

\* A slot that is not free is in one place, once.
OnePlace(s) ==
  /\ Free(s) = 0 <=> InQueue(s) \/ InKernel(s) \/ InAnswer(s)
  /\ ~(InQueue(s) /\ InKernel(s)) /\ ~(InQueue(s) /\ InAnswer(s)) /\ ~(InKernel(s) /\ InAnswer(s))
  /\ \A e, f \in kernel : e.slot = s /\ f.slot = s => e = f
  /\ \A i, j \in DOMAIN cq : cq[i].slot = s /\ cq[j].slot = s => i = j
OneTask ==
  /\ \A s \in Slots : Free(s) = 0 => /\ slots[s].task \in Tasks /\ slots[s].task < loop.next
                                     /\ slots[s].filled < TaskRange(slots[s].task).len
  /\ \A s, t \in Slots : Free(s) = 0 /\ Free(t) = 0 /\ slots[s].task = slots[t].task => s = t

LEMMA SlotsInPlace ==
  ASSUME GatherInv, Ringing, NEW s \in Slots
  PROVE  OnePlace(s)
<1>1. RingTypes /\ Named(s) = 1
  BY RingInUse DEF Accounted
<1>2. /\ CountIn(freeSlots, s) \in Nat /\ CountIn(Keys(sq), s) \in Nat
      /\ IsFiniteSet(InFlight(s)) /\ Cardinality(InFlight(s)) \in Nat
      /\ CountIn(Keys(cq), s) \in Nat
      /\ Free(s) = CountIn(freeSlots, s)
      /\ CountIn(Keys(sq), s) = 0 <=> ~InQueue(s)
      /\ Cardinality(InFlight(s)) = 0 <=> ~InKernel(s)
      /\ CountIn(Keys(cq), s) = 0 <=> ~InAnswer(s)
  BY <1>1, WhereNamed DEF InQueue, InKernel, InAnswer
<1>3. /\ CountIn(freeSlots, s) # 0 => CountIn(freeSlots, s) = 1 /\ CountIn(Keys(sq), s) = 0
           /\ Cardinality(InFlight(s)) = 0 /\ CountIn(Keys(cq), s) = 0
      /\ CountIn(Keys(sq), s) # 0 => CountIn(freeSlots, s) = 0
           /\ Cardinality(InFlight(s)) = 0 /\ CountIn(Keys(cq), s) = 0
      /\ Cardinality(InFlight(s)) # 0 => Cardinality(InFlight(s)) = 1
           /\ CountIn(freeSlots, s) = 0 /\ CountIn(Keys(sq), s) = 0 /\ CountIn(Keys(cq), s) = 0
      /\ CountIn(Keys(cq), s) # 0 => CountIn(Keys(cq), s) = 1 /\ CountIn(freeSlots, s) = 0
           /\ Cardinality(InFlight(s)) = 0 /\ CountIn(Keys(sq), s) = 0
  BY <1>1, NamedInOnePlace
<1>4. Named(s) = CountIn(freeSlots, s) + CountIn(Keys(sq), s) + Cardinality(InFlight(s))
                   + CountIn(Keys(cq), s)
  BY DEF Named
<1>5. Free(s) = 0 <=> InQueue(s) \/ InKernel(s) \/ InAnswer(s)
  <2> PICK a, b, c, d : /\ a = CountIn(freeSlots, s) /\ b = CountIn(Keys(sq), s)
                        /\ c = Cardinality(InFlight(s)) /\ d = CountIn(Keys(cq), s)
    OBVIOUS
  <2>1. a + b + c + d = 1 /\ a \in Nat /\ b \in Nat /\ c \in Nat /\ d \in Nat
    BY <1>1, <1>2, <1>4
  <2>2. a = 0 <=> b # 0 \/ c # 0 \/ d # 0
    <3>1. a # 0 => b = 0 /\ c = 0 /\ d = 0
      BY <1>3
    <3> QED
      BY ONLY <2>1, <3>1
  <2> QED
    BY <1>2, <2>2
<1>6. ASSUME NEW e \in kernel, NEW f \in kernel, e.slot = s, f.slot = s PROVE e = f
  <2>1. e \in InFlight(s) /\ f \in InFlight(s)
    BY <1>6 DEF InFlight
  <2>2. InKernel(s)
    BY <1>6 DEF InKernel
  <2>3. Cardinality(InFlight(s)) = 1
    BY <1>2, <1>3, <2>2
  <2>4. PICK x : InFlight(s) = {x}
    BY <1>2, <2>3, FS_Singleton
  <2> QED
    BY <2>1, <2>4
<1>7. ASSUME NEW i \in DOMAIN cq, NEW j \in DOMAIN cq, cq[i].slot = s, cq[j].slot = s, i # j
      PROVE  FALSE
  <2> PICK q : q = Keys(cq)
    OBVIOUS
  <2>1. q \in Seq(Slots)
    <3>1. cq \in Seq(Completion) /\ \A x \in Completion : x.slot \in Slots
      BY <1>1 DEF RingTypes, Completion
    <3> QED
      BY <3>1, KeysAreSlots
  <2>2. i \in DOMAIN q /\ j \in DOMAIN q /\ q[i] = s /\ q[j] = s
    BY <1>7 DEF Keys
  <2>3. CountIn(q, q[i]) > 1
    BY <1>7, <2>1, <2>2, CountedTwice
  <2>4. CountIn(Keys(cq), s) > 1
    BY <2>2, <2>3
  <2> QED
    BY <1>2, <1>3, <2>4
<1> QED
  BY <1>2, <1>3, <1>5, <1>6, <1>7 DEF OnePlace

LEMMA AllInPlace == GatherInv /\ Ringing => \A s \in Slots : OnePlace(s)
BY SlotsInPlace

LEMMA AllInPlaceNext == (GatherInv /\ Ringing => \A s \in Slots : OnePlace(s))'
BY AllInPlace, PTL

LEMMA TasksInPlace ==
  ASSUME GatherInv, Ringing
  PROVE  OneTask /\ loop.next \in Nat /\ loop.next <= Total /\ Total \in Nat
<1>1. /\ PlanSound /\ RingTypes /\ Accounted /\ TasksSound /\ Total \in Nat
      /\ \A s \in Slots : slots[s].task \in Nat
  BY RingInUse
<1>2. loop.next \in Nat /\ loop.next <= Total
  BY <1>1 DEF RingTypes, TasksSound
<1>3. ASSUME NEW s \in Slots, Free(s) = 0
      PROVE  /\ slots[s].task \in Tasks /\ slots[s].task < loop.next
             /\ slots[s].filled < TaskRange(slots[s].task).len
  <2>1. /\ slots[s].task < loop.next /\ slots[s].filled < TaskRange(slots[s].task).len
        /\ slots[s].task \in Nat
    BY <1>1, <1>3 DEF TasksSound
  <2> PICK k, n, T : k = slots[s].task /\ n = loop.next /\ T = Total
    OBVIOUS
  <2>2. k \in 0 .. T - 1
    BY <1>1, <1>2, <2>1
  <2> QED
    BY <2>1, <2>2 DEF Tasks
<1>4. ASSUME NEW s \in Slots, NEW t \in Slots, Free(s) = 0, Free(t) = 0,
             slots[s].task = slots[t].task
      PROVE  s = t
  <2>1. CountIn(freeSlots, s) = 0 /\ CountIn(freeSlots, t) = 0
    BY <1>1, <1>4, WhereNamed
  <2> QED
    BY <1>1, <1>4, <2>1 DEF Accounted
<1> QED
  BY <1>1, <1>2, <1>3, <1>4 DEF OneTask
-----------------------------------------------------------------------------
(* What is the same in every step of a gather.                             *)

GatherKept == UNCHANGED <<configVars, ring, planVars, scan, direct, stats>>

LEMMA GatherKeptMeans ==
  ASSUME GatherKept
  PROVE  /\ sortGather' = sortGather /\ ring' = ring /\ cursors' = cursors /\ batch' = batch
         /\ ranges' = ranges /\ direct' = direct /\ stats' = stats
BY DEF GatherKept, configVars, planVars

LEMMA OrderKept ==
  ASSUME OrderSound, sortGather' = sortGather, batch' = batch, cursors' = cursors,
         phase' # "merge"
  PROVE  OrderSound'
BY DEF OrderSound, N

LEMMA MergeKept ==
  ASSUME MergeSound, batch' = batch, cursors' = cursors,
         phase \notin {"idle", "merge"} \/ Live = {} \/ phase' \in {"idle", "merge"},
         cursors \in Seq(Cursor)
  PROVE  MergeSound'
<1>1. N' = N
  BY DEF N
<1>2. \A r, x : Merged(r, x)' = Merged(r, x)
  BY <1>1 DEF Merged
<1>3. \A x \in DOMAIN cursors : \A r \in Rows :
        Cardinality(Merged(r, cursors[x]))' = Cardinality(Passed(r, cursors[x]))
  BY <1>2 DEF MergeSound, Merged, N
<1>4. ASSUME NEW x \in DOMAIN cursors
      PROVE  phase' \notin {"idle", "merge"} => cursors[x].pos = Len(cursors[x].rows) + 1
  <2>1. /\ cursors[x].pos <= Len(cursors[x].rows) + 1
        /\ cursors[x].pos \in Nat /\ Len(cursors[x].rows) \in Nat
    <3>1. cursors[x] \in Cursor
      OBVIOUS
    <3>2. cursors[x].pos \in Nat /\ cursors[x].rows \in Seq(Rows)
      BY <3>1 DEF Cursor
    <3>3. cursors[x].pos <= Len(cursors[x].rows) + 1
      BY DEF MergeSound
    <3> QED
      BY <3>2, <3>3
  <2>2. Live = {} => ~(cursors[x].pos <= Len(cursors[x].rows))
    BY DEF Live
  <2> QED
    BY <2>1, <2>2 DEF MergeSound
<1> QED
  BY <1>3, <1>4 DEF MergeSound, Passed

LEMMA CoveringKept ==
  ASSUME Covering(ranges), sortGather' = sortGather, batch' = batch, ranges' = ranges
  PROVE  Covering(ranges)'
<1>1. \A j : RowAt(j)' = RowAt(j)
  BY PlacesKept
<1>2. N' = N
  BY DEF N
<1> QED
  BY <1>1, <1>2 DEF Covering, Apart, Hits, Reach

LEMMA ListsKept ==
  ASSUME ring' = ring, ranges' = ranges
  PROVE  /\ Small' = Small /\ Total' = Total /\ Large' = Large /\ Tasks' = Tasks /\ Reads' = Reads
         /\ \A t : TaskRange(t)' = TaskRange(t)
         /\ \A d : LargeRange(d)' = LargeRange(d)
<1>1. Small' = Small /\ Total' = Total
  BY PlanKept
<1>2. Large' = Large
  BY DEF Large, Picked
<1> QED
  BY <1>1, <1>2, TaskKept DEF Tasks, Reads, LargeRange

\* Where the hits of a read lie.
LEMMA HitsInside ==
  ASSUME PlanSound, Covering(ranges)
  PROVE  /\ \A t \in Tasks : \A j \in Hits(TaskRange(t)) : j \in 1 .. N /\ RowAt(j) \in Reach(TaskRange(t))
         /\ \A d \in Reads : \A j \in Hits(LargeRange(d)) : j \in 1 .. N /\ RowAt(j) \in Reach(LargeRange(d))
<1>1. Apart(ranges)
  BY DEF Covering
<1>2. ASSUME NEW t \in Tasks, NEW j \in Hits(TaskRange(t))
      PROVE  j \in 1 .. N /\ RowAt(j) \in Reach(TaskRange(t))
  <2>1. PICK k \in DOMAIN ranges : TaskRange(t) = ranges[k]
    BY <1>1, TheReads
  <2> QED
    BY <1>2, <2>1 DEF Covering
<1>3. ASSUME NEW d \in Reads, NEW j \in Hits(LargeRange(d))
      PROVE  j \in 1 .. N /\ RowAt(j) \in Reach(LargeRange(d))
  <2>1. PICK k \in DOMAIN ranges : LargeRange(d) = ranges[k]
    BY <1>1, TheReads
  <2> QED
    BY <1>3, <2>1 DEF Covering
<1> QED
  BY <1>2, <1>3

LEMMA RangesKept ==
  ASSUME OnlyRanges, ranges' = ranges, NEW c, NEW rg, OnlyReads(c, rg),
         c \notin Columns \/ \E k \in DOMAIN ranges : rg = ranges[k]
  PROVE  OnlyRanges'
<1>1. ASSUME NEW d \in Columns, NEW r \in Rows, deviceReads'[<<d, r>>] = 1
      PROVE  \E k \in DOMAIN ranges : r \in Reach(ranges[k])
  <2>1. CASE deviceReads'[<<d, r>>] = deviceReads[<<d, r>>]
    BY <1>1, <2>1 DEF OnlyRanges
  <2>2. CASE d = c /\ r \in Reach(rg)
    BY <2>2
  <2> QED
    BY <2>1, <2>2 DEF OnlyReads
<1> QED
  BY <1>1 DEF OnlyRanges, Reach

-----------------------------------------------------------------------------
(* The reads of the ring.                                                  *)

LEMMA RingFacts ==
  ASSUME ReadInv, Ringing
  PROVE  /\ GatherInv /\ PlanSound /\ Apart(ranges) /\ Covering(ranges) /\ OnlyRanges
         /\ ring = "live" /\ direct = Len(Large) * MeasureCount /\ DOMAIN outs = Columns
         /\ RingSound /\ DirectSound /\ ReadOnce /\ batch \in Seq(Wanted)
         /\ stats.gatherBytes = Bytes(ranges) * MeasureCount /\ stats.scanBytes = 0
<1>1. GatherInv /\ PlanSound /\ batch \in Seq(Wanted) /\ ReadOnce
  BY RingInUse DEF ReadInv, PlanSound
<1>2. Gathering /\ GatherSound
  BY DEF Ringing, Gathering, ReadInv
<1> QED
  BY <1>1, <1>2 DEF GatherSound, Covering

LEMMA DirectKept ==
  ASSUME PlanSound, Covering(ranges), DirectSound, direct = Len(Large) * MeasureCount,
         ring' = ring, ranges' = ranges, sortGather' = sortGather, batch' = batch,
         direct' = direct, OutsStay, NEW c, NEW rg, OnlyReads(c, rg),
         \A d \in Reads : Others(d % MeasureCount, LargeRange(d), c, rg)
  PROVE  DirectSound'
<1>1. Apart(ranges) /\ batch \in Seq(Wanted)
  BY DEF Covering, PlanSound
<1>2. Len(Large) * MeasureCount \in Nat
  BY <1>1, ListsPlanned, RowsAreNat
<1>3. ASSUME NEW d \in Reads PROVE Delivered(d % MeasureCount, LargeRange(d))' /\ d < direct
  <2> PICK x, rh : x = d % MeasureCount /\ rh = LargeRange(d)
    OBVIOUS
  <2>1. x \in Columns /\ rh \in PageRange /\ d \in Nat
    BY <1>1, TheReads
  <2>2. \A j \in Hits(rh) : j \in 1 .. N
    BY HitsInside
  <2>3. d < direct
    <3> PICK n : n = Len(Large) * MeasureCount
      OBVIOUS
    <3>1. d \in 0 .. n - 1 /\ n \in Nat
      BY <1>2 DEF Reads
    <3> QED
      BY <3>1
  <2>4. Delivered(x, rh)
    BY <2>3 DEF DirectSound
  <2>5. Others(x, rh, c, rg)
    OBVIOUS
  <2>6. ReadUpTo(x, rh, rh.len)'
    BY <2>1, <2>4, <2>5, OtherReadsKept DEF Delivered
  <2>7. Delivered(x, rh)'
    BY <1>1, <2>1, <2>2, <2>4, <2>6, DeliveredKept
  <2>8. LargeRange(d)' = rh
    BY ListsKept
  <2> QED
    BY <2>3, <2>7, <2>8 DEF Delivered, ReadUpTo, InPlace, Hits
<1>4. Reads' = Reads
  BY ListsKept
<1> QED
  BY <1>3, <1>4 DEF DirectSound

\* In a step of the ring, all but the ring's own invariant is kept.
LEMMA RingRest ==
  ASSUME ReadInv, Ringing, GatherKept, phase' \in {"fill", "wait", "drain"},
         DOMAIN outs' = Columns, OnlyRanges', DirectSound', RingSound', ReadOnce', GatherInv'
  PROVE  ReadInv'
<1>1. /\ sortGather' = sortGather /\ ring' = ring /\ cursors' = cursors /\ batch' = batch
      /\ ranges' = ranges /\ direct' = direct /\ stats' = stats
  BY GatherKeptMeans
<1>2. /\ PlanSound /\ Covering(ranges) /\ ring = "live" /\ direct = Len(Large) * MeasureCount
      /\ stats.gatherBytes = Bytes(ranges) * MeasureCount /\ stats.scanBytes = 0
  BY RingFacts
<1>3. OrderSound' /\ MergeSound'
  <2>1. OrderSound /\ MergeSound /\ cursors \in Seq(Cursor)
    BY <1>2 DEF ReadInv, PlanSound
  <2> QED
    BY <1>1, <2>1, OrderKept, MergeKept DEF Ringing
<1>4. NothingRead' /\ ScanSound' /\ KernelSound' /\ Served'
  BY DEF NothingRead, ScanSound, KernelSound, Served
<1>5. GatherSound'
  <2>1. Covering(ranges)' /\ Large' = Large
    BY <1>1, <1>2, CoveringKept, ListsKept
  <2>2. Bytes(ranges)' = Bytes(ranges)
    BY <1>1 DEF Bytes
  <2>3. Ringing' /\ phase' # "direct"
    BY DEF Ringing
  <2> QED
    BY <1>1, <1>2, <2>1, <2>2, <2>3 DEF GatherSound
<1> QED
  BY <1>3, <1>4, <1>5 DEF ReadInv

\* The ring's invariant after a step that reads values of one range, at most.
LEMMA RingSoundStep ==
  ASSUME ReadInv, Ringing, GatherKept, OutsStay, NEW c, NEW rg, OnlyReads(c, rg),
         \A t \in Tasks : t >= loop'.next =>
            t >= loop.next /\ Others(TaskColumn(t), TaskRange(t), c, rg),
         \A t \in Tasks : t < loop'.next /\ ~Underway(t)' =>
            \/ t < loop.next /\ ~Underway(t) /\ Others(TaskColumn(t), TaskRange(t), c, rg)
            \/ Delivered(TaskColumn(t), TaskRange(t))',
         \A s \in Slots, t \in Tasks, n \in 0 .. SlotRows : slots'[s].task = t /\ Arrived(s, n)' =>
            \/ /\ slots[s].task = t /\ Arrived(s, n) /\ slots'[s].bytes = slots[s].bytes
               /\ Others(TaskColumn(t), TaskRange(t), c, rg)
            \/ Holding(s, t, n)'
  PROVE  RingSound'
<1>1. /\ sortGather' = sortGather /\ ring' = ring /\ batch' = batch /\ ranges' = ranges
  BY GatherKeptMeans
<1>2. /\ PlanSound /\ Covering(ranges) /\ Apart(ranges) /\ RingSound /\ batch \in Seq(Wanted)
  BY RingFacts
<1>3. Tasks' = Tasks /\ \A t : TaskRange(t)' = TaskRange(t)
  BY <1>1, ListsKept
<1>4. ASSUME NEW t \in Tasks, NEW n, ReadUpTo(TaskColumn(t), TaskRange(t), n),
             Others(TaskColumn(t), TaskRange(t), c, rg)
      PROVE  ReadUpTo(TaskColumn(t), TaskRange(t), n)'
  <2> PICK x, rh : x = TaskColumn(t) /\ rh = TaskRange(t)
    OBVIOUS
  <2>1. x \in Columns /\ rh \in PageRange
    BY <1>2, TheReads
  <2>2. ReadUpTo(x, rh, n)'
    BY <1>4, <2>1, OtherReadsKept
  <2>3. TaskColumn(t)' = x /\ TaskRange(t)' = rh
    BY <1>3 DEF TaskColumn
  <2> QED
    BY <2>2, <2>3 DEF ReadUpTo
<1>5. ASSUME NEW t \in Tasks, t >= loop'.next PROVE ReadUpTo(TaskColumn(t), TaskRange(t), 0)'
  <2>1. t >= loop.next /\ Others(TaskColumn(t), TaskRange(t), c, rg)
    BY <1>5
  <2>2. ReadUpTo(TaskColumn(t), TaskRange(t), 0)
    BY <1>2, <2>1 DEF RingSound
  <2> QED
    BY <1>4, <2>1, <2>2
<1>6. ASSUME NEW t \in Tasks, t < loop'.next, ~Underway(t)'
      PROVE  Delivered(TaskColumn(t), TaskRange(t))'
  <2> SUFFICES ASSUME t < loop.next /\ ~Underway(t) /\ Others(TaskColumn(t), TaskRange(t), c, rg)
               PROVE  Delivered(TaskColumn(t), TaskRange(t))'
    BY <1>6
  <2> PICK x, rh : x = TaskColumn(t) /\ rh = TaskRange(t)
    OBVIOUS
  <2>1. x \in Columns /\ rh \in PageRange
    BY <1>2, TheReads
  <2>2. Delivered(x, rh)
    BY <1>2 DEF RingSound
  <2>3. ReadUpTo(x, rh, rh.len)'
    BY <2>1, <2>2, OtherReadsKept DEF Delivered
  <2>4. \A j \in Hits(rh) : j \in 1 .. N
    BY <1>2, HitsInside
  <2>5. Delivered(x, rh)'
    BY <1>1, <1>2, <2>1, <2>2, <2>3, <2>4, DeliveredKept
  <2>6. TaskColumn(t)' = x /\ TaskRange(t)' = rh
    BY <1>3 DEF TaskColumn
  <2> QED
    BY <2>5, <2>6 DEF Delivered, ReadUpTo, InPlace, Hits
<1>7. ASSUME NEW s \in Slots, NEW t \in Tasks, NEW n \in 0 .. SlotRows, slots'[s].task = t, Arrived(s, n)'
      PROVE  Holding(s, t, n)'
  <2> SUFFICES ASSUME slots[s].task = t, Arrived(s, n), slots'[s].bytes = slots[s].bytes,
                      Others(TaskColumn(t), TaskRange(t), c, rg)
               PROVE  Holding(s, t, n)'
    BY <1>7
  <2>1. Holding(s, t, n)
    BY <1>2 DEF RingSound
  <2>2. ReadUpTo(TaskColumn(t), TaskRange(t), n)'
    BY <1>4, <2>1 DEF Holding
  <2>3. TaskColumn(t)' = TaskColumn(t) /\ TaskRange(t)' = TaskRange(t)
    BY <1>3 DEF TaskColumn
  <2> QED
    BY <2>1, <2>2, <2>3 DEF Holding
<1> QED
  BY <1>3, <1>5, <1>6, <1>7 DEF RingSound

\* A step that reads nothing.
LEMMA NothingIsRead ==
  ASSUME deviceReads' = deviceReads, NEW rg
  PROVE  /\ OnlyReads(-1, rg) /\ (\A c \in Columns : \A rh : Others(c, rh, -1, rg)) /\ -1 \notin Columns
         /\ ReadOnce => ReadOnce'
         /\ outs' = outs => OutsStay
<1>1. -1 \notin Columns
  BY RowsAreNat DEF Columns
<1> QED
  BY <1>1 DEF OnlyReads, Others, ReadOnce, OutsStay, InPlace

\* Only the slots whose places change need a look.
LEMMA ArrivedElsewhere ==
  ASSUME NEW s, NEW n, slots'[s].filled = slots[s].filled,
         \A i \in DOMAIN sq' : sq'[i].slot = s => InQueue(s) \/ InKernel(s),
         \A e \in kernel' : e.slot = s => InQueue(s) \/ InKernel(s),
         \A i \in DOMAIN cq' : cq'[i].slot = s => cq'[i] \in {cq[j] : j \in DOMAIN cq},
         Arrived(s, n)'
  PROVE  Arrived(s, n)
<1>1. CASE n = slots'[s].filled /\ ((\E i \in DOMAIN sq' : sq'[i].slot = s) \/ \E e \in kernel' : e.slot = s)
  BY <1>1 DEF Arrived, InQueue, InKernel
<1>2. CASE \E i \in DOMAIN cq' : cq'[i].slot = s /\ n = slots'[s].filled + cq'[i].res
  <2>1. PICK i \in DOMAIN cq' : cq'[i].slot = s /\ n = slots'[s].filled + cq'[i].res
    BY <1>2
  <2>2. PICK j \in DOMAIN cq : cq'[i] = cq[j]
    BY <2>1
  <2>3. cq[j].slot = s /\ n = slots[s].filled + cq[j].res
    BY <2>1, <2>2
  <2> QED
    BY <2>3 DEF Arrived
<1> QED
  BY <1>1, <1>2 DEF Arrived

LEMMA FillSlotReads ==
  ASSUME ReadInv, FillSlot, GatherInv'
  PROVE  ReadInv'
<1> PICK s, k : s = freeSlots[Len(freeSlots)] /\ k = loop.next
  OBVIOUS
<1>1. /\ Ringing /\ Ringing' /\ phase' = "fill" /\ GatherKept
      /\ outs' = outs /\ deviceReads' = deviceReads /\ cq' = cq
      /\ k < Total /\ freeSlots # <<>>
      /\ freeSlots' = SubSeq(freeSlots, 1, Len(freeSlots) - 1)
  BY DEF FillSlot, TopUp, Ringing, GatherKept
<1>2. /\ GatherInv /\ PlanSound /\ RingSound /\ ReadOnce /\ DirectSound /\ OnlyRanges
      /\ DOMAIN outs = Columns /\ Covering(ranges) /\ direct = Len(Large) * MeasureCount
      /\ Apart(ranges)
  BY <1>1, RingFacts
<1>3. OneTask /\ loop.next \in Nat /\ loop.next <= Total /\ Total \in Nat
  BY <1>1, <1>2, TasksInPlace
<1>4. \A x \in Slots : OnePlace(x) /\ OnePlace(x)'
  BY <1>1, <1>2, AllInPlace, AllInPlaceNext
<1>5. s \in Slots /\ Free(s) # 0 /\ ~InQueue(s) /\ ~InKernel(s) /\ ~InAnswer(s)
  <2>1. RingTypes /\ freeSlots \in Seq(Slots)
    BY <1>1, <1>2, RingInUse DEF RingTypes
  <2>2. Len(freeSlots) \in DOMAIN freeSlots
    BY <1>1, <2>1
  <2>3. s \in Slots
    BY <2>1, <2>2
  <2>4. CountIn(freeSlots, s) # 0 /\ Free(s) = CountIn(freeSlots, s)
    BY <2>1, <2>2, WhereNamed
  <2> QED
    BY <1>4, <2>3, <2>4 DEF OnePlace
<1>6. /\ ~QueueFull /\ sq' = Append(sq, Entry(s, k, 0)) /\ kernel' = kernel
      /\ slots' = [slots EXCEPT ![s].task = k, ![s].filled = 0]
      /\ loop' = [loop EXCEPT !.next = @ + 1, !.inflight = @ + 1, !.unsubmitted = Announced(0, Pending)]
  <2>1. RingTypes /\ Accounted
    BY <1>1, <1>2, RingInUse
  <2>2. CountIn(Keys(sq), s) = 0
    BY <1>5, <2>1, WhereNamed DEF InQueue
  <2>3. ~QueueFull
    BY <1>5, <2>1, <2>2, QueueHasRoom
  <2> QED
    BY <2>3 DEF FillSlot, SubmitTask
<1>7. loop'.next = k + 1 /\ k \in Nat
  <2>1. loop \in LoopType
    BY <1>1, <1>2, RingInUse DEF RingTypes, LoopType
  <2> QED
    BY <1>3, <1>6, <2>1 DEF LoopType
<1>8. /\ slots'[s].task = k /\ slots'[s].filled = 0
      /\ \A x \in Slots : x # s => slots'[x] = slots[x]
  <2>1. slots \in [Slots -> SlotType]
    BY <1>1, <1>2, RingInUse DEF GatherTypeOK, SlotType
  <2> PICK z : z = slots[s]
    OBVIOUS
  <2>2. slots' = [slots EXCEPT ![s] = [z EXCEPT !.task = k, !.filled = 0]]
    BY <1>5, <1>6, <2>1
  <2>3. z \in SlotType
    BY <1>5, <2>1
  <2> QED
    BY <1>5, <2>1, <2>2, <2>3 DEF SlotType
<1>9. /\ Entry(s, k, 0).slot = s /\ sq \in Seq(Request)
      /\ (\A i \in DOMAIN sq : i \in DOMAIN sq' /\ sq'[i] = sq[i])
      /\ \A i \in DOMAIN sq' : sq'[i] = Entry(s, k, 0) \/ (i \in DOMAIN sq /\ sq'[i] = sq[i])
      /\ Len(sq) + 1 \in DOMAIN sq' /\ sq'[Len(sq) + 1] = Entry(s, k, 0)
  <2>1. sq \in Seq(Request)
    BY <1>1, <1>2, RingInUse DEF RingTypes
  <2> PICK en : en = Entry(s, k, 0)
    OBVIOUS
  <2>2. en.slot = s
    BY DEF Entry
  <2> QED
    BY <1>6, <2>1, <2>2
<1>10. (Free(s) = 0)' /\ \A x \in Slots : x # s /\ Free(x) = 0 => (Free(x) = 0)'
  <2>1. InQueue(s)'
    BY <1>9 DEF InQueue
  <2>2. ASSUME NEW x \in Slots, x # s, Free(x) = 0 PROVE (Free(x) = 0)'
    <3>1. InQueue(x) \/ InKernel(x) \/ InAnswer(x)
      BY <1>4, <2>2 DEF OnePlace
    <3>2. InQueue(x)' \/ InKernel(x)' \/ InAnswer(x)'
      BY <1>1, <1>6, <1>9, <3>1 DEF InQueue, InKernel, InAnswer
    <3> QED
      BY <1>4, <3>2 DEF OnePlace
  <2> QED
    BY <1>4, <1>5, <2>1, <2>2 DEF OnePlace
<1> PICK rg : rg = 0
  OBVIOUS
<1>11. /\ OnlyReads(-1, rg) /\ (\A c \in Columns : \A rh : Others(c, rh, -1, rg)) /\ -1 \notin Columns
       /\ ReadOnce' /\ OutsStay
  BY <1>1, <1>2, NothingIsRead
<1>12. /\ \A t \in Tasks : Others(TaskColumn(t), TaskRange(t), -1, rg)
       /\ \A d \in Reads : Others(d % MeasureCount, LargeRange(d), -1, rg)
  BY <1>2, <1>11, TheReads
<1>13. \A t \in Tasks : t \in Nat
  BY <1>2, TheReads
<1>14. ASSUME NEW t \in Tasks, t < loop'.next, ~Underway(t)' PROVE t < loop.next /\ ~Underway(t)
  <2>1. t # k
    BY <1>5, <1>8, <1>10, <1>14 DEF Underway
  <2>2. t < loop.next
    BY <1>7, <1>13, <1>14, <2>1
  <2>3. ASSUME NEW x \in Slots, Free(x) = 0, slots[x].task = t PROVE FALSE
    <3>1. x # s
      BY <1>5, <2>3
    <3>2. (Free(x) = 0)' /\ slots'[x].task = t
      BY <1>8, <1>10, <2>3, <3>1
    <3> QED
      BY <1>14, <3>2 DEF Underway
  <2> QED
    BY <2>2, <2>3 DEF Underway
<1>15. ASSUME NEW x \in Slots, NEW t \in Tasks, NEW n \in 0 .. SlotRows, slots'[x].task = t, Arrived(x, n)'
       PROVE  \/ slots[x].task = t /\ Arrived(x, n) /\ slots'[x].bytes = slots[x].bytes
              \/ Holding(x, t, n)'
  <2>1. CASE x # s
    <3>1. slots'[x] = slots[x]
      BY <1>8, <2>1
    <3>2. /\ \A i \in DOMAIN sq' : sq'[i].slot = x => InQueue(x) \/ InKernel(x)
          /\ \A e \in kernel' : e.slot = x => InQueue(x) \/ InKernel(x)
          /\ \A i \in DOMAIN cq' : cq'[i].slot = x => cq'[i] \in {cq[j] : j \in DOMAIN cq}
      BY <1>1, <1>6, <1>9, <2>1 DEF InQueue, InKernel
    <3>3. Arrived(x, n)
      BY <1>15, <3>1, <3>2, ArrivedElsewhere
    <3> QED
      BY <1>15, <3>1, <3>3
  <2>2. CASE x = s
    <3>1. t = k /\ n = 0
      <4>1. ~(\E i \in DOMAIN cq' : cq'[i].slot = s)
        BY <1>1, <1>5 DEF InAnswer
      <4> QED
        BY <1>8, <1>15, <2>2, <4>1 DEF Arrived
    <3>2. ReadUpTo(TaskColumn(k), TaskRange(k), 0)
      BY <1>2, <1>3, <1>15, <3>1 DEF RingSound
    <3>3. TaskColumn(k)' = TaskColumn(k) /\ TaskRange(k)' = TaskRange(k)
      BY <1>1, GatherKeptMeans, ListsKept DEF TaskColumn
    <3>4. ReadUpTo(TaskColumn(k), TaskRange(k), 0)'
      BY <1>1, <3>2, <3>3 DEF ReadUpTo
    <3>5. 0 .. n - 1 = {}
      BY <3>1
    <3> QED
      BY <3>1, <3>4, <3>5 DEF Holding
  <2> QED
    BY <2>1, <2>2
<1>16. RingSound'
  <2>1. \A t \in Tasks : t >= loop'.next => t >= loop.next
    BY <1>7, <1>13
  <2> QED
    BY <1>1, <1>11, <1>12, <1>14, <1>15, <2>1, RingSoundStep
<1>17. DirectSound' /\ OnlyRanges'
  BY <1>1, <1>2, <1>11, <1>12, GatherKeptMeans, DirectKept, RangesKept
<1> QED
  BY <1>1, <1>2, <1>11, <1>16, <1>17, RingRest

LEMMA SubmitQueueReads ==
  ASSUME ReadInv, SubmitQueue, GatherInv'
  PROVE  ReadInv'
<1>1. /\ Ringing /\ Ringing' /\ phase' = "wait" /\ GatherKept
      /\ outs' = outs /\ deviceReads' = deviceReads /\ cq' = cq /\ slots' = slots
      /\ freeSlots' = freeSlots /\ loop' = [loop EXCEPT !.unsubmitted = 0]
      /\ \/ kernel' = kernel \union {sq[i] : i \in DOMAIN sq} /\ sq' = <<>>
         \/ kernel' = kernel /\ sq' = sq
  BY DEF SubmitQueue, Ringing, GatherKept
<1>2. /\ GatherInv /\ PlanSound /\ RingSound /\ ReadOnce /\ DirectSound /\ OnlyRanges
      /\ DOMAIN outs = Columns /\ Covering(ranges) /\ direct = Len(Large) * MeasureCount
      /\ Apart(ranges)
  BY <1>1, RingFacts
<1>3. loop'.next = loop.next
  <2>1. loop \in LoopType
    BY <1>1, <1>2, RingInUse DEF RingTypes, LoopType
  <2> QED
    BY <1>1, <2>1 DEF LoopType
<1> PICK rg : rg = 0
  OBVIOUS
<1>4. /\ OnlyReads(-1, rg) /\ (\A c \in Columns : \A rh : Others(c, rh, -1, rg)) /\ -1 \notin Columns
      /\ ReadOnce' /\ OutsStay
  BY <1>1, <1>2, NothingIsRead
<1>5. /\ \A t \in Tasks : Others(TaskColumn(t), TaskRange(t), -1, rg)
      /\ \A d \in Reads : Others(d % MeasureCount, LargeRange(d), -1, rg)
  BY <1>2, <1>4, TheReads
<1>6. \A t : Underway(t)' <=> Underway(t)
  BY <1>1 DEF Underway, Free
<1>7. ASSUME NEW x \in Slots, NEW n, Arrived(x, n)' PROVE Arrived(x, n)
  <2>1. \A i \in DOMAIN sq' : sq'[i].slot = x => InQueue(x) \/ InKernel(x)
    BY <1>1 DEF InQueue
  <2>2. \A e \in kernel' : e.slot = x => InQueue(x) \/ InKernel(x)
    BY <1>1 DEF InQueue, InKernel
  <2>3. \A i \in DOMAIN cq' : cq'[i].slot = x => cq'[i] \in {cq[j] : j \in DOMAIN cq}
    BY <1>1
  <2> QED
    BY <1>1, <1>7, <2>1, <2>2, <2>3, ArrivedElsewhere
<1>8. RingSound'
  BY <1>1, <1>3, <1>4, <1>5, <1>6, <1>7, RingSoundStep
<1>9. DirectSound' /\ OnlyRanges'
  BY <1>1, <1>2, <1>4, <1>5, GatherKeptMeans, DirectKept, RangesKept
<1> QED
  BY <1>1, <1>2, <1>4, <1>8, <1>9, RingRest

\* A read in flight asks for what its task has not read.
LEMMA KernelAsks ==
  ASSUME ReadInv, Ringing, NEW e \in kernel
  PROVE  /\ e.slot \in Slots /\ slots[e.slot].task \in Tasks /\ e \in Request
         /\ Free(e.slot) = 0 /\ slots[e.slot].filled \in Nat
         /\ slots[e.slot].filled + e.len = TaskRange(slots[e.slot].task).len
         /\ e.at = slots[e.slot].filled /\ e.column = TaskColumn(slots[e.slot].task)
         /\ e.off = TaskRange(slots[e.slot].task).off + e.at
         /\ Holding(e.slot, slots[e.slot].task, slots[e.slot].filled)
<1> PICK s, k, f : s = e.slot /\ k = slots[e.slot].task /\ f = slots[e.slot].filled
  OBVIOUS
<1>1. GatherInv /\ RingSound /\ PlanSound /\ Apart(ranges)
  BY RingFacts
<1>2. RingTypes /\ TasksSound /\ e \in Request /\ s \in Slots
  <2>1. RingTypes /\ TasksSound
    BY <1>1, RingInUse
  <2> QED
    BY <2>1 DEF RingTypes, Request
<1>3. Free(s) = 0
  BY <1>1, <1>2, SlotsInPlace DEF OnePlace, InKernel
<1>4. k \in Tasks /\ f < TaskRange(k).len /\ f \in 0 .. SlotRows /\ SlotRows \in Nat
  BY <1>1, <1>2, <1>3, TasksInPlace, RingInUse DEF OneTask
<1>5. e = Entry(s, k, f)
  BY <1>2 DEF TasksSound, Answers
<1> PICK rg : rg = TaskRange(k)
  OBVIOUS
<1>6. rg.len \in Nat /\ rg.off \in Nat
  BY <1>1, <1>4, TheReads, RangeNumbers
<1>7. e.at = f /\ e.column = TaskColumn(k) /\ e.off = rg.off + f /\ e.len = rg.len - f
  BY <1>5 DEF Entry
<1>8. f + e.len = rg.len /\ f \in Nat
  BY <1>4, <1>6, <1>7
<1>9. Arrived(s, f)
  BY DEF Arrived
<1>10. Holding(s, k, f)
  BY <1>1, <1>2, <1>4, <1>9 DEF RingSound
<1> QED
  BY <1>2, <1>3, <1>4, <1>7, <1>8, <1>10

LEMMA CompletedReads ==
  ASSUME ReadInv, Ringing, NEW e \in kernel, NEW got \in 0 .. e.len, Completed(e, got), GatherInv'
  PROVE  ReadInv'
<1> PICK s, k, f : s = e.slot /\ k = slots[e.slot].task /\ f = slots[e.slot].filled
  OBVIOUS
<1> PICK rg, col : rg = TaskRange(k) /\ col = TaskColumn(k)
  OBVIOUS
<1>1. /\ Ringing' /\ phase' \in {"fill", "wait", "drain"} /\ GatherKept
      /\ outs' = outs /\ freeSlots' = freeSlots /\ loop' = loop /\ sq' = sq
      /\ kernel' = kernel \ {e} /\ cq' = Append(cq, [slot |-> s, res |-> got])
      /\ slots' = [slots EXCEPT ![s].bytes = [b \in DOMAIN @ |->
                     IF b \in e.at .. e.at + got - 1 THEN <<e.column, e.off + (b - e.at)>> ELSE @[b]]]
      /\ deviceReads' = Counted({<<e.column, e.off + b>> : b \in 0 .. got - 1})
  BY DEF Completed, Ringing, GatherKept
<1>2. /\ GatherInv /\ PlanSound /\ RingSound /\ ReadOnce /\ DirectSound /\ OnlyRanges
      /\ DOMAIN outs = Columns /\ Covering(ranges) /\ direct = Len(Large) * MeasureCount
      /\ Apart(ranges) /\ ring = "live"
  BY RingFacts
<1>3. /\ s \in Slots /\ k \in Tasks /\ e \in Request /\ Free(s) = 0 /\ f \in Nat
      /\ f + e.len = rg.len /\ e.at = f /\ e.column = col /\ e.off = rg.off + f
      /\ Holding(s, k, f) /\ e.len \in Nat /\ got \in Nat /\ got <= e.len
  <2>1. e.len \in Nat
    BY KernelAsks DEF Request
  <2>2. got \in Nat /\ got <= e.len
    BY <2>1
  <2> QED
    BY <2>1, <2>2, KernelAsks
<1>4. OneTask /\ loop.next \in Nat
  BY <1>2, TasksInPlace
<1>5. \A x \in Slots : OnePlace(x) /\ OnePlace(x)'
  BY <1>1, <1>2, AllInPlace, AllInPlaceNext
<1>6. col \in Columns /\ rg \in PageRange /\ rg.off \in Nat /\ rg.len \in Nat /\ f + got <= rg.len
      /\ rg.len <= SlotRows /\ SlotRows \in Nat
  <2>1. col \in Columns /\ rg \in PageRange
    BY <1>2, <1>3, TheReads
  <2>2. rg.len <= SlotRows
    <3>1. k \in Nat /\ k < Total
      <4>1. k < loop.next /\ k \in Nat /\ loop.next <= Total /\ Total \in Nat
        BY <1>2, <1>3, TasksInPlace, TheReads DEF OneTask
      <4> PICK a, b : a = loop.next /\ b = Total
        OBVIOUS
      <4> QED
        BY <1>4, <4>1
    <3> QED
      BY <1>2, <3>1, TaskInPlan
  <2> QED
    BY <1>3, <2>1, <2>2, RangeNumbers, RowsAreNat
<1>7. /\ ReadOnce' /\ OnlyReads(col, rg) /\ ReadUpTo(col, rg, f + got)'
  <2>1. deviceReads' = Counted(Span(col, rg.off + f, got))
    BY <1>1, <1>3 DEF Span
  <2>2. ReadUpTo(col, rg, f)
    BY <1>3 DEF Holding
  <2> QED
    BY <1>2, <1>3, <1>6, <2>1, <2>2, MoreRead
<1>8. /\ \A x \in Slots : /\ slots'[x].task = slots[x].task /\ slots'[x].filled = slots[x].filled
                          /\ x # s => slots'[x].bytes = slots[x].bytes
      /\ slots'[s].bytes = [b \in 0 .. SlotRows - 1 |->
           IF b \in f .. f + got - 1 THEN <<col, (rg.off + f) + (b - f)>> ELSE slots[s].bytes[b]]
  <2>1. slots \in [Slots -> SlotType]
    BY <1>2, RingInUse DEF GatherTypeOK, SlotType
  <2> PICK z : z = slots[s]
    OBVIOUS
  <2> PICK new : new = [b \in DOMAIN z.bytes |->
                     IF b \in e.at .. e.at + got - 1 THEN <<e.column, e.off + (b - e.at)>> ELSE z.bytes[b]]
    OBVIOUS
  <2>2. slots' = [slots EXCEPT ![s] = [z EXCEPT !.bytes = new]]
    BY <1>1, <1>3, <2>1
  <2>3. z \in SlotType /\ DOMAIN z.bytes = 0 .. SlotRows - 1
    BY <1>3, <2>1 DEF SlotType
  <2>4. slots'[s] = [z EXCEPT !.bytes = new] /\ \A x \in Slots : x # s => slots'[x] = slots[x]
    BY <1>3, <2>1, <2>2
  <2>5. slots'[s].task = z.task /\ slots'[s].filled = z.filled /\ slots'[s].bytes = new
    BY <2>3, <2>4 DEF SlotType
  <2>6. new = [b \in 0 .. SlotRows - 1 |->
           IF b \in f .. f + got - 1 THEN <<col, (rg.off + f) + (b - f)>> ELSE z.bytes[b]]
    BY <1>3, <2>3
  <2> QED
    BY <2>4, <2>5, <2>6
<1>9. \A t : Underway(t)' <=> Underway(t)
  BY <1>1, <1>8 DEF Underway, Free
<1>10. \A t \in Tasks : t # k => Others(TaskColumn(t), TaskRange(t), col, rg)
  BY <1>2, <1>3, TheReads
<1>11. \A t \in Tasks : t >= loop.next => t # k
  <2>1. k < loop.next /\ k \in Nat
    BY <1>2, <1>3, <1>4, TheReads DEF OneTask
  <2> QED
    BY <1>4, <2>1
<1>12. Underway(k)
  BY <1>3 DEF Underway
<1>13. /\ cq \in Seq(Completion)
       /\ \A i \in DOMAIN cq' : (i \in DOMAIN cq /\ cq'[i] = cq[i]) \/ cq'[i] = [slot |-> s, res |-> got]
  <2>1. cq \in Seq(Completion)
    BY <1>2, RingInUse DEF RingTypes, Completion
  <2> PICK a : a = [slot |-> s, res |-> got]
    OBVIOUS
  <2>2. cq' = Append(cq, a)
    BY <1>1
  <2>3. \A i \in DOMAIN cq' : (i \in DOMAIN cq /\ cq'[i] = cq[i]) \/ cq'[i] = a
    BY <2>1, <2>2
  <2> QED
    BY <2>1, <2>3
<1>14. ASSUME NEW x \in Slots, NEW t \in Tasks, NEW n \in 0 .. SlotRows, slots'[x].task = t, Arrived(x, n)'
       PROVE  \/ /\ slots[x].task = t /\ Arrived(x, n) /\ slots'[x].bytes = slots[x].bytes
                 /\ Others(TaskColumn(t), TaskRange(t), col, rg)
              \/ Holding(x, t, n)'
  <2>1. CASE x # s
    <3>1. slots'[x].filled = slots[x].filled /\ slots'[x].bytes = slots[x].bytes /\ slots[x].task = t
      BY <1>8, <1>14, <2>1
    <3>2. /\ \A i \in DOMAIN sq' : sq'[i].slot = x => InQueue(x) \/ InKernel(x)
          /\ \A d \in kernel' : d.slot = x => InQueue(x) \/ InKernel(x)
          /\ \A i \in DOMAIN cq' : cq'[i].slot = x => cq'[i] \in {cq[j] : j \in DOMAIN cq}
      BY <1>1, <1>13, <2>1 DEF InQueue, InKernel
    <3>3. Arrived(x, n)
      BY <1>14, <3>1, <3>2, ArrivedElsewhere
    <3>4. Free(x) = 0
      BY <1>5, <3>3 DEF Arrived, OnePlace, InQueue, InKernel, InAnswer
    <3>5. t # k
      BY <1>3, <1>4, <2>1, <3>1, <3>4 DEF OneTask
    <3> QED
      BY <1>10, <3>1, <3>3, <3>5
  <2>2. CASE x = s
    <3>1. ~InQueue(s) /\ ~InAnswer(s) /\ ~(\E d \in kernel' : d.slot = s)
      BY <1>1, <1>3, <1>5 DEF OnePlace, InKernel
    <3>2. n = f + got /\ t = k
      <4>1. \A i \in DOMAIN cq' : cq'[i].slot = s => cq'[i].res = got
        BY <1>13, <3>1 DEF InAnswer
      <4>2. ~(\E i \in DOMAIN sq' : sq'[i].slot = s)
        BY <1>1, <3>1 DEF InQueue
      <4> QED
        BY <1>3, <1>8, <1>14, <2>2, <3>1, <4>1, <4>2 DEF Arrived
    <3>3. TaskColumn(k)' = col /\ TaskRange(k)' = rg
      BY <1>1, GatherKeptMeans, ListsKept DEF TaskColumn
    <3>4. ASSUME NEW b \in 0 .. n - 1 PROVE slots'[s].bytes[b] = <<col, rg.off + b>>
      <4>1. b \in 0 .. SlotRows - 1 /\ b \in Nat
        BY <1>6, <3>2
      <4>2. CASE b \in f .. f + got - 1
        <5>1. (rg.off + f) + (b - f) = rg.off + b
          BY <1>3, <1>6, <4>1
        <5> QED
          BY <1>8, <4>1, <4>2, <5>1
      <4>3. CASE b \notin f .. f + got - 1
        <5>1. b \in 0 .. f - 1
          BY <1>3, <3>2, <4>1, <4>3
        <5>2. slots[s].bytes[b] = <<col, rg.off + b>>
          BY <1>3, <5>1 DEF Holding
        <5> QED
          BY <1>8, <4>1, <4>3, <5>2
      <4> QED
        BY <4>2, <4>3
    <3>5. ReadUpTo(col, rg, n)'
      BY <1>7, <3>2
    <3> QED
      BY <2>2, <3>2, <3>3, <3>4, <3>5 DEF Holding, ReadUpTo
  <2> QED
    BY <2>1, <2>2
<1>15. OutsStay
  BY <1>1 DEF OutsStay, InPlace
<1>16. RingSound'
  <2>1. loop'.next = loop.next
    BY <1>1
  <2>2. \A t \in Tasks : t >= loop'.next =>
          t >= loop.next /\ Others(TaskColumn(t), TaskRange(t), col, rg)
    BY <1>10, <1>11, <2>1
  <2>3. \A t \in Tasks : t < loop'.next /\ ~Underway(t)' =>
          t < loop.next /\ ~Underway(t) /\ Others(TaskColumn(t), TaskRange(t), col, rg)
    BY <1>9, <1>10, <1>12, <2>1
  <2> QED
    BY <1>1, <1>7, <1>14, <1>15, <2>2, <2>3, RingSoundStep
<1>17. \A d \in Reads : Others(d % MeasureCount, LargeRange(d), col, rg)
  BY <1>2, <1>3, TheReads, OthersSymmetric
<1>18. \E i \in DOMAIN ranges : rg = ranges[i]
  BY <1>2, <1>3, TheReads
<1>19. DirectSound' /\ OnlyRanges'
  BY <1>1, <1>2, <1>7, <1>15, <1>17, <1>18, GatherKeptMeans, DirectKept, RangesKept
<1> QED
  BY <1>1, <1>2, <1>7, <1>16, <1>19, RingRest

\* Reads in flight ask for values not yet read, no two of them for the same value.
LEMMA InFlightApart ==
  ASSUME ReadInv, Ringing
  PROVE  /\ \A e \in kernel : Asks(e) \cap Moved = {}
         /\ \A e, f \in kernel : e # f => Asks(e) \cap Asks(f) = {}
<1>1. /\ GatherInv /\ PlanSound /\ Apart(ranges)
  BY RingFacts
<1>2. OneTask /\ \A s \in Slots : OnePlace(s)
  BY <1>1, TasksInPlace, AllInPlace
<1>3. ASSUME NEW e \in kernel, NEW k, k = slots[e.slot].task, NEW v \in Asks(e)
      PROVE  /\ v[1] = TaskColumn(k) /\ v[2] \in Reach(TaskRange(k)) /\ v \notin Moved
  <2> PICK f, rg, col : f = slots[e.slot].filled /\ rg = TaskRange(k) /\ col = TaskColumn(k)
    OBVIOUS
  <2>1. /\ f \in Nat /\ f + e.len = rg.len /\ e.column = col /\ e.off = rg.off + f
        /\ k \in Tasks /\ e \in Request /\ Holding(e.slot, k, f)
    BY <1>3, KernelAsks
  <2>2. rg \in PageRange /\ col \in Columns /\ e.len \in Nat /\ rg.off \in Nat /\ rg.len \in Nat
    BY <1>1, <2>1, TheReads, RangeNumbers DEF Request
  <2>3. PICK b \in 0 .. e.len - 1 : v = <<e.column, e.off + b>>
    BY <1>3 DEF Asks
  <2>4. f + b \in 0 .. rg.len - 1 /\ ~(f + b < f) /\ e.off + b = rg.off + (f + b)
    BY <2>1, <2>2
  <2>5. rg.off + (f + b) \in Reach(rg)
    BY <2>2, <2>4, InRange
  <2>6. deviceReads[<<col, rg.off + (f + b)>>] = 0
    <3>1. ReadUpTo(col, rg, f)
      BY <2>1 DEF Holding
    <3> QED
      BY <2>4, <3>1 DEF ReadUpTo
  <2>7. v = <<col, rg.off + (f + b)>>
    BY <2>1, <2>3, <2>4
  <2> QED
    BY <2>5, <2>6, <2>7 DEF Moved
<1>4. ASSUME NEW e \in kernel, NEW f \in kernel, e # f PROVE Asks(e) \cap Asks(f) = {}
  <2> SUFFICES ASSUME NEW v \in Asks(e), v \in Asks(f) PROVE FALSE
    OBVIOUS
  <2> PICK k, l : k = slots[e.slot].task /\ l = slots[f.slot].task
    OBVIOUS
  <2>1. /\ e.slot \in Slots /\ f.slot \in Slots /\ Free(e.slot) = 0 /\ Free(f.slot) = 0
        /\ k \in Tasks /\ l \in Tasks
    BY KernelAsks
  <2>2. e.slot # f.slot
    BY <1>2, <1>4, <2>1 DEF OnePlace
  <2>3. k # l
    BY <1>2, <2>1, <2>2 DEF OneTask
  <2>4. Others(TaskColumn(k), TaskRange(k), TaskColumn(l), TaskRange(l))
    BY <1>1, <2>1, <2>3, TheReads
  <2>5. /\ v[1] = TaskColumn(k) /\ v[2] \in Reach(TaskRange(k))
        /\ v[1] = TaskColumn(l) /\ v[2] \in Reach(TaskRange(l))
    BY <1>3
  <2> QED
    BY <2>4, <2>5 DEF Others
<1> QED
  BY <1>3, <1>4

LEMMA ThrownReads ==
  ASSUME ReadInv, Ringing, phase' = "thrown", kernel' = kernel, deviceReads' = deviceReads,
         GatherKept, GatherInv'
  PROVE  ReadInv'
<1>1. sortGather' = sortGather /\ batch' = batch /\ cursors' = cursors
  BY GatherKeptMeans
<1>2. OrderSound'
  BY <1>1, OrderKept DEF ReadInv
<1>3. MergeSound'
  <2>1. cursors \in Seq(Cursor) /\ phase \notin {"idle", "merge"}
    BY RingFacts DEF PlanSound, Ringing
  <2> QED
    BY <1>1, <2>1, MergeKept DEF ReadInv
<1>4. ReadOnce' /\ Moved' = Moved
  BY DEF ReadInv, ReadOnce, Moved
<1>5. KernelSound'
  BY <1>4, InFlightApart DEF KernelSound, Asks
<1> QED
  BY <1>2, <1>3, <1>4, <1>5
  DEF ReadInv, NothingRead, ScanSound, GatherSound, Gathering, Served

LEMMA ResumedReads ==
  ASSUME ReadInv, phase \in {"wait", "drain"}, cq # <<>>, phase' = "drain", cq' = Tail(cq),
         NEW s, NEW k, NEW got, s = Head(cq).slot, k = slots[s].task,
         got = slots[s].filled + Head(cq).res, got < TaskRange(k).len,
         SubmitTask(s, k, got), freeSlots' = freeSlots,
         loop' = [loop EXCEPT !.unsubmitted = Announced(got, Pending)],
         outs' = outs, deviceReads' = deviceReads, GatherKept, GatherInv'
  PROVE  ReadInv'
<1> PICK f, r, l : f = slots[s].filled /\ r = Head(cq).res /\ l = TaskRange(k).len
  OBVIOUS
<1>1. Ringing /\ Ringing' /\ phase' \in {"fill", "wait", "drain"}
  BY DEF Ringing
<1>2. /\ GatherInv /\ PlanSound /\ RingSound /\ ReadOnce /\ DirectSound /\ OnlyRanges
      /\ DOMAIN outs = Columns /\ Covering(ranges) /\ direct = Len(Large) * MeasureCount
      /\ Apart(ranges) /\ RingTypes /\ Accounted /\ GatherTypeOK
  BY <1>1, RingFacts, RingInUse
<1>3. /\ s \in Slots /\ CountIn(freeSlots, s) = 0 /\ CountIn(Keys(sq), s) = 0
      /\ (\A i \in DOMAIN sq : sq[i].slot # s) /\ (\A e \in kernel : e.slot # s)
      /\ \A i \in DOMAIN Tail(cq) :
           /\ i + 1 \in DOMAIN cq /\ Tail(cq)[i] = cq[i + 1]
           /\ Tail(cq)[i].slot \in Slots \ {s}
  BY <1>1, <1>2, FirstCompletion
<1>4. cq \in Seq(Completion) /\ Head(cq) = cq[1] /\ 1 \in DOMAIN cq
  <2>1. cq \in Seq(Completion)
    BY <1>2 DEF RingTypes, Completion
  <2> QED
    BY <2>1, CountHead
<1>5. Arrived(s, got)
  BY <1>4 DEF Arrived
<1>6. /\ sq' = Append(sq, Entry(s, k, got)) /\ kernel' = kernel
      /\ slots' = [slots EXCEPT ![s].task = k, ![s].filled = got]
  <2>1. ~QueueFull
    BY <1>2, <1>3, QueueHasRoom
  <2> QED
    BY <2>1 DEF SubmitTask
<1>7. /\ slots'[s].task = k /\ slots'[s].filled = got /\ slots'[s].bytes = slots[s].bytes
      /\ \A x \in Slots : x # s => slots'[x] = slots[x]
  <2>1. slots \in [Slots -> SlotType]
    BY <1>2 DEF GatherTypeOK, SlotType
  <2> PICK z : z = slots[s]
    OBVIOUS
  <2>2. slots' = [slots EXCEPT ![s] = [z EXCEPT !.task = k, !.filled = got]]
    BY <1>3, <1>6, <2>1
  <2>3. z \in SlotType
    BY <1>3, <2>1
  <2> QED
    BY <1>3, <2>1, <2>2, <2>3 DEF SlotType
<1>8. /\ sq \in Seq(Request)
      /\ \A i \in DOMAIN sq' : sq'[i].slot = s \/ (i \in DOMAIN sq /\ sq'[i] = sq[i])
      /\ Len(sq) + 1 \in DOMAIN sq' /\ sq'[Len(sq) + 1].slot = s
  <2>1. sq \in Seq(Request)
    BY <1>2 DEF RingTypes
  <2> PICK en : en = Entry(s, k, got)
    OBVIOUS
  <2>2. en.slot = s
    BY DEF Entry
  <2> PICK q, n : q = sq /\ n = Len(q)
    OBVIOUS
  <2>3. /\ sq' = Append(q, en) /\ n \in Nat /\ DOMAIN q = 1 .. n /\ DOMAIN Append(q, en) = 1 .. n + 1
        /\ Append(q, en)[n + 1] = en /\ \A i \in DOMAIN q : Append(q, en)[i] = q[i]
    <3>1. q \in Seq(Request)
      BY <2>1
    <3>2. /\ Len(q) \in Nat /\ DOMAIN q = 1 .. Len(q) /\ DOMAIN Append(q, en) = 1 .. Len(q) + 1
          /\ Append(q, en)[Len(q) + 1] = en /\ \A i \in DOMAIN q : Append(q, en)[i] = q[i]
      BY ONLY <3>1, AppendEntries
    <3> QED
      BY <1>6, <3>2
  <2>4. n + 1 \in DOMAIN sq' /\ sq'[n + 1].slot = s
    BY <2>2, <2>3
  <2>5. ASSUME NEW i \in DOMAIN sq' PROVE sq'[i].slot = s \/ (i \in DOMAIN sq /\ sq'[i] = sq[i])
    <3>1. i \in 1 .. n \/ i = n + 1
      BY <2>3
    <3>2. CASE i \in 1 .. n
      BY <2>3, <3>2
    <3>3. CASE i = n + 1
      BY <2>4, <3>3
    <3> QED
      BY <3>1, <3>2, <3>3
  <2> QED
    BY <2>1, <2>4, <2>5
<1>9. loop'.next = loop.next
  <2>1. loop \in LoopType
    BY <1>2 DEF RingTypes, LoopType
  <2> QED
    BY <2>1 DEF LoopType
<1> PICK rg : rg = 0
  OBVIOUS
<1>10. /\ OnlyReads(-1, rg) /\ (\A c \in Columns : \A rh : Others(c, rh, -1, rg)) /\ -1 \notin Columns
       /\ ReadOnce' /\ OutsStay
  BY <1>2, NothingIsRead
<1>11. /\ \A t \in Tasks : Others(TaskColumn(t), TaskRange(t), -1, rg)
       /\ \A d \in Reads : Others(d % MeasureCount, LargeRange(d), -1, rg)
  BY <1>2, <1>10, TheReads
<1>12. \A t : Underway(t)' <=> Underway(t)
  <2>1. \A x \in Slots : slots'[x].task = slots[x].task
    BY <1>7
  <2> QED
    BY <2>1 DEF Underway, Free
<1>13. ASSUME NEW x \in Slots, NEW t \in Tasks, NEW n \in 0 .. SlotRows, slots'[x].task = t, Arrived(x, n)'
       PROVE  slots[x].task = t /\ Arrived(x, n) /\ slots'[x].bytes = slots[x].bytes
  <2>1. CASE x # s
    <3>1. slots'[x] = slots[x]
      BY <1>7, <2>1
    <3>2. /\ \A i \in DOMAIN sq' : sq'[i].slot = x => InQueue(x) \/ InKernel(x)
          /\ \A e \in kernel' : e.slot = x => InQueue(x) \/ InKernel(x)
      <4>1. \A i \in DOMAIN sq' : sq'[i].slot = x => InQueue(x)
        <5> SUFFICES ASSUME NEW i \in DOMAIN sq', sq'[i].slot = x PROVE InQueue(x)
          OBVIOUS
        <5>1. i \in DOMAIN sq /\ sq'[i] = sq[i]
          BY <1>8, <2>1, Zenon
        <5> QED
          BY <5>1 DEF InQueue
      <4>2. kernel' = kernel
        BY <1>6
      <4> QED
        BY <4>1, <4>2, Zenon DEF InKernel
    <3>3. \A i \in DOMAIN cq' : cq'[i].slot = x => cq'[i] \in {cq[j] : j \in DOMAIN cq}
      BY <1>3
    <3>4. Arrived(x, n)
      BY <1>13, <3>1, <3>2, <3>3, ArrivedElsewhere
    <3> QED
      BY <1>13, <3>1, <3>4
  <2>2. CASE x = s
    <3>1. n = got
      <4>1. ~(\E i \in DOMAIN cq' : cq'[i].slot = s)
        BY <1>3
      <4> QED
        BY <1>7, <1>13, <2>2, <4>1 DEF Arrived
    <3> QED
      BY <1>5, <1>7, <1>13, <2>2, <3>1
  <2> QED
    BY <2>1, <2>2
<1>14. RingSound'
  BY <1>1, <1>9, <1>10, <1>11, <1>12, <1>13, RingSoundStep
<1>15. DirectSound' /\ OnlyRanges'
  BY <1>2, <1>10, <1>11, GatherKeptMeans, DirectKept, RangesKept
<1> QED
  BY <1>1, <1>2, <1>10, <1>14, <1>15, RingRest

LEMMA FinishedReads ==
  ASSUME ReadInv, phase \in {"wait", "drain"}, cq # <<>>, phase' = "drain", cq' = Tail(cq),
         NEW s, NEW k, NEW got, s = Head(cq).slot, k = slots[s].task,
         got = slots[s].filled + Head(cq).res, ~(got < TaskRange(k).len),
         outs' = Scattered(TaskColumn(k), TaskRange(k), slots[s].bytes),
         slots' = [slots EXCEPT ![s].filled = got], freeSlots' = Append(freeSlots, s),
         loop' = [loop EXCEPT !.inflight = @ - 1, !.done = @ + 1],
         UNCHANGED <<sq, kernel>>, deviceReads' = deviceReads, GatherKept, GatherInv'
  PROVE  ReadInv'
<1> PICK f, r, rg, col : f = slots[s].filled /\ r = Head(cq).res /\ rg = TaskRange(k)
                         /\ col = TaskColumn(k)
  OBVIOUS
<1> PICK l : l = TaskRange(k).len
  OBVIOUS
<1>1. Ringing /\ Ringing' /\ phase' \in {"fill", "wait", "drain"}
  BY DEF Ringing
<1>2. /\ GatherInv /\ PlanSound /\ RingSound /\ ReadOnce /\ DirectSound /\ OnlyRanges
      /\ DOMAIN outs = Columns /\ Covering(ranges) /\ direct = Len(Large) * MeasureCount
      /\ Apart(ranges) /\ RingTypes /\ Accounted /\ GatherTypeOK /\ batch \in Seq(Wanted)
  BY <1>1, RingFacts, RingInUse
<1>3. /\ s \in Slots /\ CountIn(freeSlots, s) = 0 /\ CountIn(Keys(sq), s) = 0
      /\ f \in Nat /\ r \in Nat /\ l \in Nat /\ f + r <= l /\ l <= SlotRows
      /\ (\A i \in DOMAIN sq : sq[i].slot # s) /\ (\A e \in kernel : e.slot # s)
      /\ \A i \in DOMAIN Tail(cq) :
           /\ i + 1 \in DOMAIN cq /\ Tail(cq)[i] = cq[i + 1]
           /\ Tail(cq)[i].slot \in Slots \ {s}
  BY <1>1, <1>2, FirstCompletion
<1>4. got = l /\ got = rg.len /\ got \in 0 .. SlotRows
  <2>1. got = f + r /\ ~(got < l)
    OBVIOUS
  <2>2. got = l
    BY <1>3, <2>1
  <2> QED
    BY <1>3, <2>2, RowsAreNat, StoreAssumption
<1>5. cq \in Seq(Completion) /\ Head(cq) = cq[1] /\ 1 \in DOMAIN cq
  <2>1. cq \in Seq(Completion)
    BY <1>2 DEF RingTypes, Completion
  <2> QED
    BY <2>1, CountHead
<1>6. Arrived(s, got)
  BY <1>5 DEF Arrived
<1>7. OneTask /\ loop.next \in Nat /\ k \in Tasks
  <2>1. Free(s) = 0
    BY <1>2, <1>3, WhereNamed
  <2> QED
    BY <1>1, <1>2, <1>3, <2>1, TasksInPlace DEF OneTask
<1>8. Holding(s, k, got)
  BY <1>2, <1>3, <1>4, <1>6, <1>7 DEF RingSound
<1>9. col \in Columns /\ rg \in PageRange
  BY <1>2, <1>7, TheReads
<1>10. /\ slots'[s].task = k /\ \A x \in Slots : x # s => slots'[x] = slots[x]
  <2>1. slots \in [Slots -> SlotType]
    BY <1>2 DEF GatherTypeOK, SlotType
  <2> PICK z : z = slots[s]
    OBVIOUS
  <2>2. slots' = [slots EXCEPT ![s] = [z EXCEPT !.filled = got]]
    BY <1>3, <2>1
  <2>3. z \in SlotType
    BY <1>3, <2>1
  <2> QED
    BY <1>3, <2>1, <2>2, <2>3 DEF SlotType
<1>11. loop'.next = loop.next
  <2>1. loop \in LoopType
    BY <1>2 DEF RingTypes, LoopType
  <2> QED
    BY <2>1 DEF LoopType
<1>12. \A x \in Slots : x # s /\ Free(x) = 0 => (Free(x) = 0)'
  <2> TAKE x \in Slots
  <2> HAVE x # s /\ Free(x) = 0
  <2>1. \A i \in DOMAIN freeSlots : freeSlots[i] # x
    BY <1>2, WhereNamed
  <2>2. \A i \in DOMAIN freeSlots' : freeSlots'[i] # x
    <3>1. freeSlots \in Seq(Slots)
      BY <1>2 DEF RingTypes
    <3> QED
      BY <1>3, <2>1, <3>1
  <2>3. {i \in DOMAIN freeSlots' : freeSlots'[i] = x} = {}
    BY <2>2
  <2> QED
    BY <2>3, FS_EmptySet DEF Free
<1> PICK rz : rz = 0
  OBVIOUS
<1>13. /\ OnlyReads(-1, rz) /\ (\A c \in Columns : \A rh : Others(c, rh, -1, rz)) /\ -1 \notin Columns
       /\ ReadOnce'
  BY <1>2, NothingIsRead
<1>14. /\ \A t \in Tasks : Others(TaskColumn(t), TaskRange(t), -1, rz)
       /\ \A d \in Reads : Others(d % MeasureCount, LargeRange(d), -1, rz)
  BY <1>2, <1>13, TheReads
<1>15. sortGather' = sortGather /\ batch' = batch /\ ranges' = ranges /\ ring' = ring
       /\ direct' = direct
  BY GatherKeptMeans
<1>16. DOMAIN outs' = Columns /\ OutsStay /\ \A j \in Hits(rg) : InPlace(col, PosOf(j))'
  <2> PICK by : by = slots[s].bytes
    OBVIOUS
  <2>1. \A b \in 0 .. rg.len - 1 : by[b] = <<col, rg.off + b>>
    BY <1>4, <1>8 DEF Holding
  <2>2. \A j \in Hits(rg) : j \in 1 .. N /\ RowAt(j) \in Reach(rg)
    BY <1>2, <1>7, HitsInside
  <2>3. outs' = Scattered(col, rg, by)
    OBVIOUS
  <2> QED
    BY <1>2, <1>9, <1>15, <2>1, <2>2, <2>3, ScatterEffect
<1>17. Delivered(TaskColumn(k), TaskRange(k))'
  <2>1. TaskColumn(k)' = col /\ TaskRange(k)' = rg
    BY <1>15, ListsKept DEF TaskColumn
  <2>2. ReadUpTo(col, rg, rg.len)'
    <3>1. ReadUpTo(col, rg, rg.len)
      BY <1>4, <1>8 DEF Holding
    <3> QED
      BY <3>1 DEF ReadUpTo
  <2>3. Delivered(col, rg)'
    BY <1>16, <2>2 DEF Delivered, Hits
  <2> QED
    BY <2>1, <2>3 DEF Delivered, ReadUpTo, InPlace, Hits
<1>18. ASSUME NEW t \in Tasks, t < loop'.next, ~Underway(t)', t # k PROVE ~Underway(t)
  <2> SUFFICES ASSUME NEW x \in Slots, Free(x) = 0, slots[x].task = t PROVE FALSE
    BY DEF Underway
  <2>1. x # s
    BY <1>18
  <2>2. (Free(x) = 0)' /\ slots'[x].task = t
    BY <1>10, <1>12, <2>1
  <2> QED
    BY <1>18, <2>2 DEF Underway
<1>19. ASSUME NEW x \in Slots, NEW t \in Tasks, NEW n \in 0 .. SlotRows, slots'[x].task = t, Arrived(x, n)'
       PROVE  slots[x].task = t /\ Arrived(x, n) /\ slots'[x].bytes = slots[x].bytes
  <2>1. CASE x # s
    <3>1. slots'[x] = slots[x]
      BY <1>10, <2>1
    <3>2. /\ \A i \in DOMAIN sq' : sq'[i].slot = x => InQueue(x) \/ InKernel(x)
          /\ \A e \in kernel' : e.slot = x => InQueue(x) \/ InKernel(x)
      BY DEF InQueue, InKernel
    <3>3. \A i \in DOMAIN cq' : cq'[i].slot = x => cq'[i] \in {cq[j] : j \in DOMAIN cq}
      BY <1>3
    <3>4. Arrived(x, n)
      BY <1>19, <3>1, <3>2, <3>3, ArrivedElsewhere
    <3> QED
      BY <1>19, <3>1, <3>4
  <2>2. CASE x = s
    BY <1>3, <1>19, <2>2 DEF Arrived
  <2> QED
    BY <2>1, <2>2
<1>20. RingSound'
  BY <1>1, <1>11, <1>13, <1>14, <1>16, <1>17, <1>18, <1>19, RingSoundStep
<1>21. DirectSound' /\ OnlyRanges'
  BY <1>2, <1>13, <1>14, <1>15, <1>16, DirectKept, RangesKept
<1> QED
  BY <1>1, <1>2, <1>13, <1>16, <1>20, <1>21, RingRest

LEMMA HandleCompletionReads ==
  ASSUME ReadInv, HandleCompletion, GatherInv'
  PROVE  ReadInv'
<1> PICK s : s = Head(cq).slot
  OBVIOUS
<1> PICK k, got : k = slots[s].task /\ got = slots[s].filled + Head(cq).res
  OBVIOUS
<1>1. /\ phase \in {"wait", "drain"} /\ cq # <<>> /\ cq' = Tail(cq) /\ Ringing
      /\ deviceReads' = deviceReads /\ GatherKept
  BY DEF HandleCompletion, GatherKept, Ringing
<1>2. \/ phase' = "thrown" /\ kernel' = kernel
      \/ /\ got < TaskRange(k).len /\ phase' = "drain" /\ SubmitTask(s, k, got)
         /\ loop' = [loop EXCEPT !.unsubmitted = Announced(got, Pending)]
         /\ freeSlots' = freeSlots /\ outs' = outs
      \/ /\ ~(got < TaskRange(k).len) /\ phase' = "drain"
         /\ outs' = Scattered(TaskColumn(k), TaskRange(k), slots[s].bytes)
         /\ slots' = [slots EXCEPT ![s].filled = got]
         /\ freeSlots' = Append(freeSlots, s)
         /\ loop' = [loop EXCEPT !.inflight = @ - 1, !.done = @ + 1]
         /\ UNCHANGED <<sq, kernel>>
  BY Zenon DEF HandleCompletion, Released
<1>3. CASE phase' = "thrown" /\ kernel' = kernel
  BY <1>1, <1>3, ThrownReads
<1>4. CASE /\ got < TaskRange(k).len /\ phase' = "drain" /\ SubmitTask(s, k, got)
           /\ loop' = [loop EXCEPT !.unsubmitted = Announced(got, Pending)]
           /\ freeSlots' = freeSlots /\ outs' = outs
  BY <1>1, <1>4, ResumedReads
<1>5. CASE /\ ~(got < TaskRange(k).len) /\ phase' = "drain"
           /\ outs' = Scattered(TaskColumn(k), TaskRange(k), slots[s].bytes)
           /\ slots' = [slots EXCEPT ![s].filled = got]
           /\ freeSlots' = Append(freeSlots, s)
           /\ loop' = [loop EXCEPT !.inflight = @ - 1, !.done = @ + 1]
           /\ UNCHANGED <<sq, kernel>>
  BY <1>1, <1>5, FinishedReads
<1> QED
  BY <1>2, <1>3, <1>4, <1>5

LEMMA CompletedAfterThrow ==
  ASSUME ReadInv, phase = "thrown", NEW e \in kernel, NEW got \in 0 .. e.len, Completed(e, got),
         GatherInv'
  PROVE  ReadInv'
<1>1. /\ GatherInv /\ ReadOnce /\ KernelSound /\ PlanSound /\ e \in Request
      /\ OrderSound /\ MergeSound
  BY DEF ReadInv, GatherInv, RingTypes
<1>2. /\ phase' = "thrown" /\ GatherKept /\ kernel' = kernel \ {e}
      /\ deviceReads' = Counted({<<e.column, e.off + b>> : b \in 0 .. got - 1})
  BY DEF Completed, GatherKept
<1> PICK A : A = Span(e.column, e.off, got)
  OBVIOUS
<1>3. e.column \in Columns /\ e.off \in Nat /\ e.len \in Nat /\ got \in Nat /\ e.off + got <= RowCount
      /\ RowCount \in Nat
  <2>1. e.column \in Columns /\ e.off \in Nat /\ e.len \in Nat /\ e.off + e.len <= RowCount
    BY <1>1 DEF Request
  <2> QED
    BY <2>1, RowsAreNat
<1>4. A \in SUBSET Value
  BY <1>3, SpanCount
<1>5. A \subseteq Asks(e)
  BY <1>3 DEF Span, Asks
<1>6. A \cap Moved = {} /\ \A f \in kernel : f # e => Asks(f) \cap A = {} /\ Asks(f) \cap Moved = {}
  BY <1>1, <1>5 DEF KernelSound
<1>7. ReadOnce' /\ Moved' = Moved \union A
  BY <1>1, <1>2, <1>4, <1>6, CountedEffect DEF Span
<1>8. KernelSound'
  BY <1>1, <1>2, <1>6, <1>7 DEF KernelSound, Asks
<1>9. sortGather' = sortGather /\ batch' = batch /\ cursors' = cursors
  BY <1>2, GatherKeptMeans
<1>10. OrderSound' /\ MergeSound'
  BY <1>1, <1>2, <1>9, OrderKept, MergeKept DEF PlanSound
<1> QED
  BY <1>2, <1>7, <1>8, <1>10
  DEF ReadInv, NothingRead, ScanSound, GatherSound, Gathering, Served

LEMMA KernelReadsOn ==
  ASSUME ReadInv, Kernel, GatherInv'
  PROVE  ReadInv'
<1>1. PICK e \in kernel : KernelReads(e) \/ KernelFails(e)
  BY DEF Kernel
<1>2. GatherInv /\ e \in Request
  BY DEF ReadInv, GatherInv, RingTypes
<1>3. PICK got \in 0 .. e.len : Completed(e, got)
  <2>1. e.len \in Nat
    BY <1>2 DEF Request
  <2> QED
    BY <1>1, <2>1 DEF KernelReads, KernelFails
<1>4. Ringing \/ phase = "thrown"
  BY <1>2 DEF GatherInv, RingAtRest
<1> QED
  BY <1>3, <1>4, CompletedReads, CompletedAfterThrow

-----------------------------------------------------------------------------
(* The end of a gather.                                                    *)

LEMMA InBatchOrder == OrderSound => BatchInOrder
BY DEF OrderSound, BatchInOrder

\* When every read has delivered, every value is in its place and the device has
\* moved the ranges once for every column.
LEMMA EverythingDelivered ==
  ASSUME PlanSound, OrderSound, Covering(ranges), OnlyRanges, ReadOnce,
         \A d \in Reads : Delivered(d % MeasureCount, LargeRange(d)),
         ring = "live" => \A t \in Tasks : Delivered(TaskColumn(t), TaskRange(t))
  PROVE  /\ \A c \in Columns, i \in 1 .. N : InPlace(c, i)
         /\ Cardinality(Moved) = Bytes(ranges) * MeasureCount
<1>1. Apart(ranges) /\ ranges \in Seq(PageRange) /\ batch \in Seq(Wanted)
  BY DEF Covering, PlanSound
<1>2. ASSUME NEW c \in Columns, NEW k \in DOMAIN ranges PROVE Delivered(c, ranges[k])
  <2>1. CASE \E d \in Reads : LargeRange(d) = ranges[k] /\ d % MeasureCount = c
    BY <2>1
  <2>2. CASE ring = "live" /\ \E t \in Tasks : TaskRange(t) = ranges[k] /\ TaskColumn(t) = c
    BY <2>2
  <2> QED
    BY <1>1, <2>1, <2>2, EveryRangeIsRead
<1>3. ASSUME NEW c \in Columns, NEW i \in 1 .. N PROVE InPlace(c, i)
  <2>1. PICK j \in 1 .. N : PosOf(j) = i
    BY <1>1, InBatchOrder, VisitsInOrder
  <2>2. PICK k \in DOMAIN ranges : j \in Hits(ranges[k])
    BY DEF Covering
  <2> QED
    BY <1>2, <2>1, <2>2 DEF Delivered
<1> PICK C : C = CoveredBy(ranges, Len(ranges))
  OBVIOUS
<1>4. Moved = Columns \X C
  <2>1. ASSUME NEW v \in Moved PROVE v \in Columns \X C
    <3>1. PICK c \in Columns, r \in Rows : v = <<c, r>>
      BY <2>1 DEF Moved, Value
    <3>2. PICK k \in DOMAIN ranges : r \in Reach(ranges[k])
      BY <2>1, <3>1 DEF OnlyRanges, Moved
    <3>3. k \in 1 .. Len(ranges)
      BY <1>1
    <3> QED
      BY <3>1, <3>2, <3>3 DEF CoveredBy
  <2>2. ASSUME NEW c \in Columns, NEW r \in C PROVE <<c, r>> \in Moved
    <3>1. PICK k \in 1 .. Len(ranges) : r \in Reach(ranges[k]) /\ r \in Rows
      BY <2>2 DEF CoveredBy
    <3> PICK rg, b : rg = ranges[k] /\ b = r - rg.off
      OBVIOUS
    <3>2. rg \in PageRange /\ k \in DOMAIN ranges
      BY <1>1, <3>1
    <3>3. b \in 0 .. rg.len - 1 /\ rg.off + b = r
      BY <3>1, <3>2, OffsetInRange
    <3>4. b < rg.len
      BY <3>2, <3>3, RangeNumbers
    <3>5. ReadUpTo(c, rg, rg.len)
      BY <1>2, <2>2, <3>2 DEF Delivered
    <3>6. deviceReads[<<c, r>>] = 1
      BY <3>3, <3>4, <3>5 DEF ReadUpTo
    <3> QED
      BY <2>2, <3>1, <3>6 DEF Moved, Value
  <2> QED
    BY <2>1, <2>2
<1>5. IsFiniteSet(C) /\ Cardinality(C) = Bytes(ranges) /\ C \subseteq Rows
  BY <1>1, BytesCounted DEF CoveredBy
<1>6. Cardinality(Moved) = MeasureCount * Bytes(ranges)
  BY <1>4, <1>5, ValuesFinite, FS_Product
<1>7. MeasureCount * Bytes(ranges) = Bytes(ranges) * MeasureCount
  <2>1. Bytes(ranges) \in Nat /\ MeasureCount \in Nat
    BY <1>5, FS_CardinalityType, RowsAreNat
  <2> PICK a, b : a = Bytes(ranges) /\ b = MeasureCount
    OBVIOUS
  <2>2. a * b = b * a
    BY <2>1
  <2> QED
    BY <2>2
<1> QED
  BY <1>3, <1>6, <1>7

\* The step that ends a gather only moves on to the caller.
LEMMA ServedFollows ==
  ASSUME ReadInv, Gathering, phase' = "served", GatherKept, outs' = outs,
         deviceReads' = deviceReads, GatherInv',
         \A d \in Reads : Delivered(d % MeasureCount, LargeRange(d)),
         ring = "live" => \A t \in Tasks : Delivered(TaskColumn(t), TaskRange(t))
  PROVE  ReadInv'
<1>1. /\ GatherInv /\ PlanSound /\ OrderSound /\ MergeSound /\ Covering(ranges) /\ OnlyRanges
      /\ ReadOnce /\ stats.gatherBytes = Bytes(ranges) * MeasureCount /\ stats.scanBytes = 0
      /\ ranges \in Seq(PageRange) /\ Apart(ranges) /\ cursors \in Seq(Cursor)
  BY DEF ReadInv, GatherInv, GatherSound, PlanSound, Covering
<1>2. sortGather' = sortGather /\ batch' = batch /\ cursors' = cursors /\ stats' = stats
  BY GatherKeptMeans
<1>3. /\ \A c \in Columns, i \in 1 .. N : InPlace(c, i)
      /\ Cardinality(Moved) = Bytes(ranges) * MeasureCount
  BY <1>1, EverythingDelivered
<1>4. Cardinality(Moved) = stats.scanBytes + stats.gatherBytes
  <2>1. Bytes(ranges) * MeasureCount \in Nat
    BY <1>3, ValuesFinite, FS_CardinalityType
  <2> PICK a : a = Bytes(ranges) * MeasureCount
    OBVIOUS
  <2>2. a = 0 + a
    BY <2>1
  <2> QED
    BY <1>1, <1>3, <2>2
<1>5. Served'
  <2>1. Moved' = Moved /\ N' = N
    BY <1>2 DEF Moved, N
  <2> QED
    BY <1>2, <1>3, <1>4, <2>1 DEF Served, InPlace
<1>6. ReadOnce'
  BY <1>1 DEF ReadOnce
<1>7. OrderSound'
  BY <1>1, <1>2, OrderKept
<1>8. MergeSound'
  BY <1>1, <1>2, MergeKept DEF Gathering
<1> QED
  BY <1>5, <1>6, <1>7, <1>8
  DEF ReadInv, NothingRead, ScanSound, GatherSound, Gathering, KernelSound

LEMMA DrainedReads ==
  ASSUME ReadInv, Drained, GatherInv'
  PROVE  ReadInv'
<1>1. /\ phase = "drain" /\ cq = <<>> /\ Ringing /\ GatherKept /\ outs' = outs
      /\ deviceReads' = deviceReads /\ slots' = slots /\ freeSlots' = freeSlots
      /\ loop' = loop /\ sq' = sq /\ kernel' = kernel /\ cq' = cq
      /\ phase' = IF loop.done < Total THEN "fill" ELSE "served"
  BY DEF Drained, ringVars, GatherKept, Ringing
<1>2. /\ GatherInv /\ PlanSound /\ RingSound /\ ReadOnce /\ DirectSound /\ OnlyRanges
      /\ DOMAIN outs = Columns /\ Covering(ranges) /\ direct = Len(Large) * MeasureCount
      /\ Apart(ranges) /\ RingTypes /\ Accounted
  BY <1>1, RingFacts, RingInUse
<1>3. CASE loop.done < Total
  <2>1. phase' = "fill" /\ phase' \in {"fill", "wait", "drain"}
    BY <1>1, <1>3
  <2> PICK rg : rg = 0
    OBVIOUS
  <2>2. /\ OnlyReads(-1, rg) /\ (\A c \in Columns : \A rh : Others(c, rh, -1, rg)) /\ -1 \notin Columns
        /\ ReadOnce' /\ OutsStay
    BY <1>1, <1>2, NothingIsRead
  <2>3. /\ \A t \in Tasks : Others(TaskColumn(t), TaskRange(t), -1, rg)
        /\ \A d \in Reads : Others(d % MeasureCount, LargeRange(d), -1, rg)
    BY <1>2, <2>2, TheReads
  <2>4. \A t : Underway(t)' <=> Underway(t)
    BY <1>1 DEF Underway, Free
  <2>5. \A x, n : Arrived(x, n)' <=> Arrived(x, n)
    BY <1>1 DEF Arrived
  <2>6. RingSound'
    BY <1>1, <2>2, <2>3, <2>4, <2>5, RingSoundStep
  <2>7. DirectSound' /\ OnlyRanges'
    BY <1>1, <1>2, <2>2, <2>3, GatherKeptMeans, DirectKept, RangesKept
  <2> QED
    BY <1>1, <1>2, <2>1, <2>2, <2>6, <2>7, RingRest
<1>4. CASE ~(loop.done < Total)
  <2>1. phase' = "served" /\ Gathering
    BY <1>1, <1>4 DEF Gathering
  <2>2. sq = <<>> /\ kernel = {}
    BY <1>1, <2>1 DEF GatherInv, Ringing, RingAtRest
  <2>3. \A s \in Slots : Free(s) # 0
    BY <1>1, <1>2, <2>2, AllInPlace DEF OnePlace, InQueue, InKernel, InAnswer
  <2>4. \A t \in Tasks : t < loop.next
    <3>1. /\ loop.next \in Nat /\ loop.done \in Nat /\ loop.inflight \in Nat /\ Total \in Nat
          /\ loop.done + loop.inflight = loop.next
      BY <1>1, <1>2, RingInUse DEF RingTypes, Accounted
    <3>2. loop.next >= Total
      <4> PICK a, b, c, d : a = loop.next /\ b = loop.done /\ c = loop.inflight /\ d = Total
        OBVIOUS
      <4> QED
        BY <1>4, <3>1
    <3> QED
      BY <3>1, <3>2 DEF Tasks
  <2>5. \A t \in Tasks : Delivered(TaskColumn(t), TaskRange(t))
    BY <1>2, <2>3, <2>4 DEF RingSound, Underway
  <2>6. \A d \in Reads : Delivered(d % MeasureCount, LargeRange(d))
    <3>1. \A d \in Reads : d < direct
      <4> PICK a : a = Len(Large) * MeasureCount
        OBVIOUS
      <4>1. a \in Nat
        BY <1>2 DEF PlanSound
      <4> QED
        BY <1>2, <4>1 DEF Reads
    <3> QED
      BY <1>2, <3>1 DEF DirectSound
  <2> QED
    BY <1>1, <2>1, <2>5, <2>6, ServedFollows
<1> QED
  BY <1>3, <1>4

LEMMA EndDirectReads ==
  ASSUME ReadInv, EndDirect, GatherInv'
  PROVE  ReadInv'
<1>1. /\ phase = "direct" /\ Gathering /\ ~Ringing /\ direct = Len(Large) * MeasureCount
      /\ GatherKept /\ outs' = outs /\ deviceReads' = deviceReads
      /\ loop' = IdleLoop /\ sq' = sq /\ kernel' = kernel /\ cq' = cq
      /\ phase' = IF ring # "live" \/ Total = 0 THEN "served" ELSE "fill"
  BY DEF EndDirect, ringVars, GatherKept, Ringing, Gathering
<1>2. /\ GatherInv /\ PlanSound /\ ReadOnce /\ DirectSound /\ OnlyRanges /\ OrderSound /\ MergeSound
      /\ DOMAIN outs = Columns /\ Covering(ranges) /\ Apart(ranges)
      /\ ring # "live" \/ Unstarted
      /\ stats.gatherBytes = Bytes(ranges) * MeasureCount /\ stats.scanBytes = 0
      /\ ranges \in Seq(PageRange) /\ cursors \in Seq(Cursor)
  BY <1>1 DEF ReadInv, GatherInv, GatherSound, Covering, PlanSound
<1>3. \A d \in Reads : Delivered(d % MeasureCount, LargeRange(d))
  <2>1. \A d \in Reads : d < direct
    <3> PICK a : a = Len(Large) * MeasureCount
      OBVIOUS
    <3>1. a \in Nat
      BY <1>1, <1>2 DEF PlanSound
    <3> QED
      BY <1>1, <3>1 DEF Reads
  <2> QED
    BY <1>2, <2>1 DEF DirectSound
<1>4. CASE ring # "live" \/ Total = 0
  <2>1. ring = "live" => \A t \in Tasks : Delivered(TaskColumn(t), TaskRange(t))
    BY <1>4 DEF Tasks
  <2> QED
    BY <1>1, <1>3, <1>4, <2>1, ServedFollows
<1>5. CASE ~(ring # "live" \/ Total = 0)
  <2>1. ring = "live" /\ phase' = "fill" /\ Unstarted
    BY <1>1, <1>2, <1>5
  <2>2. /\ sortGather' = sortGather /\ ring' = ring /\ cursors' = cursors /\ batch' = batch
        /\ ranges' = ranges /\ direct' = direct /\ stats' = stats
    BY <1>1, GatherKeptMeans
  <2> PICK rg : rg = 0
    OBVIOUS
  <2>3. /\ OnlyReads(-1, rg) /\ (\A c \in Columns : \A rh : Others(c, rh, -1, rg)) /\ -1 \notin Columns
        /\ ReadOnce' /\ OutsStay
    BY <1>1, <1>2, NothingIsRead
  <2>4. \A d \in Reads : Others(d % MeasureCount, LargeRange(d), -1, rg)
    BY <1>2, <2>3, TheReads
  <2>5. DirectSound' /\ OnlyRanges' /\ Covering(ranges)'
    BY <1>1, <1>2, <2>2, <2>3, <2>4, DirectKept, RangesKept, CoveringKept
  <2>6. Large' = Large /\ Tasks' = Tasks /\ \A t : TaskRange(t)' = TaskRange(t)
    BY <2>2, ListsKept
  <2>7. sq' = <<>> /\ kernel' = {} /\ cq' = <<>>
    BY <1>1, <1>2 DEF GatherInv, RingAtRest
  <2>8. RingSound'
    <3>1. \A s, n : ~Arrived(s, n)'
      BY <2>7 DEF Arrived
    <3>2. \A t \in Tasks : t \in Nat /\ loop'.next = 0
      BY <1>1, <1>2, TheReads DEF IdleLoop
    <3>3. \A t \in Tasks : ReadUpTo(TaskColumn(t), TaskRange(t), 0)'
      BY <1>1, <2>1, <2>6 DEF Unstarted, ReadUpTo, TaskColumn
    <3>4. \A t \in Tasks : ~(t < loop'.next)
      BY <3>2
    <3> QED
      BY <2>6, <3>1, <3>3, <3>4 DEF RingSound
  <2>9. Bytes(ranges)' = Bytes(ranges)
    BY <2>2 DEF Bytes
  <2>10. GatherSound'
    BY <1>1, <1>2, <2>1, <2>2, <2>5, <2>6, <2>8, <2>9 DEF GatherSound, Ringing
  <2>11. OrderSound' /\ MergeSound'
    BY <1>1, <1>2, <2>1, <2>2, OrderKept, MergeKept
  <2> QED
    BY <2>1, <2>3, <2>10, <2>11
    DEF ReadInv, NothingRead, ScanSound, KernelSound, Served
<1> QED
  BY <1>4, <1>5

LEMMA ReadDirectReads ==
  ASSUME ReadInv, ReadDirect, GatherInv'
  PROVE  ReadInv'
<1> PICK d : d = direct
  OBVIOUS
<1> PICK rg, c : rg = LargeRange(d) /\ c = d % MeasureCount
  OBVIOUS
<1>1. /\ phase = "direct" /\ phase' = "direct" /\ Gathering /\ d < Len(Large) * MeasureCount
      /\ outs' = Scattered(c, rg, [b \in 0 .. rg.len - 1 |-> <<c, rg.off + b>>])
      /\ deviceReads' = Counted({<<c, rg.off + b>> : b \in 0 .. rg.len - 1})
      /\ direct' = d + 1 /\ sortGather' = sortGather /\ ring' = ring /\ cursors' = cursors
      /\ batch' = batch /\ ranges' = ranges /\ stats' = stats
  BY DEF ReadDirect, LargeRange, Gathering, configVars, planVars
<1>2. /\ GatherInv /\ PlanSound /\ ReadOnce /\ DirectSound /\ OnlyRanges /\ OrderSound /\ MergeSound
      /\ DOMAIN outs = Columns /\ Covering(ranges) /\ Apart(ranges)
      /\ (ring # "live" \/ Unstarted) /\ batch \in Seq(Wanted)
      /\ stats.gatherBytes = Bytes(ranges) * MeasureCount /\ stats.scanBytes = 0
      /\ ranges \in Seq(PageRange) /\ cursors \in Seq(Cursor) /\ d \in Nat
  BY <1>1 DEF ReadInv, GatherInv, GatherSound, Covering, PlanSound
<1>3. d \in Reads /\ \A e \in Reads : e \in Nat
  <2> PICK a : a = Len(Large) * MeasureCount
    OBVIOUS
  <2>1. Len(Large) \in Nat /\ MeasureCount \in Nat
    BY <1>2, ListsPlanned, RowsAreNat
  <2>2. a \in Nat /\ d < a
    BY <1>1, <2>1
  <2> QED
    BY <1>2, <2>2 DEF Reads
<1>4. c \in Columns /\ rg \in PageRange /\ (\E k \in DOMAIN ranges : rg = ranges[k])
      /\ rg.off \in Nat /\ rg.len \in Nat
  BY <1>2, <1>3, TheReads, RangeNumbers
<1>5. ReadUpTo(c, rg, 0)
  BY <1>2, <1>3 DEF DirectSound
<1>6. ReadOnce' /\ OnlyReads(c, rg) /\ ReadUpTo(c, rg, rg.len)'
  <2>1. 0 + rg.len = rg.len /\ rg.off + 0 = rg.off
    BY <1>4
  <2>2. deviceReads' = Counted(Span(c, rg.off + 0, rg.len))
    BY <1>1, <2>1 DEF Span
  <2> PICK z, m : z = 0 /\ m = rg.len
    OBVIOUS
  <2>3. ReadOnce' /\ OnlyReads(c, rg) /\ ReadUpTo(c, rg, z + m)'
    BY <1>2, <1>4, <1>5, <2>1, <2>2, MoreRead
  <2>4. z + m = rg.len
    BY <2>1
  <2> QED
    BY <2>3, <2>4
<1>7. DOMAIN outs' = Columns /\ OutsStay /\ \A j \in Hits(rg) : InPlace(c, PosOf(j))'
  <2> PICK by : by = [b \in 0 .. rg.len - 1 |-> <<c, rg.off + b>>]
    OBVIOUS
  <2>1. \A j \in Hits(rg) : j \in 1 .. N /\ RowAt(j) \in Reach(rg)
    BY <1>2, <1>3, HitsInside
  <2> QED
    BY <1>1, <1>2, <1>4, <2>1, ScatterEffect
<1>8. Large' = Large /\ Tasks' = Tasks /\ Reads' = Reads
      /\ (\A t : TaskRange(t)' = TaskRange(t)) /\ \A e : LargeRange(e)' = LargeRange(e)
  BY <1>1, ListsKept
<1>9. ASSUME NEW e \in Reads PROVE
        IF e < d + 1 THEN Delivered(e % MeasureCount, LargeRange(e))'
        ELSE ReadUpTo(e % MeasureCount, LargeRange(e), 0)'
  <2> PICK x, rh : x = e % MeasureCount /\ rh = LargeRange(e)
    OBVIOUS
  <2>1. x \in Columns /\ rh \in PageRange /\ \A j \in Hits(rh) : j \in 1 .. N
    BY <1>2, TheReads, HitsInside
  <2>2. LargeRange(e)' = rh
    BY <1>8
  <2>3. CASE e = d
    <3>1. Delivered(c, rg)'
      BY <1>6, <1>7 DEF Delivered, Hits
    <3>2. e < d + 1 /\ x = c /\ rh = rg
      BY <1>2, <2>3
    <3> QED
      BY <2>2, <3>1, <3>2 DEF Delivered, ReadUpTo, Hits, InPlace
  <2>4. CASE e # d
    <3>1. Others(x, rh, c, rg)
      BY <1>2, <1>3, <2>4, TheReads
    <3>2. CASE e < d
      <4>1. Delivered(x, rh)
        BY <1>2, <3>2 DEF DirectSound
      <4>2. ReadUpTo(x, rh, rh.len)'
        BY <1>6, <2>1, <3>1, <4>1, OtherReadsKept DEF Delivered
      <4>3. Delivered(x, rh)'
        BY <1>1, <1>2, <1>7, <2>1, <4>1, <4>2, DeliveredKept
      <4>4. e < d + 1
        BY <1>2, <1>3, <3>2
      <4> QED
        BY <2>2, <4>3, <4>4 DEF Delivered, ReadUpTo, Hits, InPlace
    <3>3. CASE ~(e < d)
      <4>1. ReadUpTo(x, rh, 0)
        BY <1>2, <3>3 DEF DirectSound
      <4>2. ReadUpTo(x, rh, 0)'
        BY <1>6, <2>1, <3>1, <4>1, OtherReadsKept
      <4>3. ~(e < d + 1)
        BY <1>2, <1>3, <2>4, <3>3
      <4> QED
        BY <2>2, <4>2, <4>3 DEF ReadUpTo
    <3> QED
      BY <3>2, <3>3
  <2> QED
    BY <2>3, <2>4
<1>10. DirectSound'
  BY <1>1, <1>8, <1>9 DEF DirectSound
<1>11. ring # "live" \/ Unstarted'
  <2> SUFFICES ASSUME ring = "live", NEW t \in Tasks
               PROVE  ReadUpTo(TaskColumn(t), TaskRange(t), 0)'
    BY <1>8 DEF Unstarted
  <2> PICK x, rh : x = TaskColumn(t) /\ rh = TaskRange(t)
    OBVIOUS
  <2>1. x \in Columns /\ rh \in PageRange /\ Others(x, rh, c, rg)
    BY <1>2, <1>3, TheReads
  <2>2. ReadUpTo(x, rh, 0)
    BY <1>2 DEF Unstarted
  <2>3. ReadUpTo(x, rh, 0)'
    BY <1>6, <2>1, <2>2, OtherReadsKept
  <2>4. TaskColumn(t)' = x /\ TaskRange(t)' = rh
    BY <1>8 DEF TaskColumn
  <2> QED
    BY <2>3, <2>4 DEF ReadUpTo
<1>12. OnlyRanges' /\ Covering(ranges)'
  BY <1>1, <1>2, <1>4, <1>6, RangesKept, CoveringKept
<1>13. Bytes(ranges)' = Bytes(ranges)
  BY <1>1 DEF Bytes
<1>14. GatherSound'
  BY <1>1, <1>2, <1>7, <1>10, <1>11, <1>12, <1>13 DEF GatherSound, Ringing
<1>15. OrderSound' /\ MergeSound'
  BY <1>1, <1>2, OrderKept, MergeKept
<1> QED
  BY <1>1, <1>6, <1>14, <1>15
  DEF ReadInv, NothingRead, ScanSound, KernelSound, Served

-----------------------------------------------------------------------------
(* Outside the gather: the caller, the merge, the choice of a path.        *)

LEMMA ReturnReads ==
  ASSUME ReadInv, Return, GatherInv'
  PROVE  ReadInv'
<1>1. /\ phase = "served" /\ phase' = "idle" /\ deviceReads' = deviceReads
      /\ sortGather' = sortGather /\ batch' = batch /\ cursors' = cursors
  BY DEF Return, configVars, planVars
<1>2. OrderSound /\ MergeSound /\ ReadOnce /\ cursors \in Seq(Cursor)
  BY DEF ReadInv, GatherInv, PlanSound
<1>3. OrderSound' /\ MergeSound'
  BY <1>1, <1>2, OrderKept, MergeKept
<1>4. ReadOnce'
  BY <1>1, <1>2 DEF ReadOnce
<1> QED
  BY <1>1, <1>3, <1>4
  DEF ReadInv, NothingRead, ScanSound, GatherSound, Gathering, KernelSound, Served

LEMMA NoneMoved ==
  ASSUME ReadOnce, Moved = {}
  PROVE  \A c \in Columns, r \in Rows : deviceReads[<<c, r>>] = 0
BY DEF ReadOnce, Moved, Value

LEMMA ServeResidentReads ==
  ASSUME ReadInv, ServeResident, GatherInv'
  PROVE  ReadInv'
<1>1. /\ phase = "merge" /\ Live = {} /\ phase' = "served" /\ deviceReads' = deviceReads
      /\ outs' = [c \in Columns |-> [i \in 1 .. N |-> <<c, batch[i].row>>]]
      /\ sortGather' = sortGather /\ batch' = batch /\ cursors' = cursors /\ stats' = stats
  BY DEF ServeResident, configVars, planVars
<1>2. /\ OrderSound /\ MergeSound /\ ReadOnce /\ cursors \in Seq(Cursor)
      /\ Moved = {} /\ stats = NoStats
  BY <1>1 DEF ReadInv, GatherInv, PlanSound, NothingRead
<1>3. OrderSound' /\ MergeSound'
  BY <1>1, <1>2, OrderKept, MergeKept
<1>4. ReadOnce' /\ Moved' = {}
  BY <1>1, <1>2 DEF ReadOnce, Moved
<1>5. Served'
  <2>1. \A c \in Columns, i \in 1 .. N : outs'[c][i] = <<c, batch[i].row>>
    BY <1>1
  <2>2. Cardinality(Moved)' = stats'.scanBytes + stats'.gatherBytes
    BY <1>1, <1>2, <1>4, FS_EmptySet DEF NoStats
  <2> QED
    BY <1>1, <2>1, <2>2 DEF Served, InPlace, N
<1> QED
  BY <1>1, <1>3, <1>4, <1>5
  DEF ReadInv, NothingRead, ScanSound, GatherSound, Gathering, KernelSound

LEMMA ChooseScanReads ==
  ASSUME ReadInv, ChooseScan, GatherInv'
  PROVE  ReadInv'
<1>1. /\ phase = "merge" /\ Live = {} /\ phase' = "scan" /\ deviceReads' = deviceReads
      /\ scan' = [column |-> 0, base |-> 0, j |-> 1] /\ outs' = Blank
      /\ stats' = [stats EXCEPT !.scanRows = N]
      /\ sortGather' = sortGather /\ batch' = batch /\ cursors' = cursors
  BY DEF ChooseScan, configVars, planVars
<1>2. /\ OrderSound /\ MergeSound /\ ReadOnce /\ cursors \in Seq(Cursor) /\ batch \in Seq(Wanted)
      /\ Moved = {} /\ stats = NoStats
  BY <1>1 DEF ReadInv, GatherInv, PlanSound, NothingRead
<1>3. OrderSound' /\ MergeSound'
  BY <1>1, <1>2, OrderKept, MergeKept
<1>4. ReadOnce' /\ Moved' = {}
  BY <1>1, <1>2 DEF ReadOnce, Moved
<1>5. /\ N' = N /\ Low' = Low /\ (\A j : RowAt(j)' = RowAt(j)) /\ \A j : PosOf(j)' = PosOf(j)
  BY <1>1, PlacesKept DEF Low, N
<1>6. \A j \in 1 .. N : RowAt(j) \in Nat /\ RowAt(1) <= RowAt(j)
  <2> TAKE j \in 1 .. N
  <2>1. N \in Nat /\ 1 \in 1 .. N /\ 1 <= j
    BY <1>2 DEF N
  <2>2. RowAt(1) <= RowAt(j)
    BY <1>2, <2>1, InBatchOrder, VisitsInOrder
  <2>3. RowAt(j) \in Nat
    BY <1>2, RowAtInTable, RowsAreNat
  <2> QED
    BY <2>2, <2>3
<1>7. ScanSound'
  <2>1. scan'.column \in Columns /\ DOMAIN outs' = Columns
    BY <1>1, RowsAreNat DEF Columns, Blank
  <2>2. \A c \in Columns, j \in 1 .. N : ~(c < 0 \/ (c = 0 /\ j < 1))
    BY RowsAreNat DEF Columns
  <2>3. \A j \in 1 .. N : Low + scan'.base <= RowAt(j)
    <3> TAKE j \in 1 .. N
    <3>1. 1 \in 1 .. N
      BY <1>2 DEF N
    <3>2. RowAt(1) \in Nat /\ RowAt(1) <= RowAt(j)
      BY <1>6, <3>1
    <3> QED
      BY <1>1, <3>2 DEF Low
  <2>4. \A c \in Columns, r \in Rows : deviceReads'[<<c, r>>] = 0
    BY <1>1, <1>2, NoneMoved
  <2>5. Cardinality(Moved)' = stats'.scanBytes /\ stats'.gatherBytes = 0
    BY <1>1, <1>2, <1>4, FS_EmptySet DEF NoStats
  <2> QED
    BY <1>1, <1>5, <2>1, <2>2, <2>3, <2>4, <2>5 DEF ScanSound
<1> QED
  BY <1>1, <1>3, <1>4, <1>7
  DEF ReadInv, NothingRead, GatherSound, Gathering, KernelSound, Served

LEMMA TheReadsInTable ==
  PlanSound /\ Apart(ranges) =>
    /\ \A t \in Tasks : TaskColumn(t) \in Columns /\ TaskRange(t) \in PageRange
    /\ \A d \in Reads : d % MeasureCount \in Columns /\ LargeRange(d) \in PageRange /\ d \in Nat
BY TheReads

LEMMA TheReadsInTableNext ==
  (PlanSound /\ Apart(ranges) =>
    /\ \A t \in Tasks : TaskColumn(t) \in Columns /\ TaskRange(t) \in PageRange
    /\ \A d \in Reads : d % MeasureCount \in Columns /\ LargeRange(d) \in PageRange /\ d \in Nat)'
BY TheReadsInTable, PTL

LEMMA ChooseGatherReads ==
  ASSUME ReadInv, ChooseGather, GatherInv'
  PROVE  ReadInv'
<1> PICK rs : rs = Coalesced
  OBVIOUS
<1>1. /\ phase = "merge" /\ Live = {} /\ phase' = "direct" /\ deviceReads' = deviceReads
      /\ ranges' = rs /\ direct' = 0 /\ outs' = Blank
      /\ stats' = [stats EXCEPT !.gatherRows  = N, !.gatherBytes = Bytes(rs) * MeasureCount]
      /\ sortGather' = sortGather /\ batch' = batch /\ cursors' = cursors
  BY DEF ChooseGather, configVars, planVars
<1>2. /\ OrderSound /\ MergeSound /\ ReadOnce /\ cursors \in Seq(Cursor) /\ batch \in Seq(Wanted)
      /\ Moved = {} /\ stats = NoStats /\ PlanSound'
  BY <1>1 DEF ReadInv, GatherInv, PlanSound, NothingRead
<1>3. OrderSound' /\ MergeSound'
  BY <1>1, <1>2, OrderKept, MergeKept
<1>4. ReadOnce' /\ Moved' = {}
  BY <1>1, <1>2 DEF ReadOnce, Moved
<1>5. \A c \in Columns, r \in Rows : deviceReads'[<<c, r>>] = 0
  BY <1>1, <1>2, NoneMoved
<1>6. Covering(ranges)'
  <2>1. Covering(rs)
    BY <1>2, InBatchOrder, CoalescedCovers
  <2>2. N' = N /\ \A j : RowAt(j)' = RowAt(j)
    BY <1>1, PlacesKept DEF N
  <2> QED
    BY <1>1, <2>1, <2>2 DEF Covering, Apart, Hits, Reach
<1>7. /\ \A t \in Tasks' : TaskColumn(t)' \in Columns /\ TaskRange(t)' \in PageRange
      /\ \A d \in Reads' : d % MeasureCount \in Columns /\ LargeRange(d)' \in PageRange /\ d \in Nat
  BY <1>2, <1>6, TheReadsInTableNext DEF Covering
<1>8. ASSUME NEW c \in Columns, NEW rg \in PageRange PROVE ReadUpTo(c, rg, 0)'
  <2> SUFFICES ASSUME NEW b \in 0 .. rg.len - 1
               PROVE  deviceReads'[<<c, rg.off + b>>] = IF b < 0 THEN 1 ELSE 0
    BY DEF ReadUpTo
  <2>1. rg.off + b \in Rows
    BY <1>8, InRange
  <2>2. ~(b < 0)
    BY <1>8, RangeNumbers
  <2> QED
    BY <1>5, <1>8, <2>1, <2>2
<1>9. DirectSound'
  <2> SUFFICES ASSUME NEW d \in Reads'
               PROVE  /\ ~(d < direct')
                      /\ ReadUpTo(d % MeasureCount, LargeRange(d), 0)'
    BY DEF DirectSound
  <2> PICK c, rg : c = d % MeasureCount /\ rg = LargeRange(d)'
    OBVIOUS
  <2>1. c \in Columns /\ rg \in PageRange /\ d \in Nat
    BY <1>7
  <2>2. ReadUpTo(c, rg, 0)'
    BY <1>8, <2>1
  <2> QED
    BY <1>1, <2>1, <2>2 DEF ReadUpTo
<1>10. Unstarted'
  <2> SUFFICES ASSUME NEW t \in Tasks' PROVE ReadUpTo(TaskColumn(t), TaskRange(t), 0)'
    BY DEF Unstarted
  <2> PICK c, rg : c = TaskColumn(t)' /\ rg = TaskRange(t)'
    OBVIOUS
  <2>1. c \in Columns /\ rg \in PageRange
    BY <1>7
  <2>2. ReadUpTo(c, rg, 0)'
    BY <1>8, <2>1
  <2> QED
    BY <2>2 DEF ReadUpTo
<1>11. DOMAIN outs' = Columns
  BY <1>1 DEF Blank
<1>12. OnlyRanges'
  BY <1>5 DEF OnlyRanges
<1>13. stats'.gatherBytes = (Bytes(ranges) * MeasureCount)' /\ stats'.scanBytes = 0
  BY <1>1, <1>2 DEF NoStats, Bytes
<1>14. GatherSound'
  BY <1>1, <1>6, <1>9, <1>10, <1>11, <1>12, <1>13 DEF GatherSound, Ringing
<1> QED
  BY <1>1, <1>3, <1>4, <1>14
  DEF ReadInv, NothingRead, ScanSound, KernelSound, Served

-----------------------------------------------------------------------------
(* The scan.                                                               *)

\* The facts about the scan's place that its steps use.
LEMMA ScanFacts ==
  ASSUME ReadInv, phase = "scan"
  PROVE  /\ GatherInv /\ PlanSound /\ OrderSound /\ MergeSound /\ ReadOnce /\ ScanSound
         /\ batch \in Seq(Wanted) /\ cursors \in Seq(Cursor) /\ N \in Nat /\ N > 0
         /\ scan \in [column : Nat, base : Nat, j : Nat \ {0}] /\ scan.j \in 1 .. N + 1
         /\ \A i \in 1 .. N : \E j \in 1 .. N : PosOf(j) = i
         /\ \A j, k \in 1 .. N : j <= k => RowAt(j) <= RowAt(k)
         /\ \A j \in 1 .. N : RowAt(j) \in Nat /\ RowAt(j) < RowCount
         /\ Low \in Nat /\ Low = RowAt(1) /\ SpanRows \in Int /\ Low + SpanRows = RowAt(N) + 1
         /\ ScanBlockRows \in Nat \ {0} /\ RowCount \in Nat
<1>1. GatherInv /\ PlanSound /\ OrderSound /\ MergeSound /\ ReadOnce /\ ScanSound
  BY DEF ReadInv, GatherInv
<1>2. /\ batch \in Seq(Wanted) /\ cursors \in Seq(Cursor) /\ N \in Nat /\ N > 0
      /\ scan \in [column : Nat, base : Nat, j : Nat \ {0}] /\ scan.j \in 1 .. N + 1
  <2>1. batch \in Seq(Wanted) /\ cursors \in Seq(Cursor) /\ N \in Nat
    BY <1>1 DEF PlanSound, N
  <2>2. scan \in [column : Nat, base : Nat, j : Nat \ {0}] /\ N > 0 /\ scan.j <= N + 1
    BY <1>1 DEF PlanSound
  <2> QED
    BY <2>1, <2>2
<1>3. /\ \A i \in 1 .. N : \E j \in 1 .. N : PosOf(j) = i
      /\ \A j, k \in 1 .. N : j <= k => RowAt(j) <= RowAt(k)
  BY <1>1, <1>2, InBatchOrder, VisitsInOrder
<1>4. RowCount \in Nat /\ ScanBlockRows \in Nat \ {0}
  BY RowsAreNat
<1>5. \A j \in 1 .. N : RowAt(j) \in Nat /\ RowAt(j) < RowCount
  <2> TAKE j \in 1 .. N
  <2>1. RowAt(j) \in Rows
    BY <1>2, RowAtInTable
  <2> QED
    BY <1>4, <2>1 DEF Rows
<1>6. Low \in Nat /\ Low = RowAt(1) /\ SpanRows \in Int /\ Low + SpanRows = RowAt(N) + 1
  <2>1. 1 \in 1 .. N /\ N \in 1 .. N
    BY <1>2
  <2>2. RowAt(1) \in Nat /\ RowAt(N) \in Nat
    BY <1>5, <2>1
  <2> PICK a, b : a = RowAt(1) /\ b = RowAt(N)
    OBVIOUS
  <2>3. SpanRows = b - a + 1 /\ Low = a
    BY DEF SpanRows, Low
  <2> QED
    BY <2>2, <2>3
<1> QED
  BY <1>1, <1>2, <1>3, <1>4, <1>5, <1>6

\* When a column is scanned, every one of its values is in its place.
LEMMA ColumnIsInPlace ==
  ASSUME ReadInv, phase = "scan", ColumnScanned
  PROVE  \A j \in 1 .. N : InPlace(scan.column, PosOf(j))
<1> PICK j0, base, n, low, span : j0 = scan.j /\ base = scan.base /\ n = N /\ low = Low /\ span = SpanRows
  OBVIOUS
<1>1. /\ ScanSound /\ batch \in Seq(Wanted) /\ n \in Nat /\ n > 0
      /\ base \in Nat /\ j0 \in 1 .. n + 1 /\ low \in Nat /\ span \in Int /\ scan.column \in Columns
      /\ (\A j, k \in 1 .. n : j <= k => RowAt(j) <= RowAt(k))
      /\ (\A j \in 1 .. n : RowAt(j) \in Nat) /\ low + span = RowAt(n) + 1
  BY ScanFacts DEF ScanSound
<1>2. \A j \in j0 .. n : low + base <= RowAt(j)
  BY <1>1 DEF ScanSound
<1>3. ~(j0 <= n)
  <2> SUFFICES ASSUME j0 <= n PROVE FALSE
    OBVIOUS
  <2>1. j0 \in j0 .. n /\ n \in j0 .. n /\ j0 \in 1 .. n /\ n \in 1 .. n
    BY <1>1
  <2>2. low + base <= RowAt(j0) /\ low + base <= RowAt(n)
    BY <1>2, <2>1
  <2>3. CASE base >= span
    <3> PICK a : a = RowAt(n)
      OBVIOUS
    <3>1. a \in Nat /\ low + span = a + 1 /\ low + base <= a
      BY <1>1, <2>1, <2>2
    <3> QED
      BY <1>1, <2>3, <3>1
  <2>4. CASE Advance(j0, low + base) = n + 1
    <3>1. j0 \in 1 .. N + 1 /\ low + base \in Int
      BY <1>1
    <3>2. \A h \in j0 .. Advance(j0, low + base) - 1 : RowAt(h) < low + base
      BY <1>1, <3>1, AdvanceFirst
    <3>3. j0 \in j0 .. Advance(j0, low + base) - 1
      BY <1>1, <2>1, <2>4
    <3>4. RowAt(j0) < low + base
      BY <3>2, <3>3
    <3> QED
      BY <1>1, <2>1, <2>2, <3>4
  <2> QED
    BY <2>3, <2>4 DEF ColumnScanned, BlockBegin
<1>4. \A j \in 1 .. N : j < j0
  BY <1>1, <1>3
<1> QED
  BY <1>1, <1>4 DEF ScanSound

LEMMA NextColumnReads ==
  ASSUME ReadInv, NextColumn, GatherInv'
  PROVE  ReadInv'
<1> PICK col, M : col = scan.column /\ M = MeasureCount
  OBVIOUS
<1>1. /\ phase = "scan" /\ ColumnScanned /\ deviceReads' = deviceReads /\ outs' = outs
      /\ scan' = [column |-> col + 1, base |-> 0, j |-> 1]
      /\ phase' = IF col + 1 \in Columns THEN "scan" ELSE "served"
      /\ sortGather' = sortGather /\ batch' = batch /\ cursors' = cursors /\ stats' = stats
  BY DEF NextColumn, configVars, planVars
<1>2. /\ OrderSound /\ MergeSound /\ ReadOnce /\ ScanSound /\ cursors \in Seq(Cursor)
      /\ batch \in Seq(Wanted) /\ N \in Nat /\ N > 0 /\ M \in Nat \ {0}
      /\ (\A i \in 1 .. N : \E j \in 1 .. N : PosOf(j) = i)
      /\ (\A j, k \in 1 .. N : j <= k => RowAt(j) <= RowAt(k))
      /\ (\A j \in 1 .. N : RowAt(j) \in Nat) /\ Low = RowAt(1) /\ Low \in Nat
  BY <1>1, ScanFacts, RowsAreNat
<1>3. /\ col \in Columns /\ DOMAIN outs = Columns
      /\ \A c \in Columns, r \in Rows : c > col => deviceReads[<<c, r>>] = 0
      /\ \A c \in Columns, j \in 1 .. N : c < col => InPlace(c, PosOf(j))
      /\ Cardinality(Moved) = stats.scanBytes /\ stats.gatherBytes = 0
  BY <1>1, <1>2 DEF ScanSound
<1>4. \A j \in 1 .. N : InPlace(col, PosOf(j))
  BY <1>1, ColumnIsInPlace
<1>5. \A c \in Columns : c \in Int /\ (c < col + 1 => c < col \/ c = col) /\ ~(c = col + 1 /\ c <= col)
                         /\ (c >= col + 1 => c > col)
  <2> TAKE c \in Columns
  <2>1. c \in Int /\ col \in Int
    BY <1>2, <1>3 DEF Columns
  <2> QED
    BY ONLY <2>1
<1>6. \A c \in Columns, j \in 1 .. N : c < col + 1 => InPlace(c, PosOf(j))
  BY <1>3, <1>4, <1>5
<1>7. /\ N' = N /\ Low' = Low /\ Moved' = Moved
      /\ (\A j : RowAt(j)' = RowAt(j)) /\ \A j : PosOf(j)' = PosOf(j)
  BY <1>1, PlacesKept DEF Low, N, Moved
<1>8. ReadOnce' /\ OrderSound' /\ MergeSound'
  BY <1>1, <1>2, OrderKept, MergeKept DEF ReadOnce
<1>9. CASE col + 1 \in Columns
  <2>1. phase' = "scan" /\ scan'.column = col + 1 /\ scan'.base = 0 /\ scan'.j = 1
    BY <1>1, <1>9
  <2>2. \A c \in Columns, j \in 1 .. N :
          c < col + 1 \/ (c = col + 1 /\ j < 1) => InPlace(c, PosOf(j))
    <3>1. \A j \in 1 .. N : ~(j < 1)
      BY <1>2
    <3> QED
      BY <1>6, <3>1
  <2>3. \A j \in 1 .. N : Low + 0 <= RowAt(j)
    <3> TAKE j \in 1 .. N
    <3>1. 1 \in 1 .. N /\ 1 <= j
      BY <1>2
    <3>2. Low <= RowAt(j)
      BY <1>2, <3>1
    <3> QED
      BY <1>2, <3>2
  <2>4. \A c \in Columns, r \in Rows :
          c > col + 1 \/ (c = col + 1 /\ r >= Low + 0) => deviceReads[<<c, r>>] = 0
    <3>1. \A c \in Columns : c > col + 1 \/ c = col + 1 => c > col
      <4> TAKE c \in Columns
      <4> PICK k : k = col
        OBVIOUS
      <4>1. c \in Nat /\ k \in Nat /\ (c > col + 1 <=> c > k + 1) /\ (c = col + 1 <=> c = k + 1)
        BY <1>2, <1>3 DEF Columns
      <4>2. c > k + 1 \/ c = k + 1 => c > k
        BY ONLY <4>1
      <4> QED
        BY <4>1, <4>2
    <3> QED
      BY <1>3, <3>1
  <2>5. ScanSound'
    BY <1>1, <1>3, <1>7, <1>9, <2>1, <2>2, <2>3, <2>4 DEF ScanSound, InPlace
  <2> QED
    BY <1>8, <2>1, <2>5 DEF ReadInv, NothingRead, GatherSound, Gathering, KernelSound, Served
<1>10. CASE col + 1 \notin Columns
  <2>1. phase' = "served"
    BY <1>1, <1>10
  <2>2. \A c \in Columns : c < col + 1
    <3>1. Columns = 0 .. M - 1
      BY DEF Columns
    <3> QED
      BY <1>2, <1>3, <1>10, <3>1
  <2>3. \A c \in Columns, i \in 1 .. N : InPlace(c, i)
    BY <1>2, <1>6, <2>2
  <2>4. Cardinality(Moved) = stats.scanBytes + stats.gatherBytes
    <3>1. Cardinality(Moved) \in Nat
      BY ValuesFinite, FS_CardinalityType
    <3> QED
      BY <1>3, <3>1
  <2>5. Served'
    BY <1>1, <1>7, <2>3, <2>4 DEF Served, InPlace
  <2> QED
    BY <1>8, <2>1, <2>5 DEF ReadInv, NothingRead, ScanSound, GatherSound, Gathering, KernelSound
<1> QED
  BY <1>9, <1>10

\* Where a block begins and ends, and what it leaves for the next ones.
LEMMA BlockFacts ==
  ASSUME ReadInv, phase = "scan", ~ColumnScanned,
         NEW from, from = Advance(scan.j, BlockBegin), NEW to, to = Advance(from, BlockEnd)
  PROVE  /\ from = scan.j /\ from \in 1 .. N /\ to \in from .. N + 1
         /\ BlockBegin \in Nat /\ BlockCount \in Nat /\ BlockBegin + BlockCount <= RowCount
         /\ BlockBegin = Low + scan.base
         /\ BlockEnd = BlockBegin + BlockCount /\ BlockEnd <= Low + (scan.base + ScanBlockRows)
         /\ \A j \in to .. N : Low + (scan.base + ScanBlockRows) <= RowAt(j)
         /\ RowAt(from) >= BlockEnd => to = from
<1> PICK j0, base, n, low, span, sb : /\ j0 = scan.j /\ base = scan.base /\ n = N /\ low = Low
                                      /\ span = SpanRows /\ sb = ScanBlockRows
  OBVIOUS
<1> PICK bb, bc, be : bb = BlockBegin /\ bc = BlockCount /\ be = BlockEnd
  OBVIOUS
<1>1. /\ ScanSound /\ batch \in Seq(Wanted) /\ n \in Nat /\ n > 0
      /\ base \in Nat /\ j0 \in 1 .. n + 1 /\ low \in Nat /\ span \in Int
      /\ (\A j, k \in 1 .. n : j <= k => RowAt(j) <= RowAt(k))
      /\ (\A j \in 1 .. n : RowAt(j) \in Nat /\ RowAt(j) < RowCount) /\ low + span = RowAt(n) + 1
      /\ sb \in Nat \ {0} /\ RowCount \in Nat
  BY ScanFacts
<1>2. \A j \in j0 .. n : low + base <= RowAt(j)
  BY <1>1 DEF ScanSound
<1>3. /\ bb = low + base /\ base < span /\ be = bb + bc
      /\ bc = (IF sb <= span - base THEN sb ELSE span - base)
      /\ from = Advance(j0, bb) /\ to = Advance(from, be) /\ from # n + 1
  <2>1. ~(base >= span) /\ Advance(scan.j, BlockBegin) # N + 1
    BY DEF ColumnScanned
  <2> QED
    BY <1>1, <2>1 DEF BlockBegin, BlockCount, BlockEnd, Lesser
<1>4. /\ bb \in Nat /\ bc \in Nat /\ be \in Nat /\ be <= low + (base + sb) /\ be <= low + span
      /\ be = low + (base + sb) \/ be = low + span
  <2>1. base \in Nat /\ low \in Nat /\ span \in Int /\ sb \in Nat
    BY <1>1
  <2>2. CASE sb <= span - base
    <3>1. bb = low + base /\ base < span /\ be = bb + bc /\ bc = sb
      BY <1>3, <2>2
    <3> QED
      BY ONLY <2>1, <2>2, <3>1
  <2>3. CASE ~(sb <= span - base)
    <3>1. bb = low + base /\ base < span /\ be = bb + bc /\ bc = span - base
      BY <1>3, <2>3
    <3> QED
      BY ONLY <2>1, <2>3, <3>1
  <2> QED
    BY <2>2, <2>3
<1>5. be <= RowCount
  <2> PICK a, R : a = RowAt(n) /\ R = RowCount
    OBVIOUS
  <2>1. n \in 1 .. n
    BY <1>1
  <2>2. a \in Nat /\ a < R /\ low + span = a + 1 /\ R \in Nat
    BY <1>1, <2>1
  <2> QED
    BY <1>1, <1>4, <2>2
<1>6. from \in j0 .. n /\ from \in 1 .. n /\ from = j0
  <2>1. j0 \in 1 .. N + 1 /\ bb \in Int
    BY <1>1, <1>4
  <2>2. /\ from \in j0 .. N + 1
        /\ \A h \in j0 .. from - 1 : RowAt(h) < bb
    BY <1>1, <1>3, <2>1, AdvanceFirst
  <2>3. from \in j0 .. n /\ from \in 1 .. n
    <3>1. from \in j0 .. n + 1 /\ from # n + 1 /\ j0 \in 1 .. n + 1 /\ n \in Nat
      BY <1>1, <1>3, <2>2
    <3> QED
      BY ONLY <3>1
  <2>4. ASSUME from # j0 PROVE FALSE
    <3>1. j0 \in j0 .. from - 1 /\ j0 \in j0 .. n /\ j0 \in 1 .. n
      BY <1>1, <2>3, <2>4
    <3>2. RowAt(j0) < bb /\ low + base <= RowAt(j0) /\ RowAt(j0) \in Nat
      BY <1>1, <1>2, <2>2, <3>1
    <3> QED
      BY <1>1, <1>3, <3>2
  <2> QED
    BY <2>3, <2>4
<1>7. /\ to \in from .. n + 1 /\ (to = n + 1 \/ RowAt(to) >= be)
      /\ \A h \in from .. to - 1 : RowAt(h) < be
  <2>1. from \in 1 .. N + 1 /\ be \in Int
    BY <1>1, <1>4, <1>6
  <2> QED
    BY <1>1, <1>3, <2>1, AdvanceFirst
<1>8. ASSUME NEW j \in to .. n PROVE low + (base + sb) <= RowAt(j)
  <2>1. to \in from .. n + 1
    BY <1>1, <1>3, <1>4, <1>6, AdvanceFirst
  <2>2. j \in 1 .. n /\ to \in 1 .. n /\ to <= j /\ j <= n /\ n \in 1 .. n
    BY <1>1, <1>6, <1>8, <2>1
  <2>3. RowAt(to) >= be
    BY <1>1, <1>7, <2>2
  <2> PICK a, b, c : a = RowAt(to) /\ b = RowAt(j) /\ c = RowAt(n)
    OBVIOUS
  <2>4. a \in Nat /\ b \in Nat /\ c \in Nat /\ a <= b /\ b <= c /\ a >= be /\ low + span = c + 1
    BY <1>1, <2>2, <2>3
  <2>5. low + (base + sb) <= b
    BY <1>1, <1>4, <2>4
  <2> QED
    BY <2>5
<1>9. RowAt(from) >= be => to = from
  <2> SUFFICES ASSUME RowAt(from) >= be, to # from PROVE FALSE
    OBVIOUS
  <2>1. to \in from .. n + 1
    BY <1>1, <1>3, <1>4, <1>6, AdvanceFirst
  <2>2. from \in from .. to - 1
    BY <1>1, <1>6, <2>1
  <2>3. RowAt(from) < be /\ RowAt(from) \in Nat
    BY <1>1, <1>6, <1>7, <2>2
  <2> QED
    BY <1>4, <2>3
<1> QED
  BY <1>1, <1>3, <1>4, <1>5, <1>6, <1>7, <1>8, <1>9

LEMMA ScanBlockReads ==
  ASSUME ReadInv, ScanBlock, GatherInv'
  PROVE  ReadInv'
<1> PICK col, base, from, to : /\ col = scan.column /\ base = scan.base
                               /\ from = Advance(scan.j, BlockBegin) /\ to = Advance(from, BlockEnd)
  OBVIOUS
<1> PICK hits, read : hits = {PosOf(j) : j \in from .. to - 1}
                      /\ read = {<<col, r>> : r \in BlockBegin .. BlockEnd - 1}
  OBVIOUS
<1>1. /\ phase = "scan" /\ phase' = "scan" /\ ~ColumnScanned
      /\ scan' = [scan EXCEPT !.base = @ + ScanBlockRows, !.j = to]
      /\ \/ RowAt(from) >= BlockEnd /\ outs' = outs /\ stats' = stats /\ deviceReads' = deviceReads
         \/ /\ outs' = [outs EXCEPT ![col] =
                 [i \in 1 .. N |-> IF i \in hits THEN <<col, batch[i].row>> ELSE @[i]]]
            /\ stats' = [stats EXCEPT !.scanBytes = @ + BlockCount]
            /\ deviceReads' = Counted(read)
      /\ sortGather' = sortGather /\ batch' = batch /\ cursors' = cursors
  BY ZenonT(60) DEF ScanBlock, configVars, planVars
<1>2. /\ OrderSound /\ MergeSound /\ ReadOnce /\ ScanSound /\ cursors \in Seq(Cursor)
      /\ batch \in Seq(Wanted) /\ N \in Nat /\ N > 0 /\ Low \in Nat
      /\ (\A i \in 1 .. N : \E j \in 1 .. N : PosOf(j) = i)
      /\ scan \in [column : Nat, base : Nat, j : Nat \ {0}] /\ scan.j \in 1 .. N + 1
      /\ ScanBlockRows \in Nat \ {0} /\ RowCount \in Nat
  BY <1>1, ScanFacts
<1>3. /\ col \in Columns /\ DOMAIN outs = Columns
      /\ \A c \in Columns, j \in 1 .. N : c < col \/ (c = col /\ j < scan.j) => InPlace(c, PosOf(j))
      /\ \A c \in Columns, r \in Rows : c > col \/ (c = col /\ r >= Low + base) => deviceReads[<<c, r>>] = 0
      /\ Cardinality(Moved) = stats.scanBytes /\ stats.gatherBytes = 0
  BY <1>1, <1>2 DEF ScanSound
<1> PICK low, bb, bc, be : low = Low /\ bb = BlockBegin /\ bc = BlockCount /\ be = BlockEnd
  OBVIOUS
<1>4. /\ from = scan.j /\ from \in 1 .. N /\ to \in from .. N + 1
      /\ bb \in Nat /\ bc \in Nat /\ bb + bc <= RowCount
      /\ bb = low + base
      /\ be = bb + bc /\ be <= low + (base + ScanBlockRows)
      /\ \A j \in to .. N : low + (base + ScanBlockRows) <= RowAt(j)
      /\ RowAt(from) >= be => to = from
  BY <1>1, BlockFacts
<1>5. scan'.column = col /\ scan'.base = base + ScanBlockRows /\ scan'.j = to
  BY <1>1, <1>2
<1>6. /\ N' = N /\ Low' = low
      /\ (\A j : RowAt(j)' = RowAt(j)) /\ \A j : PosOf(j)' = PosOf(j)
  BY <1>1, PlacesKept DEF Low, N
<1>7. OrderSound' /\ MergeSound'
  BY <1>1, <1>2, OrderKept, MergeKept
<1>8. \A c \in Columns, r \in Rows :
        c > col \/ (c = col /\ r >= low + (base + ScanBlockRows)) =>
          deviceReads[<<c, r>>] = 0 /\ <<c, r>> \notin read
  <2> TAKE c \in Columns, r \in Rows
  <2> HAVE c > col \/ (c = col /\ r >= low + (base + ScanBlockRows))
  <2>1. r \in Nat /\ base \in Nat /\ low \in Nat /\ c \in Nat
    BY <1>2, RowsAreNat DEF Columns, Rows
  <2>2. c = col => r >= low + base /\ r >= be
    <3> SUFFICES ASSUME c = col PROVE r >= low + base /\ r >= be
      OBVIOUS
    <3> PICK sb : sb = ScanBlockRows
      OBVIOUS
    <3>1. ~(c > col) /\ sb \in Nat
      BY <1>2, <2>1
    <3>2. /\ r >= low + (base + sb) /\ be <= low + (base + sb) /\ bb \in Nat /\ bc \in Nat
          /\ be = bb + bc
      BY <1>4, <3>1
    <3> QED
      BY ONLY <2>1, <3>1, <3>2
  <2>3. deviceReads[<<c, r>>] = 0
    BY <1>3, <2>2
  <2>4. <<c, r>> \in read => c = col /\ r \in bb .. be - 1
    OBVIOUS
  <2>5. ~(c = col /\ r \in bb .. be - 1)
    BY <1>4, <2>1, <2>2
  <2> QED
    BY <2>3, <2>4, <2>5
<1>9. CASE RowAt(from) >= BlockEnd /\ outs' = outs /\ stats' = stats /\ deviceReads' = deviceReads
  <2>1. to = scan.j
    BY <1>4, <1>9
  <2>2. Moved' = Moved /\ ReadOnce'
    BY <1>2, <1>9 DEF Moved, ReadOnce
  <2>3. ScanSound'
    BY <1>1, <1>3, <1>4, <1>5, <1>6, <1>8, <1>9, <2>1, <2>2 DEF ScanSound, InPlace
  <2> QED
    BY <1>1, <1>7, <2>2, <2>3 DEF ReadInv, NothingRead, GatherSound, Gathering, KernelSound, Served
<1>10. CASE /\ outs' = [outs EXCEPT ![col] =
                 [i \in 1 .. N |-> IF i \in hits THEN <<col, batch[i].row>> ELSE @[i]]]
            /\ stats' = [stats EXCEPT !.scanBytes = @ + BlockCount]
            /\ deviceReads' = Counted(read)
  <2> PICK A : A = Span(col, bb, bc)
    OBVIOUS
  <2>1. read = A
    <3>1. ASSUME NEW v \in read PROVE v \in A
      <4>1. PICK r \in bb .. be - 1 : v = <<col, r>>
        BY <3>1
      <4>2. r - bb \in 0 .. bc - 1 /\ bb + (r - bb) = r
        BY <1>4, <4>1
      <4>3. v = <<col, bb + (r - bb)>>
        BY <4>1, <4>2
      <4> QED
        BY <4>2, <4>3 DEF Span
    <3>2. ASSUME NEW v \in A PROVE v \in read
      <4>1. PICK b \in 0 .. bc - 1 : v = <<col, bb + b>>
        BY <3>2 DEF Span
      <4>2. bb + b \in bb .. be - 1
        BY <1>4, <4>1
      <4> QED
        BY <4>1, <4>2
    <3> QED
      BY <3>1, <3>2
  <2>2. A \in SUBSET Value /\ IsFiniteSet(A) /\ Cardinality(A) = bc
        /\ \A d, r : <<d, r>> \in A <=> d = col /\ r \in bb .. bb + bc - 1
    BY <1>3, <1>4, SpanCount
  <2>3. A \cap Moved = {}
    <3> SUFFICES ASSUME NEW v \in A PROVE v \notin Moved
      OBVIOUS
    <3>1. PICK d \in Columns, r \in Rows : v = <<d, r>>
      BY <2>2 DEF Value
    <3>2. d = col /\ r \in bb .. bb + bc - 1
      BY <2>2, <3>1
    <3>3. r >= Low + base
      BY <1>4, <3>2
    <3> QED
      BY <1>3, <3>1, <3>2, <3>3 DEF Moved
  <2>4. deviceReads' = Counted(A)
    BY <1>10, <2>1
  <2>5. ReadOnce' /\ \A v \in Value : v \notin A => deviceReads'[v] = deviceReads[v]
    BY <1>2, <2>2, <2>3, <2>4, CountedEffect
  <2>6. Cardinality(Moved') = Cardinality(Moved) + bc
    BY <1>2, <2>2, <2>3, <2>4, MovedGrows
  <2>7. stats'.scanBytes = stats.scanBytes + bc /\ stats'.gatherBytes = stats.gatherBytes
    <3>1. stats \in [{"scanRows", "gatherRows", "scanBytes", "gatherBytes"} -> Nat]
      BY StatsRecord DEF ReadInv, GatherInv, GatherTypeOK
    <3> QED
      BY <1>10, <3>1
  <2>8. DOMAIN outs' = Columns
    BY <1>3, <1>10
  <2>9. ASSUME NEW c \in Columns, NEW j \in 1 .. N, c < col \/ (c = col /\ j < to)
        PROVE  outs'[c][PosOf(j)] = <<c, batch[PosOf(j)].row>>
    <3>1. PosOf(j) \in 1 .. N
      BY <1>2, RowAtInTable
    <3>2. CASE c # col
      <4>1. InPlace(c, PosOf(j))
        BY <1>3, <2>9, <3>2
      <4> QED
        BY <1>3, <1>10, <3>2, <4>1 DEF InPlace
    <3>3. CASE c = col
      <4>1. outs'[c][PosOf(j)] = IF PosOf(j) \in hits THEN <<col, batch[PosOf(j)].row>>
                                 ELSE outs[c][PosOf(j)]
        BY <1>3, <1>10, <3>1, <3>3
      <4>2. CASE j < from
        <5>1. InPlace(c, PosOf(j))
          BY <1>3, <1>4, <3>3, <4>2
        <5> QED
          BY <3>3, <4>1, <5>1 DEF InPlace
      <4>3. CASE ~(j < from)
        <5>1. j < to
          BY <1>3, <2>9, <3>3 DEF Columns
        <5>2. j \in from .. to - 1
          <6> PICK n : n = N
            OBVIOUS
          <6>1. n \in Nat /\ j \in 1 .. n /\ from \in 1 .. n /\ to \in from .. n + 1
            BY <1>2, <1>4
          <6> QED
            BY ONLY <4>3, <5>1, <6>1
        <5> QED
          BY <3>3, <4>1, <5>2
      <4> QED
        BY <4>2, <4>3
    <3> QED
      BY <3>2, <3>3
  <2>10. \A c \in Columns, r \in Rows :
           c > col \/ (c = col /\ r >= low + (base + ScanBlockRows)) => deviceReads'[<<c, r>>] = 0
    BY <1>8, <2>1, <2>5 DEF Value
  <2>11. Cardinality(Moved)' = stats'.scanBytes /\ stats'.gatherBytes = 0
    BY <1>3, <2>6, <2>7
  <2>12. ScanSound'
    BY <1>1, <1>3, <1>4, <1>5, <1>6, <2>8, <2>9, <2>10, <2>11 DEF ScanSound, InPlace
  <2> QED
    BY <1>1, <1>7, <2>5, <2>12 DEF ReadInv, NothingRead, GatherSound, Gathering, KernelSound, Served
<1> QED
  BY <1>1, <1>9, <1>10

-----------------------------------------------------------------------------
(* The merge.                                                              *)


LEMMA BeginReads ==
  ASSUME ReadInv, NEW request \in Batches, Begin(request), GatherInv'
  PROVE  ReadInv'
<1>1. /\ phase = "idle" /\ phase' = "merge" /\ batch' = <<>> /\ stats' = NoStats
      /\ cursors' = [x \in DOMAIN request |-> Built(request[x])]
      /\ deviceReads' = [v \in Value |-> 0] /\ sortGather' = sortGather
  BY DEF Begin, configVars
<1>2. request \in Seq([rows : Seq(Rows), tag : Nat, outlier : BOOLEAN])
  BY StoreAssumption DEF Rows
<1>3. ASSUME NEW x \in DOMAIN request
      PROVE  /\ cursors'[x] = Built(request[x]) /\ cursors'[x] \in Cursor
             /\ request[x].rows \in Seq(Rows) /\ cursors'[x].pos = 1
             /\ cursors'[x].tag = request[x].tag /\ cursors'[x].outlier = request[x].outlier
             /\ sortGather => cursors'[x].rows = InOrder(request[x].rows)
  <2>1. request[x] \in [rows : Seq(Rows), tag : Nat, outlier : BOOLEAN]
    <3>1. x \in 1 .. Len(request)
      BY <1>2
    <3> QED
      BY <1>2, <3>1, ElementOfSeq
  <2>2. cursors'[x] = Built(request[x])
    BY <1>1
  <2>3. Built(request[x]) \in Cursor
    BY <2>1, BuiltIsACursor
  <2> QED
    BY <2>1, <2>2, <2>3 DEF Built
<1>4. N' = 0 /\ DOMAIN cursors' = DOMAIN request
  BY <1>1 DEF N
<1>5. OrderSound'
  <2>1. ASSUME sortGather, NEW x \in DOMAIN request, NEW i \in DOMAIN cursors'[x].rows,
               NEW k \in DOMAIN cursors'[x].rows, i <= k
        PROVE  cursors'[x].rows[i] <= cursors'[x].rows[k]
    <3> PICK ids : ids = request[x].rows
      OBVIOUS
    <3>1. ids \in Seq(Rows) /\ cursors'[x].rows = InOrder(ids)
      BY <1>3, <2>1
    <3>2. ids \in Seq(Nat)
      BY <3>1, RowsAreNat, SeqMonotonic
    <3>3. i \in DOMAIN ids /\ k \in DOMAIN ids
      BY <2>1, <3>1 DEF InOrder
    <3>4. ids[Ranked(ids, i)] <= ids[Ranked(ids, k)]
      BY <2>1, <3>2, <3>3, RankedOrder
    <3> QED
      BY <3>1, <3>3, <3>4 DEF InOrder
  <2> QED
    BY <1>1, <1>4, <2>1 DEF OrderSound
<1>6. MergeSound'
  <2>1. ASSUME NEW x \in DOMAIN request, NEW y \in DOMAIN request,
               cursors'[x].tag = cursors'[y].tag, cursors'[x].outlier = cursors'[y].outlier
        PROVE  x = y
    BY <1>3, <2>1, CursorsDiffer
  <2>2. ASSUME NEW x \in DOMAIN request PROVE cursors'[x].pos <= Len(cursors'[x].rows) + 1
    <3>1. cursors'[x].rows \in Seq(Rows) /\ cursors'[x].pos = 1
      BY <1>3 DEF Cursor
    <3>2. Len(cursors'[x].rows) \in Nat
      BY <3>1
    <3> QED
      BY <3>1, <3>2
  <2>3. ASSUME NEW x \in DOMAIN request, NEW r \in Rows
        PROVE  Cardinality(Merged(r, cursors[x]))' = Cardinality(Passed(r, cursors[x]))'
    <3>1. Merged(r, cursors[x])' = {}
      BY <1>4 DEF Merged
    <3>2. Passed(r, cursors[x])' = {}
      BY <1>3 DEF Passed
    <3> QED
      BY <3>1, <3>2
  <2> QED
    BY <1>1, <1>4, <2>1, <2>2, <2>3 DEF MergeSound
<1>7. ReadOnce' /\ Moved' = {}
  BY <1>1 DEF ReadOnce, Moved
<1> QED
  BY <1>1, <1>5, <1>6, <1>7
  DEF ReadInv, NothingRead, ScanSound, GatherSound, Gathering, KernelSound, Served

LEMMA MergeRowReads ==
  ASSUME ReadInv, NEW x \in DOMAIN cursors, MergeRow(x), GatherInv'
  PROVE  ReadInv'
<1> PICK cur, p, q, el : /\ cur = cursors[x] /\ p = cursors[x].pos /\ q = Peek(x)
                         /\ el = [row |-> Peek(x), tag |-> cursors[x].tag, outlier |-> cursors[x].outlier]
  OBVIOUS
<1>1. /\ phase = "merge" /\ phase' = "merge" /\ x \in Live /\ \A y \in Live : q <= Peek(y)
      /\ batch' = Append(batch, el) /\ cursors' = [cursors EXCEPT ![x].pos = @ + 1]
      /\ sortGather' = sortGather /\ deviceReads' = deviceReads /\ stats' = stats
  BY DEF MergeRow, configVars
<1>2. /\ OrderSound /\ MergeSound /\ ReadOnce /\ NothingRead
      /\ cursors \in Seq(Cursor) /\ batch \in Seq(Wanted)
  BY DEF ReadInv, GatherInv, PlanSound
<1>3. cur \in Cursor /\ p \in 1 .. Len(cur.rows) /\ cur.rows \in Seq(Rows) /\ q = cur.rows[p]
      /\ Len(cur.rows) \in Nat /\ q \in Rows
  <2>1. cur \in Cursor
    BY <1>2
  <2>2. cur.rows \in Seq(Rows) /\ p \in Nat \ {0}
    BY <2>1 DEF Cursor
  <2>3. p <= Len(cur.rows)
    BY <1>1 DEF Live
  <2>4. p \in 1 .. Len(cur.rows) /\ Len(cur.rows) \in Nat
    BY <2>2, <2>3
  <2>5. q = cur.rows[p]
    BY DEF Peek
  <2> QED
    BY <2>1, <2>2, <2>4, <2>5
<1>4. /\ N \in Nat /\ N' = N + 1 /\ batch'[N + 1] = el /\ \A i \in 1 .. N : batch'[i] = batch[i]
      /\ el.row = q /\ el.tag = cur.tag /\ el.outlier = cur.outlier
  <2>1. N = Len(batch) /\ N' = Len(batch')
    BY DEF N
  <2> QED
    BY <1>1, <1>2, <2>1
<1>5. /\ DOMAIN cursors' = DOMAIN cursors
      /\ \A y \in DOMAIN cursors : /\ cursors'[y].rows = cursors[y].rows /\ cursors'[y].tag = cursors[y].tag
                                   /\ cursors'[y].outlier = cursors[y].outlier
                                   /\ y # x => cursors'[y] = cursors[y]
      /\ cursors'[x].pos = p + 1
  <2>1. cursors' = [cursors EXCEPT ![x] = [cur EXCEPT !.pos = p + 1]]
    BY <1>1
  <2>2. cursors'[x] = [cur EXCEPT !.pos = p + 1] /\ DOMAIN cursors' = DOMAIN cursors
        /\ \A y \in DOMAIN cursors : y # x => cursors'[y] = cursors[y]
    BY <1>2, <2>1
  <2>3. cur \in [rows : Seq(Rows), pos : Nat \ {0}, tag : Nat, outlier : BOOLEAN]
    BY <1>3 DEF Cursor
  <2>4. /\ [cur EXCEPT !.pos = p + 1].rows = cur.rows /\ [cur EXCEPT !.pos = p + 1].tag = cur.tag
        /\ [cur EXCEPT !.pos = p + 1].outlier = cur.outlier /\ [cur EXCEPT !.pos = p + 1].pos = p + 1
    BY <2>3
  <2> QED
    BY <2>2, <2>4
<1>6. OrderSound'
  <2> SUFFICES ASSUME sortGather PROVE OrderSound'
    BY <1>1 DEF OrderSound
  <2>1. /\ \A i, k \in 1 .. N : i <= k => batch[i].row <= batch[k].row
        /\ \A y \in DOMAIN cursors : \A i, k \in DOMAIN cursors[y].rows :
             i <= k => cursors[y].rows[i] <= cursors[y].rows[k]
        /\ \A y \in Live : \A i \in 1 .. N : batch[i].row <= Peek(y)
    BY <1>1, <1>2 DEF OrderSound
  <2>2. \A i \in 1 .. N + 1 : batch'[i].row <= q /\ (i = N + 1 => batch'[i].row = q)
    <3> TAKE i \in 1 .. N + 1
    <3>1. CASE i = N + 1
      <4>1. q \in Nat
        BY <1>3, RowsAreNat
      <4> QED
        BY <1>4, <3>1, <4>1
    <3>2. CASE i # N + 1
      <4>1. i \in 1 .. N
        BY <1>4, <3>2
      <4> QED
        BY <1>1, <1>4, <2>1, <3>2, <4>1
    <3> QED
      BY <3>1, <3>2
  <2>3. ASSUME NEW i \in 1 .. N + 1, NEW k \in 1 .. N + 1, i <= k PROVE batch'[i].row <= batch'[k].row
    <3>1. CASE k = N + 1
      BY <2>2, <3>1
    <3>2. CASE k # N + 1
      <4>1. i \in 1 .. N /\ k \in 1 .. N
        BY <1>4, <2>3, <3>2
      <4> QED
        BY <1>4, <2>1, <2>3, <4>1
    <3> QED
      BY <3>1, <3>2
  <2>4. ASSUME NEW y \in Live' PROVE q <= Peek(y)'
    <3>1. y \in DOMAIN cursors /\ cursors'[y].pos <= Len(cursors'[y].rows)
      BY <1>5, <2>4 DEF Live
    <3>2. CASE y = x
      <4>1. p + 1 <= Len(cur.rows) /\ Peek(x)' = cur.rows[p + 1]
        BY <1>5, <3>1, <3>2 DEF Peek
      <4>2. p \in DOMAIN cur.rows /\ p + 1 \in DOMAIN cur.rows /\ p <= p + 1
        BY <1>3, <4>1
      <4> QED
        BY <1>3, <2>1, <3>2, <4>1, <4>2
    <3>3. CASE y # x
      <4>1. y \in Live /\ Peek(y)' = Peek(y)
        BY <1>5, <3>1, <3>3 DEF Live, Peek
      <4> QED
        BY <1>1, <4>1
    <3> QED
      BY <3>2, <3>3
  <2>5. ASSUME NEW y \in Live', NEW i \in 1 .. N + 1 PROVE batch'[i].row <= Peek(y)'
    <3>1. y \in DOMAIN cursors /\ cursors'[y].pos <= Len(cursors'[y].rows)
      BY <1>5, <2>5 DEF Live
    <3> PICK a, b : a = batch'[i].row /\ b = Peek(y)'
      OBVIOUS
    <3>2. a <= q /\ q <= b
      BY <2>2, <2>4
    <3>3. a \in Nat
      <4>1. batch' \in Seq(Wanted) /\ i \in 1 .. Len(batch')
        BY <1>4 DEF GatherInv, PlanSound, N
      <4>2. batch'[i] \in Wanted
        BY <4>1, ElementOfSeq
      <4> QED
        BY <4>2, RowsAreNat DEF Wanted
    <3>4. b \in Nat
      <4>1. cursors' \in Seq(Cursor) /\ cursors'[y] \in Cursor
        BY <1>5, <3>1 DEF GatherInv, PlanSound
      <4>2. cursors'[y].rows \in Seq(Rows) /\ cursors'[y].pos \in Nat \ {0}
        BY <4>1 DEF Cursor
      <4>3. cursors'[y].pos \in DOMAIN cursors'[y].rows
        BY <3>1, <4>2
      <4>4. cursors'[y].rows[cursors'[y].pos] \in Rows
        BY <4>2, <4>3
      <4> QED
        BY <4>4, RowsAreNat DEF Peek
    <3>5. q \in Nat
      BY <1>3, RowsAreNat
    <3>6. a <= b
      BY ONLY <3>2, <3>3, <3>4, <3>5
    <3> QED
      BY <3>6
  <2> QED
    BY <1>4, <1>5, <2>1, <2>3, <2>5 DEF OrderSound
<1>7. MergeSound'
  <2>1. ASSUME NEW y \in DOMAIN cursors, NEW z \in DOMAIN cursors,
               cursors'[y].tag = cursors'[z].tag, cursors'[y].outlier = cursors'[z].outlier
        PROVE  y = z
    BY <1>2, <1>5, <2>1 DEF MergeSound
  <2>2. ASSUME NEW y \in DOMAIN cursors PROVE cursors'[y].pos <= Len(cursors'[y].rows) + 1
    <3>1. CASE y = x
      BY <1>3, <1>5, <3>1
    <3>2. CASE y # x
      BY <1>2, <1>5, <3>2 DEF MergeSound
    <3> QED
      BY <3>1, <3>2
  <2>3. ASSUME NEW y \in DOMAIN cursors, NEW r \in Rows
        PROVE  Cardinality(Merged(r, cursors[y]))' = Cardinality(Passed(r, cursors[y]))'
    <3> PICK A, B : A = Merged(r, cursors[y]) /\ B = Passed(r, cursors[y])
      OBVIOUS
    <3>1. Cardinality(A) = Cardinality(B)
      BY <1>2 DEF MergeSound
    <3>2. IsFiniteSet(A) /\ A \subseteq 1 .. N /\ N + 1 \notin A
      <4>1. A \subseteq 1 .. N
        BY DEF Merged
      <4>2. IsFiniteSet(1 .. N)
        BY <1>4, FS_Interval
      <4> QED
        BY <1>4, <4>1, <4>2, FS_Subset
    <3>3. Merged(r, cursors[y])' = A \union {i \in {N + 1} : /\ r = q /\ cur.tag = cursors[y].tag
                                                           /\ cur.outlier = cursors[y].outlier}
      <4>1. Merged(r, cursors[y])' = {i \in 1 .. N + 1 : /\ batch'[i].row = r
                                        /\ batch'[i].tag = cursors[y].tag
                                        /\ batch'[i].outlier = cursors[y].outlier}
        BY <1>4, <1>5 DEF Merged
      <4>2. 1 .. N + 1 = (1 .. N) \union {N + 1}
        BY <1>4
      <4> QED
        BY <1>4, <4>1, <4>2 DEF Merged
    <3>4. CASE y # x
      <4>1. ~(cur.tag = cursors[y].tag /\ cur.outlier = cursors[y].outlier)
        BY <1>2, <3>4 DEF MergeSound
      <4>2. Merged(r, cursors[y])' = A
        BY <3>3, <4>1
      <4>3. Passed(r, cursors[y])' = B
        BY <1>5, <3>4 DEF Passed
      <4> QED
        BY <3>1, <4>2, <4>3
    <3>5. CASE y = x
      <4>1. Passed(r, cursors[y])' = B \union {j \in {p} : r = q}
        <5>1. Passed(r, cursors[y])' = {j \in 1 .. (p + 1) - 1 : cur.rows[j] = r}
          BY <1>5, <3>5 DEF Passed
        <5>2. 1 .. (p + 1) - 1 = (1 .. p - 1) \union {p}
          BY <1>3
        <5> QED
          BY <1>3, <3>5, <5>1, <5>2 DEF Passed
      <4>2. IsFiniteSet(B) /\ p \notin B
        <5>1. B \subseteq 1 .. p - 1
          BY <3>5 DEF Passed
        <5>2. IsFiniteSet(1 .. p - 1)
          <6> PICK a : a = p - 1
            OBVIOUS
          <6>1. a \in Int /\ 1 \in Int
            BY <1>3
          <6> QED
            BY <6>1, FS_Interval
        <5> QED
          BY <1>3, <5>1, <5>2, FS_Subset
      <4>3. CASE r = q
        <5>1. Merged(r, cursors[y])' = A \union {N + 1} /\ Passed(r, cursors[y])' = B \union {p}
          BY <3>3, <3>5, <4>1, <4>3
        <5>2. Cardinality(A \union {N + 1}) = Cardinality(A) + 1
              /\ Cardinality(B \union {p}) = Cardinality(B) + 1
          BY <3>2, <4>2, FS_AddElement
        <5> QED
          BY <3>1, <5>1, <5>2
      <4>4. CASE r # q
        <5>1. Merged(r, cursors[y])' = A /\ Passed(r, cursors[y])' = B
          BY <3>3, <4>1, <4>4
        <5> QED
          BY <3>1, <5>1
      <4> QED
        BY <4>3, <4>4
    <3> QED
      BY <3>4, <3>5
  <2> QED
    BY <1>1, <1>5, <2>1, <2>2, <2>3 DEF MergeSound
<1>8. ReadOnce' /\ NothingRead'
  BY <1>1, <1>2 DEF ReadOnce, NothingRead, Moved
<1> QED
  BY <1>1, <1>6, <1>7, <1>8
  DEF ReadInv, ScanSound, GatherSound, Gathering, KernelSound, Served

-----------------------------------------------------------------------------
(* The invariant and what follows from it.                                 *)

LEMMA ReadStarts ==
  ASSUME GatherInit
  PROVE  ReadInv
<1>1. GatherInv
  BY GatherStarts
<1>2. phase = "idle" /\ batch = <<>> /\ cursors = <<>> /\ deviceReads = [v \in Value |-> 0]
  BY DEF GatherInit
<1>3. N = 0 /\ DOMAIN cursors = {}
  BY <1>2 DEF N
<1>4. OrderSound /\ MergeSound /\ ReadOnce
  BY <1>2, <1>3 DEF OrderSound, MergeSound, ReadOnce
<1> QED
  BY <1>1, <1>2, <1>4
  DEF ReadInv, NothingRead, ScanSound, GatherSound, Gathering, KernelSound, Served

LEMMA ReadStutters ==
  ASSUME ReadInv, UNCHANGED gatherVars, GatherInv'
  PROVE  ReadInv'
<1>1. /\ sortGather' = sortGather /\ ring' = ring /\ phase' = phase /\ cursors' = cursors
      /\ batch' = batch /\ ranges' = ranges /\ outs' = outs /\ scan' = scan /\ direct' = direct
      /\ slots' = slots /\ freeSlots' = freeSlots /\ loop' = loop /\ sq' = sq
      /\ kernel' = kernel /\ cq' = cq /\ stats' = stats /\ deviceReads' = deviceReads
  BY DEF gatherVars, configVars, planVars, ringVars
<1>2. /\ N' = N /\ Low' = Low /\ Moved' = Moved
      /\ (\A j : RowAt(j)' = RowAt(j)) /\ \A j : PosOf(j)' = PosOf(j)
  BY <1>1, PlacesKept DEF N, Low, Moved
<1>3. /\ Tasks' = Tasks /\ Reads' = Reads /\ Large' = Large
      /\ (\A t : TaskRange(t)' = TaskRange(t)) /\ \A d : LargeRange(d)' = LargeRange(d)
  BY <1>1, ListsKept
<1>4. OrderSound' /\ MergeSound' /\ ReadOnce' /\ NothingRead'
  BY <1>1, <1>2
  DEF ReadInv, OrderSound, MergeSound, ReadOnce, NothingRead, Live, Peek, Merged, Passed
<1>5. ScanSound' /\ KernelSound' /\ Served'
  BY <1>1, <1>2 DEF ReadInv, ScanSound, KernelSound, Served, InPlace, Asks
<1>6. GatherSound'
  <2> SUFFICES ASSUME Gathering PROVE GatherSound'
    BY <1>1 DEF GatherSound, Gathering
  <2>1. /\ DOMAIN outs = Columns /\ Covering(ranges) /\ OnlyRanges /\ DirectSound
        /\ phase = "direct" => ring # "live" \/ Unstarted
        /\ Ringing => ring = "live" /\ direct = Len(Large) * MeasureCount /\ RingSound
        /\ stats.gatherBytes = Bytes(ranges) * MeasureCount /\ stats.scanBytes = 0
    BY DEF ReadInv, GatherSound
  <2>2. Covering(ranges)' /\ OnlyRanges' /\ Bytes(ranges)' = Bytes(ranges)
    BY <1>1, <2>1, CoveringKept DEF OnlyRanges, Bytes
  <2>3. /\ \A c, rg, n : ReadUpTo(c, rg, n) <=> ReadUpTo(c, rg, n)'
        /\ \A c, rg : Delivered(c, rg) <=> Delivered(c, rg)'
    BY <1>1, <1>2 DEF ReadUpTo, Delivered, InPlace, Hits
  <2>4. DirectSound' /\ (Unstarted => Unstarted')
    BY <1>1, <1>3, <2>1, <2>3, ZenonT(60)
    DEF DirectSound, Unstarted, Delivered, ReadUpTo, InPlace, Hits, TaskColumn
  <2>5. RingSound => RingSound'
    <3>1. /\ \A t : Underway(t)' <=> Underway(t)
          /\ \A s, n : Arrived(s, n)' <=> Arrived(s, n)
      BY <1>1 DEF Underway, Free, Arrived
    <3> QED
      BY <1>1, <1>2, <1>3, <3>1
      DEF RingSound, Holding, Delivered, ReadUpTo, InPlace, Hits, TaskColumn
  <2> QED
    BY <1>1, <1>3, <2>1, <2>2, <2>4, <2>5 DEF GatherSound, Ringing
<1> QED
  BY <1>4, <1>5, <1>6 DEF ReadInv

LEMMA ReadSteps ==
  ASSUME ReadInv, [GatherNext]_gatherVars
  PROVE  ReadInv'
<1>1. GatherInv'
  BY GatherSteps DEF ReadInv
<1>2. CASE UNCHANGED gatherVars
  BY <1>1, <1>2, ReadStutters
<1>3. CASE Engine
  <2>1. CASE \E x \in DOMAIN cursors : MergeRow(x)
    BY <1>1, <2>1, MergeRowReads
  <2>2. CASE ServeResident
    BY <1>1, <2>2, ServeResidentReads
  <2>3. CASE ChooseScan
    BY <1>1, <2>3, ChooseScanReads
  <2>4. CASE ChooseGather
    BY <1>1, <2>4, ChooseGatherReads
  <2>5. CASE ScanBlock
    BY <1>1, <2>5, ScanBlockReads
  <2>6. CASE NextColumn
    BY <1>1, <2>6, NextColumnReads
  <2>7. CASE ReadDirect
    BY <1>1, <2>7, ReadDirectReads
  <2>8. CASE EndDirect
    BY <1>1, <2>8, EndDirectReads
  <2>9. CASE FillSlot
    BY <1>1, <2>9, FillSlotReads
  <2>10. CASE SubmitQueue
    BY <1>1, <2>10, SubmitQueueReads
  <2>11. CASE HandleCompletion
    BY <1>1, <2>11, HandleCompletionReads
  <2>12. CASE Drained
    BY <1>1, <2>12, DrainedReads
  <2>13. CASE Return
    BY <1>1, <2>13, ReturnReads
  <2> QED
    BY <1>3, <2>1, <2>2, <2>3, <2>4, <2>5, <2>6, <2>7, <2>8, <2>9, <2>10, <2>11, <2>12, <2>13
    DEF Engine
<1>4. CASE Kernel
  BY <1>1, <1>4, KernelReadsOn
<1>5. CASE \E request \in Batches : Begin(request)
  BY <1>1, <1>5, BeginReads
<1> QED
  BY <1>2, <1>3, <1>4, <1>5 DEF GatherNext

\* What the inductive invariant says of a gather that has come back.
LEMMA ServedIsRight ==
  ASSUME ReadInv
  PROVE  BytesAsReported /\ ValuesReachTheirStrata
<1>1. ReadOnce /\ Served /\ MergeSound /\ cursors \in Seq(Cursor)
  BY DEF ReadInv, GatherInv, PlanSound
<1>2. BytesAsReported
  <2>1. \A v \in Value : deviceReads[v] <= 1
    BY <1>1 DEF ReadOnce
  <2> QED
    BY <1>1, <2>1 DEF BytesAsReported, Served, Moved
<1>3. ASSUME phase = "served", NEW x \in DOMAIN cursors, NEW c \in Columns, NEW r \in Rows
      PROVE  Fed(c, r, cursors[x]) = Asked(r, cursors[x])
  <2>1. \A i \in 1 .. N : outs[c][i] = <<c, batch[i].row>>
    BY <1>1, <1>3 DEF Served, InPlace
  <2>2. \A i \in 1 .. N : outs[c][i] = <<c, r>> <=> batch[i].row = r
    BY <2>1
  <2>3. Fed(c, r, cursors[x]) = Cardinality(Merged(r, cursors[x]))
    <3>1. {i \in 1 .. N : /\ outs[c][i] = <<c, r>>
                          /\ batch[i].tag = cursors[x].tag /\ batch[i].outlier = cursors[x].outlier}
            = Merged(r, cursors[x])
      BY <2>2 DEF Merged
    <3> QED
      BY <3>1, Zenon DEF Fed
  <2>4. Asked(r, cursors[x]) = Cardinality(Passed(r, cursors[x]))
    <3>1. cursors[x].rows \in Seq(Rows) /\ cursors[x].pos = Len(cursors[x].rows) + 1
      <4>1. cursors[x] \in Cursor
        BY <1>1
      <4> QED
        BY <1>1, <1>3, <4>1 DEF MergeSound, Cursor
    <3> PICK n, rows : rows = cursors[x].rows /\ n = Len(rows)
      OBVIOUS
    <3>2. n \in Nat /\ DOMAIN rows = 1 .. n /\ cursors[x].pos - 1 = n
      BY <3>1
    <3>3. {j \in DOMAIN rows : rows[j] = r} = {j \in 1 .. cursors[x].pos - 1 : rows[j] = r}
      BY <3>2
    <3> QED
      BY <3>3, Zenon DEF Asked, Passed
  <2>5. Cardinality(Merged(r, cursors[x])) = Cardinality(Passed(r, cursors[x]))
    BY <1>1 DEF MergeSound
  <2> QED
    BY <2>3, <2>4, <2>5, Zenon
<1>4. phase = "served" => \A c \in Columns, i \in 1 .. N : outs[c][i] = <<c, batch[i].row>>
  BY <1>1 DEF Served, InPlace
<1> QED
  BY <1>2, <1>3, <1>4 DEF ValuesReachTheirStrata

\* Through the merge, the scan, the direct reads and the ring, in whatever order and
\* however short the reads come back, every value is read at most once, and what is
\* in flight, in a slot or in its place is the value that was asked for.
THEOREM ReadInvariant == GatherSpec => []ReadInv
<1>1. GatherInit => ReadInv
  BY ReadStarts
<1>2. ReadInv /\ [GatherNext]_gatherVars => ReadInv'
  BY ReadSteps
<1> QED
  BY <1>1, <1>2, PTL DEF GatherSpec

\* The device moves what GatherPathStats reports, and no value twice.
THEOREM BytesStayAsReported == GatherSpec => []BytesAsReported
<1>1. ReadInv => BytesAsReported
  BY ServedIsRight
<1> QED
  BY <1>1, ReadInvariant, PTL

\* When a gather returns, what a round folds is what it asked for.
THEOREM ValuesReachStrata == GatherSpec => []ValuesReachTheirStrata
<1>1. ReadInv => ValuesReachTheirStrata
  BY ServedIsRight
<1> QED
  BY <1>1, ReadInvariant, PTL
===============================================================================
