-------------------------- MODULE QueryEngineProofs --------------------------
(***************************************************************************)
(* Every query is decomposed, sampled and answered soundly, for every      *)
(* table, every query, every outcome of the statistics and every choice of *)
(* the sampler, whether summaries persist or not.                          *)
(*                                                                         *)
(* The argument: every step of the engine is a step of the index or leaves *)
(* the index alone, so IndexInv holds throughout.  The descent keeps what  *)
(* it has settled apart from what it has still to visit, in rows, which no *)
(* crack changes.  A round draws for each stratum in turn, and once it has *)
(* drawn for all of them its fold reaches every target it was set.         *)
(***************************************************************************)
EXTENDS QueryEngine, SummaryStoreProofs, SumLemmas

USE TableAssumption, PresentAssumption, EngineAssumption
-----------------------------------------------------------------------------
(* The partitions still to visit.                                          *)

Pending == {todo[k] : k \in DOMAIN todo}
AllDifferent(s) == \A k, l \in DOMAIN s : k # l => s[k] # s[l]

PendingApart ==
  /\ \A i, j \in Pending : i # j => RowsOf(i) \cap RowsOf(j) = {}
  /\ \A h \in StrataIds, j \in Pending : h # j /\ RowsOf(h) \cap RowsOf(j) = {}

\* Their order does not matter to what is settled.
LEMMA TodoByIds ==
  /\ TodoSound <=> AllDifferent(todo) /\ PendingApart
  /\ \A r : Waiting(r) <=> \E j \in Pending : r \in RowsOf(j)
<1>1. TodoSound => AllDifferent(todo) /\ PendingApart
  BY DEF TodoSound, AllDifferent, PendingApart, Pending
<1>2. AllDifferent(todo) /\ PendingApart => TodoSound
  BY DEF TodoSound, AllDifferent, PendingApart, Pending
<1>3. \A r : Waiting(r) <=> \E j \in Pending : r \in RowsOf(j)
  BY DEF Waiting, Pending
<1> QED
  BY <1>1, <1>2, <1>3

LEMMA TodoByIdsNext ==
  /\ (TodoSound <=> AllDifferent(todo) /\ PendingApart)'
  /\ \A r : Waiting(r)' <=> \E j \in Pending' : r \in RowsOf(j)'
<1>1. (/\ TodoSound <=> AllDifferent(todo) /\ PendingApart
       /\ \A r : Waiting(r) <=> \E j \in Pending : r \in RowsOf(j))'
  BY TodoByIds, PTL
<1> QED
  BY <1>1

LEMMA TodoKept ==
  ASSUME TodoSound, todo' = todo, StrataIds' = StrataIds, request' = request,
         \A j \in Pending \union StrataIds : RowsOf(j)' = RowsOf(j)
  PROVE  TodoSound' /\ Settled' = Settled
<1>1. AllDifferent(todo) /\ PendingApart
  BY TodoByIds
<1>2. Pending' = Pending /\ AllDifferent(todo)'
  BY <1>1 DEF Pending, AllDifferent
<1>3. PendingApart'
  BY <1>1, <1>2 DEF PendingApart
<1>4. TodoSound'
  <2>1. (TodoSound <=> AllDifferent(todo) /\ PendingApart)'
    BY TodoByIds, PTL
  <2> QED
    BY <1>2, <1>3, <2>1
<1>5. \A r : Waiting(r)' <=> Waiting(r)
  <2>1. (\A r : Waiting(r) <=> \E j \in Pending : r \in RowsOf(j))'
    BY TodoByIds, PTL
  <2> QED
    BY <1>2, <2>1, TodoByIds
<1> QED
  BY <1>4, <1>5 DEF Settled, Qualifying
-----------------------------------------------------------------------------
(* Steps that leave the answer alone.                                      *)

answerVars == <<indexVars, request, todo, strata, bucket, addback, total>>

LEMMA SameAnswer ==
  ASSUME UNCHANGED answerVars
  PROVE  /\ UNCHANGED indexVars /\ UNCHANGED <<tableVars, treeVars>>
         /\ crack' = crack /\ store' = store /\ batch' = batch
         /\ request' = request /\ todo' = todo /\ strata' = strata
         /\ bucket' = bucket /\ addback' = addback /\ total' = total
         /\ Ids' = Ids /\ StrataIds' = StrataIds
BY DEF answerVars, indexVars, crackVars, storeVars, treeVars, Ids, StrataIds

\* What a round's control reads of a stratum.
LEMMA SameStrata ==
  ASSUME UNCHANGED answerVars
  PROVE  \A h : /\ Size(h)' = Size(h) /\ Sampled(h)' = Sampled(h)
                /\ ReadInFull(h)' = ReadInFull(h) /\ NeedsBanking(h)' = NeedsBanking(h)
                /\ NewRows(h)' = NewRows(h) /\ HeldRows(h)' = HeldRows(h)
                /\ BodyRows(h)' = BodyRows(h)
BY SameAnswer DEF Size, Sampled, ReadInFull, NeedsBanking, NewRows, BodyRows, HeldRows, RowsOfCursors

LEMMA SameOutlook ==
  ASSUME UNCHANGED answerVars
  PROVE  /\ Unmaterialized' = Unmaterialized /\ EverythingRead' = EverythingRead
         /\ MaySatisfy' = MaySatisfy /\ Full' = Full
BY SameAnswer, SameStrata DEF Unmaterialized, EverythingRead, MaySatisfy, Full

LEMMA SameAnswerPreserves ==
  ASSUME IndexInv, RootHoldsAll, TodoSound, \A h \in StrataIds : StratumSound(h), RowsSettled,
         UNCHANGED answerVars
  PROVE  /\ IndexInv' /\ RootHoldsAll' /\ TodoSound'
         /\ (\A h \in StrataIds : StratumSound(h))' /\ RowsSettled'
<1>1. IndexInv'
  BY SameAnswer, StoreIdlePreserves
<1>2. /\ \A i : RowsOf(i)' = RowsOf(i) /\ PositionsOf(i)' = PositionsOf(i)
                /\ FlaggedIn(i)' = FlaggedIn(i) /\ Population(i)' = Population(i)
      /\ \A P : RowsAt(P)' = RowsAt(P)
      /\ nodes' = nodes /\ rowAt' = rowAt
  BY SameAnswer, SameIndex
<1>3. TodoSound' /\ Settled' = Settled
  BY SameAnswer, <1>2, TodoKept
<1>4. (\A h \in StrataIds : StratumSound(h))'
  BY SameAnswer, <1>2 DEF StratumSound, RowsAt
<1>5. RowsSettled'
  <2>1. \A h : Universe(h)' = Universe(h) /\ ToBank(h)' = ToBank(h)
    BY SameAnswer, <1>2 DEF Universe, ToBank, RowsAt
  <2> QED
    BY SameAnswer, <1>3, <2>1 DEF RowsSettled, Counted
<1>6. RootHoldsAll'
  BY <1>2 DEF RootHoldsAll
<1> QED
  BY <1>1, <1>3, <1>4, <1>5, <1>6

\* The read-work counters.
SameCounts ==
  /\ m'.reads = m.reads /\ m'.sampledRows = m.sampledRows
  /\ m'.exactifiedRows = m.exactifiedRows /\ m'.outlierRows = m.outlierRows

LEMMA SameReads ==
  ASSUME ReadsSound, phase \notin {"descend", "refine"}, phase' \notin {"descend", "refine"},
         SameCounts, UNCHANGED answerVars
  PROVE  ReadsSound'
<1>1. \A h : Unread(h)' = Unread(h)
  <2>1. \A P : RowsAt(P)' = RowsAt(P)
    BY SameAnswer, SameIndex
  <2>2. \A h : BodyRows(h)' = BodyRows(h)
    BY SameStrata
  <2>3. \A h : FoldedRows(h)' = FoldedRows(h)
    BY <2>1, <2>2, SameAnswer DEF FoldedRows, Trackers, RowsAt
  <2>4. \A h : Universe(h)' = Universe(h) /\ ToBank(h)' = ToBank(h)
    BY SameAnswer, <2>1, SameIndex DEF Universe, ToBank, RowsAt
  <2> QED
    BY <2>3, <2>4 DEF Unread
<1>2. UNION {Unread(h) : h \in StrataIds}' = UNION {Unread(h) : h \in StrataIds}
  BY <1>1, SameAnswer
<1>3. Qualifying' = Qualifying
  BY SameAnswer DEF Qualifying
<1> QED
  BY <1>2, <1>3, SameAnswer DEF ReadsSound, SameCounts
-----------------------------------------------------------------------------
(* execute()'s control.                                                    *)

\* Bodies are sets of positions, so they have sizes.
LEMMA SizesAreNat ==
  ASSUME EngineTypeOK, NEW h \in StrataIds
  PROVE  /\ strata[h] \in Stratum /\ IsFiniteSet(strata[h].body) /\ Size(h) \in Nat
         /\ Size(h) <= N
<1>1. strata[h] \in Stratum
  BY DEF EngineTypeOK
<1>2. strata[h].body \in SUBSET Positions
  BY <1>1 DEF Stratum
<1>3. IsFiniteSet(strata[h].body)
  BY <1>2, TableFinite, FS_Subset
<1>4. Cardinality(Positions) = N
  <2>1. 0 \in Int /\ N - 1 \in Int
    OBVIOUS
  <2>2. Cardinality(0 .. N - 1) = IF 0 > N - 1 THEN 0 ELSE N - 1 - 0 + 1
    BY ONLY <2>1, FS_Interval
  <2> QED
    BY <2>2 DEF Positions
<1>5. Cardinality(strata[h].body) <= N
  BY <1>2, <1>4, TableFinite, FS_Subset
<1> QED
  BY <1>1, <1>3, <1>5, FS_CardinalityType DEF Size

LEMMA SampledIsNat ==
  ASSUME IndexInv, EngineTypeOK, NEW h \in StrataIds
  PROVE  Sampled(h) \in Nat /\ Moments(h) \in RowBag
<1>1. strata[h] \in Stratum /\ h \in Ids
  BY DEF EngineTypeOK
<1>2. store[h] \in Slot
  BY <1>1 DEF IndexInv, StoreInv, StoreTypeOK
<1> QED
  BY <1>1, <1>2 DEF Sampled, Moments, Slot, Stratum

\* Opening a round: nothing is drawn yet.
LEMMA RoundStarts ==
  ASSUME EngineInv, phase \in {"estimate", "loop"}, UNCHANGED answerVars,
         NEW plan \in [StrataIds -> Nat], NEW next \in {"exact", "loop", "terminal"},
         next # "loop" => plan = Full, StartRound(plan, next),
         m.cause = "none", m' \in Metrics, m'.cause = m.cause, m'.status = m.status,
         SameCounts, round' \in Nat, round' <= Larger(MaxRounds, 2),
         next = "exact" => round' = 0,
         next = "loop" => round' + 1 <= Larger(MaxRounds, 2)
  PROVE  EngineInv'
<1>1. /\ IndexInv /\ RootHoldsAll /\ EngineTypeOK /\ ControlSound /\ TodoSound
      /\ RowsSettled /\ ReadsSound /\ \A h \in StrataIds : StratumSound(h)
  BY DEF EngineInv
<1>2. /\ IndexInv' /\ RootHoldsAll' /\ TodoSound'
      /\ (\A h \in StrataIds : StratumSound(h))' /\ RowsSettled'
  BY <1>1, SameAnswerPreserves
<1>3. Full \in [StrataIds -> Nat]
  BY <1>1, SizesAreNat DEF Full
<1>4. /\ phase' = "draw"
      /\ reading' = [targets   |-> IF Escalates(plan) THEN Full ELSE plan,
                     work      |-> StrataIds,
                     escalated |-> Escalates(plan),
                     next      |-> next]
  BY DEF StartRound
<1>5. PICK targets \in {plan, Full}, escalated \in BOOLEAN :
        /\ reading' = [targets |-> targets, work |-> StrataIds, escalated |-> escalated,
                       next |-> next]
        /\ escalated => targets = Full
  <2>1. Escalates(plan) \in BOOLEAN
    BY DEF Escalates
  <2>2. (IF Escalates(plan) THEN Full ELSE plan) \in {plan, Full}
    BY Zenon
  <2>3. Escalates(plan) => (IF Escalates(plan) THEN Full ELSE plan) = Full
    BY Zenon
  <2> QED
    BY <1>4, <2>1, <2>2, <2>3, Zenon
<1>6. /\ reading'.targets = targets /\ reading'.work = StrataIds
      /\ reading'.escalated = escalated /\ reading'.next = next
      /\ targets \in [StrataIds -> Nat]
  BY <1>3, <1>5
<1>7. EngineTypeOK'
  <2>1. StrataIds \subseteq Ids
    BY <1>1 DEF EngineTypeOK
  <2>2. DOMAIN reading'.targets = StrataIds /\ targets \in [DOMAIN targets -> Nat]
    BY <1>6
  <2> QED
    BY <1>1, <1>4, <1>5, <1>6, <2>1, <2>2, SameAnswer DEF EngineTypeOK, Stratum
<1>8. ControlSound'
  BY <1>1, <1>4, SameAnswer DEF ControlSound, Top
<1>9. DrawSound'
  <2>1. batch = {} /\ \A h \in StrataIds : strata[h].drawn = {}
    BY <1>1 DEF ControlSound
  <2>2. targets = Full \/ (next = "loop" /\ ~escalated)
    BY <1>5
  <2>3. Full' = Full
    BY SameOutlook
  <2>4. DOMAIN reading'.targets = StrataIds
    BY <1>6
  <2> QED
    BY <1>6, <2>1, <2>2, <2>3, <2>4, SameAnswer DEF DrawSound
<1>10. RoundsSound'
  BY <1>4, <1>6 DEF RoundsSound, RoundsWithinBudget, Larger
<1>11. OutcomeSound'
  <2>1. m.status = "none"
    BY <1>1 DEF ControlSound
  <2> QED
    BY <1>4, <2>1 DEF OutcomeSound, NeverExhausted
<1>12. ReadsSound'
  BY <1>1, <1>4, SameReads
<1> QED
  BY <1>2, <1>7, <1>8, <1>9, <1>10, <1>11, <1>12 DEF EngineInv

\* Moving on between rounds.
LEMMA PhaseMoves ==
  ASSUME EngineInv, phase \in {"estimate", "loop", "exact", "terminal"},
         phase' \in {"loop", "idle"}, UNCHANGED <<answerVars, reading>>,
         m' \in Metrics, phase' # "idle" => m'.status = "none", SameCounts,
         round' \in Nat, RoundsSound', OutcomeSound'
  PROVE  EngineInv'
<1>1. /\ IndexInv /\ RootHoldsAll /\ EngineTypeOK /\ ControlSound /\ TodoSound
      /\ RowsSettled /\ ReadsSound /\ \A h \in StrataIds : StratumSound(h)
  BY DEF EngineInv
<1>2. /\ IndexInv' /\ RootHoldsAll' /\ TodoSound'
      /\ (\A h \in StrataIds : StratumSound(h))' /\ RowsSettled'
  BY <1>1, SameAnswerPreserves
<1>3. EngineTypeOK'
  BY <1>1, SameAnswer DEF EngineTypeOK, Stratum
<1>4. ControlSound'
  BY <1>1, SameAnswer DEF ControlSound, Top
<1>5. DrawSound'
  BY DEF DrawSound
<1>6. ReadsSound'
  <2>1. phase' \notin {"descend", "refine"} /\ phase \notin {"descend", "refine"}
    OBVIOUS
  <2> QED
    BY <1>1, <2>1, SameReads
<1> QED
  BY <1>2, <1>3, <1>4, <1>5, <1>6 DEF EngineInv

\* The parts of the invariant the control of rounds rests on.
LEMMA ControlFacts ==
  ASSUME EngineInv
  PROVE  /\ m \in Metrics /\ round \in Nat
         /\ phase \in {"loop", "estimate", "exact", "terminal"} => m.status = "none"
         /\ phase = "estimate" => round = 0 /\ m.cause = "none"
         /\ phase = "exact" => round = 0
         /\ phase = "loop" => round + 1 <= Larger(MaxRounds, 2)
         /\ phase = "loop" /\ MayFail => m.cause = "none"
         /\ round <= Larger(MaxRounds, 2)
         /\ Larger(MaxRounds, 2) \in Nat /\ 2 <= Larger(MaxRounds, 2)
         /\ MaxRounds <= Larger(MaxRounds, 2)
<1>1. /\ m \in Metrics /\ round \in Nat
      /\ phase \in {"loop", "estimate", "exact", "terminal"} => m.status = "none"
  BY DEF EngineInv, EngineTypeOK, ControlSound
<1>2. /\ phase = "estimate" => round = 0 /\ m.cause = "none"
      /\ phase = "exact" => round = 0
      /\ phase = "loop" => round + 1 <= Larger(MaxRounds, 2)
      /\ round <= Larger(MaxRounds, 2)
  BY DEF EngineInv, RoundsSound, RoundsWithinBudget, OutcomeSound
<1>3. phase = "loop" /\ MayFail => m.cause = "none"
  BY DEF EngineInv, OutcomeSound, MayFail, EverythingRead
<1>4. /\ Larger(MaxRounds, 2) \in Nat /\ 2 <= Larger(MaxRounds, 2)
      /\ MaxRounds <= Larger(MaxRounds, 2)
  BY DEF Larger
<1> QED
  BY <1>1, <1>2, <1>3, <1>4

LEMMA ReadExactPreserves ==
  ASSUME EngineInv, ReadExact
  PROVE  EngineInv'
<1>1. /\ phase = "estimate" /\ StartRound(Full, "exact") /\ UNCHANGED answerVars
      /\ round' = round /\ m' = m
  BY DEF ReadExact, ControlUnchanged, answerVars
<1>2. Full \in [StrataIds -> Nat]
  BY SizesAreNat DEF Full, EngineInv
<1> QED
  BY <1>1, <1>2, ControlFacts, RoundStarts DEF SameCounts

LEMMA PilotPreserves ==
  ASSUME EngineInv, Pilot
  PROVE  EngineInv'
<1>1. phase = "estimate" /\ UNCHANGED answerVars /\ round' = round + 1 /\ m' = m
  BY DEF Pilot, ControlUnchanged, answerVars
<1>2. round' = 1 /\ m.cause = "none" /\ m.status = "none" /\ m \in Metrics
  BY <1>1, ControlFacts
<1>3. round' \in Nat /\ round' + 1 <= Larger(MaxRounds, 2) /\ round' <= Larger(MaxRounds, 2)
  BY <1>2, ControlFacts
<1>4. CASE StartRound(PilotPlan, "loop")
  <2>1. PilotPlan \in [StrataIds -> Nat]
    <3>1. ASSUME NEW h \in StrataIds PROVE Larger(PilotDemand(h), Sampled(h)) \in Nat
      BY SizesAreNat, SampledIsNat DEF EngineInv, PilotDemand, Larger
    <3> QED
      BY <3>1 DEF PilotPlan
  <2> QED
    BY <1>1, <1>2, <1>3, <1>4, <2>1, RoundStarts DEF SameCounts
<1>5. CASE ~Unmaterialized /\ phase' = "loop" /\ UNCHANGED reading
  <2>1. RoundsSound'
    BY <1>3, <1>5 DEF RoundsSound, RoundsWithinBudget, Larger
  <2>2. OutcomeSound'
    BY <1>1, <1>2, <1>5, SameOutlook DEF OutcomeSound, NeverExhausted
  <2> QED
    BY <1>1, <1>2, <1>3, <1>5, <2>1, <2>2, PhaseMoves DEF SameCounts
<1> QED
  BY <1>4, <1>5 DEF Pilot

LEMMA PlannedRoundPreserves ==
  ASSUME EngineInv, PlannedRound
  PROVE  EngineInv'
<1>1. /\ phase = "loop" /\ MayFail /\ BudgetLeft /\ UNCHANGED answerVars
      /\ round' = round + 1 /\ m' = m
  BY DEF PlannedRound, ControlUnchanged, answerVars
<1>2. PICK plan \in Plans : StartRound(plan, "loop")
  BY DEF PlannedRound
<1>3. plan \in [StrataIds -> Nat]
  BY DEF Plans
<1>4. round' \in Nat /\ round' + 1 <= Larger(MaxRounds, 2) /\ round' <= Larger(MaxRounds, 2)
  BY <1>1, ControlFacts DEF BudgetLeft
<1> QED
  BY <1>1, <1>2, <1>3, <1>4, ControlFacts, RoundStarts DEF SameCounts

LEMMA TerminalReadPreserves ==
  ASSUME EngineInv, TerminalRead
  PROVE  EngineInv'
<1>1. /\ phase = "loop" /\ MayFail /\ UNCHANGED answerVars
      /\ StartRound(Full, "terminal")
      /\ round' = round + 1 /\ m' = [m EXCEPT !.preError = TRUE]
  BY DEF TerminalRead, ControlUnchanged, answerVars
<1>2. Full \in [StrataIds -> Nat]
  BY SizesAreNat DEF Full, EngineInv
<1>3. m' \in Metrics /\ m'.cause = m.cause /\ m'.status = m.status /\ SameCounts
  BY <1>1, ControlFacts DEF Metrics, SameCounts
<1>4. round' \in Nat /\ round' <= Larger(MaxRounds, 2)
  BY <1>1, ControlFacts
<1> QED
  BY <1>1, <1>2, <1>3, <1>4, ControlFacts, RoundStarts DEF SameCounts

LEMMA SkipPilotPreserves ==
  ASSUME EngineInv, SkipPilot
  PROVE  EngineInv'
<1>1. /\ phase = "estimate" /\ ~Unmaterialized /\ phase' = "loop"
      /\ UNCHANGED <<answerVars, reading>> /\ round' = round /\ m' = m
  BY DEF SkipPilot, ControlUnchanged, answerVars
<1>2. UNCHANGED answerVars
  BY <1>1
<1>3. RoundsSound'
  BY <1>1, ControlFacts DEF RoundsSound, RoundsWithinBudget
<1>4. OutcomeSound'
  BY <1>1, <1>2, ControlFacts, SameOutlook DEF OutcomeSound, NeverExhausted
<1> QED
  BY <1>1, <1>3, <1>4, ControlFacts, PhaseMoves DEF SameCounts

\* A query ends with everything read and banked, or certified by its estimates.
LEMMA QueryEnds ==
  ASSUME EngineInv, phase \in {"exact", "loop", "terminal"}, phase' = "idle",
         UNCHANGED <<answerVars, reading>>, round' = round,
         m' \in Metrics, SameCounts, m'.status \in {"exact", "exactified", "converged"},
         MaySatisfy, m'.status = "converged" => m'.cause = "none",
         m'.status # "converged" => EverythingRead
  PROVE  EngineInv'
<1>1. UNCHANGED answerVars
  OBVIOUS
<1>2. RoundsSound'
  BY ControlFacts DEF RoundsSound, RoundsWithinBudget
<1>3. OutcomeSound'
  <2>1. ~Unmaterialized
    BY DEF EngineInv, OutcomeSound
  <2> QED
    BY <1>1, <2>1, SameOutlook DEF OutcomeSound, NeverExhausted
<1> QED
  BY <1>2, <1>3, ControlFacts, PhaseMoves

LEMMA FinishExactPreserves ==
  ASSUME EngineInv, FinishExact
  PROVE  EngineInv'
<1>1. /\ phase = "exact" /\ phase' = "idle"
      /\ UNCHANGED <<answerVars, reading>> /\ round' = round
      /\ m' = [m EXCEPT !.status = "exact", !.cause = "none"]
  BY DEF FinishExact, ControlUnchanged, answerVars
<1>2. m' \in Metrics /\ m'.status = "exact" /\ SameCounts
  BY <1>1, ControlFacts DEF Metrics, SameCounts
<1>3. EverythingRead /\ MaySatisfy
  BY <1>1 DEF EngineInv, OutcomeSound, EverythingRead, MaySatisfy
<1> QED
  BY <1>1, <1>2, <1>3, QueryEnds

LEMMA FinishMetrics ==
  ASSUME EngineInv, NEW exactified \in BOOLEAN, NEW satisfied \in BOOLEAN,
         NEW cause \in {"none", "scan_cheaper_than_gather", "gave_up"},
         Finish(exactified, satisfied, cause)
  PROVE  /\ phase' = "idle" /\ UNCHANGED <<answerVars, reading>> /\ round' = round
         /\ m' \in Metrics /\ m'.cause = cause /\ SameCounts
         /\ ~exactified => m'.status = "converged"
         /\ exactified /\ satisfied => m'.status = "exactified"
<1>1. m \in Metrics /\ round \in Nat
  BY ControlFacts
<1>2. phase' = "idle" /\ UNCHANGED <<answerVars, reading>> /\ round' = round
  BY DEF Finish, ControlUnchanged, answerVars
<1>3. PICK status \in {"converged", "exactified", "exhausted_unconverged"} :
        /\ m' = [m EXCEPT !.cause = cause, !.adaptiveRounds = round, !.status = status]
        /\ ~exactified => status = "converged"
        /\ exactified /\ satisfied => status = "exactified"
  BY DEF Finish
<1> QED
  BY <1>1, <1>2, <1>3 DEF Metrics, SameCounts

LEMMA ConvergePreserves ==
  ASSUME EngineInv, Converge
  PROVE  EngineInv'
<1>1. phase = "loop" /\ MaySatisfy /\ Finish(m.cause # "none", TRUE, m.cause)
  BY DEF Converge
<1>2. m.cause \in {"none", "scan_cheaper_than_gather", "gave_up"}
  BY ControlFacts DEF Metrics
<1>3. m.cause # "none" => EverythingRead
  BY <1>1 DEF EngineInv, OutcomeSound
<1>4. PICK ex \in BOOLEAN : ex = (m.cause # "none")
  OBVIOUS
<1>5. Finish(ex, TRUE, m.cause)
  BY <1>1, <1>4
<1>6. /\ phase' = "idle" /\ UNCHANGED <<answerVars, reading>> /\ round' = round
      /\ m' \in Metrics /\ m'.cause = m.cause /\ SameCounts
      /\ ~ex => m'.status = "converged"
      /\ ex => m'.status = "exactified"
  BY <1>2, <1>5, FinishMetrics
<1> QED
  BY <1>1, <1>3, <1>4, <1>6, QueryEnds

\* After the terminal read nothing is left that could miss the request.
LEMMA GiveUpPreserves ==
  ASSUME EngineInv, GiveUp
  PROVE  EngineInv'
<1>1. PICK satisfied \in BOOLEAN :
        /\ IF satisfied THEN MaySatisfy ELSE MayFail
        /\ Finish(TRUE, satisfied, "gave_up")
  BY DEF GiveUp
<1>2. phase = "terminal" /\ EverythingRead
  BY DEF GiveUp, EngineInv, OutcomeSound
<1>3. MaySatisfy /\ ~MayFail
  BY <1>2 DEF EverythingRead, MaySatisfy, MayFail
<1>4. /\ phase' = "idle" /\ UNCHANGED <<answerVars, reading>> /\ round' = round
      /\ m' \in Metrics /\ m'.cause = "gave_up" /\ SameCounts
      /\ satisfied => m'.status = "exactified"
  BY <1>1, FinishMetrics
<1> QED
  BY <1>1, <1>2, <1>3, <1>4, QueryEnds
-----------------------------------------------------------------------------
(* The draw of a round.                                                    *)

\* Nothing is in flight for a stratum whose turn has not come.
LEMMA NothingDrawnYet ==
  ASSUME EngineInv, phase = "draw", NEW h \in StrataIds, h \in reading.work
  PROVE  /\ \A c \in batch : c.pid # h
         /\ strata[h].drawn = {} /\ BodyRows(h) = {} /\ HeldRows(h) = {}
         /\ RowsOfCursors(h, FALSE) = {} /\ RowsOfCursors(h, TRUE) = {}
<1>1. (\A c \in batch : c.pid # h) /\ strata[h].drawn = {}
  BY DEF EngineInv, DrawSound
<1>2. RowsOfCursors(h, FALSE) = {} /\ RowsOfCursors(h, TRUE) = {}
  BY <1>1 DEF RowsOfCursors
<1> QED
  BY <1>1, <1>2 DEF BodyRows, HeldRows

\* What one stratum's turn must do, and must leave alone.
LEMMA TurnPreserves ==
  ASSUME EngineInv, NEW h \in StrataIds, NextStratum(h), Drawn(h), IndexInv',
         UNCHANGED <<tableVars, treeVars>>, crack' = crack,
         UNCHANGED <<phase, request, todo, bucket, addback, total, round, m>>,
         strata' \in [StrataIds -> Stratum],
         \A g \in StrataIds :
           /\ strata'[g].persisted = strata[g].persisted /\ strata'[g].body = strata[g].body
           /\ strata'[g].sampled = strata[g].sampled
           /\ store'[g].population = store[g].population
           /\ store'[g].sampledRows = store[g].sampledRows
           /\ store'[g].outlierRows = store[g].outlierRows
           /\ store'[g].materialized = store[g].materialized
           /\ FoldedRows(g)' = FoldedRows(g) /\ StratumSound(g)',
         \A g \in StrataIds \ {h} :
           /\ NewRows(g)' = NewRows(g) /\ HeldRows(g)' = HeldRows(g)
           /\ strata'[g].drawn = strata[g].drawn,
         \A c \in batch' \ batch : c.pid = h /\ strata[h].persisted,
         reading.targets[h] >= Size(h) => Sampled(h) + NewRows(h)' >= Size(h),
         strata[h].persisted /\ NeedsBanking(h) => HeldRows(h)' # {}
  PROVE  EngineInv'
<1>1. /\ EngineTypeOK /\ ControlSound /\ TodoSound /\ RootHoldsAll /\ RowsSettled
      /\ DrawSound /\ RoundsSound /\ OutcomeSound /\ ReadsSound
  BY DEF EngineInv
<1>2. /\ nodes' = nodes /\ rowAt' = rowAt /\ Ids' = Ids
      /\ \A i : RowsOf(i)' = RowsOf(i) /\ PositionsOf(i)' = PositionsOf(i)
                /\ FlaggedIn(i)' = FlaggedIn(i)
      /\ \A P : RowsAt(P)' = RowsAt(P)
      /\ StrataIds' = StrataIds
  BY SameIndex DEF StrataIds
<1>3. phase' = "draw" /\ phase = "draw" /\ h \in reading.work /\ h \in Ids
  BY <1>1 DEF NextStratum, EngineTypeOK
<1>4. /\ reading'.targets = reading.targets /\ reading'.work = reading.work \ {h}
      /\ reading'.escalated = reading.escalated /\ reading'.next = reading.next
  BY <1>1 DEF Drawn, EngineTypeOK
<1>5. EngineTypeOK'
  <2>1. reading' \in [targets : [DOMAIN reading.targets -> Nat], work : SUBSET Ids,
                      escalated : BOOLEAN, next : {"exact", "loop", "terminal"}]
    BY <1>1 DEF Drawn, EngineTypeOK
  <2> QED
    BY <1>1, <1>2, <1>4, <2>1 DEF EngineTypeOK, Stratum
<1>6. ControlSound'
  BY <1>1, <1>2, <1>3 DEF ControlSound, Top
<1>7. TodoSound' /\ Settled' = Settled
  BY <1>1, <1>2, TodoKept
<1>8. /\ \A g \in StrataIds : /\ Universe(g)' = Universe(g) /\ ToBank(g)' = ToBank(g)
                              /\ Unread(g)' = Unread(g)
      /\ UNION {Universe(g) : g \in StrataIds}' = UNION {Universe(g) : g \in StrataIds}
      /\ UNION {ToBank(g) : g \in StrataIds}' = UNION {ToBank(g) : g \in StrataIds}
      /\ UNION {Unread(g) : g \in StrataIds}' = UNION {Unread(g) : g \in StrataIds}
  <2>1. \A g \in StrataIds : Universe(g)' = Universe(g) /\ ToBank(g)' = ToBank(g)
    BY <1>2 DEF Universe, ToBank, RowsAt
  <2>2. \A g \in StrataIds : Unread(g)' = Unread(g)
    BY <2>1 DEF Unread
  <2> QED
    BY <1>2, <2>1, <2>2
<1>9. RowsSettled'
  BY <1>1, <1>7, <1>8 DEF RowsSettled, Counted
<1>10. \A g \in StrataIds : /\ Size(g)' = Size(g) /\ Sampled(g)' = Sampled(g)
                            /\ NeedsBanking(g)' = NeedsBanking(g)
  BY DEF Size, Sampled, NeedsBanking
<1>11. DrawSound'
  <2>1. Full' = Full
    BY <1>2, <1>10 DEF Full
  <2>2. \A c \in batch' : c.pid \in StrataIds \ (reading.work \ {h}) /\ strata[c.pid].persisted
    BY <1>1, <1>3 DEF DrawSound
  <2>3. \A g \in StrataIds \ (reading.work \ {h}) :
          /\ reading.targets[g] >= Size(g) => Sampled(g) + NewRows(g)' >= Size(g)
          /\ strata[g].persisted /\ NeedsBanking(g) => HeldRows(g)' # {}
    BY <1>1, <1>3 DEF DrawSound
  <2>4. \A g \in reading.work \ {h} : g \in StrataIds /\ strata'[g].drawn = {}
    BY <1>1, <1>3 DEF DrawSound
  <2> QED
    BY <1>1, <1>2, <1>3, <1>4, <1>10, <2>1, <2>2, <2>3, <2>4 DEF DrawSound
<1>12. RoundsSound' /\ OutcomeSound'
  <2>1. RoundsSound'
    BY <1>1, <1>3, <1>4 DEF RoundsSound, RoundsWithinBudget
  <2>2. m.status = "none"
    BY <1>1, <1>3 DEF ControlSound
  <2> QED
    BY <1>1, <1>3, <2>1, <2>2 DEF OutcomeSound, NeverExhausted
<1>13. ReadsSound'
  <2>1. Qualifying' = Qualifying
    BY DEF Qualifying
  <2> QED
    BY <1>1, <1>3, <1>8, <2>1 DEF ReadsSound
<1>14. (\A g \in StrataIds : StratumSound(g))'
  BY <1>2
<1> QED
  BY <1>1, <1>2, <1>5, <1>6, <1>7, <1>9, <1>11, <1>12, <1>13, <1>14 DEF EngineInv, RootHoldsAll

\* The store's tracker of a persisted stratum names what has been folded.
LEMMA TrackedSample ==
  ASSUME EngineInv, NEW h \in StrataIds, strata[h].persisted
  PROVE  /\ SampleTracked(h) /\ store[h] \in Slot /\ h \in Ids /\ nodes[h].leaf
         /\ strata[h].body = PositionsOf(h) \ FlaggedIn(h)
         /\ store[h].population = Population(h)
         /\ store[h].tracker \subseteq strata[h].body
         /\ strata[h].drawn = {}
<1>1. h \in Ids
  BY DEF EngineInv, EngineTypeOK
<1>2. /\ nodes[h].leaf /\ strata[h].body = PositionsOf(h) \ FlaggedIn(h)
      /\ store[h].population = Population(h) /\ strata[h].drawn = {}
  BY DEF EngineInv, StratumSound
<1>3. SampleTracked(h) /\ store[h] \in Slot
  BY <1>1, <1>2 DEF EngineInv, IndexInv, StoreInv, StoreTypeOK, TrackerMatchesSample
<1> QED
  BY <1>1, <1>2, <1>3 DEF SampleTracked

\* Whatever the store holds, what is missing is eligible.
LEMMA WantedAreLeft ==
  ASSUME NEW size \in Nat, NEW sampled \in Nat, NEW target \in Nat, NEW left \in Nat,
         left = size - sampled, target >= size
  PROVE  LET wanted == IF target > sampled THEN target - sampled ELSE 0
             taken  == IF wanted < left THEN wanted ELSE left
         IN  sampled + taken >= size
OBVIOUS

LEMMA SkipStratumPreserves ==
  ASSUME EngineInv, NEW h \in StrataIds, SkipStratum(h)
  PROVE  EngineInv'
<1>1. /\ NextStratum(h) /\ Drawn(h) /\ Missing(reading.targets, h) = 0
      /\ ~(strata[h].persisted /\ NeedsBanking(h))
      /\ UNCHANGED answerVars /\ UNCHANGED <<phase, round, m>>
  BY DEF SkipStratum, answerVars
<1>2. IndexInv' /\ (\A g \in StrataIds : StratumSound(g)')
  <2>1. (\A g \in StrataIds : StratumSound(g))' /\ IndexInv'
    BY <1>1, SameAnswerPreserves DEF EngineInv
  <2> QED
    BY <1>1, <2>1, SameAnswer
<1>3. strata \in [StrataIds -> Stratum]
  BY DEF EngineInv, EngineTypeOK
<1>4. \A g \in StrataIds : /\ FoldedRows(g)' = FoldedRows(g)
                           /\ NewRows(g)' = NewRows(g) /\ HeldRows(g)' = HeldRows(g)
  BY <1>1, SameStrata, SameAnswer, SameIndex DEF FoldedRows, Trackers, RowsAt
<1>5. reading.targets[h] >= Size(h) => Sampled(h) + NewRows(h) >= Size(h)
  <2>1. h \in reading.work /\ phase = "draw"
    BY <1>1 DEF NextStratum
  <2>2. NewRows(h) = 0
    BY <2>1, NothingDrawnYet, FS_EmptySet DEF NewRows
  <2>3. DOMAIN reading.targets = StrataIds
    BY <2>1 DEF EngineInv, DrawSound
  <2>4. reading.targets[h] \in Nat
    BY <2>3 DEF EngineInv, EngineTypeOK
  <2>5. Sampled(h) \in Nat /\ Size(h) \in Nat
    BY SampledIsNat, SizesAreNat DEF EngineInv
  <2> QED
    BY <1>1, <2>2, <2>4, <2>5 DEF Missing
<1>6. /\ UNCHANGED <<tableVars, treeVars>> /\ crack' = crack /\ store' = store
      /\ strata' = strata /\ batch' = batch
      /\ UNCHANGED <<phase, request, todo, bucket, addback, total, round, m>>
  BY <1>1, SameAnswer
<1> QED
  BY <1>1, <1>2, <1>3, <1>4, <1>5, <1>6, TurnPreserves

\* A stratum whose sample is kept draws what its tracker has not seen.
LEMMA DrawPersistedPreserves ==
  ASSUME EngineInv, NEW h \in StrataIds, DrawPersisted(h)
  PROVE  EngineInv'
<1>1. /\ NextStratum(h) /\ Drawn(h) /\ strata[h].persisted
      /\ UNCHANGED <<phase, request, todo, strata, bucket, addback, total, round, m>>
  BY DEF DrawPersisted
<1>2. PICK picks \in Draws(h, Eligible(h)) : DrawReusable(h, picks)
  BY DEF DrawPersisted
<1>3. h \in reading.work /\ phase = "draw"
  BY <1>1 DEF NextStratum
<1>4. IndexInv /\ h \in Ids /\ store \in [Ids -> Slot]
  BY DEF EngineInv, EngineTypeOK, IndexInv, StoreInv, StoreTypeOK
<1>5. /\ picks \in SUBSET Eligible(h)
      /\ Cardinality(picks) = IF Missing(reading.targets, h) < Cardinality(Eligible(h))
                              THEN Missing(reading.targets, h) ELSE Cardinality(Eligible(h))
  BY <1>2 DEF Draws, kSubset
<1>6. IndexInv'
  BY <1>2, <1>4, <1>5, DrawReusablePreserves
<1>7. /\ UNCHANGED <<tableVars, treeVars>> /\ crack' = crack /\ UNCHANGED crackVars
      /\ store' = [store EXCEPT ![h].tracker = @ \union picks]
      /\ batch' = batch \union BodyCursor(h, picks) \union OutlierCursor(h)
  BY <1>2 DEF DrawReusable, crackVars
<1>8. /\ \A g \in Ids \ {h} : store'[g] = store[g]
      /\ store'[h] = [store[h] EXCEPT !.tracker = store[h].tracker \union picks]
  BY <1>4, <1>7, Zenon
<1>9. \A g \in Ids : /\ store'[g].population = store[g].population
                     /\ store'[g].sampledRows = store[g].sampledRows
                     /\ store'[g].outlierRows = store[g].outlierRows
                     /\ store'[g].materialized = store[g].materialized
                     /\ g # h => store'[g].tracker = store[g].tracker
  BY <1>4, <1>8 DEF Slot
<1>10. store'[h].tracker = store[h].tracker \union picks
  BY <1>4, <1>8 DEF Slot
<1>11. \A P : RowsAt(P)' = RowsAt(P)
  BY <1>7, SameIndex
<1>12. /\ \A g : g # h => RowsOfCursors(g, FALSE)' = RowsOfCursors(g, FALSE)
                         /\ RowsOfCursors(g, TRUE)' = RowsOfCursors(g, TRUE)
       /\ RowsOfCursors(h, FALSE)' = RowsAt(picks)
       /\ RowsOfCursors(h, TRUE)' = IF NeedsBanking(h) THEN RowsAt(FlaggedIn(h)) ELSE {}
  <2>1. \A c \in batch : c.pid # h
    BY <1>3, NothingDrawnYet
  <2>2. \A g, o : RowsOfCursors(g, o)' = UNION {c.rows : c \in {d \in batch' : d.pid = g /\ d.outlier = o}}
    BY DEF RowsOfCursors
  <2>3. \A c \in BodyCursor(h, picks) : c.pid = h /\ c.outlier = FALSE /\ c.rows = RowsAt(picks)
    BY DEF BodyCursor
  <2>4. \A c \in OutlierCursor(h) : c.pid = h /\ c.outlier = TRUE /\ c.rows = RowsAt(FlaggedIn(h))
    BY DEF OutlierCursor
  <2>5. ASSUME NEW g, g # h, NEW o
        PROVE  RowsOfCursors(g, o)' = RowsOfCursors(g, o)
    <3>1. {d \in batch' : d.pid = g /\ d.outlier = o} = {d \in batch : d.pid = g /\ d.outlier = o}
      BY <1>7, <2>3, <2>4, <2>5
    <3> QED
      BY <2>2, <3>1 DEF RowsOfCursors
  <2>6. {d \in batch' : d.pid = h /\ d.outlier = FALSE} = BodyCursor(h, picks)
    BY <1>7, <2>1, <2>3, <2>4
  <2>7. {d \in batch' : d.pid = h /\ d.outlier = TRUE} = OutlierCursor(h)
    BY <1>7, <2>1, <2>3, <2>4
  <2>8. UNION {c.rows : c \in BodyCursor(h, picks)} = RowsAt(picks)
    <3>1. CASE picks = {}
      BY <3>1 DEF BodyCursor, RowsAt
    <3>2. CASE picks # {}
      <4>1. \E c : c \in BodyCursor(h, picks)
        BY <3>2 DEF BodyCursor
      <4> QED
        BY <2>3, <4>1
    <3> QED
      BY <3>1, <3>2
  <2>9. UNION {c.rows : c \in OutlierCursor(h)} = IF NeedsBanking(h) THEN RowsAt(FlaggedIn(h)) ELSE {}
    <3>1. CASE ~NeedsBanking(h)
      BY <3>1 DEF OutlierCursor
    <3>2. CASE NeedsBanking(h)
      <4>1. \E c : c \in OutlierCursor(h)
        BY <3>2 DEF OutlierCursor
      <4> QED
        BY <2>4, <3>2, <4>1
    <3> QED
      BY <3>1, <3>2
  <2> QED
    BY <2>2, <2>5, <2>6, <2>7, <2>8, <2>9
<1>13. /\ StrataIds' = StrataIds
       /\ \A g \in StrataIds \ {h} : BodyRows(g)' = BodyRows(g) /\ HeldRows(g)' = HeldRows(g)
                                     /\ NewRows(g)' = NewRows(g)
       /\ BodyRows(h)' = RowsAt(picks)
       /\ HeldRows(h)' = IF NeedsBanking(h) THEN RowsAt(FlaggedIn(h)) ELSE {}
       /\ NewRows(h)' = Cardinality(RowsAt(picks))
  BY <1>1, <1>12 DEF BodyRows, HeldRows, NewRows, StrataIds
<1>14. /\ PositionsOf(h) \in SUBSET Positions /\ Eligible(h) \in SUBSET Positions
       /\ picks \in SUBSET Positions /\ store[h].tracker \in SUBSET Positions
       /\ picks \cap store[h].tracker = {}
       /\ strata[h].body = PositionsOf(h) \ FlaggedIn(h)
       /\ store[h].tracker \subseteq strata[h].body
       /\ Eligible(h) = strata[h].body \ store[h].tracker
  BY <1>1, <1>4, <1>5, PositionsInTable, TrackedSample DEF Eligible, IndexInv
<1>15. CrackInv
  BY <1>4 DEF IndexInv
<1>16. \A g \in StrataIds : FoldedRows(g)' = FoldedRows(g)
  <2>1. FoldedRows(h)' = FoldedRows(h)
    <3>1. FoldedRows(h)' = RowsAt(store[h].tracker \union picks) \ RowsAt(picks)
      BY <1>1, <1>10, <1>11, <1>13 DEF FoldedRows, Trackers
    <3>2. FoldedRows(h) = RowsAt(store[h].tracker)
      BY <1>1, <1>3, NothingDrawnYet DEF FoldedRows, Trackers
    <3> QED
      BY <1>14, <1>15, <3>1, <3>2, RowsAtSets
  <2>2. ASSUME NEW g \in StrataIds \ {h} PROVE FoldedRows(g)' = FoldedRows(g)
    <3>1. g \in Ids
      BY DEF EngineInv, EngineTypeOK
    <3>2. Trackers(g)' = Trackers(g)
      BY <1>1, <1>9, <3>1 DEF Trackers
    <3> QED
      BY <1>11, <1>13, <3>2 DEF FoldedRows
  <2> QED
    BY <2>1, <2>2
<1>17. \A g \in StrataIds : StratumSound(g)'
  <2>1. \A g \in StrataIds : StratumSound(g) /\ g \in Ids
    BY DEF EngineInv, EngineTypeOK
  <2>2. /\ nodes' = nodes
        /\ \A i : PositionsOf(i)' = PositionsOf(i) /\ FlaggedIn(i)' = FlaggedIn(i)
                  /\ Population(i)' = Population(i)
    BY <1>7, SameIndex
  <2> QED
    BY <1>1, <1>9, <1>11, <2>1, <2>2 DEF StratumSound
<1>18. reading.targets[h] >= Size(h) => Sampled(h) + NewRows(h)' >= Size(h)
  <2>1. /\ store[h].sampledRows = Cardinality(RowsAt(store[h].tracker))
        /\ Sampled(h) = store[h].sampledRows /\ Sampled(h) \in Nat /\ Size(h) \in Nat
    <3>1. RowsOfCursors(h, FALSE) = {}
      BY <1>3, NothingDrawnYet
    <3>2. store[h].sampledRows = Cardinality(RowsAt(store[h].tracker) \ {})
      BY <1>1, <3>1, TrackedSample DEF SampleTracked
    <3>3. RowsAt(store[h].tracker) \ {} = RowsAt(store[h].tracker)
      OBVIOUS
    <3> QED
      BY <1>1, <3>2, <3>3, SampledIsNat, SizesAreNat DEF Sampled, EngineInv
  <2>2. Cardinality(RowsAt(store[h].tracker)) = Cardinality(store[h].tracker)
    BY <1>14, <1>15, RowsAtCount
  <2>3. Cardinality(Eligible(h)) = Size(h) - Sampled(h)
    <3>1. IsFiniteSet(strata[h].body)
      BY SizesAreNat DEF EngineInv
    <3>2. strata[h].body \cap store[h].tracker = store[h].tracker
      BY <1>14
    <3>3. Cardinality(strata[h].body \ store[h].tracker) =
            Cardinality(strata[h].body) - Cardinality(store[h].tracker)
      BY <3>1, <3>2, FS_Difference
    <3> QED
      BY <1>14, <2>1, <2>2, <3>3 DEF Size
  <2>4. IsFiniteSet(Eligible(h)) /\ Cardinality(Eligible(h)) \in Nat
    BY <1>14, TableFinite, FS_Subset, FS_CardinalityType
  <2>5. NewRows(h)' = Cardinality(picks)
    BY <1>13, <1>14, <1>15, RowsAtCount
  <2>6. reading.targets[h] \in Nat
    <3>1. DOMAIN reading.targets = StrataIds
      BY <1>3 DEF EngineInv, DrawSound
    <3> QED
      BY <3>1 DEF EngineInv, EngineTypeOK
  <2> QED
    BY <1>5, <2>1, <2>3, <2>4, <2>5, <2>6, WantedAreLeft DEF Missing
<1>19. NeedsBanking(h) => HeldRows(h)' # {}
  <2>1. ASSUME NeedsBanking(h) PROVE RowsAt(FlaggedIn(h)) # {}
    <3>1. store[h].outlierRows > 0
      BY <2>1 DEF NeedsBanking
    <3>2. store[h].population > 0 /\ store[h].outlierRows = Cardinality(HeldOut(h))
      <4>1. SlotSound(h)
        BY <1>4 DEF IndexInv, StoreInv
      <4> QED
        BY <1>4, <3>1, <4>1 DEF SlotSound, Slot
    <3>3. HeldOut(h) # {}
      BY <3>1, <3>2, FS_EmptySet
    <3> QED
      BY <1>4, <1>15, <3>3, PartitionCount
  <2> QED
    BY <1>13, <2>1
<1>20. \A c \in batch' \ batch : c.pid = h
  BY <1>7 DEF BodyCursor, OutlierCursor
<1>21. strata' \in [StrataIds -> Stratum] /\ strata' = strata
  BY <1>1 DEF EngineInv, EngineTypeOK
<1>22. StrataIds \subseteq Ids
  BY DEF EngineInv, EngineTypeOK
<1> QED
  BY <1>1, <1>6, <1>7, <1>9, <1>13, <1>16, <1>17, <1>18, <1>19, <1>20, <1>21, <1>22, TurnPreserves

\* A stratum of this query alone draws what its own tracker has not seen.
LEMMA DrawQueryLocalPreserves ==
  ASSUME EngineInv, NEW h \in StrataIds, DrawQueryLocal(h)
  PROVE  EngineInv'
<1>1. /\ NextStratum(h) /\ Drawn(h) /\ ~strata[h].persisted
      /\ UNCHANGED <<indexVars, phase, request, todo, bucket, addback, total, round, m>>
  BY DEF DrawQueryLocal
<1>2. PICK picks \in Draws(h, Undrawn(h)) :
        strata' = [strata EXCEPT ![h].tracker = @ \union picks, ![h].drawn = RowsAt(picks)]
  BY DEF DrawQueryLocal
<1>3. h \in reading.work /\ phase = "draw"
  BY <1>1 DEF NextStratum
<1>4. /\ IndexInv /\ CrackInv /\ h \in Ids /\ strata \in [StrataIds -> Stratum]
      /\ strata[h] \in Stratum /\ StratumSound(h)
  BY DEF EngineInv, EngineTypeOK, IndexInv
<1>5. /\ picks \in SUBSET Undrawn(h)
      /\ Cardinality(picks) = IF Missing(reading.targets, h) < Cardinality(Undrawn(h))
                              THEN Missing(reading.targets, h) ELSE Cardinality(Undrawn(h))
  BY <1>2 DEF Draws, kSubset
<1>6. /\ UNCHANGED <<tableVars, treeVars>> /\ crack' = crack /\ UNCHANGED indexVars
      /\ store' = store /\ batch' = batch
      /\ UNCHANGED <<phase, request, todo, bucket, addback, total, round, m>>
  BY <1>1 DEF indexVars, crackVars, storeVars
<1>7. IndexInv'
  BY <1>4, <1>6, StoreIdlePreserves
<1>8. /\ \A g \in StrataIds \ {h} : strata'[g] = strata[g]
      /\ strata'[h] = [strata[h] EXCEPT !.tracker = strata[h].tracker \union picks,
                                       !.drawn = RowsAt(picks)]
      /\ StrataIds' = StrataIds
  BY <1>2, <1>4 DEF StrataIds
<1>9. /\ strata[h].body \in SUBSET Positions /\ Undrawn(h) \in SUBSET Positions
      /\ picks \in SUBSET Positions /\ strata[h].tracker \in SUBSET strata[h].body
      /\ strata[h].tracker \in SUBSET Positions
      /\ Undrawn(h) = strata[h].body \ strata[h].tracker
      /\ picks \cap strata[h].tracker = {} /\ picks \subseteq strata[h].body
  <2>1. strata[h].body \in SUBSET Positions /\ ~strata[h].persisted
    BY <1>1, <1>4 DEF Stratum
  <2>2. strata[h].tracker \in SUBSET strata[h].body
    BY <1>4, <2>1 DEF StratumSound
  <2>3. Undrawn(h) = strata[h].body \ strata[h].tracker
    BY <2>1 DEF Undrawn
  <2>4. picks \in SUBSET (strata[h].body \ strata[h].tracker)
    BY <1>5, <2>3
  <2> QED
    BY <2>1, <2>2, <2>3, <2>4
<1>10. RowsAt(picks) \in SUBSET RowIds
  BY <1>4, <1>9, RowsAtSets
<1>11. /\ strata'[h].persisted = strata[h].persisted /\ strata'[h].body = strata[h].body
       /\ strata'[h].sampled = strata[h].sampled /\ strata'[h].nonNan = strata[h].nonNan
       /\ strata'[h].tracker = strata[h].tracker \union picks
       /\ strata'[h].drawn = RowsAt(picks) /\ strata'[h] \in Stratum
  BY <1>4, <1>8, <1>9, <1>10, ZenonT(60) DEF Stratum
<1>12. strata' \in [StrataIds -> Stratum]
  <2>1. \A g \in StrataIds : strata'[g] \in Stratum
    BY <1>4, <1>8, <1>11
  <2>2. strata' = [g \in StrataIds |-> strata'[g]]
    BY <1>2, <1>4
  <2> QED
    BY <2>1, <2>2
<1>13. \A P : RowsAt(P)' = RowsAt(P)
  BY <1>6, SameIndex
<1>14. \A g, o : RowsOfCursors(g, o)' = RowsOfCursors(g, o)
  BY <1>6 DEF RowsOfCursors
<1>15. /\ \A g \in StrataIds \ {h} : /\ BodyRows(g)' = BodyRows(g)
                                    /\ HeldRows(g)' = HeldRows(g) /\ NewRows(g)' = NewRows(g)
       /\ BodyRows(h)' = RowsAt(picks) /\ NewRows(h)' = Cardinality(RowsAt(picks))
  BY <1>1, <1>8, <1>11, <1>14 DEF BodyRows, HeldRows, NewRows
<1>16. /\ RowsAt(strata[h].tracker \union picks) \ RowsAt(picks) = RowsAt(strata[h].tracker)
       /\ RowsAt(picks) \subseteq RowsAt(strata[h].tracker \union picks)
  <2>1. /\ RowsAt(strata[h].tracker \union picks) = RowsAt(strata[h].tracker) \union RowsAt(picks)
        /\ RowsAt(strata[h].tracker) \cap RowsAt(picks) = {}
    BY <1>4, <1>9, RowsAtSets
  <2> QED
    BY <2>1
<1>17. \A g \in StrataIds : FoldedRows(g)' = FoldedRows(g)
  <2>1. FoldedRows(h)' = RowsAt(strata[h].tracker \union picks) \ RowsAt(picks)
    BY <1>1, <1>11, <1>13, <1>15 DEF FoldedRows, Trackers
  <2>2. FoldedRows(h) = RowsAt(strata[h].tracker)
    BY <1>1, <1>3, NothingDrawnYet DEF FoldedRows, Trackers
  <2>3. \A g \in StrataIds \ {h} : FoldedRows(g)' = FoldedRows(g)
    BY <1>6, <1>8, <1>13, <1>15 DEF FoldedRows, Trackers
  <2> QED
    BY <1>16, <2>1, <2>2, <2>3
<1>18. \A g \in StrataIds : StratumSound(g)'
  <2>1. /\ nodes' = nodes
        /\ \A i : PositionsOf(i)' = PositionsOf(i) /\ FlaggedIn(i)' = FlaggedIn(i)
                  /\ Population(i)' = Population(i)
    BY <1>6, SameIndex
  <2>2. \A g \in StrataIds : StratumSound(g)
    BY DEF EngineInv
  <2>3. \A g \in StrataIds \ {h} : StratumSound(g)'
    BY <1>6, <1>8, <1>13, <2>1, <2>2 DEF StratumSound
  <2>4. /\ strata[h].sampled = Cardinality(RowsAt(strata[h].tracker))
        /\ strata[h].nonNan = Indicator(RowsAt(strata[h].tracker) \cap Present)
    <3>1. RowsAt(strata[h].tracker) \ strata[h].drawn = RowsAt(strata[h].tracker)
      BY <1>3, NothingDrawnYet
    <3>2. /\ strata[h].sampled = Cardinality(RowsAt(strata[h].tracker) \ strata[h].drawn)
          /\ strata[h].nonNan = Indicator((RowsAt(strata[h].tracker) \ strata[h].drawn) \cap Present)
      BY <1>1, <1>4 DEF StratumSound
    <3> QED
      BY <3>1, <3>2, Zenon
  <2>5. RowsAt(strata[h].tracker)' \ strata'[h].drawn = RowsAt(strata[h].tracker)
    BY <1>11, <1>13, <1>16
  <2>6. /\ strata[h].sampled = Cardinality(RowsAt(strata[h].tracker)' \ strata'[h].drawn)
        /\ strata[h].nonNan = Indicator((RowsAt(strata[h].tracker)' \ strata'[h].drawn) \cap Present)
    BY <2>4, <2>5, Zenon
  <2>7. /\ nodes'[h].leaf /\ strata'[h].body \subseteq PositionsOf(h)' \ FlaggedIn(h)'
        /\ strata'[h].tracker \subseteq strata'[h].body
        /\ strata'[h].drawn \subseteq RowsAt(strata[h].tracker)'
    BY <1>4, <1>9, <1>11, <1>13, <1>16, <2>1 DEF StratumSound
  <2>8. StratumSound(h)'
    BY <1>1, <1>11, <2>6, <2>7 DEF StratumSound
  <2> QED
    BY <2>3, <2>8
<1>19. reading.targets[h] >= Size(h) => Sampled(h) + NewRows(h)' >= Size(h)
  <2>1. Sampled(h) = Cardinality(RowsAt(strata[h].tracker))
    <3>1. RowsAt(strata[h].tracker) \ strata[h].drawn = RowsAt(strata[h].tracker)
      BY <1>3, NothingDrawnYet
    <3>2. strata[h].sampled = Cardinality(RowsAt(strata[h].tracker) \ strata[h].drawn)
      BY <1>1, <1>4 DEF StratumSound
    <3>3. Sampled(h) = strata[h].sampled
      BY <1>1 DEF Sampled
    <3> QED
      BY <3>1, <3>2, <3>3, Zenon
  <2>2. Cardinality(RowsAt(strata[h].tracker)) = Cardinality(strata[h].tracker)
    BY <1>4, <1>9, RowsAtCount
  <2>3. Cardinality(Undrawn(h)) = Size(h) - Sampled(h)
    <3>1. IsFiniteSet(strata[h].body)
      BY SizesAreNat DEF EngineInv
    <3>2. strata[h].body \cap strata[h].tracker = strata[h].tracker
      BY <1>9
    <3>3. Cardinality(strata[h].body \ strata[h].tracker) =
            Cardinality(strata[h].body) - Cardinality(strata[h].tracker)
      BY <3>1, <3>2, FS_Difference
    <3> QED
      BY <1>9, <2>1, <2>2, <3>3 DEF Size
  <2>4. Cardinality(Undrawn(h)) \in Nat
    BY <1>9, TableFinite, FS_Subset, FS_CardinalityType
  <2>5. NewRows(h)' = Cardinality(picks)
    BY <1>4, <1>9, <1>15, RowsAtCount
  <2>6. reading.targets[h] \in Nat
    <3>1. DOMAIN reading.targets = StrataIds
      BY <1>3 DEF EngineInv, DrawSound
    <3> QED
      BY <3>1 DEF EngineInv, EngineTypeOK
  <2>7. Sampled(h) \in Nat /\ Size(h) \in Nat
    BY SampledIsNat, SizesAreNat DEF EngineInv
  <2> QED
    BY <1>5, <2>3, <2>4, <2>5, <2>6, <2>7, WantedAreLeft DEF Missing
<1> QED
  <2>1. \A g \in StrataIds :
          /\ strata'[g].persisted = strata[g].persisted /\ strata'[g].body = strata[g].body
          /\ strata'[g].sampled = strata[g].sampled
    BY <1>8, <1>11
  <2>2. \A g \in StrataIds \ {h} : strata'[g].drawn = strata[g].drawn
    BY <1>8
  <2> QED
    BY <1>1, <1>6, <1>7, <1>12, <1>15, <1>17, <1>18, <1>19, <2>1, <2>2, TurnPreserves
-----------------------------------------------------------------------------
(* Strata and their rows.                                                  *)

\* Strata are leaves, and leaves share no row.
LEMMA StrataApart ==
  ASSUME EngineInv, NEW g \in StrataIds, NEW h \in StrataIds, g # h
  PROVE  RowsOf(g) \cap RowsOf(h) = {}
<1>1. /\ CrackInv /\ g \in Ids /\ h \in Ids /\ nodes[g].leaf /\ nodes[h].leaf
  BY DEF EngineInv, IndexInv, EngineTypeOK, StratumSound
<1>2. PositionsOf(g) \cap PositionsOf(h) = {}
  BY <1>1 DEF CrackInv, Nested
<1> QED
  BY <1>1, <1>2, PositionsInTable, RowsAtSets, ZenonT(60)

\* The rows of a stratum: its universe, apart from what is held out of it, and in
\* the universe what has been sampled, in flight or folded.
LEMMA StratumRows ==
  ASSUME EngineInv, NEW h \in StrataIds
  PROVE  /\ Universe(h) \subseteq RowsOf(h) /\ RowsOf(h) \subseteq RowIds
         /\ RowsAt(FlaggedIn(h)) \subseteq RowsOf(h)
         /\ Universe(h) \cap RowsAt(FlaggedIn(h)) = {}
         /\ HeldRows(h) \subseteq ToBank(h) /\ ToBank(h) \subseteq RowsAt(FlaggedIn(h))
         /\ BodyRows(h) \subseteq RowsAt(Trackers(h))
         /\ RowsAt(Trackers(h)) \subseteq Universe(h)
         /\ Trackers(h) \subseteq strata[h].body /\ strata[h].body \in SUBSET Positions
         /\ RowsAt(FlaggedIn(h)) = HeldOut(h)
<1>1. /\ IndexInv /\ CrackInv /\ h \in Ids /\ strata[h] \in Stratum /\ StratumSound(h)
  BY DEF EngineInv, EngineTypeOK, IndexInv
<1>2. /\ strata[h].body \in SUBSET Positions /\ strata[h].body \subseteq PositionsOf(h) \ FlaggedIn(h)
      /\ PositionsOf(h) \in SUBSET Positions /\ FlaggedIn(h) \in SUBSET PositionsOf(h)
      /\ FlaggedIn(h) \in SUBSET Positions /\ RowsOf(h) = RowsAt(PositionsOf(h))
      /\ RowsOf(h) \subseteq RowIds
  BY <1>1, PositionsInTable DEF StratumSound, Stratum
<1>3. /\ Universe(h) \subseteq RowsOf(h) /\ RowsAt(FlaggedIn(h)) \subseteq RowsOf(h)
      /\ Universe(h) \cap RowsAt(FlaggedIn(h)) = {}
  <2>1. strata[h].body \cap FlaggedIn(h) = {} /\ strata[h].body \subseteq PositionsOf(h)
    BY <1>2
  <2>2. RowsAt(strata[h].body) \subseteq RowsAt(PositionsOf(h))
    BY <2>1 DEF RowsAt
  <2>3. RowsAt(FlaggedIn(h)) \subseteq RowsAt(PositionsOf(h))
    BY <1>2 DEF RowsAt
  <2>4. RowsAt(strata[h].body) \cap RowsAt(FlaggedIn(h)) = {}
    BY <1>1, <1>2, <2>1, RowsAtSets
  <2> QED
    BY <1>2, <2>2, <2>3, <2>4 DEF Universe
<1>4. RowsAt(FlaggedIn(h)) = HeldOut(h)
  BY <1>1, PartitionCount
<1>5. HeldRows(h) \subseteq ToBank(h) /\ ToBank(h) \subseteq RowsAt(FlaggedIn(h))
  BY <1>1, <1>4, RowsInFlight DEF HeldRows, ToBank
<1>6. Trackers(h) \subseteq strata[h].body /\ BodyRows(h) \subseteq RowsAt(Trackers(h))
  <2>1. CASE strata[h].persisted
    BY <2>1, TrackedSample DEF SampleTracked, Trackers, BodyRows
  <2>2. CASE ~strata[h].persisted
    BY <1>1, <2>2 DEF StratumSound, Trackers, BodyRows
  <2> QED
    BY <2>1, <2>2
<1>7. RowsAt(Trackers(h)) \subseteq Universe(h)
  BY <1>2, <1>6 DEF RowsAt, Universe
<1> QED
  BY <1>2, <1>3, <1>4, <1>5, <1>6, <1>7

\* The moments of a stratum are those of the rows folded into it, each once.
LEMMA SampleIsFolded ==
  ASSUME EngineInv, NEW h \in StrataIds
  PROVE  /\ Sampled(h) = Cardinality(FoldedRows(h))
         /\ Moments(h) = Indicator(FoldedRows(h) \cap Present)
<1>1. CASE strata[h].persisted
  BY <1>1, TrackedSample DEF SampleTracked, Sampled, Moments, FoldedRows, Trackers, BodyRows
<1>2. CASE ~strata[h].persisted
  <2>1. StratumSound(h)
    BY DEF EngineInv
  <2> QED
    BY <1>2, <2>1 DEF StratumSound, Sampled, Moments, FoldedRows, Trackers, BodyRows
<1> QED
  BY <1>1, <1>2

\* Sizes are counted in rows as well as in positions.
LEMMA StratumSizes ==
  ASSUME EngineInv, NEW h \in StrataIds
  PROVE  /\ Size(h) = Cardinality(Universe(h)) /\ Size(h) \in Nat
         /\ Sampled(h) \in Nat
         /\ IsFiniteSet(Universe(h)) /\ IsFiniteSet(FoldedRows(h))
         /\ IsFiniteSet(BodyRows(h)) /\ NewRows(h) \in Nat
         /\ FoldedRows(h) \subseteq Universe(h)
         /\ Sampled(h) <= Size(h)
         /\ ReadInFull(h) <=> FoldedRows(h) = Universe(h)
<1>1. CrackInv
  BY DEF EngineInv, IndexInv
<1>2. Size(h) = Cardinality(Universe(h))
  BY <1>1, StratumRows, RowsAtCount DEF Size, Universe
<1>3. /\ Universe(h) \in SUBSET RowIds /\ FoldedRows(h) \subseteq Universe(h)
      /\ BodyRows(h) \in SUBSET RowIds /\ FoldedRows(h) \in SUBSET RowIds
  BY StratumRows DEF FoldedRows
<1>4. /\ IsFiniteSet(Universe(h)) /\ IsFiniteSet(FoldedRows(h)) /\ IsFiniteSet(BodyRows(h))
      /\ NewRows(h) \in Nat /\ Size(h) \in Nat /\ Sampled(h) \in Nat
  BY <1>2, <1>3, TableFinite, SampleIsFolded DEF NewRows
<1>5. Sampled(h) <= Size(h) /\ (Sampled(h) = Size(h) => FoldedRows(h) = Universe(h))
  BY <1>2, <1>3, <1>4, SampleIsFolded, FS_Subset
<1>6. FoldedRows(h) = Universe(h) => Sampled(h) = Size(h)
  BY <1>2, SampleIsFolded
<1> QED
  BY <1>2, <1>3, <1>4, <1>5, <1>6 DEF ReadInFull

\* A stratum with nothing to bank has no row to bank.
LEMMA NothingToBank ==
  ASSUME EngineInv, NEW h \in StrataIds, ~(strata[h].persisted /\ NeedsBanking(h))
  PROVE  ToBank(h) = {}
<1>1. CASE strata[h].persisted /\ ~store[h].materialized
  <2>1. /\ IndexInv /\ CrackInv /\ h \in Ids /\ store[h] \in Slot
        /\ store[h].population = Population(h) /\ SlotSound(h)
    BY <1>1, TrackedSample DEF EngineInv, IndexInv, StoreInv
  <2>2. store[h].outlierRows = 0
    BY <1>1, <2>1 DEF NeedsBanking, Slot
  <2>3. /\ RowsAt(FlaggedIn(h)) = HeldOut(h) /\ Population(h) \in Nat
        /\ Cardinality(RowsOf(h)) = Population(h)
        /\ HeldOut(h) \subseteq RowsOf(h) /\ RowsOf(h) \in SUBSET RowIds
    BY <2>1, PartitionCount, PositionsInTable DEF HeldOut
  <2>4. CASE Population(h) = 0
    <3>1. RowsOf(h) = {}
      BY <2>3, <2>4, TableFinite, FS_EmptySet
    <3> QED
      BY <2>3, <3>1 DEF ToBank
  <2>5. CASE Population(h) > 0
    <3>1. Cardinality(HeldOut(h)) = 0
      BY <2>1, <2>2, <2>5 DEF SlotSound
    <3>2. HeldOut(h) = {}
      BY <2>3, <3>1, TableFinite, FS_EmptySet
    <3> QED
      BY <2>3, <3>2 DEF ToBank
  <2> QED
    BY <2>3, <2>4, <2>5
<1> QED
  BY <1>1 DEF ToBank
-----------------------------------------------------------------------------
(* The end of a round.                                                     *)

\* Every stratum has had its turn.
LEMMA RoundReached ==
  ASSUME EngineInv, phase = "draw", reading.work = {}
  PROVE  /\ reading.targets = Full =>
              \A h \in StrataIds : Sampled(h) + NewRows(h) >= Size(h)
         /\ \A h \in StrataIds : strata[h].persisted /\ NeedsBanking(h) => HeldRows(h) # {}
         /\ \A h \in StrataIds : ToBank(h) = HeldRows(h)
         /\ reading.targets = Full \/ (~reading.escalated /\ reading.next = "loop")
         /\ DOMAIN reading.targets = StrataIds /\ reading.next \in {"exact", "loop", "terminal"}
         /\ m \in Metrics /\ m.cause = "none" /\ m.status = "none" /\ round \in Nat
         /\ todo = <<>> /\ addback = EmptyBag
<1>1. DrawSound /\ EngineTypeOK /\ ControlSound /\ OutcomeSound
  BY DEF EngineInv
<1>2. \A h \in StrataIds :
        /\ reading.targets[h] >= Size(h) => Sampled(h) + NewRows(h) >= Size(h)
        /\ strata[h].persisted /\ NeedsBanking(h) => HeldRows(h) # {}
  BY <1>1 DEF DrawSound
<1>3. ASSUME reading.targets = Full, NEW h \in StrataIds
      PROVE  Sampled(h) + NewRows(h) >= Size(h)
  BY <1>2, <1>3, StratumSizes DEF Full
<1>4. ASSUME NEW h \in StrataIds PROVE ToBank(h) = HeldRows(h)
  <2>1. CASE strata[h].persisted /\ NeedsBanking(h)
    <3>1. HeldRows(h) = HeldOut(h)
      BY <1>2, <2>1, TrackedSample, RowsInFlight DEF HeldRows, EngineInv
    <3>2. HeldRows(h) \subseteq ToBank(h) /\ ToBank(h) \subseteq HeldOut(h)
      BY StratumRows
    <3> QED
      BY <3>1, <3>2
  <2>2. CASE ~(strata[h].persisted /\ NeedsBanking(h))
    BY <2>2, NothingToBank, StratumRows
  <2> QED
    BY <2>1, <2>2
<1> QED
  BY <1>1, <1>2, <1>3, <1>4 DEF DrawSound, EngineTypeOK, ControlSound, OutcomeSound

LEMMA EmptyRoundPreserves ==
  ASSUME EngineInv, EmptyRound
  PROVE  EngineInv'
<1>1. /\ phase = "draw" /\ reading.work = {} /\ BatchEmpty
      /\ phase' = reading.next /\ reading' = NoRead /\ m' = m /\ round' = round
      /\ UNCHANGED answerVars
  BY DEF EmptyRound, answerVars
<1>2. /\ IndexInv /\ RootHoldsAll /\ EngineTypeOK /\ ControlSound /\ TodoSound
      /\ RowsSettled /\ ReadsSound /\ RoundsSound /\ OutcomeSound /\ DrawSound
      /\ \A h \in StrataIds : StratumSound(h)
  BY DEF EngineInv
<1>3. /\ IndexInv' /\ RootHoldsAll' /\ TodoSound'
      /\ (\A h \in StrataIds : StratumSound(h))' /\ RowsSettled'
  BY <1>1, <1>2, SameAnswerPreserves
<1>4. \A h \in StrataIds : BodyRows(h) = {} /\ HeldRows(h) = {} /\ NewRows(h) = 0
  BY <1>1, FS_EmptySet DEF BatchEmpty, NewRows
<1>5. ~Unmaterialized
  BY <1>1, <1>4, RoundReached DEF Unmaterialized
<1>6. reading.next # "loop" => EverythingRead
  <2>1. ASSUME reading.targets = Full, NEW h \in StrataIds PROVE ReadInFull(h)
    BY <1>1, <1>4, <2>1, RoundReached, StratumSizes DEF ReadInFull
  <2> QED
    BY <1>1, <2>1, RoundReached DEF EverythingRead
<1>7. batch = {}
  <2>1. ASSUME NEW c \in batch PROVE FALSE
    <3>1. c.pid \in StrataIds /\ strata[c.pid].persisted /\ c \in Cursor
      BY <1>1, <1>2 DEF DrawSound, IndexInv, StoreInv, StoreTypeOK
    <3>2. c.rows # {}
      BY <1>2 DEF IndexInv, StoreInv, BatchSound
    <3>3. c.rows \subseteq RowsOfCursors(c.pid, c.outlier) /\ c.outlier \in BOOLEAN
      BY <3>1 DEF RowsOfCursors, Cursor
    <3>4. RowsOfCursors(c.pid, FALSE) = {} /\ RowsOfCursors(c.pid, TRUE) = {}
      BY <1>4, <3>1 DEF BodyRows, HeldRows
    <3> QED
      BY <3>2, <3>3, <3>4
  <2> QED
    BY <2>1
<1>8. \A h \in StrataIds : strata[h].drawn = {}
  BY <1>2, <1>4 DEF StratumSound, BodyRows
<1>9. EngineTypeOK'
  BY <1>1, <1>2, SameAnswer DEF EngineTypeOK, Stratum, NoRead
<1>10. ControlSound'
  BY <1>1, <1>2, <1>7, <1>8, SameAnswer, RoundReached DEF ControlSound, Top
<1>11. DrawSound'
  BY <1>1, RoundReached DEF DrawSound
<1>12. RoundsSound'
  BY <1>1, <1>2, RoundReached DEF RoundsSound, RoundsWithinBudget
<1>13. OutcomeSound'
  BY <1>1, <1>2, <1>5, <1>6, SameOutlook, RoundReached DEF OutcomeSound, NeverExhausted
<1>14. ReadsSound'
  BY <1>1, <1>2, SameReads, RoundReached DEF SameCounts
<1> QED
  BY <1>3, <1>9, <1>10, <1>11, <1>12, <1>13, <1>14 DEF EngineInv

\* The rows of a round, over all strata.
BodyOfRound == UNION {BodyRows(h) : h \in StrataIds}
HeldOfRound == UNION {HeldRows(h) : h \in StrataIds}

\* What the fold does to the store, whether or not there were cursors to fold.
LEMMA FoldStore ==
  ASSUME EngineInv, FoldRound
  PROVE  /\ IndexInv' /\ batch' = {} /\ UNCHANGED <<tableVars, treeVars>> /\ crack' = crack
         /\ \A i \in Ids :
              /\ store'[i].population = store[i].population
              /\ store'[i].tracker = store[i].tracker
              /\ store'[i].outlierRows = store[i].outlierRows
              /\ store'[i].sampledRows = store[i].sampledRows
                                         + Cardinality(RowsOfCursors(i, FALSE))
              /\ store'[i].materialized <=> store[i].materialized \/ RowsOfCursors(i, TRUE) # {}
<1>1. IndexInv /\ store \in [Ids -> Slot]
  BY DEF EngineInv, IndexInv, StoreInv, StoreTypeOK
<1>2. CASE batch # {}
  <2>1. FoldBatch
    BY <1>2 DEF FoldRound
  <2>2. IndexInv'
    BY <1>1, <2>1, FoldBatchPreserves
  <2>3. /\ batch' = {} /\ UNCHANGED <<tableVars, treeVars>> /\ crack' = crack
        /\ \A i \in Ids : store'[i] = Folded(i)
    BY <2>1 DEF FoldBatch, crackVars
  <2>4. ASSUME NEW i \in Ids
        PROVE  /\ store'[i].population = store[i].population
               /\ store'[i].tracker = store[i].tracker
               /\ store'[i].outlierRows = store[i].outlierRows
               /\ store'[i].sampledRows = store[i].sampledRows
                                          + Cardinality(RowsOfCursors(i, FALSE))
               /\ store'[i].materialized <=> store[i].materialized \/ RowsOfCursors(i, TRUE) # {}
    <3>1. store[i] \in Slot /\ store'[i] = Folded(i)
      BY <1>1, <2>3
    <3> QED
      BY <3>1 DEF Folded, Slot
  <2> QED
    BY <2>2, <2>3, <2>4
<1>3. CASE batch = {}
  <2>1. UNCHANGED indexVars
    BY <1>3 DEF FoldRound
  <2>2. IndexInv'
    BY <1>1, <2>1, StoreIdlePreserves
  <2>3. /\ batch' = {} /\ UNCHANGED <<tableVars, treeVars>> /\ crack' = crack
        /\ store' = store
    BY <1>3, <2>1 DEF indexVars, crackVars, storeVars
  <2>4. \A i : RowsOfCursors(i, TRUE) = {} /\ RowsOfCursors(i, FALSE) = {}
    BY <1>3 DEF RowsOfCursors
  <2>5. \A i : Cardinality(RowsOfCursors(i, FALSE)) = 0
    BY <2>4, FS_EmptySet
  <2>6. ASSUME NEW i \in Ids
        PROVE  /\ store'[i].population = store[i].population
               /\ store'[i].tracker = store[i].tracker
               /\ store'[i].outlierRows = store[i].outlierRows
               /\ store'[i].sampledRows = store[i].sampledRows
                                          + Cardinality(RowsOfCursors(i, FALSE))
               /\ store'[i].materialized <=> store[i].materialized \/ RowsOfCursors(i, TRUE) # {}
    <3>1. store[i].sampledRows \in Nat
      BY <1>1 DEF Slot
    <3>2. store'[i].materialized <=> store[i].materialized \/ RowsOfCursors(i, TRUE) # {}
      BY <2>3, <2>4, Zenon
    <3>3. Cardinality(RowsOfCursors(i, FALSE)) = 0
      BY <2>5
    <3>4. store[i].sampledRows = store[i].sampledRows + Cardinality(RowsOfCursors(i, FALSE))
      <4>1. \A a \in Nat : \A c : c = 0 => a = a + c
        OBVIOUS
      <4> QED
        BY <3>1, <3>3, <4>1, Zenon
    <3> QED
      BY <2>3, <3>2, <3>4, Zenon
  <2> QED
    BY <2>2, <2>3, <2>6
<1> QED
  BY <1>2, <1>3

LEMMA FoldStrata ==
  ASSUME EngineInv, FoldRound
  PROVE  /\ StrataIds' = StrataIds /\ strata' \in [StrataIds -> Stratum]
         /\ \A h \in StrataIds :
              /\ strata'[h].persisted = strata[h].persisted
              /\ strata'[h].body = strata[h].body
              /\ strata'[h].tracker = strata[h].tracker
              /\ strata'[h].drawn = {}
              /\ strata'[h].sampled = strata[h].sampled + Cardinality(strata[h].drawn)
              /\ strata'[h].nonNan = Merged(strata[h].nonNan, strata[h].drawn)
<1>1. \A h \in StrataIds : /\ strata[h] \in Stratum
                            /\ Cardinality(strata[h].drawn) \in Nat
                            /\ Merged(strata[h].nonNan, strata[h].drawn) \in RowBag
  <2>1. \A h \in StrataIds : strata[h] \in Stratum
    BY DEF EngineInv, EngineTypeOK
  <2> QED
    BY <2>1, TableFinite DEF Stratum, Merged, RowBag
<1>2. strata' = [h \in StrataIds |-> [strata[h] EXCEPT
        !.sampled = @ + Cardinality(strata[h].drawn),
        !.nonNan  = Merged(@, strata[h].drawn),
        !.drawn   = {}]]
  BY DEF FoldRound
<1>3. StrataIds' = StrataIds
  BY <1>2 DEF StrataIds
<1>4. \A h \in StrataIds :
        /\ strata'[h].persisted = strata[h].persisted
        /\ strata'[h].body = strata[h].body
        /\ strata'[h].tracker = strata[h].tracker
        /\ strata'[h].drawn = {}
        /\ strata'[h].sampled = strata[h].sampled + Cardinality(strata[h].drawn)
        /\ strata'[h].nonNan = Merged(strata[h].nonNan, strata[h].drawn)
        /\ strata'[h] \in Stratum
  <2> SUFFICES ASSUME NEW h \in StrataIds
      PROVE  /\ strata'[h].persisted = strata[h].persisted
             /\ strata'[h].body = strata[h].body
             /\ strata'[h].tracker = strata[h].tracker
             /\ strata'[h].drawn = {}
             /\ strata'[h].sampled = strata[h].sampled + Cardinality(strata[h].drawn)
             /\ strata'[h].nonNan = Merged(strata[h].nonNan, strata[h].drawn)
             /\ strata'[h] \in Stratum
    OBVIOUS
  <2>1. /\ strata[h] \in Stratum
        /\ strata'[h] = [strata[h] EXCEPT
             !.sampled = strata[h].sampled + Cardinality(strata[h].drawn),
             !.nonNan  = Merged(strata[h].nonNan, strata[h].drawn),
             !.drawn   = {}]
    BY <1>1, <1>2
  <2>2. strata[h].sampled + Cardinality(strata[h].drawn) \in Nat /\ {} \in SUBSET RowIds
    BY <1>1, <2>1 DEF Stratum
  <2>3. PICK sampled \in Nat, nonNan \in RowBag :
          /\ sampled = strata[h].sampled + Cardinality(strata[h].drawn)
          /\ nonNan = Merged(strata[h].nonNan, strata[h].drawn)
    BY <1>1, <2>2
  <2>4. strata'[h] = [strata[h] EXCEPT !.sampled = sampled, !.nonNan = nonNan, !.drawn = {}]
    BY <2>1, <2>3
  <2>5. /\ strata'[h].persisted = strata[h].persisted /\ strata'[h].body = strata[h].body
        /\ strata'[h].tracker = strata[h].tracker /\ strata'[h].drawn = {}
        /\ strata'[h].sampled = sampled /\ strata'[h].nonNan = nonNan
        /\ strata'[h] \in Stratum
    BY <2>1, <2>2, <2>4 DEF Stratum
  <2> QED
    BY <2>3, <2>5
<1> QED
  BY <1>2, <1>3, <1>4

\* A round folds what it drew, so it gets where it set out to get.
LEMMA FoldReaches ==
  ASSUME EngineInv, FoldRound
  PROVE  /\ \A h \in StrataIds :
              /\ Size(h)' = Size(h) /\ Sampled(h)' = Sampled(h) + NewRows(h)
              /\ BodyRows(h)' = {} /\ Universe(h)' = Universe(h) /\ ToBank(h)' = {}
              /\ FoldedRows(h)' = RowsAt(Trackers(h))
         /\ ~Unmaterialized'
         /\ reading.targets = Full => EverythingRead'
<1>1. phase = "draw" /\ reading.work = {} /\ StrataIds \subseteq Ids
  BY DEF FoldRound, EngineInv, EngineTypeOK
<1>2. \A P : RowsAt(P)' = RowsAt(P)
  BY FoldStore, SameIndex
<1>3. \A h \in StrataIds : Size(h)' = Size(h) /\ Universe(h)' = Universe(h)
  BY <1>2, FoldStrata DEF Size, Universe
<1>4. \A h \in StrataIds : BodyRows(h)' = {}
  BY FoldStore, FoldStrata DEF BodyRows, RowsOfCursors
<1>5. \A h \in StrataIds : Sampled(h)' = Sampled(h) + NewRows(h)
  BY <1>1, FoldStore, FoldStrata DEF Sampled, NewRows, BodyRows
<1>6. \A h \in StrataIds : FoldedRows(h)' = RowsAt(Trackers(h))
  BY <1>1, <1>2, <1>4, FoldStore, FoldStrata DEF FoldedRows, Trackers
<1>7. \A h \in StrataIds : strata[h].persisted => ~NeedsBanking(h)'
  BY <1>1, FoldStore, RoundReached DEF NeedsBanking, HeldRows
<1>8. ~Unmaterialized'
  BY <1>7, FoldStrata DEF Unmaterialized
<1>9. ASSUME NEW h \in StrataIds PROVE ToBank(h)' = {}
  <2>1. CASE HeldRows(h) # {}
    BY <1>1, <2>1, FoldStore, FoldStrata DEF HeldRows, ToBank
  <2>2. CASE HeldRows(h) = {}
    <3>1. ToBank(h) = {}
      BY <1>1, <2>2, RoundReached
    <3>2. FlaggedIn(h)' = FlaggedIn(h)
      BY FoldStore, SameIndex
    <3> QED
      BY <1>1, <1>2, <3>1, <3>2, FoldStore, FoldStrata DEF ToBank
  <2> QED
    BY <2>1, <2>2
<1>10. ASSUME reading.targets = Full PROVE EverythingRead'
  BY <1>1, <1>3, <1>5, <1>10, RoundReached, FoldStrata DEF EverythingRead, ReadInFull
<1> QED
  BY <1>3, <1>4, <1>5, <1>6, <1>8, <1>9, <1>10

\* A bag that holds each row of a set once has the size of the set.
LEMMA IndicatorSize ==
  ASSUME NEW bag \in RowBag, NEW rows \in SUBSET RowIds,
         \A r \in RowIds : bag[r] = IF r \in rows THEN 1 ELSE 0
  PROVE  SumFunction(bag) = Cardinality(rows) /\ Cardinality(rows) \in Nat
<1> DEFINE U == [r \in RowIds |-> IF r \in rows THEN {r} ELSE {}]
<1>1. \A r \in RowIds : IsFiniteSet(U[r]) /\ bag[r] = Cardinality(U[r])
  <2> SUFFICES ASSUME NEW r \in RowIds PROVE IsFiniteSet(U[r]) /\ bag[r] = Cardinality(U[r])
    OBVIOUS
  <2>1. /\ IsFiniteSet({}) /\ Cardinality({}) = 0 /\ IsFiniteSet({r}) /\ Cardinality({r}) = 1
    BY FS_EmptySet, FS_Singleton
  <2>2. /\ r \in rows => U[r] = {r} /\ bag[r] = 1
        /\ r \notin rows => U[r] = {} /\ bag[r] = 0
    OBVIOUS
  <2> HIDE DEF U
  <2> QED
    BY <2>1, <2>2
<1>2. \A x, y \in RowIds : x # y => U[x] \cap U[y] = {}
  OBVIOUS
<1>3. UNION {U[r] : r \in RowIds} = rows
  OBVIOUS
<1> HIDE DEF U
<1>4. SumFunctionOnSet(bag, RowIds) = Cardinality(UNION {U[r] : r \in RowIds})
  <2>1. PICK S : S = RowIds
    OBVIOUS
  <2>2. IsFiniteSet(S)
    BY <2>1, TableFinite
  <2>3. /\ \A x \in S : IsFiniteSet(U[x]) /\ bag[x] = Cardinality(U[x])
        /\ \A x, y \in S : x # y => U[x] \cap U[y] = {}
    BY <1>1, <1>2, <2>1
  <2>4. SumFunctionOnSet(bag, S) = Cardinality(UNION {U[x] : x \in S})
    BY ONLY <2>2, <2>3, SumOfSizes
  <2> QED
    BY <2>1, <2>4
<1>5. DOMAIN bag = RowIds
  BY DEF RowBag
<1>6. SumFunction(bag) = SumFunctionOnSet(bag, RowIds)
  BY <1>5, Zenon DEF SumFunction
<1>7. SumFunction(bag) = Cardinality(rows)
  BY <1>3, <1>4, <1>6, Zenon
<1> QED
  BY <1>7, TableFinite

\* Rows added to a bag that then still holds none twice were not in it.
LEMMA RowsAdded ==
  ASSUME NEW old \in RowBag, NEW new \in RowBag, NEW rows \in SUBSET RowIds,
         \A r \in RowIds : new[r] = old[r] + Indicator(rows)[r] /\ new[r] <= 1
  PROVE  /\ SumFunction(old) \in Nat /\ Cardinality(rows) \in Nat
         /\ SumFunction(new) = SumFunction(old) + Cardinality(rows)
<1> DEFINE before == {r \in RowIds : old[r] = 1}
<1>1. ASSUME NEW r \in RowIds
      PROVE  /\ old[r] = IF r \in before THEN 1 ELSE 0
             /\ new[r] = IF r \in before \union rows THEN 1 ELSE 0
             /\ ~(r \in before /\ r \in rows)
  <2>1. old[r] \in Nat /\ new[r] = old[r] + (IF r \in rows THEN 1 ELSE 0) /\ new[r] <= 1
    BY DEF RowBag, Indicator
  <2> QED
    BY <2>1
<1>2. before \in SUBSET RowIds /\ before \cap rows = {} /\ before \union rows \in SUBSET RowIds
  BY <1>1
<1> HIDE DEF before
<1>3. /\ SumFunction(old) = Cardinality(before) /\ Cardinality(before) \in Nat
      /\ SumFunction(new) = Cardinality(before \union rows)
  BY <1>1, <1>2, IndicatorSize
<1>4. /\ IsFiniteSet(before) /\ IsFiniteSet(rows) /\ Cardinality(rows) \in Nat
  BY <1>2, TableFinite
<1>5. Cardinality(before \union rows)
        = Cardinality(before) + Cardinality(rows) - Cardinality(before \cap rows)
  BY ONLY <1>4, FS_Union
<1>6. Cardinality(before \cap rows) = 0
  BY <1>2, FS_EmptySet, Zenon
<1>7. Cardinality(before \union rows) = Cardinality(before) + Cardinality(rows)
  BY ONLY <1>3, <1>4, <1>5, <1>6
<1> QED
  BY <1>3, <1>4, <1>7

\* The rows fetched are counted one by one: strata share none.
LEMMA RowsForCounts ==
  ASSUME EngineInv, NEW H \in SUBSET StrataIds
  PROVE  /\ RowsFor(H) \in Nat
         /\ IsFiniteSet(H)
         /\ RowsFor(H) = Cardinality(UNION {BodyRows(h) : h \in H})
<1> DEFINE f == [h \in StrataIds |-> NewRows(h)]
           U == [h \in StrataIds |-> BodyRows(h)]
<1>1. IsFiniteSet(H)
  <2>1. IsFiniteSet(Ids) /\ H \subseteq Ids
    <3>1. nodeCount \in Nat
      BY DEF EngineInv, IndexInv, CrackInv, CrackTypeOK
    <3>2. IsFiniteSet(0 .. nodeCount - 1)
      BY <3>1, FS_Interval
    <3> QED
      BY <3>2 DEF Ids, EngineInv, EngineTypeOK
  <2> QED
    BY <2>1, FS_Subset
<1>2. /\ \A h \in H : IsFiniteSet(U[h]) /\ f[h] = Cardinality(U[h])
      /\ \A g, h \in H : g # h => U[g] \cap U[h] = {}
  <2>1. \A h \in H : IsFiniteSet(U[h]) /\ f[h] = Cardinality(U[h])
    BY StratumSizes DEF NewRows
  <2>2. ASSUME NEW g \in H, NEW h \in H, g # h PROVE U[g] \cap U[h] = {}
    <3>1. BodyRows(g) \subseteq RowsOf(g) /\ BodyRows(h) \subseteq RowsOf(h)
      BY StratumRows
    <3>2. RowsOf(g) \cap RowsOf(h) = {}
      BY <2>2, StrataApart
    <3> QED
      BY <3>1, <3>2
  <2> QED
    BY <2>1, <2>2
<1>3. SumFunctionOnSet(f, H) = Cardinality(UNION {U[h] : h \in H})
  <2> HIDE DEF f, U
  <2> QED
    BY <1>1, <1>2, SumOfSizes
<1>4. UNION {U[h] : h \in H} = UNION {BodyRows(h) : h \in H}
  OBVIOUS
<1>5. RowsFor(H) = Cardinality(UNION {BodyRows(h) : h \in H})
  <2>1. RowsFor(H) = SumFunctionOnSet(f, H)
    BY DEF RowsFor
  <2> HIDE DEF f, U
  <2> QED
    BY <1>3, <1>4, <2>1, Zenon
<1>6. UNION {BodyRows(h) : h \in H} \in SUBSET RowIds
  BY StratumRows
<1> QED
  BY <1>1, <1>5, <1>6, TableFinite

LEMMA RowsForSplit ==
  ASSUME EngineInv, NEW H \in SUBSET StrataIds
  PROVE  RowsFor(StrataIds) = RowsFor(H) + RowsFor(StrataIds \ H)
<1> DEFINE f == [h \in StrataIds |-> NewRows(h)]
<1>1. IsFiniteSet(H) /\ IsFiniteSet(StrataIds \ H)
  BY RowsForCounts
<1>2. \A h \in StrataIds : f[h] \in Nat
  BY StratumSizes
<1>3. H \cap (StrataIds \ H) = {} /\ H \union (StrataIds \ H) = StrataIds
  OBVIOUS
<1>4. \A S : RowsFor(S) = SumFunctionOnSet(f, S)
  BY DEF RowsFor
<1> HIDE DEF f
<1>5. NatValued(f, H \union (StrataIds \ H))
  BY <1>2 DEF NatValued
<1>6. SumFunctionOnSet(f, H \union (StrataIds \ H))
        = SumFunctionOnSet(f, H) + SumFunctionOnSet(f, StrataIds \ H)
  BY <1>1, <1>3, <1>5, SumUnion
<1>7. SumFunctionOnSet(f, H \union (StrataIds \ H)) = SumFunctionOnSet(f, StrataIds)
  BY <1>3, Zenon
<1> QED
  BY <1>4, <1>6, <1>7

\* A row is gathered for at most one stratum, as one of its body or held out of it.
LEMMA GatheredOnce ==
  ASSUME EngineInv, NEW r \in RowIds
  PROVE  Gathered(r) = Indicator(BodyOfRound)[r] + Indicator(HeldOfRound)[r]
<1> DEFINE B == {h \in StrataIds : r \in BodyRows(h)}
           H == {h \in StrataIds : r \in HeldRows(h)}
<1>1. \A h \in StrataIds : BodyRows(h) \subseteq RowsOf(h) /\ HeldRows(h) \subseteq RowsOf(h)
  BY StratumRows
<1>2. \A g, h \in StrataIds : r \in RowsOf(g) /\ r \in RowsOf(h) => g = h
  BY StrataApart
<1>3. ASSUME NEW S \in SUBSET StrataIds, \A h \in S : r \in RowsOf(h)
      PROVE  Cardinality(S) = IF S = {} THEN 0 ELSE 1
  <2>1. CASE S = {}
    BY <2>1, FS_EmptySet
  <2>2. CASE S # {}
    <3>1. PICK h \in S : S = {h}
      BY <1>2, <1>3, <2>2
    <3> QED
      BY <2>2, <3>1, FS_Singleton
  <2> QED
    BY <2>1, <2>2
<1>4. /\ B \in SUBSET StrataIds /\ \A h \in B : r \in RowsOf(h)
      /\ H \in SUBSET StrataIds /\ \A h \in H : r \in RowsOf(h)
      /\ B = {} <=> r \notin BodyOfRound
      /\ H = {} <=> r \notin HeldOfRound
  BY <1>1 DEF BodyOfRound, HeldOfRound
<1>5. Gathered(r) = Cardinality(B) + Cardinality(H)
  BY DEF Gathered
<1> HIDE DEF B, H
<1>6. /\ Cardinality(B) = IF r \in BodyOfRound THEN 1 ELSE 0
      /\ Cardinality(H) = IF r \in HeldOfRound THEN 1 ELSE 0
  BY <1>3, <1>4
<1> QED
  BY <1>5, <1>6 DEF Indicator

\* What a fold leaves to be read, and what it has read of what was left before.
LEMMA FoldLeaves ==
  ASSUME EngineInv, FoldRound
  PROVE  LET left(h) == Universe(h) \ RowsAt(Trackers(h))
             Left    == UNION {left(h) : h \in StrataIds}
         IN  /\ UNION {Unread(h) : h \in StrataIds}' = Left
             /\ UNION {Unread(h) : h \in StrataIds} = Left \union BodyOfRound \union HeldOfRound
             /\ Left \cap BodyOfRound = {} /\ (Left \union BodyOfRound) \cap HeldOfRound = {}
             /\ BodyOfRound \in SUBSET RowIds /\ HeldOfRound \in SUBSET RowIds
<1> DEFINE left(h) == Universe(h) \ RowsAt(Trackers(h))
           Left    == UNION {left(h) : h \in StrataIds}
           All     == UNION {Unread(h) : h \in StrataIds}
<1>1. /\ phase = "draw" /\ reading.work = {} /\ StrataIds' = StrataIds
  BY FoldStrata DEF FoldRound
<1>2. UNION {Unread(h) : h \in StrataIds}' = Left
  <2>1. \A h \in StrataIds : Unread(h)' = left(h)
    BY FoldReaches DEF Unread
  <2> QED
    BY <1>1, <2>1
<1>3. /\ All = Left \union BodyOfRound \union HeldOfRound
      /\ Left \cap BodyOfRound = {} /\ (Left \union BodyOfRound) \cap HeldOfRound = {}
      /\ Left \in SUBSET RowIds /\ BodyOfRound \in SUBSET RowIds /\ HeldOfRound \in SUBSET RowIds
  <2>1. ASSUME NEW h \in StrataIds
        PROVE  /\ Unread(h) = left(h) \union BodyRows(h) \union HeldRows(h)
               /\ left(h) \cap BodyRows(h) = {}
               /\ left(h) \union BodyRows(h) \subseteq Universe(h)
               /\ HeldRows(h) \subseteq RowsAt(FlaggedIn(h))
               /\ Universe(h) \subseteq RowsOf(h) /\ RowsAt(FlaggedIn(h)) \subseteq RowsOf(h)
               /\ Universe(h) \cap RowsAt(FlaggedIn(h)) = {} /\ RowsOf(h) \subseteq RowIds
    BY <1>1, StratumRows, RoundReached DEF Unread, FoldedRows
  <2>2. \A g, h \in StrataIds : g # h => RowsOf(g) \cap RowsOf(h) = {}
    BY StrataApart
  <2>3. All = Left \union BodyOfRound \union HeldOfRound
    BY <2>1 DEF BodyOfRound, HeldOfRound
  <2>4. Left \cap BodyOfRound = {}
    <3>1. ASSUME NEW g \in StrataIds, NEW h \in StrataIds
          PROVE  left(g) \cap BodyRows(h) = {}
      BY <2>1, <2>2
    <3> QED
      BY <3>1 DEF BodyOfRound
  <2>5. (Left \union BodyOfRound) \cap HeldOfRound = {}
    <3>1. ASSUME NEW g \in StrataIds, NEW h \in StrataIds
          PROVE  (left(g) \union BodyRows(g)) \cap HeldRows(h) = {}
      BY <2>1, <2>2
    <3> QED
      BY <3>1 DEF BodyOfRound, HeldOfRound
  <2>6. Left \in SUBSET RowIds /\ BodyOfRound \in SUBSET RowIds /\ HeldOfRound \in SUBSET RowIds
    BY <2>1 DEF BodyOfRound, HeldOfRound
  <2> QED
    BY <2>3, <2>4, <2>5, <2>6
<1> QED
  BY <1>2, <1>3

\* The bag of rows read after a fold.
LEMMA FoldReads ==
  ASSUME EngineInv, FoldRound, NEW reads,
         reads = [r \in RowIds |-> m.reads[r] + Gathered(r)]
  PROVE  /\ reads \in RowBag
         /\ \A r \in RowIds :
              reads[r] + Indicator(UNION {Unread(h) : h \in StrataIds}')[r]
                <= Indicator(Qualifying)[r]
         /\ Cardinality(BodyOfRound) \in Nat /\ Cardinality(HeldOfRound) \in Nat
         /\ SumFunction(m.reads) \in Nat
         /\ SumFunction(reads)
              = SumFunction(m.reads) + Cardinality(BodyOfRound) + Cardinality(HeldOfRound)
<1>1. m.reads \in RowBag /\ phase = "draw" /\ ReadsSound
  BY DEF EngineInv, EngineTypeOK, Metrics, FoldRound
<1>2. PICK Left : /\ UNION {Unread(h) : h \in StrataIds}' = Left
                  /\ UNION {Unread(h) : h \in StrataIds} = Left \union BodyOfRound \union HeldOfRound
                  /\ Left \cap BodyOfRound = {} /\ (Left \union BodyOfRound) \cap HeldOfRound = {}
                  /\ BodyOfRound \in SUBSET RowIds /\ HeldOfRound \in SUBSET RowIds
  BY FoldLeaves
<1> DEFINE Fetched == BodyOfRound \union HeldOfRound
<1>3. /\ Fetched \in SUBSET RowIds /\ BodyOfRound \cap HeldOfRound = {}
      /\ UNION {Unread(h) : h \in StrataIds} = Left \union Fetched /\ Left \cap Fetched = {}
  BY <1>2
<1>4. ASSUME NEW r \in RowIds
      PROVE  /\ reads[r] \in Nat /\ reads[r] = m.reads[r] + Indicator(Fetched)[r]
             /\ reads[r] + Indicator(Left)[r] <= Indicator(Qualifying)[r]
             /\ reads[r] <= 1
  <2>1. PICK b \in {0, 1}, h \in {0, 1}, f \in {0, 1}, l \in {0, 1}, q \in {0, 1}, a \in {0, 1} :
          /\ b = Indicator(BodyOfRound)[r] /\ h = Indicator(HeldOfRound)[r]
          /\ f = Indicator(Fetched)[r] /\ l = Indicator(Left)[r] /\ q = Indicator(Qualifying)[r]
          /\ a = Indicator(Left \union Fetched)[r]
    BY DEF Indicator
  <2>2. f = b + h /\ a = l + f
    <3> HIDE DEF Fetched
    <3>1. /\ b = IF r \in BodyOfRound THEN 1 ELSE 0
          /\ h = IF r \in HeldOfRound THEN 1 ELSE 0
          /\ f = IF r \in Fetched THEN 1 ELSE 0
          /\ l = IF r \in Left THEN 1 ELSE 0
          /\ a = IF r \in Left \union Fetched THEN 1 ELSE 0
      BY <2>1 DEF Indicator
    <3>2. r \in Fetched <=> (r \in BodyOfRound \/ r \in HeldOfRound)
      BY DEF Fetched
    <3> QED
      BY <1>3, <3>1, <3>2
  <2>3. PICK n \in Nat : n = m.reads[r]
    BY <1>1 DEF RowBag
  <2>4. reads[r] = n + (b + h)
    BY <2>1, <2>3, GatheredOnce
  <2>5. n + a <= q
    <3>1. m.reads[r] + Indicator(Left \union Fetched)[r] <= Indicator(Qualifying)[r]
      BY <1>1, <1>3 DEF ReadsSound
    <3> QED
      BY <2>1, <2>3, <3>1
  <2>6. PICK k : k = reads[r]
    OBVIOUS
  <2>7. /\ k \in Nat /\ k = n + f /\ k + l <= q /\ k <= 1
    BY <2>2, <2>4, <2>5, <2>6
  <2> QED
    BY <2>1, <2>3, <2>6, <2>7
<1> HIDE DEF Fetched
<1>5. reads \in RowBag
  BY <1>4 DEF RowBag
<1>6. /\ SumFunction(m.reads) \in Nat /\ SumFunction(reads) = SumFunction(m.reads) + Cardinality(Fetched)
  BY <1>1, <1>3, <1>4, <1>5, RowsAdded
<1>7. /\ IsFiniteSet(BodyOfRound) /\ IsFiniteSet(HeldOfRound)
      /\ Cardinality(BodyOfRound) \in Nat /\ Cardinality(HeldOfRound) \in Nat
  BY <1>2, TableFinite
<1>8. Cardinality(Fetched) = Cardinality(BodyOfRound) + Cardinality(HeldOfRound)
  <2>1. Cardinality(BodyOfRound \union HeldOfRound)
          = Cardinality(BodyOfRound) + Cardinality(HeldOfRound) - Cardinality(BodyOfRound \cap HeldOfRound)
    BY ONLY <1>7, FS_Union
  <2>2. Cardinality(BodyOfRound \cap HeldOfRound) = 0
    BY <1>3, FS_EmptySet, Zenon
  <2>3. Fetched = BodyOfRound \union HeldOfRound
    BY DEF Fetched
  <2> QED
    BY ONLY <1>7, <2>1, <2>2, <2>3
<1>9. \A r \in RowIds : reads[r] + Indicator(UNION {Unread(h) : h \in StrataIds}')[r]
                           <= Indicator(Qualifying)[r]
  BY <1>2, <1>4, Zenon
<1> QED
  BY <1>5, <1>6, <1>7, <1>8, <1>9

\* The counters after a fold.
LEMMA FoldMetrics ==
  ASSUME EngineInv, FoldRound
  PROVE  /\ m' \in Metrics /\ m'.status = "none"
         /\ m'.cause # "none" => reading.targets = Full
         /\ m'.reads = [r \in RowIds |-> m.reads[r] + Gathered(r)]
         /\ SumFunction(m'.reads) = m'.sampledRows + m'.exactifiedRows + m'.outlierRows
         /\ bucket' = Merged(bucket, HeldOfRound)
<1> DEFINE toFull == {h \in StrataIds : reading.targets[h] >= Size(h)}
<1>1. m \in Metrics /\ m.status = "none" /\ m.cause = "none" /\ round \in Nat
  BY RoundReached DEF FoldRound
<1>2. PICK paths \in Seq(Nat), cause \in {"none", "scan_cheaper_than_gather"} :
        /\ paths = IF OnDisk THEN Append(m.roundPaths, round) ELSE m.roundPaths
        /\ cause = IF reading.escalated THEN "scan_cheaper_than_gather" ELSE m.cause
  <2>1. m.roundPaths \in Seq(Nat)
    BY <1>1 DEF Metrics
  <2>2. (IF OnDisk THEN Append(m.roundPaths, round) ELSE m.roundPaths) \in Seq(Nat)
    BY <1>1, <2>1
  <2>3. (IF reading.escalated THEN "scan_cheaper_than_gather" ELSE m.cause)
          \in {"none", "scan_cheaper_than_gather"}
    BY <1>1
  <2> QED
    BY <2>2, <2>3, Zenon
<1>3. cause # "none" => reading.targets = Full
  BY <1>1, <1>2, RoundReached DEF FoldRound
<1>4. HeldOfRound \in SUBSET RowIds /\ Cardinality(HeldOfRound) \in Nat
  <2>1. HeldOfRound \in SUBSET RowIds
    BY StratumRows DEF HeldOfRound
  <2> QED
    BY <2>1, TableFinite
<1>5. PICK all \in Nat, full \in Nat, rest \in Nat, held \in Nat :
        /\ all = RowsFor(StrataIds) /\ full = RowsFor(toFull)
        /\ rest = RowsFor(StrataIds \ toFull)
        /\ held = Cardinality(HeldOfRound) /\ all = full + rest
        /\ all = Cardinality(BodyOfRound)
  <2>1. toFull \in SUBSET StrataIds /\ StrataIds \ toFull \in SUBSET StrataIds
        /\ StrataIds \in SUBSET StrataIds
    OBVIOUS
  <2>2. /\ RowsFor(StrataIds) \in Nat /\ RowsFor(toFull) \in Nat
        /\ RowsFor(StrataIds \ toFull) \in Nat
        /\ RowsFor(StrataIds) = Cardinality(BodyOfRound)
        /\ RowsFor(StrataIds) = RowsFor(toFull) + RowsFor(StrataIds \ toFull)
    <3> HIDE DEF toFull
    <3> QED
      BY <2>1, RowsForCounts, RowsForSplit DEF BodyOfRound
  <2> HIDE DEF toFull
  <2> QED
    BY <1>4, <2>2
<1>6. /\ bucket' = Merged(bucket, HeldOfRound)
      /\ m' = [m EXCEPT
              !.reads          = [r \in RowIds |-> @[r] + Gathered(r)],
              !.exactifiedRows = @ + RowsFor(toFull),
              !.sampledRows    = @ + RowsFor(StrataIds \ toFull),
              !.outlierRows    = @ + Cardinality(HeldOfRound),
              !.roundPaths     = IF OnDisk THEN Append(@, round) ELSE @,
              !.cause          = IF reading.escalated
                                 THEN "scan_cheaper_than_gather" ELSE @]
  BY Zenon DEF FoldRound, HeldOfRound
<1> HIDE DEF toFull
<1>7. PICK bag : bag = [r \in RowIds |-> m.reads[r] + Gathered(r)]
  OBVIOUS
<1>8. /\ bag \in RowBag /\ SumFunction(m.reads) \in Nat
      /\ SumFunction(bag) = SumFunction(m.reads) + all + held
  BY <1>5, <1>7, FoldReads
<1>9. m' = [m EXCEPT !.reads = bag,
                     !.exactifiedRows = m.exactifiedRows + full,
                     !.sampledRows = m.sampledRows + rest,
                     !.outlierRows = m.outlierRows + held,
                     !.roundPaths = paths, !.cause = cause]
  BY <1>2, <1>5, <1>6, <1>7
<1>10. PICK reads \in Nat, sampled \in Nat, exactified \in Nat, outliers \in Nat :
        /\ reads = SumFunction(m.reads) /\ sampled = m.sampledRows
        /\ exactified = m.exactifiedRows /\ outliers = m.outlierRows
        /\ reads = sampled + exactified + outliers
  <2>1. m.sampledRows \in Nat /\ m.exactifiedRows \in Nat /\ m.outlierRows \in Nat
    BY <1>1 DEF Metrics
  <2>2. SumFunction(m.reads) = m.sampledRows + m.exactifiedRows + m.outlierRows
    BY DEF EngineInv, ReadsSound
  <2> QED
    BY <1>8, <2>1, <2>2, Zenon
<1>11. /\ exactified + full \in Nat /\ sampled + rest \in Nat /\ outliers + held \in Nat
       /\ reads + all + held = (sampled + rest) + (exactified + full) + (outliers + held)
  <2>1. all = full + rest /\ reads = sampled + exactified + outliers
    BY <1>5, <1>10, Zenon
  <2> QED
    BY ONLY <2>1
<1>12. PICK b \in Nat, c \in Nat, d \in Nat :
         /\ b = exactified + full /\ c = sampled + rest /\ d = outliers + held
         /\ reads + all + held = c + b + d
  BY <1>11, Zenon
<1>13. m' = [m EXCEPT !.reads = bag, !.exactifiedRows = b, !.sampledRows = c,
                      !.outlierRows = d, !.roundPaths = paths, !.cause = cause]
  BY <1>9, <1>10, <1>12
<1>14. m' \in Metrics
  BY <1>1, <1>8, <1>13 DEF Metrics
<1>15. /\ m'.reads = bag /\ m'.exactifiedRows = b /\ m'.sampledRows = c
       /\ m'.outlierRows = d /\ m'.cause = cause /\ m'.status = m.status
  BY <1>1, <1>13 DEF Metrics
<1>16. SumFunction(m'.reads) = m'.sampledRows + m'.exactifiedRows + m'.outlierRows
  BY <1>8, <1>10, <1>12, <1>15, Zenon
<1> QED
  BY <1>1, <1>3, <1>6, <1>7, <1>14, <1>15, <1>16

LEMMA FoldRoundPreserves ==
  ASSUME EngineInv, FoldRound
  PROVE  EngineInv'
<1>1. /\ phase = "draw" /\ reading.work = {} /\ phase' = reading.next /\ reading' = NoRead
      /\ request' = request /\ todo' = todo /\ addback' = addback /\ total' = total
      /\ round' = round
  BY DEF FoldRound
<1>2. /\ IndexInv /\ RootHoldsAll /\ EngineTypeOK /\ ControlSound /\ TodoSound
      /\ RowsSettled /\ ReadsSound /\ RoundsSound /\ OutcomeSound /\ DrawSound
      /\ \A h \in StrataIds : StratumSound(h)
  BY DEF EngineInv
<1>3. /\ nodes' = nodes /\ Ids' = Ids /\ StrataIds' = StrataIds
      /\ \A i : /\ PositionsOf(i)' = PositionsOf(i) /\ RowsOf(i)' = RowsOf(i)
                /\ FlaggedIn(i)' = FlaggedIn(i) /\ Population(i)' = Population(i)
      /\ \A P : RowsAt(P)' = RowsAt(P)
  BY FoldStore, FoldStrata, SameIndex
<1>4. IndexInv' /\ RootHoldsAll'
  BY <1>2, <1>3, FoldStore DEF RootHoldsAll
<1>5. reading.next \in {"exact", "loop", "terminal"} /\ m.status = "none"
  BY <1>1, RoundReached
<1>6. bucket' \in RowBag /\ \A r \in RowIds :
        bucket'[r] = bucket[r] + (IF r \in HeldOfRound \cap Present THEN 1 ELSE 0)
  <2>1. bucket' = Merged(bucket, HeldOfRound) /\ bucket \in RowBag
    BY <1>2, FoldMetrics DEF EngineTypeOK
  <2> QED
    BY <2>1 DEF Merged, RowBag
<1>7. EngineTypeOK'
  BY <1>1, <1>2, <1>3, <1>5, <1>6, FoldStrata, FoldMetrics DEF EngineTypeOK, NoRead, Stratum
<1>8. ControlSound'
  BY <1>1, <1>2, <1>3, <1>5, FoldStore, FoldStrata, FoldMetrics DEF ControlSound, Top
<1>9. TodoSound' /\ Settled' = Settled
  BY <1>1, <1>2, <1>3, TodoKept
<1>10. (\A h \in StrataIds : StratumSound(h))'
  <2> SUFFICES ASSUME NEW h \in StrataIds PROVE StratumSound(h)'
    BY <1>3
  <2>1. h \in Ids /\ StratumSound(h) /\ strata[h] \in Stratum
    BY <1>2 DEF EngineTypeOK
  <2>2. CASE strata[h].persisted
    BY <1>3, <2>1, <2>2, FoldStore, FoldStrata DEF StratumSound
  <2>3. CASE ~strata[h].persisted
    <3>1. /\ strata[h].tracker \subseteq strata[h].body /\ strata[h].drawn \subseteq RowsAt(strata[h].tracker)
          /\ strata[h].sampled = Cardinality(RowsAt(strata[h].tracker) \ strata[h].drawn)
          /\ strata[h].nonNan = Indicator((RowsAt(strata[h].tracker) \ strata[h].drawn) \cap Present)
          /\ nodes[h].leaf /\ strata[h].body \subseteq PositionsOf(h) \ FlaggedIn(h)
      BY <2>1, <2>3 DEF StratumSound
    <3>2. PICK all, drawn, kept :
            /\ all = RowsAt(strata[h].tracker) /\ drawn = strata[h].drawn /\ kept = all \ drawn
            /\ all \in SUBSET RowIds /\ drawn \subseteq all
      <4>1. RowsAt(strata[h].tracker) \in SUBSET RowIds
        BY <2>3, StratumRows DEF Trackers
      <4> QED
        BY <3>1, <4>1
    <3>3. Cardinality(kept) + Cardinality(drawn) = Cardinality(all)
      <4>1. IsFiniteSet(all) /\ IsFiniteSet(drawn) /\ Cardinality(all) \in Nat /\ Cardinality(drawn) \in Nat
        BY <3>2, TableFinite
      <4>2. Cardinality(all \ drawn) = Cardinality(all) - Cardinality(all \cap drawn)
        BY ONLY <4>1, FS_Difference
      <4>3. all \cap drawn = drawn
        BY <3>2
      <4>4. Cardinality(kept) = Cardinality(all) - Cardinality(drawn)
        BY <3>2, <4>2, <4>3, Zenon
      <4> QED
        BY ONLY <4>1, <4>4
    <3>4. Merged(Indicator(kept \cap Present), drawn) = Indicator(all \cap Present)
      <4>1. kept \in SUBSET RowIds /\ drawn \in SUBSET RowIds /\ kept \cap drawn = {}
        BY <3>2
      <4>2. Merged(Indicator(kept \cap Present), drawn) = Indicator((kept \union drawn) \cap Present)
        BY <4>1, MergedBag
      <4>3. kept \union drawn = all
        BY <3>2
      <4> QED
        BY <4>2, <4>3
    <3>5. strata'[h].sampled = Cardinality(all) /\ strata'[h].nonNan = Indicator(all \cap Present)
      <4>1. strata[h].sampled = Cardinality(kept) /\ strata[h].nonNan = Indicator(kept \cap Present)
        BY <3>1, <3>2, Zenon
      <4>2. /\ strata'[h].sampled = strata[h].sampled + Cardinality(strata[h].drawn)
            /\ strata'[h].nonNan = Merged(strata[h].nonNan, strata[h].drawn)
        BY FoldStrata
      <4> QED
        BY <3>2, <3>3, <3>4, <4>1, <4>2
    <3>6. RowsAt(strata[h].tracker)' \ strata'[h].drawn = all
      BY <1>3, <3>2, FoldStrata
    <3>7. /\ strata'[h].sampled = Cardinality(RowsAt(strata[h].tracker)' \ strata'[h].drawn)
          /\ strata'[h].nonNan = Indicator((RowsAt(strata[h].tracker)' \ strata'[h].drawn) \cap Present)
      BY <3>5, <3>6, Zenon
    <3>8. /\ ~strata'[h].persisted /\ nodes'[h].leaf /\ strata'[h].drawn \subseteq RowsAt(strata[h].tracker)'
          /\ strata'[h].body \subseteq PositionsOf(h)' \ FlaggedIn(h)'
          /\ strata'[h].tracker \subseteq strata'[h].body
      BY <1>3, <2>3, <3>1, FoldStrata
    <3> QED
      BY <3>7, <3>8 DEF StratumSound
  <2> QED
    BY <2>2, <2>3
<1>11. RowsSettled'
  <2>1. UNION {Universe(h) : h \in StrataIds}' = UNION {Universe(h) : h \in StrataIds}
    BY <1>3, FoldReaches
  <2>2. UNION {ToBank(h) : h \in StrataIds}' = {}
    BY <1>3, FoldReaches
  <2>3. UNION {ToBank(h) : h \in StrataIds} = HeldOfRound
    BY <1>1, RoundReached DEF HeldOfRound
  <2>4. /\ bucket \in RowBag /\ addback \in RowBag
    BY <1>2 DEF EngineTypeOK
  <2>5. ASSUME NEW r \in RowIds
        PROVE  /\ Counted(r)' <= Indicator(Settled)[r]
               /\ r \in Present    => bucket'[r] + Counted(r)' = Indicator(Settled)[r]
               /\ r \notin Present => bucket'[r] = 0
    <3>1. PICK u \in {0, 1}, b \in {0, 1}, s \in {0, 1} :
            /\ u = Indicator(UNION {Universe(h) : h \in StrataIds})[r]
            /\ b = Indicator(HeldOfRound)[r] /\ s = Indicator(Settled)[r]
      BY DEF Indicator
    <3>2. b = IF r \in HeldOfRound THEN 1 ELSE 0
      BY <3>1 DEF Indicator
    <3>3. Indicator({})[r] = 0
      BY DEF Indicator
    <3>4. Counted(r) = addback[r] + u + b
      BY <2>3, <3>1 DEF Counted
    <3>5. Counted(r)' = addback[r] + u + 0
      BY <1>1, <2>1, <2>2, <3>1, <3>3 DEF Counted
    <3>6. bucket[r] \in Nat /\ addback[r] \in Nat
      BY <2>4 DEF RowBag
    <3>7. /\ Counted(r) <= s /\ (r \in Present => bucket[r] + Counted(r) = s)
          /\ (r \notin Present => bucket[r] = 0)
      BY <1>2, <3>1 DEF RowsSettled
    <3>8. bucket'[r] = bucket[r] + (IF r \in Present THEN b ELSE 0)
      BY <1>6, <3>2, <3>6
    <3>9. PICK ad \in Nat, bk \in Nat : ad = addback[r] /\ bk = bucket[r]
      BY <3>6
    <3>10. /\ ad + u + b <= s /\ (r \in Present => bk + (ad + u + b) = s)
           /\ (r \notin Present => bk = 0)
      BY <3>4, <3>7, <3>9, Zenon
    <3>11. /\ ad + u + 0 <= s
           /\ r \in Present => bk + b + (ad + u + 0) = s
           /\ r \notin Present => bk + 0 = 0
      BY <3>10
    <3>12. Counted(r)' = ad + u + 0 /\ bucket'[r] = bk + (IF r \in Present THEN b ELSE 0)
      BY <3>5, <3>8, <3>9, Zenon
    <3>13. /\ r \in Present => bucket'[r] = bk + b
           /\ r \notin Present => bucket'[r] = bk + 0
      BY <3>12, Zenon
    <3> QED
      BY <3>1, <3>11, <3>12, <3>13, Zenon
  <2> QED
    BY <1>1, <1>2, <1>9, <2>5 DEF RowsSettled
<1>12. DrawSound'
  BY <1>1, <1>5 DEF DrawSound
<1>13. RoundsSound'
  BY <1>1, <1>2, <1>5 DEF RoundsSound, RoundsWithinBudget
<1>14. OutcomeSound'
  <2>1. reading.next # "loop" => reading.targets = Full
    BY <1>1, RoundReached
  <2> QED
    BY <1>1, <1>5, <2>1, FoldReaches, FoldMetrics DEF OutcomeSound, NeverExhausted
<1>15. ReadsSound'
  <2>1. Qualifying' = Qualifying
    BY <1>1 DEF Qualifying
  <2>2. \A r \in RowIds :
          m'.reads[r] + Indicator(UNION {Unread(h) : h \in StrataIds}')[r]
            <= Indicator(Qualifying)[r]
    BY FoldMetrics, FoldReads
  <2> QED
    BY <1>1, <1>5, <2>1, <2>2, FoldMetrics DEF ReadsSound
<1> QED
  BY <1>4, <1>7, <1>8, <1>9, <1>10, <1>11, <1>12, <1>13, <1>14, <1>15 DEF EngineInv
-----------------------------------------------------------------------------
(* A new query.                                                            *)

LEMMA NothingSummed ==
  /\ \A r \in RowIds : EmptyBag[r] = 0 /\ Indicator({})[r] = 0
  /\ EmptyBag \in RowBag /\ Cardinality({}) = 0
  /\ SumFunction(EmptyBag) = 0
<1>1. /\ \A r \in RowIds : EmptyBag[r] = 0 /\ Indicator({})[r] = 0
      /\ EmptyBag \in RowBag /\ Cardinality({}) = 0
  BY FS_EmptySet DEF EmptyBag, Indicator, RowBag
<1>2. {} \in SUBSET RowIds /\ \A r \in RowIds : EmptyBag[r] = IF r \in {} THEN 1 ELSE 0
  BY <1>1
<1>3. SumFunction(EmptyBag) = Cardinality({})
  BY <1>1, <1>2, IndicatorSize
<1> QED
  BY <1>1, <1>3

\* Nothing is settled when a descent starts, for the root holds every row.
LEMMA ExecutePreserves ==
  ASSUME EngineInv, NEW rect \in Queries, NEW exact \in ExactRequests, Execute(rect, exact)
  PROVE  EngineInv'
<1>1. /\ phase = "idle" /\ phase' = "descend" /\ request' = [rect |-> rect, exact |-> exact]
      /\ todo' = <<0>> /\ strata' = NoStrata /\ bucket' = EmptyBag /\ addback' = EmptyBag
      /\ total' = 0 /\ round' = 0 /\ reading' = NoRead /\ m' = NoMetrics
      /\ UNCHANGED indexVars
  BY DEF Execute
<1>2. /\ IndexInv /\ RootHoldsAll /\ EngineTypeOK /\ ControlSound
  BY DEF EngineInv
<1>3. /\ UNCHANGED <<tableVars, treeVars>> /\ crack' = crack /\ store' = store /\ batch' = batch
  BY <1>1 DEF indexVars, crackVars, storeVars
<1>4. /\ nodes' = nodes /\ Ids' = Ids /\ \A i : RowsOf(i)' = RowsOf(i)
  BY <1>3, SameIndex
<1>5. IndexInv' /\ RootHoldsAll'
  BY <1>1, <1>2, <1>4, StoreIdlePreserves DEF RootHoldsAll
<1>6. StrataIds' = {}
  BY <1>1 DEF StrataIds, NoStrata
<1>7. 0 \in Ids /\ rect \in Rect /\ exact \in BOOLEAN
  BY <1>2 DEF IndexInv, CrackInv, CrackTypeOK, Ids
<1>8. EngineTypeOK'
  <2>1. todo' \in Seq(Ids')
    BY <1>1, <1>4, <1>7
  <2>2. strata' \in [StrataIds' -> Stratum]
    BY <1>1, <1>6 DEF NoStrata
  <2>3. m' \in Metrics
    BY <1>1, NothingSummed DEF NoMetrics, Metrics
  <2>4. /\ DOMAIN reading'.targets \subseteq Ids
        /\ reading' \in [targets : [DOMAIN reading'.targets -> Nat], work : SUBSET Ids,
                         escalated : BOOLEAN, next : {"exact", "loop", "terminal"}]
    BY <1>1 DEF NoRead
  <2> QED
    BY <1>1, <1>4, <1>6, <1>7, <2>1, <2>2, <2>3, <2>4, NothingSummed DEF EngineTypeOK
<1>9. ControlSound'
  BY <1>1, <1>2, <1>3, <1>6 DEF ControlSound, NoMetrics
<1>10. Pending' = {0} /\ AllDifferent(todo)'
  BY <1>1 DEF Pending, AllDifferent
<1>11. TodoSound'
  <2>1. PendingApart'
    BY <1>6, <1>10 DEF PendingApart
  <2>2. (TodoSound <=> AllDifferent(todo) /\ PendingApart)'
    BY TodoByIds, PTL
  <2> QED
    BY <1>10, <2>1, <2>2
<1>12. Settled' = {}
  <2>1. (\A r : Waiting(r) <=> \E j \in Pending : r \in RowsOf(j))'
    BY TodoByIds, PTL
  <2>2. \A r \in RowIds : Waiting(r)'
    BY <1>2, <1>4, <1>10, <2>1 DEF RootHoldsAll
  <2> QED
    BY <2>2 DEF Settled, Qualifying
<1>13. RowsSettled'
  <2>1. /\ UNION {Universe(h) : h \in StrataIds}' = {}
        /\ UNION {ToBank(h) : h \in StrataIds}' = {}
    BY <1>6
  <2>2. \A r \in RowIds : Counted(r)' = 0 /\ Indicator(Settled')[r] = 0
    <3>1. Indicator(Settled') = Indicator({})
      BY <1>12, Zenon
    <3>2. /\ Indicator(UNION {Universe(h) : h \in StrataIds}') = Indicator({})
          /\ Indicator(UNION {ToBank(h) : h \in StrataIds}') = Indicator({})
      BY <2>1, Zenon
    <3>3. \A r : Counted(r)' = addback'[r]
                 + Indicator(UNION {Universe(h) : h \in StrataIds}')[r]
                 + Indicator(UNION {ToBank(h) : h \in StrataIds}')[r]
      BY DEF Counted
    <3> QED
      BY <1>1, <3>1, <3>2, <3>3, NothingSummed
  <2>3. total' = Cardinality(Settled')
    BY <1>1, <1>12, NothingSummed
  <2> QED
    BY <1>1, <2>2, <2>3, NothingSummed DEF RowsSettled
<1>14. (\A h \in StrataIds : StratumSound(h))'
  BY <1>6
<1>15. DrawSound' /\ RoundsSound' /\ OutcomeSound'
  <2>1. DrawSound' /\ RoundsSound'
    BY <1>1 DEF DrawSound, RoundsSound, RoundsWithinBudget, Larger
  <2> QED
    BY <1>1, <2>1 DEF OutcomeSound, NeverExhausted, NoMetrics
<1>16. ReadsSound'
  BY <1>1, NothingSummed DEF ReadsSound, NoMetrics
<1> QED
  BY <1>5, <1>8, <1>9, <1>11, <1>13, <1>14, <1>15, <1>16 DEF EngineInv

LEMMA EngineStutterPreserves ==
  ASSUME EngineInv, UNCHANGED engineVars
  PROVE  EngineInv'
<1>1. UNCHANGED answerVars /\ UNCHANGED <<phase, round, reading, m>>
  BY DEF engineVars, queryVars, answerVars
<1>2. /\ IndexInv /\ RootHoldsAll /\ EngineTypeOK /\ ControlSound /\ TodoSound
      /\ RowsSettled /\ ReadsSound /\ RoundsSound /\ OutcomeSound /\ DrawSound
      /\ \A h \in StrataIds : StratumSound(h)
  BY DEF EngineInv
<1>3. /\ IndexInv' /\ RootHoldsAll' /\ TodoSound'
      /\ (\A h \in StrataIds : StratumSound(h))' /\ RowsSettled'
  BY <1>1, <1>2, SameAnswerPreserves
<1>4. EngineTypeOK'
  BY <1>1, <1>2, SameAnswer DEF EngineTypeOK, Stratum
<1>5. ControlSound'
  BY <1>1, <1>2, SameAnswer DEF ControlSound, Top
<1>6. DrawSound'
  BY <1>1, <1>2, SameAnswer, SameStrata, SameOutlook DEF DrawSound
<1>7. RoundsSound'
  BY <1>1, <1>2 DEF RoundsSound, RoundsWithinBudget
<1>8. OutcomeSound'
  BY <1>1, <1>2, SameOutlook DEF OutcomeSound, NeverExhausted
<1>9. ReadsSound'
  <2>1. CASE phase \in {"descend", "refine"}
    BY <1>1, <1>2, <2>1 DEF ReadsSound
  <2>2. CASE phase \notin {"descend", "refine"}
    BY <1>1, <1>2, <2>2, SameReads DEF SameCounts
  <2> QED
    BY <2>1, <2>2
<1> QED
  BY <1>3, <1>4, <1>5, <1>6, <1>7, <1>8, <1>9 DEF EngineInv
-----------------------------------------------------------------------------
(* The descent: what every step of it keeps.                               *)

LEMMA PopSequence ==
  ASSUME NEW S, NEW s \in Seq(S), s # <<>>, AllDifferent(s)
  PROVE  /\ Tail(s) \in Seq(S) /\ AllDifferent(Tail(s))
         /\ {Tail(s)[k] : k \in DOMAIN Tail(s)} = {s[k] : k \in DOMAIN s} \ {Head(s)}
         /\ Head(s) \in {s[k] : k \in DOMAIN s} /\ Head(s) \in S
<1>1. PICK n \in Nat : n = Len(s) /\ n > 0
  OBVIOUS
<1>2. /\ DOMAIN s = 1 .. n /\ DOMAIN Tail(s) = 1 .. n - 1 /\ Head(s) = s[1]
      /\ \A k \in 1 .. n - 1 : Tail(s)[k] = s[k + 1]
      /\ Tail(s) \in Seq(S) /\ s[1] \in S
  BY <1>1
<1>3. AllDifferent(Tail(s))
  BY <1>1, <1>2 DEF AllDifferent
<1>4. ASSUME NEW x \in {Tail(s)[k] : k \in DOMAIN Tail(s)}
      PROVE  x \in {s[k] : k \in DOMAIN s} \ {Head(s)}
  BY <1>1, <1>2 DEF AllDifferent
<1>5. ASSUME NEW x \in {s[k] : k \in DOMAIN s} \ {Head(s)}
      PROVE  x \in {Tail(s)[k] : k \in DOMAIN Tail(s)}
  <2>1. PICK k \in 1 .. n : x = s[k] /\ k # 1
    BY <1>2
  <2>2. k - 1 \in 1 .. n - 1 /\ Tail(s)[k - 1] = s[k]
    BY <1>1, <1>2, <2>1
  <2> QED
    BY <1>2, <2>1, <2>2
<1>6. Head(s) \in {s[k] : k \in DOMAIN s} /\ Head(s) \in S
  <2>1. 1 \in DOMAIN s
    BY <1>1, <1>2
  <2> QED
    BY <1>2, <2>1
<1>7. {Tail(s)[k] : k \in DOMAIN Tail(s)} = {s[k] : k \in DOMAIN s} \ {Head(s)}
  BY <1>4, <1>5, Zenon
<1> QED
  BY <1>2, <1>3, <1>6, <1>7

Entries(s)      == {s[k] : k \in DOMAIN s}
Pushed(l, r, s) == <<l, r>> \o s

LEMMA PushSequence ==
  ASSUME NEW S, NEW s \in Seq(S), AllDifferent(s), NEW l \in S, NEW r \in S, l # r,
         l \notin Entries(s), r \notin Entries(s),
         NEW t, t = Pushed(l, r, s)
  PROVE  /\ t \in Seq(S) /\ AllDifferent(t)
         /\ Entries(t) = Entries(s) \union {l, r}
<1>0. /\ l \notin {s[k] : k \in DOMAIN s} /\ r \notin {s[k] : k \in DOMAIN s}
      /\ t = <<l, r>> \o s
  BY Zenon DEF Entries, Pushed
<1>1. PICK n \in Nat : n = Len(s)
  OBVIOUS
<1>2. t \in Seq(S)
  <2>1. <<l, r>> \in Seq(S)
    OBVIOUS
  <2>2. <<l, r>> \o s \in Seq(S)
    BY <2>1
  <2> QED
    BY <1>0, <2>2
<1>3. /\ DOMAIN s = 1 .. n /\ DOMAIN t = 1 .. n + 2 /\ t[1] = l /\ t[2] = r
      /\ \A k \in 3 .. n + 2 : t[k] = s[k - 2]
  <2>1. Len(t) = n + 2 /\ t[1] = l /\ t[2] = r
    BY <1>0, <1>1, <1>2
  <2>2. \A k \in 3 .. n + 2 : t[k] = s[k - 2]
    BY <1>0, <1>1, <1>2
  <2> QED
    BY <1>1, <2>1, <2>2
<1>4. AllDifferent(t)
  <2>1. \A k \in 3 .. n + 2 : k - 2 \in 1 .. n /\ t[k] \notin {l, r}
    <3>1. \A k \in 3 .. n + 2 : k - 2 \in 1 .. n /\ t[k] = s[k - 2]
      BY <1>1, <1>3
    <3>2. \A k \in 1 .. n : s[k] \notin {l, r}
      BY <1>0, <1>3
    <3> QED
      BY ONLY <3>1, <3>2
  <2>2. \A j, k \in 3 .. n + 2 : j # k => t[j] # t[k]
    <3>1. /\ \A k \in 3 .. n + 2 : k - 2 \in 1 .. n /\ t[k] = s[k - 2]
          /\ \A j, k \in 1 .. n : j # k => s[j] # s[k]
      BY <1>3, <2>1 DEF AllDifferent
    <3>2. \A j, k \in 3 .. n + 2 : j # k => j - 2 # k - 2
      BY ONLY <1>1
    <3> QED
      BY ONLY <3>1, <3>2
  <2>3. \A k \in 1 .. n + 2 : k = 1 \/ k = 2 \/ k \in 3 .. n + 2
    BY <1>1
  <2> QED
    BY <1>3, <2>1, <2>2, <2>3 DEF AllDifferent
<1>5. {t[k] : k \in DOMAIN t} \subseteq {s[k] : k \in DOMAIN s} \union {l, r}
  <2>1. ASSUME NEW k \in 1 .. n + 2 PROVE t[k] \in {s[j] : j \in 1 .. n} \union {l, r}
    <3>1. k = 1 \/ k = 2 \/ (k \in 3 .. n + 2 /\ k - 2 \in 1 .. n)
      BY <1>1
    <3> QED
      BY <1>3, <3>1
  <2>2. {s[k] : k \in DOMAIN s} = {s[j] : j \in 1 .. n} /\ DOMAIN t = 1 .. n + 2
    BY <1>3
  <2> QED
    BY <2>1, <2>2, Zenon
<1>6. {s[k] : k \in DOMAIN s} \union {l, r} \subseteq {t[k] : k \in DOMAIN t}
  <2>1. ASSUME NEW j \in 1 .. n PROVE \E k \in 1 .. n + 2 : t[k] = s[j]
    <3>1. j + 2 \in 3 .. n + 2 /\ (j + 2) - 2 = j /\ j + 2 \in 1 .. n + 2
      BY <1>1
    <3>2. t[j + 2] = s[j]
      BY <1>3, <3>1
    <3> QED
      BY <3>1, <3>2
  <2>2. 1 \in DOMAIN t /\ 2 \in DOMAIN t
    BY <1>1, <1>3
  <2>3. DOMAIN s = 1 .. n /\ DOMAIN t = 1 .. n + 2 /\ t[1] = l /\ t[2] = r
    BY <1>3
  <2>4. ASSUME NEW x \in {s[k] : k \in DOMAIN s} \union {l, r}
        PROVE  x \in {t[k] : k \in DOMAIN t}
    <3>1. CASE x \in {l, r}
      BY <2>2, <2>3, <3>1
    <3>2. CASE x \in {s[k] : k \in DOMAIN s}
      <4>1. PICK j \in 1 .. n : x = s[j]
        BY <2>3, <3>2
      <4>2. PICK k \in DOMAIN t : t[k] = s[j]
        BY <2>1, <2>3
      <4> QED
        BY <4>1, <4>2
    <3> QED
      BY <3>1, <3>2
  <2> QED
    BY <2>4
<1>7. Entries(t) = Entries(s) \union {l, r}
  BY <1>5, <1>6, Zenon DEF Entries
<1> QED
  BY <1>2, <1>4, <1>7, Zenon

\* Where a descent stands.
Descending == phase \in {"descend", "refine"} /\ todo # <<>>

LEMMA TopFacts ==
  ASSUME EngineInv, Descending
  PROVE  /\ Top \in Ids /\ Top \in Pending /\ Top \notin StrataIds
         /\ todo \in Seq(Ids) /\ Tail(todo) \in Seq(Ids)
         /\ AllDifferent(todo) /\ PendingApart /\ Pending \subseteq Ids
         /\ AllDifferent(Tail(todo))
         /\ {Tail(todo)[k] : k \in DOMAIN Tail(todo)} = Pending \ {Top}
         /\ request.rect \in Queries /\ request.rect \in Rect
         /\ batch = {} /\ reading = NoRead /\ round = 0
         /\ m.status = "none" /\ m.cause = "none"
         /\ \A h \in StrataIds : strata[h].drawn = {}
<1>1. EngineTypeOK /\ ControlSound /\ TodoSound /\ RoundsSound /\ OutcomeSound
  BY DEF EngineInv
<1>2. AllDifferent(todo) /\ PendingApart
  BY <1>1, TodoByIds
<1>3. todo \in Seq(Ids) /\ todo # <<>>
  BY <1>1 DEF EngineTypeOK, Descending
<1>4. /\ Tail(todo) \in Seq(Ids) /\ AllDifferent(Tail(todo))
      /\ {Tail(todo)[k] : k \in DOMAIN Tail(todo)} = Pending \ {Top}
      /\ Top \in Pending /\ Top \in Ids
  BY <1>2, <1>3, PopSequence DEF Pending, Top
<1>5. Pending \subseteq Ids
  BY <1>3 DEF Pending
<1>6. Top \notin StrataIds
  BY <1>2, <1>4 DEF PendingApart
<1>7. /\ request.rect \in Queries /\ batch = {} /\ reading = NoRead /\ m.status = "none"
      /\ \A h \in StrataIds : strata[h].drawn = {}
  BY <1>1 DEF ControlSound, Descending
<1>8. round = 0 /\ m.cause = "none"
  BY <1>1 DEF RoundsSound, OutcomeSound, Descending
<1> QED
  BY <1>2, <1>3, <1>4, <1>5, <1>6, <1>7, <1>8

\* What a step of the descent may do to the index: nothing a stratum relies on.
IndexKept ==
  /\ CrackInv' /\ [CrackNext]_crackVars
  /\ \A h \in StrataIds : /\ nodes'[h].leaf
                          /\ store'[h].population = store[h].population
                          /\ (store'[h].materialized <=> store[h].materialized)
  /\ batch' = batch /\ request' = request

LEMMA StrataKept ==
  ASSUME EngineInv, Descending, IndexKept, NEW h \in StrataIds, strata'[h] = strata[h]
  PROVE  StratumSound(h)' /\ Universe(h)' = Universe(h) /\ ToBank(h)' = ToBank(h)
<1>1. CrackInv /\ h \in Ids /\ StratumSound(h) /\ strata[h] \in Stratum
  BY DEF EngineInv, IndexInv, EngineTypeOK
<1>2. /\ nodes'[h].leaf /\ CrackInv' /\ [CrackNext]_crackVars
      /\ store'[h].population = store[h].population
      /\ (store'[h].materialized <=> store[h].materialized)
  BY DEF IndexKept
<1>3. /\ PositionsOf(h)' = PositionsOf(h) /\ FlaggedIn(h)' = FlaggedIn(h)
      /\ Population(h)' = Population(h)
      /\ RowsAt(FlaggedIn(h))' = RowsAt(FlaggedIn(h))
      /\ \A P \in SUBSET PositionsOf(h) : RowsAt(P)' = RowsAt(P)
  BY <1>1, <1>2, StepKeepsPartition
<1>4. strata[h].body \in SUBSET PositionsOf(h) /\ strata[h].body \subseteq PositionsOf(h) \ FlaggedIn(h)
  BY <1>1 DEF StratumSound
<1>5. RowsAt(strata[h].body)' = RowsAt(strata[h].body)
  BY <1>3, <1>4
<1>6. Universe(h)' = Universe(h) /\ ToBank(h)' = ToBank(h)
  BY <1>2, <1>3, <1>5 DEF Universe, ToBank
<1>7. StratumSound(h)'
  <2>1. CASE strata[h].persisted
    BY <1>1, <1>2, <1>3, <2>1 DEF StratumSound
  <2>2. CASE ~strata[h].persisted
    <3>1. strata[h].tracker \in SUBSET PositionsOf(h)
      BY <1>1, <2>2 DEF StratumSound
    <3>2. RowsAt(strata[h].tracker)' = RowsAt(strata[h].tracker)
      BY <1>3, <3>1
    <3> QED
      BY <1>1, <1>2, <1>3, <2>2, <3>2 DEF StratumSound
  <2> QED
    BY <2>1, <2>2
<1> QED
  BY <1>6, <1>7

\* The parts of the invariant that say what is not in use during a descent.
LEMMA DescentControl ==
  ASSUME EngineInv, Descending, IndexKept, IndexInv',
         phase' \in {"descend", "refine"}, UNCHANGED <<round, reading, m>>,
         crack'.on <=> phase' = "refine",
         phase' = "refine" => todo' # <<>> /\ crack'.leaf = Head(todo'),
         todo' \in Seq(Ids'), StrataIds' \subseteq Ids', strata' \in [StrataIds' -> Stratum],
         \A h \in StrataIds' : strata'[h].drawn = {},
         bucket' \in RowBag, addback' \in RowBag, total' \in Nat
  PROVE  /\ RootHoldsAll' /\ EngineTypeOK' /\ ControlSound'
         /\ DrawSound' /\ RoundsSound' /\ OutcomeSound' /\ ReadsSound'
<1>1. /\ IndexInv /\ CrackInv /\ RootHoldsAll /\ EngineTypeOK /\ ControlSound /\ ReadsSound
      /\ OutcomeSound
  BY DEF EngineInv, IndexInv
<1>2. CrackInv' /\ [CrackNext]_crackVars /\ batch' = batch /\ request' = request
  BY DEF IndexKept
<1>3. RootHoldsAll'
  <2>1. 0 \in Ids
    BY <1>1 DEF CrackInv, CrackTypeOK, Ids
  <2>2. RowsOf(0)' = RowsOf(0)
    BY <1>1, <1>2, <2>1, StepKeepsRows
  <2> QED
    BY <1>1, <2>2 DEF RootHoldsAll
<1>4. EngineTypeOK'
  <2>1. reading' = NoRead /\ NoRead.targets = [h \in {} |-> 0]
    BY TopFacts DEF NoRead
  <2>2. /\ DOMAIN reading'.targets \subseteq Ids'
        /\ reading' \in [targets : [DOMAIN reading'.targets -> Nat], work : SUBSET Ids',
                         escalated : BOOLEAN, next : {"exact", "loop", "terminal"}]
    BY <2>1 DEF NoRead
  <2> QED
    BY <1>1, <1>2, <2>2 DEF EngineTypeOK
<1>5. ControlSound'
  BY <1>1, <1>2, TopFacts DEF ControlSound, Top
<1>6. DrawSound' /\ RoundsSound'
  BY TopFacts DEF DrawSound, RoundsSound, RoundsWithinBudget, Larger
<1>7. OutcomeSound'
  BY <1>1, TopFacts DEF OutcomeSound, NeverExhausted
<1>8. ReadsSound'
  BY <1>1 DEF ReadsSound, Descending
<1> QED
  BY <1>3, <1>4, <1>5, <1>6, <1>7, <1>8

\* Steps that settle nothing: what is still to be visited holds the same rows.
LEMMA ProceedPreserves ==
  ASSUME EngineInv, Descending, IndexKept, IndexInv',
         phase' \in {"descend", "refine"},
         UNCHANGED <<strata, bucket, addback, total, round, reading, m>>,
         crack'.on <=> phase' = "refine",
         phase' = "refine" => todo' # <<>> /\ crack'.leaf = Head(todo'),
         todo' \in Seq(Ids'), TodoSound', Settled' = Settled
  PROVE  EngineInv'
<1>1. /\ IndexInv /\ CrackInv /\ EngineTypeOK /\ RowsSettled
  BY DEF EngineInv, IndexInv
<1>2. StrataIds' = StrataIds /\ Ids \subseteq Ids' /\ StrataIds' \subseteq Ids'
  <2>1. \A j \in Ids : j \in Ids'
    BY <1>1, StepKeepsRows DEF IndexKept
  <2> QED
    BY <1>1, <2>1 DEF EngineTypeOK, StrataIds
<1>3. /\ RootHoldsAll' /\ EngineTypeOK' /\ ControlSound'
      /\ DrawSound' /\ RoundsSound' /\ OutcomeSound' /\ ReadsSound'
  BY <1>1, <1>2, TopFacts, DescentControl DEF EngineTypeOK
<1>4. \A h \in StrataIds : StratumSound(h)' /\ Universe(h)' = Universe(h) /\ ToBank(h)' = ToBank(h)
  BY StrataKept
<1>5. RowsSettled'
  <2>1. /\ UNION {Universe(h) : h \in StrataIds}' = UNION {Universe(h) : h \in StrataIds}
        /\ UNION {ToBank(h) : h \in StrataIds}' = UNION {ToBank(h) : h \in StrataIds}
    BY <1>2, <1>4
  <2>2. \A r : Counted(r)' = Counted(r)
    BY <2>1 DEF Counted
  <2> QED
    BY <1>1, <2>2 DEF RowsSettled
<1>6. (\A h \in StrataIds : StratumSound(h))'
  BY <1>2, <1>4
<1> QED
  BY <1>3, <1>5, <1>6 DEF EngineInv

\* What the top of the descent holds of the rectangle.
TopMatches == Qualifying \cap RowsOf(Top)

LEMMA TopSettles ==
  ASSUME EngineInv, Descending, IndexKept, todo' = Tail(todo),
         StrataIds' \subseteq StrataIds \union {Top}
  PROVE  /\ TodoSound' /\ todo' \in Seq(Ids')
         /\ Settled' = Settled \union TopMatches /\ Settled \cap TopMatches = {}
         /\ Cardinality(Settled') = Cardinality(Settled) + Cardinality(TopMatches)
<1>1. CrackInv /\ StrataIds \subseteq Ids
  BY DEF EngineInv, IndexInv, EngineTypeOK
<1>2. \A j \in Ids : RowsOf(j)' = RowsOf(j) /\ j \in Ids'
  BY <1>1, StepKeepsRows DEF IndexKept
<1>3. Pending' = Pending \ {Top} /\ AllDifferent(todo)' /\ todo' \in Seq(Ids')
  <2>1. Pending' = {Tail(todo)[k] : k \in DOMAIN Tail(todo)} /\ AllDifferent(todo') /\ todo' \in Seq(Ids)
    BY TopFacts DEF Pending
  <2>2. Ids \subseteq Ids'
    BY <1>2
  <2>3. todo' \in Seq(Ids')
    BY <2>1, <2>2
  <2> QED
    BY <2>1, <2>3, TopFacts
<1>4. TodoSound'
  <2>1. PendingApart'
    <3>1. \A i, j \in Pending' : i # j => RowsOf(i)' \cap RowsOf(j)' = {}
      BY <1>2, <1>3, TopFacts DEF PendingApart
    <3>2. \A h \in StrataIds', j \in Pending' : h # j /\ RowsOf(h)' \cap RowsOf(j)' = {}
      BY <1>1, <1>2, <1>3, TopFacts DEF PendingApart
    <3> QED
      BY <3>1, <3>2 DEF PendingApart
  <2>2. (TodoSound <=> AllDifferent(todo) /\ PendingApart)'
    BY TodoByIds, PTL
  <2> QED
    BY <1>3, <2>1, <2>2
<1>5. \A r : Waiting(r)' <=> \E j \in Pending \ {Top} : r \in RowsOf(j)
  <2>1. (\A r : Waiting(r) <=> \E j \in Pending : r \in RowsOf(j))'
    BY TodoByIds, PTL
  <2> QED
    BY <1>2, <1>3, <2>1, TopFacts
<1>6. \A r : Waiting(r) <=> \E j \in Pending : r \in RowsOf(j)
  BY TodoByIds
<1>7. Qualifying' = Qualifying /\ Qualifying \subseteq RowIds
  BY DEF Qualifying, IndexKept
<1>8. \A j \in Pending \ {Top} : RowsOf(j) \cap RowsOf(Top) = {}
  BY TopFacts DEF PendingApart
<1>9. Settled' = Settled \union TopMatches /\ Settled \cap TopMatches = {}
  BY <1>5, <1>6, <1>7, <1>8, TopFacts DEF Settled, TopMatches
<1>10. Cardinality(Settled') = Cardinality(Settled) + Cardinality(TopMatches)
  <2>1. /\ Settled \in SUBSET RowIds /\ TopMatches \in SUBSET RowIds
    BY <1>7 DEF Settled, TopMatches
  <2>2. /\ IsFiniteSet(Settled) /\ IsFiniteSet(TopMatches)
        /\ Cardinality(Settled) \in Nat /\ Cardinality(TopMatches) \in Nat
    BY <2>1, TableFinite
  <2>3. Cardinality(Settled \union TopMatches)
          = Cardinality(Settled) + Cardinality(TopMatches) - Cardinality(Settled \cap TopMatches)
    BY ONLY <2>2, FS_Union
  <2>4. Cardinality(Settled \cap TopMatches) = 0
    BY <1>9, FS_EmptySet, Zenon
  <2>5. Cardinality(Settled \union TopMatches) = Cardinality(Settled) + Cardinality(TopMatches)
    BY ONLY <2>2, <2>3, <2>4
  <2> QED
    BY <1>9, <2>5, Zenon
<1> QED
  BY <1>3, <1>4, <1>9, <1>10

\* Steps that settle the top: its rows of the rectangle go to the exact bucket, to
\* the rows to add back, to the universe of a new stratum or to what is banked
\* with it, each row to one of them.
Settles(added, universe, banked, direct, held) ==
  /\ IndexKept /\ IndexInv' /\ phase' = "descend" /\ ~crack'.on
  /\ UNCHANGED <<round, reading, m>>
  /\ todo' = Tail(todo) /\ total' = total + Cardinality(TopMatches)
  /\ added \subseteq {Top} /\ StrataIds' = StrataIds \union added
  /\ strata' \in [StrataIds' -> Stratum] /\ \A h \in StrataIds : strata'[h] = strata[h]
  /\ added = {} => universe = {} /\ banked = {}
  /\ \A h \in added : /\ StratumSound(h)' /\ strata'[h].drawn = {}
                      /\ Universe(h)' = universe /\ ToBank(h)' = banked
  /\ universe \union banked \union direct \union held = TopMatches
  /\ universe \cap banked = {} /\ (universe \union banked) \cap direct = {}
  /\ (universe \union banked \union direct) \cap held = {}
  /\ bucket' = [r \in RowIds |-> bucket[r] + (IF r \in direct \cap Present THEN 1 ELSE 0)]
  /\ addback' = [r \in RowIds |-> addback[r] + (IF r \in held THEN 1 ELSE 0)]

LEMMA SettlePreserves ==
  ASSUME EngineInv, Descending, NEW added, NEW universe, NEW banked, NEW direct, NEW held,
         Settles(added, universe, banked, direct, held)
  PROVE  EngineInv'
<1>0. /\ IndexKept /\ IndexInv' /\ phase' = "descend" /\ ~crack'.on
      /\ UNCHANGED <<round, reading, m>>
      /\ todo' = Tail(todo) /\ total' = total + Cardinality(TopMatches)
      /\ added \in SUBSET {Top} /\ StrataIds' = StrataIds \union added
      /\ strata' \in [StrataIds' -> Stratum] /\ \A h \in StrataIds : strata'[h] = strata[h]
      /\ added = {} => universe = {} /\ banked = {}
      /\ \A h \in added : /\ StratumSound(h)' /\ strata'[h].drawn = {}
                          /\ Universe(h)' = universe /\ ToBank(h)' = banked
      /\ universe \union banked \union direct \union held = TopMatches
      /\ universe \cap banked = {} /\ (universe \union banked) \cap direct = {}
      /\ (universe \union banked \union direct) \cap held = {}
      /\ bucket' = [r \in RowIds |-> bucket[r] + (IF r \in direct \cap Present THEN 1 ELSE 0)]
      /\ addback' = [r \in RowIds |-> addback[r] + (IF r \in held THEN 1 ELSE 0)]
  BY DEF Settles
<1> USE <1>0
<1>1. /\ IndexInv /\ CrackInv /\ EngineTypeOK /\ RowsSettled /\ StrataIds \subseteq Ids
      /\ bucket \in RowBag /\ addback \in RowBag /\ total \in Nat
  BY DEF EngineInv, IndexInv, EngineTypeOK
<1>2. /\ TodoSound' /\ todo' \in Seq(Ids')
      /\ Settled' = Settled \union TopMatches /\ Settled \cap TopMatches = {}
      /\ Cardinality(Settled') = Cardinality(Settled) + Cardinality(TopMatches)
  BY TopSettles
<1>3. StrataIds' \subseteq Ids'
  <2>1. \A j \in Ids : j \in Ids'
    BY <1>1, StepKeepsRows DEF IndexKept
  <2> QED
    BY <1>1, <2>1, TopFacts
<1>4. \A h \in StrataIds : StratumSound(h)' /\ Universe(h)' = Universe(h) /\ ToBank(h)' = ToBank(h)
  BY StrataKept
<1>5. bucket' \in RowBag /\ addback' \in RowBag
  <2>1. /\ \A r \in RowIds : bucket[r] \in Nat /\ addback[r] \in Nat
    BY <1>1 DEF RowBag
  <2>2. \A r \in RowIds : bucket[r] + (IF r \in direct \cap Present THEN 1 ELSE 0) \in Nat
    BY <2>1
  <2>3. \A r \in RowIds : addback[r] + (IF r \in held THEN 1 ELSE 0) \in Nat
    BY <2>1
  <2> QED
    BY <2>2, <2>3 DEF RowBag
<1>6. total' \in Nat
  <2>1. TopMatches \in SUBSET RowIds
    BY DEF TopMatches, Qualifying
  <2> QED
    BY <1>1, <2>1, TableFinite
<1>7. /\ RootHoldsAll' /\ EngineTypeOK' /\ ControlSound'
      /\ DrawSound' /\ RoundsSound' /\ OutcomeSound' /\ ReadsSound'
  <2>1. \A h \in StrataIds' : strata'[h].drawn = {}
    BY TopFacts
  <2> QED
    BY <1>2, <1>3, <1>5, <1>6, <2>1, DescentControl
<1>8. /\ UNION {Universe(h) : h \in StrataIds}' = (UNION {Universe(h) : h \in StrataIds}) \union universe
      /\ UNION {ToBank(h) : h \in StrataIds}' = (UNION {ToBank(h) : h \in StrataIds}) \union banked
  <2>1. CASE added = {}
    BY <1>4, <2>1
  <2>2. CASE added = {Top}
    BY <1>4, <2>2
  <2> QED
    BY <2>1, <2>2
<1>9. RowsSettled'
  <2>1. \A h \in StrataIds : Universe(h) \subseteq RowsOf(h) /\ ToBank(h) \subseteq RowsOf(h)
    BY StratumRows
  <2>2. \A h \in StrataIds : RowsOf(h) \cap RowsOf(Top) = {}
    BY TopFacts DEF PendingApart
  <2>3. /\ (UNION {Universe(h) : h \in StrataIds}) \cap TopMatches = {}
        /\ (UNION {ToBank(h) : h \in StrataIds}) \cap TopMatches = {}
    BY <2>1, <2>2 DEF TopMatches
  <2>4. PICK us, bs, ss :
          /\ us = UNION {Universe(h) : h \in StrataIds} /\ bs = UNION {ToBank(h) : h \in StrataIds}
          /\ ss = Settled
    OBVIOUS
  <2>5. \A r \in RowIds :
          /\ Counted(r) = addback[r] + Indicator(us)[r] + Indicator(bs)[r]
          /\ Counted(r)' = addback'[r] + Indicator(us \union universe)[r] + Indicator(bs \union banked)[r]
    BY <1>8, <2>4 DEF Counted
  <2>6. \A r \in RowIds :
          /\ Counted(r) <= Indicator(ss)[r]
          /\ r \in Present    => bucket[r] + Counted(r) = Indicator(ss)[r]
          /\ r \notin Present => bucket[r] = 0
    BY <1>1, <2>4 DEF RowsSettled
  <2>7. us \cap TopMatches = {} /\ bs \cap TopMatches = {} /\ ss \cap TopMatches = {}
    BY <1>2, <2>3, <2>4
  <2>8. ASSUME NEW r \in RowIds
        PROVE  /\ Counted(r)' <= Indicator(ss \union TopMatches)[r]
               /\ r \in Present    => bucket'[r] + Counted(r)' = Indicator(ss \union TopMatches)[r]
               /\ r \notin Present => bucket'[r] = 0
    <3>0. PICK c, c1 : c = Counted(r) /\ c1 = Counted(r)'
      OBVIOUS
    <3>1. PICK b \in Nat, a \in Nat : b = bucket[r] /\ a = addback[r]
      BY <1>1 DEF RowBag
    <3>2. /\ c = a + (IF r \in us THEN 1 ELSE 0) + (IF r \in bs THEN 1 ELSE 0)
          /\ c1 = a + (IF r \in held THEN 1 ELSE 0)
                  + (IF r \in us \/ r \in universe THEN 1 ELSE 0)
                  + (IF r \in bs \/ r \in banked THEN 1 ELSE 0)
          /\ c <= (IF r \in ss THEN 1 ELSE 0)
          /\ r \in Present => b + c = (IF r \in ss THEN 1 ELSE 0)
          /\ r \notin Present => b = 0
      BY <2>5, <2>6, <3>0, <3>1 DEF Indicator
    <3>3. bucket'[r] = b + (IF r \in direct \cap Present THEN 1 ELSE 0)
      BY <3>1
    <3>4. Indicator(ss \union TopMatches)[r] = IF r \in ss \/ r \in TopMatches THEN 1 ELSE 0
      BY DEF Indicator
    <3>5. CASE r \in TopMatches
      <4>1. r \notin us /\ r \notin bs /\ r \notin ss
        BY <2>7, <3>5
      <4>2. \/ r \in universe /\ r \notin banked /\ r \notin direct /\ r \notin held
            \/ r \notin universe /\ r \in banked /\ r \notin direct /\ r \notin held
            \/ r \notin universe /\ r \notin banked /\ r \in direct /\ r \notin held
            \/ r \notin universe /\ r \notin banked /\ r \notin direct /\ r \in held
        BY <3>5
      <4> QED
        BY <3>0, <3>2, <3>3, <3>4, <3>5, <4>1, <4>2
    <3>6. CASE r \notin TopMatches
      <4>1. r \notin universe /\ r \notin banked /\ r \notin direct /\ r \notin held
        BY <3>6
      <4> QED
        BY <3>0, <3>2, <3>3, <3>4, <3>6, <4>1
    <3> QED
      BY <3>5, <3>6
  <2>9. Indicator(ss \union TopMatches) = Indicator(Settled')
    BY <1>2, <2>4, Zenon
  <2>10. total' = Cardinality(Settled')
    BY <1>1, <1>2 DEF RowsSettled
  <2> QED
    BY <2>8, <2>9, <2>10 DEF RowsSettled
<1>10. (\A h \in StrataIds : StratumSound(h))'
  BY <1>4
<1> QED
  BY <1>2, <1>7, <1>9, <1>10 DEF EngineInv

\* The bounds of a partition tell what the points inside them would.
LEMMA TopRelation ==
  ASSUME EngineInv, Descending
  PROVE  LET qualifying == {p \in PositionsOf(Top) : ContainsPoint(request.rect, pointAt[p])}
         IN  /\ TopMatches = RowsAt(qualifying)
             /\ Cardinality(TopMatches) = Cardinality(qualifying)
             /\ Relation = "Disjoint" => TopMatches = {}
             /\ Relation = "Contained" => TopMatches = RowsOf(Top) /\ qualifying = PositionsOf(Top)
<1> DEFINE qualifying == {p \in PositionsOf(Top) : ContainsPoint(request.rect, pointAt[p])}
<1>1. /\ CrackInv /\ Top \in Ids /\ request.rect \in Rect
  BY TopFacts DEF EngineInv, IndexInv
<1>2. /\ PositionsOf(Top) \in SUBSET Positions /\ RowsOf(Top) = RowsAt(PositionsOf(Top))
      /\ RowsOf(Top) \subseteq RowIds
  BY <1>1, PositionsInTable
<1>3. /\ \A p \in Positions : /\ pointAt[p] = Point[rowAt[p]] /\ pointAt[p] \in Vec
                              /\ rowAt[p] \in RowIds
      /\ \A p \in PositionsOf(Top) : ContainsPoint(nodes[Top].bounds, pointAt[p])
      /\ nodes[Top] \in Node
  BY <1>1 DEF CrackInv, ColumnsAgree, CrackTypeOK, RowsInBounds
<1>4. TopMatches = RowsAt(qualifying)
  <2>1. ASSUME NEW r \in RowIds PROVE r \in TopMatches <=> r \in RowsAt(qualifying)
    <3>1. r \in RowsOf(Top) <=> \E p \in PositionsOf(Top) : r = rowAt[p]
      BY <1>2 DEF RowsAt
    <3>2. \A p \in PositionsOf(Top) : pointAt[p] = Point[rowAt[p]]
      BY <1>2, <1>3
    <3> QED
      BY <3>1, <3>2 DEF TopMatches, Qualifying, RowsAt
  <2>2. RowsAt(qualifying) \subseteq RowIds /\ TopMatches \subseteq RowIds
    BY <1>2, <1>3 DEF RowsAt, TopMatches, Qualifying
  <2> QED
    BY <2>1, <2>2
<1>5. Cardinality(TopMatches) = Cardinality(qualifying)
  <2>1. qualifying \in SUBSET Positions
    BY <1>2
  <2>2. Cardinality(RowsAt(qualifying)) = Cardinality(qualifying)
    BY <1>1, <2>1, RowsAtCount
  <2> QED
    BY <1>4, <2>2, Zenon
<1>6. ASSUME Relation = "Disjoint" PROVE TopMatches = {}
  <2>1. ~Intersects(nodes[Top].bounds, request.rect)
    BY <1>6 DEF Relation, Classify
  <2>2. ASSUME NEW p \in qualifying PROVE FALSE
    <3>1. /\ p \in Positions /\ ContainsPoint(nodes[Top].bounds, pointAt[p])
          /\ ContainsPoint(request.rect, pointAt[p]) /\ pointAt[p] \in Vec
          /\ nodes[Top].bounds \in Rect
      BY <1>2, <1>3 DEF Node
    <3> QED
      BY <1>1, <2>1, <3>1 DEF Intersects, ContainsPoint, Rect, Vec
  <2> QED
    BY <1>4, <2>2 DEF RowsAt
<1>7. ASSUME Relation = "Contained" PROVE TopMatches = RowsOf(Top) /\ qualifying = PositionsOf(Top)
  <2>1. ContainsRect(request.rect, nodes[Top].bounds)
    BY <1>7 DEF Relation, Classify
  <2>2. ASSUME NEW p \in PositionsOf(Top) PROVE ContainsPoint(request.rect, pointAt[p])
    <3>1. /\ p \in Positions /\ ContainsPoint(nodes[Top].bounds, pointAt[p])
          /\ pointAt[p] \in Vec /\ nodes[Top].bounds \in Rect
      BY <1>2, <1>3 DEF Node
    <3> QED
      BY <1>1, <2>1, <3>1 DEF ContainsRect, ContainsPoint, Rect, Vec
  <2>3. qualifying = PositionsOf(Top)
    BY <2>2
  <2> QED
    BY <1>2, <1>4, <2>3
<1> QED
  BY <1>4, <1>5, <1>6, <1>7

\* A step that leaves the index as it is.
LEMMA NothingMoved ==
  ASSUME EngineInv, Descending, UNCHANGED indexVars, request' = request
  PROVE  /\ IndexKept /\ IndexInv' /\ crack' = crack /\ store' = store /\ nodes' = nodes
         /\ UNCHANGED <<tableVars, treeVars>>
<1>1. IndexInv /\ \A h \in StrataIds : nodes[h].leaf
  BY DEF EngineInv, StratumSound
<1>2. /\ UNCHANGED <<tableVars, treeVars>> /\ crack' = crack /\ store' = store /\ nodes' = nodes
      /\ batch' = batch /\ UNCHANGED crackVars
  BY DEF indexVars, crackVars, storeVars, treeVars
<1>3. IndexInv'
  BY <1>1, StoreIdlePreserves
<1> QED
  BY <1>1, <1>2, <1>3 DEF IndexKept, IndexInv

LEMMA SameBag ==
  ASSUME NEW bag \in RowBag
  PROVE  bag = [r \in RowIds |-> bag[r] + (IF r \in {} THEN 1 ELSE 0)]
<1>1. \A r \in RowIds : bag[r] \in Nat /\ bag[r] = bag[r] + (IF r \in {} THEN 1 ELSE 0)
  BY DEF RowBag
<1> QED
  BY <1>1 DEF RowBag

\* Steps that settle the top without a stratum: its rows of the rectangle count
\* exactly from now on.
LEMMA SettleDirectly ==
  ASSUME EngineInv, Descending, IndexKept, IndexInv', phase' = "descend", ~crack'.on,
         UNCHANGED <<strata, addback, round, reading, m>>,
         todo' = Tail(todo), total' = total + Cardinality(TopMatches),
         bucket' = [r \in RowIds |-> bucket[r] + (IF r \in TopMatches \cap Present THEN 1 ELSE 0)]
  PROVE  EngineInv'
<1>1. strata \in [StrataIds -> Stratum] /\ addback \in RowBag /\ StrataIds' = StrataIds
  BY DEF EngineInv, EngineTypeOK, StrataIds
<1>2. addback' = [r \in RowIds |-> addback[r] + (IF r \in {} THEN 1 ELSE 0)]
  BY <1>1, SameBag
<1>3. /\ {} \union {} \union TopMatches \union {} = TopMatches
      /\ {} \cap {} = {} /\ ({} \union {}) \cap TopMatches = {}
      /\ ({} \union {} \union TopMatches) \cap {} = {}
      /\ StrataIds' = StrataIds \union {} /\ {} \subseteq {Top}
  BY <1>1
<1>4. \A h \in {} : /\ StratumSound(h)' /\ strata'[h].drawn = {}
                    /\ Universe(h)' = {} /\ ToBank(h)' = {}
  OBVIOUS
<1>5. /\ strata' \in [StrataIds' -> Stratum] /\ \A h \in StrataIds : strata'[h] = strata[h]
      /\ UNCHANGED <<round, reading, m>>
  BY <1>1
<1>6. Settles({}, {}, {}, TopMatches, {})
  BY <1>2, <1>3, <1>4, <1>5, Zenon DEF Settles
<1> QED
  BY <1>6, SettlePreserves

LEMMA DropDisjointPreserves ==
  ASSUME EngineInv, DropDisjoint
  PROVE  EngineInv'
<1>1. /\ phase = "descend" /\ phase' = "descend" /\ Descending /\ Relation = "Disjoint"
      /\ todo' = Tail(todo) /\ UNCHANGED indexVars
      /\ request' = request /\ strata' = strata /\ bucket' = bucket /\ addback' = addback
      /\ total' = total /\ UNCHANGED <<round, reading, m>>
  BY DEF DropDisjoint, Visiting, Descending
<1>2. /\ IndexKept /\ IndexInv' /\ ~crack'.on
  <2>1. IndexKept /\ IndexInv' /\ crack' = crack
    BY <1>1, NothingMoved
  <2> QED
    BY <1>1, <2>1 DEF EngineInv, ControlSound
<1>3. TopMatches = {} /\ total \in Nat /\ bucket \in RowBag
  BY <1>1, TopRelation DEF EngineInv, EngineTypeOK
<1>4. total' = total + Cardinality(TopMatches)
  <2>1. Cardinality(TopMatches) = 0
    BY <1>3, FS_EmptySet, Zenon
  <2> QED
    BY <1>1, <1>3, <2>1
<1>5. bucket' = [r \in RowIds |-> bucket[r] + (IF r \in TopMatches \cap Present THEN 1 ELSE 0)]
  <2>1. bucket = [r \in RowIds |-> bucket[r] + (IF r \in {} THEN 1 ELSE 0)]
    BY <1>3, SameBag
  <2>2. TopMatches \cap Present = {}
    BY <1>3
  <2> QED
    BY <1>1, <2>1, <2>2, Zenon
<1> QED
  BY <1>1, <1>2, <1>4, <1>5, SettleDirectly

\* A contained partition with a complete summary: its moments and its bank are its
\* present rows, each once.
LEMMA EmitExactPreserves ==
  ASSUME EngineInv, EmitExact
  PROVE  EngineInv'
<1>1. /\ phase = "descend" /\ phase' = "descend" /\ Descending /\ Relation = "Contained"
      /\ Complete(store[Top]) /\ total' = total + Population(Top)
      /\ bucket' = [r \in RowIds |-> bucket[r] + store[Top].nonNan[r] + store[Top].outlierBank[r]]
      /\ todo' = Tail(todo) /\ UNCHANGED indexVars /\ request' = request
      /\ UNCHANGED <<strata, addback, round, reading, m>>
  BY DEF EmitExact, Visiting, Descending, Answered
<1>2. /\ IndexKept /\ IndexInv' /\ ~crack'.on
  <2>1. IndexKept /\ IndexInv' /\ crack' = crack
    BY <1>1, NothingMoved
  <2> QED
    BY <1>1, <2>1 DEF EngineInv, ControlSound
<1>3. /\ IndexInv /\ CrackInv /\ StoreTypeOK /\ Top \in Ids /\ bucket \in RowBag
      /\ TopMatches = RowsOf(Top)
  BY <1>1, TopFacts, TopRelation DEF EngineInv, EngineTypeOK, IndexInv, StoreInv
<1>4. total' = total + Cardinality(TopMatches)
  <2>1. Cardinality(RowsOf(Top)) = Population(Top)
    BY <1>3, PartitionCount
  <2> QED
    BY <1>1, <1>3, <2>1, Zenon
<1>5. ASSUME NEW r \in RowIds
      PROVE  bucket[r] + store[Top].nonNan[r] + store[Top].outlierBank[r]
               = bucket[r] + (IF r \in TopMatches \cap Present THEN 1 ELSE 0)
  <2>1. store[Top].nonNan[r] + store[Top].outlierBank[r] = Indicator(RowsOf(Top) \cap Present)[r]
    BY <1>1, <1>3, CompleteExact DEF CompleteIsExact
  <2>2. Indicator(RowsOf(Top) \cap Present)[r] = IF r \in TopMatches \cap Present THEN 1 ELSE 0
    BY <1>3 DEF Indicator
  <2>3. store[Top] \in Slot
    BY <1>3 DEF StoreTypeOK
  <2>4. PICK a \in Nat, b \in Nat, c \in Nat :
          a = bucket[r] /\ b = store[Top].nonNan[r] /\ c = store[Top].outlierBank[r]
    BY <1>3, <2>3 DEF Slot, RowBag
  <2>5. b + c = IF r \in TopMatches \cap Present THEN 1 ELSE 0
    BY <2>1, <2>2, <2>4
  <2>6. a + b + c = a + (IF r \in TopMatches \cap Present THEN 1 ELSE 0)
    BY ONLY <2>4, <2>5
  <2> QED
    BY <2>4, <2>6
<1>6. bucket' = [r \in RowIds |-> bucket[r] + (IF r \in TopMatches \cap Present THEN 1 ELSE 0)]
  BY <1>1, <1>5
<1> QED
  BY <1>1, <1>2, <1>4, <1>6, SettleDirectly

\* A new stratum at the top, before anything is drawn for it.
LEMMA NewStratumFacts ==
  ASSUME NEW persisted \in BOOLEAN, NEW body \in SUBSET Positions,
         strata' = WithStratum(NewStratum(persisted, body)),
         EngineInv, Descending
  PROVE  /\ StrataIds' = StrataIds \union {Top} /\ strata' \in [StrataIds' -> Stratum]
         /\ \A h \in StrataIds : strata'[h] = strata[h]
         /\ strata'[Top] = NewStratum(persisted, body)
         /\ (strata'[Top].persisted <=> persisted) /\ strata'[Top].body = body
         /\ strata'[Top].tracker = {} /\ strata'[Top].sampled = 0
         /\ strata'[Top].nonNan = EmptyBag /\ strata'[Top].drawn = {}
<1>1. NewStratum(persisted, body) \in Stratum
  BY EmptySlotSound DEF NewStratum, Stratum
<1>2. strata \in [StrataIds -> Stratum] /\ Top \notin StrataIds
  BY TopFacts DEF EngineInv, EngineTypeOK
<1>3. /\ StrataIds' = StrataIds \union {Top} /\ strata' \in [StrataIds' -> Stratum]
      /\ strata'[Top] = NewStratum(persisted, body)
      /\ \A h \in StrataIds : strata'[h] = strata[h]
  <2>1. strata' = [h \in StrataIds \union {Top} |->
                     IF h = Top THEN NewStratum(persisted, body) ELSE strata[h]]
    BY DEF WithStratum
  <2>2. DOMAIN strata' = StrataIds \union {Top}
    BY <2>1
  <2>3. StrataIds' = StrataIds \union {Top}
    BY <2>2 DEF StrataIds
  <2> QED
    BY <1>1, <1>2, <2>1, <2>3
<1>4. /\ (NewStratum(persisted, body).persisted <=> persisted)
      /\ NewStratum(persisted, body).body = body
      /\ NewStratum(persisted, body).tracker = {} /\ NewStratum(persisted, body).sampled = 0
      /\ NewStratum(persisted, body).nonNan = EmptyBag /\ NewStratum(persisted, body).drawn = {}
  BY DEF NewStratum
<1> QED
  BY <1>3, <1>4, Zenon

\* The universe of a stratum and the rows held out of it share out the rows.
LEMMA HeldOutApart ==
  ASSUME CrackInv, NEW P \in SUBSET Positions
  PROVE  /\ Unflagged(P) \in SUBSET Positions
         /\ RowsAt(Unflagged(P)) = RowsAt(P) \ Flagged
         /\ RowsAt({p \in P : flagAt[p]}) = RowsAt(P) \cap Flagged
<1>1. \A p \in P : rowAt[p] \in RowIds /\ flagAt[p] = (rowAt[p] \in Flagged)
  BY DEF CrackInv, CrackTypeOK, ColumnsAgree
<1> QED
  BY <1>1 DEF Unflagged, RowsAt

\* A stratum over rows of a leaf that are not held out is sound before anything is
\* drawn for it, when its own tracker keeps its sample.
LEMMA NewStratumSound ==
  ASSUME EngineInv, Descending, CrackInv', UNCHANGED <<tableVars, treeVars>>, nodes[Top].leaf,
         NEW body \in SUBSET (PositionsOf(Top) \ FlaggedIn(Top)),
         strata' = WithStratum(NewStratum(FALSE, body)), NEW t, t = Top
  PROVE  StratumSound(t)' /\ Universe(t)' = RowsAt(body) /\ ToBank(t)' = {}
<1>1. /\ CrackInv /\ Top \in Ids /\ PositionsOf(Top) \in SUBSET Positions
  BY TopFacts, PositionsInTable DEF EngineInv, IndexInv
<1>2. body \in SUBSET Positions
  BY <1>1
<1>3. /\ ~strata'[Top].persisted /\ strata'[Top].body = body
      /\ strata'[Top].tracker = {} /\ strata'[Top].sampled = 0
      /\ strata'[Top].nonNan = EmptyBag /\ strata'[Top].drawn = {}
  <2>1. FALSE \in BOOLEAN
    OBVIOUS
  <2> QED
    BY <1>2, <2>1, NewStratumFacts, Zenon
<1>4. /\ nodes' = nodes /\ \A i : /\ PositionsOf(i)' = PositionsOf(i) /\ FlaggedIn(i)' = FlaggedIn(i)
                                  /\ \A P : RowsAt(P)' = RowsAt(P)
  BY SameIndex
<1>6. /\ ~strata'[t].persisted /\ strata'[t].body = body /\ strata'[t].tracker = {}
      /\ strata'[t].sampled = 0 /\ strata'[t].nonNan = EmptyBag /\ strata'[t].drawn = {}
      /\ nodes'[t].leaf /\ body \subseteq PositionsOf(t)' \ FlaggedIn(t)'
  BY <1>3, <1>4, Zenon
<1>7. RowsAt(strata[t].tracker)' \ strata'[t].drawn = {}
  BY <1>6 DEF RowsAt
<1>8. /\ Cardinality(RowsAt(strata[t].tracker)' \ strata'[t].drawn) = 0
      /\ Indicator((RowsAt(strata[t].tracker)' \ strata'[t].drawn) \cap Present) = EmptyBag
  <2>1. {} \cap Present = {} /\ Cardinality({}) = 0
    BY FS_EmptySet
  <2> QED
    BY <1>7, <2>1, EmptySlotSound, Zenon
<1>9. StratumSound(t)'
  BY <1>6, <1>8 DEF StratumSound
<1>10. Universe(t)' = RowsAt(body) /\ ToBank(t)' = {}
  BY <1>4, <1>6 DEF Universe, ToBank
<1> QED
  BY <1>9, <1>10

\* emit_query_local, for a leaf too small to crack or one that no cut could split.
LEMMA EmitQueryLocalPreserves ==
  ASSUME EngineInv, Descending, IndexKept, IndexInv', phase' = "descend", ~crack'.on,
         UNCHANGED <<tableVars, treeVars>>, nodes[Top].leaf, EmitQueryLocal,
         UNCHANGED <<bucket, round, reading, m>>
  PROVE  EngineInv'
<1> DEFINE qualifying == {p \in PositionsOf(Top) : ContainsPoint(request.rect, pointAt[p])}
           body       == Unflagged(qualifying)
           universe   == RowsAt(body)
           held       == RowsAt(qualifying \cap FlaggedIn(Top))
<1>1. /\ strata' = WithStratum(NewStratum(FALSE, body))
      /\ addback' = Added(addback, held)
      /\ total' = total + Cardinality(qualifying) /\ todo' = Tail(todo)
  BY DEF EmitQueryLocal
<1>2. /\ CrackInv /\ Top \in Ids /\ PositionsOf(Top) \in SUBSET Positions /\ bucket \in RowBag
  BY TopFacts, PositionsInTable DEF EngineInv, IndexInv, EngineTypeOK
<1>3. /\ TopMatches = RowsAt(qualifying) /\ Cardinality(TopMatches) = Cardinality(qualifying)
  BY TopRelation
<1>4. /\ qualifying \in SUBSET Positions /\ body \in SUBSET Positions
      /\ body \in SUBSET (PositionsOf(Top) \ FlaggedIn(Top))
  BY <1>2 DEF Unflagged, FlaggedIn
<1>5. /\ universe \union {} \union {} \union held = TopMatches
      /\ universe \cap {} = {} /\ (universe \union {}) \cap {} = {}
      /\ (universe \union {} \union {}) \cap held = {}
  <2>1. universe = RowsAt(qualifying) \ Flagged
    BY <1>2, <1>4, HeldOutApart
  <2>2. held = RowsAt(qualifying) \cap Flagged
    <3>1. qualifying \cap FlaggedIn(Top) = {p \in qualifying : flagAt[p]}
      BY DEF FlaggedIn
    <3>2. RowsAt({p \in qualifying : flagAt[p]}) = RowsAt(qualifying) \cap Flagged
      BY <1>2, <1>4, HeldOutApart
    <3> QED
      BY <3>1, <3>2, Zenon
  <2> HIDE DEF universe, held, qualifying
  <2> QED
    BY <1>3, <2>1, <2>2
<1>6. /\ StrataIds' = StrataIds \union {Top} /\ strata' \in [StrataIds' -> Stratum]
      /\ (\A h \in StrataIds : strata'[h] = strata[h]) /\ strata'[Top].drawn = {}
  <2>1. FALSE \in BOOLEAN
    OBVIOUS
  <2> HIDE DEF body
  <2> QED
    BY <1>1, <1>4, <2>1, NewStratumFacts
<1>7. ASSUME NEW h, h = Top
      PROVE  StratumSound(h)' /\ Universe(h)' = universe /\ ToBank(h)' = {}
  <2> HIDE DEF body
  <2> QED
    BY <1>1, <1>4, <1>7, NewStratumSound DEF IndexInv
<1> HIDE DEF universe, held, body
<1>8. \A h \in {Top} : /\ StratumSound(h)' /\ strata'[h].drawn = {}
                       /\ Universe(h)' = universe /\ ToBank(h)' = {}
  BY <1>6, <1>7
<1>9. bucket' = [r \in RowIds |-> bucket[r] + (IF r \in {} \cap Present THEN 1 ELSE 0)]
  <2>1. bucket' = [r \in RowIds |-> bucket[r] + (IF r \in {} THEN 1 ELSE 0)]
    BY <1>2, SameBag
  <2>2. {} \cap Present = {}
    OBVIOUS
  <2> QED
    BY <2>1, <2>2, Zenon
<1>10. /\ addback' = [r \in RowIds |-> addback[r] + (IF r \in held THEN 1 ELSE 0)]
       /\ total' = total + Cardinality(TopMatches) /\ {Top} \subseteq {Top}
       /\ ({Top} = {} => universe = {} /\ {} = {}) /\ UNCHANGED <<round, reading, m>>
  BY <1>1, <1>3 DEF Added
<1>11. Settles({Top}, universe, {}, {}, held)
  BY <1>1, <1>5, <1>6, <1>8, <1>9, <1>10, Zenon DEF Settles
<1> QED
  BY <1>11, SettlePreserves

LEMMA ScanLeafPreserves ==
  ASSUME EngineInv, ScanLeaf
  PROVE  EngineInv'
<1>1. /\ phase = "descend" /\ phase' = "descend" /\ Descending /\ nodes[Top].leaf
      /\ EmitQueryLocal /\ UNCHANGED indexVars /\ request' = request
      /\ UNCHANGED <<bucket, round, reading, m>>
  BY DEF ScanLeaf, Visiting, Descending
<1>2. /\ IndexKept /\ IndexInv' /\ crack' = crack /\ UNCHANGED <<tableVars, treeVars>>
  BY <1>1, NothingMoved
<1>3. ~crack'.on
  BY <1>1, <1>2 DEF EngineInv, ControlSound
<1> QED
  BY <1>1, <1>2, <1>3, EmitQueryLocalPreserves

\* Without persisted summaries a contained leaf is sampled like a partial one all
\* of whose rows qualify.
LEMMA EmitTransientPreserves ==
  ASSUME EngineInv, EmitReusable, ~Persist
  PROVE  EngineInv'
<1> DEFINE qualifying == {p \in PositionsOf(Top) : ContainsPoint(request.rect, pointAt[p])}
<1>1. /\ phase = "descend" /\ phase' = "descend" /\ Descending /\ nodes[Top].leaf
      /\ Relation = "Contained" /\ Persist = FALSE
      /\ strata' = WithStratum(NewStratum(Persist, Unflagged(PositionsOf(Top))))
      /\ addback' = Added(addback, RowsAt(FlaggedIn(Top)))
      /\ total' = total + Population(Top) /\ todo' = Tail(todo)
      /\ UNCHANGED indexVars /\ request' = request /\ UNCHANGED <<bucket, round, reading, m>>
  BY EngineAssumption DEF EmitReusable, Visiting, Descending
<1>2. /\ IndexKept /\ IndexInv' /\ crack' = crack /\ UNCHANGED <<tableVars, treeVars>>
  BY <1>1, NothingMoved
<1>3. ~crack'.on
  BY <1>1, <1>2 DEF EngineInv, ControlSound
<1>4. /\ CrackInv /\ Top \in Ids /\ TopMatches = RowsOf(Top) /\ qualifying = PositionsOf(Top)
      /\ Cardinality(TopMatches) = Cardinality(qualifying)
  BY <1>1, TopFacts, TopRelation DEF EngineInv, IndexInv
<1>5. Cardinality(qualifying) = Population(Top)
  <2>1. Cardinality(RowsOf(Top)) = Population(Top)
    BY <1>4, PartitionCount
  <2> HIDE DEF qualifying
  <2> QED
    BY <1>4, <2>1, Zenon
<1>6. EmitQueryLocal
  <2>1. qualifying \cap FlaggedIn(Top) = FlaggedIn(Top)
    BY <1>4 DEF FlaggedIn
  <2>2. strata' = WithStratum(NewStratum(FALSE, Unflagged(PositionsOf(Top))))
    BY <1>1, Zenon
  <2>3. /\ strata' = WithStratum(NewStratum(FALSE, Unflagged(qualifying)))
        /\ addback' = Added(addback, RowsAt(qualifying \cap FlaggedIn(Top)))
        /\ total' = total + Cardinality(qualifying) /\ todo' = Tail(todo)
    <3> HIDE DEF qualifying
    <3> QED
      BY <1>1, <1>4, <1>5, <2>1, <2>2, Zenon
  <2> QED
    BY <2>3 DEF EmitQueryLocal
<1> QED
  BY <1>1, <1>2, <1>3, <1>6, EmitQueryLocalPreserves

\* With them its sample and its bank are carried on from earlier queries.
LEMMA EmitPersistedPreserves ==
  ASSUME EngineInv, EmitReusable, Persist
  PROVE  EngineInv'
<1> DEFINE body     == Unflagged(PositionsOf(Top))
           universe == RowsAt(body)
           banked   == IF store[Top].materialized THEN {} ELSE HeldOut(Top)
           direct   == IF store[Top].materialized THEN HeldOut(Top) ELSE {}
<1>1. /\ phase = "descend" /\ phase' = "descend" /\ Descending /\ nodes[Top].leaf
      /\ Relation = "Contained" /\ PrepareLeaf(Top)
      /\ strata' = WithStratum(NewStratum(Persist, body))
      /\ bucket' = [r \in RowIds |-> bucket[r] + store[Top].outlierBank[r]]
      /\ addback' = addback /\ total' = total + Population(Top) /\ todo' = Tail(todo)
      /\ request' = request /\ UNCHANGED <<round, reading, m>>
  BY EngineAssumption DEF EmitReusable, Visiting, Descending
<1>2. /\ IndexInv /\ CrackInv /\ Top \in Ids /\ Top \notin StrataIds
      /\ bucket \in RowBag /\ addback \in RowBag /\ StrataIds \subseteq Ids
      /\ store \in [Ids -> Slot] /\ store[Top] \in Slot /\ BankedOnce /\ SlotSound(Top)
      /\ \A h \in StrataIds : nodes[h].leaf
  BY <1>1, TopFacts
     DEF EngineInv, IndexInv, EngineTypeOK, StoreInv, StoreTypeOK, StratumSound
<1>3. /\ UNCHANGED crackVars /\ batch' = batch
      /\ store' = [store EXCEPT
            ![Top].population  = IF @ = 0 THEN Population(Top) ELSE @,
            ![Top].outlierRows = Cardinality(FlaggedIn(Top))]
  BY <1>1 DEF PrepareLeaf
<1>4. IndexInv'
  BY <1>1, <1>2, PrepareLeafPreserves
<1>5. /\ UNCHANGED <<tableVars, treeVars>> /\ crack' = crack /\ nodes' = nodes /\ Ids' = Ids
      /\ \A i : /\ PositionsOf(i)' = PositionsOf(i) /\ FlaggedIn(i)' = FlaggedIn(i)
                /\ Population(i)' = Population(i)
      /\ \A P : RowsAt(P)' = RowsAt(P)
  BY <1>3, SameIndex DEF crackVars
<1>6. /\ \A h \in StrataIds : store'[h] = store[h]
      /\ store'[Top].population = Population(Top)
      /\ store'[Top].materialized = store[Top].materialized
  <2>1. \A h \in StrataIds : store'[h] = store[h]
    BY <1>2, <1>3
  <2>2. /\ store'[Top].population = IF store[Top].population = 0 THEN Population(Top)
                                    ELSE store[Top].population
        /\ store'[Top].materialized = store[Top].materialized
    BY <1>2, <1>3 DEF Slot
  <2>3. store[Top].population \in {0, Population(Top)}
    BY <1>2 DEF SlotSound
  <2> QED
    BY <2>1, <2>2, <2>3
<1>7. IndexKept /\ ~crack'.on
  <2>1. [CrackNext]_crackVars /\ CrackInv'
    BY <1>3, <1>4 DEF IndexInv
  <2>2. ~crack.on
    BY <1>1 DEF PrepareLeaf
  <2> QED
    BY <1>1, <1>2, <1>3, <1>5, <1>6, <2>1, <2>2 DEF IndexKept
<1>8. TopMatches = RowsOf(Top) /\ total' = total + Cardinality(TopMatches)
  <2>1. TopMatches = RowsOf(Top)
    BY <1>1, TopRelation
  <2>2. Cardinality(RowsOf(Top)) = Population(Top)
    BY <1>2, PartitionCount
  <2> QED
    BY <1>1, <2>1, <2>2, Zenon
<1>9. /\ body \in SUBSET Positions /\ body = PositionsOf(Top) \ FlaggedIn(Top)
      /\ universe = RowsOf(Top) \ Flagged /\ RowsAt(FlaggedIn(Top)) = HeldOut(Top)
  <2>1. PositionsOf(Top) \in SUBSET Positions /\ RowsOf(Top) = RowsAt(PositionsOf(Top))
    BY <1>2, PositionsInTable
  <2>2. body = PositionsOf(Top) \ FlaggedIn(Top)
    BY DEF Unflagged, FlaggedIn
  <2>3. body \in SUBSET Positions /\ RowsAt(body) = RowsAt(PositionsOf(Top)) \ Flagged
    BY <1>2, <2>1, HeldOutApart
  <2>4. RowsAt(FlaggedIn(Top)) = HeldOut(Top)
    BY <1>2, PartitionCount
  <2> HIDE DEF body
  <2> QED
    BY <2>1, <2>2, <2>3, <2>4
<1>10. /\ StrataIds' = StrataIds \union {Top} /\ strata' \in [StrataIds' -> Stratum]
       /\ \A h \in StrataIds : strata'[h] = strata[h]
       /\ strata'[Top].persisted /\ strata'[Top].body = body /\ strata'[Top].drawn = {}
  <2>1. Persist \in BOOLEAN /\ Persist
    BY EngineAssumption
  <2> HIDE DEF body
  <2> QED
    BY <1>1, <1>9, <2>1, NewStratumFacts
<1> HIDE DEF body
<1>11. ASSUME NEW h, h = Top
       PROVE  /\ StratumSound(h)' /\ strata'[h].drawn = {}
              /\ Universe(h)' = universe /\ ToBank(h)' = banked
  <2>1. /\ strata'[h].persisted /\ strata'[h].body = body /\ strata'[h].drawn = {}
        /\ nodes'[h].leaf /\ body = PositionsOf(h)' \ FlaggedIn(h)'
        /\ store'[h].population = Population(h)'
        /\ (store'[h].materialized <=> store[Top].materialized)
    BY <1>1, <1>5, <1>6, <1>9, <1>10, <1>11
  <2>0. RowsAt(FlaggedIn(h))' = HeldOut(Top)
    <3>1. RowsAt(FlaggedIn(h))' = RowsAt(FlaggedIn(h))
      BY <1>5 DEF RowsAt
    <3> QED
      BY <1>9, <1>11, <3>1
  <2>2. StratumSound(h)'
    BY <2>1 DEF StratumSound
  <2>3. Universe(h)' = universe
    <3>1. Universe(h)' = {rowAt'[p] : p \in strata'[h].body} /\ rowAt' = rowAt
      BY <1>5 DEF Universe, RowsAt, tableVars
    <3> QED
      BY <2>1, <3>1 DEF RowsAt
  <2>4. ToBank(h)' = banked
    BY <2>0, <2>1 DEF ToBank
  <2> QED
    BY <2>1, <2>2, <2>3, <2>4
<1>12. bucket' = [r \in RowIds |-> bucket[r] + (IF r \in direct \cap Present THEN 1 ELSE 0)]
  <2>1. store[Top].outlierBank = Indicator(direct \cap Present)
    <3>1. store[Top].outlierBank =
            Indicator(IF store[Top].materialized THEN HeldOut(Top) \cap Present ELSE {})
      BY <1>2, <1>9 DEF BankedOnce
    <3>2. (IF store[Top].materialized THEN HeldOut(Top) \cap Present ELSE {}) = direct \cap Present
      OBVIOUS
    <3> QED
      BY <3>1, <3>2, Zenon
  <2>2. \A r \in RowIds : Indicator(direct \cap Present)[r] = IF r \in direct \cap Present THEN 1 ELSE 0
    BY DEF Indicator
  <2> HIDE DEF direct
  <2> QED
    BY <1>1, <2>1, <2>2
<1>13. /\ universe \union banked \union direct \union {} = TopMatches
       /\ universe \cap banked = {} /\ (universe \union banked) \cap direct = {}
       /\ (universe \union banked \union direct) \cap {} = {}
  <2>1. HeldOut(Top) = RowsOf(Top) \cap Flagged
    BY DEF HeldOut
  <2>2. \/ banked = {} /\ direct = HeldOut(Top)
        \/ banked = HeldOut(Top) /\ direct = {}
    OBVIOUS
  <2>3. universe = RowsOf(Top) \ Flagged
    BY <1>9
  <2> HIDE DEF universe, banked, direct
  <2> QED
    BY <1>8, <2>1, <2>2, <2>3
<1>14. addback' = [r \in RowIds |-> addback[r] + (IF r \in {} THEN 1 ELSE 0)]
  BY <1>1, <1>2, SameBag
<1>15. /\ \A h \in {Top} : /\ StratumSound(h)' /\ strata'[h].drawn = {}
                           /\ Universe(h)' = universe /\ ToBank(h)' = banked
       /\ UNCHANGED <<round, reading, m>> /\ {Top} \subseteq {Top}
       /\ {Top} = {} => universe = {} /\ banked = {}
  <2> HIDE DEF universe, banked
  <2> QED
    BY <1>1, <1>11
<1> HIDE DEF universe, banked, direct
<1>16. Settles({Top}, universe, banked, direct, {})
  BY <1>1, <1>4, <1>7, <1>8, <1>10, <1>12, <1>13, <1>14, <1>15, Zenon DEF Settles
<1> QED
  BY <1>1, <1>16, SettlePreserves

\* The children of a split partition are two other partitions, neither empty, that
\* share out its rows.
LEMMA ChildrenShare ==
  ASSUME CrackInv, NEW i \in Ids, ~nodes[i].leaf
  PROVE  LET l == nodes[i].left
             r == nodes[i].right
         IN  /\ l \in Ids /\ r \in Ids /\ l # r
             /\ RowsOf(l) # {} /\ RowsOf(r) # {} /\ RowsOf(l) \cap RowsOf(r) = {}
             /\ RowsOf(i) = RowsOf(l) \union RowsOf(r)
<1> DEFINE l == nodes[i].left
           r == nodes[i].right
<1>1. /\ l \in Ids /\ r \in Ids
      /\ nodes[l].begin = nodes[i].begin /\ nodes[r].end = nodes[i].end
      /\ nodes[l].end = nodes[r].begin /\ Population(l) > 0 /\ Population(r) > 0
  BY DEF CrackInv, ChildrenTile
<1>2. /\ nodes[l] \in Node /\ nodes[r] \in Node /\ nodes[i] \in Node
  BY <1>1 DEF CrackInv, CrackTypeOK
<1> HIDE DEF l, r
<1>3. PICK a \in Nat, b \in Nat, c \in Nat :
        /\ nodes[l].begin = a /\ nodes[l].end = b /\ nodes[r].begin = b /\ nodes[r].end = c
        /\ nodes[i].begin = a /\ nodes[i].end = c
  BY <1>1, <1>2 DEF Node
<1>4. a < b /\ b < c
  BY <1>1, <1>3 DEF Population
<1>5. /\ PositionsOf(l) = a .. b - 1 /\ PositionsOf(r) = b .. c - 1 /\ PositionsOf(i) = a .. c - 1
  BY <1>3 DEF PositionsOf, Span
<1>6. /\ PositionsOf(l) # {} /\ PositionsOf(r) # {} /\ PositionsOf(l) \cap PositionsOf(r) = {}
      /\ PositionsOf(i) = PositionsOf(l) \union PositionsOf(r)
  <2>1. a \in PositionsOf(l) /\ b \in PositionsOf(r)
    BY <1>4, <1>5
  <2>2. PositionsOf(l) \cap PositionsOf(r) = {}
    BY <1>4, <1>5
  <2>3. a .. c - 1 = (a .. b - 1) \union (b .. c - 1)
    <3>1. a \in Nat /\ b \in Nat /\ c \in Nat
      OBVIOUS
    <3>2. \A p \in Int : p \in a .. c - 1 <=> p \in a .. b - 1 \/ p \in b .. c - 1
      BY ONLY <3>1, <1>4
    <3> QED
      BY <3>1, <3>2
  <2> QED
    BY <1>5, <2>1, <2>2, <2>3
<1>7. /\ \A j \in {i, l, r} : PositionsOf(j) \in SUBSET Positions /\ RowsOf(j) = RowsAt(PositionsOf(j))
  BY <1>1, PositionsInTable
<1>8. /\ RowsOf(l) # {} /\ RowsOf(r) # {} /\ RowsOf(l) \cap RowsOf(r) = {}
      /\ RowsOf(i) = RowsOf(l) \union RowsOf(r)
  BY <1>6, <1>7, RowsAtSets
<1>9. l # r
  BY <1>8
<1> QED
  BY <1>1, <1>8, <1>9 DEF l, r

\* The children take the place of their parent among what is still to be visited.
LEMMA VisitChildrenPreserves ==
  ASSUME EngineInv, Descending, IndexKept, IndexInv', UNCHANGED <<tableVars, treeVars>>,
         phase' = "descend", ~crack'.on, ~nodes[Top].leaf, VisitChildren,
         UNCHANGED <<strata, bucket, addback, total, round, reading, m>>
  PROVE  EngineInv'
<1> DEFINE lo == nodes[Top].left
           hi == nodes[Top].right
<1>1. /\ CrackInv /\ Top \in Ids /\ Top \in Pending /\ PendingApart
      /\ Tail(todo) \in Seq(Ids) /\ AllDifferent(Tail(todo)) /\ Pending \subseteq Ids
      /\ {Tail(todo)[k] : k \in DOMAIN Tail(todo)} = Pending \ {Top}
  BY TopFacts DEF EngineInv, IndexInv
<1>2. /\ lo \in Ids /\ hi \in Ids /\ lo # hi
      /\ RowsOf(lo) # {} /\ RowsOf(hi) # {} /\ RowsOf(lo) \cap RowsOf(hi) = {}
      /\ RowsOf(Top) = RowsOf(lo) \union RowsOf(hi)
  BY <1>1, ChildrenShare
<1>3. todo' = <<lo, hi>> \o Tail(todo)
  BY DEF VisitChildren
<1> HIDE DEF lo, hi
<1>4. /\ \A i : RowsOf(i)' = RowsOf(i)
      /\ Ids' = Ids /\ StrataIds' = StrataIds /\ request' = request
  BY SameIndex DEF StrataIds, IndexKept
<1>5. lo \notin Pending \ {Top} /\ hi \notin Pending \ {Top} /\ lo \notin StrataIds /\ hi \notin StrataIds
  BY <1>1, <1>2 DEF PendingApart
<1>6. /\ todo' \in Seq(Ids) /\ AllDifferent(todo') /\ Pending' = (Pending \ {Top}) \union {lo, hi}
  <2>1. PICK S, s, t : /\ S = Ids /\ s = Tail(todo) /\ t = todo'
    OBVIOUS
  <2>2. /\ s \in Seq(S) /\ AllDifferent(s) /\ Entries(s) = Pending \ {Top}
        /\ lo \in S /\ hi \in S /\ lo # hi
        /\ lo \notin Entries(s) /\ hi \notin Entries(s) /\ t = Pushed(lo, hi, s)
    BY <1>1, <1>2, <1>3, <1>5, <2>1, Zenon DEF Entries, Pushed
  <2>3. t \in Seq(S) /\ AllDifferent(t) /\ Entries(t) = Entries(s) \union {lo, hi}
    BY ONLY <2>2, PushSequence
  <2>4. Pending' = Entries(t)
    BY <2>1 DEF Pending, Entries
  <2> QED
    BY <2>1, <2>2, <2>3, <2>4, Zenon
<1>7. PendingApart'
  <2>1. ASSUME NEW i \in Pending', NEW j \in Pending', i # j
        PROVE  RowsOf(i)' \cap RowsOf(j)' = {}
    <3>1. /\ \A x, y \in Pending : x # y => RowsOf(x) \cap RowsOf(y) = {}
      BY <1>1 DEF PendingApart
    <3>2. /\ i \in Pending \ {Top} \/ i = lo \/ i = hi
          /\ j \in Pending \ {Top} \/ j = lo \/ j = hi
      BY <1>6
    <3>3. RowsOf(i) \cap RowsOf(j) = {}
      BY <1>1, <1>2, <2>1, <3>1, <3>2
    <3> QED
      BY <1>4, <3>3
  <2>2. ASSUME NEW h \in StrataIds, NEW j \in Pending'
        PROVE  h # j /\ RowsOf(h)' \cap RowsOf(j)' = {}
    <3>1. \A y \in Pending : h # y /\ RowsOf(h) \cap RowsOf(y) = {}
      BY <1>1 DEF PendingApart
    <3>2. j \in Pending \ {Top} \/ j = lo \/ j = hi
      BY <1>6
    <3>3. h # j /\ RowsOf(h) \cap RowsOf(j) = {}
      BY <1>1, <1>2, <1>5, <3>1, <3>2
    <3> QED
      BY <1>4, <3>3
  <2> QED
    BY <1>4, <2>1, <2>2 DEF PendingApart
<1>8. TodoSound'
  <2>1. (TodoSound <=> AllDifferent(todo) /\ PendingApart)'
    BY TodoByIdsNext
  <2> QED
    BY <1>6, <1>7, <2>1
<1>9. Settled' = Settled
  <2>1. \A r : Waiting(r)' <=> \E j \in Pending' : r \in RowsOf(j)'
    BY TodoByIdsNext
  <2>2. \A r : Waiting(r) <=> \E j \in Pending : r \in RowsOf(j)
    BY TodoByIds
  <2>3. \A r : Waiting(r)' <=> Waiting(r)
    BY <1>1, <1>2, <1>4, <1>6, <2>1, <2>2
  <2> QED
    BY <1>4, <2>3 DEF Settled, Qualifying
<1> QED
  BY <1>4, <1>6, <1>8, <1>9, ProceedPreserves

LEMMA DescendPreserves ==
  ASSUME EngineInv, Descend
  PROVE  EngineInv'
<1>1. /\ phase = "descend" /\ phase' = "descend" /\ Descending /\ ~nodes[Top].leaf
      /\ VisitChildren /\ UNCHANGED indexVars /\ request' = request
      /\ UNCHANGED <<strata, bucket, addback, total, round, reading, m>>
  BY DEF Descend, Visiting, Descending
<1>2. /\ IndexKept /\ IndexInv' /\ crack' = crack /\ UNCHANGED <<tableVars, treeVars>>
  BY <1>1, NothingMoved
<1>3. ~crack'.on
  BY <1>1, <1>2 DEF EngineInv, ControlSound
<1> QED
  BY <1>1, <1>2, <1>3, VisitChildrenPreserves

-----------------------------------------------------------------------------
(* Cracking the top of the descent.                                        *)

LEMMA BeginCrackPreserves ==
  ASSUME EngineInv, BeginCrack
  PROVE  EngineInv'
<1>1. /\ phase = "descend" /\ phase' = "refine" /\ Descending /\ RefineLeaf(Top, request.rect)
      /\ request' = request /\ todo' = todo
      /\ UNCHANGED <<strata, bucket, addback, total, round, reading, m>>
  BY DEF BeginCrack, Visiting, Descending, queryVars
<1>2. /\ IndexInv /\ EngineTypeOK /\ TodoSound /\ Top \in Ids /\ request.rect \in Queries
      /\ \A h \in StrataIds : nodes[h].leaf
  BY <1>1, TopFacts DEF EngineInv, StratumSound
<1>3. IndexInv'
  BY <1>1, <1>2, StoreIdlePreserves
<1>4. /\ UNCHANGED <<tableVars, treeVars>> /\ store' = store /\ batch' = batch
      /\ crack' = [NoCrack EXCEPT !.on = TRUE, !.leaf = Top, !.at = Top, !.q = request.rect]
      /\ BeginRefine(Top, request.rect)
  BY <1>1 DEF RefineLeaf, BeginRefine, storeVars
<1>5. crack'.on /\ crack'.leaf = Top
  BY <1>4 DEF NoCrack
<1>6. IndexKept
  <2>1. [CrackNext]_crackVars
    BY <1>2, <1>4 DEF CrackNext
  <2>2. nodes' = nodes
    BY <1>4 DEF treeVars
  <2> QED
    BY <1>1, <1>2, <1>3, <1>4, <2>1, <2>2 DEF IndexKept, IndexInv
<1>7. TodoSound' /\ Settled' = Settled /\ todo' \in Seq(Ids')
  <2>1. Ids' = Ids /\ (\A i : RowsOf(i)' = RowsOf(i)) /\ StrataIds' = StrataIds
    BY <1>1, <1>4, SameIndex DEF StrataIds
  <2> QED
    BY <1>1, <1>2, <2>1, TodoKept DEF EngineTypeOK
<1>8. todo' # <<>> /\ Head(todo') = Top
  BY <1>1 DEF Descending, Top
<1> QED
  BY <1>1, <1>3, <1>5, <1>6, <1>7, <1>8, ProceedPreserves

\* What is cut is not empty and lies within the top, so it is no stratum.
LEMMA CutIsNoStratum ==
  ASSUME EngineInv, phase = "refine", CrackFace
  PROVE  crack.at \in Ids /\ crack.at \notin StrataIds
<1>1. /\ CrackInv /\ Top \in Ids /\ crack.leaf = Top /\ PendingApart /\ Top \in Pending
      /\ crack.on /\ crack.at \in Ids /\ Population(crack.at) > MaxPopulation
  <2>1. Descending /\ crack.leaf = Top
    BY DEF EngineInv, ControlSound, Descending
  <2> QED
    BY <2>1, TopFacts DEF EngineInv, IndexInv, CrackInv, CrackTypeOK, CrackFace, MoreFaces
<1>2. PositionsOf(crack.at) \subseteq PositionsOf(Top)
  BY <1>1 DEF CrackInv, Trimming
<1>3. PositionsOf(crack.at) # {}
  <2>1. nodes[crack.at] \in Node
    BY <1>1 DEF CrackInv, CrackTypeOK
  <2>2. PICK a \in Nat, b \in Nat : a = nodes[crack.at].begin /\ b = nodes[crack.at].end
    BY <2>1 DEF Node
  <2>3. b - a > MaxPopulation
    BY <1>1, <2>2 DEF Population
  <2>4. a \in a .. b - 1
    BY <2>2, <2>3
  <2> QED
    BY <2>2, <2>4 DEF PositionsOf, Span
<1>4. RowsOf(crack.at) # {} /\ RowsOf(crack.at) \subseteq RowsOf(Top)
  BY <1>2, <1>3 DEF RowsOf
<1>5. \A h \in StrataIds : RowsOf(h) \cap RowsOf(Top) = {}
  BY <1>1 DEF PendingApart
<1> QED
  BY <1>1, <1>4, <1>5

LEMMA CrackStepPreserves ==
  ASSUME EngineInv, CrackStep
  PROVE  EngineInv'
<1>1. /\ phase = "refine" /\ phase' = "refine" /\ CrackFace /\ GrowStore /\ batch' = batch
      /\ request' = request /\ todo' = todo
      /\ UNCHANGED <<strata, bucket, addback, total, round, reading, m>> /\ CrackOneFace
  BY DEF CrackStep, CrackOneFace, queryVars
<1>2. /\ IndexInv /\ CrackInv /\ EngineTypeOK /\ TodoSound /\ todo # <<>> /\ crack.leaf = Top
      /\ Descending /\ StrataIds \subseteq Ids /\ Pending \subseteq Ids
      /\ \A h \in StrataIds : nodes[h].leaf
  <2>1. Descending
    BY <1>1 DEF EngineInv, ControlSound, Descending
  <2> QED
    BY <1>1, <2>1, TopFacts DEF EngineInv, StratumSound, ControlSound, IndexInv, EngineTypeOK
<1>3. IndexInv' /\ CrackInv' /\ [CrackNext]_crackVars
  BY <1>1, <1>2, CrackOneFacePreserves DEF IndexInv, CrackNext
<1>4. crack.at \in Ids /\ crack.at \notin StrataIds
  BY <1>1, CutIsNoStratum
<1>5. crack'.on /\ crack'.leaf = Top /\ \A j \in Ids \ {crack.at} : nodes'[j].leaf = nodes[j].leaf
  <2> DEFINE i     == crack.at
             axis  == Axis(crack.face)
             pivot == Pivot(crack.q, crack.face)
  <2>1. /\ crack \in Crack /\ crack.on
    BY <1>1, <1>2 DEF CrackInv, CrackTypeOK, CrackFace
  <2>2. i \in Ids /\ axis \in Axes /\ pivot \in Int /\ nodes[i].leaf
    BY <1>1, <1>2, CrackTypes DEF CrackFace
  <2>3. CASE CutSucceeds(i, axis, pivot) /\ AddChildren(i, axis, pivot)
             /\ crack' = [crack EXCEPT !.at = Toward(crack.face), !.face = @ + 1,
                                       !.retired = @ \union {i}]
    <3>1. \A j \in Ids \ {i} : nodes'[j] = nodes[j]
      BY <1>2, <2>2, <2>3, TreeAfterCut
    <3>2. crack'.on /\ crack'.leaf = crack.leaf
      BY <2>1, <2>3 DEF Crack
    <3> QED
      BY <1>2, <3>1, <3>2
  <2>4. CASE crack' = [crack EXCEPT !.face = @ + 1] /\ UNCHANGED treeVars
    BY <1>2, <2>1, <2>4 DEF Crack, treeVars
  <2> QED
    BY <1>1, <2>3, <2>4 DEF CrackFace, SplitAtFace
<1>6. \A j \in Ids : j \in Ids' /\ RowsOf(j)' = RowsOf(j)
  BY <1>2, <1>3, StepKeepsRows
<1>7. IndexKept
  <2>1. \A j \in Ids : store'[j] = store[j]
    BY <1>1, <1>6 DEF GrowStore, Ids
  <2> QED
    BY <1>1, <1>2, <1>3, <1>4, <1>5, <2>1 DEF IndexKept
<1>8. TodoSound' /\ Settled' = Settled /\ todo' \in Seq(Ids')
  <2>1. StrataIds' = StrataIds
    BY <1>1 DEF StrataIds
  <2>2. TodoSound' /\ Settled' = Settled
    BY <1>1, <1>2, <1>6, <2>1, TodoKept
  <2>3. todo \in Seq(Ids) /\ Ids \subseteq Ids'
    BY <1>2, <1>6 DEF EngineTypeOK
  <2>4. todo \in Seq(Ids')
    BY <2>3
  <2> QED
    BY <1>1, <2>2, <2>4
<1>9. todo' # <<>> /\ Head(todo') = Top
  BY <1>1, <1>2 DEF Top
<1> QED
  BY <1>1, <1>2, <1>3, <1>5, <1>7, <1>8, <1>9, ProceedPreserves

\* Retiring what was split releases no slot a stratum relies on: it is no leaf.
LEMMA EndCrackPreserves ==
  ASSUME EngineInv, EndCrack
  PROVE  EngineInv'
<1>1. /\ phase = "refine" /\ phase' = "descend" /\ FinishRefine /\ AfterRefine
      /\ request' = request /\ UNCHANGED <<bucket, round, reading, m>>
  BY DEF EndCrack
<1>2. /\ IndexInv /\ Descending /\ StrataIds \subseteq Ids /\ RetiredAreSplit
      /\ \A h \in StrataIds : nodes[h].leaf
  BY <1>1 DEF EngineInv, StratumSound, ControlSound, IndexInv, EngineTypeOK, Descending, StoreInv
<1>3. /\ EndRefine /\ batch' = batch /\ IndexInv'
      /\ \A h \in StrataIds : store'[h] = store[h]
  <2>1. CASE Persist
    <3>1. RetireSplit
      BY <1>1, <2>1 DEF FinishRefine
    <3>2. \A h \in StrataIds : h \notin crack.retired
      BY <1>2 DEF RetiredAreSplit
    <3> QED
      BY <1>2, <3>1, <3>2, RetireSplitPreserves DEF RetireSplit
  <2>2. CASE ~Persist
    <3>1. EndRefine /\ UNCHANGED storeVars
      BY <1>1, <2>2 DEF FinishRefine
    <3> QED
      BY <1>2, <3>1, StoreIdlePreserves DEF storeVars
  <2> QED
    BY <2>1, <2>2
<1>4. /\ UNCHANGED <<tableVars, treeVars>> /\ ~crack'.on /\ nodes' = nodes
  BY <1>3 DEF EndRefine, NoCrack, treeVars
<1>5. IndexKept
  <2>1. [CrackNext]_crackVars
    BY <1>3 DEF CrackNext
  <2> QED
    BY <1>1, <1>2, <1>3, <1>4, <2>1 DEF IndexKept, IndexInv
<1>6. CASE nodes[Top].leaf
  <2>1. EmitQueryLocal
    BY <1>1, <1>6 DEF AfterRefine
  <2> QED
    BY <1>1, <1>2, <1>3, <1>4, <1>5, <1>6, <2>1, EmitQueryLocalPreserves
<1>7. CASE ~nodes[Top].leaf
  <2>1. VisitChildren /\ UNCHANGED <<strata, addback, total>>
    BY <1>1, <1>7 DEF AfterRefine
  <2> QED
    BY <1>1, <1>2, <1>3, <1>4, <1>5, <1>7, <2>1, VisitChildrenPreserves
<1> QED
  BY <1>6, <1>7

-----------------------------------------------------------------------------
(* Reading the rows to add back.                                           *)

AddedBack == {r \in RowIds : addback[r] = 1}

\* Each of them is settled, is read once, and is in no stratum.
LEMMA AddedBackRows ==
  ASSUME EngineInv
  PROVE  /\ AddedBack \subseteq Settled /\ IsFiniteSet(AddedBack)
         /\ SumFunction(addback) = Cardinality(AddedBack) /\ Cardinality(AddedBack) \in Nat
         /\ \A r \in RowIds : addback[r] \in {0, 1}
         /\ \A h \in StrataIds : /\ Universe(h) \subseteq Settled \ AddedBack
                                 /\ ToBank(h) \subseteq Settled \ AddedBack
<1>1. /\ RowsSettled /\ addback \in RowBag
  BY DEF EngineInv, EngineTypeOK
<1>2. PICK us, bs : us = UNION {Universe(h) : h \in StrataIds} /\ bs = UNION {ToBank(h) : h \in StrataIds}
  OBVIOUS
<1>3. ASSUME NEW r \in RowIds
      PROVE  /\ addback[r] \in {0, 1}
             /\ addback[r] = 1 => r \in Settled /\ r \notin us /\ r \notin bs
             /\ r \in us \/ r \in bs => r \in Settled
  <2>1. PICK a \in Nat : a = addback[r]
    BY <1>1 DEF RowBag
  <2>2. a + (IF r \in us THEN 1 ELSE 0) + (IF r \in bs THEN 1 ELSE 0) <= (IF r \in Settled THEN 1 ELSE 0)
    BY <1>1, <1>2, <2>1 DEF RowsSettled, Counted, Indicator
  <2> QED
    BY <2>1, <2>2
<1>4. AddedBack \subseteq Settled /\ AddedBack \in SUBSET RowIds
  BY <1>3 DEF AddedBack
<1>5. IsFiniteSet(AddedBack) /\ Cardinality(AddedBack) \in Nat
  BY <1>4, TableFinite
<1>6. SumFunction(addback) = Cardinality(AddedBack)
  <2>1. \A r \in RowIds : addback[r] = IF r \in AddedBack THEN 1 ELSE 0
    BY <1>3 DEF AddedBack
  <2> QED
    BY <1>1, <1>4, <2>1, IndicatorSize
<1>7. ASSUME NEW h \in StrataIds
      PROVE  /\ Universe(h) \subseteq Settled \ AddedBack
             /\ ToBank(h) \subseteq Settled \ AddedBack
  <2>1. Universe(h) \subseteq us /\ ToBank(h) \subseteq bs
    BY <1>2
  <2>2. Universe(h) \subseteq RowIds /\ ToBank(h) \subseteq RowIds
    BY StratumRows
  <2> QED
    BY <1>3, <2>1, <2>2 DEF AddedBack
<1> QED
  BY <1>3, <1>4, <1>5, <1>6, <1>7

\* The counters after rows were added back.
LEMMA AddbackMetrics ==
  ASSUME m \in Metrics, m.reads = EmptyBag, NEW bag \in RowBag, NEW rows \in Nat,
         rows = SumFunction(bag),
         SumFunction(m.reads) = m.sampledRows + m.exactifiedRows + m.outlierRows,
         m' = [m EXCEPT !.reads = [r \in RowIds |-> @[r] + bag[r]], !.outlierRows = @ + rows]
  PROVE  /\ m' \in Metrics /\ m'.reads = bag /\ m'.cause = m.cause /\ m'.status = m.status
         /\ SumFunction(m'.reads) = m'.sampledRows + m'.exactifiedRows + m'.outlierRows
<1>1. PICK sampled \in Nat, exactified \in Nat, outliers \in Nat :
        /\ sampled = m.sampledRows /\ exactified = m.exactifiedRows /\ outliers = m.outlierRows
        /\ sampled = 0 /\ exactified = 0 /\ outliers = 0
  BY NothingSummed DEF Metrics
<1>2. outliers + rows = rows /\ rows = sampled + exactified + rows
  BY <1>1
<1>3. [r \in RowIds |-> m.reads[r] + bag[r]] = bag
  <2>1. \A r \in RowIds : m.reads[r] + bag[r] = bag[r]
    BY NothingSummed DEF RowBag
  <2>2. bag = [r \in RowIds |-> bag[r]]
    BY DEF RowBag
  <2> QED
    BY <2>1, <2>2
<1>4. m' = [m EXCEPT !.reads = bag, !.outlierRows = rows]
  BY <1>1, <1>2, <1>3
<1>5. m' \in Metrics
  BY <1>4 DEF Metrics
<1>6. /\ m'.reads = bag /\ m'.outlierRows = rows /\ m'.sampledRows = sampled
      /\ m'.exactifiedRows = exactified /\ m'.cause = m.cause /\ m'.status = m.status
  BY <1>1, <1>4 DEF Metrics
<1> QED
  BY <1>2, <1>5, <1>6

LEMMA ApplyAddbackPreserves ==
  ASSUME EngineInv, ApplyAddback
  PROVE  EngineInv'
<1>1. /\ phase = "descend" /\ todo = <<>> /\ phase' = "estimate" /\ addback' = EmptyBag
      /\ bucket' = [r \in RowIds |-> bucket[r] + (IF r \in Present THEN addback[r] ELSE 0)]
      /\ m' = [m EXCEPT !.reads = [r \in RowIds |-> @[r] + addback[r]],
                        !.outlierRows = @ + SumFunction(addback)]
      /\ UNCHANGED indexVars /\ request' = request /\ todo' = todo /\ strata' = strata
      /\ total' = total /\ round' = round /\ reading' = reading
  BY DEF ApplyAddback
<1>2. /\ IndexInv /\ RootHoldsAll /\ EngineTypeOK /\ ControlSound /\ TodoSound
      /\ RowsSettled /\ ReadsSound /\ RoundsSound /\ OutcomeSound
      /\ \A h \in StrataIds : StratumSound(h)
  BY DEF EngineInv
<1>3. /\ UNCHANGED <<tableVars, treeVars>> /\ crack' = crack /\ store' = store /\ batch' = batch
      /\ StrataIds' = StrataIds
  BY <1>1 DEF indexVars, crackVars, storeVars, StrataIds
<1>4. /\ nodes' = nodes /\ Ids' = Ids
      /\ \A i : /\ PositionsOf(i)' = PositionsOf(i) /\ RowsOf(i)' = RowsOf(i)
                /\ FlaggedIn(i)' = FlaggedIn(i) /\ Population(i)' = Population(i)
      /\ \A P : RowsAt(P)' = RowsAt(P)
  BY <1>3, SameIndex
<1>5. IndexInv' /\ RootHoldsAll'
  BY <1>1, <1>2, <1>4, StoreIdlePreserves DEF RootHoldsAll
<1>6. TodoSound' /\ Settled' = Settled
  BY <1>1, <1>2, <1>3, <1>4, TodoKept
<1>7. (\A h \in StrataIds : StratumSound(h))'
  BY <1>1, <1>2, <1>3, <1>4 DEF StratumSound, RowsAt
<1>8. /\ bucket' \in RowBag /\ addback' \in RowBag
  <2>1. \A r \in RowIds : bucket[r] \in Nat /\ addback[r] \in Nat
    BY <1>2 DEF EngineTypeOK, RowBag
  <2>2. \A r \in RowIds : bucket[r] + (IF r \in Present THEN addback[r] ELSE 0) \in Nat
    BY <2>1
  <2> QED
    BY <1>1, <2>2, NothingSummed DEF RowBag
<1>9. PICK rows \in Nat : rows = SumFunction(addback) /\ rows = Cardinality(AddedBack)
  BY AddedBackRows
<1>10. /\ m' \in Metrics /\ m'.reads = addback /\ m'.cause = m.cause /\ m'.status = m.status
       /\ SumFunction(m'.reads) = m'.sampledRows + m'.exactifiedRows + m'.outlierRows
  <2>1. /\ m \in Metrics /\ m.reads = EmptyBag /\ addback \in RowBag
        /\ SumFunction(m.reads) = m.sampledRows + m.exactifiedRows + m.outlierRows
    BY <1>1, <1>2 DEF EngineTypeOK, ReadsSound
  <2>2. m' = [m EXCEPT !.reads = [r \in RowIds |-> @[r] + addback[r]], !.outlierRows = @ + rows]
    BY <1>1, <1>9
  <2> QED
    BY <1>9, <2>1, <2>2, AddbackMetrics
<1>11. EngineTypeOK'
  BY <1>1, <1>2, <1>3, <1>4, <1>8, <1>10 DEF EngineTypeOK, Stratum
<1>12. ControlSound'
  BY <1>1, <1>2, <1>3, <1>10 DEF ControlSound, Top
<1>13. RowsSettled'
  <2>1. \A h : Universe(h)' = Universe(h) /\ ToBank(h)' = ToBank(h)
    BY <1>1, <1>3, <1>4 DEF Universe, ToBank, RowsAt
  <2>2. PICK us, bs : us = UNION {Universe(h) : h \in StrataIds} /\ bs = UNION {ToBank(h) : h \in StrataIds}
    OBVIOUS
  <2>3. \A r : /\ Counted(r) = addback[r] + Indicator(us)[r] + Indicator(bs)[r]
               /\ Counted(r)' = addback'[r] + Indicator(us)[r] + Indicator(bs)[r]
    <3>1. /\ UNION {Universe(h) : h \in StrataIds}' = us /\ UNION {ToBank(h) : h \in StrataIds}' = bs
      BY <1>3, <2>1, <2>2
    <3> QED
      BY <2>2, <3>1 DEF Counted
  <2>4. ASSUME NEW r \in RowIds
        PROVE  /\ Counted(r)' <= Indicator(Settled)[r]
               /\ r \in Present    => bucket'[r] + Counted(r)' = Indicator(Settled)[r]
               /\ r \notin Present => bucket'[r] = 0
    <3>1. PICK b \in Nat, a \in Nat, u \in {0, 1}, k \in {0, 1}, s \in {0, 1} :
            /\ b = bucket[r] /\ a = addback[r] /\ u = Indicator(us)[r] /\ k = Indicator(bs)[r]
            /\ s = Indicator(Settled)[r]
      BY <1>2 DEF EngineTypeOK, RowBag, Indicator
    <3>2. /\ Counted(r) = a + u + k /\ Counted(r)' = 0 + u + k
          /\ bucket'[r] = b + (IF r \in Present THEN a ELSE 0)
      BY <1>1, <2>3, <3>1, NothingSummed
    <3>3. /\ a + u + k <= s /\ (r \in Present => b + (a + u + k) = s) /\ (r \notin Present => b = 0)
      BY <1>2, <3>1, <3>2 DEF RowsSettled
    <3>4. PICK c, b1 : c = Counted(r)' /\ b1 = bucket'[r]
      OBVIOUS
    <3>5. c = u + k /\ b1 = b + (IF r \in Present THEN a ELSE 0)
      BY <3>1, <3>2, <3>4
    <3>6. /\ c <= s /\ (r \in Present => b1 + c = s) /\ (r \notin Present => b1 = 0)
      <4>1. a \in Nat /\ b \in Nat /\ u \in {0, 1} /\ k \in {0, 1} /\ s \in {0, 1}
        OBVIOUS
      <4>2. CASE r \in Present
        <5>1. b + (a + u + k) = s /\ b1 = b + a
          BY <3>3, <3>5, <4>2
        <5>2. c <= s /\ b1 + c = s
          BY ONLY <3>3, <3>5, <4>1, <5>1
        <5> QED
          BY <4>2, <5>2
      <4>3. CASE r \notin Present
        <5>1. b = 0 /\ b1 = b + 0
          BY <3>3, <3>5, <4>3
        <5>2. c <= s /\ b1 = 0
          BY ONLY <3>3, <3>5, <4>1, <5>1
        <5> QED
          BY <4>3, <5>2
      <4> QED
        BY <4>2, <4>3
    <3> QED
      BY <3>1, <3>4, <3>6
  <2> QED
    BY <1>1, <1>2, <1>6, <2>4 DEF RowsSettled
<1>14. DrawSound' /\ RoundsSound' /\ OutcomeSound'
  BY <1>1, <1>2, <1>10 DEF DrawSound, RoundsSound, RoundsWithinBudget, OutcomeSound, ControlSound, NeverExhausted
<1>15. ReadsSound'
  <2>1. PICK unread : unread = UNION {Unread(h) : h \in StrataIds}'
    OBVIOUS
  <2>2. unread \subseteq Settled \ AddedBack
    <3>1. ASSUME NEW h \in StrataIds PROVE Unread(h)' \subseteq Settled \ AddedBack
      <4>1. Universe(h)' = Universe(h) /\ ToBank(h)' = ToBank(h)
        BY <1>1, <1>3, <1>4 DEF Universe, ToBank, RowsAt
      <4> QED
        BY <4>1, AddedBackRows DEF Unread
    <3> QED
      BY <1>3, <2>1, <3>1
  <2>3. ASSUME NEW r \in RowIds
        PROVE  m'.reads[r] + Indicator(unread)[r] <= Indicator(Qualifying)[r]
    <3>1. PICK a \in Nat : a = addback[r]
      BY <1>2 DEF EngineTypeOK, RowBag
    <3>2. /\ a = IF r \in AddedBack THEN 1 ELSE 0
          /\ r \in AddedBack => r \in Settled
      BY <3>1, AddedBackRows DEF AddedBack
    <3>3. r \in Settled => r \in Qualifying
      BY DEF Settled
    <3> QED
      BY <1>10, <2>2, <3>1, <3>2, <3>3 DEF Indicator
  <2>4. Qualifying' = Qualifying
    BY <1>1 DEF Qualifying
  <2>5. \A r \in RowIds :
          m'.reads[r] + Indicator(UNION {Unread(h) : h \in StrataIds}')[r]
            <= Indicator(Qualifying)[r]
    BY <2>1, <2>3, Zenon
  <2> QED
    BY <1>1, <1>10, <2>4, <2>5 DEF ReadsSound
<1> QED
  BY <1>5, <1>6, <1>7, <1>11, <1>12, <1>13, <1>14, <1>15 DEF EngineInv

-----------------------------------------------------------------------------
(* The invariant holds from the first state on.                            *)

LEMMA EngineInitEstablishes ==
  ASSUME EngineInit
  PROVE  EngineInv
<1>1. /\ IndexInit /\ phase = "idle" /\ request = [rect |-> EmptyRect, exact |-> TRUE]
      /\ todo = <<>> /\ strata = NoStrata /\ bucket = EmptyBag /\ addback = EmptyBag
      /\ total = 0 /\ round = 0 /\ reading = NoRead /\ m = NoMetrics
  BY DEF EngineInit
<1>2. IndexInv
  BY <1>1, IndexInitEstablishes
<1>3. RootHoldsAll
  <2>1. /\ rowAt = [p \in Positions |-> p]
        /\ nodes[0].begin = 0 /\ nodes[0].end = N
    BY <1>1 DEF IndexInit, CrackInit
  <2>2. PositionsOf(0) = Positions
    BY <2>1 DEF PositionsOf, Span, Positions
  <2> QED
    BY <2>1, <2>2 DEF RootHoldsAll, RowsOf, RowIds, Positions
<1>4. StrataIds = {}
  BY <1>1 DEF StrataIds, NoStrata
<1>5. EngineTypeOK
  <2>1. EmptyRect \in Rect
    BY DEF EmptyRect, Rect, Vec
  <2>2. todo \in Seq(Ids)
    BY <1>1
  <2>3. strata \in [StrataIds -> Stratum]
    BY <1>1, <1>4 DEF NoStrata
  <2>4. m \in Metrics
    BY <1>1, NothingSummed DEF NoMetrics, Metrics
  <2>5. /\ DOMAIN reading.targets \subseteq Ids
        /\ reading \in [targets : [DOMAIN reading.targets -> Nat], work : SUBSET Ids,
                        escalated : BOOLEAN, next : {"exact", "loop", "terminal"}]
    BY <1>1 DEF NoRead
  <2> QED
    BY <1>1, <1>4, <2>1, <2>2, <2>3, <2>4, <2>5, NothingSummed DEF EngineTypeOK
<1>6. ControlSound
  <2>1. batch = {} /\ ~crack.on
    BY <1>1 DEF IndexInit, StoreInit, CrackInit, NoCrack
  <2> QED
    BY <1>1, <1>4, <2>1 DEF ControlSound, NoMetrics
<1>7. TodoSound
  BY <1>1, <1>4 DEF TodoSound
<1>8. Settled = {}
  <2>1. ASSUME NEW r \in Qualifying PROVE FALSE
    <3>1. 1 \in Axes
      BY DimsAssumption DEF Axes
    <3>2. /\ EmptyRect.low[1] = 0 /\ EmptyRect.high[1] = 0 /\ Point[r][1] \in Int
      BY <3>1 DEF EmptyRect, Qualifying, Vec
    <3>3. EmptyRect.low[1] <= Point[r][1] /\ Point[r][1] < EmptyRect.high[1]
      BY <1>1, <3>1 DEF Qualifying, ContainsPoint
    <3> QED
      BY <3>2, <3>3
  <2> QED
    BY <2>1 DEF Settled
<1>9. RowsSettled
  <2>1. /\ UNION {Universe(h) : h \in StrataIds} = {} /\ UNION {ToBank(h) : h \in StrataIds} = {}
    BY <1>4
  <2>2. /\ Indicator(Settled) = Indicator({})
        /\ Indicator(UNION {Universe(h) : h \in StrataIds}) = Indicator({})
        /\ Indicator(UNION {ToBank(h) : h \in StrataIds}) = Indicator({})
    BY <1>8, <2>1, Zenon
  <2>3. \A r \in RowIds : Counted(r) = 0 /\ Indicator(Settled)[r] = 0
    BY <1>1, <2>2, NothingSummed DEF Counted
  <2>4. total = Cardinality(Settled)
    BY <1>1, <1>8, NothingSummed
  <2> QED
    BY <1>1, <2>3, <2>4, NothingSummed DEF RowsSettled
<1>10. DrawSound /\ RoundsSound /\ OutcomeSound
  BY <1>1 DEF DrawSound, RoundsSound, RoundsWithinBudget, Larger, OutcomeSound, NeverExhausted,
              NoMetrics
<1>11. ReadsSound
  <2>1. UNION {Unread(h) : h \in StrataIds} = {}
    BY <1>4
  <2>2. \A r \in RowIds : Indicator({})[r] = 0 /\ Indicator(Qualifying)[r] \in {0, 1}
    BY DEF Indicator
  <2>3. /\ m.reads = EmptyBag /\ m.sampledRows = 0 /\ m.exactifiedRows = 0 /\ m.outlierRows = 0
    BY <1>1 DEF NoMetrics
  <2>4. \A r \in RowIds : m.reads[r] + Indicator({})[r] <= Indicator(Qualifying)[r]
    BY <2>2, <2>3, NothingSummed
  <2>5. \A r \in RowIds :
          m.reads[r] + Indicator(UNION {Unread(h) : h \in StrataIds})[r]
            <= Indicator(Qualifying)[r]
    BY <2>1, <2>4, Zenon
  <2>6. SumFunction(m.reads) = m.sampledRows + m.exactifiedRows + m.outlierRows
    BY <2>3, NothingSummed
  <2> QED
    BY <2>3, <2>5, <2>6 DEF ReadsSound
<1>12. \A h \in StrataIds : StratumSound(h)
  BY <1>4
<1> QED
  BY <1>2, <1>3, <1>5, <1>6, <1>7, <1>9, <1>10, <1>11, <1>12 DEF EngineInv

LEMMA EngineStepPreserves ==
  ASSUME EngineInv, [EngineNext]_engineVars
  PROVE  EngineInv'
<1>1. ASSUME NEW rect \in Queries, NEW exact \in ExactRequests, Execute(rect, exact)
      PROVE  EngineInv'
  BY <1>1, ExecutePreserves
<1>2. CASE DropDisjoint \/ EmitExact \/ Descend \/ ScanLeaf
  BY <1>2, DropDisjointPreserves, EmitExactPreserves, DescendPreserves, ScanLeafPreserves
<1>3. CASE EmitReusable
  BY <1>3, EmitTransientPreserves, EmitPersistedPreserves
<1>4. CASE BeginCrack \/ CrackStep \/ EndCrack
  BY <1>4, BeginCrackPreserves, CrackStepPreserves, EndCrackPreserves
<1>5. CASE ApplyAddback
  BY <1>5, ApplyAddbackPreserves
<1>6. ASSUME NEW h \in StrataIds, DrawPersisted(h) \/ DrawQueryLocal(h) \/ SkipStratum(h)
      PROVE  EngineInv'
  BY <1>6, DrawPersistedPreserves, DrawQueryLocalPreserves, SkipStratumPreserves
<1>7. CASE FoldRound \/ EmptyRound
  BY <1>7, FoldRoundPreserves, EmptyRoundPreserves
<1>8. CASE ReadExact \/ FinishExact \/ SkipPilot \/ Pilot
  BY <1>8, ReadExactPreserves, FinishExactPreserves, SkipPilotPreserves, PilotPreserves
<1>9. CASE PlannedRound \/ TerminalRead \/ Converge \/ GiveUp
  BY <1>9, PlannedRoundPreserves, TerminalReadPreserves, ConvergePreserves, GiveUpPreserves
<1>10. CASE UNCHANGED engineVars
  BY <1>10, EngineStutterPreserves
<1> QED
  BY <1>1, <1>2, <1>3, <1>4, <1>5, <1>6, <1>7, <1>8, <1>9, <1>10 DEF EngineNext, EngineStep

\* In every reachable state of the engine, whatever is persisted, cracked, drawn or
\* estimated: the index is sound, each qualifying row is where it should be, and
\* the round in progress will read what it set out to read.
THEOREM EngineInvariant == EngineSpec => []EngineInv
<1>1. EngineInit => EngineInv
  BY EngineInitEstablishes
<1>2. EngineInv /\ [EngineNext]_engineVars => EngineInv'
  BY EngineStepPreserves
<1> QED
  BY <1>1, <1>2, PTL DEF EngineSpec


\* The parts of the invariant that are properties as they stand: state has its
\* type, rounds stay in their budget, the terminal read leaves nothing to miss,
\* and an escalated round leaves nothing to read.
THEOREM EngineTypeCorrect == EngineSpec => []EngineTypeOK
<1>1. EngineInv => EngineTypeOK
  BY DEF EngineInv
<1> QED
  BY <1>1, EngineInvariant, PTL

\* query_engine.hpp's round budget: the pilot, the planned rounds and the terminal
\* read are never more than max_sampling_rounds, or two.
THEOREM RoundsStayInBudget == EngineSpec => []RoundsWithinBudget
<1>1. EngineInv => RoundsWithinBudget
  BY DEF EngineInv, RoundsSound
<1> QED
  BY <1>1, EngineInvariant, PTL

\* The outcome exhausted_unconverged is unreachable: after the terminal read no
\* stratum has any variance left.
THEOREM NeverMissesAtTheEnd == EngineSpec => []NeverExhausted
<1>1. EngineInv => NeverExhausted
  BY DEF EngineInv, OutcomeSound
<1> QED
  BY <1>1, EngineInvariant, PTL

\* Scan-to-exactify leaves no stratum short: the plan that escalated is read in
\* full before the loop looks at it again.
THEOREM EscalationIsFull == EngineSpec => []EscalationReadsEverything
<1>1. EngineInv => EscalationReadsEverything
  BY DEF EngineInv, OutcomeSound, EscalationReadsEverything, EverythingRead
<1> QED
  BY <1>1, EngineInvariant, PTL

\* The samples of the strata, those carried over from earlier queries included,
\* hold no row twice and none from outside their universe.
THEOREM StrataSampledWithoutReplacement == EngineSpec => []SamplesAreWithoutReplacement
<1>1. EngineInv => SamplesAreWithoutReplacement
  <2> SUFFICES ASSUME EngineInv, NEW h \in StrataIds
               PROVE  /\ Sampled(h) <= Size(h)
                      /\ \A r \in RowIds :
                           Moments(h)[r] <= Indicator(RowsAt(strata[h].body) \cap Present)[r]
    BY DEF SamplesAreWithoutReplacement
  <2>1. /\ Moments(h) = Indicator(FoldedRows(h) \cap Present)
        /\ FoldedRows(h) \subseteq RowsAt(strata[h].body) /\ Sampled(h) <= Size(h)
    BY SampleIsFolded, StratumSizes DEF Universe
  <2> QED
    BY <2>1 DEF Indicator
<1> QED
  BY <1>1, EngineInvariant, PTL

\* A query that stopped before reading everything had at least two samples of
\* every stratum it did not read in full, and every held-out row of the partitions
\* it reused is in the exact bucket.
THEOREM ConvergenceIsCertified == EngineSpec => []ConvergedIsCertified
<1>1. EngineInv => ConvergedIsCertified
  <2> SUFFICES ASSUME EngineInv, m.status = "converged", NEW h \in StrataIds
               PROVE  /\ ReadInFull(h) \/ Sampled(h) >= 2
                      /\ strata[h].persisted => FlaggedIn(h) = {} \/ store[h].materialized
    BY DEF ConvergedIsCertified
  <2>1. ~Unmaterialized /\ MaySatisfy
    BY DEF EngineInv, OutcomeSound
  <2>2. ToBank(h) = {}
    BY <2>1, NothingToBank DEF Unmaterialized
  <2>3. strata[h].persisted /\ ~store[h].materialized => FlaggedIn(h) = {}
    BY <2>2 DEF ToBank, RowsAt
  <2> QED
    BY <2>1, <2>3 DEF MaySatisfy
<1> QED
  BY <1>1, EngineInvariant, PTL

\* A query fetches each row of its rectangle at most once and no other row, counted
\* row by row, and the counters the metrics split the reads into add up to them.
THEOREM ReadsAreAccountedFor == EngineSpec => []ReadsAccountedFor
<1>1. EngineInv => ReadsAccountedFor
  <2> SUFFICES ASSUME EngineInv, NEW r \in RowIds PROVE m.reads[r] <= Indicator(Qualifying)[r]
    BY DEF EngineInv, ReadsSound, ReadsAccountedFor
  <2>1. PICK n \in Nat, q \in {0, 1}, u \in {0, 1} :
          /\ n = m.reads[r] /\ q = Indicator(Qualifying)[r]
          /\ u = Indicator(UNION {Unread(h) : h \in StrataIds})[r]
    BY DEF EngineInv, EngineTypeOK, Metrics, RowBag, Indicator
  <2>2. CASE phase \in {"descend", "refine"}
    BY <2>1, <2>2, NothingSummed DEF EngineInv, ReadsSound
  <2>3. CASE phase \notin {"descend", "refine"}
    <3>1. n + u <= q
      BY <2>1, <2>3 DEF EngineInv, ReadsSound
    <3>2. n <= q
      BY <3>1
    <3> QED
      BY <2>1, <3>2
  <2> QED
    BY <2>2, <2>3
<1> QED
  BY <1>1, EngineInvariant, PTL


\* Sums over strata: the moments of those read in full are the present rows of
\* their universes, each once.
LEMMA FullMoments ==
  ASSUME EngineInv, NEW r \in RowIds, NEW H \in SUBSET StrataIds, \A h \in H : ReadInFull(h)
  PROVE  SumFunctionOnSet([h \in StrataIds |-> Moments(h)[r]], H)
           = Indicator((UNION {Universe(h) : h \in H}) \cap Present)[r]
<1> DEFINE moments == [h \in StrataIds |-> Moments(h)[r]]
           own     == [h \in H |-> IF r \in Universe(h) \cap Present THEN {r} ELSE {}]
           known   == (UNION {Universe(h) : h \in H}) \cap Present
<1>1. IsFiniteSet(H)
  BY RowsForCounts
<1>2. /\ IsFiniteSet({}) /\ Cardinality({}) = 0 /\ IsFiniteSet({r}) /\ Cardinality({r}) = 1
  BY FS_EmptySet, FS_Singleton
<1>3. ASSUME NEW h \in H
      PROVE  /\ moments[h] = IF r \in Universe(h) \cap Present THEN 1 ELSE 0
             /\ own[h] = IF r \in Universe(h) \cap Present THEN {r} ELSE {}
             /\ IsFiniteSet(own[h]) /\ moments[h] = Cardinality(own[h])
  <2>1. Moments(h) = Indicator(FoldedRows(h) \cap Present) /\ FoldedRows(h) = Universe(h)
    BY SampleIsFolded, StratumSizes
  <2>2. Moments(h) = Indicator(Universe(h) \cap Present)
    BY <2>1, Zenon
  <2>3. moments[h] = IF r \in Universe(h) \cap Present THEN 1 ELSE 0
    BY <2>2 DEF Indicator
  <2>4. own[h] = IF r \in Universe(h) \cap Present THEN {r} ELSE {}
    OBVIOUS
  <2> HIDE DEF moments, own
  <2>5. CASE r \in Universe(h) \cap Present
    <3>1. moments[h] = 1 /\ own[h] = {r}
      BY <2>3, <2>4, <2>5
    <3> QED
      BY <1>2, <2>3, <2>4, <3>1
  <2>6. CASE r \notin Universe(h) \cap Present
    <3>1. moments[h] = 0 /\ own[h] = {}
      BY <2>3, <2>4, <2>6
    <3> QED
      BY <1>2, <2>3, <2>4, <3>1
  <2> QED
    BY <2>5, <2>6
<1> HIDE DEF moments, own
<1>4. ASSUME NEW g \in H, NEW h \in H, g # h PROVE own[g] \cap own[h] = {}
  <2>1. Universe(g) \cap Universe(h) = {}
    <3>1. RowsOf(g) \cap RowsOf(h) = {}
      BY <1>4, StrataApart
    <3>2. Universe(g) \subseteq RowsOf(g) /\ Universe(h) \subseteq RowsOf(h)
      BY StratumRows
    <3> QED
      BY <3>1, <3>2
  <2>2. /\ own[g] = IF r \in Universe(g) \cap Present THEN {r} ELSE {}
        /\ own[h] = IF r \in Universe(h) \cap Present THEN {r} ELSE {}
    BY <1>3
  <2> QED
    BY <2>1, <2>2
<1>5. SumFunctionOnSet(moments, H) = Cardinality(UNION {own[h] : h \in H})
  BY <1>1, <1>3, <1>4, SumOfSizes
<1>6. UNION {own[h] : h \in H} = IF r \in known THEN {r} ELSE {}
  <2>1. \A h \in H : own[h] = IF r \in Universe(h) \cap Present THEN {r} ELSE {}
    BY <1>3
  <2>2. CASE r \in known
    <3>1. PICK h \in H : r \in Universe(h) \cap Present
      BY <2>2
    <3> QED
      BY <2>1, <2>2, <3>1
  <2>3. CASE r \notin known
    BY <2>1, <2>3
  <2> QED
    BY <2>2, <2>3
<1>7. Cardinality(UNION {own[h] : h \in H}) = IF r \in known THEN 1 ELSE 0
  <2>1. CASE r \in known
    <3>1. UNION {own[h] : h \in H} = {r}
      BY <1>6, <2>1
    <3> QED
      BY <1>2, <2>1, <3>1
  <2>2. CASE r \notin known
    <3>1. UNION {own[h] : h \in H} = {}
      BY <1>6, <2>2
    <3> QED
      BY <1>2, <2>2, <3>1
  <2> QED
    BY <2>1, <2>2
<1>8. Indicator(known)[r] = IF r \in known THEN 1 ELSE 0
  BY DEF Indicator
<1> HIDE DEF known
<1>9. SumFunctionOnSet(moments, H) = Indicator(known)[r]
  BY <1>5, <1>7, <1>8, Zenon
<1> QED
  BY <1>9 DEF moments, known

\* What is settled when a query has ended.
LEMMA QueryEnded ==
  ASSUME EngineInv, phase \notin {"descend", "refine"}
  PROVE  /\ Settled = Qualifying /\ total = Cardinality(Qualifying)
         /\ phase # "draw" => \A h \in StrataIds : BodyRows(h) = {}
         /\ ~Unmaterialized =>
              \A r \in RowIds :
                /\ r \in Present =>
                     bucket[r] + Indicator(UNION {Universe(h) : h \in StrataIds})[r]
                       = Indicator(Qualifying)[r]
                /\ r \notin Present => bucket[r] = 0
                /\ Indicator(UNION {Universe(h) : h \in StrataIds})[r] <= Indicator(Qualifying)[r]
<1>1. /\ todo = <<>> /\ addback = EmptyBag /\ RowsSettled /\ bucket \in RowBag
      /\ phase # "draw" => batch = {} /\ \A h \in StrataIds : strata[h].drawn = {}
  BY DEF EngineInv, ControlSound, EngineTypeOK
<1>2. Settled = Qualifying
  BY <1>1 DEF Settled, Waiting
<1>3. total = Cardinality(Qualifying)
  BY <1>1, <1>2, Zenon DEF RowsSettled
<1>4. phase # "draw" => \A h \in StrataIds : BodyRows(h) = {}
  BY <1>1 DEF BodyRows, RowsOfCursors
<1>5. ASSUME ~Unmaterialized, NEW r \in RowIds
      PROVE  /\ r \in Present =>
                  bucket[r] + Indicator(UNION {Universe(h) : h \in StrataIds})[r]
                    = Indicator(Qualifying)[r]
             /\ r \notin Present => bucket[r] = 0
             /\ Indicator(UNION {Universe(h) : h \in StrataIds})[r] <= Indicator(Qualifying)[r]
  <2>1. \A h \in StrataIds : ToBank(h) = {}
    BY <1>5, NothingToBank DEF Unmaterialized
  <2>2. UNION {ToBank(h) : h \in StrataIds} = {}
    BY <2>1
  <2>3. Indicator(UNION {ToBank(h) : h \in StrataIds}) = Indicator({})
    BY <2>2, Zenon
  <2>4. PICK u \in {0, 1}, b \in Nat, s \in {0, 1} :
          /\ u = Indicator(UNION {Universe(h) : h \in StrataIds})[r] /\ b = bucket[r]
          /\ s = Indicator(Qualifying)[r] /\ s = Indicator(Settled)[r]
    BY <1>1, <1>2 DEF Indicator, RowBag
  <2>5. Counted(r) = 0 + u + 0
    BY <1>1, <2>3, <2>4, NothingSummed DEF Counted
  <2>6. /\ Counted(r) <= s /\ (r \in Present => b + Counted(r) = s) /\ (r \notin Present => b = 0)
    BY <1>1, <2>4 DEF RowsSettled
  <2>7. Counted(r) = u
    <3>1. 0 + u + 0 = u
      OBVIOUS
    <3> QED
      BY <2>5, <3>1, Zenon
  <2>8. u <= s /\ (r \in Present => b + u = s) /\ (r \notin Present => b = 0)
    BY <2>6, <2>7, Zenon
  <2> QED
    BY <2>4, <2>8, Zenon
<1> QED
  BY <1>2, <1>3, <1>4, <1>5

\* An answer reported as exact, or as exactified, has every present row of the
\* rectangle in it once, and nothing else.
THEOREM ExactAnswersHaveEveryRow == EngineSpec => []ExactAnswersAreExact
<1>1. EngineInv => ExactAnswersAreExact
  <2> SUFFICES ASSUME EngineInv, phase = "idle", m.status \in {"exact", "exactified"},
                      NEW r \in RowIds
               PROVE  bucket[r] + SumFunction([h \in StrataIds |-> Moments(h)[r]])
                        = Indicator(Qualifying \cap Present)[r]
    BY DEF ExactAnswersAreExact
  <2>1. ~Unmaterialized /\ EverythingRead
    BY DEF EngineInv, OutcomeSound
  <2>2. PICK us : us = UNION {Universe(h) : h \in StrataIds}
    OBVIOUS
  <2>3. SumFunctionOnSet([h \in StrataIds |-> Moments(h)[r]], StrataIds) = Indicator(us \cap Present)[r]
    <3>1. SumFunctionOnSet([h \in StrataIds |-> Moments(h)[r]], StrataIds)
            = Indicator((UNION {Universe(h) : h \in StrataIds}) \cap Present)[r]
      BY <2>1, FullMoments DEF EverythingRead
    <3> QED
      BY <2>2, <3>1, Zenon
  <2>4. SumFunction([h \in StrataIds |-> Moments(h)[r]]) = Indicator(us \cap Present)[r]
    <3>1. DOMAIN [h \in StrataIds |-> Moments(h)[r]] = StrataIds
      OBVIOUS
    <3> QED
      BY <2>3, <3>1, Zenon DEF SumFunction
  <2>5. /\ r \in Present => bucket[r] + Indicator(us)[r] = Indicator(Qualifying)[r]
        /\ r \notin Present => bucket[r] = 0
    BY <2>1, <2>2, QueryEnded
  <2>6. bucket[r] \in Nat
    BY DEF EngineInv, EngineTypeOK, RowBag
  <2>7. bucket[r] + Indicator(us \cap Present)[r] = Indicator(Qualifying \cap Present)[r]
    BY <2>5, <2>6 DEF Indicator
  <2> QED
    BY <2>4, <2>7, Zenon
<1> QED
  BY <1>1, EngineInvariant, PTL

LEMMA AtMostOne ==
  ASSUME NEW H, \A g, h \in H : g = h
  PROVE  Cardinality(H) = IF H = {} THEN 0 ELSE 1
<1>1. CASE H = {}
  BY <1>1, FS_EmptySet
<1>2. CASE H # {}
  <2>1. PICK h : H = {h}
    BY <1>2
  <2>2. Cardinality({h}) = 1
    BY FS_Singleton
  <2> QED
    BY <1>2, <2>1, <2>2
<1> QED
  BY <1>1, <1>2

\* Throughout a query every row of the rectangle counts once in the answer under
\* construction or waits in one partition, and no other row counts at all.
THEOREM RowsCountOnce == EngineSpec => []EachRowCountsOnce
<1>1. EngineInv => EachRowCountsOnce
  <2> SUFFICES ASSUME EngineInv, NEW r \in Present
               PROVE  IF r \in Qualifying THEN Shares(r) + Unvisited(r) = 1 ELSE Shares(r) = 0
    BY DEF EachRowCountsOnce
  <2> DEFINE inBody == {h \in StrataIds : r \in RowsAt(strata[h].body)}
             inBank == {h \in StrataIds : /\ strata[h].persisted /\ ~store[h].materialized
                                          /\ r \in RowsAt(FlaggedIn(h))}
             inTodo == {k \in DOMAIN todo : r \in RowsOf(todo[k])}
  <2>1. /\ r \in RowIds /\ RowsSettled /\ TodoSound /\ bucket \in RowBag /\ addback \in RowBag
    BY DEF EngineInv, EngineTypeOK
  <2>2. inBank = {h \in StrataIds : r \in ToBank(h)} /\ inBody = {h \in StrataIds : r \in Universe(h)}
    BY DEF ToBank, Universe
  <2>3. \A h \in StrataIds : Universe(h) \subseteq RowsOf(h) /\ ToBank(h) \subseteq RowsOf(h)
    BY StratumRows
  <2>4. \A g, h \in StrataIds : g # h => RowsOf(g) \cap RowsOf(h) = {}
    BY StrataApart
  <2>5. /\ \A g, h \in inBody : g = h
        /\ \A g, h \in inBank : g = h
    BY <2>2, <2>3, <2>4
  <2>6. \A g, h \in inTodo : g = h
    BY <2>1 DEF TodoSound
  <2>7. /\ inBody = {} <=> r \notin UNION {Universe(h) : h \in StrataIds}
        /\ inBank = {} <=> r \notin UNION {ToBank(h) : h \in StrataIds}
        /\ inTodo = {} <=> ~Waiting(r)
    BY <2>2 DEF Waiting
  <2>8. /\ Shares(r) = bucket[r] + addback[r] + Cardinality(inBody) + Cardinality(inBank)
        /\ Unvisited(r) = Cardinality(inTodo)
    BY DEF Shares, Unvisited
  <2> HIDE DEF inBody, inBank, inTodo
  <2>9. /\ Cardinality(inBody) = Indicator(UNION {Universe(h) : h \in StrataIds})[r]
        /\ Cardinality(inBank) = Indicator(UNION {ToBank(h) : h \in StrataIds})[r]
        /\ Cardinality(inTodo) = IF Waiting(r) THEN 1 ELSE 0
    BY <2>1, <2>5, <2>6, <2>7, AtMostOne DEF Indicator
  <2>10. PICK b \in Nat, a \in Nat, u \in {0, 1}, k \in {0, 1}, w \in {0, 1} :
           /\ b = bucket[r] /\ a = addback[r] /\ u = Cardinality(inBody)
           /\ k = Cardinality(inBank) /\ w = Cardinality(inTodo)
    BY <2>1, <2>9 DEF RowBag, Indicator
  <2>11. Counted(r) = a + u + k /\ Shares(r) = b + a + u + k /\ Unvisited(r) = w
    BY <2>8, <2>9, <2>10 DEF Counted
  <2>12. b + (a + u + k) = IF r \in Settled THEN 1 ELSE 0
    BY <2>1, <2>10, <2>11 DEF RowsSettled, Indicator
  <2>13. w = IF Waiting(r) THEN 1 ELSE 0
    BY <2>9, <2>10
  <2>14. CASE r \in Qualifying
    <3>1. r \in Settled <=> ~Waiting(r)
      BY <2>14 DEF Settled
    <3>2. b + (a + u + k) + w = 1
      BY <2>10, <2>12, <2>13, <3>1
    <3>3. Shares(r) + Unvisited(r) = 1
      BY <2>11, <3>2
    <3> QED
      BY <2>14, <3>3
  <2>15. CASE r \notin Qualifying
    <3>1. r \notin Settled
      BY <2>15 DEF Settled
    <3>2. Shares(r) = 0
      BY <2>10, <2>11, <2>12, <3>1
    <3> QED
      BY <2>15, <3>2
  <2> QED
    BY <2>14, <2>15
<1> QED
  BY <1>1, EngineInvariant, PTL

-----------------------------------------------------------------------------
(* What the engine asks of the index.                                      *)

\* Every step of the engine that touches the index is one step of it, and when
\* summaries persist one of the store over it as well.
LEMMA EngineStepOnIndex ==
  ASSUME EngineInv, [EngineNext]_engineVars
  PROVE  [CrackNext]_crackVars /\ (Persist => [IndexNext]_indexVars)
<1>1. CASE UNCHANGED indexVars
  BY <1>1 DEF indexVars
<1>2. CASE EmitReusable /\ Persist
  <2>1. Descending /\ PrepareLeaf(Top)
    BY <1>2 DEF EmitReusable, Visiting, Descending
  <2>2. Top \in Ids
    BY <2>1, TopFacts
  <2> QED
    BY <2>1, <2>2 DEF IndexNext, PrepareLeaf
<1>3. CASE BeginCrack
  <2>1. Descending /\ RefineLeaf(Top, request.rect)
    BY <1>3 DEF BeginCrack, Visiting, Descending
  <2>2. Top \in Ids /\ request.rect \in Queries
    BY <2>1, TopFacts
  <2> QED
    BY <2>1, <2>2 DEF IndexNext, CrackNext, RefineLeaf
<1>4. CASE CrackStep
  BY <1>4 DEF CrackStep, CrackOneFace, IndexNext, CrackNext
<1>5. CASE EndCrack
  BY <1>5 DEF EndCrack, FinishRefine, RetireSplit, IndexNext, CrackNext
<1>6. ASSUME NEW h \in StrataIds, DrawPersisted(h)
      PROVE  [CrackNext]_crackVars /\ [IndexNext]_indexVars
  <2>1. PICK picks : picks \in Draws(h, Eligible(h)) /\ DrawReusable(h, picks)
    BY <1>6 DEF DrawPersisted
  <2>2. h \in Ids /\ picks \in SUBSET Eligible(h)
    BY <2>1 DEF DrawReusable, EngineInv, EngineTypeOK
  <2> QED
    BY <2>1, <2>2 DEF IndexNext, DrawReusable
<1>7. CASE FoldRound
  <2>1. FoldBatch \/ UNCHANGED indexVars
    BY <1>7 DEF FoldRound
  <2> QED
    BY <1>1, <2>1 DEF IndexNext, FoldBatch
<1>8. CASE EmitReusable /\ ~Persist
  <2>1. UNCHANGED indexVars
    BY <1>8 DEF EmitReusable
  <2> QED
    BY <1>1, <2>1
<1>9. ASSUME NEW h \in StrataIds, DrawQueryLocal(h) \/ SkipStratum(h)
      PROVE  UNCHANGED indexVars
  BY <1>9 DEF DrawQueryLocal, SkipStratum
<1>10. ASSUME \/ DropDisjoint \/ EmitExact \/ Descend \/ ScanLeaf \/ ApplyAddback \/ EmptyRound
              \/ ReadExact \/ FinishExact \/ SkipPilot \/ Pilot \/ PlannedRound \/ TerminalRead
              \/ Converge \/ GiveUp \/ UNCHANGED engineVars
       PROVE  UNCHANGED indexVars
  <2>1. CASE DropDisjoint \/ EmitExact \/ Descend \/ ScanLeaf \/ ApplyAddback \/ EmptyRound
    BY <2>1 DEF DropDisjoint, EmitExact, Descend, ScanLeaf, ApplyAddback, EmptyRound
  <2>2. CASE ReadExact \/ SkipPilot \/ Pilot \/ PlannedRound \/ TerminalRead
    BY <2>2 DEF ReadExact, SkipPilot, Pilot, PlannedRound, TerminalRead, ControlUnchanged
  <2>3. CASE FinishExact \/ Converge \/ GiveUp
    BY <2>3 DEF FinishExact, Converge, GiveUp, Finish, ControlUnchanged
  <2>4. CASE UNCHANGED engineVars
    BY <2>4 DEF engineVars
  <2> QED
    BY <1>10, <2>1, <2>2, <2>3, <2>4
<1>11. ASSUME NEW rect \in Queries, NEW exact \in ExactRequests, Execute(rect, exact)
       PROVE  UNCHANGED indexVars
  BY <1>11 DEF Execute
<1> QED
  BY <1>1, <1>2, <1>3, <1>4, <1>5, <1>6, <1>7, <1>8, <1>9, <1>10, <1>11
     DEF EngineNext, EngineStep

\* Whatever it is configured for, the engine refines the cracking index: what is
\* proved of every history of cracks holds of those the engine makes.
THEOREM EngineRefinesCrack == EngineSpec => CrackSpec
<1>1. EngineInit => CrackInit
  BY DEF EngineInit, IndexInit
<1>2. EngineInv /\ [EngineNext]_engineVars => [CrackNext]_crackVars
  BY EngineStepOnIndex
<1> QED
  BY <1>1, <1>2, EngineInvariant, PTL DEF EngineSpec, CrackSpec

\* When summaries persist the engine keeps to the discipline the store asks of it:
\* it draws eligible rows only, never cracks with cursors in flight, and retires
\* whatever a crack has split.
THEOREM EngineRefinesIndex == ASSUME Persist PROVE EngineSpec => IndexSpec
<1>1. EngineInit => IndexInit
  BY DEF EngineInit
<1>2. EngineInv /\ [EngineNext]_engineVars => [IndexNext]_indexVars
  BY EngineStepOnIndex
<1> QED
  BY <1>1, <1>2, EngineInvariant, PTL DEF EngineSpec, IndexSpec
===============================================================================
