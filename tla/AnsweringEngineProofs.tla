----------------------- MODULE AnsweringEngineProofs ------------------------
(***************************************************************************)
(* QueryEngine implements RangeAnswer, step by step: for every table,      *)
(* every set of queries and every configuration, whatever was cracked and  *)
(* reused and however the rounds sampled, each reply is a right answer.    *)
(***************************************************************************)
EXTENDS AnsweringEngine, QueryEngineProofs

\* An exact request never enters the rounds that may stop short of a full read.
ExactStays ==
  phase \in {"loop", "terminal"} \/ (phase = "draw" /\ reading.next # "exact")
    => ~request.exact

TheAnswer == [count |-> total, known |-> KnownRows, estimated |-> EstimatedRows]

\* What the caller sees of a step inside execute(): nothing.
Unseen == phase # "idle" /\ phase' # "idle" /\ request' = request

\* Steps that end a query.
Ends == FinishExact \/ Converge \/ GiveUp
-----------------------------------------------------------------------------
(* Which steps the caller can see.                                         *)

LEMMA DescentUnseen ==
  ASSUME EngineInv, ExactStays,
         \/ DropDisjoint \/ EmitExact \/ EmitReusable \/ Descend \/ ScanLeaf
         \/ BeginCrack \/ CrackStep \/ EndCrack \/ ApplyAddback
  PROVE  Unseen /\ ExactStays'
<1>1. CASE DropDisjoint \/ EmitExact \/ EmitReusable \/ Descend \/ ScanLeaf
  <2>1. phase = "descend" /\ phase' = phase /\ request' = request
    BY <1>1 DEF DropDisjoint, EmitExact, EmitReusable, Descend, ScanLeaf, Visiting
  <2> QED
    BY <2>1 DEF Unseen, ExactStays
<1>2. CASE BeginCrack \/ CrackStep \/ EndCrack
  <2>1. phase \in {"descend", "refine"} /\ phase' \in {"descend", "refine"} /\ request' = request
    BY <1>2 DEF BeginCrack, CrackStep, EndCrack, Visiting, queryVars
  <2> QED
    BY <2>1 DEF Unseen, ExactStays
<1>3. CASE ApplyAddback
  <2>1. phase = "descend" /\ phase' = "estimate" /\ request' = request
    BY <1>3 DEF ApplyAddback
  <2> QED
    BY <2>1 DEF Unseen, ExactStays
<1> QED
  BY <1>1, <1>2, <1>3

LEMMA RoundUnseen ==
  ASSUME EngineInv, ExactStays,
         \/ \E h \in StrataIds : DrawPersisted(h) \/ DrawQueryLocal(h) \/ SkipStratum(h)
         \/ FoldRound \/ EmptyRound
  PROVE  Unseen /\ ExactStays'
<1>1. ASSUME NEW h \in StrataIds, DrawPersisted(h) \/ DrawQueryLocal(h) \/ SkipStratum(h)
      PROVE  Unseen /\ ExactStays'
  <2>1. phase = "draw" /\ phase' = phase /\ request' = request /\ Drawn(h)
    BY <1>1 DEF DrawPersisted, DrawQueryLocal, SkipStratum, NextStratum
  <2>2. reading'.next = reading.next
    BY <2>1 DEF Drawn, EngineInv, EngineTypeOK
  <2> QED
    BY <2>1, <2>2 DEF Unseen, ExactStays
<1>2. CASE FoldRound \/ EmptyRound
  <2>1. /\ phase = "draw" /\ phase' = reading.next /\ request' = request
        /\ reading.next \in {"exact", "loop", "terminal"}
    BY <1>2 DEF FoldRound, EmptyRound, EngineInv, EngineTypeOK
  <2> QED
    BY <2>1 DEF Unseen, ExactStays
<1> QED
  BY <1>1, <1>2

LEMMA ControlUnseen ==
  ASSUME EngineInv, ExactStays, ReadExact \/ SkipPilot \/ Pilot \/ PlannedRound \/ TerminalRead
  PROVE  Unseen /\ ExactStays'
<1>1. CASE ReadExact
  <2>1. phase = "estimate" /\ phase' = "draw" /\ reading'.next = "exact" /\ request' = request
    BY <1>1 DEF ReadExact, StartRound, ControlUnchanged
  <2> QED
    BY <2>1 DEF Unseen, ExactStays
<1>2. CASE SkipPilot \/ Pilot
  <2>1. phase = "estimate" /\ phase' \in {"draw", "loop"} /\ ~request.exact /\ request' = request
    BY <1>2 DEF SkipPilot, Pilot, StartRound, ControlUnchanged
  <2> QED
    BY <2>1 DEF Unseen, ExactStays
<1>3. CASE PlannedRound \/ TerminalRead
  <2>1. phase = "loop" /\ phase' = "draw" /\ request' = request
    BY <1>3 DEF PlannedRound, TerminalRead, StartRound, ControlUnchanged
  <2> QED
    BY <2>1 DEF Unseen, ExactStays
<1> QED
  BY <1>1, <1>2, <1>3

\* A query ends with its answer in place, for an exact request with all of it read.
LEMMA EndsSeen ==
  ASSUME EngineInv, ExactStays, Ends
  PROVE  /\ phase # "idle" /\ phase' = "idle" /\ request' = request
         /\ (m.status # "none")' /\ (request.exact => EverythingRead)' /\ ExactStays'
<1>1. /\ phase \in {"exact", "loop", "terminal"} /\ phase' = "idle" /\ UNCHANGED answerVars
      /\ phase = "exact" \/ ~request.exact
  BY DEF Ends, FinishExact, Converge, GiveUp, Finish, ControlUnchanged, answerVars, ExactStays
<1>2. m'.status # "none"
  <2>1. m \in Metrics
    BY ControlFacts
  <2>2. CASE FinishExact
    BY <2>1, <2>2 DEF FinishExact, Metrics
  <2>3. ASSUME NEW ex \in BOOLEAN, NEW satisfied \in BOOLEAN, NEW cause,
               Finish(ex, satisfied, cause)
        PROVE  m'.status # "none"
    <3>1. PICK status \in {"converged", "exactified", "exhausted_unconverged"} :
            m' = [m EXCEPT !.cause = cause, !.adaptiveRounds = round, !.status = status]
      BY <2>3 DEF Finish
    <3> QED
      BY <2>1, <3>1 DEF Metrics
  <2>4. CASE Converge
    <3>1. PICK ex \in BOOLEAN : ex = (m.cause # "none")
      OBVIOUS
    <3>2. Finish(ex, TRUE, m.cause)
      BY <2>4, <3>1 DEF Converge
    <3> QED
      BY <2>3, <3>2
  <2>5. CASE GiveUp
    BY <2>3, <2>5 DEF GiveUp
  <2> QED
    BY <2>2, <2>4, <2>5 DEF Ends
<1>3. phase = "exact" => EverythingRead'
  <2>1. phase = "exact" => EverythingRead
    BY DEF EngineInv, OutcomeSound
  <2> QED
    BY <1>1, <2>1, SameOutlook
<1>4. request' = request
  BY <1>1, SameAnswer
<1> QED
  BY <1>1, <1>2, <1>3, <1>4 DEF ExactStays
-----------------------------------------------------------------------------
(* The answer.                                                             *)

\* The strata not read in full share no row: a row is estimated at most once.
LEMMA EstimatedOnce ==
  ASSUME EngineInv, NEW r \in RowIds
  PROVE  EstimatedRows[r] =
           IF r \in UNION {Universe(h) : h \in {g \in StrataIds : ~ReadInFull(g)}} THEN 1 ELSE 0
<1> DEFINE H == {h \in StrataIds : ~ReadInFull(h) /\ r \in Universe(h)}
<1>1. \A g, h \in H : g = h
  <2>1. \A h \in StrataIds : Universe(h) \subseteq RowsOf(h)
    BY StratumRows
  <2>2. \A g, h \in StrataIds : g # h => RowsOf(g) \cap RowsOf(h) = {}
    BY StrataApart
  <2> QED
    BY <2>1, <2>2
<1>2. EstimatedRows[r] = Cardinality(H)
  BY DEF EstimatedRows, Universe
<1>3. H = {} <=> r \notin UNION {Universe(h) : h \in {g \in StrataIds : ~ReadInFull(g)}}
  OBVIOUS
<1> HIDE DEF H
<1>4. Cardinality(H) = IF H = {} THEN 0 ELSE 1
  BY <1>1, AtMostOne
<1> QED
  BY <1>2, <1>3, <1>4

\* The bucket and the strata read in full hold no row twice.
LEMMA KnownIsRead ==
  ASSUME EngineInv, NEW r \in RowIds
  PROVE  KnownRows[r] = bucket[r]
           + (IF r \in Present /\ r \in UNION {Universe(h) : h \in {g \in StrataIds : ReadInFull(g)}}
              THEN 1 ELSE 0)
<1> DEFINE H == {h \in StrataIds : ReadInFull(h)}
<1>1. KnownRows[r] = bucket[r] + SumFunctionOnSet([h \in StrataIds |-> Moments(h)[r]], H)
  BY DEF KnownRows
<1>2. H \in SUBSET StrataIds /\ \A h \in H : ReadInFull(h)
  OBVIOUS
<1> HIDE DEF H
<1>3. SumFunctionOnSet([h \in StrataIds |-> Moments(h)[r]], H)
        = Indicator((UNION {Universe(h) : h \in H}) \cap Present)[r]
  BY <1>2, FullMoments
<1>4. Indicator((UNION {Universe(h) : h \in H}) \cap Present)[r]
        = IF r \in Present /\ r \in UNION {Universe(h) : h \in H} THEN 1 ELSE 0
  BY DEF Indicator
<1> QED
  BY <1>1, <1>3, <1>4 DEF H

\* No row is both read in full and estimated.
LEMMA ReadApart ==
  ASSUME EngineInv
  PROVE  LET full == UNION {Universe(h) : h \in {g \in StrataIds : ReadInFull(g)}}
             rest == UNION {Universe(h) : h \in {g \in StrataIds : ~ReadInFull(g)}}
         IN  /\ full \cap rest = {}
             /\ full \union rest = UNION {Universe(h) : h \in StrataIds}
<1>1. \A h \in StrataIds : Universe(h) \subseteq RowsOf(h)
  BY StratumRows
<1>2. \A g, h \in StrataIds : g # h => RowsOf(g) \cap RowsOf(h) = {}
  BY StrataApart
<1> QED
  BY <1>1, <1>2

\* The service counts as the engine does.
LEMMA SameCount ==
  ASSUME NEW S
  PROVE  Service!Cardinality(S) = Cardinality(S)
BY Zenon DEF Cardinality, Service!Cardinality

\* The rows of the rectangle are counted; each present one is known or estimated,
\* once, and an answer that has read everything estimates nothing.
LEMMA AnswerRight ==
  ASSUME EngineInv, phase = "idle", m.status # "none", request.rect \in Queries,
         request.exact => EverythingRead
  PROVE  Service!RightAnswer(request, TheAnswer)
<1> DEFINE full == UNION {Universe(h) : h \in {g \in StrataIds : ReadInFull(g)}}
           rest == UNION {Universe(h) : h \in {g \in StrataIds : ~ReadInFull(g)}}
<1>1. ~Unmaterialized /\ total \in Nat /\ bucket \in RowBag
  BY DEF EngineInv, OutcomeSound, EngineTypeOK
<1>2. /\ total = Cardinality(Qualifying)
      /\ \A r \in RowIds :
           /\ r \in Present =>
                bucket[r] + Indicator(UNION {Universe(h) : h \in StrataIds})[r]
                  = Indicator(Qualifying)[r]
           /\ r \notin Present => bucket[r] = 0
  BY <1>1, QueryEnded
<1>3. full \cap rest = {} /\ full \union rest = UNION {Universe(h) : h \in StrataIds}
  BY ReadApart
<1>4. \A r \in RowIds : /\ bucket[r] \in Nat
                        /\ KnownRows[r] = bucket[r] + (IF r \in Present /\ r \in full THEN 1 ELSE 0)
                        /\ EstimatedRows[r] = IF r \in rest THEN 1 ELSE 0
  BY <1>1, KnownIsRead, EstimatedOnce DEF RowBag
<1>5. request.exact => rest = {}
  BY DEF EverythingRead
<1> HIDE DEF full, rest
<1>6. TheAnswer \in Service!Answer
  <2>1. \A r \in RowIds : KnownRows[r] \in Nat /\ EstimatedRows[r] \in Nat
    BY <1>4
  <2>2. KnownRows \in [RowIds -> Nat] /\ EstimatedRows \in [RowIds -> Nat]
    BY <2>1 DEF KnownRows, EstimatedRows
  <2> QED
    BY <1>1, <2>2 DEF TheAnswer, Service!Answer
<1>7. [rect \in Queries |-> {r \in RowIds : ContainsPoint(rect, Point[r])}][request.rect] = Qualifying
  BY DEF Qualifying
<1>8. \A r \in RowIds \cap Present :
        KnownRows[r] + EstimatedRows[r] = IF r \in Qualifying THEN 1 ELSE 0
  <2> SUFFICES ASSUME NEW r \in RowIds, r \in Present
               PROVE  KnownRows[r] + EstimatedRows[r] = IF r \in Qualifying THEN 1 ELSE 0
    OBVIOUS
  <2>1. bucket[r] + (IF r \in full \union rest THEN 1 ELSE 0) = IF r \in Qualifying THEN 1 ELSE 0
    BY <1>2, <1>3 DEF Indicator
  <2> QED
    BY <1>3, <1>4, <2>1
<1>9. \A r \in RowIds \ Present : KnownRows[r] = 0
  <2> SUFFICES ASSUME NEW r \in RowIds, r \notin Present PROVE KnownRows[r] = 0
    OBVIOUS
  <2>1. bucket[r] = 0 /\ KnownRows[r] = bucket[r] + 0
    BY <1>2, <1>4
  <2> QED
    BY <2>1
<1>10. request.exact => \A r \in RowIds : EstimatedRows[r] = 0
  BY <1>4, <1>5
<1>11. /\ TheAnswer.count = Cardinality(Qualifying)
       /\ TheAnswer.known = KnownRows /\ TheAnswer.estimated = EstimatedRows
  BY <1>2 DEF TheAnswer
<1> QED
  BY <1>6, <1>7, <1>8, <1>9, <1>10, <1>11, SameCount DEF Service!RightAnswer

\* The answer as the last step leaves it.
LEMMA AnswerRightNext ==
  ASSUME EngineInv', (phase = "idle")', (m.status # "none")', (request.rect \in Queries)',
         (request.exact => EverythingRead)'
  PROVE  Service!RightAnswer(request, TheAnswer)'
BY AnswerRight, PTL
-----------------------------------------------------------------------------
(* The refinement.                                                         *)

LEMMA ExecuteAsks ==
  ASSUME EngineInv, NEW rect \in Queries, NEW exact \in ExactRequests, Execute(rect, exact)
  PROVE  Service!AnswerNext /\ ExactStays'
<1>1. phase = "idle" /\ phase' = "descend" /\ request' = [rect |-> rect, exact |-> exact]
  BY DEF Execute
<1>2. request' \in Service!Request
  BY <1>1, EngineAssumption DEF Service!Request
<1>3. Service!Ask(request')
  BY <1>1 DEF Service!Ask
<1> QED
  BY <1>1, <1>2, <1>3 DEF Service!AnswerNext, ExactStays

LEMMA EndsReply ==
  ASSUME EngineInv, EngineInv', ExactStays, Ends
  PROVE  Service!AnswerNext /\ ExactStays'
<1>1. /\ phase # "idle" /\ phase' = "idle" /\ request' = request
      /\ (m.status # "none")' /\ (request.exact => EverythingRead)' /\ ExactStays'
  BY EndsSeen
<1>2. request.rect \in Queries
  BY <1>1 DEF EngineInv, ControlSound
<1>3. (request.rect \in Queries)'
  BY <1>1, <1>2
<1>4. Service!RightAnswer(request, TheAnswer)'
  BY <1>1, <1>3, AnswerRightNext
<1>5. PICK answer : answer = TheAnswer'
  OBVIOUS
<1>6. Service!RightAnswer(request, answer)
  BY <1>1, <1>4, <1>5 DEF Service!RightAnswer, Service!Answer
<1>7. Service!Reply
  <2>1. Cardinality({answer}) = 1
    BY FS_Singleton
  <2>2. (IF phase = "idle" /\ m.status # "none"
         THEN {[count |-> total, known |-> KnownRows, estimated |-> EstimatedRows]} ELSE {})' = {answer}
    BY <1>1, <1>5 DEF TheAnswer
  <2>3. (IF phase = "idle" THEN {} ELSE {request}) = {request}
    BY <1>1
  <2>4. (IF phase = "idle" THEN {} ELSE {request})' = {}
    BY <1>1
  <2> QED
    BY <1>6, <2>1, <2>2, <2>3, <2>4, SameCount DEF Service!Reply
<1> QED
  BY <1>1, <1>7 DEF Service!AnswerNext

LEMMA UnseenStutters ==
  ASSUME Unseen
  PROVE  UNCHANGED Service!answerVars
BY DEF Unseen, Service!answerVars

LEMMA StutterUnseen ==
  ASSUME UNCHANGED engineVars, ExactStays
  PROVE  UNCHANGED Service!answerVars /\ ExactStays'
<1>1. /\ phase' = phase /\ request' = request /\ reading' = reading /\ m' = m
      /\ bucket' = bucket /\ total' = total /\ strata' = strata
      /\ UNCHANGED answerVars
  BY DEF engineVars, queryVars, answerVars
<1>2. ExactStays'
  BY <1>1 DEF ExactStays
<1>3. KnownRows' = KnownRows
  <2>1. StrataIds' = StrataIds /\ \A h : Moments(h)' = Moments(h) /\ ReadInFull(h)' = ReadInFull(h)
    BY <1>1, SameAnswer, SameStrata DEF Moments
  <2>2. {h \in StrataIds : ReadInFull(h)}' = {h \in StrataIds : ReadInFull(h)}
    BY <2>1
  <2>3. \A r : [h \in StrataIds |-> Moments(h)[r]]' = [h \in StrataIds |-> Moments(h)[r]]
    BY <2>1
  <2> QED
    BY <1>1, <2>2, <2>3 DEF KnownRows
<1>4. EstimatedRows' = EstimatedRows
  <2>1. StrataIds' = StrataIds /\ \A h : ReadInFull(h)' = ReadInFull(h)
    BY <1>1, SameAnswer, SameStrata
  <2>2. \A h : RowsAt(strata[h].body)' = RowsAt(strata[h].body)
    BY <1>1, SameAnswer, SameIndex DEF RowsAt
  <2>3. \A r : {h \in StrataIds : ~ReadInFull(h) /\ r \in RowsAt(strata[h].body)}'
               = {h \in StrataIds : ~ReadInFull(h) /\ r \in RowsAt(strata[h].body)}
    BY <2>1, <2>2
  <2> QED
    BY <2>3 DEF EstimatedRows
<1> QED
  BY <1>1, <1>2, <1>3, <1>4 DEF Service!answerVars

LEMMA StepAnswers ==
  ASSUME EngineInv, EngineInv', ExactStays, [EngineNext]_engineVars
  PROVE  [Service!AnswerNext]_(Service!answerVars) /\ ExactStays'
<1>1. CASE UNCHANGED engineVars
  BY <1>1, StutterUnseen
<1>2. ASSUME NEW rect \in Queries, NEW exact \in ExactRequests, Execute(rect, exact)
      PROVE  [Service!AnswerNext]_(Service!answerVars) /\ ExactStays'
  BY <1>2, ExecuteAsks
<1>3. CASE \/ DropDisjoint \/ EmitExact \/ EmitReusable \/ Descend \/ ScanLeaf
           \/ BeginCrack \/ CrackStep \/ EndCrack \/ ApplyAddback
  BY <1>3, DescentUnseen, UnseenStutters
<1>4. CASE \/ \E h \in StrataIds : DrawPersisted(h) \/ DrawQueryLocal(h) \/ SkipStratum(h)
           \/ FoldRound \/ EmptyRound
  BY <1>4, RoundUnseen, UnseenStutters
<1>5. CASE ReadExact \/ SkipPilot \/ Pilot \/ PlannedRound \/ TerminalRead
  BY <1>5, ControlUnseen, UnseenStutters
<1>6. CASE Ends
  BY <1>6, EndsReply
<1>7. ASSUME EngineStep
      PROVE  [Service!AnswerNext]_(Service!answerVars) /\ ExactStays'
  BY <1>3, <1>4, <1>5, <1>6, <1>7 DEF EngineStep, Ends
<1> QED
  BY <1>1, <1>2, <1>7 DEF EngineNext

\* Every answer the engine gives is one the abstract service may give: COUNT( * )
\* is the number of rows in the rectangle, every present row of it is in the
\* answer once, known or estimated, and an exact request estimates none.
THEOREM EveryAnswerIsRight == EngineSpec => AnswersAreRight
<1>1. EngineInit => Service!AnswerInit /\ ExactStays
  BY DEF EngineInit, NoMetrics, Service!AnswerInit, ExactStays
<1>2. EngineInv /\ EngineInv' /\ ExactStays /\ [EngineNext]_engineVars
        => [Service!AnswerNext]_(Service!answerVars) /\ ExactStays'
  BY StepAnswers
<1> QED
  BY <1>1, <1>2, EngineInvariant, PTL DEF EngineSpec, AnswersAreRight, Service!AnswerSafety
=============================================================================
