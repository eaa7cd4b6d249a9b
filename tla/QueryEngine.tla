---------------------------- MODULE QueryEngine -----------------------------
(***************************************************************************)
(* QueryEngine::execute over the adaptive k-d substrate                    *)
(* (engine/query_engine.cpp, aqp/decompose.cpp, aqp/allocator.cpp,         *)
(* aqp/estimator.cpp, aqp/sampler.cpp).                                    *)
(*                                                                         *)
(* One query at a time: a descent decomposes the qualifying rows into      *)
(* exact contributions and strata to sample, cracking the leaves the query *)
(* cuts; then read rounds sample the strata until the estimates satisfy    *)
(* the request or everything has been read.                                *)
(*                                                                         *)
(* The statistics are abstracted to what they decide.  A round's plan may  *)
(* raise the targets in any way the allocator's clamps allow, and an       *)
(* estimate may meet the requested accuracy or miss it whenever no stratum *)
(* settles the matter.                                                     *)
(***************************************************************************)
EXTENDS SummaryStore, FiniteSetsExt, Sequences

CONSTANTS
  Persist,        (* persist_summaries                                     *)
  ExactRequests,  (* {TRUE}: ForceExact; {TRUE, FALSE}: PerQuery           *)
  PilotSize,      (* AllocatorConfig::pilot_sample_size                    *)
  MaxRounds,      (* AllocatorConfig::max_sampling_rounds                  *)
  OnDisk,         (* measures on disk: would_scan may escalate a round     *)
  ScanRows        (* fewest rows of a batch for which would_scan holds     *)

ASSUME EngineAssumption ==
  /\ Persist \in BOOLEAN /\ OnDisk \in BOOLEAN
  /\ ExactRequests \subseteq BOOLEAN
  /\ PilotSize \in Nat /\ MaxRounds \in Nat /\ ScanRows \in Nat \ {0}

VARIABLES
  phase,      (* where execute() is                                        *)
  request,    (* the query: its rectangle, and whether it must be exact    *)
  todo,       (* partitions the descent has still to visit, in order       *)
  strata,     (* residual_ and ql_, by partition id                        *)
  bucket,     (* ExactBucket: rows contributed exactly, as a bag           *)
  addback,    (* held-out rows to be read for this query, as a bag         *)
  total,      (* COUNT( * )                                                *)
  round,      (* rounds run so far                                         *)
  reading,    (* the read_round() in progress                              *)
  m           (* QueryMetrics                                              *)

queryVars  == <<request, todo, strata, bucket, addback, total, round, reading, m>>
engineVars == <<indexVars, phase, queryVars>>

\* A residual stratum.  `body` is its sampling universe; the sample of a
\* persisted one lives in the store, any other sample lasts as long as the query.
Stratum == [persisted : BOOLEAN, body : SUBSET Positions, tracker : SUBSET Positions,
            sampled : Nat, nonNan : RowBag, drawn : SUBSET RowIds]

NewStratum(persisted, body) ==
  [persisted |-> persisted, body |-> body, tracker |-> {}, sampled |-> 0,
   nonNan |-> EmptyBag, drawn |-> {}]

NoStrata  == [h \in {} |-> NewStratum(FALSE, {})]
StrataIds == DOMAIN strata
Size(h)   == Cardinality(strata[h].body)                            \* StratumAlloc::N
Sampled(h) == IF strata[h].persisted THEN store[h].sampledRows ELSE strata[h].sampled
Moments(h) == IF strata[h].persisted THEN store[h].nonNan ELSE strata[h].nonNan
\* Mutant: a full read that stops one row short.
MutFull    == [h \in StrataIds |-> IF Size(h) = 0 THEN 0 ELSE Size(h) - 1]
Full       == [h \in StrataIds |-> Size(h)]

\* One read_round: its effective targets, the strata still to draw, whether it
\* escalated to a full read, and the phase that follows it.
NoRead  == [targets |-> [h \in {} |-> 0], work |-> {}, escalated |-> FALSE, next |-> "loop"]

Metrics == [reads : RowBag,           \* measure_reads: the rows it counts, as a bag
            sampledRows : Nat, exactifiedRows : Nat, outlierRows : Nat,
            roundPaths : Seq(Nat), adaptiveRounds : Nat,
            cause : {"none", "scan_cheaper_than_gather", "gave_up"},
            preError : BOOLEAN,       \* pre_exactification_error_bound was set
            status : {"none", "exact", "converged", "exactified", "exhausted_unconverged"}]
NoMetrics == [reads |-> EmptyBag, sampledRows |-> 0, exactifiedRows |-> 0, outlierRows |-> 0,
              roundPaths |-> <<>>, adaptiveRounds |-> 0, cause |-> "none",
              preError |-> FALSE, status |-> "none"]

EngineInit ==
  /\ IndexInit
  /\ phase = "idle"
  /\ request = [rect |-> EmptyRect, exact |-> TRUE]
  /\ todo = <<>> /\ strata = NoStrata /\ bucket = EmptyBag /\ addback = EmptyBag
  /\ total = 0 /\ round = 0 /\ reading = NoRead /\ m = NoMetrics

\* execute(): everything about the previous query but the index is reset.
Execute(rect, exact) ==
  /\ phase = "idle"
  /\ phase' = "descend"
  /\ request' = [rect |-> rect, exact |-> exact]
  /\ todo' = <<0>> /\ strata' = NoStrata /\ bucket' = EmptyBag /\ addback' = EmptyBag
  /\ total' = 0 /\ round' = 0 /\ reading' = NoRead /\ m' = NoMetrics
  /\ UNCHANGED indexVars
-----------------------------------------------------------------------------
(* Descender::descend, one partition per step, depth first.               *)

Top      == Head(todo)
Relation == Classify(nodes[Top].bounds, request.rect)
Answered == Persist /\ Complete(store[Top])       \* is_complete on a contained node

Visiting(relations) ==
  /\ phase = "descend"
  /\ todo # <<>>
  /\ Relation \in relations

Added(bag, rows) == [r \in RowIds |-> bag[r] + (IF r \in rows THEN 1 ELSE 0)]
WithStratum(s)   == [h \in StrataIds \union {Top} |-> IF h = Top THEN s ELSE strata[h]]
\* Mutant: the pair of children is read one id too far.
MutVisitChildren == todo' = <<nodes[Top].left + 1, nodes[Top].right + 1>> \o Tail(todo)
VisitChildren    == todo' = <<nodes[Top].left, nodes[Top].right>> \o Tail(todo)

DropDisjoint ==
  /\ Visiting({"Disjoint"})
  /\ todo' = Tail(todo)
  /\ UNCHANGED <<indexVars, phase, request, strata, bucket, addback, total, round, reading, m>>

\* emit_exact: the highest contained node with a complete summary answers for
\* everything below it.
EmitExact ==
  /\ Visiting({"Contained"})
  /\ Answered
  /\ bucket' = [r \in RowIds |-> bucket[r] + store[Top].nonNan[r] + store[Top].outlierBank[r]]
  /\ total' = total + Population(Top)
  /\ todo' = Tail(todo)
  /\ UNCHANGED <<indexVars, phase, request, strata, addback, round, reading, m>>

\* Mutant: held-out rows stay in the sampling universe.
MutUnflagged(P) == P
Unflagged(P)    == {p \in P : ~flagAt[p]}

\* emit_reusable: a contained leaf becomes a stratum over its rows that are not
\* held out.  Held-out rows banked by an earlier query contribute from the bank.
EmitReusable ==
  /\ Visiting({"Contained"})
  /\ nodes[Top].leaf
  /\ ~Answered
  /\ strata' = WithStratum(NewStratum(Persist, Unflagged(PositionsOf(Top))))
  /\ IF Persist
     THEN /\ PrepareLeaf(Top)
          /\ bucket' = [r \in RowIds |-> bucket[r] + store[Top].outlierBank[r]]
          /\ UNCHANGED addback
     ELSE /\ addback' = Added(addback, RowsAt(FlaggedIn(Top)))
          /\ UNCHANGED <<indexVars, bucket>>
  /\ total' = total + Population(Top)
  /\ todo' = Tail(todo)
  /\ UNCHANGED <<phase, request, round, reading, m>>

Descend ==
  /\ Visiting({"Contained", "Partial"})
  /\ ~nodes[Top].leaf
  /\ ~(Relation = "Contained" /\ Answered)
  /\ VisitChildren
  /\ UNCHANGED <<indexVars, phase, request, strata, bucket, addback, total, round, reading, m>>

\* emit_query_local: only the qualifying rows of the leaf take part; those held
\* out are added back.
EmitQueryLocal ==
  LET qualifying == {p \in PositionsOf(Top) : ContainsPoint(request.rect, pointAt[p])}
  IN  /\ strata' = WithStratum(NewStratum(FALSE, Unflagged(qualifying)))
      /\ addback' = Added(addback, RowsAt(qualifying \cap FlaggedIn(Top)))
      /\ total' = total + Cardinality(qualifying)
      /\ todo' = Tail(todo)

ScanLeaf ==
  /\ Visiting({"Partial"})
  /\ nodes[Top].leaf
  /\ ~Refinable(Top, request.rect)
  /\ EmitQueryLocal
  /\ UNCHANGED <<indexVars, phase, request, bucket, round, reading, m>>

\* A partial leaf large enough to crack is refined first.
BeginCrack ==
  /\ Visiting({"Partial"})
  /\ RefineLeaf(Top, request.rect)
  /\ phase' = "refine"
  /\ UNCHANGED queryVars

CrackStep ==
  /\ phase = "refine"
  /\ CrackOneFace
  /\ UNCHANGED <<phase, queryVars>>

\* refine() returned: what it split is retired, when summaries persist at all.
\* Mutant: nothing is retired.
MutFinishRefine == EndRefine /\ UNCHANGED storeVars
FinishRefine    == IF Persist THEN RetireSplit ELSE EndRefine /\ UNCHANGED storeVars

\* Mutant: a leaf that no cut could split is visited again.
MutAfterRefine ==
  IF nodes[Top].leaf THEN UNCHANGED <<todo, strata, addback, total>>
                     ELSE VisitChildren /\ UNCHANGED <<strata, addback, total>>
\* The children are visited, or, if no cut made progress, the leaf is scanned.
AfterRefine ==
  IF nodes[Top].leaf THEN EmitQueryLocal
                     ELSE VisitChildren /\ UNCHANGED <<strata, addback, total>>

EndCrack ==
  /\ phase = "refine"
  /\ FinishRefine
  /\ AfterRefine
  /\ phase' = "descend"
  /\ UNCHANGED <<request, bucket, round, reading, m>>

\* apply_addback: the held-out rows are read now and contribute exactly.
ApplyAddback ==
  /\ phase = "descend"
  /\ todo = <<>>
  /\ bucket' = [r \in RowIds |-> bucket[r] + (IF r \in Present THEN addback[r] ELSE 0)]
  /\ addback' = EmptyBag
  /\ m' = [m EXCEPT !.reads = [r \in RowIds |-> @[r] + addback[r]],
                    !.outlierRows = @ + SumFunction(addback)]
  /\ phase' = "estimate"
  /\ UNCHANGED <<indexVars, request, todo, strata, total, round, reading>>
-----------------------------------------------------------------------------
(* Estimates and plans.                                                    *)

\* Estimator::estimate and all_satisfied: a stratum read in full has no variance;
\* one with fewer than two samples leaves every interval unbounded; anything else
\* may go either way.
ReadInFull(h)  == Sampled(h) >= Size(h)
MaySatisfy     == \A h \in StrataIds : ReadInFull(h) \/ Sampled(h) >= 2
MayFail        == \E h \in StrataIds : ~ReadInFull(h)

\* Mutant: banking alone is no reason for a round.
MutUnmaterialized == FALSE
Unmaterialized == \E h \in StrataIds : strata[h].persisted /\ NeedsBanking(h)

Larger(a, b) == IF a > b THEN a ELSE b

\* Allocator::plan_pilot
PilotDemand(h) == IF Size(h) <= 2 * PilotSize THEN Size(h) ELSE PilotSize
PilotPlan      == [h \in StrataIds |-> Larger(PilotDemand(h), Sampled(h))]

\* Allocator::plan: whatever the variances ask for, clamped to what is there and
\* to what has been sampled already; a stratum short of two samples gets its pilot.
Plans ==
  {plan \in [StrataIds -> 0 .. N] : \A h \in StrataIds :
     /\ Sampled(h) <= plan[h]
     /\ plan[h] <= Larger(Size(h), Sampled(h))
     /\ Sampled(h) < 2 => PilotDemand(h) <= plan[h]}

Increases(plan) == \E h \in StrataIds : plan[h] > Sampled(h)

\* Mutant: no round is kept for the terminal read.
MutBudgetLeft == round < MaxRounds
BudgetLeft == round + 1 < MaxRounds
-----------------------------------------------------------------------------
(* read_round.                                                             *)

Missing(plan, h) == IF plan[h] > Sampled(h) THEN plan[h] - Sampled(h) ELSE 0

\* Scan-to-exactify, decided before anything is drawn.
Escalates(plan) ==
  LET planned == SumFunction([h \in StrataIds |-> Missing(plan, h)])
  IN  /\ OnDisk
      /\ \E h \in StrataIds : plan[h] < Size(h)
      /\ planned > 0
      /\ planned >= ScanRows

StartRound(plan, next) ==
  /\ reading' = [targets   |-> IF Escalates(plan) THEN Full ELSE plan,
                 work      |-> StrataIds,
                 escalated |-> Escalates(plan),
                 next      |-> next]
  /\ phase' = "draw"

\* The draw goes through the strata one by one.
NextStratum(h) == phase = "draw" /\ h \in reading.work /\ \A g \in reading.work : h <= g
Drawn(h)       == reading' = [reading EXCEPT !.work = @ \ {h}]

\* Sampler::draw: without replacement, and never more than is left.
Draws(h, available) ==
  LET wanted == Missing(reading.targets, h)
      left   == Cardinality(available)
  IN  kSubset(IF wanted < left THEN wanted ELSE left, available)

DrawPersisted(h) ==
  /\ NextStratum(h)
  /\ strata[h].persisted
  /\ Missing(reading.targets, h) > 0 \/ NeedsBanking(h)
  /\ \E picks \in Draws(h, Eligible(h)) : DrawReusable(h, picks)
  /\ Drawn(h)
  /\ UNCHANGED <<phase, request, todo, strata, bucket, addback, total, round, m>>

\* Mutant: rows drawn by an earlier round can be drawn again.
MutUndrawn(h) == strata[h].body
Undrawn(h)    == strata[h].body \ strata[h].tracker

DrawQueryLocal(h) ==
  /\ NextStratum(h)
  /\ ~strata[h].persisted
  /\ Missing(reading.targets, h) > 0
  /\ \E picks \in Draws(h, Undrawn(h)) :
       strata' = [strata EXCEPT ![h].tracker = @ \union picks, ![h].drawn = RowsAt(picks)]
  /\ Drawn(h)
  /\ UNCHANGED <<indexVars, phase, request, todo, bucket, addback, total, round, m>>

SkipStratum(h) ==
  /\ NextStratum(h)
  /\ Missing(reading.targets, h) = 0
  /\ ~(strata[h].persisted /\ NeedsBanking(h))
  /\ Drawn(h)
  /\ UNCHANGED <<indexVars, phase, request, todo, strata, bucket, addback, total, round, m>>

BodyRows(h) == IF strata[h].persisted THEN RowsOfCursors(h, FALSE) ELSE strata[h].drawn
HeldRows(h) == IF strata[h].persisted THEN RowsOfCursors(h, TRUE) ELSE {}
NewRows(h)  == Cardinality(BodyRows(h))
RowsFor(H)  == SumFunctionOnSet([h \in StrataIds |-> NewRows(h)], H)
\* How many of the batch's ids are this row's: one per cursor that lists it.
Gathered(r) == Cardinality({h \in StrataIds : r \in BodyRows(h)})
               + Cardinality({h \in StrataIds : r \in HeldRows(h)})
BatchEmpty  == \A h \in StrataIds : BodyRows(h) \union HeldRows(h) = {}

\* One gather for the whole batch, then the folds: body rows into the stratum's
\* running sample, held-out rows into the bank and the exact bucket.
FoldRound ==
  /\ phase = "draw" /\ reading.work = {} /\ ~BatchEmpty
  /\ IF batch # {} THEN FoldBatch ELSE UNCHANGED indexVars
  /\ strata' = [h \in StrataIds |-> [strata[h] EXCEPT
       !.sampled = @ + Cardinality(strata[h].drawn),
       !.nonNan  = Merged(@, strata[h].drawn),
       !.drawn   = {}]]
  /\ LET held      == UNION {HeldRows(h) : h \in StrataIds}
         toFull    == {h \in StrataIds : reading.targets[h] >= Size(h)}
     IN  /\ bucket' = Merged(bucket, held)
         /\ m' = [m EXCEPT
              !.reads          = [r \in RowIds |-> @[r] + Gathered(r)],
              !.exactifiedRows = @ + RowsFor(toFull),
              !.sampledRows    = @ + RowsFor(StrataIds \ toFull),
              !.outlierRows    = @ + Cardinality(held),
              !.roundPaths     = IF OnDisk THEN Append(@, round) ELSE @,
              !.cause          = IF reading.escalated
                                 THEN "scan_cheaper_than_gather" ELSE @]
  /\ phase' = reading.next
  /\ reading' = NoRead
  /\ UNCHANGED <<request, todo, addback, total, round>>

\* Nothing to read: the round returns at once, and reports no escalation.
EmptyRound ==
  /\ phase = "draw" /\ reading.work = {} /\ BatchEmpty
  /\ phase' = reading.next
  /\ reading' = NoRead
  /\ UNCHANGED <<indexVars, request, todo, strata, bucket, addback, total, round, m>>
-----------------------------------------------------------------------------
(* execute()'s control, from the first estimate on.                        *)

ControlUnchanged == UNCHANGED <<indexVars, request, todo, strata, bucket, addback, total>>

\* An exact request reads every stratum in full, outside the round count.
ReadExact ==
  /\ phase = "estimate" /\ request.exact
  /\ StartRound(Full, "exact")
  /\ ControlUnchanged /\ UNCHANGED <<round, m>>

FinishExact ==
  /\ phase = "exact"
  /\ m' = [m EXCEPT !.status = "exact", !.cause = "none"]
  /\ phase' = "idle"
  /\ ControlUnchanged /\ UNCHANGED <<round, reading>>

\* The first estimate already satisfies the request and nothing has to be banked.
SkipPilot ==
  /\ phase = "estimate" /\ ~request.exact
  /\ MaySatisfy /\ ~Unmaterialized
  /\ phase' = "loop"
  /\ ControlUnchanged /\ UNCHANGED <<round, reading, m>>

Pilot ==
  /\ phase = "estimate" /\ ~request.exact
  /\ MayFail \/ Unmaterialized
  /\ round' = round + 1
  /\ IF Increases(PilotPlan) \/ Unmaterialized
     THEN StartRound(PilotPlan, "loop")
     ELSE phase' = "loop" /\ UNCHANGED reading
  /\ ControlUnchanged /\ UNCHANGED m

PlannedRound ==
  /\ phase = "loop" /\ MayFail
  /\ BudgetLeft
  /\ \E plan \in Plans : Increases(plan) /\ StartRound(plan, "loop")
  /\ round' = round + 1
  /\ ControlUnchanged /\ UNCHANGED m

\* The budget is spent or the planner can raise no target: read what is left.
TerminalRead ==
  /\ phase = "loop" /\ MayFail
  /\ ~BudgetLeft \/ \E plan \in Plans : ~Increases(plan)
  /\ StartRound(Full, "terminal")
  /\ round' = round + 1
  /\ m' = [m EXCEPT !.preError = TRUE]
  /\ ControlUnchanged

Finish(exactified, satisfied, cause) ==
  /\ m' = [m EXCEPT
       !.cause = cause,
       !.adaptiveRounds = round,
       !.status = CASE ~exactified                -> "converged"
                    [] exactified /\ satisfied    -> "exactified"
                    [] exactified /\ ~satisfied   -> "exhausted_unconverged"]
  /\ phase' = "idle"
  /\ ControlUnchanged /\ UNCHANGED <<round, reading>>

Converge ==
  /\ phase = "loop" /\ MaySatisfy
  /\ Finish(m.cause # "none", TRUE, m.cause)

GiveUp ==
  /\ phase = "terminal"
  /\ \E satisfied \in BOOLEAN :
       /\ IF satisfied THEN MaySatisfy ELSE MayFail
       /\ Finish(TRUE, satisfied, "gave_up")

EngineStep ==
  \/ DropDisjoint \/ EmitExact \/ EmitReusable \/ Descend \/ ScanLeaf
  \/ BeginCrack \/ CrackStep \/ EndCrack \/ ApplyAddback
  \/ \E h \in StrataIds : DrawPersisted(h)
  \/ \E h \in StrataIds : DrawQueryLocal(h)
  \/ \E h \in StrataIds : SkipStratum(h)
  \/ FoldRound \/ EmptyRound
  \/ ReadExact \/ FinishExact \/ SkipPilot \/ Pilot
  \/ PlannedRound \/ TerminalRead \/ Converge \/ GiveUp

EngineNext ==
  \/ \E rect \in Queries, exact \in ExactRequests : Execute(rect, exact)
  \/ EngineStep

\* Queries may stop coming; execute() itself runs on.
EngineSpec == EngineInit /\ [][EngineNext]_engineVars /\ WF_engineVars(EngineStep)
-----------------------------------------------------------------------------
EngineTypeOK ==
  /\ phase \in {"idle", "descend", "refine", "estimate", "draw", "exact", "loop", "terminal"}
  /\ request \in [rect : Rect, exact : BOOLEAN]
  /\ todo \in Seq(Ids)
  /\ StrataIds \subseteq Ids /\ strata \in [StrataIds -> Stratum]
  /\ bucket \in RowBag /\ addback \in RowBag
  /\ total \in Nat /\ round \in Nat
  /\ DOMAIN reading.targets \subseteq Ids
  /\ reading \in [targets : [DOMAIN reading.targets -> Nat], work : SUBSET Ids,
                 escalated : BOOLEAN, next : {"exact", "loop", "terminal"}]
  /\ m \in Metrics

Qualifying == {r \in RowIds : ContainsPoint(request.rect, Point[r])}

\* Where a row counts in the answer under construction: in the exact bucket,
\* among the rows to add back, in the universe of a stratum, or among the
\* held-out rows of a stratum that are still to be banked.
Shares(r) ==
  bucket[r] + addback[r]
  + Cardinality({h \in StrataIds : r \in RowsAt(strata[h].body)})
  + Cardinality({h \in StrataIds : /\ strata[h].persisted /\ ~store[h].materialized
                                   /\ r \in RowsAt(FlaggedIn(h))})
Unvisited(r) == Cardinality({k \in DOMAIN todo : r \in RowsOf(todo[k])})

\* Throughout a query, cracks included, every row of the rectangle counts exactly
\* once in the answer or lies in exactly one partition still to be visited, and
\* no other row counts at all.
EachRowCountsOnce ==
  \A r \in Present : IF r \in Qualifying THEN Shares(r) + Unvisited(r) = 1
                                         ELSE Shares(r) = 0

\* The sample of a stratum, carried over from earlier queries or not, holds no
\* row twice and none from outside its universe.
SamplesAreWithoutReplacement ==
  \A h \in StrataIds :
    /\ Sampled(h) <= Size(h)
    /\ \A r \in RowIds :
         Moments(h)[r] <= Indicator(RowsAt(strata[h].body) \cap Present)[r]

\* An answer reported as "exact" or "exactified" has folded in every present row
\* of the rectangle once and nothing else.
ExactAnswersAreExact ==
  phase = "idle" /\ m.status \in {"exact", "exactified"} =>
    \A r \in RowIds :
      bucket[r] + SumFunction([h \in StrataIds |-> Moments(h)[r]])
        = Indicator(Qualifying \cap Present)[r]

\* A query that converged without a full read had an interval for every stratum
\* and every held-out row of its partitions in the exact bucket: an all-outlier
\* partition must not slip past the pilot.
ConvergedIsCertified ==
  phase = "idle" /\ m.status = "converged" =>
    \A h \in StrataIds :
      /\ ReadInFull(h) \/ Sampled(h) >= 2
      /\ strata[h].persisted => FlaggedIn(h) = {} \/ store[h].materialized

\* The terminal read leaves no variance: its outcome is never a miss
\* (query_engine.hpp: "terminates with a correct answer").
NeverExhausted == m.status # "exhausted_unconverged"

\* Once a round has escalated there is nothing left to read.
EscalationReadsEverything ==
  phase \in {"loop", "idle"} /\ m.cause = "scan_cheaper_than_gather" =>
    \A h \in StrataIds : ReadInFull(h)

\* One query fetches no row twice and none from outside its rectangle, whichever
\* rounds, paths for held-out rows and samples of earlier queries serve it; and the
\* read-work counters, kept apart from what is gathered, split those fetches.
ReadsAccountedFor ==
  /\ \A r \in RowIds : m.reads[r] <= Indicator(Qualifying)[r]
  /\ SumFunction(m.reads) = m.sampledRows + m.exactifiedRows + m.outlierRows

\* The pilot, the planned rounds and the terminal read fit in the round budget,
\* two at the least.
RoundsWithinBudget == round <= Larger(MaxRounds, 2)

-----------------------------------------------------------------------------
(* What the documentation says, and the code does not do.                  *)

\* query.hpp on pre_exactification_error_bound: "Worst relative half-width just
\* before exactification kicked in; 0 when no exactification happened".
PreErrorAsDocumented ==
  phase = "idle" /\ m.status = "exactified" => m.preError
-----------------------------------------------------------------------------
(* The invariant these follow from.                                        *)

\* What the descent has settled: the qualifying rows of no partition still to be
\* visited.
Waiting(r) == \E k \in DOMAIN todo : r \in RowsOf(todo[k])
Settled    == {r \in Qualifying : ~Waiting(r)}

\* The partitions to visit share no row with each other or with a stratum.
TodoSound ==
  /\ \A k, l \in DOMAIN todo :
       k # l => todo[k] # todo[l] /\ RowsOf(todo[k]) \cap RowsOf(todo[l]) = {}
  /\ \A h \in StrataIds, k \in DOMAIN todo :
       h # todo[k] /\ RowsOf(h) \cap RowsOf(todo[k]) = {}

\* A stratum samples rows of one live leaf, none of them held out: all of them if
\* its sample is kept in the store, else those its own tracker tells apart.
StratumSound(h) ==
  LET s      == strata[h]
      folded == RowsAt(s.tracker) \ s.drawn
  IN  /\ nodes[h].leaf
      /\ s.body \subseteq PositionsOf(h) \ FlaggedIn(h)
      /\ s.persisted => /\ Persist
                        /\ s.body = PositionsOf(h) \ FlaggedIn(h)
                        /\ store[h].population = Population(h)
                        /\ s.drawn = {}
      /\ ~s.persisted => /\ s.tracker \subseteq s.body
                         /\ s.drawn \subseteq RowsAt(s.tracker)
                         /\ s.sampled = Cardinality(folded)
                         /\ s.nonNan = Indicator(folded \cap Present)

Universe(h) == RowsAt(strata[h].body)
ToBank(h)   == IF strata[h].persisted /\ ~store[h].materialized
               THEN RowsAt(FlaggedIn(h)) ELSE {}

\* Every settled row counts once, and no other row: what is neither added back
\* nor left to the strata is in the exact bucket.
Counted(r) ==
  addback[r] + Indicator(UNION {Universe(h) : h \in StrataIds})[r]
             + Indicator(UNION {ToBank(h) : h \in StrataIds})[r]
RowsSettled ==
  /\ \A r \in RowIds :
       /\ Counted(r) <= Indicator(Settled)[r]
       /\ r \in Present    => bucket[r] + Counted(r) = Indicator(Settled)[r]
       /\ r \notin Present => bucket[r] = 0
  /\ total = Cardinality(Settled)

\* Which parts of the state are in use in which phase.
ControlSound ==
  /\ phase # "idle" => request.rect \in Queries /\ m.status = "none"
  /\ crack.on <=> phase = "refine"
  /\ phase = "refine" => todo # <<>> /\ crack.leaf = Top
  /\ phase \notin {"descend", "refine"} => todo = <<>> /\ addback = EmptyBag
  /\ phase # "draw" => /\ batch = {} /\ reading = NoRead
                       /\ \A h \in StrataIds : strata[h].drawn = {}

\* The strata a round has drawn for will have what it set out to read: all of the
\* body if that was the target, and held-out rows that were never banked.
DrawSound ==
  phase = "draw" =>
    /\ DOMAIN reading.targets = StrataIds /\ reading.work \subseteq StrataIds
    /\ \A c \in batch : c.pid \in StrataIds \ reading.work /\ strata[c.pid].persisted
    /\ \A h \in reading.work : strata[h].drawn = {}
    /\ \A h \in StrataIds \ reading.work :
         /\ reading.targets[h] >= Size(h) => Sampled(h) + NewRows(h) >= Size(h)
         /\ strata[h].persisted /\ NeedsBanking(h) => HeldRows(h) # {}
    /\ reading.escalated \/ reading.next # "loop" => reading.targets = Full

RoundsSound ==
  /\ phase \in {"descend", "refine", "estimate", "exact"} => round = 0
  /\ phase = "draw" /\ reading.next = "exact" => round = 0
  /\ phase = "loop" \/ (phase = "draw" /\ reading.next = "loop") =>
       round + 1 <= Larger(MaxRounds, 2)
  /\ RoundsWithinBudget

\* What rounds achieve: held-out rows are banked after any, everything is read
\* after a full one, and a query ends only satisfied or with everything read.
EverythingRead == \A h \in StrataIds : ReadInFull(h)
OutcomeSound ==
  /\ phase \in {"loop", "exact", "terminal"} => ~Unmaterialized
  /\ phase \in {"exact", "terminal"} => EverythingRead
  /\ phase \in {"descend", "refine", "estimate", "draw"} => m.cause = "none"
  /\ phase \in {"loop", "idle"} /\ m.cause # "none" => EverythingRead
  /\ m.status # "none" => ~Unmaterialized /\ MaySatisfy
  /\ m.status \in {"exact", "exactified"} => EverythingRead
  /\ NeverExhausted

\* A row that has been read is one of the query's and is not read again: it is no
\* longer among those that are still to be read for the strata.
Trackers(h)   == IF strata[h].persisted THEN store[h].tracker ELSE strata[h].tracker
FoldedRows(h) == RowsAt(Trackers(h)) \ BodyRows(h)
Unread(h)     == (Universe(h) \ FoldedRows(h)) \union ToBank(h)
ReadsSound ==
  /\ SumFunction(m.reads) = m.sampledRows + m.exactifiedRows + m.outlierRows
  /\ phase \in {"descend", "refine"} => m.reads = EmptyBag
  /\ phase \notin {"descend", "refine"} =>
       \A r \in RowIds :
         m.reads[r] + Indicator(UNION {Unread(h) : h \in StrataIds})[r]
           <= Indicator(Qualifying)[r]

\* The root partition, where every descent starts, holds every row.
RootHoldsAll == RowsOf(0) = RowIds

EngineInv ==
  /\ IndexInv /\ RootHoldsAll /\ EngineTypeOK /\ ControlSound
  /\ TodoSound /\ (\A h \in StrataIds : StratumSound(h)) /\ RowsSettled
  /\ DrawSound /\ RoundsSound /\ OutcomeSound /\ ReadsSound
=============================================================================
