-------------------------- MODULE AnsweringEngine ---------------------------
(***************************************************************************)
(* QueryEngine implements RangeAnswer: whatever the descent cracked and    *)
(* reused and however the rounds sampled, the caller sees a right answer.  *)
(***************************************************************************)
EXTENDS QueryEngine

\* The answer of the query that has just ended: the exact bucket and the strata
\* read in full are known; the rows of the other strata are estimated.
KnownRows ==
  [r \in RowIds |->
     bucket[r] + SumFunctionOnSet([h \in StrataIds |-> Moments(h)[r]],
                                  {h \in StrataIds : ReadInFull(h)})]
EstimatedRows ==
  [r \in RowIds |->
     Cardinality({h \in StrataIds : ~ReadInFull(h) /\ r \in RowsAt(strata[h].body)})]

Service == INSTANCE RangeAnswer WITH
  Rows     <- RowIds,
  Matching <- [rect \in Queries |-> {r \in RowIds : ContainsPoint(rect, Point[r])}],
  asked    <- IF phase = "idle" THEN {} ELSE {request},
  answers  <- IF phase = "idle" /\ m.status # "none"
              THEN {[count |-> total, known |-> KnownRows, estimated |-> EstimatedRows]}
              ELSE {}

\* Every answer the engine gives is one the abstract service may give.
AnswersAreRight == Service!AnswerSafety

\* Every query is answered: rounds run out, cracks end, and the terminal read
\* leaves nothing to improve.
EveryQueryAnswered == Service!Answering
=============================================================================
