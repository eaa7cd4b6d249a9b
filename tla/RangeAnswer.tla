---------------------------- MODULE RangeAnswer -----------------------------
(***************************************************************************)
(* What the index promises its callers (include/a3i/core/query.hpp,        *)
(* query_engine.hpp), with no index, sample or round in sight: a query is  *)
(* asked, and answered once; the answer counts the rows of the rectangle,  *)
(* and every present row among them is either known or estimated, once.    *)
(***************************************************************************)
EXTENDS Naturals, FiniteSets

CONSTANTS
  Rows,        (* the rows of the table                                    *)
  Present,     (* those with a measure value                               *)
  Matching     (* for each query rectangle, the rows in it                 *)

VARIABLES
  asked,       (* the requests being answered: at most one                 *)
  answers      (* the last answer, if any                                  *)

answerVars == <<asked, answers>>

Request == [rect : DOMAIN Matching, exact : BOOLEAN]
Answer  == [count : Nat,               \* COUNT( * )
            known : [Rows -> Nat],     \* rows whose value is in the answer
            estimated : [Rows -> Nat]] \* rows the answer extrapolates to

RightAnswer(req, a) ==
  /\ a \in Answer
  /\ a.count = Cardinality(Matching[req.rect])
  /\ \A r \in Rows \cap Present :
       a.known[r] + a.estimated[r] = IF r \in Matching[req.rect] THEN 1 ELSE 0
  /\ \A r \in Rows \ Present : a.known[r] = 0
  /\ req.exact => \A r \in Rows : a.estimated[r] = 0

AnswerInit == asked = {} /\ answers = {}

Ask(req) ==
  /\ asked = {}
  /\ asked' = {req}
  /\ answers' = {}

Reply ==
  /\ asked # {}
  /\ asked' = {}
  /\ \E req \in asked :
       /\ Cardinality(answers') = 1
       /\ \A a \in answers' : RightAnswer(req, a)

AnswerNext == (\E req \in Request : Ask(req)) \/ Reply

AnswerSafety == AnswerInit /\ [][AnswerNext]_answerVars

\* Every request is answered.
Answering == asked # {} ~> asked = {}

AnswerSpec == AnswerSafety /\ Answering
=============================================================================
