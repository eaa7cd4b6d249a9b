------------------------- MODULE MCExperimentRunner -------------------------
(***************************************************************************)
(* ExperimentRunner with two cells, workloads of one or two queries, and   *)
(* two versions of a source file of one dimension and one measure.         *)
(***************************************************************************)
EXTENDS ExperimentRunner

Row(x, m) == [x |-> x, m |-> m]
\* The old file: a value beyond the domain, a missing coordinate, a missing measure.
\* The new one: a row that the filter drops, and a coordinate that is not a number.
MCSourceRows ==
  [old |-> <<Row(1, 5), Row(4, 1), Row(3, Null), Row(Null, 2)>>,
   new |-> <<Row(2, 9), Row(NaN, 4), Row(3, 6)>>]
MCLow  == [x |-> 0]
MCHigh == [x |-> 3]
MCPlan == <<"kd", "scan">>
=============================================================================
