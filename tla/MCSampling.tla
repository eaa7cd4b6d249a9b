----------------------------- MODULE MCSampling ------------------------------
(***************************************************************************)
(* AnsweringEngine with persist_summaries off, over a two-dimensional      *)
(* table of eight rows in leaves of up to six: every sample lasts as long  *)
(* as its query, and the strata are large enough to be sampled in several  *)
(* rounds.                                                                 *)
(***************************************************************************)
EXTENDS AnsweringEngine

MCPoints == << <<2, 1>>, <<0, 2>>, <<3, 0>>, <<1, 3>>, <<0, 2>>, <<2, 3>>, <<1, 1>>, <<2, 2>> >>
MCPoint   == [r \in 0 .. N - 1 |-> MCPoints[r + 1]]
MCExtent  == [low |-> <<0, 0>>, high |-> <<3, 3>>]
MCFlagged == {2}
MCPresent == RowIds \ {0}

Box(x1, x2, y1, y2) == [low |-> <<x1, y1>>, high |-> <<x2, y2>>]
\* A slab the first crack cuts out, a box across the cracks it leaves, and a corner
\* with the held-out row that reaches out of the table.
MCQueries == {Box(0, 3, 1, 4), Box(1, 4, 1, 3), Box(2, 5, 0, 2)}
=============================================================================
