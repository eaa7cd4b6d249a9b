-------------------------- MODULE MCAnsweringEngine --------------------------
(***************************************************************************)
(* AnsweringEngine over a one-dimensional table of nine rows, with gaps    *)
(* between some of them: a query face in a gap cuts nothing off.           *)
(***************************************************************************)
EXTENDS AnsweringEngine

\* The two rows at 2 cannot be told apart by any query and are both held out: a
\* leaf of theirs has no body to sample.
MCPoints  == << <<6>>, <<2>>, <<0>>, <<4>>, <<2>>, <<9>>, <<5>>, <<7>>, <<3>> >>
MCPoint   == [r \in 0 .. N - 1 |-> MCPoints[r + 1]]
MCExtent  == [low |-> <<0>>, high |-> <<9>>]
MCFlagged == {1, 4}
MCPresent == RowIds \ {3}

Segment(x1, x2) == [low |-> <<x1>>, high |-> <<x2>>]
\* The whole table, two segments over the same seven rows (once the first has been
\* cut out, the second cuts it nowhere), the indistinguishable rows alone, and a
\* segment that reaches out of the table.
MCQueries == {Segment(0, 10), Segment(1, 8), Segment(2, 8), Segment(2, 3), Segment(5, 12)}
=============================================================================
