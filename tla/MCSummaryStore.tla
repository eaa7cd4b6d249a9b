--------------------------- MODULE MCSummaryStore ---------------------------
(***************************************************************************)
(* SummaryStore over a one-dimensional table of four rows.                 *)
(***************************************************************************)
EXTENDS SummaryStore

MCPoints  == << <<3>>, <<1>>, <<0>>, <<2>> >>
MCPoint   == [r \in 0 .. 3 |-> MCPoints[r + 1]]
MCFlagged == {1}
MCPresent == {0, 1, 2}
MCExtent  == [low |-> <<0>>, high |-> <<3>>]

Segment(x1, x2) == [low |-> <<x1>>, high |-> <<x2>>]
\* Two queries that share the upper half of the line out differently, and one that
\* cuts a single row off its low end.
MCQueries == {Segment(2, 5), Segment(0, 1), Segment(1, 3)}
=============================================================================
