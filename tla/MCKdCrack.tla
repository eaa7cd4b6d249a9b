----------------------------- MODULE MCKdCrack ------------------------------
(***************************************************************************)
(* KdCrack on a two-dimensional table of six rows.                         *)
(***************************************************************************)
EXTENDS KdCrack

\* Row 4 shares both coordinates with row 1, row 5 one coordinate with row 0.
MCPoints == << <<2, 1>>, <<0, 2>>, <<3, 0>>, <<1, 3>>, <<0, 2>>, <<2, 3>> >>
MCPoint  == [r \in 0 .. 5 |-> MCPoints[r + 1]]
MCFlagged == {2, 4}
MCExtent == [low |-> <<0, 0>>, high |-> <<3, 3>>]

Box(x1, x2, y1, y2) == [low |-> <<x1, y1>>, high |-> <<x2, y2>>]
\* Corner, interior and straddling boxes, one reaching past the data, and one
\* whose lower faces lie on the extent, so that two of its cuts make no progress.
MCQueries == {Box(1, 3, 1, 3), Box(0, 2, 2, 4), Box(2, 5, 0, 2), Box(-1, 1, 0, 4), Box(0, 3, 0, 3), Box(1, 2, 3, 4)}
=============================================================================
