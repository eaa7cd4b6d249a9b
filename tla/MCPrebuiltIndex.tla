--------------------------- MODULE MCPrebuiltIndex --------------------------
(***************************************************************************)
(* PrebuiltIndex on five rows of two dimensions: a grid of three by three  *)
(* tiles whose inner edges may be rounded one step either way, a median    *)
(* tree, and the adaptive tree, each with and without persisted summaries  *)
(* and with room for none, or two, of the four rows that have a score.     *)
(***************************************************************************)
EXTENDS PrebuiltIndex

\* Rows 1 and 4 share a point; rows 2 and 3 lie next to tile edges.
MCPoints == << <<3, 1>>, <<0, 2>>, <<1, 0>>, <<2, 2>>, <<0, 2>> >>
MCPoint  == [r \in 0 .. 4 |-> MCPoints[r + 1]]
MCExtent == [low |-> <<0, 0>>, high |-> <<3, 3>>]

\* Row 1 is at the mean; rows 2 and 3 tie for the last place of two.
MCScores == <<3, 0, 2, 2, 1>>
MCScore  == [r \in 0 .. 4 |-> MCScores[r + 1]]

Box(x1, x2, y1, y2) == [low |-> <<x1, y1>>, high |-> <<x2, y2>>]
\* An inner box, one whose lower corner is a row, one that reaches past the data.
MCQueries == {Box(0, 3, 1, 3), Box(2, 4, 2, 3), Box(-1, 2, 2, 5)}
=============================================================================
