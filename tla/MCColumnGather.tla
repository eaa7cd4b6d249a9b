--------------------------- MODULE MCColumnGather ---------------------------
(***************************************************************************)
(* ColumnGather on two columns of eleven rows in pages of two: the last page *)
(* is short, a range of two pages is too large for a slot of one, a range  *)
(* of more than two pages is split, and the ring holds three reads.          *)
(***************************************************************************)
EXTENDS ColumnGather

Body(rows, tag) == [rows |-> rows, tag |-> tag, outlier |-> FALSE]
Held(rows, tag) == [rows |-> rows, tag |-> tag, outlier |-> TRUE]

\* Scattered rows whose pages touch, with a row on the short last page; a stratum
\* with its held-out rows, dense but with a gap; dense rows and scattered rows
\* with one wanted twice; nothing.
MCBatches == {
  << Body(<<5, 1>>, 0), Body(<<10, 2>>, 1) >>,
  << Body(<<7, 1>>, 0), Held(<<0>>, 0), Body(<<8>>, 1) >>,
  << Body(<<5, 2, 3>>, 0), Body(<<0, 5, 8>>, 1) >>,
  << Body(<<9, 0>>, 0), Body(<<0>>, 1) >>,
  <<>> }
=============================================================================
