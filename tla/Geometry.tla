------------------------------ MODULE Geometry ------------------------------
(***************************************************************************)
(* Points and half-open rectangles (include/a3i/core/geometry.hpp).        *)
(*                                                                         *)
(* A coordinate is an integer: the code only compares coordinates, so a    *)
(* finite slice of the order is all its behaviour depends on.              *)
(***************************************************************************)
EXTENDS Integers

CONSTANT Dims                       \* number of dimensions of a point

ASSUME DimsAssumption == Dims \in Nat \ {0}

Axes == 1 .. Dims
Vec  == [Axes -> Int]
Rect == [low : Vec, high : Vec]     \* one half-open Range [low, high) per axis

ContainsPoint(r, x) == \A a \in Axes : r.low[a] <= x[a] /\ x[a] < r.high[a]

ContainsRect(r, o) == \A a \in Axes : r.low[a] <= o.low[a] /\ o.high[a] <= r.high[a]

Intersects(r, o) == \A a \in Axes : r.low[a] < o.high[a] /\ o.low[a] < r.high[a]

\* KdTree::classify: how a query rectangle relates to a partition's bounds.
Containment == {"Disjoint", "Contained", "Partial"}

Classify(bounds, q) ==
  IF ~Intersects(bounds, q)        THEN "Disjoint"
  ELSE IF ContainsRect(q, bounds)  THEN "Contained"
  ELSE                                  "Partial"

\* A range with no data on any axis; no point lies in it.
EmptyRect == [low |-> [a \in Axes |-> 0], high |-> [a \in Axes |-> 0]]
=============================================================================
