------------------------------- MODULE Boxes -------------------------------
(***************************************************************************)
(* Coordinates and iteration spaces of structured grids.  A coordinate is  *)
(* a tuple of integers; a box is the hypercube between its first and its   *)
(* last coordinate, both inclusive.  An iteration space pair is a box in   *)
(* the local coordinates of a domain with the same box in global ones.     *)
(***************************************************************************)
EXTENDS Integers, Sequences, FiniteSetsExt, SequencesExt

(* A coordinate from its components; SubSeq has TLC evaluate them once.    *)
Coord(f) == SubSeq(f, 1, Len(f))

Plus(a, b)  == Coord([i \in DOMAIN a |-> a[i] + b[i]])
Minus(a, b) == Coord([i \in DOMAIN a |-> a[i] - b[i]])
Leq(a, b)   == \A i \in DOMAIN a : a[i] <= b[i]
Lower(a, b) == Coord([i \in DOMAIN a |-> IF a[i] < b[i] THEN a[i] ELSE b[i]])
Upper(a, b) == Coord([i \in DOMAIN a |-> IF a[i] > b[i] THEN a[i] ELSE b[i]])
Dot(a, b)   == MapThenSumSet(LAMBDA i : a[i] * b[i], DOMAIN a)

Box(first, last)    == [first |-> first, last |-> last]
Pair(local, global) == [local |-> local, global |-> global]

Extents(box) == Coord([i \in DOMAIN box.first |-> box.last[i] - box.first[i] + 1])
Size(box)    == FoldSeq(LAMBDA x, y : x * y, 1, Extents(box))

Inside(x, box) == Leq(box.first, x) /\ Leq(x, box.last)

(* What a loop nest over a box visits.                                     *)
Cells(box) ==
  LET span == UNION {box.first[i] .. box.last[i] : i \in DOMAIN box.first}
  IN  {x \in [DOMAIN box.first -> span] : Inside(x, box)}
=============================================================================
