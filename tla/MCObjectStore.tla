---------------------------- MODULE MCObjectStore ----------------------------
(* Instances of ObjectStore for TLC. *)
EXTENDS ObjectStore, TLC

CONSTANTS c1, c2

(* Four cells are enough for an object to lie strictly inside another one and
   for a third to trim one of the pieces left of the first without covering
   it; three for a third to overlap both pieces. *)
FourCells  == 0 .. 4
ThreeCells == 0 .. 3
TwoCells   == 0 .. 2

(* The intervals a careful caller passes, and all those the program takes. *)
AnyOrderIntervals == [since : Time, till : Time]
OrderedIntervals  == {i \in AnyOrderIntervals : i.since < i.till}

ClientSymmetry == Permutations({c1, c2})
=============================================================================
