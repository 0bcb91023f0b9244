---------------------------- MODULE MCTaggedStore ----------------------------
(* Instances of TaggedStore for TLC. *)
EXTENDS TaggedStore

CONSTANTS c1, c2, g1, g2, t1, t2

TwoCells   == 0 .. 2
ThreeCells == 0 .. 3

OrderedIntervals == {i \in [since : Time, till : Time] : i.since < i.till}

(* Two administrators apply one tag each. *)
OneTagEach == [g \in Tagger |-> IF g = g1 THEN {t1} ELSE {t2}]
=============================================================================
