---------------------------- MODULE MCVersionStore ----------------------------
(* Instances of VersionStore for TLC. *)
EXTENDS VersionQueries

CONSTANTS c1, c2

ThreeCells == 0 .. 3

OrderedIntervals == {i \in [since : Time, till : Time] : i.since < i.till}
=============================================================================
