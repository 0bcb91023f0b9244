---------------------------- MODULE MCObjectReader ----------------------------
(* Instances of ObjectReader for TLC.  The reader changes no table and reads
   none while it iterates, so its steps commute with those of the others, and
   the others may as well wait while an iterator is open. *)
EXTENDS ObjectReader

CONSTANTS c1, g1, t1

FourPoints == 0 .. 3
OrderedIntervals == {i \in [since : Time, till : Time] : i.since < i.till}
OneForAll == [g \in Tagger |-> Tag]
LastCell == {[since |-> 1, till |-> 2]}

MCNext ==
  \/ asked = Nothing /\ TaggingNext /\ UNCHANGED readerVars
  \/ ReaderStep

MCSpec == ReaderInit /\ [][MCNext]_systemVars
=============================================================================
