---------------------------- MODULE ObjectTimeline ----------------------------
(***************************************************************************)
(* What storing objects in a folder promises, with no tables and no locks: *)
(* the objects are numbered in the order they are stored, and HEAD at each *)
(* point in time is the last object stored whose validity holds the point. *)
(* Storing is one step for whoever reads HEAD.                             *)
(***************************************************************************)
EXTENDS Integers

CONSTANTS Time, Interval

VARIABLES
  count,    \* objects stored so far; the last one has this number
  head      \* the object valid at each point, 0 where there is none

vars == <<count, head>>

Init ==
  /\ count = 0
  /\ head = [p \in Time |-> 0]

(* HEAD after one more object, valid on i. *)
Overlaid(i) ==
  [p \in Time |-> IF i.since <= p /\ p < i.till THEN count + 1 ELSE head[p]]

Next ==
  /\ count' = count + 1
  /\ \E i \in Interval : head' = Overlaid(i)

Spec == Init /\ [][Next]_vars
=============================================================================
