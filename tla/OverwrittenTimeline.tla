-------------------------- MODULE OverwrittenTimeline --------------------------
(***************************************************************************)
(* What a folder of type STRUCT promises: one value at every point in      *)
(* time.  Storing a value says that it holds from a time on, and forgets   *)
(* what was known from that time on.  A store that fails half-way may      *)
(* forget without putting anything in its place; nothing else is lost.     *)
(***************************************************************************)
EXTENDS Integers

CONSTANTS
  Time,     \* the points in time
  Value,    \* what is stored
  Nothing   \* no value

VARIABLE timeline   \* timeline[p]: the value valid at p

Init == timeline = [p \in Time |-> Nothing]

Put(s, v) == timeline' = [p \in Time |-> IF p >= s THEN v ELSE timeline[p]]

Cut(s) == Put(s, Nothing)

Next == \E s \in Time : Cut(s) \/ \E v \in Value : Put(s, v)

Spec == Init /\ [][Next]_timeline
=============================================================================
