--------------------------- MODULE MCOnlineIdStore ---------------------------
(* An instance of OnlineIdStore for TLC. *)
EXTENDS OnlineIdStore, TLC

CONSTANTS c1, c2, a, b

(* Minus infinity, zero, two later times and plus infinity. *)
FivePoints == -1 .. 3
First      == -1
Last       == 3

Row(i, s) == [id |-> i, since |-> s]

(* All tables of one row; two rows of one Id or of two; and one Id in two
   blocks with the other one in between. *)
SomeTables ==
  LET times == 0 .. 2
  IN  {<<Row(i, s)>> : i \in Id, s \in times}
      \cup {<<Row(i, s), Row(j, u)>> : i \in Id, j \in Id, s \in times, u \in times}
      \cup {<<Row(i, s), Row(j, 1), Row(i, u)>> :
              i \in Id, j \in Id, s \in times, u \in times}

Symmetry == Permutations({c1, c2}) \cup Permutations({a, b})
=============================================================================
