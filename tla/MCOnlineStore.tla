---------------------------- MODULE MCOnlineStore ----------------------------
(* An instance of OnlineStore for TLC. *)
EXTENDS OnlineStore

CONSTANTS c1, c2

(* Minus infinity, two times and plus infinity. *)
FourPoints == 0 .. 3
First      == 0
Last       == 3

(* No row, one row, and two rows in order of time, in the wrong order, at one
   time, and at the ends of time. *)
SomeTables == {<<>>, <<1>>, <<3>>, <<1, 2>>, <<2, 1>>, <<0, 2>>}
=============================================================================
