----------------------------- MODULE MCSimpleTime -----------------------------
(* An instance of SimpleTime for TLC: two hours of two minutes of two seconds
   of two nanoseconds make a day, so that all the days a SimpleTime can hold
   fit into the integers of TLC. *)
EXTENDS SimpleTime

(* 2^63 nanoseconds are 106751.99 days. *)
DayLimit == 106752 * 16

UnixTime == <<1970, 2038>>

(* Both infinities, their neighbours, and the times around the origin. *)
SomeInstants == {-Limit, -1, 0, 1, 2, Limit \div 2, Limit - 2, Limit - 1}
=============================================================================
