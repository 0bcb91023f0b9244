---------------------------- MODULE OnlineIdStore ----------------------------
(***************************************************************************)
(* Storing tables in a folder of type STRUCTID:                            *)
(* MySqlOnlineMgr::storeOnlId and insertOnl.                               *)
(*                                                                         *)
(* The first column of such a table is an Id.  data_tbl_onl_N_p holds for  *)
(* every Id what was measured and from when till when it was valid; the    *)
(* last values of an Id are open, valid till plus infinity.  Consecutive   *)
(* rows with one Id are a block: they are stored together, from the time   *)
(* of the last of them on, if that is later than the time of the open rows *)
(* of the Id; otherwise they are dropped.  The whole table is stored under *)
(* one LOCK TABLES.                                                        *)
(***************************************************************************)
EXTENDS Integers, Sequences, FiniteSetsExt

CONSTANTS
  Client,             \* the processes that store tables
  Nobody,             \* the owner of the table while no client has locked it
  Id,                 \* the values of the first column
  NoId,               \* NULL
  Time,               \* CondDBKey: the points in time that are told apart
  MinusInf, PlusInf,  \* the ends of time
  UnixOrigin, UnixMax,  \* the times that Unix times can tell
  Tables,             \* the tables stored: sequences of rows [id, since]
  MaxStores,          \* bound: calls of storeOnlId
  MaxFaults           \* bound: failed statements and crashes

ASSUME TimeAssumption ==
  /\ Time \subseteq Int /\ {MinusInf, PlusInf} \subseteq Time
  /\ \A t \in Time : MinusInf <= t /\ t <= PlusInf
ASSUME TableAssumption ==
  Tables \subseteq {t \in Seq([id : Id, since : Time]) : Len(t) > 0}
ASSUME UnixAssumption == {UnixOrigin, UnixMax} \subseteq Time
ASSUME NameAssumption   == Nobody \notin Client /\ NoId \notin Id
ASSUME BoundsAssumption == MaxStores \in Nat /\ MaxFaults \in Nat

VARIABLES
  onlTbl,   \* data_tbl_onl_N_p: rows [since, till, id, call, row]
  lock,     \* who holds the WRITE lock
  pc,       \* what each client executes next
  arg,      \* its table
  call,     \* the number of its call: with a row number it stands for data
  open,     \* its map idToTime
  first,    \* the row of the table its block begins with
  l,        \* the rows of the table it has read
  next,     \* the row it inserts next
  calls,    \* calls so far
  faults    \* failures so far

locals == <<arg, call, open, first, l, next>>
vars   == <<onlTbl, lock, pc, locals, calls, faults>>

OnlRow == [since : Time, till : Time, id : Id \cup {NoId}, call : Nat, row : Nat]
Label  == {"idle", "select", "block", "close", "insert", "failed"}

Covers(r, p) == r.since <= p /\ p < r.till

Goto(c, label) == pc' = [pc EXCEPT ![c] = label]

(* createTablesOnl inserts a row of NULLs for all of time. *)
Init ==
  /\ onlTbl = {[since |-> MinusInf, till |-> PlusInf, id |-> NoId,
                call |-> 0, row |-> 0]}
  /\ lock = Nobody
  /\ pc = [c \in Client |-> "idle"]
  /\ arg = [c \in Client |-> <<>>]
  /\ call = [c \in Client |-> 0]
  /\ open = [c \in Client |-> [i \in Id |-> 0]]
  /\ first = [c \in Client |-> 1]
  /\ l = [c \in Client |-> 0]
  /\ next = [c \in Client |-> 1]
  /\ calls = 0 /\ faults = 0

-----------------------------------------------------------------------------
(* The columns of the table are checked first, then it is locked. *)
StoreOnlId(c, t) ==
  /\ pc[c] = "idle"
  /\ calls < MaxStores
  /\ calls' = calls + 1
  /\ lock = Nobody
  /\ lock' = c
  /\ arg' = [arg EXCEPT ![c] = t]
  /\ call' = [call EXCEPT ![c] = calls + 1]
  /\ Goto(c, "select")
  /\ UNCHANGED <<onlTbl, open, first, l, next, faults>>

(* The map from the Ids with open rows to the time of these rows.  An Id
   that is not in the map is looked up with operator[], which makes an entry
   of zero for it. *)
OpenSince(i) ==
  LET sinces == {r.since : r \in {q \in onlTbl : q.till = PlusInf /\ q.id = i}}
  IN  IF sinces = {} THEN 0 ELSE CHOOSE s \in sinces : \A u \in sinces : u <= s

SelectOpen(c) ==
  /\ pc[c] = "select"
  /\ open' = [open EXCEPT ![c] = [i \in Id |-> OpenSince(i)]]
  /\ Goto(c, "block")
  /\ UNCHANGED <<onlTbl, lock, arg, call, first, l, next, calls, faults>>

(* The rows from l + 1 on that have one Id. *)
BlockEnd(c) ==
  CHOOSE n \in l[c] + 1 .. Len(arg[c]) :
    /\ \A m \in l[c] + 1 .. n : arg[c][m].id = arg[c][l[c] + 1].id
    /\ n < Len(arg[c]) => arg[c][n + 1].id # arg[c][n].id

(* Faulty: the time of the block is not looked at. *)
ReadBlockAlways(c) ==
  /\ pc[c] = "block"
  /\ l[c] < Len(arg[c])
  /\ l' = [l EXCEPT ![c] = BlockEnd(c)]
  /\ Goto(c, "close")
  /\ UNCHANGED <<onlTbl, lock, arg, call, open, first, next, calls, faults>>

(* A block is read.  After the last row of the table the code reads the row
   behind it and the first value of an empty vector; what it finds there is
   not used, and if reading it kills the process that is a Fail here. *)
ReadBlock(c) ==
  /\ pc[c] = "block"
  /\ l[c] < Len(arg[c])
  /\ l' = [l EXCEPT ![c] = BlockEnd(c)]
  /\ LET last == arg[c][BlockEnd(c)]
     IN  IF open[c][last.id] < last.since
         THEN /\ Goto(c, "close")
              /\ UNCHANGED first
         ELSE /\ first' = [first EXCEPT ![c] = BlockEnd(c) + 1]
              /\ UNCHANGED pc
  /\ UNCHANGED <<onlTbl, lock, arg, call, open, next, calls, faults>>

(* Faulty: UPDATE without the condition on the Id. *)
CloseEveryId(c) ==
  /\ pc[c] = "close"
  /\ LET last == arg[c][l[c]]
     IN  onlTbl' = {IF r.till > last.since
                    THEN [r EXCEPT !.till = last.since] ELSE r : r \in onlTbl}
  /\ next' = [next EXCEPT ![c] = first[c]]
  /\ Goto(c, "insert")
  /\ UNCHANGED <<lock, arg, call, open, first, l, calls, faults>>

(* Faulty: UPDATE of the rows of NULLs only. *)
CloseOnlyNulls(c) ==
  /\ pc[c] = "close"
  /\ LET last == arg[c][l[c]]
     IN  onlTbl' = {IF r.till > last.since /\ r.id = NoId
                    THEN [r EXCEPT !.till = last.since] ELSE r : r \in onlTbl}
  /\ next' = [next EXCEPT ![c] = first[c]]
  /\ Goto(c, "insert")
  /\ UNCHANGED <<lock, arg, call, open, first, l, calls, faults>>

(* Faulty: UPDATE without OR ... IS NULL. *)
CloseOnlyId(c) ==
  /\ pc[c] = "close"
  /\ LET last == arg[c][l[c]]
     IN  onlTbl' = {IF r.till > last.since /\ r.id = last.id
                    THEN [r EXCEPT !.till = last.since] ELSE r : r \in onlTbl}
  /\ next' = [next EXCEPT ![c] = first[c]]
  /\ Goto(c, "insert")
  /\ UNCHANGED <<lock, arg, call, open, first, l, calls, faults>>

(* UPDATE ... SET till_t = since for what is valid after it. *)
CloseOpen(c) ==
  /\ pc[c] = "close"
  /\ LET last == arg[c][l[c]]
     IN  onlTbl' = {IF r.till > last.since /\ r.id \in {last.id, NoId}
                    THEN [r EXCEPT !.till = last.since] ELSE r : r \in onlTbl}
  /\ next' = [next EXCEPT ![c] = first[c]]
  /\ Goto(c, "insert")
  /\ UNCHANGED <<lock, arg, call, open, first, l, calls, faults>>

(* The rows of the block are inserted one by one, all with the time of its
   last row. *)
InsertRow(c) ==
  /\ pc[c] = "insert"
  /\ onlTbl' = onlTbl \cup {[since |-> arg[c][l[c]].since, till |-> PlusInf,
                             id |-> arg[c][next[c]].id, call |-> call[c],
                             row |-> next[c]]}
  /\ IF next[c] = l[c]
     THEN /\ first' = [first EXCEPT ![c] = l[c] + 1]
          /\ Goto(c, "block")
          /\ UNCHANGED next
     ELSE /\ next' = [next EXCEPT ![c] = @ + 1]
          /\ UNCHANGED <<pc, first>>
  /\ UNCHANGED <<lock, arg, call, open, l, calls, faults>>

EndCall(c) ==
  /\ lock' = Nobody
  /\ Goto(c, "idle")
  /\ arg' = [arg EXCEPT ![c] = <<>>]
  /\ call' = [call EXCEPT ![c] = 0]
  /\ open' = [open EXCEPT ![c] = [i \in Id |-> 0]]
  /\ first' = [first EXCEPT ![c] = 1]
  /\ l' = [l EXCEPT ![c] = 0]
  /\ next' = [next EXCEPT ![c] = 1]
  /\ UNCHANGED <<onlTbl, calls, faults>>

UnlockTables(c) ==
  /\ pc[c] = "block"
  /\ l[c] = Len(arg[c])
  /\ EndCall(c)

(* A statement fails or the client dies under the lock, which lasts until
   its connection is closed. *)
Fail(c) ==
  /\ pc[c] \notin {"idle", "failed"}
  /\ faults < MaxFaults
  /\ faults' = faults + 1
  /\ Goto(c, "failed")
  /\ UNCHANGED <<onlTbl, lock, locals, calls>>

Close(c) == pc[c] = "failed" /\ EndCall(c)

Finished ==
  /\ calls = MaxStores
  /\ \A c \in Client : pc[c] = "idle"
  /\ UNCHANGED vars

Next ==
  \/ \E c \in Client :
       \/ \E t \in Tables : StoreOnlId(c, t)
       \/ SelectOpen(c) \/ ReadBlock(c) \/ CloseOpen(c) \/ InsertRow(c)
       \/ UnlockTables(c) \/ Fail(c) \/ Close(c)
  \/ Finished

Spec == Init /\ [][Next]_vars
-----------------------------------------------------------------------------
(* A client between two blocks has none left to insert. *)
TypeOK ==
  /\ onlTbl \subseteq OnlRow
  /\ lock \in Client \cup {Nobody}
  /\ pc \in [Client -> Label]
  /\ arg \in [Client -> Tables \cup {<<>>}]
  /\ call \in [Client -> Nat]
  /\ open \in [Client -> [Id -> Time \cup {0}]]
  /\ {first, l, next} \subseteq [Client -> Nat]
  /\ \A c \in Client : /\ l[c] \in 0 .. Len(arg[c])
                       /\ first[c] \in 1 .. l[c] + 1
                       /\ next[c] \in 1 .. l[c] + 1
                       /\ pc[c] = "block" => first[c] = l[c] + 1
  /\ calls \in 0 .. MaxStores /\ faults \in 0 .. MaxFaults

At(i, p) == {r \in onlTbl : r.id = i /\ Covers(r, p)}

(* findOnl without an Id: the row of NULLs is found at no point where an Id
   has values. *)
NullRowStandsAlone ==
  \A i \in Id, p \in Time : At(NoId, p) = {} \/ At(i, p) = {}

(* The table and the locals keep their types, and NULLs never hide values. *)
OnlineIdInv == TypeOK /\ NullRowStandsAlone

(* findOnl with an Id: the rows found at a point are of one block, stored by
   one call for one time, even after a crash in the middle of a block, and
   even if one table has several blocks of the Id in any order of time. *)
OneBlockPerId ==
  \A i \in Id, p \in Time : \A q, r \in At(i, p) :
    q.since = r.since /\ q.call = r.call

(* findOnl without an Id. *)
FindOnl(p) == {r \in onlTbl : Covers(r, p)}

(* findCondDBObject with an ICondDBObject, in a folder whose description says
   it is of times, of runs and events, or neither, when the time now is used:
   an object for the rows found, valid while all of them are.  In a folder of
   times the interval is cut to what Unix times can tell. *)
IovObject(description, p, now) ==
  LET rows  == FindOnl(IF description = "neither" THEN now ELSE p)
      since == IF rows = {} THEN now ELSE Max({r.since : r \in rows})
      till  == IF rows = {} THEN now ELSE Min({r.till : r \in rows})
  IN  IF description = "time"
      THEN [since |-> Max({since, UnixOrigin}), till |-> Min({till, UnixMax})]
      ELSE [since |-> since, till |-> till]

(* From its first time on an Id has values at every point, whatever happens
   to the other Ids, unless something failed. *)
NoGap ==
  lock = Nobody /\ faults = 0 =>
    \A r \in onlTbl, p \in Time :
      r.id # NoId /\ r.since <= p /\ p < PlusInf => At(r.id, p) # {}

(* While the object for a point is valid, whoever keeps it instead of asking
   again misses at most Ids that had no rows yet: none of its rows is replaced
   by another of its Id or ends. *)
IovObjectLasts ==
  lock = Nobody =>
    \A description \in {"time", "run-event"}, p \in UnixOrigin .. UnixMax - 1 :
      LET object == IovObject(description, p, p)
          ids    == {r.id : r \in FindOnl(p)}
      IN  FindOnl(p) # {} =>
            /\ object.since <= p /\ p < object.till
            /\ \A q \in object.since .. object.till - 1 :
                 FindOnl(p) = {r \in FindOnl(q) : r.id \in ids}

(* What readers rely on while nobody stores. *)
IdHasNoGap == NoGap /\ IovObjectLasts

(* What was over when a call began is not changed by it: the rows of an Id
   that ended before its open rows keep their interval. *)
HistoryKept ==
  [][\A c \in Client : pc[c] \in {"block", "close", "insert"} =>
       \A r \in onlTbl : r.id # NoId /\ r.till <= open[c][r.id] => r \in onlTbl']_vars
=============================================================================
