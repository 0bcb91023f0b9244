----------------------------- MODULE OnlineStore -----------------------------
(***************************************************************************)
(* Storing tables in a folder of type STRUCT: MySqlOnlineMgr::storeOnl,    *)
(* and what findOnl and browseOnl read.                                    *)
(*                                                                         *)
(* data_tbl_onl_N_p holds rows of values with the interval they are valid  *)
(* in.  A row of the table that is stored ends what is valid after its     *)
(* time and is open itself.  The lock on data_tbl_onl_N_p is taken for     *)
(* each row; taking it again gives it up first, so the rows of two tables  *)
(* may alternate.  MyISAM rolls nothing back, and a statement that fails   *)
(* under the lock throws past UNLOCK TABLES.                               *)
(***************************************************************************)
EXTENDS Integers, Sequences

CONSTANTS
  Client,             \* the processes that store tables
  Nobody,             \* the owner of the table while no client has locked it
  Time,               \* CondDBKey: the points in time that are told apart
  MinusInf, PlusInf,  \* the ends of time
  Tables,             \* the tables stored: sequences of the since times of rows
  MaxStores,          \* bound: calls of storeOnl
  MaxFaults           \* bound: failed statements and crashes

ASSUME TimeAssumption ==
  /\ Time \subseteq Int /\ {MinusInf, PlusInf} \subseteq Time
  /\ \A t \in Time : MinusInf <= t /\ t <= PlusInf
ASSUME TableAssumption  == Tables \subseteq Seq(Time)
ASSUME NameAssumption   == Nobody \notin Client
ASSUME BoundsAssumption == MaxStores \in Nat /\ MaxFaults \in Nat

VARIABLES
  onlTbl,   \* data_tbl_onl_N_p: rows [since, till, call, row]
  lock,     \* who holds the WRITE lock
  pc,       \* what each client executes next
  arg,      \* its table
  call,     \* the number of its call: with a row number it stands for data
  l,        \* the row of the table it is at
  calls,    \* calls so far
  faults    \* failures so far

vars == <<onlTbl, lock, pc, arg, call, l, calls, faults>>

OnlRow == [since : Time, till : Time, call : Nat, row : Nat]
Label  == {"idle", "relock", "lock", "update", "insert", "unlock", "failed"}

Covers(r, p) == r.since <= p /\ p < r.till

(* The time of the row a client is at. *)
Since(c) == arg[c][l[c]]

Goto(c, label) == pc' = [pc EXCEPT ![c] = label]

(* createTablesOnl inserts a row of NULLs for all of time. *)
Init ==
  /\ onlTbl = {[since |-> MinusInf, till |-> PlusInf, call |-> 0, row |-> 0]}
  /\ lock = Nobody
  /\ pc = [c \in Client |-> "idle"]
  /\ arg = [c \in Client |-> <<>>]
  /\ call = [c \in Client |-> 0]
  /\ l = [c \in Client |-> 1]
  /\ calls = 0 /\ faults = 0
-----------------------------------------------------------------------------
(* The columns are compared with those of the table in the database, before
   anything is locked; a table without rows is only unlocked. *)
StoreOnl(c, t) ==
  /\ pc[c] = "idle"
  /\ calls < MaxStores
  /\ calls' = calls + 1
  /\ arg' = [arg EXCEPT ![c] = t]
  /\ call' = [call EXCEPT ![c] = calls + 1]
  /\ Goto(c, IF t = <<>> THEN "unlock" ELSE "lock")
  /\ UNCHANGED <<onlTbl, lock, l, faults>>

(* LOCK TABLES gives up the lock the session holds before it asks for one. *)
GiveUpLock(c) ==
  /\ pc[c] = "relock"
  /\ lock' = IF lock = c THEN Nobody ELSE lock
  /\ Goto(c, "lock")
  /\ UNCHANGED <<onlTbl, arg, call, l, calls, faults>>

(* Faulty: the rows are not locked against each other. *)
LockTableNoWait(c) ==
  /\ pc[c] = "lock"
  /\ lock' = c
  /\ Goto(c, "update")
  /\ UNCHANGED <<onlTbl, arg, call, l, calls, faults>>

LockTable(c) ==
  /\ pc[c] = "lock"
  /\ lock = Nobody
  /\ lock' = c
  /\ Goto(c, "update")
  /\ UNCHANGED <<onlTbl, arg, call, l, calls, faults>>

(* Faulty: rows that begin after since are left alone. *)
UpdateTillEarlier(c) ==
  /\ pc[c] = "update"
  /\ onlTbl' = {IF r.till > Since(c) /\ r.since < Since(c)
                THEN [r EXCEPT !.till = Since(c)] ELSE r : r \in onlTbl}
  /\ Goto(c, "insert")
  /\ UNCHANGED <<lock, arg, call, l, calls, faults>>

(* UPDATE ... SET till_t = since WHERE till_t > since: a row that begins later
   than since is left with an end before its beginning. *)
UpdateTill(c) ==
  /\ pc[c] = "update"
  /\ onlTbl' = {IF r.till > Since(c) THEN [r EXCEPT !.till = Since(c)] ELSE r
                : r \in onlTbl}
  /\ Goto(c, "insert")
  /\ UNCHANGED <<lock, arg, call, l, calls, faults>>

(* Faulty: after the last row the lock is kept. *)
InsertOnlKeepLock(c) ==
  /\ pc[c] = "insert"
  /\ onlTbl' = onlTbl \cup {[since |-> Since(c), till |-> PlusInf,
                             call |-> call[c], row |-> l[c]]}
  /\ IF l[c] = Len(arg[c])
     THEN Goto(c, "idle") /\ l' = [l EXCEPT ![c] = 1]
     ELSE Goto(c, "relock") /\ l' = [l EXCEPT ![c] = @ + 1]
  /\ UNCHANGED <<lock, arg, call, calls, faults>>

(* The row is open: the till time that the table has for it is not read. *)
InsertOnl(c) ==
  /\ pc[c] = "insert"
  /\ onlTbl' = onlTbl \cup {[since |-> Since(c), till |-> PlusInf,
                             call |-> call[c], row |-> l[c]]}
  /\ IF l[c] = Len(arg[c])
     THEN Goto(c, "unlock") /\ UNCHANGED l
     ELSE Goto(c, "relock") /\ l' = [l EXCEPT ![c] = @ + 1]
  /\ UNCHANGED <<lock, arg, call, calls, faults>>

EndCall(c) ==
  /\ lock' = IF lock = c THEN Nobody ELSE lock
  /\ Goto(c, "idle")
  /\ arg' = [arg EXCEPT ![c] = <<>>]
  /\ call' = [call EXCEPT ![c] = 0]
  /\ l' = [l EXCEPT ![c] = 1]
  /\ UNCHANGED <<onlTbl, calls, faults>>

UnlockTables(c) == pc[c] = "unlock" /\ EndCall(c)

(* A statement fails, or the client dies.  A lock lasts until the connection
   is closed. *)
Fail(c) ==
  /\ pc[c] \notin {"idle", "failed"}
  /\ faults < MaxFaults
  /\ faults' = faults + 1
  /\ Goto(c, "failed")
  /\ UNCHANGED <<onlTbl, lock, arg, call, l, calls>>

Close(c) == pc[c] = "failed" /\ EndCall(c)

Finished ==
  /\ calls = MaxStores
  /\ \A c \in Client : pc[c] = "idle"
  /\ UNCHANGED vars

Statement(c) ==
  \/ GiveUpLock(c) \/ LockTable(c) \/ UpdateTill(c) \/ InsertOnl(c)
  \/ UnlockTables(c)

Next ==
  \/ \E c \in Client :
       \/ \E t \in Tables : StoreOnl(c, t)
       \/ Statement(c) \/ Fail(c) \/ Close(c)
  \/ Finished

Spec == Init /\ [][Next]_vars

(* The server grants a lock to each that asks for it in the end; a client
   that has failed need not close its connection. *)
FairSpec == Spec /\ \A c \in Client : SF_vars(Statement(c))
-----------------------------------------------------------------------------
(* findOnl: the rows valid at a point. *)
FindOnl(p) == {r \in onlTbl : Covers(r, p)}

(* Faulty: the beginning of the interval is left out. *)
BrowseOnlOpen(s, t) ==
  {r \in onlTbl : \/ r.since < s /\ s < r.till
                  \/ r.since < t /\ t < r.till
                  \/ r.since > s /\ t >= r.since}

(* browseOnl: the rows whose interval holds an end of the interval asked for,
   and those that begin in it, the last point included. *)
BrowseOnl(s, t) ==
  {r \in onlTbl : \/ r.since < s /\ s < r.till
                  \/ r.since < t /\ t < r.till
                  \/ r.since >= s /\ t >= r.since}

(* The table and the locals keep their types; who changes the table holds its
   lock. *)
TypeOK ==
  /\ onlTbl \subseteq OnlRow
  /\ lock \in Client \cup {Nobody}
  /\ pc \in [Client -> Label]
  /\ arg \in [Client -> Tables \cup {<<>>}]
  /\ call \in [Client -> 0 .. MaxStores]
  /\ l \in [Client -> Nat]
  /\ calls \in 0 .. MaxStores /\ faults \in 0 .. MaxFaults
  /\ \A c \in Client :
       /\ pc[c] = "idle" => l[c] = 1
       /\ pc[c] \in {"relock", "lock", "update", "insert"} =>
            call[c] # 0 /\ l[c] \in 1 .. Len(arg[c])
       /\ pc[c] \in {"update", "insert"} => lock = c

(* findOnl finds at most one row at a point: two clients that store at once,
   or one that dies between its UPDATE and its INSERT, never leave two values
   for one time. *)
OneValuePerPoint == \A p \in Time : \A q, r \in FindOnl(p) : q = r

(* Between the UPDATE and the INSERT of a client nothing is valid from its
   time on. *)
Cleared ==
  \A c \in Client : pc[c] = "insert" => \A r \in onlTbl : r.till <= Since(c)

(* What has to hold before each step for OneValuePerPoint to hold after it. *)
OnlineInv == TypeOK /\ OneValuePerPoint /\ Cleared

(* Some time is left without a value only if something failed, and then from
   the time of a row that was not inserted on: storing over a gap from its
   beginning closes it. *)
GapsOnlyFromFailures ==
  lock = Nobody /\ faults = 0 => \A p \in Time : p < PlusInf => FindOnl(p) # {}

(* A browse of an interval loses no row that findOnl finds at one of its
   points: browseOnl mixes closed and half-open comparisons. *)
BrowseCoversFind ==
  lock = Nobody =>
    \A s, t \in Time : \A p \in Time : s <= p /\ p <= t => FindOnl(p) \subseteq BrowseOnl(s, t)

(* What queries of the table promise while nobody stores. *)
QueriesFindRows == BrowseCoversFind /\ GapsOnlyFromFailures

(* The timeline, with the row of the client that has cleared it as if it had
   been inserted: nobody else can look before it is. *)
Stored == [call : 1 .. MaxStores, row : UNION {DOMAIN t : t \in Tables}]

NoValue == [call |-> 0, row |-> 0]

AnyOf(values, default) == IF values = {} THEN default ELSE CHOOSE v \in values : TRUE

Pending(p) ==
  {[call |-> call[c], row |-> l[c]] :
     c \in {d \in Client : pc[d] = "insert" /\ Since(d) <= p /\ p < PlusInf}}

Found(p) == {[call |-> r.call, row |-> r.row] : r \in FindOnl(p)}

ValueAt(p) == AnyOf(Pending(p), AnyOf(Found(p), NoValue))

Timeline == INSTANCE OverwrittenTimeline
  WITH Time     <- Time \ {PlusInf},
       Value    <- Stored,
       Nothing  <- NoValue,
       timeline <- [p \in Time \ {PlusInf} |-> ValueAt(p)]

(* The rows of several clients are stored one after the other, each in one
   step that overwrites the timeline from its time on; a failure between the
   UPDATE and the INSERT only forgets what came after. *)
ImplementsTimeline == Timeline!Spec

(* Each call ends or fails, although it gives up the lock after every row and
   asks for it again, unless a client that failed keeps the lock. *)
StoresEnd ==
  \A c \in Client :
    (pc[c] \notin {"idle", "failed"})
      ~> (pc[c] \in {"idle", "failed"} \/ \E d \in Client : pc[d] = "failed" /\ lock = d)
=============================================================================
