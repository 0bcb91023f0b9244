----------------------------- MODULE VersionStore -----------------------------
(***************************************************************************)
(* Storing a CondDBTable in a folder of type STRUCTTAG:                    *)
(* MySqlOnlineMgr::storeVer, store and insert.                             *)
(*                                                                         *)
(* The rows of the table become one version: they get one dat_id in        *)
(* data_tbl_tag and one object in the key and HEAD tables.  All of it      *)
(* happens under one LOCK TABLES.  The loop that makes room in HEAD is     *)
(* that of MySqlObjectMgr::store with one difference: its UPDATE and       *)
(* DELETE name the obj_id and not the row, so they change every piece      *)
(* HEAD holds of that object.  The rows of HEAD are therefore told apart   *)
(* here by their places in the table.                                      *)
(***************************************************************************)
EXTENDS Integers, FiniteSets, Functions

CONSTANTS
  Client,      \* the processes that store tables
  Nobody,      \* the owner of the tables while no client has locked them
  Time,        \* CondDBKey: the points in time that are told apart
  Interval,    \* the validity of the tables stored
  MaxRows,     \* bound: rows of a table
  MaxStores,   \* bound: calls of storeVer
  MaxFaults    \* bound: failed statements and crashes

ASSUME TimeAssumption     == Time \subseteq Int
ASSUME IntervalAssumption == Interval \subseteq [since : Time, till : Time]
ASSUME NobodyAssumption   == Nobody \notin Client
ASSUME BoundsAssumption   == {MaxRows, MaxStores, MaxFaults} \subseteq Nat

VARIABLES
  dataTbl,     \* data_tbl_tag_N_p: rows [dat, call, row], call is who wrote it
  keyTbl,      \* object_key_tbl_N
  headTbl,     \* object_key_tbl_head_N: its rows by their places
  lock,        \* who holds the WRITE locks
  pc,          \* what each client executes next
  arg,         \* its table: [since, till, rows], and the number of the call
  dat,         \* its local datId
  done,        \* the rows of the table it has inserted
  todo,        \* the rows of its overlap query it has not handled yet
  layer,       \* its local layer, -1 before the first row
  tail,        \* the piece that a split still has to insert
  calls,       \* calls so far
  faults       \* failures so far

tables == <<dataTbl, keyTbl, headTbl>>
locals == <<arg, dat, done, todo, layer, tail>>
vars   == <<tables, lock, pc, locals, calls, faults>>

DataRow == [dat : Nat, call : Nat, row : Nat]
KeyRow  == [obj : Nat, since : Time, till : Time, layer : Nat, dat : Nat]
HeadRow == [obj : Nat, since : Time, till : Time]
Label   == {"idle", "max", "data", "select", "rows", "split",
            "head", "unlock", "failed"}

Covers(r, p) == r.since <= p /\ p < r.till

Goto(c, label) == pc' = [pc EXCEPT ![c] = label]

-----------------------------------------------------------------------------
(* Statements on HEAD.  UPDATE and DELETE ... WHERE obj_id = o. *)
Updated(o, column, time) ==
  [n \in DOMAIN headTbl |-> IF headTbl[n].obj # o THEN headTbl[n]
                            ELSE [headTbl[n] EXCEPT ![column] = time]]

Deleted(o) == Restrict(headTbl, {n \in DOMAIN headTbl : headTbl[n].obj # o})

(* INSERT fills the first free place. *)
Inserted(h, r) ==
  LET free == CHOOSE n \in 1 .. Cardinality(DOMAIN h) + 1 :
                n \notin DOMAIN h /\ \A m \in 1 .. n - 1 : m \in DOMAIN h
  IN  [n \in DOMAIN h \cup {free} |-> IF n = free THEN r ELSE h[n]]

Objects == {k.obj : k \in keyTbl}

(* LAST_INSERT_ID() is the number of the key row just inserted: under the
   lock nobody else numbers objects, and no key row is ever deleted. *)
LastObject == Cardinality(keyTbl)

Overlapping(i) ==
  {[place |-> n, obj |-> headTbl[n].obj, since |-> headTbl[n].since,
    till |-> headTbl[n].till] :
     n \in {m \in DOMAIN headTbl : /\ headTbl[m].since < i.till
                                   /\ headTbl[m].till > i.since
                                   /\ headTbl[m].obj \in Objects}}

LayerOf(o) == (CHOOSE k \in keyTbl : k.obj = o).layer

AnyArg == [since |-> 0, till |-> 0, rows |-> 0, call |-> 0]

Init ==
  /\ dataTbl = {} /\ keyTbl = {} /\ headTbl = <<>>
  /\ lock = Nobody
  /\ pc = [c \in Client |-> "idle"]
  /\ arg = [c \in Client |-> AnyArg]
  /\ dat = [c \in Client |-> 0]
  /\ done = [c \in Client |-> 0]
  /\ todo = [c \in Client |-> {}]
  /\ layer = [c \in Client |-> -1]
  /\ tail = [c \in Client |-> {}]
  /\ calls = 0 /\ faults = 0

-----------------------------------------------------------------------------
(* Faulty: the call does not wait for the lock. *)
StoreVerNoWait(c, i, n) ==
  /\ pc[c] = "idle"
  /\ calls < MaxStores
  /\ calls' = calls + 1
  /\ lock' = c
  /\ arg' = [arg EXCEPT ![c] = [since |-> i.since, till |-> i.till,
                                rows |-> n, call |-> calls + 1]]
  /\ Goto(c, "max")
  /\ UNCHANGED <<tables, dat, done, todo, layer, tail, faults>>

(* storeVer begins with LOCK TABLES. *)
StoreVer(c, i, n) ==
  /\ pc[c] = "idle"
  /\ calls < MaxStores
  /\ calls' = calls + 1
  /\ lock = Nobody
  /\ lock' = c
  /\ arg' = [arg EXCEPT ![c] = [since |-> i.since, till |-> i.till,
                                rows |-> n, call |-> calls + 1]]
  /\ Goto(c, "max")
  /\ UNCHANGED <<tables, dat, done, todo, layer, tail, faults>>

(* SELECT MAX(dat_id): the next number, 0 when the table is empty. *)
SelectMaxDat(c) ==
  /\ pc[c] = "max"
  /\ dat' = [dat EXCEPT ![c] =
       IF dataTbl = {} THEN 0
       ELSE 1 + CHOOSE m \in {d.dat : d \in dataTbl} : \A d \in dataTbl : d.dat <= m]
  /\ Goto(c, "data")
  /\ UNCHANGED <<tables, lock, arg, done, todo, layer, tail, calls, faults>>

InsertData(c) ==
  /\ pc[c] = "data"
  /\ dataTbl' = dataTbl \cup {[dat |-> dat[c], call |-> arg[c].call,
                               row |-> done[c] + 1]}
  /\ done' = [done EXCEPT ![c] = @ + 1]
  /\ Goto(c, IF done[c] + 1 = arg[c].rows THEN "select" ELSE "data")
  /\ UNCHANGED <<keyTbl, headTbl, lock, arg, dat, todo, layer, tail, calls,
                 faults>>

SelectOverlap(c) ==
  /\ pc[c] = "select"
  /\ todo' = [todo EXCEPT ![c] = Overlapping(arg[c])]
  /\ Goto(c, "rows")
  /\ UNCHANGED <<tables, lock, arg, dat, done, layer, tail, calls, faults>>

(* One turn of the loop, with the values the row had when it was selected. *)
NextRow(c, r) ==
  /\ pc[c] = "rows"
  /\ r \in todo[c]
  /\ todo' = [todo EXCEPT ![c] = @ \ {r}]
  /\ layer' = [layer EXCEPT ![c] = IF LayerOf(r.obj) > @ THEN LayerOf(r.obj) ELSE @]
  /\ UNCHANGED <<dataTbl, keyTbl, lock, arg, dat, done, calls, faults>>

(* Faulty: the object is cut at the wrong end of the new one. *)
TrimEndAtTill(c, r) ==
  /\ NextRow(c, r)
  /\ r.since < arg[c].since /\ r.till > arg[c].since /\ r.till <= arg[c].till
  /\ headTbl' = Updated(r.obj, "till", arg[c].till)
  /\ UNCHANGED <<pc, tail>>

TrimEnd(c, r) ==
  /\ NextRow(c, r)
  /\ r.since < arg[c].since /\ r.till > arg[c].since /\ r.till <= arg[c].till
  /\ headTbl' = Updated(r.obj, "till", arg[c].since)
  /\ UNCHANGED <<pc, tail>>

(* Faulty: the DELETE is left out. *)
SwallowNothing(c, r) ==
  /\ NextRow(c, r)
  /\ r.since >= arg[c].since /\ r.till <= arg[c].till
  /\ UNCHANGED <<headTbl, pc, tail>>

Swallow(c, r) ==
  /\ NextRow(c, r)
  /\ r.since >= arg[c].since /\ r.till <= arg[c].till
  /\ headTbl' = Deleted(r.obj)
  /\ UNCHANGED <<pc, tail>>

TrimStart(c, r) ==
  /\ NextRow(c, r)
  /\ r.since < arg[c].till /\ r.till > arg[c].till /\ r.since >= arg[c].since
  /\ headTbl' = Updated(r.obj, "since", arg[c].till)
  /\ UNCHANGED <<pc, tail>>

SplitRow(c, r) ==
  /\ NextRow(c, r)
  /\ r.since < arg[c].since /\ r.till > arg[c].till
  /\ headTbl' = Updated(r.obj, "till", arg[c].since)
  /\ tail' = [tail EXCEPT ![c] = {[obj |-> r.obj, since |-> arg[c].till,
                                   till |-> r.till]}]
  /\ Goto(c, "split")

InsertTail(c) ==
  /\ pc[c] = "split"
  /\ \E t \in tail[c] : headTbl' = Inserted(headTbl, t)
  /\ tail' = [tail EXCEPT ![c] = {}]
  /\ Goto(c, "rows")
  /\ UNCHANGED <<dataTbl, keyTbl, lock, arg, dat, done, todo, layer, calls, faults>>

InsertKey(c) ==
  /\ pc[c] = "rows"
  /\ todo[c] = {}
  /\ keyTbl' = keyTbl \cup {[obj |-> LastObject + 1, since |-> arg[c].since,
                             till |-> arg[c].till, layer |-> layer[c] + 1,
                             dat |-> dat[c]]}
  /\ Goto(c, "head")
  /\ UNCHANGED <<dataTbl, headTbl, lock, locals, calls, faults>>

InsertHead(c) ==
  /\ pc[c] = "head"
  /\ headTbl' = Inserted(headTbl, [obj |-> LastObject, since |-> arg[c].since,
                                   till |-> arg[c].till])
  /\ Goto(c, "unlock")
  /\ UNCHANGED <<dataTbl, keyTbl, lock, locals, calls, faults>>

EndCall(c) ==
  /\ lock' = Nobody
  /\ Goto(c, "idle")
  /\ arg' = [arg EXCEPT ![c] = AnyArg]
  /\ dat' = [dat EXCEPT ![c] = 0]
  /\ done' = [done EXCEPT ![c] = 0]
  /\ todo' = [todo EXCEPT ![c] = {}]
  /\ layer' = [layer EXCEPT ![c] = -1]
  /\ tail' = [tail EXCEPT ![c] = {}]
  /\ UNCHANGED <<tables, calls, faults>>

(* store sends UNLOCK TABLES; the one storeVer sends after it does nothing. *)
UnlockTables(c) == pc[c] = "unlock" /\ EndCall(c)

(* A statement fails, an Assert throws, or the client dies, with the lock
   held; the server drops the lock when the connection is closed. *)
Fail(c) ==
  /\ pc[c] \notin {"idle", "failed"}
  /\ faults < MaxFaults
  /\ faults' = faults + 1
  /\ Goto(c, "failed")
  /\ UNCHANGED <<tables, lock, locals, calls>>

Close(c) == pc[c] = "failed" /\ EndCall(c)

Finished ==
  /\ calls = MaxStores
  /\ \A c \in Client : pc[c] = "idle"
  /\ UNCHANGED vars

Next ==
  \/ \E c \in Client :
       \/ \E i \in Interval, n \in 1 .. MaxRows : StoreVer(c, i, n)
       \/ SelectMaxDat(c) \/ InsertData(c) \/ SelectOverlap(c)
       \/ \E r \in todo[c] :
            TrimEnd(c, r) \/ Swallow(c, r) \/ TrimStart(c, r) \/ SplitRow(c, r)
       \/ InsertTail(c) \/ InsertKey(c) \/ InsertHead(c) \/ UnlockTables(c)
       \/ Fail(c) \/ Close(c)
  \/ Finished

Spec == Init /\ [][Next]_vars
-----------------------------------------------------------------------------
TypeOK ==
  /\ dataTbl \subseteq DataRow /\ keyTbl \subseteq KeyRow
  /\ \A n \in DOMAIN headTbl : n \in Nat /\ headTbl[n] \in HeadRow
  /\ lock \in Client \cup {Nobody}
  /\ pc \in [Client -> Label]
  /\ dat \in [Client -> Nat] /\ done \in [Client -> 0 .. MaxRows]
  /\ layer \in [Client -> Nat \cup {-1}]
  /\ calls \in 0 .. MaxStores /\ faults \in 0 .. MaxFaults

(* Each row of HEAD lies within the validity of its object, even the pieces
   that were changed along with another one. *)
HeadWithinValidity ==
  \A n \in DOMAIN headTbl : \E k \in keyTbl :
    k.obj = headTbl[n].obj /\ k.since <= headTbl[n].since /\ headTbl[n].till <= k.till

(* Tables and locals keep their types, and HEAD what it says of an object
   within what the object says. *)
VersionInv == TypeOK /\ HeadWithinValidity

HeadAt(p) == {headTbl[n].obj : n \in {m \in DOMAIN headTbl : Covers(headTbl[m], p)}}

NewestAt(p) ==
  {k.obj : k \in {j \in keyTbl : Covers(j, p) /\ \A l \in keyTbl :
                                   Covers(l, p) => l.obj <= j.obj}}

(* Right after a store HEAD holds the new version, and nothing else, on the
   whole of its validity. *)
NewestIsInHead ==
  lock = Nobody /\ faults = 0 =>
    \A p \in Time : LastObject \in NewestAt(p) => HeadAt(p) = {LastObject}

(* HEAD is at every point "the last version" (ICondDBBasicDataAccess): true
   as long as no object has two pieces in HEAD, and not in general. *)
HeadIsLatest ==
  lock = Nobody /\ faults = 0 => \A p \in Time : HeadAt(p) = NewestAt(p)
=============================================================================
