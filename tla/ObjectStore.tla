----------------------------- MODULE ObjectStore -----------------------------
(***************************************************************************)
(* Storing BLOB objects in one folder: CondDBDataAccess::storeCondDBObject *)
(* over MySqlDataMgr::store and MySqlObjectMgr::store.                     *)
(*                                                                         *)
(* Several clients, each a process with its own connection, store objects  *)
(* in the same folder.  The tables are MyISAM: no transactions, one SQL    *)
(* statement is atomic, and what a client wants to be atomic beyond that   *)
(* it must do under LOCK TABLES.  A step of this specification is one SQL  *)
(* statement that changes a table or a lock, or the SELECT whose result    *)
(* the statements after it use.                                            *)
(*                                                                         *)
(* An object is valid on the half-open interval [since, till).  All the    *)
(* versions ever stored stay in object_key_tbl; object_key_tbl_head holds  *)
(* HEAD, the pieces of objects that no later object has covered.  Nothing  *)
(* in the program rejects an interval with till <= since, so Interval may  *)
(* hold such intervals; the runs say when it does.                         *)
(***************************************************************************)
EXTENDS Integers

CONSTANTS
  Client,      \* the processes that store objects
  Nobody,      \* the owner of the tables while no client has locked them
  Time,        \* CondDBKey: the points in time that are told apart
  Interval,    \* the validity intervals clients pass, as records
  MaxStores,   \* bound: calls of storeCondDBObject
  MaxFaults    \* bound: crashes of clients plus failed statements

ASSUME TimeAssumption     == Time \subseteq Int
ASSUME IntervalAssumption == /\ Interval \subseteq [since : Time, till : Time]
                             /\ Interval # {}
ASSUME NobodyAssumption   == Nobody \notin Client
ASSUME BoundsAssumption   == MaxStores \in Nat /\ MaxFaults \in Nat

VARIABLES
  keyTbl,      \* object_key_tbl_N: one row per object stored
  headTbl,     \* object_key_tbl_head_N: the distinct rows of HEAD
  objSeq,      \* the last obj_id its AUTO_INCREMENT column gave
  datSeq,      \* the last dat_id data_tbl_N_p gave: its rows are 1 .. datSeq
  lock,        \* who holds the WRITE locks on the folder's tables
  pc,          \* what each client executes next
  iv,          \* its parameters since and till
  dat,         \* its parameter datId
  todo,        \* the rows of its overlap query it has not handled yet
  layer,       \* its local layer, -1 before the first row
  tail,        \* the piece after till that a split still has to insert
  lastId,      \* LAST_INSERT_ID() of its connection
  faults       \* crashes and failed statements so far

tables == <<keyTbl, headTbl, objSeq, datSeq>>
locals == <<iv, dat, todo, layer, tail, lastId>>
vars   == <<tables, lock, pc, locals, faults>>

HeadRow   == [obj : Nat, since : Time, till : Time]
JoinedRow == [head : HeadRow, layer : Nat]
KeyRow    == [obj : Nat, since : Time, till : Time, layer : Nat, dat : Nat]

Locked == {"select", "rows", "split", "head", "unlock", "failed"}
Label  == {"idle", "lock"} \cup Locked

(* find, browseHistory and contains agree on half-open validity. *)
Covers(r, p) == r.since <= p /\ p < r.till

-----------------------------------------------------------------------------
(* The SQL statements of store, as what they do to the rows. *)

(* SELECT h.*, o.layer ... the HEAD rows that overlap an interval, each with
   the layer of its object. *)
LayersOf(h) == {o.layer : o \in {k \in keyTbl : k.obj = h.obj}}

Overlapping(i) ==
  UNION {{[head |-> h, layer |-> l] : l \in LayersOf(h)} :
           h \in {g \in headTbl : g.since < i.till /\ g.till > i.since}}

(* Faulty variants, here and below, are what the properties must notice; they
   are no part of the specification.  UPDATE ... WHERE obj_id = .. only. *)
ReplacedEveryPiece(h, new) ==
  {IF g.obj = h.obj
   THEN [g EXCEPT !.since = IF new.since = h.since THEN @ ELSE new.since,
                  !.till = IF new.till = h.till THEN @ ELSE new.till]
   ELSE g : g \in headTbl}

(* UPDATE ... WHERE obj_id = .. AND since_t = .. AND till_t = .. names the
   whole row, as does DELETE with the same condition. *)
Replaced(h, new) == {IF g = h THEN new ELSE g : g \in headTbl}

Goto(c, label) == pc' = [pc EXCEPT ![c] = label]

(* The locals of a call that has ended, or has not begun. *)
AnyInterval == CHOOSE i \in Interval : TRUE

ForgetLocals(c) ==
  /\ iv' = [iv EXCEPT ![c] = AnyInterval]
  /\ dat' = [dat EXCEPT ![c] = 0]
  /\ todo' = [todo EXCEPT ![c] = {}]
  /\ layer' = [layer EXCEPT ![c] = -1]
  /\ tail' = [tail EXCEPT ![c] = {}]
  /\ lastId' = [lastId EXCEPT ![c] = 0]

-----------------------------------------------------------------------------
Init ==
  /\ keyTbl = {} /\ headTbl = {}
  /\ objSeq = 0 /\ datSeq = 0
  /\ lock = Nobody
  /\ pc = [c \in Client |-> "idle"]
  /\ iv = [c \in Client |-> AnyInterval]
  /\ dat = [c \in Client |-> 0]
  /\ todo = [c \in Client |-> {}]
  /\ layer = [c \in Client |-> -1]
  /\ tail = [c \in Client |-> {}]
  /\ lastId = [c \in Client |-> 0]
  /\ faults = 0

(* Faulty: LAST_INSERT_ID() is asked before the row is inserted. *)
StoreDataStaleId(c, i) ==
  /\ pc[c] = "idle"
  /\ datSeq < MaxStores
  /\ datSeq' = datSeq + 1
  /\ dat' = [dat EXCEPT ![c] = datSeq]
  /\ iv' = [iv EXCEPT ![c] = i]
  /\ Goto(c, "lock")
  /\ UNCHANGED <<keyTbl, headTbl, objSeq, lock, todo, layer, tail, lastId, faults>>

(* MySqlDataMgr::store: the data go to data_tbl, outside any lock, and
   LAST_INSERT_ID() says which row they are. *)
StoreData(c, i) ==
  /\ pc[c] = "idle"
  /\ datSeq < MaxStores
  /\ datSeq' = datSeq + 1
  /\ dat' = [dat EXCEPT ![c] = datSeq + 1]
  /\ iv' = [iv EXCEPT ![c] = i]
  /\ Goto(c, "lock")
  /\ UNCHANGED <<keyTbl, headTbl, objSeq, lock, todo, layer, tail, lastId, faults>>

(* Faulty: a lock that keeps nobody out. *)
LockTablesNoWait(c) ==
  /\ pc[c] = "lock"
  /\ lock' = c
  /\ Goto(c, "select")
  /\ UNCHANGED <<tables, locals, faults>>

(* LOCK TABLES waits until no other connection holds a lock. *)
LockTables(c) ==
  /\ pc[c] = "lock"
  /\ lock = Nobody
  /\ lock' = c
  /\ Goto(c, "select")
  /\ UNCHANGED <<tables, locals, faults>>

SelectOverlap(c) ==
  /\ pc[c] = "select"
  /\ todo' = [todo EXCEPT ![c] = Overlapping(iv[c])]
  /\ Goto(c, "rows")
  /\ UNCHANGED <<tables, lock, iv, dat, layer, tail, lastId, faults>>

(* One turn of the loop over the result: the row leaves the result, layer
   becomes the highest one seen, and one of four statements makes room. *)
NextRow(c, r) ==
  /\ pc[c] = "rows"
  /\ r \in todo[c]
  /\ todo' = [todo EXCEPT ![c] = @ \ {r}]
  /\ layer' = [layer EXCEPT ![c] = IF r.layer > @ THEN r.layer ELSE @]
  /\ UNCHANGED <<keyTbl, objSeq, datSeq, lock, iv, dat, lastId, faults>>

TrimEnd(c, r) ==
  /\ NextRow(c, r)
  /\ r.head.since < iv[c].since /\ r.head.till > iv[c].since
  /\ r.head.till <= iv[c].till
  /\ headTbl' = Replaced(r.head, [r.head EXCEPT !.till = iv[c].since])
  /\ UNCHANGED <<pc, tail>>

Swallow(c, r) ==
  /\ NextRow(c, r)
  /\ r.head.since >= iv[c].since /\ r.head.till <= iv[c].till
  /\ headTbl' = headTbl \ {r.head}
  /\ UNCHANGED <<pc, tail>>

TrimStart(c, r) ==
  /\ NextRow(c, r)
  /\ r.head.since < iv[c].till /\ r.head.till > iv[c].till
  /\ r.head.since >= iv[c].since
  /\ headTbl' = Replaced(r.head, [r.head EXCEPT !.since = iv[c].till])
  /\ UNCHANGED <<pc, tail>>

(* The new object lies strictly inside the row: the row keeps the part
   before it, and the part after it is inserted by a second statement. *)
SplitRow(c, r) ==
  /\ NextRow(c, r)
  /\ r.head.since < iv[c].since /\ r.head.till > iv[c].till
  /\ headTbl' = Replaced(r.head, [r.head EXCEPT !.till = iv[c].since])
  /\ tail' = [tail EXCEPT ![c] = {[r.head EXCEPT !.since = iv[c].till]}]
  /\ Goto(c, "split")

InsertTail(c) ==
  /\ pc[c] = "split"
  /\ headTbl' = headTbl \cup tail[c]
  /\ tail' = [tail EXCEPT ![c] = {}]
  /\ Goto(c, "rows")
  /\ UNCHANGED <<keyTbl, objSeq, datSeq, lock, iv, dat, todo, layer, lastId, faults>>

(* MySqlObjectMgr::insert, first statement, once the loop has ended. *)
InsertKey(c) ==
  /\ pc[c] = "rows"
  /\ todo[c] = {}
  /\ keyTbl' = keyTbl \cup {[obj |-> objSeq + 1, since |-> iv[c].since,
                             till |-> iv[c].till, layer |-> layer[c] + 1,
                             dat |-> dat[c]]}
  /\ objSeq' = objSeq + 1
  /\ lastId' = [lastId EXCEPT ![c] = objSeq + 1]
  /\ Goto(c, "head")
  /\ UNCHANGED <<headTbl, datSeq, lock, iv, dat, todo, layer, tail, faults>>

InsertHead(c) ==
  /\ pc[c] = "head"
  /\ headTbl' = headTbl \cup {[obj |-> lastId[c], since |-> iv[c].since,
                                till |-> iv[c].till]}
  /\ Goto(c, "unlock")
  /\ UNCHANGED <<keyTbl, objSeq, datSeq, lock, locals, faults>>

(* Faulty: there is a way to return without UNLOCK TABLES. *)
ReturnLocked(c) ==
  /\ pc[c] = "unlock"
  /\ lock' \in {Nobody, lock}
  /\ Goto(c, "idle")
  /\ ForgetLocals(c)
  /\ UNCHANGED <<tables, faults>>

UnlockTables(c) ==
  /\ pc[c] = "unlock"
  /\ lock' = Nobody
  /\ Goto(c, "idle")
  /\ ForgetLocals(c)
  /\ UNCHANGED <<tables, faults>>

(* Faulty: the locks outlive the connection, or anybody's locks go with it. *)
DisconnectLocked(c) ==
  /\ lock' = lock
  /\ Goto(c, "idle")
  /\ ForgetLocals(c)
  /\ UNCHANGED tables

DisconnectUnlocksAll(c) ==
  /\ lock' = Nobody
  /\ Goto(c, "idle")
  /\ ForgetLocals(c)
  /\ UNCHANGED tables

(* A client dies, or closes its connection after a failure.  The server
   drops the locks of a connection that is gone; the tables stay as they
   are.  The client may come back as a new process. *)
Disconnect(c) ==
  /\ lock' = IF lock = c THEN Nobody ELSE lock
  /\ Goto(c, "idle")
  /\ ForgetLocals(c)
  /\ UNCHANGED tables

Crash(c) ==
  /\ pc[c] \notin {"idle", "failed"}
  /\ faults < MaxFaults
  /\ faults' = faults + 1
  /\ Disconnect(c)

(* A statement fails under the lock: execute() throws, nothing catches the
   exception before the caller, and UNLOCK TABLES is never sent.  Every
   further statement of this client names a table it has not locked, which
   the server refuses, so all it can do is to close its connection.  That the
   handle reconnects (MYSQL_OPT_RECONNECT) and the store goes on without the
   lock is outside the model. *)
StatementFails(c) ==
  /\ pc[c] \in Locked \ {"failed"}
  /\ faults < MaxFaults
  /\ faults' = faults + 1
  /\ Goto(c, "failed")
  /\ UNCHANGED <<tables, lock, locals>>

Close(c) ==
  /\ pc[c] = "failed"
  /\ Disconnect(c)
  /\ UNCHANGED faults

(* All the calls the bound allows have ended. *)
Finished ==
  /\ datSeq = MaxStores
  /\ \A c \in Client : pc[c] = "idle"
  /\ UNCHANGED vars

(* The steps of a call of storeCondDBObject that has started. *)
Step(c) ==
  \/ LockTables(c) \/ SelectOverlap(c)
  \/ \E r \in todo[c] :
       TrimEnd(c, r) \/ Swallow(c, r) \/ TrimStart(c, r) \/ SplitRow(c, r)
  \/ InsertTail(c) \/ InsertKey(c) \/ InsertHead(c) \/ UnlockTables(c)

Next ==
  \/ \E c \in Client :
       \/ \E i \in Interval : StoreData(c, i)
       \/ Step(c)
       \/ Crash(c) \/ StatementFails(c) \/ Close(c)
  \/ Finished

Spec == Init /\ [][Next]_vars

(* A client that is executing goes on, and the server serves the lock
   requests that wait: strong fairness, since other clients may take the
   lock first again and again.  Nobody has to start a call, crash, or close
   its connection. *)
Fairness == \A c \in Client : SF_vars(Step(c))

FairSpec == Spec /\ Fairness
-----------------------------------------------------------------------------
(* Every variable holds values of the kind its column or local can hold. *)
TypeOK ==
  /\ keyTbl \subseteq KeyRow /\ headTbl \subseteq HeadRow
  /\ objSeq \in Nat /\ datSeq \in Nat
  /\ lock \in Client \cup {Nobody}
  /\ pc \in [Client -> Label]
  /\ iv \in [Client -> Interval]
  /\ dat \in [Client -> Nat]
  /\ todo \in [Client -> SUBSET JoinedRow]
  /\ layer \in [Client -> Nat \cup {-1}]
  /\ tail \in [Client -> SUBSET HeadRow]
  /\ lastId \in [Client -> Nat]
  /\ faults \in Nat

(* The objects HEAD holds at a point, and those stored last at it among the
   first n. *)
HeadAt(p) == {h.obj : h \in {g \in headTbl : Covers(g, p)}}

NewestAt(p, n) ==
  {k.obj : k \in {j \in keyTbl : /\ j.obj <= n /\ Covers(j, p)
                                 /\ \A l \in keyTbl : l.obj <= n /\ Covers(l, p)
                                                        => l.obj <= j.obj}}

(* findCondDBObject reads one row of HEAD and ignores any other: at every
   point HEAD names at most one object, at every moment, whatever intervals
   were stored, whoever crashed in the middle of MySqlObjectMgr::store. *)
HeadSingleValued ==
  \A p \in Time, g, h \in headTbl : Covers(g, p) /\ Covers(h, p) => g.obj = h.obj

(* Why HeadSingleValued is never broken, part by part: what the statements
   of a client under the lock rely on.  HasKey: the join of SelectOverlap
   finds the layer of an object. *)
HasKey(o) == \E k \in keyTbl : k.obj = o

OnlyOwnerLocked == \A c \in Client : pc[c] \in Locked => lock = c

KeysNumbered ==
  /\ \A k \in keyTbl : k.obj <= objSeq
  /\ \A j, k \in keyTbl : j.obj = k.obj => j = k

HeadHasKeys == \A h \in headTbl : HasKey(h.obj)

(* The rows a client still has to handle are in HEAD, once each, and no
   other row of HEAD meets the interval of its object. *)
TodoMeetsInterval(c) ==
  /\ \A r \in todo[c] : /\ r.head \in headTbl
                        /\ r.head.since < iv[c].till /\ r.head.till > iv[c].since
  /\ \A q, r \in todo[c] : q.head = r.head => q = r
  /\ \A h \in headTbl, p \in Time :
       Covers(h, p) /\ Covers(iv[c], p) => \E r \in todo[c] : r.head = h

(* Until the tail of a split row is inserted, HEAD holds at its points no
   other object than the one that is split. *)
TailIsFree(c) ==
  /\ \A t, u \in tail[c] : t = u
  /\ \A t \in tail[c] :
       /\ t.since = iv[c].till /\ HasKey(t.obj)
       /\ \A h \in headTbl, p \in Time :
            Covers(t, p) /\ Covers(h, p) => h.obj = t.obj

(* When the loop has ended HEAD is empty on the interval of the object. *)
RoomIsMade(c) ==
  /\ HasKey(lastId[c])
  /\ \A h \in headTbl, p \in Time : ~(Covers(h, p) /\ Covers(iv[c], p))

HeadInv ==
  /\ OnlyOwnerLocked /\ KeysNumbered /\ HeadHasKeys /\ HeadSingleValued
  /\ \A c \in Client : /\ pc[c] \in {"rows", "split"} => TodoMeetsInterval(c)
                       /\ pc[c] = "split" => TailIsFree(c)
                       /\ pc[c] = "head" => RoomIsMade(c)

(* The tables and locals keep their types, and HEAD stays in order. *)
StoreInv == TypeOK /\ HeadInv

(* Each row of HEAD is a piece of the validity of an object that is in the
   key table, and the data of that object are stored and are nobody else's:
   a reader that joins head, key and data tables always finds the data. *)
HeadNamesStoredData ==
  /\ \A h \in headTbl : \E k \in keyTbl :
       k.obj = h.obj /\ k.since <= h.since /\ h.till <= k.till
  /\ \A k \in keyTbl : k.dat \in 1 .. datSeq
  /\ \A j, k \in keyTbl : j.obj = k.obj \/ j.dat = k.dat => j = k

(* What a reader sees of HEAD between two stores is at every point the last
   object stored there, as long as nothing failed. *)
HeadIsLatest ==
  lock = Nobody /\ faults = 0 => \A p \in Time : HeadAt(p) = NewestAt(p, objSeq)

(* No step, not even the first ones after a crash, replaces the object that
   HEAD holds at a point by an older one. *)
HeadNeverGoesBack ==
  [][\A p \in Time : \A g \in headTbl, h \in headTbl' :
       Covers(g, p) /\ Covers(h, p) => g.obj <= h.obj]_vars

(* When clients crash and statements fail, only a client that failed under
   the lock and keeps its connection open can hold the others up. *)
StoreEndsUnlessLockLeaks ==
  \A c \in Client : pc[c] = "lock" ~> \/ pc[c] = "idle"
                                      \/ \E d \in Client : pc[d] = "failed"

(* Readers wait for the lock, so the object in the making becomes visible at
   UNLOCK TABLES: while a client holds the lock HEAD is what it was before. *)
Committed ==
  IF \E c \in Client : pc[c] \in {"head", "unlock"} THEN objSeq - 1 ELSE objSeq

Object(S) == IF S = {} THEN 0 ELSE CHOOSE o \in S : TRUE

VisibleHead ==
  [p \in Time |-> Object(IF lock = Nobody THEN HeadAt(p)
                                          ELSE NewestAt(p, Committed))]

Timeline == INSTANCE ObjectTimeline WITH count <- Committed, head <- VisibleHead

(* The tables, the locks and the loop of MySqlObjectMgr::store implement the
   timeline in which each store is one step. *)
ImplementsTimeline == Timeline!Spec
=============================================================================
