------------------------------- MODULE Session -------------------------------
(***************************************************************************)
(* A program's session: CondDBInterface, the MySqlDBMgr behind it, the     *)
(* connection to the server, and the managers that share it.               *)
(*                                                                         *)
(* One connection serves all the managers of a session (MySqlHandle counts *)
(* them), so it has one current database, while MySqlDBMgr keeps the name  *)
(* of the database it was asked for last, whether there was one or not,    *)
(* and each database keeps its own name in its databases_tbl.  A manager   *)
(* made for a database selects the database that table names.              *)
(*                                                                         *)
(* Left out, because the behaviour is undefined: any call but init on an   *)
(* interface on which init was not called, whose relDBMgr is not           *)
(* initialised; and, because no code calls it, createDBPath.               *)
(***************************************************************************)
EXTENDS Integers, FiniteSets

CONSTANTS
  Program,      \* the processes
  Database,     \* the names of databases
  Server,       \* Server[p]: the name p calls the server by
  NoDatabase,   \* no current database
  Kind,         \* the kinds of folders in use: "object", "online"
  Asked,        \* the managers of CondDBInterface that programs ask for
  MaxFaults     \* bound: crashes, and calls that fail

ASSUME NoDatabaseAssumption == NoDatabase \notin Database
ASSUME KindAssumption == Kind \subseteq {"object", "online"}
ASSUME AskedAssumption == Asked \subseteq {"access", "folder", "tag"}
ASSUME BoundsAssumption == MaxFaults \in Nat

VARIABLES
  made,         \* made[d]: statements of createDatabase executed for d
  row,          \* row[d]: the rows of its databases_tbl
  strays,       \* history: what was written in a database other than the one
                \* the session is for
  connections,  \* connections[p]: of p, at the server
  session,      \* session[p]: the CondDBInterface of p and what it holds
  faults        \* faults so far

serverVars  == <<made, row, strays, connections>>
sessionVars == <<serverVars, session, faults>>

(* CREATE DATABASE is the first statement, the INSERT into databases_tbl the
   fourth. *)
Statements == 7
RowStatement == 4

TopManager == {"access", "folder", "tag"}

(* The constructors of CondDBInterface, MySqlDBMgr and MySqlConnection. *)
NewInterface ==
  [interface |-> "new", name |-> NoDatabase, current |-> NoDatabase, answer |-> "none",
   usage |-> 0, linked |-> {}, log |-> "none", creating |-> FALSE,
   top |-> [k \in TopManager |-> "none"]]

NoSession == [NewInterface EXCEPT !.interface = "none"]

Become(p, s) == session' = [session EXCEPT ![p] = s]

Is(p, state) == session[p].interface = state /\ ~session[p].creating

SessionInit ==
  /\ made = [d \in Database |-> 0]
  /\ row = [d \in Database |-> {}]
  /\ strays = {}
  /\ connections = [p \in Program |-> 0]
  /\ session = [p \in Program |-> NoSession]
  /\ faults = 0
-----------------------------------------------------------------------------
(* createCondDBMgr *)
NewSession(p) ==
  /\ Is(p, "none")
  /\ Become(p, NewInterface)
  /\ UNCHANGED <<serverVars, faults>>

(* A manager shares the handle; MySqlConnection::connect replaces the log of
   the handle, and connects only a handle that is not yet connected. *)
Joined(s, k)  == [s EXCEPT !.linked = @ \cup {k}, !.usage = @ + 1]
WithLog(s, k) == [s EXCEPT !.log = k]

(* init makes a MySqlDBMgr, whose folder and tag managers share its handle
   before it is connected, and have no log.  After an init that failed the
   MySqlDBMgr of that one is lost, but managers handed out keep it. *)
Initialised(p, d) ==
  LET fresh == [session[p] EXCEPT !.usage = 1, !.linked = {}, !.current = NoDatabase]
  IN  [WithLog(Joined(Joined(fresh, "folder"), "tag"), "database") EXCEPT
                     !.name = d,
                     !.top = [k \in TopManager |-> IF @[k] = "none" THEN "none" ELSE "lost"]]

CanInit(p) == Is(p, "new") \/ Is(p, "failed")

InitSession(p, d) ==
  /\ CanInit(p)
  /\ Become(p, [Initialised(p, d) EXCEPT !.interface = "ready"])
  /\ connections' = [connections EXCEPT ![p] = @ + 1]
  /\ UNCHANGED <<made, row, strays, faults>>

InitFails(p, d) ==
  /\ CanInit(p)
  /\ faults < MaxFaults
  /\ faults' = faults + 1
  /\ Become(p, [Initialised(p, d) EXCEPT !.interface = "failed"])
  /\ UNCHANGED serverVars

(* getCondDBDataAccess, getCondDBFolderMgr, getCondDBTagMgr: made once. *)
Handed(s, k) == IF s.top[k] = "none" THEN [s EXCEPT !.top[k] = "shared"] ELSE s

GetTopManager(p, k) ==
  /\ Is(p, "ready") \/ Is(p, "failed")
  /\ Become(p, Handed(session[p], k))
  /\ UNCHANGED <<serverVars, faults>>
-----------------------------------------------------------------------------
(* MySqlConnection::changeDB: the connection keeps its current database when
   there is none of that name. *)
Exists(d) == made[d] > 0

ChangeDB(s, d) ==
  IF Exists(d) THEN [s EXCEPT !.current = d, !.answer = "opened"]
               ELSE [s EXCEPT !.answer = "refused"]

(* MySqlDBMgr::openDatabase keeps the name before it is known to exist. *)
Opened(s, d) == ChangeDB([s EXCEPT !.name = d], d)

(* openDatabase throws where isCondDBcreated answers false. *)
OpenDatabase(p) ==
  /\ Is(p, "ready")
  /\ Become(p, Opened(session[p], session[p].name))
  /\ UNCHANGED <<serverVars, faults>>

(* createCondDB creates the database that it cannot open. *)
CreateCondDB(p, d) ==
  /\ Is(p, "ready")
  /\ Become(p, IF Exists(d) THEN Opened(session[p], d)
                ELSE [Opened(session[p], d) EXCEPT !.creating = TRUE, !.answer = "none"])
  /\ UNCHANGED <<serverVars, faults>>

Created(p) == session[p].current

(* CREATE DATABASE, then the database is selected. *)
CreateDatabase(p) ==
  LET d == session[p].name
  IN  /\ session[p].creating
      /\ Created(p) # d
      /\ ~Exists(d)
      /\ made' = [made EXCEPT ![d] = 1]
      /\ Become(p, [session[p] EXCEPT !.current = d])
      /\ UNCHANGED <<row, strays, connections, faults>>

(* Faulty: CREATE DATABASE IF NOT EXISTS, as in createDBPath. *)
DatabaseExistsAlready(p) ==
  LET d == session[p].name
  IN  /\ session[p].creating
      /\ Created(p) # d
      /\ Exists(d)
      /\ Become(p, [session[p] EXCEPT !.current = d])
      /\ UNCHANGED <<serverVars, faults>>

(* Another program was faster. *)
DatabaseExists(p) ==
  LET d == session[p].name
  IN  /\ session[p].creating
      /\ Created(p) # d
      /\ Exists(d)
      /\ Become(p, [session[p] EXCEPT !.creating = FALSE, !.answer = "refused"])
      /\ UNCHANGED <<serverVars, faults>>

(* The other statements of createDatabase, in the current database. *)
CreateTable(p) ==
  LET d == session[p].name  here == Created(p)
  IN  /\ session[p].creating
      /\ here = d
      /\ made' = [made EXCEPT ![here] = @ + 1]
      /\ row' = IF made'[here] = RowStatement
                THEN [row EXCEPT ![here] = @ \cup {[dbname |-> d, srvname |-> Server[p]]}]
                ELSE row
      /\ Become(p, IF made'[here] < Statements THEN session[p]
                   ELSE [session[p] EXCEPT !.creating = FALSE, !.answer = "created"])
      /\ UNCHANGED <<strays, connections, faults>>

(* A statement of createDatabase fails; the exception reaches the program. *)
CreationFails(p) ==
  /\ session[p].creating
  /\ faults < MaxFaults
  /\ faults' = faults + 1
  /\ Become(p, [session[p] EXCEPT !.creating = FALSE, !.answer = "refused"])
  /\ UNCHANGED serverVars
-----------------------------------------------------------------------------
(* getObjectMgr, getOnlineMgr and getDataMgr: the managers of a database id
   are made once.  Every database has the id 1 in its own table.  A new one
   selects the database the table names. *)
DBPath(s) == CHOOSE r \in row[s.current] : TRUE

Linked(s, k) ==
  IF k \in s.linked THEN s
  ELSE [WithLog(Joined(s, k), k) EXCEPT !.current = DBPath(s).dbname]

CanWork(p) == Is(p, "ready") /\ session[p].current # NoDatabase /\ row[session[p].current] # {}

Works(p, s, what) ==
  /\ Become(p, s)
  /\ strays' = IF s.current = s.name THEN strays
               ELSE strays \cup {[what |-> what, after |-> s.answer]}
  /\ UNCHANGED <<made, row, connections, faults>>

(* Faulty: the only row is taken, whatever it names. *)
DBIdOfOnlyRow(p) == row[session[p].current]

(* getDB_id: createFolder and createFolderSet look for the row that has the
   names this session uses, and throw if there is not exactly one. *)
DBId(p) ==
  {r \in row[session[p].current] : r.dbname = session[p].name /\ r.srvname = Server[p]}

CreateFolder(p, k) ==
  /\ CanWork(p)
  /\ Cardinality(DBId(p)) = 1
  /\ Works(p, Linked(session[p], k), "folder")

(* storeCondDBObject takes the id from the row of the folder. *)
WithManagers(s, k) == IF k = "object" THEN Linked(Linked(s, "object"), "data")
                                      ELSE Linked(s, "online")

StoreObject(p, k) ==
  /\ CanWork(p)
  /\ Works(p, WithManagers(session[p], k), "object")

(* changeDatabase fails: the new manager is lost, but it is linked. *)
ManagerFails(p, k) ==
  /\ CanWork(p)
  /\ k \notin session[p].linked
  /\ faults < MaxFaults
  /\ faults' = faults + 1
  /\ Become(p, [session[p] EXCEPT !.usage = @ + 1, !.log = k])
  /\ UNCHANGED serverVars

(* ~CondDBInterface: each manager gives up the handle, at last MySqlDBMgr
   itself; who finds itself the last deletes it, which closes the
   connection.  (Nothing is connected after an init that failed.) *)
Unlinked(s) == s.usage - Cardinality(s.linked) - 1

DestroyStep(p) ==
  /\ connections' = IF session[p].interface = "ready" /\ Unlinked(session[p]) = 0
                    THEN [connections EXCEPT ![p] = @ - 1] ELSE connections
  /\ UNCHANGED <<made, row, strays>>

DestroySession(p) ==
  /\ Is(p, "ready") \/ Is(p, "failed")
  /\ Become(p, NoSession)
  /\ DestroyStep(p)
  /\ UNCHANGED faults

(* The process dies: the server closes its connections. *)
Die(p) ==
  /\ session[p] # NoSession
  /\ faults < MaxFaults
  /\ faults' = faults + 1
  /\ Become(p, NoSession)
  /\ connections' = [connections EXCEPT ![p] = 0]
  /\ UNCHANGED <<made, row, strays>>

SessionStep(p) ==
  \/ NewSession(p) \/ OpenDatabase(p) \/ DestroySession(p) \/ Die(p)
  \/ CreateDatabase(p) \/ DatabaseExists(p) \/ CreateTable(p) \/ CreationFails(p)
  \/ \E d \in Database : InitSession(p, d) \/ InitFails(p, d) \/ CreateCondDB(p, d)
  \/ \E k \in Asked : GetTopManager(p, k)
  \/ \E k \in Kind : CreateFolder(p, k) \/ StoreObject(p, k) \/ ManagerFails(p, k)

SessionNext == \E p \in Program : SessionStep(p)

SessionSpec == SessionInit /\ [][SessionNext]_sessionVars
-----------------------------------------------------------------------------
(* What is written goes to the database the session is for.  After an open
   that failed, the session is for a database it does not use: objects are
   still stored in the folders of the one it used before, but no folder is
   created there. *)
WritesGoHome ==
  \A w \in strays : w.what = "object" /\ w.after = "refused"

(* The handle counts its users, so the connection lives exactly as long as
   the session, unless a manager was lost; a log is there whenever a
   statement may fail; a manager handed out by a session that is connected
   shares the connection, unless it was asked for after an init that failed;
   and after a successful open the current database is the one asked for. *)
SessionInv ==
  /\ WritesGoHome
  /\ \A p \in Program :
       LET s == session[p]
       IN  /\ s.interface \in {"failed", "ready"} =>
                /\ s.usage >= 1 + Cardinality(s.linked)
                /\ faults = 0 => s.usage = 1 + Cardinality(s.linked)
                /\ s.log # "none"
           /\ faults = 0 => /\ connections[p] = IF s.interface = "ready" THEN 1 ELSE 0
                            /\ \A k \in TopManager : s.top[k] # "lost"
           /\ s.answer \in {"opened", "created"} => s.current = s.name /\ Exists(s.name)

(* A database is made by one program.  Until it has all of its tables that
   program is at work on it, or has failed; then one row names it, and the
   program was told so. *)
Creators(d) == {p \in Program : session[p].creating /\ session[p].current = d /\ session[p].name = d}

MadeByOne ==
  \A d \in Database :
    /\ Cardinality(Creators(d)) <= 1
    /\ made[d] \in 1 .. Statements - 1 => faults > 0 \/ Creators(d) # {}
    /\ made[d] = Statements => Cardinality(row[d]) = 1 /\ \A r \in row[d] : r.dbname = d
    /\ \A p \in Program : session[p].answer = "created" => made[session[p].current] = Statements
=============================================================================
