----------------------------- MODULE FolderTree -----------------------------
(***************************************************************************)
(* The catalog of a conditions database: MySqlDBMgr::createDatabase, and   *)
(* the folders and folder sets of CondFolderMgr and MySqlFolderMgr.        *)
(*                                                                         *)
(* Several processes create the database, create folder sets and folders,  *)
(* with the missing parents if they ask for it, and delete them.  Each     *)
(* call is a series of statements: it looks whether a path is taken, looks *)
(* for the parent, inserts the row of the folder, and creates the tables   *)
(* of the folder one by one.  No lock is held, no transaction rolls        *)
(* anything back, folders_tbl has no unique key on the path, and a process *)
(* may die between any two statements.                                     *)
(*                                                                         *)
(* A path is the sequence of its separators and names as the caller wrote  *)
(* them; the row keeps it as it was written.                               *)
(***************************************************************************)
EXTENDS Integers, FiniteSets, SequencesExt

CONSTANTS
  Client,       \* the processes
  Separator,    \* the "/" of a path
  Request,      \* the calls each client may make
  MaxCalls,     \* bound: calls on an open database
  MaxFaults     \* bound: crashes

ASSUME BoundsAssumption == MaxCalls \in Nat /\ MaxFaults \in Nat

VARIABLES
  made,     \* how many statements of createDatabase have been executed
  folders,  \* folders_tbl
  tables,   \* the tables of folders: <<folder id, statement that made it>>
  nextId,   \* AUTO_INCREMENT of folders_tbl
  pc,       \* what each client executes next
  req,      \* the call it is in
  stack,    \* the folder it creates, and on top the parents it creates first
  todo,     \* the statements that are left of createDatabase or createTables
  fid,      \* the id of the folder it has created or is about to delete
  calls,    \* calls so far
  faults    \* crashes so far

locals   == <<req, stack, todo, fid>>
treeVars == <<made, folders, tables, nextId, pc, locals, calls, faults>>

(* The statements of createDatabase, and those that create the tables of a
   folder of each kind: MySqlObjectMgr::createTables for BLOBTAG, createTablesTag
   for STRUCTTAG, createTablesOnl for STRUCT.  (BLOB, for which nothing but the
   row is made, is left out.) *)
DatabaseStatements ==
  <<"database", "folders_tbl", "databases_tbl", "database row", "tags_tbl",
    "HEAD row", "tag2folder_tbl">>

Statements == [
  BLOBTAG   |-> <<"object_key", "tag2obj", "partition", "head", "partition row", "data">>,
  STRUCTTAG |-> <<"tag2obj", "partition", "object_key", "head", "partition row", "data">>,
  STRUCT    |-> <<"partition", "partition row", "data", "null row">>]

FolderCalls == {"createFolderSet", "createFolder", "createTableFolder", "deleteFolder"}

(* What calls are made with. *)
ASSUME RequestAssumption ==
  /\ DOMAIN Request = Client
  /\ \A c \in Client : \A q \in Request[c] :
       /\ q.path \in Seq(Range(q.path))
       /\ q.op \in {"createFolder", "createTableFolder"} => q.kind \in DOMAIN Statements

NoRequest == [op |-> "none", path |-> <<>>, kind |-> "none", parents |-> FALSE]

Executed(table) == \E i \in 1 .. made : DatabaseStatements[i] = table

-----------------------------------------------------------------------------
Root == <<Separator>>

(* normalizePath refuses any other path. *)
ValidPath(path) == path # <<>> /\ Head(path) = Separator

(* normalizePath: what it has copied after i characters, but no separator that
   repeats one; then a separator at the end goes. *)
Copied(path) ==
  LET norm[i \in 0 .. Len(path)] ==
        IF i = 0 THEN Root
        ELSE IF path[i] = Separator /\ Last(norm[i - 1]) = Separator THEN norm[i - 1]
        ELSE Append(norm[i - 1], path[i])
  IN  norm

Normal(path) ==
  LET norm == Copied(path)[Len(path)]
  IN  IF Len(norm) > 1 /\ Last(norm) = Separator THEN Front(norm) ELSE norm

(* splitPath: what is before the last separator of the normal path. *)
ParentOf(path) ==
  LET normal == Normal(path)
  IN  IF Len(normal) <= 2 THEN Root ELSE SubSeq(normal, 1, Len(normal) - 2)

(* MySqlFolderMgr::find, where the type Folder selects sets as well. *)
Find(path)     == {r \in folders : r.path = path}
FindSet(path)  == {r \in Find(path) : r.kind = "set"}
Children(id)   == {r \in folders : r.parent = id}

Complete(id, kind) == \A i \in DOMAIN Statements[kind] : <<id, Statements[kind][i]>> \in tables

Top(c) == Last(stack[c])

Goto(c, label) == pc' = [pc EXCEPT ![c] = label]

(* A call ends: what it worked with goes out of scope. *)
EndCall(c, label) ==
  /\ Goto(c, label)
  /\ req' = [req EXCEPT ![c] = NoRequest]
  /\ stack' = [stack EXCEPT ![c] = <<>>]
  /\ todo' = [todo EXCEPT ![c] = <<>>]
  /\ fid' = [fid EXCEPT ![c] = 0]

(* An exception that reaches the caller. *)
Throw(c) == EndCall(c, "ready") /\ UNCHANGED <<made, folders, tables, nextId, calls, faults>>

TreeInit ==
  /\ made = 0 /\ folders = {} /\ tables = {} /\ nextId = 1
  /\ pc = [c \in Client |-> "closed"]
  /\ req = [c \in Client |-> NoRequest]
  /\ stack = [c \in Client |-> <<>>]
  /\ todo = [c \in Client |-> <<>>]
  /\ fid = [c \in Client |-> 0]
  /\ calls = 0 /\ faults = 0
-----------------------------------------------------------------------------
(* openDatabase and createCondDB: both select the database; if there is none
   openDatabase throws and createCondDB creates it. *)
OpenDatabase(c) ==
  /\ pc[c] = "closed"
  /\ IF made > 0
     THEN Goto(c, "ready") /\ UNCHANGED todo
     ELSE Goto(c, "create") /\ todo' = [todo EXCEPT ![c] = DatabaseStatements]
  /\ UNCHANGED <<made, folders, tables, nextId, req, stack, fid, calls, faults>>

(* The statements of createDatabase.  CREATE DATABASE fails if another
   process was faster. *)
CreateDatabase(c) ==
  /\ pc[c] = "create"
  /\ IF made + Len(todo[c]) = Len(DatabaseStatements)
     THEN /\ made' = made + 1
          /\ todo' = [todo EXCEPT ![c] = Tail(@)]
          /\ Goto(c, IF Len(todo[c]) = 1 THEN "ready" ELSE "create")
     ELSE /\ Goto(c, "closed")
          /\ todo' = [todo EXCEPT ![c] = <<>>]
          /\ UNCHANGED made
  /\ UNCHANGED <<folders, tables, nextId, req, stack, fid, calls, faults>>

(* A call of CondFolderMgr.  A folder of tables refuses to be BLOBTAG. *)
CallFolderMgr(c, q) ==
  /\ pc[c] = "ready"
  /\ q.op \in FolderCalls
  /\ calls < MaxCalls
  /\ calls' = calls + 1
  /\ IF q.op = "createTableFolder" /\ q.kind = "BLOBTAG"
     THEN UNCHANGED <<pc, req, stack>>
     ELSE /\ req' = [req EXCEPT ![c] = q]
          /\ IF q.op = "deleteFolder"
             THEN Goto(c, "lookup") /\ UNCHANGED stack
             ELSE /\ Goto(c, "exist")
                  /\ stack' = [stack EXCEPT ![c] =
                                 <<[path |-> q.path, mark |-> 0, parent |-> 0]>>]
  /\ UNCHANGED <<made, folders, tables, nextId, todo, fid, faults>>

(* Faulty: only folder sets are looked for. *)
ExistSet(c) ==
  /\ pc[c] = "exist"
  /\ IF \/ ~ValidPath(Top(c).path) \/ ~Executed("folders_tbl")
        \/ FindSet(Normal(Top(c).path)) # {}
     THEN Throw(c)
     ELSE /\ stack' = [stack EXCEPT ![c][Len(stack[c])].mark = nextId]
          /\ Goto(c, "parent")
          /\ UNCHANGED <<made, folders, tables, nextId, req, todo, fid, calls, faults>>

(* exist: the only place that normalizes the path before it looks for it.  The
   mark remembers which rows there were (it is no state of the program). *)
Exist(c) ==
  /\ pc[c] = "exist"
  /\ IF \/ ~ValidPath(Top(c).path) \/ ~Executed("folders_tbl")
        \/ Find(Normal(Top(c).path)) # {}
     THEN Throw(c)
     ELSE /\ stack' = [stack EXCEPT ![c][Len(stack[c])].mark = nextId]
          /\ Goto(c, "parent")
          /\ UNCHANGED <<made, folders, tables, nextId, req, todo, fid, calls, faults>>

(* The parent is found; the root is created without one; a missing parent is
   created by a recursive call of createCondDBFolderSet, or is an error. *)
FindParent(c) ==
  /\ pc[c] = "parent"
  /\ LET path  == Top(c).path
         found == FindSet(ParentOf(path))
         isSet == req[c].op = "createFolderSet" \/ Len(stack[c]) > 1
     IN  \/ /\ \E r \in found :
                 /\ stack' = [stack EXCEPT ![c][Len(stack[c])].parent = r.id]
                 /\ Goto(c, "insert")
            /\ UNCHANGED <<made, folders, tables, nextId, req, todo, fid, calls, faults>>
         \/ /\ found = {} /\ isSet /\ Normal(path) = Root
            /\ Goto(c, "root")
            /\ UNCHANGED <<made, folders, tables, nextId, locals, calls, faults>>
         \/ /\ found = {} /\ ~(isSet /\ Normal(path) = Root) /\ req[c].parents
            /\ stack' = [stack EXCEPT ![c] =
                           Append(@, [path |-> ParentOf(path), mark |-> 0, parent |-> 0])]
            /\ Goto(c, "exist")
            /\ UNCHANGED <<made, folders, tables, nextId, req, todo, fid, calls, faults>>
         \/ /\ found = {} /\ ~(isSet /\ Normal(path) = Root) /\ ~req[c].parents
            /\ Throw(c)

(* createRootFolderSet looks for the root once more. *)
ExistRoot(c) ==
  /\ pc[c] = "root"
  /\ IF Find(Root) # {}
     THEN Throw(c)
     ELSE /\ stack' = [stack EXCEPT ![c][Len(stack[c])] =
                         [path |-> Root, mark |-> nextId, parent |-> 0]]
          /\ Goto(c, "insert")
          /\ UNCHANGED <<made, folders, tables, nextId, req, todo, fid, calls, faults>>

(* Faulty: the rows are counted, as if AUTO_INCREMENT forgot the deleted ones. *)
NewRowReuseId(c) ==
  [id |-> 1 + Cardinality(folders), path |-> Top(c).path, parent |-> Top(c).parent,
   mark |-> Top(c).mark,
   kind |-> IF req[c].op = "createFolderSet" \/ Len(stack[c]) > 1 THEN "set" ELSE req[c].kind]

(* The row a call inserts: a folder set on the way, or what it was asked for. *)
NewRow(c) ==
  [id |-> nextId, path |-> Top(c).path, parent |-> Top(c).parent, mark |-> Top(c).mark,
   kind |-> IF req[c].op = "createFolderSet" \/ Len(stack[c]) > 1 THEN "set" ELSE req[c].kind]

(* MySqlFolderMgr::store.  getDB_id has to find the row of the database; for a
   folder with a table it is asked only after the row has been inserted. *)
StoreRow(c) ==
  /\ pc[c] = "insert"
  /\ IF \/ NewRow(c).kind \in {"set", "BLOBTAG"} /\ ~Executed("database row")
        \/ NewRow(c).kind # "set" /\ Top(c).path = Root
     THEN Throw(c)
     ELSE /\ folders' = folders \cup {NewRow(c)}
          /\ nextId' = nextId + 1
          /\ UNCHANGED <<made, tables, calls, faults>>
          /\ CASE NewRow(c).kind = "set" /\ Len(stack[c]) > 1 ->
                    /\ Goto(c, "again")
                    /\ stack' = [stack EXCEPT ![c] = Front(@)]
                    /\ UNCHANGED <<req, todo, fid>>
               [] NewRow(c).kind = "set" /\ Len(stack[c]) = 1 -> EndCall(c, "ready")
               [] NewRow(c).kind # "set" ->
                    /\ fid' = [fid EXCEPT ![c] = NewRow(c).id]
                    /\ todo' = [todo EXCEPT ![c] = Statements[req[c].kind]]
                    /\ Goto(c, "tables")
                    /\ UNCHANGED <<req, stack>>

(* The parent has just been created and is looked for again.  If somebody has
   deleted it meanwhile, the field of a row that is not there is read. *)
FindParentAgain(c) ==
  /\ pc[c] = "again"
  /\ LET found == FindSet(ParentOf(Top(c).path))
     IN  \/ \E r \in found :
              /\ stack' = [stack EXCEPT ![c][Len(stack[c])].parent = r.id]
              /\ Goto(c, "insert")
              /\ UNCHANGED <<req, todo, fid>>
         \/ found = {} /\ EndCall(c, "closed")
  /\ UNCHANGED <<made, folders, tables, nextId, calls, faults>>

(* Faulty: the query of the partition is not executed. *)
CreateTableForget(c) ==
  /\ pc[c] = "tables"
  /\ tables' = IF Head(todo[c]) = "partition row" THEN tables
               ELSE tables \cup {<<fid[c], Head(todo[c])>>}
  /\ IF Len(todo[c]) = 1
     THEN EndCall(c, "ready")
     ELSE /\ todo' = [todo EXCEPT ![c] = Tail(@)]
          /\ UNCHANGED <<pc, req, stack, fid>>
  /\ UNCHANGED <<made, folders, nextId, calls, faults>>

(* createTables: one statement after the other. *)
CreateTable(c) ==
  /\ pc[c] = "tables"
  /\ tables' = tables \cup {<<fid[c], Head(todo[c])>>}
  /\ IF Len(todo[c]) = 1
     THEN EndCall(c, "ready")
     ELSE /\ todo' = [todo EXCEPT ![c] = Tail(@)]
          /\ UNCHANGED <<pc, req, stack, fid>>
  /\ UNCHANGED <<made, folders, nextId, calls, faults>>

(* deleteFolder: getFolderId takes the first row with the path. *)
LookupFolder(c) ==
  /\ pc[c] = "lookup"
  /\ \/ \E r \in Find(req[c].path) :
          /\ fid' = [fid EXCEPT ![c] = r.id]
          /\ Goto(c, "look")
          /\ UNCHANGED <<made, folders, tables, nextId, req, stack, todo, calls, faults>>
     \/ Find(req[c].path) = {} /\ Throw(c)

(* A folder with children stays, which is only printed.  The tables of a
   folder are never dropped: findFolderSet returns a result, empty or not. *)
LookForChildren(c) ==
  /\ pc[c] = "look"
  /\ IF Children(fid[c]) = {}
     THEN /\ Goto(c, "delete")
          /\ stack' = [stack EXCEPT ![c] =
                         <<[path |-> req[c].path, mark |-> nextId, parent |-> 0]>>]
          /\ UNCHANGED <<req, todo, fid>>
     ELSE EndCall(c, "ready")
  /\ UNCHANGED <<made, folders, tables, nextId, calls, faults>>

DeleteRow(c) ==
  /\ pc[c] = "delete"
  /\ folders' = {r \in folders : r.id # fid[c]}
  /\ EndCall(c, "ready")
  /\ UNCHANGED <<made, tables, nextId, calls, faults>>

(* A client dies; another one starts in its place. *)
Crash(c) ==
  /\ pc[c] \notin {"closed", "ready"}
  /\ faults < MaxFaults
  /\ faults' = faults + 1
  /\ EndCall(c, "closed")
  /\ UNCHANGED <<made, folders, tables, nextId, calls>>

TreeStep(c) ==
  \/ OpenDatabase(c) \/ CreateDatabase(c)
  \/ \E q \in Request[c] : CallFolderMgr(c, q)
  \/ Exist(c) \/ FindParent(c) \/ ExistRoot(c) \/ StoreRow(c) \/ FindParentAgain(c)
  \/ CreateTable(c)
  \/ LookupFolder(c) \/ LookForChildren(c) \/ DeleteRow(c)
  \/ Crash(c)
=============================================================================
