------------------------------ MODULE PhpBinding ------------------------------
(***************************************************************************)
(* Scripts that use a session through the PHP binding (CondDBPHP.cxx).     *)
(*                                                                         *)
(* A connection resource holds the session, its managers once a script     *)
(* asked for them, and one iterator: browse calls set it, and one call     *)
(* prints all of its rows, deletes it and forgets it.  What the calls      *)
(* return for folders, tags and tables is modelled as far as it may fail;  *)
(* a browse finds some of the rows of a folder, in any order.              *)
(***************************************************************************)
EXTENDS Session, SequencesExt

CONSTANTS
  Script,    \* the processes that may run as a script
  Row        \* the rows of a folder

ASSUME ScriptAssumption == Script \subseteq Program
ASSUME RowAssumption == IsFiniteSet(Row)

VARIABLES
  script     \* script[p]: the resource of p, and what its last call returned

phpVars == <<sessionVars, script>>

None   == "none"     \* NULL
Error  == "error"    \* -1, or NULL from the browse calls, after an exception
Done   == "done"
Array  == "array"    \* of the objects printed

(* The iterator is its rows from the first on, none when it is NULL.  found:
   what the last browse found; prints: how often that was printed. *)
NoScript ==
  [open |-> FALSE, iterator |-> <<>>, printing |-> FALSE, printed |-> <<>>,
   reply |-> None, found |-> <<>>, prints |-> 0]

PhpInit == SessionInit /\ script = [p \in Program |-> NoScript]

Return(p, s) == script' = [script EXCEPT ![p] = s]

Returns(p, reply) == Return(p, [script[p] EXCEPT !.reply = reply, !.printed = <<>>])

Runs(p) == script[p].open /\ ~script[p].printing

Fault == faults < MaxFaults /\ faults' = faults + 1

-----------------------------------------------------------------------------
(* cdb_connect_open: init, openDatabase and getCondDBDataAccess; the session
   is destroyed again when one of the first two throws. *)
Connected(p, d) ==
  Handed(Opened([Initialised(p, d) EXCEPT !.interface = "ready"], d), "access")

ConnectOpen(p, d) ==
  /\ session[p] = NoSession
  /\ Exists(d)
  /\ Become(p, Connected(p, d))
  /\ connections' = [connections EXCEPT ![p] = @ + 1]
  /\ Return(p, [NoScript EXCEPT !.open = TRUE])
  /\ UNCHANGED <<made, row, strays, faults>>

ConnectFails(p, d) ==
  /\ session[p] = NoSession
  /\ \/ ~Exists(d) /\ UNCHANGED faults
     \/ Fault
  /\ Returns(p, Error)
  /\ UNCHANGED <<serverVars, session>>

(* The manager is asked for when it is needed first.  The query fails in a
   database that is not finished, and otherwise if what it names is missing. *)
AskManager(p, k) ==
  /\ Runs(p)
  /\ Become(p, Handed(session[p], k))
  /\ \/ CanWork(p) /\ Returns(p, Done)
     \/ Returns(p, Error)
  /\ UNCHANGED <<serverVars, faults>>

GetFolders(p)    == AskManager(p, "folder")
GetFolderSets(p) == AskManager(p, "folder")
GetFolder(p)     == AskManager(p, "folder")
GetFolderType(p) == AskManager(p, "folder")
GetTags(p)       == AskManager(p, "tag")

(* Queries that return what they find and leave the iterator alone; the
   managers they need are made on the way. *)
Query(p, k, replies) ==
  /\ Runs(p)
  /\ \/ /\ CanWork(p)
        /\ Become(p, WithManagers(session[p], k))
        /\ \E reply \in replies : Returns(p, reply)
     \/ UNCHANGED session /\ Returns(p, Error)
  /\ UNCHANGED <<serverVars, faults>>

GetObject(p)        == Query(p, "object", {Done, None})
TableSchema(p)      == Query(p, "online", {Done})
BrowseTblTag(p)     == Query(p, "online", {Done})
BrowseTblPoint(p)   == Query(p, "online", {Done})
BrowseTblHistory(p) == Query(p, "online", {Done})

(* Faulty: the iterator of the browse before is not forgotten. *)
ForgottenKept(p) == [script[p] EXCEPT !.found = <<>>, !.prints = 0, !.printed = <<>>]

(* Every browse call begins with it.  (The iterator is not deleted.) *)
Forgotten(p) == [script[p] EXCEPT !.iterator = <<>>, !.found = <<>>, !.prints = 0, !.printed = <<>>]

(* The iterator stays NULL when nothing is found or an exception is thrown. *)
Browse(p) ==
  /\ Runs(p)
  /\ \/ /\ CanWork(p)
        /\ \E rows \in UNION {SetToSeqs(S) : S \in SUBSET Row} :
             Return(p, [Forgotten(p) EXCEPT !.reply = Done, !.iterator = rows, !.found = rows])
        /\ Become(p, Linked(session[p], "object"))
     \/ UNCHANGED session /\ Return(p, [Forgotten(p) EXCEPT !.reply = Error])
  /\ UNCHANGED <<serverVars, faults>>

BrowseAllObjs(p)    == Browse(p)
BrowseObjTag(p)     == Browse(p)
BrowseObjPoint(p)   == Browse(p)
BrowseObjHistory(p) == Browse(p)

(* cdb_print_all_obj: current, then next until it returns NULL.  Each object
   is made from its row and reads its data, for which it asks for managers. *)
PrintNothing(p) ==
  /\ Runs(p)
  /\ script[p].iterator = <<>>
  /\ Returns(p, None)
  /\ UNCHANGED sessionVars

PrintStart(p) ==
  /\ Runs(p)
  /\ script[p].iterator # <<>>
  /\ Return(p, [script[p] EXCEPT !.printing = TRUE, !.reply = None, !.printed = <<>>])
  /\ UNCHANGED sessionVars

Printed(s) == Append(s.printed, s.iterator[Len(s.printed) + 1])

PrintObject(p) ==
  /\ script[p].printing
  /\ Len(script[p].printed) < Len(script[p].iterator)
  /\ Return(p, [script[p] EXCEPT !.printed = Printed(script[p])])
  /\ Become(p, WithManagers(session[p], "object"))
  /\ UNCHANGED <<serverVars, faults>>

(* The iterator is deleted at the end, and when an exception is caught. *)
PrintEnds(p, reply) ==
  Return(p, [script[p] EXCEPT !.printing = FALSE, !.reply = reply,
                              !.iterator = <<>>, !.prints = @ + 1])

PrintDone(p) ==
  /\ script[p].printing
  /\ Len(script[p].printed) = Len(script[p].iterator)
  /\ PrintEnds(p, Array)
  /\ UNCHANGED sessionVars

PrintFails(p) ==
  /\ script[p].printing
  /\ Fault
  /\ PrintEnds(p, Error)
  /\ UNCHANGED <<serverVars, session>>

(* cdb_connect_close, and the end of the script: the handler deletes the
   iterator, then destroys the session. *)
ConnectClose(p) ==
  /\ Runs(p)
  /\ Return(p, NoScript)
  /\ DestroySession(p)

ScriptStep(p) ==
  \/ \E d \in Database : ConnectOpen(p, d) \/ ConnectFails(p, d)
  \/ GetFolders(p) \/ GetFolderSets(p) \/ GetFolder(p) \/ GetFolderType(p) \/ GetTags(p)
  \/ GetObject(p) \/ TableSchema(p)
  \/ BrowseTblTag(p) \/ BrowseTblPoint(p) \/ BrowseTblHistory(p)
  \/ BrowseAllObjs(p) \/ BrowseObjTag(p) \/ BrowseObjPoint(p) \/ BrowseObjHistory(p)
  \/ PrintNothing(p) \/ PrintStart(p) \/ PrintObject(p) \/ PrintDone(p) \/ PrintFails(p)
  \/ ConnectClose(p)

(* A process is a script while it has the resource, and dies as one. *)
ProgramStep(p) ==
  \/ ~script[p].open /\ SessionStep(p) /\ UNCHANGED script
  \/ script[p].open /\ Die(p) /\ Return(p, NoScript)

PhpNext == (\E p \in Program : ProgramStep(p)) \/ (\E p \in Script : ScriptStep(p))

PhpSpec == PhpInit /\ [][PhpNext]_phpVars
-----------------------------------------------------------------------------
(* cdb_print_all_obj returns the rows of the last browse, all of them, in
   order and once: never those of an earlier one, when the last found nothing
   or failed, and nothing of an iterator that has been deleted.  The resource
   is there as long as the session it uses is connected to its database. *)
PrintsBrowsedRows ==
  \A p \in Program :
    LET s == script[p]
    IN  /\ s.open => session[p].interface = "ready" /\ session[p].answer = "opened"
        /\ s.iterator # <<>> => s.open /\ s.iterator = s.found /\ s.prints = 0
        /\ s.reply = Array => s.printed = s.found /\ s.prints = 1
=============================================================================
