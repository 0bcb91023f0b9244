----------------------------- MODULE TaggedStore -----------------------------
(***************************************************************************)
(* Tagging a folder while objects are stored in it: CondDBTagMgr::tag and  *)
(* untag over MySqlObjectMgr::addTag and removeTag and the methods of the  *)
(* same names of MySqlFolderMgr.                                           *)
(*                                                                         *)
(* A tagger is a process that applies tags to one folder of objects.  It   *)
(* locks nothing: it reads HEAD with one statement and copies the rows to  *)
(* tag2obj_tbl with one statement each, then it notes in tag2folder_tbl    *)
(* that the folder is tagged.  A statement that names a table for which a  *)
(* client of ObjectStore holds the lock waits.                             *)
(***************************************************************************)
EXTENDS ObjectStore, Bags

CONSTANTS
  Tagger,      \* the processes that tag the folder
  Tag,         \* the tags that exist
  TagsOf,      \* the tags each of them applies; there is some tag
  MaxTagCalls  \* bound: calls of tag and untag

ASSUME TagsOfAssumption  == Tag # {} /\ TagsOf \in [Tagger -> SUBSET Tag]
ASSUME TagCallAssumption == MaxTagCalls \in Nat

VARIABLES
  tagRows,     \* tag2obj_tbl_N: for each tag the bag of its rows
  folderTags,  \* tag2folder_tbl: for each tag its number of rows with N
  tpc,         \* what each tagger executes next
  tagOf,       \* its parameter newTagId
  picked,      \* the rows of its first SELECT it has not handled yet
  tagCalls     \* calls so far

tagVars == <<tagRows, folderTags, tpc, tagOf, picked, tagCalls>>
allVars == <<vars, tagVars>>

TaggerLabel == {"idle", "delete", "insert", "record", "copyDelete", "untagFolder", "unrecord"}

AnyTag == CHOOSE t \in Tag : TRUE

TaggerGoto(g, label) == tpc' = [tpc EXCEPT ![g] = label]

(* A call of tag or untag begins. *)
Begin(g, t) ==
  /\ tpc[g] = "idle"
  /\ t \in TagsOf[g]
  /\ tagCalls < MaxTagCalls
  /\ tagCalls' = tagCalls + 1
  /\ tagOf' = [tagOf EXCEPT ![g] = t]

(* The locals of a call that has ended. *)
Return(g) ==
  /\ TaggerGoto(g, "idle")
  /\ tagOf' = [tagOf EXCEPT ![g] = AnyTag]
  /\ picked' = [picked EXCEPT ![g] = {}]

TaggingInit ==
  /\ Init
  /\ tagRows = [t \in Tag |-> EmptyBag]
  /\ folderTags = [t \in Tag |-> 0]
  /\ tpc = [g \in Tagger |-> "idle"]
  /\ tagOf = [g \in Tagger |-> AnyTag]
  /\ picked = [g \in Tagger |-> {}]
  /\ tagCalls = 0

-----------------------------------------------------------------------------
(* addTag with the rows of HEAD.  (When HEAD is empty the next statement is
   the empty string, which fails: the call ends and has done nothing.) *)

(* Faulty: HEAD is read while a client holds the lock. *)
TagSelectDirty(g, t) ==
  /\ Begin(g, t)
  /\ headTbl # {}
  /\ picked' = [picked EXCEPT ![g] = headTbl]
  /\ TaggerGoto(g, "delete")
  /\ UNCHANGED <<vars, tagRows, folderTags>>

TagSelect(g, t) ==
  /\ Begin(g, t)
  /\ lock = Nobody
  /\ headTbl # {}
  /\ picked' = [picked EXCEPT ![g] = headTbl]
  /\ TaggerGoto(g, "delete")
  /\ UNCHANGED <<vars, tagRows, folderTags>>

DeleteOld(g) ==
  /\ tpc[g] = "delete"
  /\ lock = Nobody
  /\ tagRows' = [tagRows EXCEPT ![tagOf[g]] = EmptyBag]
  /\ TaggerGoto(g, "insert")
  /\ UNCHANGED <<vars, folderTags, tagOf, picked, tagCalls>>

InsertRow(g, r) ==
  /\ tpc[g] = "insert"
  /\ lock = Nobody
  /\ r \in picked[g]
  /\ tagRows' = [tagRows EXCEPT ![tagOf[g]] = @ (+) SetToBag({r})]
  /\ picked' = [picked EXCEPT ![g] = @ \ {r}]
  /\ TaggerGoto(g, IF picked[g] = {r} THEN "record" ELSE "insert")
  /\ UNCHANGED <<vars, folderTags, tagOf, tagCalls>>

(* MySqlFolderMgr::addTag inserts a row whether or not there is one. *)
RecordFolder(g) ==
  /\ tpc[g] = "record"
  /\ folderTags' = [folderTags EXCEPT ![tagOf[g]] = @ + 1]
  /\ Return(g)
  /\ UNCHANGED <<vars, tagRows, tagCalls>>

(* addTag with the objects of another tag.  Its SELECT has one column; the
   rows of the new tag are deleted, then the second column is asked for,
   which throws.  CondDBTagMgr::tag swallows the exception.  (When the other
   tag has no rows the statement is empty and nothing is done.) *)
CopySelect(g, t, u) ==
  /\ Begin(g, t)
  /\ lock = Nobody
  /\ tagRows[u] # EmptyBag
  /\ picked' = [picked EXCEPT ![g] = BagToSet(tagRows[u])]
  /\ TaggerGoto(g, "copyDelete")
  /\ UNCHANGED <<vars, tagRows, folderTags>>

CopyDelete(g) ==
  /\ tpc[g] = "copyDelete"
  /\ lock = Nobody
  /\ tagRows' = [tagRows EXCEPT ![tagOf[g]] = EmptyBag]
  /\ Return(g)
  /\ UNCHANGED <<vars, folderTags, tagCalls>>

(* untag: removeTag of MySqlObjectMgr, then that of MySqlFolderMgr, whose
   test is the wrong way round: it throws when the folder is tagged.  When it
   is not, a second statement deletes its rows: those recorded since. *)
UntagObjects(g, t) ==
  /\ Begin(g, t)
  /\ lock = Nobody
  /\ tagRows' = [tagRows EXCEPT ![t] = EmptyBag]
  /\ TaggerGoto(g, "untagFolder")
  /\ UNCHANGED <<vars, folderTags, picked>>

UntagFolder(g) ==
  /\ tpc[g] = "untagFolder"
  /\ IF folderTags[tagOf[g]] = 0
     THEN TaggerGoto(g, "unrecord") /\ UNCHANGED <<tagOf, picked>>
     ELSE Return(g)
  /\ UNCHANGED <<vars, tagRows, folderTags, tagCalls>>

UnrecordFolder(g) ==
  /\ tpc[g] = "unrecord"
  /\ folderTags' = [folderTags EXCEPT ![tagOf[g]] = 0]
  /\ Return(g)
  /\ UNCHANGED <<vars, tagRows, tagCalls>>

(* The tagger dies, or a statement fails and the call ends early. *)
TaggerFails(g) ==
  /\ tpc[g] # "idle"
  /\ faults < MaxFaults
  /\ faults' = faults + 1
  /\ Return(g)
  /\ UNCHANGED <<tables, lock, pc, locals, tagRows, folderTags, tagCalls>>

TaggerStep(g) ==
  \/ DeleteOld(g) \/ (\E r \in picked[g] : InsertRow(g, r)) \/ RecordFolder(g)
  \/ CopyDelete(g) \/ UntagFolder(g) \/ UnrecordFolder(g)

TaggingNext ==
  \/ Next /\ UNCHANGED tagVars
  \/ \E g \in Tagger :
       \/ \E t \in Tag : \/ TagSelect(g, t) \/ UntagObjects(g, t)
                         \/ \E u \in Tag : CopySelect(g, t, u)
       \/ TaggerStep(g)
       \/ TaggerFails(g)

TaggingSpec == TaggingInit /\ [][TaggingNext]_allVars

(* As in ObjectStore: what has begun goes on, and the server serves the
   statements that wait for a lock. *)
TaggingFairSpec ==
  /\ TaggingSpec
  /\ \A c \in Client : SF_allVars(Step(c) /\ UNCHANGED tagVars)
  /\ \A g \in Tagger : SF_allVars(TaggerStep(g))
-----------------------------------------------------------------------------
TaggingTypeOK ==
  /\ TypeOK
  /\ DOMAIN tagRows = Tag
  /\ \A t \in Tag : IsABag(tagRows[t]) /\ DOMAIN tagRows[t] \subseteq HeadRow
  /\ folderTags \in [Tag -> Nat]
  /\ tpc \in [Tagger -> TaggerLabel]
  /\ tagOf \in [Tagger -> Tag]
  /\ picked \in [Tagger -> SUBSET HeadRow]
  /\ tagCalls \in 0 .. MaxTagCalls

(* The rows of a tag are pieces of objects that are in the key table, and
   the key table has their data: reading by tag always finds them. *)
TagNamesStoredData ==
  \A t \in Tag : \A r \in BagToSet(tagRows[t]) :
    \E k \in keyTbl : /\ k.obj = r.obj /\ k.since <= r.since /\ r.till <= k.till
                      /\ k.dat \in 1 .. datSeq

(* Every table and local of a tagger keeps its type, and a tag never points to
   data that are missing. *)
TaggingInv == TaggingTypeOK /\ TagNamesStoredData

TaggedAt(t, p) == {r.obj : r \in {s \in BagToSet(tagRows[t]) : Covers(s, p)}}

AtWork(t) == \E g \in Tagger : tpc[g] # "idle" /\ tagOf[g] = t

(* findCondDBObject with a tag reads one row: a tag names at most one object
   at a point at every moment of tagging, of storing and of failing. *)
TagSingleValued ==
  \A t \in Tag, p \in Time : \A a, b \in TaggedAt(t, p) : a = b

(* A tag is a version of the folder: when nobody is applying it and nothing
   has failed it has no rows, or it is what HEAD was at one moment, however
   many objects were stored while its rows were inserted. *)
TagIsOneVersion ==
  \A t \in Tag :
    faults = 0 /\ ~AtWork(t) /\ tagRows[t] # EmptyBag =>
      \E n \in 0 .. objSeq : \A p \in Time : TaggedAt(t, p) = NewestAt(p, n)

(* What a reader who asks by tag can rely on: one object at most while the
   tag is being applied, and one version of the folder after it. *)
TagIsSomeHead == TagSingleValued /\ TagIsOneVersion

(* Tagging ends although other processes keep locking the folder, unless one
   of them failed under the lock and keeps its connection open. *)
TaggingEnds ==
  \A g \in Tagger : tpc[g] # "idle" ~> \/ tpc[g] = "idle"
                                       \/ \E d \in Client : pc[d] = "failed"
=============================================================================
