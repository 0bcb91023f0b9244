------------------------------- MODULE TagTree -------------------------------
(***************************************************************************)
(* Tags on the folder tree: CondDBTagMgr, MySqlTagMgr, and tag2folder_tbl. *)
(*                                                                         *)
(* Tags are created, deleted and renamed by name, and applied to a folder, *)
(* or to all the folders beneath a folder set, while other processes       *)
(* change the tree.  tag() visits the tree recursively; each visit looks   *)
(* up the tag and the folder by name again, and an exception ends the loop *)
(* over the children of the set above it, silently.  That the rows of HEAD *)
(* are copied one by one is modelled in TaggedStore; here the objects of a *)
(* folder are tagged in one step.                                          *)
(***************************************************************************)
EXTENDS FolderTree

(* The calls of CondDBTagMgr that change something, and storing an object. *)
TagCalls == {"createTag", "changeTagName", "deleteTag", "tag", "untag", "store"}

ASSUME TagRequestAssumption ==
  \A c \in Client : \A q \in Request[c] :
    /\ q.op \in FolderCalls \cup TagCalls
    /\ q.op = "tag" => /\ {"op", "path", "name"} \subseteq DOMAIN q
                       /\ q = [field \in DOMAIN q |-> q[field]]

VARIABLES
  tags,      \* tags_tbl without the row of HEAD, which is 1: rows [id, name]
  nextTag,   \* its AUTO_INCREMENT
  assoc,     \* tag2folder_tbl: <<tag id, folder id>>
  tagObj,    \* <<tag id, folder id>>: the tag has rows in tag2obj_tbl_N
  filled,    \* the folders with an object in HEAD
  tid,       \* the tag id a client works with
  frames,    \* for each folder set a client is in, the children not yet visited
  due        \* the folders its call of tag has to reach, as long as nobody
             \* deletes a row of theirs, doubles a name or takes their
             \* association away again (no state of the program)

tagLocals == <<tid, frames, due>>
vars == <<treeVars, tags, nextTag, assoc, tagObj, filled, tagLocals>>

NoTag == -1

TagNamed(name) == {t \in tags : t.name = name}

UniqueNames == \A t, u \in tags : t.name = u.name => t = u
UniquePaths == \A r, s \in folders : r.path = s.path => r = s

(* Ids that have their children among them. *)
Closed(ids) == \A r \in folders : r.parent \in ids => r.id \in ids

(* The folders with objects at or beneath a row, however deep. *)
Leaves(id) ==
  {i \in filled : /\ \E r \in folders : r.id = i /\ r.kind # "set"
                  /\ \A ids \in SUBSET {r.id : r \in folders} :
                       id \in ids /\ Closed(ids) => i \in ids}

(* browseTaggedFolders: the join of the three tables. *)
TaggedFolders(name) ==
  {r.id : r \in {f \in folders : \E t \in TagNamed(name) : <<t.id, f.id>> \in assoc}}

Init ==
  /\ TreeInit
  /\ tags = {} /\ nextTag = 2 /\ assoc = {} /\ tagObj = {} /\ filled = {}
  /\ tid = [c \in Client |-> 0]
  /\ frames = [c \in Client |-> <<>>]
  /\ due = [c \in Client |-> {}]

EndTagCall(c, label) ==
  /\ EndCall(c, label)
  /\ tid' = [tid EXCEPT ![c] = 0]
  /\ frames' = [frames EXCEPT ![c] = <<>>]
  /\ due' = [due EXCEPT ![c] = {}]

tree == <<made, folders, tables, nextId, calls, faults>>
-----------------------------------------------------------------------------
(* What a call of tag has to reach. *)
Due(q) ==
  IF q.op = "tag" /\ Executed("tag2folder_tbl") /\ TagNamed(q.name) # {}
     /\ UniqueNames /\ UniquePaths
  THEN UNION {Leaves(r.id) : r \in Find(q.path)}
  ELSE {}

(* A call of CondDBTagMgr, or one that stores an object; createDatabase has to
   have made the tables it reads. *)
CallTagMgr(c, q) ==
  /\ pc[c] = "ready"
  /\ q.op \notin FolderCalls
  /\ calls < MaxCalls
  /\ calls' = calls + 1
  /\ IF Executed("HEAD row")
     THEN /\ req' = [req EXCEPT ![c] = q]
          /\ Goto(c, q.op)
          /\ due' = [due EXCEPT ![c] = Due(q)]
     ELSE UNCHANGED <<pc, req, due>>
  /\ UNCHANGED <<made, folders, tables, nextId, stack, todo, fid, faults, tags, nextTag,
                 assoc, tagObj, filled, tid, frames>>

(* createCondDBTag and changeTagName: the name must not be taken. *)
TagExists(c) ==
  /\ pc[c] \in {"createTag", "changeTagName"}
  /\ IF TagNamed(req[c].newName) # {}
     THEN EndTagCall(c, "ready")
     ELSE /\ Goto(c, IF pc[c] = "createTag" THEN "storeTag" ELSE "renameTag")
          /\ UNCHANGED <<locals, tagLocals>>
  /\ UNCHANGED <<tree, tags, nextTag, assoc, tagObj, filled>>

StoreTag(c) ==
  /\ pc[c] = "storeTag"
  /\ tags' = tags \cup {[id |-> nextTag, name |-> req[c].newName]}
  /\ nextTag' = nextTag + 1
  /\ EndCall(c, "ready")
  /\ due' = [d \in Client |-> IF UniqueNames' THEN due[d] ELSE {}]
  /\ UNCHANGED <<tree, assoc, tagObj, filled, tid, frames>>

RenameTag(c) ==
  /\ pc[c] = "renameTag"
  /\ tags' = {IF t.name = req[c].name THEN [t EXCEPT !.name = req[c].newName] ELSE t
              : t \in tags}
  /\ EndCall(c, "ready")
  /\ due' = [d \in Client |-> {}]
  /\ UNCHANGED <<tree, nextTag, assoc, tagObj, filled, tid, frames>>

(* deleteTag leaves what is associated with the tag. *)
DeleteTag(c) ==
  /\ pc[c] = "deleteTag"
  /\ tags' = tags \ TagNamed(req[c].name)
  /\ EndCall(c, "ready")
  /\ due' = [d \in Client |-> {}]
  /\ UNCHANGED <<tree, nextTag, assoc, tagObj, filled, tid, frames>>
-----------------------------------------------------------------------------
(* Faulty: nextRow is forgotten. *)
GoOnSame(c, rest) ==
  \/ /\ \A i \in DOMAIN rest : rest[i] = {}
     /\ EndTagCall(c, "ready")
  \/ /\ \E i \in DOMAIN rest : \E r \in rest[i] :
          /\ \A j \in i + 1 .. Len(rest) : rest[j] = {}
          /\ frames' = [frames EXCEPT ![c] = SubSeq(rest, 1, i)]
          /\ req' = [req EXCEPT ![c].path = r.path]
     /\ Goto(c, "tag")
     /\ UNCHANGED <<stack, todo, fid, tid, due>>

(* What a visit ends with: the next child of the innermost set that has one
   left, or the end of the call.  rest are the frames to go on with. *)
GoOn(c, rest) ==
  \/ /\ \A i \in DOMAIN rest : rest[i] = {}
     /\ EndTagCall(c, "ready")
  \/ /\ \E i \in DOMAIN rest : \E r \in rest[i] :
          /\ \A j \in i + 1 .. Len(rest) : rest[j] = {}
          /\ frames' = [frames EXCEPT ![c] = Append(SubSeq(rest, 1, i - 1), rest[i] \ {r})]
          /\ req' = [req EXCEPT ![c].path = r.path]
     /\ Goto(c, "tag")
     /\ UNCHANGED <<stack, todo, fid, tid, due>>

(* An exception in a visit ends the loop of the set above, which hides it. *)
Swallowed(c) ==
  IF frames[c] = <<>> THEN EndTagCall(c, "ready") ELSE GoOn(c, Front(frames[c]))

TagUnchanged == UNCHANGED <<tree, tags, nextTag, assoc, tagObj, filled>>

(* getId: the first tag of that name; untag goes on without one. *)
TagGetId(c) ==
  /\ pc[c] \in {"tag", "untag"}
  /\ \/ /\ TagNamed(req[c].name) = {} /\ pc[c] = "tag"
        /\ Swallowed(c)
     \/ /\ TagNamed(req[c].name) # {} \/ pc[c] = "untag"
        /\ \E i \in {t.id : t \in TagNamed(req[c].name)}
                      \cup (IF TagNamed(req[c].name) = {} THEN {NoTag} ELSE {}) :
             tid' = [tid EXCEPT ![c] = i]
        /\ Goto(c, IF pc[c] = "tag" THEN "tagFolder" ELSE "untagFolder")
        /\ UNCHANGED <<locals, frames, due>>
  /\ TagUnchanged

(* getFolderId: the first folder with the path. *)
TagGetFolder(c) ==
  /\ pc[c] \in {"tagFolder", "untagFolder"}
  /\ \/ Find(req[c].path) = {} /\ Swallowed(c)
     \/ /\ \E r \in Find(req[c].path) : fid' = [fid EXCEPT ![c] = r.id]
        /\ Goto(c, IF pc[c] = "tagFolder" THEN "tagLook" ELSE "untagObjects")
        /\ UNCHANGED <<req, stack, todo, tagLocals>>
  /\ TagUnchanged

(* Faulty: only the folders among the children are browsed. *)
TagLookFolders(c) ==
  /\ pc[c] = "tagLook"
  /\ IF \E r \in folders : r.id = fid[c] /\ r.kind = "set"
     THEN GoOn(c, Append(frames[c], {r \in Children(fid[c]) : r.kind # "set"}))
     ELSE Goto(c, "tagObjects") /\ UNCHANGED <<locals, tagLocals>>
  /\ TagUnchanged

(* The children of a folder set are browsed; anything else is a folder. *)
TagLook(c) ==
  /\ pc[c] = "tagLook"
  /\ IF \E r \in folders : r.id = fid[c] /\ r.kind = "set"
     THEN GoOn(c, Append(frames[c], Children(fid[c])))
     ELSE Goto(c, "tagObjects") /\ UNCHANGED <<locals, tagLocals>>
  /\ TagUnchanged

(* MySqlObjectMgr::addTag fails without a table for HEAD or without objects in
   it, which is only printed. *)
TagObjects(c) ==
  /\ pc[c] = "tagObjects"
  /\ IF {<<fid[c], "head">>, <<fid[c], "tag2obj">>} \subseteq tables /\ fid[c] \in filled
     THEN /\ tagObj' = tagObj \cup {<<tid[c], fid[c]>>}
          /\ Goto(c, "associate")
          /\ UNCHANGED <<locals, tagLocals>>
     ELSE GoOn(c, frames[c]) /\ UNCHANGED tagObj
  /\ UNCHANGED <<tree, tags, nextTag, assoc, filled>>

(* MySqlFolderMgr::addTag. *)
Associate(c) ==
  /\ pc[c] = "associate"
  /\ assoc' = IF Executed("tag2folder_tbl") THEN assoc \cup {<<tid[c], fid[c]>>} ELSE assoc
  /\ GoOn(c, frames[c])
  /\ UNCHANGED <<tree, tags, nextTag, tagObj, filled>>

(* untag removes the rows of the objects first; without their table it fails. *)
UntagObjects(c) ==
  /\ pc[c] = "untagObjects"
  /\ IF <<fid[c], "tag2obj">> \in tables
     THEN /\ tagObj' = tagObj \ {<<tid[c], fid[c]>>}
          /\ Goto(c, "untagLook")
          /\ UNCHANGED <<locals, tagLocals>>
     ELSE EndTagCall(c, "ready") /\ UNCHANGED tagObj
  /\ UNCHANGED <<tree, tags, nextTag, assoc, filled>>

(* The test of MySqlFolderMgr::removeTag is the wrong way round: it throws if
   the folder is associated with the tag, and deletes if it is not. *)
UntagLook(c) ==
  /\ pc[c] = "untagLook"
  /\ IF Executed("tag2folder_tbl") /\ <<tid[c], fid[c]>> \notin assoc
     THEN Goto(c, "unassociate") /\ UNCHANGED <<locals, tagLocals>>
     ELSE EndTagCall(c, "ready")
  /\ TagUnchanged

(* The DELETE is a statement of its own: it finds what a call of tag has
   associated since the test.  That folder is no longer due. *)
Unassociate(c) ==
  /\ pc[c] = "unassociate"
  /\ assoc' = assoc \ {<<tid[c], fid[c]>>}
  /\ due' = [d \in Client |-> {i \in due[d] :
               ~ /\ i = fid[c] /\ <<tid[c], i>> \in assoc
                 /\ \E t \in TagNamed(req[d].name) : t.id = tid[c]}]
  /\ EndCall(c, "ready")
  /\ tid' = [tid EXCEPT ![c] = 0]
  /\ frames' = [frames EXCEPT ![c] = <<>>]
  /\ UNCHANGED <<tree, tags, nextTag, tagObj, filled>>

(* Storing an object: the folder is looked up first, and needs its tables. *)
StoreLookup(c) ==
  /\ pc[c] = "store"
  /\ \/ Find(req[c].path) = {} /\ EndTagCall(c, "ready")
     \/ /\ \E r \in Find(req[c].path) : fid' = [fid EXCEPT ![c] = r.id]
        /\ Goto(c, "storeObject")
        /\ UNCHANGED <<req, stack, todo, tagLocals>>
  /\ TagUnchanged

StoreObject(c) ==
  /\ pc[c] = "storeObject"
  /\ filled' = IF \E kind \in {"BLOBTAG", "STRUCTTAG"} : Complete(fid[c], kind)
               THEN filled \cup {fid[c]} ELSE filled
  /\ EndTagCall(c, "ready")
  /\ UNCHANGED <<tree, tags, nextTag, assoc, tagObj>>

(* The steps of FolderTree.  A crash loses what the client worked with. *)
ChangeTree(c) ==
  /\ TreeStep(c)
  /\ tid' = [tid EXCEPT ![c] = 0]
  /\ frames' = [frames EXCEPT ![c] = <<>>]
  /\ due' = [d \in Client |-> IF d # c /\ folders \subseteq folders' /\ UniquePaths'
                              THEN due[d] ELSE {}]
  /\ UNCHANGED <<tags, nextTag, assoc, tagObj, filled>>

TagStep(c) ==
  \/ \E q \in Request[c] : CallTagMgr(c, q)
  \/ TagExists(c) \/ StoreTag(c) \/ RenameTag(c) \/ DeleteTag(c)
  \/ TagGetId(c) \/ TagGetFolder(c) \/ TagLook(c) \/ TagObjects(c) \/ Associate(c)
  \/ UntagObjects(c) \/ UntagLook(c) \/ Unassociate(c)
  \/ StoreLookup(c) \/ StoreObject(c)

Working(c) == pc[c] \notin {"closed", "ready"}

(* All calls have been made: nothing else has to happen. *)
Finished == (\A c \in Client : ~Working(c)) /\ calls = MaxCalls /\ UNCHANGED vars

Next == (\E c \in Client : ChangeTree(c) \/ TagStep(c)) \/ Finished

Spec == Init /\ [][Next]_vars

(* A process in a call goes on; it may crash, and it need not make calls. *)
Fairness ==
  \A c \in Client : WF_vars(Working(c) /\ faults' = faults /\ (ChangeTree(c) \/ TagStep(c)))

FairSpec == Spec /\ Fairness
-----------------------------------------------------------------------------
Id == 1 .. nextId - 1

TypeOK ==
  /\ made \in 0 .. Len(DatabaseStatements)
  /\ \A r \in folders : /\ r.id \in Id /\ r.parent \in 0 .. nextId - 1 /\ r.mark \in Id
                        /\ r.kind \in {"set"} \cup DOMAIN Statements
                        /\ Range(r.path) \subseteq
                             {Separator} \cup UNION {Range(q.path) : q \in UNION Range(Request)}
  /\ \A t \in tables : t[1] \in Id
  /\ \A t \in tags : t.id \in 2 .. nextTag - 1
  /\ assoc \cup tagObj \subseteq (-1 .. nextTag - 1) \X Id
  /\ filled \subseteq Id
  /\ \A c \in Client : /\ fid[c] \in 0 .. nextId - 1
                       /\ tid[c] \in -1 .. nextTag - 1
                       /\ ~Working(c) => /\ req[c] = NoRequest /\ stack[c] = <<>>
                                         /\ todo[c] = <<>> /\ frames[c] = <<>>

(* Only a crash leaves a folder in folders_tbl without all of its tables. *)
Unfinished == {r \in folders : r.kind # "set" /\ ~Complete(r.id, r.kind)
                               /\ ~\E c \in Client : pc[c] = "tables" /\ fid[c] = r.id}
FolderHasTables == Cardinality(Unfinished) <= faults

(* Children of a folder set about to be deleted were stored after
   MySqlFolderMgr::deleteFolder looked for some: no older one is orphaned. *)
OnlyLatecomersOrphaned ==
  \A c \in Client : pc[c] = "delete" => \A r \in Children(fid[c]) : r.id >= Top(c).mark

(* A path and the column fparent say the same of a row: the row of the parent
   is a folder set and has the path of the parent, whoever deletes and creates
   it again meanwhile. *)
RowsMatchPaths ==
  \A r, p \in folders : r.parent = p.id => p.kind = "set" /\ p.path = ParentOf(r.path)

(* The rows of the catalog keep their types; paths and parents agree; folders
   that miss their tables and children that miss their parent come from
   crashes and races alone. *)
CatalogInv == TypeOK /\ FolderHasTables /\ OnlyLatecomersOrphaned /\ RowsMatchPaths

(* Two rows with one path are stored only by callers that both looked for it
   before either stored it (CondFolderMgr::exist, and no unique key). *)
DuplicatesOnlyFromRaces ==
  \A r, s \in folders :
    r.id < s.id /\ r.path = Normal(s.path) => s.mark <= r.id

(* deleteFolder leaves the tables, and deleteTag the associations: a new folder
   or tag must not find those of an old one. *)
NewIdIsFresh ==
  [][/\ \A i \in {r.id : r \in folders'} \ {r.id : r \in folders} :
          /\ \A t \in tables : t[1] # i
          /\ \A a \in assoc \cup tagObj : a[2] # i
     /\ \A i \in {t.id : t \in tags'} \ {t.id : t \in tags} :
          \A a \in assoc \cup tagObj : a[1] # i]_vars

(* A call of tag on a folder set reaches every folder with objects beneath it,
   and getAllTaggedFolder lists it, if nobody deletes a row of folders_tbl or
   tags_tbl or doubles a name meanwhile: the exceptions that tag hides lose
   nothing else.  Only the folder itself is lost to an untag that looked for
   its association before it was made and deletes it afterwards. *)
TagCoversTree ==
  [][\A c \in Client :
       req[c].op = "tag" /\ req'[c].op # "tag" /\ faults' = faults =>
         \A name \in {req[c].name} : due[c] \subseteq TaggedFolders(name)']_vars

(* Every call ends: the recursion of createCondDBFolderSet and of tag does. *)
CallsEnd == \A c \in Client : Working(c) ~> ~Working(c)
=============================================================================
