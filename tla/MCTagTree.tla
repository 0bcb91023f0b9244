------------------------------ MODULE MCTagTree ------------------------------
(* An instance of TagTree for TLC. *)
EXTENDS CatalogQueries

CONSTANTS c1, c2, a, b, d, t1, t2

Slash   == "/"
Root_   == <<Slash>>
Path_a  == <<Slash, a>>
Path_as == <<Slash, a, Slash>>
Path_ab == <<Slash, a, Slash, b>>
Path_d  == <<Slash, d>>

Folders(op, path, kind, parents) == [op |-> op, path |-> path, kind |-> kind, parents |-> parents]

Tags(op, path, name, newName) ==
  Folders(op, path, "none", FALSE) @@ [name |-> name, newName |-> newName]

(* One client builds the tree and takes it down, the other one tags it; both
   create and tag, so that they race with each other. *)
Both == {
  Folders("createFolderSet", Path_a, "none", FALSE),
  Folders("createFolder", Path_ab, "BLOBTAG", TRUE),
  Tags("tag", Root_, t1, t1)}

Builder == Both \cup {
  Folders("createFolderSet", Root_, "none", FALSE),
  Folders("createFolderSet", Path_as, "none", TRUE),
  Folders("createFolderSet", <<a>>, "none", TRUE),
  Folders("createTableFolder", Path_a, "STRUCT", TRUE),
  Folders("createTableFolder", Root_, "STRUCTTAG", TRUE),
  Folders("createTableFolder", Path_ab, "BLOBTAG", TRUE),
  Folders("deleteFolder", Path_a, "none", FALSE),
  Folders("deleteFolder", Path_ab, "none", FALSE)}

Administrator == Both \cup {
  Folders("createFolderSet", Root_, "none", FALSE),
  Folders("deleteFolder", Path_d, "none", FALSE),
  Tags("createTag", <<>>, t1, t2),
  Tags("changeTagName", <<>>, t1, t2),
  Tags("deleteTag", <<>>, t1, t2),
  Tags("untag", Path_ab, t1, t1),
  Tags("store", Path_ab, t1, t1)}

Requests == [c \in Client |-> IF c = c1 THEN Builder ELSE Administrator]

(* A database in which a process has created /a, the folders /a/b and /d
   with an object in /a/b and perhaps one in /d, and the tag t1; it may have
   deleted the folders again, which leaves their tables. *)
Populated ==
  /\ made = Len(DatabaseStatements)
  /\ \E last \in {2, 4} : folders = {r \in
               {[id |-> 1, path |-> Root_,   parent |-> 0, mark |-> 1, kind |-> "set"],
                [id |-> 2, path |-> Path_a,  parent |-> 1, mark |-> 2, kind |-> "set"],
                [id |-> 3, path |-> Path_ab, parent |-> 2, mark |-> 3, kind |-> "BLOBTAG"],
                [id |-> 4, path |-> Path_d,  parent |-> 1, mark |-> 4, kind |-> "STRUCTTAG"]} :
               r.id <= last}
  /\ tables = {3} \X Range(Statements.BLOBTAG) \cup {4} \X Range(Statements.STRUCTTAG)
  /\ nextId = 5
  /\ pc = [c \in Client |-> "ready"]
  /\ req = [c \in Client |-> NoRequest]
  /\ stack = [c \in Client |-> <<>>]
  /\ todo = [c \in Client |-> <<>>]
  /\ fid = [c \in Client |-> 0]
  /\ calls = 0 /\ faults = 0
  /\ tags = {[id |-> 2, name |-> t1]} /\ nextTag = 3
  /\ assoc = {} /\ tagObj = {} /\ filled \in {{3}, {3, 4}}
  /\ tid = [c \in Client |-> 0]
  /\ frames = [c \in Client |-> <<>>]
  /\ due = [c \in Client |-> {}]

MCSpec == (Init \/ Populated) /\ [][Next]_vars /\ Fairness
=============================================================================
