---------------------------- MODULE CatalogQueries ----------------------------
(***************************************************************************)
(* What CondDBFolderMgr and CondDBTagMgr tell of folders and tags.         *)
(*                                                                         *)
(* Each operator is a query of the tables of TagTree as they are at one    *)
(* moment; most are one SELECT.  Those that are several (getCondDBTag of a *)
(* folder, getAllCondDBFolderBeneath and the recursive isTagged) tell what *)
(* they tell here as long as nobody changes the tables in between.         *)
(* Rows with one path are not told apart: properties are about tables      *)
(* without such rows.                                                      *)
(***************************************************************************)
EXTENDS TagTree

(* An exception: none of the queries that throw would return nothing. *)
None == {}

Paths == {r.path : r \in folders}

IsSet(path) == \E r \in Find(path) : r.kind = "set"

(* browse with an empty name. *)
GetAllCondDBFolder    == {r.path : r \in {f \in folders : f.kind # "set"}}
GetAllCondDBFolderSet == {r.path : r \in {f \in folders : f.kind = "set"}}

(* getCondDBFolder finds folder sets as well. *)
GetCondDBFolder(path)    == Find(path)
GetCondDBFolderSet(path) == FindSet(path)

(* A path is looked for as it was written, but for the first look: what was
   stored under a path that is not normal is not found, and the children of
   a set that was asked for by such a path are left out. *)
GetAllCondDBFolderBeneath(path) ==
  IF ~ValidPath(path) \/ Find(Normal(path)) = {} THEN None
  ELSE {path} \cup {r.path : r \in UNION {Children(s.id) : s \in FindSet(path)}}

(* The names of the tags associated with a folder. *)
GetCondDBTag(path) ==
  {t.name : t \in {u \in tags : \E r \in Find(path) : <<u.id, r.id>> \in assoc}}

GetAllCondDBTag == {t.name : t \in tags} \cup {"HEAD"}

GetAllTaggedFolder(name) == {r.path : r \in {f \in folders : f.id \in TaggedFolders(name)}}

GetFolderType(path) == {r.kind : r \in Find(path)}

FolderIsTagged(path, name) ==
  \E r \in Find(path), t \in TagNamed(name) : <<t.id, r.id>> \in assoc

(* Faulty: the children that are sets are not asked. *)
IsTaggedFlat(path, name) ==
  LET tagged[p \in Paths] ==
        \/ FolderIsTagged(p, name)
        \/ /\ IsSet(p)
           /\ \E child \in UNION {Children(r.id) : r \in Find(p)} :
                child.kind # "set" /\ tagged[child.path]
  IN  path \in Paths /\ tagged[path]

(* A folder set is tagged if something beneath it is. *)
IsTagged(path, name) ==
  LET tagged[p \in Paths] ==
        \/ FolderIsTagged(p, name)
        \/ /\ IsSet(p)
           /\ \E child \in UNION {Children(r.id) : r \in Find(p)} : tagged[child.path]
  IN  path \in Paths /\ tagged[path]
-----------------------------------------------------------------------------
(* A row whose parent was deleted is beneath its path, but no child. *)
Attached == \A r \in folders : r.parent = 0 \/ \E p \in folders : p.id = r.parent

(* The paths of a set and those above them, as far as there are rows. *)
AtOrAbove(paths) ==
  LET parent == [p \in Paths |-> ParentOf(p)]
  IN  {p \in Paths : \A up \in SUBSET Paths :
         paths \subseteq up /\ (\A q \in up : parent[q] \in Paths => parent[q] \in up)
           => p \in up}

(* The queries agree with each other, although they follow four relations:
   paths, fparent, and the associations of tags by folder and by tag; folders
   and tags that were deleted and made again under the same name, and folders
   whose tables are incomplete after a crash, confuse none of them. *)
ListingsAgree ==
  UniquePaths /\ UniqueNames /\ Attached =>
    /\ \A r \in folders :
         /\ GetCondDBFolderSet(r.path) = None <=> r.path \in GetAllCondDBFolder
         /\ \A f \in GetCondDBFolder(r.path) : f.parent # 0 => IsSet(ParentOf(f.path))
         /\ GetFolderType(r.path) = {"set"} <=> r.path \in GetAllCondDBFolderSet
         /\ r.path = Normal(r.path) =>
              GetAllCondDBFolderBeneath(r.path) =
                {r.path} \cup {s.path : s \in {f \in folders : f.path # Root
                                                               /\ ParentOf(f.path) = r.path}}
    /\ \A name \in GetAllCondDBTag :
         /\ \A path \in Paths : name \in GetCondDBTag(path) <=> path \in GetAllTaggedFolder(name)
         /\ {path \in Paths : IsTagged(path, name)} = AtOrAbove(GetAllTaggedFolder(name))
=============================================================================
