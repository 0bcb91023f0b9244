---------------------------- MODULE CatalogProofs ----------------------------
(***************************************************************************)
(* Folders and tags, for any processes and requests, and any number of     *)
(* calls and crashes.                                                      *)
(***************************************************************************)
EXTENDS CatalogQueries, TLAPS, FiniteSetTheorems, WellFoundedInduction

(* The separators and names that paths are made of. *)
Token == {Separator} \cup (UNION {Range(q.path) : q \in UNION Range(Request)})

Row   == [id : Nat, path : Seq(Token), parent : Nat, mark : Nat,
          kind : {"set"} \cup DOMAIN Statements]
Entry == [path : Seq(Token), mark : Nat, parent : Nat]

(* What the statements make: tables and rows. *)
Table == {"database", "folders_tbl", "databases_tbl", "database row", "tags_tbl", "HEAD row",
          "tag2folder_tbl", "object_key", "tag2obj", "partition", "head", "partition row",
          "data", "null row"}

(* What a client executes next, by the call that it is in. *)
Storing == {"exist", "parent", "root", "insert", "again"}
Taking  == {"lookup", "look", "delete"}
Tagging == {"createTag", "storeTag", "changeTagName", "renameTag", "deleteTag", "tag",
            "tagFolder", "tagLook", "tagObjects", "associate", "untag", "untagFolder",
            "untagObjects", "untagLook", "unassociate", "store", "storeObject"}
Label   == {"closed", "ready", "create", "tables"} \cup Storing \cup Taking \cup Tagging

(* The labels at which the folder a client works with has been found. *)
HasFolder == {"tables", "look", "delete", "tagLook", "tagObjects", "associate",
              "untagObjects", "untagLook", "unassociate", "storeObject"}

TreeTypeOK ==
  /\ made \in 0 .. Len(DatabaseStatements) /\ nextId \in Nat \ {0} /\ faults \in Nat
  /\ folders \in SUBSET Row /\ IsFiniteSet(folders)
  /\ tables \in SUBSET ((1 .. nextId - 1) \X Table)
  /\ pc \in [Client -> Label] /\ fid \in [Client -> Nat]
  /\ stack \in [Client -> Seq(Entry)] /\ todo \in [Client -> Seq(Table)]
  /\ req = [c \in Client |-> req[c]]

(* folders_tbl: AUTO_INCREMENT numbers the rows; a row agrees with its parent,
   and came after the rows with its path that its creator did not see. *)
RowOK(r) ==
  /\ r.id \in 1 .. nextId - 1 /\ r.mark \in 1 .. r.id /\ r.parent < r.id
  /\ \A p \in folders : r.parent = p.id => p.kind = "set" /\ p.path = ParentOf(r.path)
  /\ \A s \in folders : s.id < r.id /\ s.path = Normal(r.path) => r.mark <= s.id

RowsOK ==
  /\ \A r, s \in folders : r.id = s.id => r = s
  /\ \A r \in folders : RowOK(r)

(* The same of a row that is going to be stored: an id that is read stays that
   of the row it was read from, or of none. *)
EntryOK(e) ==
  /\ e.mark <= nextId /\ e.parent < nextId
  /\ \A p \in folders : e.parent = p.id => p.kind = "set" /\ p.path = ParentOf(e.path)
  /\ e.mark > 0 => \A s \in folders : s.path = Normal(e.path) => e.mark <= s.id

(* What a client knows while it is in a call. *)
InCall(c) ==
  /\ fid[c] < nextId
  /\ pc[c] \in HasFolder => fid[c] > 0
  /\ pc[c] \in {"closed", "ready"} =>
       req[c] = NoRequest /\ stack[c] = <<>> /\ todo[c] = <<>>
  /\ pc[c] = "create" => req[c] = NoRequest /\ stack[c] = <<>> /\ todo[c] # <<>>
  /\ pc[c] \in Storing \cup Taking \cup {"tables"} => req[c] \in Request[c]
  /\ pc[c] \in Storing => req[c].op \in {"createFolder", "createTableFolder", "createFolderSet"}

StackOK(c) ==
  pc[c] \in Storing =>
    /\ stack[c] # <<>>
    /\ \A i \in 1 .. Len(stack[c]) :
         /\ EntryOK(stack[c][i])
         /\ stack[c][i].mark > 0 \/ (i = Len(stack[c]) /\ pc[c] = "exist")

(* createTables has still to execute what is not executed. *)
TablesOK(c) ==
  pc[c] = "tables" =>
    /\ todo[c] # <<>> /\ req[c].kind \in DOMAIN Statements
    /\ \A r \in folders : r.id = fid[c] => r.kind = req[c].kind
    /\ \A i \in DOMAIN Statements[req[c].kind] :
         LET statement == Statements[req[c].kind][i]
         IN  \/ <<fid[c], statement>> \in tables
             \/ \E j \in 1 .. Len(todo[c]) : todo[c][j] = statement

(* deleteFolder looked for children when nextId was what the mark says. *)
DeletionOK(c) ==
  pc[c] = "delete" =>
    /\ Len(stack[c]) = 1 /\ stack[c][1].mark <= nextId
    /\ \A r \in Children(fid[c]) : r.id >= stack[c][1].mark

ClientOK(c) == InCall(c) /\ StackOK(c) /\ TablesOK(c) /\ DeletionOK(c)

TreeInv ==
  /\ TreeTypeOK /\ RowsOK /\ FolderHasTables
  /\ \A c \in Client : ClientOK(c)

(* tags_tbl, tag2folder_tbl, and the rows of the objects. *)
TagRowsOK ==
  /\ nextTag \in Nat \ {0, 1}
  /\ \A t \in tags : t.id \in 2 .. nextTag - 1
  /\ assoc \cup tagObj \subseteq (-1 .. nextTag - 1) \X (1 .. nextId - 1)
  /\ filled \subseteq 1 .. nextId - 1

(* Only a client that visits the tree is in a folder set. *)
Visiting == {"tag", "tagFolder", "tagLook", "tagObjects", "associate"}

TagClientsOK ==
  /\ tid \in [Client -> -1 .. nextTag - 1]
  /\ frames = [c \in Client |-> frames[c]]
  /\ \A c \in Client : frames[c] # <<>> => pc[c] \in Visiting

TagInv == TagRowsOK /\ TagClientsOK

TagTreeInv == TreeInv /\ TagInv
-----------------------------------------------------------------------------
(* Paths. *)

(* The loop of normalizePath is defined for every path: there is no shortest
   prefix for which it is not. *)
LEMMA CopiedIsDefined ==
  ASSUME NEW T, Separator \in T, NEW path \in Seq(T)
  PROVE  /\ Copied(path) \in [0 .. Len(path) -> Seq(T) \ {<<>>}]
         /\ Copied(path)[0] = Root
         /\ \A i \in 1 .. Len(path) :
              Copied(path)[i] =
                IF path[i] = Separator /\ Last(Copied(path)[i - 1]) = Separator
                THEN Copied(path)[i - 1] ELSE Append(Copied(path)[i - 1], path[i])
  <1> DEFINE step(g, i) == IF i = 0 THEN Root
                           ELSE IF path[i] = Separator /\ Last(g[i - 1]) = Separator
                           THEN g[i - 1] ELSE Append(g[i - 1], path[i])
             W == Seq(T) \ {<<>>}
             good(n) == \E g \in [0 .. n -> W] : \A i \in 0 .. n : g[i] = step(g, i)
             bad == {n \in Nat : n <= Len(path) /\ ~good(n)}
  <1>1. Root \in W
    BY DEF Root
  <1>2. ASSUME bad # {}
        PROVE  FALSE
    <2>1. PICK n \in bad : \A m \in bad : <<m, n>> \notin OpToRel(<, Nat)
      BY <1>2, WFMin, NatLessThanWellFounded
    <2>2. n \in Nat /\ n <= Len(path) /\ ~good(n)
      OBVIOUS
    <2>3. \A m \in Nat : m < n => good(m)
      <3> SUFFICES ASSUME NEW m \in Nat, m < n, ~good(m)
                   PROVE  FALSE
        OBVIOUS
      <3>1. m <= Len(path)
        BY <2>2
      <3>2. m \in bad
        <4> HIDE DEF good
        <4> QED
          BY <3>1
      <3> HIDE DEF bad
      <3> QED
        BY <2>1, <2>2, <3>2 DEF OpToRel
    <2>4. CASE n = 0
      <3> DEFINE g == [i \in 0 .. 0 |-> Root]
      <3>1. g \in [0 .. 0 -> W] /\ \A i \in 0 .. 0 : g[i] = step(g, i)
        BY <1>1
      <3> HIDE DEF W, step
      <3> QED
        BY <2>2, <2>4, <3>1
    <2>5. CASE n > 0
      <3>1. n - 1 \in Nat /\ n - 1 < n
        BY <2>2, <2>5
      <3>2. good(n - 1)
        BY <2>3, <3>1
      <3>3. PICK g \in [0 .. n - 1 -> W] : \A i \in 0 .. n - 1 : g[i] = step(g, i)
        BY <3>2
      <3> DEFINE h == [i \in 0 .. n |-> IF i = n THEN step(g, n) ELSE g[i]]
      <3>4. step(g, n) \in W
        <4>1. g[n - 1] \in W /\ path[n] \in T
          BY <2>2, <2>5, <3>1
        <4>2. Append(g[n - 1], path[n]) \in W
          BY <4>1
        <4> QED
          BY <1>1, <4>1, <4>2
      <3>5. h \in [0 .. n -> W]
        <4> HIDE DEF step, W
        <4> QED
          BY <2>2, <3>4
      <3>6. \A i \in 0 .. n - 1 : h[i] = g[i]
        BY <2>2
      <3>7. \A i \in 0 .. n : h[i] = step(h, i)
        <4> SUFFICES ASSUME NEW i \in 0 .. n
                     PROVE  h[i] = step(h, i)
          OBVIOUS
        <4>1. i # 0 => h[i - 1] = g[i - 1]
          BY <2>2, <3>6
        <4>2. step(h, i) = step(g, i)
          <5> HIDE DEF h
          <5> QED
            BY <4>1
        <4>3. h[i] = step(g, i)
          <5> HIDE DEF step
          <5> QED
            BY <2>2, <3>3
        <4> QED
          BY <4>2, <4>3
      <3> HIDE DEF h, W, step
      <3> QED
        BY <2>2, <3>5, <3>7
    <2> QED
      BY <2>2, <2>4, <2>5
  <1>3. good(Len(path))
    <2>1. Len(path) \in Nat
      OBVIOUS
    <2> HIDE DEF good
    <2> QED
      BY <1>2, <2>1
  <1>4. PICK g \in [0 .. Len(path) -> W] : \A i \in 0 .. Len(path) : g[i] = step(g, i)
    BY <1>3
  <1>5. g = [i \in 0 .. Len(path) |-> step(g, i)]
    <2> HIDE DEF step
    <2> QED
      BY <1>4
  <1> DEFINE c == CHOOSE f : f = [i \in 0 .. Len(path) |-> step(f, i)]
  <1>6. c = [i \in 0 .. Len(path) |-> step(c, i)]
    <2> HIDE DEF step
    <2> QED
      BY <1>5
  <1>7. Copied(path) = c
    BY DEF Copied
  <1> HIDE DEF c
  <1>8. \A i \in 0 .. Len(path) : c[i] = step(c, i)
    <2> HIDE DEF step
    <2> QED
      BY <1>6
  <1> DEFINE odd == {n \in Nat : n <= Len(path) /\ c[n] \notin W}
  <1>9. ASSUME odd # {}
        PROVE  FALSE
    <2>1. PICK n \in odd : \A m \in odd : <<m, n>> \notin OpToRel(<, Nat)
      BY <1>9, WFMin, NatLessThanWellFounded
    <2>2. n \in Nat /\ n <= Len(path) /\ c[n] \notin W
      OBVIOUS
    <2>3. c[n] = step(c, n)
      BY <1>8, <2>2
    <2>4. n # 0
      BY <1>1, <2>2, <2>3
    <2>5. n - 1 \in Nat /\ n - 1 < n /\ n - 1 <= Len(path)
      BY <2>2, <2>4
    <2>6. c[n - 1] \in W
      <3> SUFFICES ASSUME c[n - 1] \notin W
                   PROVE  FALSE
        OBVIOUS
      <3>1. n - 1 \in odd
        BY <2>5
      <3> QED
        BY <2>1, <2>2, <2>5, <3>1 DEF OpToRel
    <2>7. path[n] \in T
      BY <2>2, <2>4
    <2> QED
      BY <2>2, <2>3, <2>4, <2>6, <2>7
  <1>10. \A i \in 0 .. Len(path) : c[i] \in W
    BY <1>9
  <1>11. c \in [0 .. Len(path) -> W]
    <2> HIDE DEF step, W
    <2> QED
      BY <1>6, <1>10
  <1>12. c[0] = Root
    BY <1>8
  <1>13. \A i \in 1 .. Len(path) :
           c[i] = IF path[i] = Separator /\ Last(c[i - 1]) = Separator
                  THEN c[i - 1] ELSE Append(c[i - 1], path[i])
    <2> SUFFICES ASSUME NEW i \in 1 .. Len(path)
                 PROVE  c[i] = IF path[i] = Separator /\ Last(c[i - 1]) = Separator
                               THEN c[i - 1] ELSE Append(c[i - 1], path[i])
      OBVIOUS
    <2>1. i \in 0 .. Len(path) /\ i # 0
      OBVIOUS
    <2>2. c[i] = step(c, i)
      BY <1>8, <2>1
    <2> QED
      BY <2>1, <2>2
  <1> HIDE DEF step
  <1> QED
    BY <1>7, <1>11, <1>12, <1>13

(* What normalizePath and splitPath make of a path is a path. *)
LEMMA NormalIsPath ==
  ASSUME NEW T, Separator \in T, NEW path \in Seq(T)
  PROVE  Normal(path) \in Seq(T) /\ ParentOf(path) \in Seq(T)
  <1> DEFINE norm == Copied(path)[Len(path)]
  <1>1. norm \in Seq(T) \ {<<>>}
    BY CopiedIsDefined
  <1> HIDE DEF norm
  <1>2. Len(norm) > 1 => Front(norm) \in Seq(T)
    BY <1>1 DEF Front
  <1>3. Normal(path) \in Seq(T)
    BY <1>1, <1>2 DEF Normal, norm
  <1>4. Root \in Seq(T)
    BY DEF Root
  <1>5. Len(Normal(path)) > 2 => SubSeq(Normal(path), 1, Len(Normal(path)) - 2) \in Seq(T)
    BY <1>3
  <1> QED
    BY <1>3, <1>4, <1>5 DEF ParentOf

(* A normal path begins with a separator, so that normalizePath takes it. *)
LEMMA NormalIsValid ==
  ASSUME NEW T, Separator \in T, NEW path \in Seq(T)
  PROVE  ValidPath(Normal(path))
  <1> DEFINE odd == {n \in Nat : n <= Len(path) /\ Copied(path)[n][1] # Separator}
  <1>1. /\ Copied(path) \in [0 .. Len(path) -> Seq(T) \ {<<>>}] /\ Copied(path)[0] = Root
        /\ \A i \in 1 .. Len(path) :
             \/ Copied(path)[i] = Copied(path)[i - 1]
             \/ Copied(path)[i] = Append(Copied(path)[i - 1], path[i])
    BY CopiedIsDefined
  <1>2. ASSUME odd # {}
        PROVE  FALSE
    <2>1. PICK n \in odd : \A m \in odd : <<m, n>> \notin OpToRel(<, Nat)
      BY <1>2, WFMin, NatLessThanWellFounded
    <2>2. n \in Nat /\ n <= Len(path) /\ Copied(path)[n][1] # Separator
      OBVIOUS
    <2>3. n # 0
      BY <1>1, <2>2 DEF Root
    <2>4. n - 1 \in Nat /\ n - 1 < n /\ n - 1 <= Len(path) /\ n \in 1 .. Len(path)
      BY <2>2, <2>3
    <2>5. Copied(path)[n - 1][1] = Separator
      <3> SUFFICES ASSUME Copied(path)[n - 1][1] # Separator
                   PROVE  FALSE
        OBVIOUS
      <3>1. n - 1 \in odd
        BY <2>4
      <3> QED
        BY <2>1, <2>2, <2>4, <3>1 DEF OpToRel
    <2>6. Copied(path)[n - 1] \in Seq(T) \ {<<>>} /\ path[n] \in T
      <3>1. n - 1 \in 0 .. Len(path)
        BY <2>4
      <3>2. path[n] \in T
        BY <2>4
      <3> HIDE DEF odd
      <3> QED
        BY <1>1, <3>1, <3>2
    <2>7. Append(Copied(path)[n - 1], path[n])[1] = Copied(path)[n - 1][1]
      BY <2>6
    <2> QED
      BY <1>1, <2>2, <2>4, <2>5, <2>7
  <1>3. PICK norm \in Seq(T) \ {<<>>} : norm = Copied(path)[Len(path)]
    BY <1>1
  <1>4. norm[1] = Separator
    <2>1. Len(path) \in Nat /\ Len(path) <= Len(path)
      OBVIOUS
    <2> QED
      BY <1>2, <1>3, <2>1
  <1> HIDE DEF odd
  <1>5. ASSUME Len(norm) > 1
        PROVE  Front(norm) # <<>> /\ Front(norm)[1] = norm[1]
    <2>0. Front(norm) \in Seq(T)
      BY <1>3, <1>5 DEF Front
    <2>1. PICK front \in Seq(T) : front = Front(norm)
      BY <2>0
    <2>2. Len(norm) \in Nat /\ 1 <= Len(norm) - 1 /\ Len(norm) - 1 <= Len(norm)
      BY <1>3, <1>5
    <2>3. Len(front) = Len(norm) - 1 /\ front[1] = norm[1]
      BY <1>3, <2>1, <2>2 DEF Front
    <2>4. front # <<>>
      BY <2>2, <2>3
    <2> QED
      BY <2>1, <2>3, <2>4
  <1> QED
    BY <1>3, <1>4, <1>5 DEF Normal, ValidPath

LEMMA NormalRoot == Normal(Root) = Root
  <1> DEFINE T == {Separator}
  <1>1. Root \in Seq(T) /\ Len(Root) = 1 /\ Root[1] = Separator /\ Last(Root) = Separator
    BY DEF Root, Last
  <1>2. Copied(Root)[1] = Root
    BY <1>1, CopiedIsDefined
  <1>3. Copied(Root)[Len(Root)] = Root
    BY <1>1, <1>2
  <1> DEFINE norm == Copied(Root)[Len(Root)]
  <1>4. Normal(Root) = IF Len(norm) > 1 /\ Last(norm) = Separator THEN Front(norm) ELSE norm
    BY DEF Normal
  <1>5. norm = Root
    BY <1>3
  <1> HIDE DEF norm
  <1>6. Len(norm) = 1
    BY <1>1, <1>5
  <1>7. ~(Len(norm) > 1)
    BY <1>6
  <1>8. Normal(Root) = norm
    BY <1>4, <1>7
  <1> QED
    BY <1>5, <1>8
-----------------------------------------------------------------------------
(* Constants. *)
LEMMA StatementsOfKinds ==
  /\ DatabaseStatements \in Seq(Table) /\ Len(DatabaseStatements) = 7
  /\ DatabaseStatements # <<>>
  /\ DOMAIN Statements = {"BLOBTAG", "STRUCTTAG", "STRUCT"}
  /\ \A kind \in DOMAIN Statements :
       /\ Statements[kind] \in Seq(Table) /\ Statements[kind] # <<>>
       /\ DOMAIN Statements[kind] = 1 .. Len(Statements[kind])
  <1> DEFINE b == <<"object_key", "tag2obj", "partition", "head", "partition row", "data">>
             t == <<"tag2obj", "partition", "object_key", "head", "partition row", "data">>
             o == <<"partition", "partition row", "data", "null row">>
             known(s) == s \in Seq(Table) /\ s # <<>> /\ DOMAIN s = 1 .. Len(s)
  <1>1. DatabaseStatements \in Seq(Table) /\ Len(DatabaseStatements) = 7
    BY DEF DatabaseStatements, Table
  <1>2. b \in Seq(Table) /\ t \in Seq(Table) /\ o \in Seq(Table)
    BY DEF Table
  <1>3. Len(b) = 6 /\ Len(t) = 6 /\ Len(o) = 4
    OBVIOUS
  <1>4. Statements = [BLOBTAG |-> b, STRUCTTAG |-> t, STRUCT |-> o]
    BY DEF Statements
  <1> HIDE DEF b, t, o
  <1>5. /\ DOMAIN Statements = {"BLOBTAG", "STRUCTTAG", "STRUCT"}
        /\ \A kind \in DOMAIN Statements : Statements[kind] \in {b, t, o}
    BY <1>4
  <1>6. ASSUME NEW s \in Seq(Table), Len(s) > 0
        PROVE  known(s)
    BY <1>6
  <1>7. known(b) /\ known(t) /\ known(o)
    <2> HIDE DEF known
    <2> QED
      BY <1>2, <1>3, <1>6
  <1>8. \A kind \in DOMAIN Statements : known(Statements[kind])
    <2> HIDE DEF known
    <2> QED
      BY <1>5, <1>7
  <1>9. DatabaseStatements # <<>>
    BY <1>1
  <1> QED
    BY <1>1, <1>5, <1>8, <1>9

(* Sequences are empty when they have no elements. *)
LEMMA EmptyByLength ==
  ASSUME NEW S, NEW s \in Seq(S)
  PROVE  /\ Len(s) \in Nat /\ (s = <<>> <=> Len(s) = 0)
         /\ s # <<>> => /\ Tail(s) \in Seq(S) /\ Len(Tail(s)) = Len(s) - 1
                        /\ Head(s) = s[1] /\ s[1] \in S
                        /\ \A i \in 1 .. Len(s) - 1 : Tail(s)[i] = s[i + 1]
                        /\ Tail(s) = <<>> <=> Len(s) = 1
  <1>1. Len(s) \in Nat /\ (s = <<>> <=> Len(s) = 0)
    OBVIOUS
  <1>2. ASSUME s # <<>>
        PROVE  /\ Tail(s) \in Seq(S) /\ Len(Tail(s)) = Len(s) - 1
               /\ Head(s) = s[1] /\ s[1] \in S
               /\ \A i \in 1 .. Len(s) - 1 : Tail(s)[i] = s[i + 1]
    BY <1>1, <1>2
  <1>3. ASSUME NEW t \in Seq(S)
        PROVE  t = <<>> <=> Len(t) = 0
    OBVIOUS
  <1>4. s # <<>> => (Tail(s) = <<>> <=> Len(Tail(s)) = 0)
    BY <1>2, <1>3
  <1> QED
    BY <1>1, <1>2, <1>4

LEMMA SameSets ==
  /\ Row' = Row /\ Entry' = Entry /\ Token' = Token /\ Label' = Label /\ Table' = Table
  /\ Statements' = Statements /\ DatabaseStatements' = DatabaseStatements
  BY DEF Row, Entry, Token, Label, Table, Statements, DatabaseStatements, Storing, Taking, Tagging

LEMMA RequestedPaths ==
  ASSUME NEW c \in Client, NEW q \in Request[c]
  PROVE  Separator \in Token /\ q.path \in Seq(Token)
  <1>1. Range(q.path) \subseteq Token
    BY RequestAssumption DEF Token, Range
  <1>2. q.path \in Seq(Range(q.path))
    BY RequestAssumption
  <1>3. /\ Len(q.path) \in Nat /\ q.path = [i \in 1 .. Len(q.path) |-> q.path[i]]
        /\ \A i \in 1 .. Len(q.path) : q.path[i] \in Range(q.path)
    BY <1>2
  <1> QED
    BY <1>1, <1>3 DEF Token
-----------------------------------------------------------------------------
(* What a step of c leaves alone of the other clients. *)
OthersWait(c) ==
  \A d \in Client \ {c} : /\ pc'[d] = pc[d] /\ req'[d] = req[d] /\ stack'[d] = stack[d]
                          /\ todo'[d] = todo[d] /\ fid'[d] = fid[d]

LocalTypes ==
  /\ pc \in [Client -> Label] /\ fid \in [Client -> Nat]
  /\ stack \in [Client -> Seq(Entry)] /\ todo \in [Client -> Seq(Table)]
  /\ req = [c \in Client |-> req[c]]

LEMMA NewLocals ==
  ASSUME TreeInv, NEW c \in Client,
         NEW l \in Label, NEW q, NEW s \in Seq(Entry), NEW t \in Seq(Table), NEW f \in Nat,
         pc' = [pc EXCEPT ![c] = l], req' = [req EXCEPT ![c] = q],
         stack' = [stack EXCEPT ![c] = s], todo' = [todo EXCEPT ![c] = t],
         fid' = [fid EXCEPT ![c] = f]
  PROVE  /\ LocalTypes' /\ OthersWait(c)
         /\ pc'[c] = l /\ req'[c] = q /\ stack'[c] = s /\ todo'[c] = t /\ fid'[c] = f
  <1>1. /\ pc \in [Client -> Label] /\ fid \in [Client -> Nat]
        /\ stack \in [Client -> Seq(Entry)] /\ todo \in [Client -> Seq(Table)]
        /\ req = [d \in Client |-> req[d]]
    BY DEF TreeInv, TreeTypeOK
  <1>2. /\ pc' \in [Client -> Label] /\ fid' \in [Client -> Nat]
        /\ stack' \in [Client -> Seq(Entry)] /\ todo' \in [Client -> Seq(Table)]
        /\ pc'[c] = l /\ stack'[c] = s /\ todo'[c] = t /\ fid'[c] = f
        /\ \A d \in Client \ {c} : /\ pc'[d] = pc[d] /\ stack'[d] = stack[d]
                                   /\ todo'[d] = todo[d] /\ fid'[d] = fid[d]
    BY <1>1
  <1>3. /\ req' = [d \in Client |-> req'[d]] /\ req'[c] = q
        /\ \A d \in Client \ {c} : req'[d] = req[d]
    BY <1>1
  <1> QED
    BY <1>2, <1>3, SameSets DEF LocalTypes, OthersWait

(* The rows only change so that what a client relies on stays true. *)
Grows ==
  /\ nextId' >= nextId /\ nextId' \in Nat
  /\ \A r \in folders' : r \in folders \/ r.id = nextId
  /\ tables \subseteq tables'

LEMMA OthersKeep ==
  ASSUME TreeInv, NEW d \in Client, Grows,
         pc'[d] = pc[d], req'[d] = req[d], stack'[d] = stack[d], todo'[d] = todo[d],
         fid'[d] = fid[d]
  PROVE  ClientOK(d)'
  <1>1. ClientOK(d) /\ nextId \in Nat /\ fid[d] \in Nat
    BY DEF TreeInv, TreeTypeOK
  <1>2. InCall(d)'
    BY <1>1, SameSets DEF ClientOK, InCall, Grows, Storing, Taking, HasFolder, NoRequest
  <1>3. StackOK(d)'
    <2> SUFFICES ASSUME pc[d] \in Storing, NEW i \in 1 .. Len(stack[d])
                 PROVE  EntryOK(stack[d][i])'
      BY <1>1 DEF ClientOK, StackOK, Storing
    <2>1. EntryOK(stack[d][i]) /\ stack[d][i] \in Entry
      BY <1>1 DEF ClientOK, StackOK, TreeInv, TreeTypeOK
    <2>2. stack[d][i].mark \in Nat /\ stack[d][i].parent \in Nat
      BY <2>1 DEF Entry
    <2> DEFINE e == stack[d][i]
    <2> HIDE DEF e
    <2>3. EntryOK(e) /\ e.mark \in Nat /\ e.parent \in Nat
      BY <2>1, <2>2 DEF e
    <2>4. e.mark <= nextId' /\ e.parent < nextId'
      BY <1>1, <2>3 DEF EntryOK, Grows
    <2>5. ASSUME NEW p \in folders', e.parent = p.id
          PROVE  p.kind = "set" /\ p.path = ParentOf(e.path)
      BY <1>1, <2>3, <2>5 DEF EntryOK, Grows
    <2>6. ASSUME e.mark > 0, NEW p \in folders', p.path = Normal(e.path)
          PROVE  e.mark <= p.id
      BY <1>1, <2>3, <2>6 DEF EntryOK, Grows
    <2>7. stack'[d][i] = e
      BY DEF e
    <2> QED
      BY <2>4, <2>5, <2>6, <2>7 DEF EntryOK, e
  <1>4. TablesOK(d)'
    <2> SUFFICES ASSUME pc[d] = "tables"
                 PROVE  TablesOK(d)'
      BY DEF TablesOK
    <2>1. TablesOK(d) /\ fid[d] < nextId
      BY <1>1 DEF ClientOK, InCall
    <2>2. \A r \in folders' : r.id = fid[d] => r.kind = req[d].kind
      BY <1>1, <2>1 DEF TablesOK, Grows
    <2> QED
      BY <2>1, <2>2, SameSets DEF TablesOK, Grows
  <1>5. DeletionOK(d)'
    <2> SUFFICES ASSUME pc[d] = "delete"
                 PROVE  DeletionOK(d)'
      BY DEF DeletionOK
    <2>1. DeletionOK(d) /\ stack[d] \in Seq(Entry)
      BY <1>1 DEF ClientOK, TreeInv, TreeTypeOK
    <2>2. stack[d][1] \in Entry /\ Len(stack[d]) = 1 /\ stack[d][1].mark <= nextId
      BY <2>1 DEF DeletionOK
    <2>3. stack[d][1].mark \in Nat
      BY <2>2 DEF Entry
    <2>4. \A r \in folders' : r.parent = fid[d] => r.id >= stack[d][1].mark
      BY <1>1, <2>1, <2>2, <2>3 DEF DeletionOK, Grows, Children
    <2>5. stack[d][1].mark <= nextId'
      BY <1>1, <2>2, <2>3 DEF Grows
    <2> QED
      BY <2>2, <2>4, <2>5 DEF DeletionOK, Children
  <1> QED
    BY <1>2, <1>3, <1>4, <1>5 DEF ClientOK

(* No step but a crash leaves a folder behind that misses tables. *)
LEMMA NoneLeftBehind ==
  ASSUME TreeInv, NEW c \in Client, OthersWait(c), Grows,
         \A r \in folders' \ folders :
            r.kind = "set" \/ (pc'[c] = "tables" /\ fid'[c] = r.id),
         pc[c] = "tables" => \/ pc'[c] = "tables" /\ fid'[c] = fid[c]
                             \/ \A r \in folders : r.id = fid[c] => Complete(r.id, r.kind)',
         IsFiniteSet(folders'), faults' = faults
  PROVE  FolderHasTables'
  <1>1. ASSUME NEW r \in Unfinished'
        PROVE  r \in Unfinished
    <2>1. /\ r \in folders' /\ r.kind # "set" /\ ~Complete(r.id, r.kind)'
          /\ ~\E d \in Client : pc'[d] = "tables" /\ fid'[d] = r.id
      BY <1>1 DEF Unfinished
    <2>2. r \in folders
      BY <2>1
    <2>3. ~Complete(r.id, r.kind)
      BY <2>1, SameSets DEF Complete, Grows
    <2>4. ASSUME NEW d \in Client, pc[d] = "tables", fid[d] = r.id
          PROVE  FALSE
      <3>1. CASE d = c
        BY <2>1, <2>2, <2>4, <3>1
      <3>2. CASE d # c
        BY <2>1, <2>4, <3>2 DEF OthersWait
      <3> QED
        BY <3>1, <3>2
    <2> QED
      BY <2>1, <2>2, <2>3, <2>4 DEF Unfinished
  <1>2. IsFiniteSet(folders) /\ faults \in Nat /\ Cardinality(Unfinished) <= faults
    BY DEF TreeInv, TreeTypeOK, FolderHasTables
  <1>3. IsFiniteSet(Unfinished) /\ Unfinished' \subseteq Unfinished
    BY <1>1, <1>2, FS_Subset DEF Unfinished
  <1>4. /\ IsFiniteSet(Unfinished') /\ Cardinality(Unfinished') <= Cardinality(Unfinished)
    BY <1>3, FS_Subset
  <1>5. Cardinality(Unfinished') \in Nat /\ Cardinality(Unfinished) \in Nat
    BY <1>3, <1>4, FS_CardinalityType
  <1> QED
    BY <1>2, <1>4, <1>5 DEF FolderHasTables

(* A step that changes what one client works with, and no row. *)
LEMMA LocalStep ==
  ASSUME TreeInv, NEW c \in Client, UNCHANGED <<folders, tables, nextId, faults>>,
         made' \in 0 .. Len(DatabaseStatements), pc[c] # "tables",
         LocalTypes', OthersWait(c), ClientOK(c)'
  PROVE  TreeInv'
  <1>1. TreeTypeOK'
    <2>1. /\ made' \in 0 .. Len(DatabaseStatements)' /\ nextId' \in Nat \ {0} /\ faults' \in Nat
          /\ folders' \in SUBSET Row' /\ IsFiniteSet(folders')
          /\ tables' \in SUBSET ((1 .. nextId' - 1) \X Table')
      BY SameSets DEF TreeInv, TreeTypeOK
    <2> QED
      BY <2>1 DEF LocalTypes, TreeTypeOK
  <1>2. Grows
    BY DEF Grows, TreeInv, TreeTypeOK
  <1>3. RowsOK'
    BY DEF TreeInv, RowsOK, RowOK
  <1>4. \A d \in Client : ClientOK(d)'
    BY <1>2, OthersKeep DEF OthersWait
  <1>5. FolderHasTables'
    BY <1>2, NoneLeftBehind DEF TreeInv, TreeTypeOK
  <1> QED
    BY <1>1, <1>3, <1>4, <1>5 DEF TreeInv

(* A client that has ended its call has nothing left of it. *)
LEMMA Ended ==
  ASSUME TreeInv, NEW c \in Client, NEW l \in {"ready", "closed"}, EndCall(c, l),
         nextId' \in Nat \ {0}
  PROVE  LocalTypes' /\ OthersWait(c) /\ ClientOK(c)' /\ pc'[c] = l
  <1>1. /\ pc' = [pc EXCEPT ![c] = l] /\ req' = [req EXCEPT ![c] = NoRequest]
        /\ stack' = [stack EXCEPT ![c] = <<>>] /\ todo' = [todo EXCEPT ![c] = <<>>]
        /\ fid' = [fid EXCEPT ![c] = 0]
    BY DEF EndCall, Goto
  <1>2. l \in Label /\ <<>> \in Seq(Entry) /\ <<>> \in Seq(Table) /\ 0 \in Nat
    BY DEF Label
  <1>3. /\ LocalTypes' /\ OthersWait(c)
        /\ pc'[c] = l /\ req'[c] = NoRequest /\ stack'[c] = <<>> /\ todo'[c] = <<>>
        /\ fid'[c] = 0
    BY <1>1, <1>2, NewLocals
  <1>4. ClientOK(c)'
    BY <1>3 DEF ClientOK, InCall, StackOK, TablesOK, DeletionOK, Storing, Taking, HasFolder,
                NoRequest
  <1> QED
    BY <1>3, <1>4

LEMMA EndsCall ==
  ASSUME TreeInv, NEW c \in Client, NEW l \in {"ready", "closed"}, EndCall(c, l),
         UNCHANGED <<made, folders, tables, nextId, faults>>, pc[c] # "tables"
  PROVE  TreeInv'
  <1>1. nextId' \in Nat \ {0} /\ made' \in 0 .. Len(DatabaseStatements)
    BY DEF TreeInv, TreeTypeOK
  <1>2. LocalTypes' /\ OthersWait(c) /\ ClientOK(c)'
    BY <1>1, Ended
  <1> QED
    BY <1>1, <1>2, LocalStep

LEMMA Throws ==
  ASSUME TreeInv, NEW c \in Client, Throw(c), pc[c] # "tables"
  PROVE  TreeInv'
  BY EndsCall DEF Throw
-----------------------------------------------------------------------------
(* The handles and the database. *)
LEMMA OpenDatabaseKeeps ==
  ASSUME TreeInv, NEW c \in Client, OpenDatabase(c)
  PROVE  TreeInv'
  <1>1. /\ pc[c] = "closed" /\ UNCHANGED <<made, folders, tables, nextId, faults>>
        /\ UNCHANGED <<req, stack, fid>>
    BY DEF OpenDatabase
  <1>2. /\ InCall(c) /\ LocalTypes /\ nextId \in Nat
        /\ made' \in 0 .. Len(DatabaseStatements)
    BY <1>1 DEF TreeInv, ClientOK, LocalTypes, TreeTypeOK
  <1>3. /\ req[c] = NoRequest /\ stack[c] = <<>> /\ todo[c] = <<>> /\ fid[c] < nextId
        /\ stack[c] \in Seq(Entry) /\ todo[c] \in Seq(Table) /\ fid[c] \in Nat
    BY <1>1, <1>2 DEF InCall, LocalTypes
  <1>4. PICK l \in {"ready", "create"}, t \in {<<>>, DatabaseStatements} :
           /\ pc' = [pc EXCEPT ![c] = l] /\ todo' = [todo EXCEPT ![c] = t]
           /\ l = "create" <=> t # <<>>
    <2>1. DatabaseStatements # <<>>
      BY StatementsOfKinds
    <2>2. CASE made > 0
      <3>1. todo' = [todo EXCEPT ![c] = <<>>]
        BY <1>2, <1>3, <2>2 DEF OpenDatabase, LocalTypes
      <3> QED
        BY <2>2, <3>1 DEF OpenDatabase, Goto
    <2>3. CASE ~(made > 0)
      BY <2>1, <2>3 DEF OpenDatabase, Goto
    <2> QED
      BY <2>2, <2>3
  <1>5. l \in Label /\ t \in Seq(Table)
    <2>1. <<>> \in Seq(Table) /\ DatabaseStatements \in Seq(Table)
      BY StatementsOfKinds
    <2> QED
      BY <2>1 DEF Label
  <1>6. /\ req' = [req EXCEPT ![c] = req[c]] /\ stack' = [stack EXCEPT ![c] = stack[c]]
        /\ fid' = [fid EXCEPT ![c] = fid[c]]
    BY <1>1, <1>2 DEF LocalTypes
  <1>7. /\ LocalTypes' /\ OthersWait(c)
        /\ pc'[c] = l /\ req'[c] = req[c] /\ stack'[c] = stack[c] /\ todo'[c] = t
        /\ fid'[c] = fid[c]
    BY <1>3, <1>4, <1>5, <1>6, NewLocals
  <1>8. ClientOK(c)'
    BY <1>1, <1>3, <1>4, <1>7
    DEF ClientOK, InCall, StackOK, TablesOK, DeletionOK, Storing, Taking, HasFolder, NoRequest
  <1> QED
    BY <1>1, <1>2, <1>7, <1>8, LocalStep

LEMMA CreateDatabaseKeeps ==
  ASSUME TreeInv, NEW c \in Client, CreateDatabase(c)
  PROVE  TreeInv'
  <1>1. /\ pc[c] = "create" /\ UNCHANGED <<folders, tables, nextId, faults>>
        /\ UNCHANGED <<req, stack, fid>>
    BY DEF CreateDatabase
  <1>2. /\ InCall(c) /\ LocalTypes /\ nextId \in Nat
        /\ made \in 0 .. 7 /\ Len(DatabaseStatements) = 7
    BY StatementsOfKinds DEF TreeInv, ClientOK, LocalTypes, TreeTypeOK
  <1>3. /\ req[c] = NoRequest /\ stack[c] = <<>> /\ todo[c] # <<>> /\ fid[c] < nextId
        /\ stack[c] \in Seq(Entry) /\ todo[c] \in Seq(Table) /\ fid[c] \in Nat
    BY <1>1, <1>2 DEF InCall, LocalTypes
  <1>4. /\ Tail(todo[c]) \in Seq(Table) /\ Len(todo[c]) \in Nat /\ Len(todo[c]) > 0
        /\ Len(Tail(todo[c])) = Len(todo[c]) - 1
    BY <1>3, EmptyByLength
  <1>5. Tail(todo[c]) = <<>> <=> Len(todo[c]) = 1
    BY <1>3, EmptyByLength
  <1>6. \E l \in {"ready", "create", "closed"}, t \in Seq(Table) :
           /\ pc' = [pc EXCEPT ![c] = l] /\ todo' = [todo EXCEPT ![c] = t]
           /\ l = "create" <=> t # <<>>
           /\ made' \in 0 .. 7
    <2>1. CASE made + Len(todo[c]) = Len(DatabaseStatements)
      <3>1. made' \in 0 .. 7
        BY <1>2, <1>4, <2>1 DEF CreateDatabase
      <3>2. /\ pc' = [pc EXCEPT ![c] = IF Len(todo[c]) = 1 THEN "ready" ELSE "create"]
            /\ todo' = [todo EXCEPT ![c] = Tail(todo[c])]
        BY <2>1 DEF CreateDatabase, Goto
      <3>3. CASE Len(todo[c]) = 1
        BY <1>4, <1>5, <3>1, <3>2, <3>3
      <3>4. CASE Len(todo[c]) # 1
        BY <1>4, <1>5, <3>1, <3>2, <3>4
      <3> QED
        BY <3>3, <3>4
    <2>2. CASE made + Len(todo[c]) # Len(DatabaseStatements)
      <3>1. /\ pc' = [pc EXCEPT ![c] = "closed"] /\ todo' = [todo EXCEPT ![c] = <<>>]
            /\ made' \in 0 .. 7 /\ <<>> \in Seq(Table)
        BY <1>2, <2>2 DEF CreateDatabase, Goto
      <3> QED
        BY <3>1
    <2> QED
      BY <2>1, <2>2
  <1>7. PICK l \in {"ready", "create", "closed"}, t \in Seq(Table) :
           /\ pc' = [pc EXCEPT ![c] = l] /\ todo' = [todo EXCEPT ![c] = t]
           /\ l = "create" <=> t # <<>>
           /\ made' \in 0 .. 7
    BY <1>6
  <1>8. l \in Label /\ pc' = [pc EXCEPT ![c] = l] /\ todo' = [todo EXCEPT ![c] = t]
    BY <1>7 DEF Label
  <1>9. /\ req' = [req EXCEPT ![c] = req[c]] /\ stack' = [stack EXCEPT ![c] = stack[c]]
        /\ fid' = [fid EXCEPT ![c] = fid[c]]
    BY <1>1, <1>2 DEF LocalTypes
  <1>10. /\ LocalTypes' /\ OthersWait(c)
         /\ pc'[c] = l /\ req'[c] = req[c] /\ stack'[c] = stack[c] /\ todo'[c] = t
         /\ fid'[c] = fid[c]
    <2>1. stack[c] \in Seq(Entry) /\ fid[c] \in Nat
      BY <1>3
    <2> QED
      BY <1>8, <1>9, <2>1, NewLocals
  <1>11. ClientOK(c)'
    BY <1>1, <1>3, <1>7, <1>10
    DEF ClientOK, InCall, StackOK, TablesOK, DeletionOK, Storing, Taking, HasFolder, NoRequest
  <1> QED
    BY <1>1, <1>2, <1>7, <1>10, <1>11, LocalStep
-----------------------------------------------------------------------------
(* Folders and folder sets that are created. *)
LEMMA OfClient ==
  ASSUME TreeInv, NEW c \in Client
  PROVE  /\ pc[c] \in Label /\ stack[c] \in Seq(Entry) /\ todo[c] \in Seq(Table)
         /\ fid[c] \in Nat /\ nextId \in Nat \ {0} /\ made \in 0 .. Len(DatabaseStatements)
         /\ InCall(c) /\ StackOK(c) /\ TablesOK(c) /\ DeletionOK(c)
         /\ pc = [pc EXCEPT ![c] = pc[c]] /\ req = [req EXCEPT ![c] = req[c]]
         /\ stack = [stack EXCEPT ![c] = stack[c]] /\ todo = [todo EXCEPT ![c] = todo[c]]
         /\ fid = [fid EXCEPT ![c] = fid[c]]
  <1>1. ClientOK(c) /\ TreeTypeOK
    BY DEF TreeInv
  <1>2. /\ pc \in [Client -> Label] /\ fid \in [Client -> Nat]
        /\ stack \in [Client -> Seq(Entry)] /\ todo \in [Client -> Seq(Table)]
        /\ req = [d \in Client |-> req[d]]
    BY <1>1 DEF TreeTypeOK
  <1>3. /\ pc[c] \in Label /\ stack[c] \in Seq(Entry) /\ todo[c] \in Seq(Table)
        /\ fid[c] \in Nat /\ nextId \in Nat \ {0} /\ made \in 0 .. Len(DatabaseStatements)
    BY <1>1, <1>2 DEF TreeTypeOK
  <1>4. /\ pc = [pc EXCEPT ![c] = pc[c]] /\ req = [req EXCEPT ![c] = req[c]]
        /\ stack = [stack EXCEPT ![c] = stack[c]] /\ todo = [todo EXCEPT ![c] = todo[c]]
        /\ fid = [fid EXCEPT ![c] = fid[c]]
    BY <1>2
  <1> QED
    BY <1>1, <1>3, <1>4 DEF ClientOK

(* A new top of a stack. *)
LEMMA NewTop ==
  ASSUME NEW s \in Seq(Entry), s # <<>>, NEW e \in Entry
  PROVE  LET t == [s EXCEPT ![Len(s)] = e]
         IN  /\ t \in Seq(Entry) /\ t # <<>> /\ Len(t) = Len(s) /\ Len(s) \in Nat \ {0}
             /\ t[Len(s)] = e /\ \A i \in 1 .. Len(s) - 1 : t[i] = s[i]
             /\ Last(s) = s[Len(s)] /\ s[Len(s)] \in Entry
  <1>1. Len(s) \in Nat \ {0}
    BY EmptyByLength
  <1> DEFINE t == [s EXCEPT ![Len(s)] = e]
  <1>2. t \in Seq(Entry) /\ Len(t) = Len(s)
    BY <1>1
  <1>3. t[Len(s)] = e /\ \A i \in 1 .. Len(s) - 1 : t[i] = s[i]
    BY <1>1
  <1>4. Last(s) = s[Len(s)] /\ s[Len(s)] \in Entry
    BY <1>1 DEF Last
  <1> HIDE DEF t
  <1>5. t # <<>>
    BY <1>1, <1>2
  <1> QED
    BY <1>1, <1>2, <1>3, <1>4, <1>5 DEF t

(* A client that goes on with the folder on top of its stack. *)
LEMMA NewStack ==
  ASSUME TreeInv, NEW c \in Client, NEW l \in Label, NEW s \in Seq(Entry),
         pc' = [pc EXCEPT ![c] = l], stack' = [stack EXCEPT ![c] = s],
         UNCHANGED req, UNCHANGED todo, UNCHANGED fid
  PROVE  /\ LocalTypes' /\ OthersWait(c)
         /\ pc'[c] = l /\ req'[c] = req[c] /\ stack'[c] = s /\ todo'[c] = todo[c]
         /\ fid'[c] = fid[c]
  <1>1. /\ pc \in [Client -> Label] /\ fid \in [Client -> Nat]
        /\ stack \in [Client -> Seq(Entry)] /\ todo \in [Client -> Seq(Table)]
        /\ req = [d \in Client |-> req[d]]
    BY DEF TreeInv, TreeTypeOK
  <1>2. /\ pc' \in [Client -> Label] /\ fid' \in [Client -> Nat]
        /\ stack' \in [Client -> Seq(Entry)] /\ todo' \in [Client -> Seq(Table)]
        /\ req' = [d \in Client |-> req'[d]]
        /\ pc'[c] = l /\ stack'[c] = s
        /\ \A d \in Client \ {c} : pc'[d] = pc[d] /\ stack'[d] = stack[d]
    BY <1>1
  <1> QED
    BY <1>2, SameSets DEF LocalTypes, OthersWait

LEMMA StackStep ==
  ASSUME TreeInv, NEW c \in Client, pc[c] \in Storing, NEW l \in Storing,
         NEW s \in Seq(Entry), s # <<>>,
         pc' = [pc EXCEPT ![c] = l], stack' = [stack EXCEPT ![c] = s],
         UNCHANGED <<made, folders, tables, nextId, faults>>,
         UNCHANGED req, UNCHANGED todo, UNCHANGED fid,
         \A i \in 1 .. Len(s) :
           EntryOK(s[i]) /\ (s[i].mark > 0 \/ (i = Len(s) /\ l = "exist"))
  PROVE  TreeInv'
  <1>1. /\ stack[c] \in Seq(Entry) /\ todo[c] \in Seq(Table) /\ fid[c] \in Nat
        /\ made \in 0 .. Len(DatabaseStatements) /\ InCall(c)
    BY OfClient
  <1>2. l \in Label
    BY DEF Label
  <1>4. /\ LocalTypes' /\ OthersWait(c)
        /\ pc'[c] = l /\ req'[c] = req[c] /\ stack'[c] = s /\ todo'[c] = todo[c]
        /\ fid'[c] = fid[c]
    BY <1>2, NewStack
  <1>5. InCall(c)'
    BY <1>1, <1>4 DEF InCall, Storing, Taking, HasFolder
  <1>6. StackOK(c)'
    <2>1. \A i \in 1 .. Len(s) : EntryOK(s[i])'
      BY DEF EntryOK
    <2> QED
      BY <1>4, <2>1 DEF StackOK, EntryOK
  <1>7. TablesOK(c)' /\ DeletionOK(c)'
    BY <1>4 DEF TablesOK, DeletionOK, Storing
  <1>8. pc[c] # "tables"
    BY DEF Storing
  <1> QED
    BY <1>1, <1>4, <1>5, <1>6, <1>7, <1>8, LocalStep DEF ClientOK

LEMMA NewRequest ==
  ASSUME TreeInv, NEW c \in Client, NEW l \in Label, NEW q, NEW s \in Seq(Entry),
         pc' = [pc EXCEPT ![c] = l], req' = [req EXCEPT ![c] = q],
         stack' = [stack EXCEPT ![c] = s], UNCHANGED todo, UNCHANGED fid
  PROVE  /\ LocalTypes' /\ OthersWait(c)
         /\ pc'[c] = l /\ req'[c] = q /\ stack'[c] = s /\ todo'[c] = todo[c]
         /\ fid'[c] = fid[c]
  <1>1. /\ pc \in [Client -> Label] /\ fid \in [Client -> Nat]
        /\ stack \in [Client -> Seq(Entry)] /\ todo \in [Client -> Seq(Table)]
        /\ req = [d \in Client |-> req[d]]
    BY DEF TreeInv, TreeTypeOK
  <1>2. /\ pc' \in [Client -> Label] /\ fid' \in [Client -> Nat]
        /\ stack' \in [Client -> Seq(Entry)] /\ todo' \in [Client -> Seq(Table)]
        /\ pc'[c] = l /\ stack'[c] = s
        /\ \A d \in Client \ {c} : pc'[d] = pc[d] /\ stack'[d] = stack[d]
    BY <1>1
  <1>3. /\ req' = [d \in Client |-> req'[d]] /\ req'[c] = q
        /\ \A d \in Client \ {c} : req'[d] = req[d]
    BY <1>1
  <1> QED
    BY <1>2, <1>3, SameSets DEF LocalTypes, OthersWait

LEMMA CallFolderMgrKeeps ==
  ASSUME TreeInv, NEW c \in Client, NEW q \in Request[c], CallFolderMgr(c, q)
  PROVE  TreeInv'
  <1>1. /\ pc[c] = "ready" /\ q.op \in FolderCalls
        /\ UNCHANGED <<made, folders, tables, nextId, todo, fid, faults>>
    BY DEF CallFolderMgr
  <1>2. /\ stack[c] = <<>> /\ todo[c] = <<>> /\ fid[c] < nextId /\ fid[c] \in Nat
        /\ todo[c] \in Seq(Table) /\ made \in 0 .. Len(DatabaseStatements)
        /\ nextId \in Nat \ {0} /\ stack[c] \in Seq(Entry)
    BY <1>1, OfClient DEF InCall
  <1>3. UNCHANGED todo /\ UNCHANGED fid
    BY <1>1
  <1>4. CASE q.op = "createTableFolder" /\ q.kind = "BLOBTAG"
    <2>1. UNCHANGED <<pc, req, stack>>
      BY <1>4 DEF CallFolderMgr
    <2>2. LocalTypes' /\ OthersWait(c) /\ ClientOK(c)'
      <3>1. LocalTypes /\ ClientOK(c)
        BY DEF TreeInv, TreeTypeOK, LocalTypes
      <3>2. LocalTypes' /\ OthersWait(c)
        BY <1>1, <2>1, <3>1, SameSets DEF LocalTypes, OthersWait
      <3>3. ClientOK(c)'
        BY <1>1, <2>1, <3>1
        DEF ClientOK, InCall, StackOK, TablesOK, DeletionOK, Storing, Taking, HasFolder
      <3> QED
        BY <3>2, <3>3
    <2> QED
      BY <1>1, <1>2, <2>2, LocalStep
  <1>5. CASE ~(q.op = "createTableFolder" /\ q.kind = "BLOBTAG")
    <2>1. req' = [req EXCEPT ![c] = q]
      BY <1>5 DEF CallFolderMgr
    <2>2. CASE q.op = "deleteFolder"
      <3> DEFINE l == "lookup"
      <3>1. pc' = [pc EXCEPT ![c] = l] /\ stack' = [stack EXCEPT ![c] = stack[c]]
        BY <1>5, <2>2, OfClient DEF CallFolderMgr, Goto
      <3>2. l \in Label
        BY DEF Label, Taking
      <3>3. /\ LocalTypes' /\ OthersWait(c)
            /\ pc'[c] = l /\ req'[c] = q /\ stack'[c] = stack[c] /\ todo'[c] = todo[c]
            /\ fid'[c] = fid[c]
        <4>1. stack[c] \in Seq(Entry)
          BY <1>2
        <4> HIDE DEF l
        <4> QED
          BY <1>3, <2>1, <3>1, <3>2, <4>1, NewRequest
      <3>4. ClientOK(c)'
        BY <1>1, <1>2, <3>3
        DEF ClientOK, InCall, StackOK, TablesOK, DeletionOK, Storing, Taking, HasFolder
      <3> QED
        BY <1>1, <1>2, <3>3, <3>4, LocalStep
    <2>3. CASE q.op # "deleteFolder"
      <3> DEFINE e == [path |-> q.path, mark |-> 0, parent |-> 0]
                 s == <<e>>
                 l == "exist"
      <3>1. pc' = [pc EXCEPT ![c] = l] /\ stack' = [stack EXCEPT ![c] = s]
        BY <1>5, <2>3 DEF CallFolderMgr, Goto
      <3>2. l \in Label
        BY DEF Label, Storing
      <3>3. e \in Entry /\ e.mark = 0 /\ e.parent = 0
        BY RequestedPaths DEF Entry
      <3>4. EntryOK(e)
        <4>1. \A p \in folders : p.id > 0
          <5>1. \A p \in folders : p.id \in 1 .. nextId - 1
            BY DEF TreeInv, RowsOK, RowOK
          <5> QED
            BY <1>2, <5>1
        <4>2. ~(e.mark > 0) /\ e.mark <= nextId /\ e.parent < nextId
          BY <1>2, <3>3
        <4>3. \A p \in folders : e.parent # p.id
          BY <3>3, <4>1
        <4> HIDE DEF e
        <4> QED
          BY <4>2, <4>3 DEF EntryOK
      <3> HIDE DEF e
      <3>5. s \in Seq(Entry) /\ Len(s) = 1 /\ s[1] = e
        BY <3>3
      <3> HIDE DEF s
      <3>6. /\ LocalTypes' /\ OthersWait(c)
            /\ pc'[c] = l /\ req'[c] = q /\ stack'[c] = s /\ todo'[c] = todo[c]
            /\ fid'[c] = fid[c]
        <4>1. s \in Seq(Entry)
          BY <3>5
        <4> HIDE DEF l
        <4> QED
          BY <1>3, <2>1, <3>1, <3>2, <4>1, NewRequest
      <3>7. q.op \in {"createFolder", "createTableFolder", "createFolderSet"}
        BY <1>1, <2>3 DEF FolderCalls
      <3>8. InCall(c)'
        BY <1>1, <1>2, <3>6, <3>7 DEF InCall, Storing, Taking, HasFolder
      <3>9. StackOK(c)'
        <4>1. EntryOK(e)'
          BY <1>1, <3>4 DEF EntryOK
        <4>2. s # <<>>
          <5>1. s = <<>> <=> Len(s) = 0
            BY <3>5, EmptyByLength
          <5> QED
            BY <3>5, <5>1
        <4>3. Len(stack'[c]) = 1 /\ stack'[c][1] = e /\ stack'[c] = s
          BY <3>5, <3>6
        <4> QED
          BY <3>6, <4>1, <4>2, <4>3 DEF StackOK, EntryOK
      <3>10. ClientOK(c)'
        BY <3>6, <3>8, <3>9 DEF ClientOK, TablesOK, DeletionOK
      <3> QED
        BY <1>1, <1>2, <3>6, <3>10, LocalStep
    <2> QED
      BY <2>2, <2>3
  <1> QED
    BY <1>4, <1>5

(* The folder on top of a stack. *)
LEMMA TopEntry ==
  ASSUME TreeInv, NEW c \in Client, pc[c] \in Storing
  PROVE  /\ stack[c] \in Seq(Entry) /\ stack[c] # <<>> /\ Len(stack[c]) \in Nat \ {0}
         /\ Top(c) = stack[c][Len(stack[c])] /\ Top(c) \in Entry /\ EntryOK(Top(c))
         /\ pc[c] # "exist" => Top(c).mark > 0
         /\ \A i \in 1 .. Len(stack[c]) - 1 : EntryOK(stack[c][i]) /\ stack[c][i].mark > 0
  <1>1. stack[c] \in Seq(Entry) /\ StackOK(c)
    BY OfClient
  <1>2. /\ stack[c] # <<>>
        /\ \A i \in 1 .. Len(stack[c]) :
             /\ EntryOK(stack[c][i])
             /\ stack[c][i].mark > 0 \/ (i = Len(stack[c]) /\ pc[c] = "exist")
    BY <1>1 DEF StackOK
  <1>3. Len(stack[c]) \in Nat \ {0}
    BY <1>1, <1>2, EmptyByLength
  <1>4. Top(c) = stack[c][Len(stack[c])]
    BY DEF Top, Last
  <1>5. stack[c][Len(stack[c])] \in Entry
    BY <1>1, <1>3
  <1> QED
    BY <1>1, <1>2, <1>3, <1>4, <1>5

LEMMA TopStep ==
  ASSUME TreeInv, NEW c \in Client, pc[c] \in Storing, NEW l \in Storing,
         NEW e \in Entry, EntryOK(e), e.mark > 0,
         pc' = [pc EXCEPT ![c] = l],
         stack' = [stack EXCEPT ![c] = [stack[c] EXCEPT ![Len(stack[c])] = e]],
         UNCHANGED <<made, folders, tables, nextId, faults>>,
         UNCHANGED req, UNCHANGED todo, UNCHANGED fid
  PROVE  TreeInv'
  <1>1. /\ stack[c] \in Seq(Entry) /\ stack[c] # <<>> /\ Len(stack[c]) \in Nat \ {0}
        /\ \A i \in 1 .. Len(stack[c]) - 1 : EntryOK(stack[c][i]) /\ stack[c][i].mark > 0
    BY TopEntry
  <1> DEFINE s == [stack[c] EXCEPT ![Len(stack[c])] = e]
  <1>2. /\ s \in Seq(Entry) /\ s # <<>> /\ Len(s) = Len(stack[c])
        /\ s[Len(s)] = e /\ \A i \in 1 .. Len(s) - 1 : s[i] = stack[c][i]
    BY <1>1, NewTop
  <1>3. stack' = [stack EXCEPT ![c] = s]
    OBVIOUS
  <1> HIDE DEF s
  <1>4. \A i \in 1 .. Len(s) : EntryOK(s[i]) /\ s[i].mark > 0
    <2> SUFFICES ASSUME NEW i \in 1 .. Len(s)
                 PROVE  EntryOK(s[i]) /\ s[i].mark > 0
      OBVIOUS
    <2>1. CASE i = Len(s)
      BY <1>2, <2>1
    <2>2. CASE i # Len(s)
      <3>1. i \in 1 .. Len(s) - 1
        BY <1>1, <1>2, <2>2
      <3>2. s[i] = stack[c][i] /\ EntryOK(stack[c][i]) /\ stack[c][i].mark > 0
        BY <1>1, <1>2, <3>1
      <3> QED
        BY <3>2
    <2> QED
      BY <2>1, <2>2
  <1>5. s \in Seq(Entry) /\ s # <<>>
    BY <1>2
  <1>6. \A i \in 1 .. Len(s) : EntryOK(s[i]) /\ (s[i].mark > 0 \/ (i = Len(s) /\ l = "exist"))
    BY <1>4
  <1> QED
    BY <1>3, <1>5, <1>6, StackStep

LEMMA ExistKeeps ==
  ASSUME TreeInv, NEW c \in Client, Exist(c)
  PROVE  TreeInv'
  <1>1. pc[c] = "exist" /\ pc[c] \in Storing /\ pc[c] # "tables" /\ "parent" \in Storing
    BY DEF Exist, Storing
  <1> DEFINE refused == \/ ~ValidPath(Top(c).path) \/ ~Executed("folders_tbl")
                        \/ Find(Normal(Top(c).path)) # {}
  <1>2. CASE refused
    BY <1>1, <1>2, Throws DEF Exist
  <1>3. CASE ~refused
    <2> DEFINE t == Top(c)
               e == [path |-> t.path, mark |-> nextId, parent |-> t.parent]
    <2>1. /\ t \in Entry /\ EntryOK(t) /\ nextId \in Nat \ {0}
          /\ stack[c] \in Seq(Entry) /\ Len(stack[c]) \in Nat \ {0}
          /\ t = stack[c][Len(stack[c])]
      BY <1>1, TopEntry, OfClient
    <2>2. e \in Entry
      BY <2>1 DEF Entry
    <2>3. e = [t EXCEPT !.mark = nextId]
      <3>1. ASSUME NEW u \in Entry, NEW n
            PROVE  [u EXCEPT !.mark = n] = [path |-> u.path, mark |-> n, parent |-> u.parent]
        BY DEF Entry
      <3> HIDE DEF t
      <3> QED
        BY <2>1, <3>1
    <2>4. /\ pc' = [pc EXCEPT ![c] = "parent"]
          /\ stack' = [stack EXCEPT ![c][Len(stack[c])].mark = nextId]
          /\ UNCHANGED <<made, folders, tables, nextId, faults>>
          /\ UNCHANGED req /\ UNCHANGED todo /\ UNCHANGED fid
      BY <1>3 DEF Exist, Goto
    <2>5. stack' = [stack EXCEPT ![c] = [stack[c] EXCEPT ![Len(stack[c])] = e]]
      BY <2>1, <2>3, <2>4
    <2>6. EntryOK(e) /\ e.mark > 0
      <3>1. /\ e.path = t.path /\ e.mark = nextId /\ e.parent = t.parent
            /\ \A s \in folders : s.path # Normal(t.path)
        BY <1>3 DEF Find
      <3> HIDE DEF e, t
      <3> QED
        BY <2>1, <3>1 DEF EntryOK
    <2> HIDE DEF e, t
    <2>7. e \in Entry /\ EntryOK(e) /\ e.mark > 0
      BY <2>2, <2>6
    <2> QED
      BY <1>1, <2>4, <2>5, <2>7, TopStep
  <1> QED
    BY <1>2, <1>3

(* An id that is read names a folder set with the path of the parent. *)
LEMMA ParentFound ==
  ASSUME TreeInv, NEW c \in Client, pc[c] \in {"parent", "again"},
         NEW r \in FindSet(ParentOf(Top(c).path)),
         stack' = [stack EXCEPT ![c][Len(stack[c])].parent = r.id],
         pc' = [pc EXCEPT ![c] = "insert"],
         UNCHANGED <<made, folders, tables, nextId, faults>>,
         UNCHANGED req, UNCHANGED todo, UNCHANGED fid
  PROVE  TreeInv'
  <1>1. pc[c] \in Storing /\ pc[c] # "exist" /\ "insert" \in Storing
    BY DEF Storing
  <1> DEFINE t == Top(c)
             e == [path |-> t.path, mark |-> t.mark, parent |-> r.id]
  <1>2. /\ t \in Entry /\ EntryOK(t) /\ t.mark > 0 /\ nextId \in Nat \ {0}
        /\ stack[c] \in Seq(Entry) /\ Len(stack[c]) \in Nat \ {0}
        /\ t = stack[c][Len(stack[c])]
    BY <1>1, TopEntry, OfClient
  <1>3. r \in folders /\ r.path = ParentOf(t.path) /\ r.kind = "set"
    BY DEF FindSet, Find
  <1>4. /\ r \in Row /\ r.id \in 1 .. nextId - 1
        /\ \A p \in folders : p.id = r.id => p = r
    BY <1>3 DEF TreeInv, TreeTypeOK, RowsOK, RowOK
  <1>5. e \in Entry
    BY <1>2, <1>4 DEF Entry, Row
  <1>6. e = [t EXCEPT !.parent = r.id]
    <2>1. ASSUME NEW u \in Entry, NEW n
          PROVE  [u EXCEPT !.parent = n] = [path |-> u.path, mark |-> u.mark, parent |-> n]
      BY DEF Entry
    <2> HIDE DEF t
    <2> QED
      BY <1>2, <2>1
  <1>7. stack' = [stack EXCEPT ![c] = [stack[c] EXCEPT ![Len(stack[c])] = e]]
    BY <1>2, <1>6
  <1>8. EntryOK(e) /\ e.mark > 0
    <2>1. e.path = t.path /\ e.mark = t.mark /\ e.parent = r.id
      OBVIOUS
    <2> HIDE DEF e, t
    <2>2. e.mark <= nextId /\ e.parent < nextId /\ e.mark > 0
      BY <1>2, <1>4, <2>1 DEF EntryOK
    <2>3. \A p \in folders : e.parent = p.id => p.kind = "set" /\ p.path = ParentOf(e.path)
      BY <1>3, <1>4, <2>1
    <2>4. e.mark > 0 => \A s \in folders : s.path = Normal(e.path) => e.mark <= s.id
      BY <1>2, <2>1 DEF EntryOK
    <2> QED
      BY <2>2, <2>3, <2>4 DEF EntryOK
  <1> HIDE DEF e, t
  <1>9. e \in Entry /\ EntryOK(e) /\ e.mark > 0
    BY <1>5, <1>8
  <1> QED
    BY <1>1, <1>7, <1>9, TopStep

(* A parent that is missing is created first. *)
LEMMA ParentMissing ==
  ASSUME TreeInv, NEW c \in Client, pc[c] = "parent",
         stack' = [stack EXCEPT ![c] = Append(stack[c], [path |-> ParentOf(Top(c).path),
                                                         mark |-> 0, parent |-> 0])],
         pc' = [pc EXCEPT ![c] = "exist"],
         UNCHANGED <<made, folders, tables, nextId, faults>>,
         UNCHANGED req, UNCHANGED todo, UNCHANGED fid
  PROVE  TreeInv'
  <1>1. pc[c] \in Storing /\ pc[c] # "exist" /\ "exist" \in Storing
    BY DEF Storing
  <1>2. /\ Top(c) \in Entry /\ nextId \in Nat \ {0} /\ Top(c).mark > 0
        /\ stack[c] \in Seq(Entry) /\ Len(stack[c]) \in Nat \ {0} /\ EntryOK(Top(c))
        /\ Top(c) = stack[c][Len(stack[c])]
        /\ \A i \in 1 .. Len(stack[c]) - 1 : EntryOK(stack[c][i]) /\ stack[c][i].mark > 0
    BY <1>1, TopEntry, OfClient
  <1>3. \A i \in 1 .. Len(stack[c]) : EntryOK(stack[c][i]) /\ stack[c][i].mark > 0
    <2> SUFFICES ASSUME NEW i \in 1 .. Len(stack[c])
                 PROVE  EntryOK(stack[c][i]) /\ stack[c][i].mark > 0
      OBVIOUS
    <2>1. CASE i = Len(stack[c])
      BY <1>2, <2>1
    <2>2. CASE i # Len(stack[c])
      BY <1>2, <2>2
    <2> QED
      BY <2>1, <2>2
  <1> DEFINE e == [path |-> ParentOf(Top(c).path), mark |-> 0, parent |-> 0]
             s == Append(stack[c], e)
  <1>4. e \in Entry /\ e.mark = 0 /\ e.parent = 0
    <2>1. Top(c).path \in Seq(Token) /\ Separator \in Token
      BY <1>2 DEF Entry, Token
    <2>2. ParentOf(Top(c).path) \in Seq(Token)
      BY <2>1, NormalIsPath
    <2> QED
      BY <2>2 DEF Entry
  <1>5. stack' = [stack EXCEPT ![c] = s]
    OBVIOUS
  <1> HIDE DEF e
  <1>6. /\ s \in Seq(Entry) /\ Len(s) = Len(stack[c]) + 1 /\ s[Len(s)] = e
        /\ \A i \in 1 .. Len(stack[c]) : s[i] = stack[c][i]
    BY <1>2, <1>4
  <1> HIDE DEF s
  <1>7. EntryOK(e)
    <2>1. \A p \in folders : p.id > 0
      <3>1. \A p \in folders : p.id \in 1 .. nextId - 1
        BY DEF TreeInv, RowsOK, RowOK
      <3> QED
        BY <1>2, <3>1
    <2>2. ~(e.mark > 0) /\ e.mark <= nextId /\ e.parent < nextId
      BY <1>2, <1>4
    <2>3. \A p \in folders : e.parent # p.id
      BY <1>4, <2>1
    <2> QED
      BY <2>2, <2>3 DEF EntryOK
  <1>8. \A i \in 1 .. Len(s) : EntryOK(s[i]) /\ (s[i].mark > 0 \/ i = Len(s))
    <2> SUFFICES ASSUME NEW i \in 1 .. Len(s)
                 PROVE  EntryOK(s[i]) /\ (s[i].mark > 0 \/ i = Len(s))
      OBVIOUS
    <2>1. CASE i = Len(s)
      BY <1>6, <1>7, <2>1
    <2>2. CASE i # Len(s)
      <3>1. i \in 1 .. Len(stack[c])
        BY <1>2, <1>6, <2>2
      <3> QED
        BY <1>3, <1>6, <3>1
    <2> QED
      BY <2>1, <2>2
  <1>9. s \in Seq(Entry) /\ s # <<>>
    <2>1. s = <<>> <=> Len(s) = 0
      BY <1>6, EmptyByLength
    <2> QED
      BY <1>2, <1>6, <2>1
  <1> DEFINE l == "exist"
  <1>10. /\ l \in Storing /\ pc' = [pc EXCEPT ![c] = l]
         /\ \A i \in 1 .. Len(s) : EntryOK(s[i]) /\ (s[i].mark > 0 \/ (i = Len(s) /\ l = "exist"))
    BY <1>1, <1>8
  <1> HIDE DEF l
  <1> QED
    BY <1>1, <1>5, <1>9, <1>10, StackStep

LEMMA FindParentKeeps ==
  ASSUME TreeInv, NEW c \in Client, FindParent(c)
  PROVE  TreeInv'
  <1>1. pc[c] = "parent" /\ pc[c] \in Storing /\ pc[c] # "tables" /\ "root" \in Storing
    BY DEF FindParent, Storing
  <1> DEFINE path  == Top(c).path
             found == FindSet(ParentOf(path))
             same == /\ UNCHANGED <<made, folders, tables, nextId, faults>>
                     /\ UNCHANGED req /\ UNCHANGED todo /\ UNCHANGED fid
  <1>2. \/ /\ \E r \in found :
                /\ stack' = [stack EXCEPT ![c][Len(stack[c])].parent = r.id]
                /\ pc' = [pc EXCEPT ![c] = "insert"]
           /\ same
        \/ pc' = [pc EXCEPT ![c] = "root"] /\ UNCHANGED stack /\ same
        \/ /\ stack' = [stack EXCEPT ![c] = Append(stack[c], [path |-> ParentOf(path),
                                                              mark |-> 0, parent |-> 0])]
           /\ pc' = [pc EXCEPT ![c] = "exist"]
           /\ same
        \/ Throw(c)
    BY DEF FindParent, Goto, locals
  <1>3. ASSUME NEW r \in found, stack' = [stack EXCEPT ![c][Len(stack[c])].parent = r.id],
               pc' = [pc EXCEPT ![c] = "insert"], same
        PROVE  TreeInv'
    BY <1>1, <1>3, ParentFound
  <1>4. ASSUME pc' = [pc EXCEPT ![c] = "root"], UNCHANGED stack, same
        PROVE  TreeInv'
    <2>1. /\ stack[c] \in Seq(Entry) /\ stack[c] # <<>>
          /\ stack' = [stack EXCEPT ![c] = stack[c]]
      BY <1>1, <1>4, TopEntry, OfClient
    <2>2. \A i \in 1 .. Len(stack[c]) : EntryOK(stack[c][i]) /\ stack[c][i].mark > 0
      BY <1>1, OfClient DEF StackOK
    <2> QED
      BY <1>1, <1>4, <2>1, <2>2, StackStep
  <1>5. ASSUME stack' = [stack EXCEPT ![c] = Append(stack[c], [path |-> ParentOf(path),
                                                                mark |-> 0, parent |-> 0])],
               pc' = [pc EXCEPT ![c] = "exist"], same
        PROVE  TreeInv'
    BY <1>1, <1>5, ParentMissing
  <1>6. Throw(c) => TreeInv'
    BY <1>1, Throws
  <1> HIDE DEF found, path, same
  <1> QED
    BY <1>2, <1>3, <1>4, <1>5, <1>6

LEMMA ExistRootKeeps ==
  ASSUME TreeInv, NEW c \in Client, ExistRoot(c)
  PROVE  TreeInv'
  <1>1. pc[c] = "root" /\ pc[c] \in Storing /\ pc[c] # "tables" /\ "insert" \in Storing
    BY DEF ExistRoot, Storing
  <1>2. CASE Find(Root) # {}
    BY <1>1, <1>2, Throws DEF ExistRoot
  <1>3. CASE Find(Root) = {}
    <2> DEFINE e == [path |-> Root, mark |-> nextId, parent |-> 0]
    <2>1. /\ pc' = [pc EXCEPT ![c] = "insert"]
          /\ stack' = [stack EXCEPT ![c][Len(stack[c])] = e]
          /\ UNCHANGED <<made, folders, tables, nextId, faults>>
          /\ UNCHANGED req /\ UNCHANGED todo /\ UNCHANGED fid
      BY <1>3 DEF ExistRoot, Goto
    <2>2. stack' = [stack EXCEPT ![c] = [stack[c] EXCEPT ![Len(stack[c])] = e]]
      BY <2>1
    <2>3. nextId \in Nat \ {0} /\ \A p \in folders : p.id > 0
      <3>1. nextId \in Nat \ {0} /\ \A p \in folders : p.id \in 1 .. nextId - 1
        BY OfClient DEF TreeInv, RowsOK, RowOK
      <3> QED
        BY <3>1
    <2>4. e \in Entry /\ e.path = Root /\ e.mark = nextId /\ e.parent = 0
      <3>1. Root \in Seq(Token)
        BY DEF Root, Token
      <3> QED
        BY <2>3, <3>1 DEF Entry
    <2> HIDE DEF e
    <2>5. \A s \in folders : s.path # Normal(e.path)
      BY <1>3, <2>4, NormalRoot DEF Find
    <2>6. EntryOK(e) /\ e.mark > 0
      BY <2>3, <2>4, <2>5 DEF EntryOK
    <2> QED
      BY <1>1, <2>1, <2>2, <2>4, <2>6, TopStep
  <1> QED
    BY <1>2, <1>3

LEMMA FindParentAgainKeeps ==
  ASSUME TreeInv, NEW c \in Client, FindParentAgain(c)
  PROVE  TreeInv'
  <1>1. /\ pc[c] = "again" /\ pc[c] # "tables"
        /\ UNCHANGED <<made, folders, tables, nextId, faults>>
    BY DEF FindParentAgain
  <1>2. ASSUME NEW r \in FindSet(ParentOf(Top(c).path)),
               stack' = [stack EXCEPT ![c][Len(stack[c])].parent = r.id],
               pc' = [pc EXCEPT ![c] = "insert"],
               UNCHANGED req, UNCHANGED todo, UNCHANGED fid
        PROVE  TreeInv'
    BY <1>1, <1>2, ParentFound
  <1>3. ASSUME EndCall(c, "closed")
        PROVE  TreeInv'
    BY <1>1, <1>3, EndsCall
  <1> QED
    BY <1>2, <1>3 DEF FindParentAgain, Goto

(* What holds of a row that is going to be stored stays true. *)
LEMMA EntryKept ==
  ASSUME TreeInv, Grows, NEW e \in Entry, EntryOK(e)
  PROVE  EntryOK(e)'
  <1>1. nextId \in Nat /\ e.mark \in Nat /\ e.parent \in Nat
    BY DEF TreeInv, TreeTypeOK, Entry
  <1>2. e.mark <= nextId' /\ e.parent < nextId'
    BY <1>1 DEF EntryOK, Grows
  <1>3. ASSUME NEW p \in folders', e.parent = p.id
        PROVE  p.kind = "set" /\ p.path = ParentOf(e.path)
    BY <1>1, <1>3 DEF EntryOK, Grows
  <1>4. ASSUME e.mark > 0, NEW p \in folders', p.path = Normal(e.path)
        PROVE  e.mark <= p.id
    BY <1>1, <1>4 DEF EntryOK, Grows
  <1> QED
    BY <1>2, <1>3, <1>4 DEF EntryOK

(* The row that a call inserts, folders_tbl with it. *)
LEMMA RowIsStored ==
  ASSUME TreeInv, NEW c \in Client, pc[c] = "insert",
         folders' = folders \cup {NewRow(c)}, nextId' = nextId + 1,
         UNCHANGED tables
  PROVE  /\ NewRow(c) \in Row /\ NewRow(c).id = nextId /\ RowsOK' /\ Grows
         /\ folders' \in SUBSET Row /\ IsFiniteSet(folders')
         /\ NewRow(c).kind # "set" =>
              NewRow(c).kind = req[c].kind /\ req[c].kind \in DOMAIN Statements
  <1> DEFINE t == Top(c)
  <1>0. PICK n : n = NewRow(c)
    OBVIOUS
  <1>1. pc[c] \in Storing /\ pc[c] # "exist"
    BY DEF Storing
  <1>2. /\ t \in Entry /\ EntryOK(t) /\ t.mark > 0 /\ nextId \in Nat \ {0}
        /\ folders \in SUBSET Row /\ IsFiniteSet(folders) /\ RowsOK
    BY <1>1, TopEntry, OfClient DEF TreeInv, TreeTypeOK
  <1>3. t.path \in Seq(Token) /\ t.mark \in Nat /\ t.parent \in Nat
    BY <1>2 DEF Entry
  <1>4. n.kind = "set" \/ (n.kind = req[c].kind /\ req[c].kind \in DOMAIN Statements)
    <2>1. /\ req[c] \in Request[c]
          /\ req[c].op \in {"createFolder", "createTableFolder", "createFolderSet"}
      BY <1>1, OfClient DEF InCall
    <2>2. CASE req[c].op = "createFolderSet" \/ Len(stack[c]) > 1
      BY <1>0, <2>2 DEF NewRow
    <2>3. CASE ~(req[c].op = "createFolderSet" \/ Len(stack[c]) > 1)
      <3>1. req[c].kind \in DOMAIN Statements
        BY <2>1, <2>3, RequestAssumption
      <3> QED
        BY <1>0, <2>3, <3>1 DEF NewRow
    <2> QED
      BY <2>2, <2>3
  <1>5. n.id = nextId /\ n.path = t.path /\ n.parent = t.parent /\ n.mark = t.mark
    BY <1>0 DEF NewRow
  <1>6. n \in Row
    <2>1. n = [id |-> nextId, path |-> t.path, parent |-> t.parent, mark |-> t.mark,
               kind |-> n.kind]
      BY <1>0 DEF NewRow
    <2>2. n.kind \in {"set"} \cup DOMAIN Statements
      BY <1>4
    <2> HIDE DEF t
    <2> QED
      BY <1>2, <1>3, <2>1, <2>2 DEF Row
  <1> HIDE DEF t
  <1>7. folders' = folders \cup {n}
    BY <1>0
  <1>8. folders' \in SUBSET Row /\ IsFiniteSet(folders')
    BY <1>2, <1>6, <1>7, FS_AddElement
  <1>9. Grows
    BY <1>2, <1>5, <1>7 DEF Grows, TreeInv, TreeTypeOK
  <1>10. n.mark <= nextId /\ n.mark > 0 /\ n.mark \in Nat /\ n.parent < nextId /\ n.parent \in Nat
    BY <1>2, <1>3, <1>5 DEF EntryOK
  <1>11. \A r \in folders : r.id \in 1 .. nextId - 1 /\ r \in Row /\ RowOK(r)
    BY <1>2 DEF RowsOK, RowOK
  <1>12. ASSUME NEW r \in folders', NEW s \in folders', r.id = s.id
         PROVE  r = s
    BY <1>2, <1>5, <1>7, <1>11, <1>12 DEF RowsOK
  <1>13. ASSUME NEW r \in folders
         PROVE  RowOK(r)'
    <2>1. /\ r.id \in 1 .. nextId - 1 /\ r.mark \in 1 .. r.id /\ r.parent < r.id
          /\ r.parent \in Nat
      BY <1>2, <1>13 DEF RowsOK, RowOK, Row
    <2>2. ASSUME NEW p \in folders', r.parent = p.id
          PROVE  p.kind = "set" /\ p.path = ParentOf(r.path)
      <3>1. p \in folders
        BY <1>2, <1>5, <1>7, <2>1, <2>2
      <3> QED
        BY <1>11, <2>2, <3>1 DEF RowOK
    <2>3. ASSUME NEW s \in folders', s.id < r.id, s.path = Normal(r.path)
          PROVE  r.mark <= s.id
      <3>1. s \in folders
        BY <1>2, <1>5, <1>7, <2>1, <2>3
      <3> QED
        BY <1>11, <2>3, <3>1 DEF RowOK
    <2>4. r.id \in 1 .. nextId' - 1
      BY <1>2, <2>1
    <2> QED
      BY <2>1, <2>2, <2>3, <2>4 DEF RowOK
  <1>14. RowOK(n)'
    <2>1. n.id \in 1 .. nextId' - 1 /\ n.mark \in 1 .. n.id /\ n.parent < n.id
      BY <1>2, <1>5, <1>10
    <2>2. ASSUME NEW p \in folders', n.parent = p.id
          PROVE  p.kind = "set" /\ p.path = ParentOf(n.path)
      <3>1. p \in folders
        BY <1>5, <1>7, <1>10, <1>2, <2>2
      <3> QED
        BY <1>2, <1>5, <2>2, <3>1 DEF EntryOK
    <2>3. ASSUME NEW s \in folders', s.id < n.id, s.path = Normal(n.path)
          PROVE  n.mark <= s.id
      <3>1. s \in folders
        BY <1>2, <1>5, <1>7, <2>3
      <3> QED
        BY <1>2, <1>5, <2>3, <3>1 DEF EntryOK
    <2> QED
      BY <2>1, <2>2, <2>3 DEF RowOK
  <1>15. RowsOK'
    BY <1>7, <1>12, <1>13, <1>14 DEF RowsOK
  <1>16. n.id = nextId /\ (n.kind # "set" => n.kind = req[c].kind /\ req[c].kind \in DOMAIN Statements)
    BY <1>4, <1>5
  <1> QED
    BY <1>0, <1>6, <1>8, <1>9, <1>15, <1>16

(* After the row of a folder come its tables. *)
LEMMA NewTodo ==
  ASSUME TreeInv, NEW c \in Client, NEW l \in Label, NEW t \in Seq(Table), NEW f \in Nat,
         pc' = [pc EXCEPT ![c] = l], todo' = [todo EXCEPT ![c] = t], fid' = [fid EXCEPT ![c] = f],
         UNCHANGED req, UNCHANGED stack
  PROVE  /\ LocalTypes' /\ OthersWait(c)
         /\ pc'[c] = l /\ req'[c] = req[c] /\ stack'[c] = stack[c] /\ todo'[c] = t
         /\ fid'[c] = f
  <1>1. /\ pc \in [Client -> Label] /\ fid \in [Client -> Nat]
        /\ stack \in [Client -> Seq(Entry)] /\ todo \in [Client -> Seq(Table)]
        /\ req = [d \in Client |-> req[d]]
    BY DEF TreeInv, TreeTypeOK
  <1>2. /\ pc' \in [Client -> Label] /\ fid' \in [Client -> Nat]
        /\ stack' \in [Client -> Seq(Entry)] /\ todo' \in [Client -> Seq(Table)]
        /\ req' = [d \in Client |-> req'[d]]
        /\ pc'[c] = l /\ todo'[c] = t /\ fid'[c] = f
        /\ \A d \in Client \ {c} : pc'[d] = pc[d] /\ todo'[d] = todo[d] /\ fid'[d] = fid[d]
    BY <1>1
  <1> QED
    BY <1>2, SameSets DEF LocalTypes, OthersWait

(* A step of one client, put together: no row that was there changes. *)
LEMMA GrowingStep ==
  ASSUME TreeInv, NEW c \in Client, made' \in 0 .. Len(DatabaseStatements),
         nextId' \in Nat \ {0}, faults' \in Nat, folders' \in SUBSET Row,
         IsFiniteSet(folders'), tables' \in SUBSET ((1 .. nextId' - 1) \X Table),
         Grows, RowsOK', LocalTypes', OthersWait(c), ClientOK(c)', FolderHasTables'
  PROVE  TreeInv'
  <1>1. TreeTypeOK'
    <2>1. /\ made' \in 0 .. Len(DatabaseStatements)'
          /\ folders' \in SUBSET Row' /\ tables' \in SUBSET ((1 .. nextId' - 1) \X Table')
      BY SameSets
    <2> QED
      BY <2>1 DEF LocalTypes, TreeTypeOK
  <1>2. \A d \in Client : ClientOK(d)'
    BY OthersKeep DEF OthersWait
  <1> QED
    BY <1>1, <1>2 DEF TreeInv

LEMMA StoreRowKeeps ==
  ASSUME TreeInv, NEW c \in Client, StoreRow(c)
  PROVE  TreeInv'
  <1>1. pc[c] = "insert" /\ pc[c] \in Storing /\ pc[c] # "tables" /\ pc[c] # "exist"
    BY DEF StoreRow, Storing
  <1> DEFINE refused == \/ NewRow(c).kind \in {"set", "BLOBTAG"} /\ ~Executed("database row")
                        \/ NewRow(c).kind # "set" /\ Top(c).path = Root
  <1>2. CASE refused
    BY <1>1, <1>2, Throws DEF StoreRow
  <1>3. CASE ~refused
    <2>1. /\ folders' = folders \cup {NewRow(c)} /\ nextId' = nextId + 1
          /\ UNCHANGED tables /\ UNCHANGED made /\ UNCHANGED faults
      BY <1>3 DEF StoreRow
    <2>2. /\ NewRow(c) \in Row /\ NewRow(c).id = nextId /\ RowsOK' /\ Grows
          /\ folders' \in SUBSET Row /\ IsFiniteSet(folders')
          /\ NewRow(c).kind # "set" =>
               NewRow(c).kind = req[c].kind /\ req[c].kind \in DOMAIN Statements
      BY <1>1, <2>1, RowIsStored
    <2>3. /\ nextId \in Nat \ {0} /\ stack[c] \in Seq(Entry) /\ Len(stack[c]) \in Nat \ {0}
          /\ stack[c] # <<>> /\ made' \in 0 .. Len(DatabaseStatements) /\ InCall(c)
          /\ todo[c] \in Seq(Table) /\ fid[c] \in Nat
          /\ \A i \in 1 .. Len(stack[c]) : EntryOK(stack[c][i]) /\ stack[c][i].mark > 0
      BY <1>1, <2>1, TopEntry, OfClient DEF StackOK
    <2>4. /\ nextId' \in Nat \ {0} /\ faults' \in Nat
          /\ tables' \in SUBSET ((1 .. nextId' - 1) \X Table)
      <3>1. tables \in SUBSET ((1 .. nextId - 1) \X Table) /\ faults \in Nat
        BY DEF TreeInv, TreeTypeOK
      <3>2. 1 .. nextId - 1 \subseteq 1 .. nextId' - 1
        BY <2>1, <2>3
      <3> QED
        BY <2>1, <2>3, <3>1, <3>2
    <2>5. \A r \in folders' : r.id = nextId => r = NewRow(c)
      <3>1. \A r \in folders : r.id \in 1 .. nextId - 1
        BY DEF TreeInv, RowsOK, RowOK
      <3> QED
        BY <2>1, <2>3, <3>1
    <2> DEFINE k == NewRow(c).kind
    <2>6. \/ /\ k = "set" /\ pc' = [pc EXCEPT ![c] = "again"] /\ Len(stack[c]) > 1
             /\ stack' = [stack EXCEPT ![c] = Front(stack[c])]
             /\ UNCHANGED req /\ UNCHANGED todo /\ UNCHANGED fid
          \/ k = "set" /\ EndCall(c, "ready")
          \/ /\ k # "set" /\ pc' = [pc EXCEPT ![c] = "tables"]
             /\ fid' = [fid EXCEPT ![c] = nextId]
             /\ todo' = [todo EXCEPT ![c] = Statements[req[c].kind]]
             /\ UNCHANGED req /\ UNCHANGED stack
      <3>1. CASE k = "set" /\ Len(stack[c]) > 1
        BY <1>3, <2>2, <3>1 DEF StoreRow, Goto
      <3>2. CASE k = "set" /\ ~(Len(stack[c]) > 1)
        <4>1. Len(stack[c]) = 1
          <5>1. Len(stack[c]) \in Nat \ {0}
            BY <2>3
          <5>2. ASSUME NEW n \in Nat \ {0}, ~(n > 1)
                PROVE  n = 1
            BY <5>2
          <5> HIDE DEF k
          <5> QED
            BY <3>2, <5>1, <5>2
        <4> QED
          BY <1>3, <2>2, <3>2, <4>1 DEF StoreRow, Goto
      <3>3. CASE k # "set"
        BY <1>3, <2>2, <3>3 DEF StoreRow, Goto
      <3> QED
        BY <3>1, <3>2, <3>3
    <2>7. ASSUME OthersWait(c), k = "set" \/ (pc'[c] = "tables" /\ fid'[c] = nextId)
          PROVE  FolderHasTables'
      <3>1. \A r \in folders' \ folders :
              r.kind = "set" \/ (pc'[c] = "tables" /\ fid'[c] = r.id)
        BY <2>1, <2>2, <2>7
      <3> QED
        BY <1>1, <2>1, <2>2, <2>7, <3>1, NoneLeftBehind
    <2>8. CASE /\ k = "set" /\ pc' = [pc EXCEPT ![c] = "again"] /\ Len(stack[c]) > 1
               /\ stack' = [stack EXCEPT ![c] = Front(stack[c])]
               /\ UNCHANGED req /\ UNCHANGED todo /\ UNCHANGED fid
      <3> DEFINE l == "again"
      <3>0. PICK s : s = Front(stack[c])
        OBVIOUS
      <3>1. /\ s \in Seq(Entry) /\ Len(s) = Len(stack[c]) - 1 /\ Len(s) \in Nat
            /\ \A i \in 1 .. Len(s) : s[i] = stack[c][i]
        BY <2>3, <2>8, <3>0 DEF Front
      <3>2. /\ l \in Label /\ pc' = [pc EXCEPT ![c] = l] /\ stack' = [stack EXCEPT ![c] = s]
            /\ UNCHANGED req /\ UNCHANGED todo /\ UNCHANGED fid
        BY <2>8, <3>0 DEF Label, Storing
      <3>3. l = "again"
        OBVIOUS
      <3> HIDE DEF l
      <3>4. s # <<>>
        <4>1. s = <<>> <=> Len(s) = 0
          BY <3>1, EmptyByLength
        <4> QED
          BY <2>3, <2>8, <3>1, <4>1
      <3>5. s \in Seq(Entry)
        BY <3>1
      <3>6. /\ LocalTypes' /\ OthersWait(c)
            /\ pc'[c] = l /\ req'[c] = req[c] /\ stack'[c] = s /\ todo'[c] = todo[c]
            /\ fid'[c] = fid[c]
        BY <3>2, <3>5, NewStack
      <3>7. InCall(c)'
        BY <1>1, <2>1, <2>3, <3>3, <3>6 DEF InCall, Storing, Taking, HasFolder
      <3>8. StackOK(c)'
        <4> SUFFICES ASSUME NEW i \in 1 .. Len(s)
                     PROVE  EntryOK(stack[c][i])' /\ stack'[c][i].mark > 0
          BY <3>4, <3>6 DEF StackOK, EntryOK
        <4>1. PICK e \in Entry : e = s[i] /\ EntryOK(e) /\ e.mark > 0
          <5>1. s[i] = stack[c][i] /\ EntryOK(s[i]) /\ s[i].mark > 0 /\ s[i] \in Entry
            BY <2>3, <3>1
          <5> QED
            BY <5>1
        <4>2. EntryOK(e)'
          BY <2>2, <4>1, EntryKept
        <4>3. stack'[c][i] = e
          BY <3>6, <4>1
        <4> QED
          BY <4>1, <4>2, <4>3 DEF EntryOK
      <3>9. ClientOK(c)'
        BY <3>3, <3>6, <3>7, <3>8 DEF ClientOK, TablesOK, DeletionOK
      <3>10. FolderHasTables'
        BY <2>7, <2>8, <3>6
      <3> QED
        BY <2>2, <2>3, <2>4, <3>6, <3>9, <3>10, GrowingStep
    <2>9. CASE k = "set" /\ EndCall(c, "ready")
      <3>1. LocalTypes' /\ OthersWait(c) /\ ClientOK(c)'
        BY <2>4, <2>9, Ended
      <3>2. FolderHasTables'
        BY <2>7, <2>9, <3>1
      <3> QED
        BY <2>2, <2>3, <2>4, <3>1, <3>2, GrowingStep
    <2>10. CASE /\ k # "set" /\ pc' = [pc EXCEPT ![c] = "tables"]
                /\ fid' = [fid EXCEPT ![c] = nextId]
                /\ todo' = [todo EXCEPT ![c] = Statements[req[c].kind]]
                /\ UNCHANGED req /\ UNCHANGED stack
      <3> DEFINE l == "tables"
      <3>0. PICK t : t = Statements[req[c].kind]
        OBVIOUS
      <3>1. /\ t \in Seq(Table) /\ t # <<>> /\ DOMAIN t = 1 .. Len(t) /\ k = req[c].kind
            /\ req[c].kind \in DOMAIN Statements /\ nextId \in Nat
        BY <2>2, <2>3, <2>10, <3>0, StatementsOfKinds
      <3>2. /\ l \in Label /\ pc' = [pc EXCEPT ![c] = l] /\ todo' = [todo EXCEPT ![c] = t]
            /\ fid' = [fid EXCEPT ![c] = nextId] /\ UNCHANGED req /\ UNCHANGED stack
        BY <2>10, <3>0 DEF Label
      <3>3. l = "tables"
        OBVIOUS
      <3> HIDE DEF l
      <3>4. /\ LocalTypes' /\ OthersWait(c)
            /\ pc'[c] = l /\ req'[c] = req[c] /\ stack'[c] = stack[c] /\ todo'[c] = t
            /\ fid'[c] = nextId
        <4>1. t \in Seq(Table) /\ nextId \in Nat
          BY <3>1
        <4> QED
          BY <3>2, <4>1, NewTodo
      <3>5. InCall(c)'
        BY <1>1, <2>1, <2>3, <3>3, <3>4 DEF InCall, Storing, Taking, HasFolder
      <3>6. StackOK(c)' /\ DeletionOK(c)'
        BY <3>3, <3>4 DEF StackOK, DeletionOK, Storing
      <3>7. TablesOK(c)'
        <4>1. \A r \in folders' : r.id = fid'[c] => r.kind = req'[c].kind
          BY <2>5, <3>1, <3>4
        <4>2. \A i \in DOMAIN Statements[req[c].kind] :
                \E j \in 1 .. Len(t) : t[j] = Statements[req[c].kind][i]
          BY <3>0, <3>1
        <4>3. todo'[c] # <<>> /\ req'[c].kind \in DOMAIN Statements'
          BY <3>1, <3>4, SameSets
        <4>4. /\ DOMAIN Statements'[req'[c].kind] = DOMAIN Statements[req[c].kind]
              /\ Statements'[req'[c].kind] = Statements[req[c].kind] /\ todo'[c] = t
          BY <3>4, SameSets
        <4> QED
          BY <4>1, <4>2, <4>3, <4>4 DEF TablesOK
      <3>8. FolderHasTables'
        BY <2>7, <3>3, <3>4
      <3>9. ClientOK(c)'
        BY <3>5, <3>6, <3>7 DEF ClientOK
      <3> QED
        BY <2>2, <2>3, <2>4, <3>4, <3>8, <3>9, GrowingStep
    <2> HIDE DEF k
    <2> QED
      BY <2>6, <2>8, <2>9, <2>10
  <1> HIDE DEF refused
  <1> QED
    BY <1>2, <1>3
-----------------------------------------------------------------------------
(* The tables of a folder, folders that are deleted, and crashes. *)
LEMMA CreateTableKeeps ==
  ASSUME TreeInv, NEW c \in Client, CreateTable(c)
  PROVE  TreeInv'
  <1>1. /\ pc[c] = "tables" /\ UNCHANGED <<made, folders, nextId, faults>>
        /\ tables' = tables \cup {<<fid[c], Head(todo[c])>>}
    BY DEF CreateTable
  <1>2. /\ todo[c] \in Seq(Table) /\ todo[c] # <<>> /\ fid[c] \in Nat /\ InCall(c)
        /\ nextId \in Nat \ {0} /\ made' \in 0 .. Len(DatabaseStatements) /\ TablesOK(c)
    BY <1>1, OfClient DEF TablesOK
  <1>3. fid[c] \in 1 .. nextId - 1
    <2>1. fid[c] < nextId /\ fid[c] > 0
      BY <1>1, <1>2 DEF InCall, HasFolder
    <2> QED
      BY <1>2, <2>1
  <1>4. /\ Tail(todo[c]) \in Seq(Table) /\ Len(Tail(todo[c])) = Len(todo[c]) - 1
        /\ Len(todo[c]) \in Nat /\ Head(todo[c]) = todo[c][1] /\ todo[c][1] \in Table
        /\ \A i \in 1 .. Len(todo[c]) - 1 : Tail(todo[c])[i] = todo[c][i + 1]
        /\ Tail(todo[c]) = <<>> <=> Len(todo[c]) = 1
    BY <1>2, EmptyByLength
  <1>5. /\ folders' \in SUBSET Row /\ IsFiniteSet(folders') /\ faults' \in Nat
        /\ tables' \in SUBSET ((1 .. nextId' - 1) \X Table) /\ RowsOK'
        /\ nextId' \in Nat \ {0} /\ Grows
    <2>1. /\ folders' \in SUBSET Row /\ IsFiniteSet(folders') /\ faults' \in Nat
          /\ tables \in SUBSET ((1 .. nextId - 1) \X Table)
      BY <1>1 DEF TreeInv, TreeTypeOK
    <2>2. <<fid[c], Head(todo[c])>> \in (1 .. nextId - 1) \X Table
      BY <1>3, <1>4
    <2>3. RowsOK'
      BY <1>1 DEF TreeInv, RowsOK, RowOK
    <2>4. Grows
      BY <1>1, <1>2 DEF Grows
    <2> QED
      BY <1>1, <1>2, <2>1, <2>2, <2>3, <2>4
  <1> DEFINE statements == Statements[req[c].kind]
  <1>6. /\ req[c].kind \in DOMAIN Statements
        /\ \A r \in folders : r.id = fid[c] => r.kind = req[c].kind
        /\ \A i \in DOMAIN statements :
             \/ <<fid[c], statements[i]>> \in tables
             \/ \E j \in 1 .. Len(todo[c]) : todo[c][j] = statements[i]
    BY <1>1, <1>2 DEF TablesOK
  <1>7. \A i \in DOMAIN statements :
          \/ <<fid[c], statements[i]>> \in tables'
          \/ \E j \in 1 .. Len(todo[c]) - 1 : Tail(todo[c])[j] = statements[i]
    <2> SUFFICES ASSUME NEW i \in DOMAIN statements, <<fid[c], statements[i]>> \notin tables'
                 PROVE  \E j \in 1 .. Len(todo[c]) - 1 : Tail(todo[c])[j] = statements[i]
      OBVIOUS
    <2> HIDE DEF statements
    <2>1. PICK j \in 1 .. Len(todo[c]) : todo[c][j] = statements[i]
      BY <1>1, <1>6
    <2>2. j # 1
      BY <1>1, <1>4, <2>1
    <2>3. j - 1 \in 1 .. Len(todo[c]) - 1 /\ (j - 1) + 1 = j
      BY <1>4, <2>1, <2>2
    <2> QED
      BY <1>4, <2>1, <2>3
  <1>8. CASE Len(todo[c]) = 1
    <2>1. EndCall(c, "ready")
      BY <1>8 DEF CreateTable
    <2>2. LocalTypes' /\ OthersWait(c) /\ ClientOK(c)'
      BY <1>5, <2>1, Ended
    <2>3. ASSUME NEW r \in folders, r.id = fid[c]
          PROVE  Complete(r.id, r.kind)'
      <3>1. r.kind = req[c].kind
        BY <1>6, <2>3
      <3>2. \A i \in DOMAIN statements : <<fid[c], statements[i]>> \in tables'
        <4>1. \A j \in 1 .. Len(todo[c]) - 1 : FALSE
          BY <1>8
        <4> HIDE DEF statements
        <4> QED
          BY <1>7, <4>1
      <3> QED
        BY <2>3, <3>1, <3>2, SameSets DEF Complete
    <2>4. FolderHasTables'
      BY <1>1, <1>5, <2>2, <2>3, NoneLeftBehind
    <2> QED
      BY <1>2, <1>5, <2>2, <2>4, GrowingStep
  <1>9. CASE Len(todo[c]) # 1
    <2> DEFINE l == "tables"
    <2>0. PICK t : t = Tail(todo[c])
      OBVIOUS
    <2>1. /\ l \in Label /\ pc' = [pc EXCEPT ![c] = l] /\ todo' = [todo EXCEPT ![c] = t]
          /\ fid' = [fid EXCEPT ![c] = fid[c]] /\ UNCHANGED req /\ UNCHANGED stack
      <3>1. pc' = pc /\ fid' = fid
        BY <1>9 DEF CreateTable
      <3>2. /\ pc' = [pc EXCEPT ![c] = l] /\ fid' = [fid EXCEPT ![c] = fid[c]]
        BY <1>1, <3>1, OfClient
      <3> QED
        BY <1>9, <2>0, <3>2 DEF CreateTable, Label
    <2>2. l = "tables"
      OBVIOUS
    <2> HIDE DEF l
    <2>3. t \in Seq(Table) /\ fid[c] \in Nat
      BY <1>2, <1>4, <2>0
    <2>4. /\ LocalTypes' /\ OthersWait(c)
          /\ pc'[c] = l /\ req'[c] = req[c] /\ stack'[c] = stack[c] /\ todo'[c] = t
          /\ fid'[c] = fid[c]
      BY <2>1, <2>3, NewTodo
    <2>5. InCall(c)'
      BY <1>1, <1>2, <2>2, <2>4 DEF InCall, Storing, Taking, HasFolder
    <2>6. StackOK(c)' /\ DeletionOK(c)'
      BY <2>2, <2>4 DEF StackOK, DeletionOK, Storing
    <2>7. TablesOK(c)'
      <3>1. t # <<>> /\ Len(t) = Len(todo[c]) - 1
        BY <1>4, <1>9, <2>0
      <3>2. \A r \in folders' : r.id = fid'[c] => r.kind = req'[c].kind
        BY <1>1, <1>6, <2>4
      <3>3. \A i \in DOMAIN statements :
              \/ <<fid'[c], statements[i]>> \in tables'
              \/ \E j \in 1 .. Len(t) : t[j] = statements[i]
        <4> HIDE DEF statements
        <4> QED
          BY <1>7, <2>0, <2>4, <3>1
      <3>4. /\ Statements'[req'[c].kind] = statements /\ todo'[c] = t
            /\ req'[c].kind \in DOMAIN Statements'
        BY <1>6, <2>4, SameSets
      <3> HIDE DEF statements
      <3> QED
        BY <3>1, <3>2, <3>3, <3>4 DEF TablesOK
    <2>8. ClientOK(c)'
      BY <2>5, <2>6, <2>7 DEF ClientOK
    <2>9. FolderHasTables'
      <3>1. pc'[c] = "tables" /\ fid'[c] = fid[c]
        BY <2>2, <2>4
      <3> QED
        BY <1>1, <1>5, <2>4, <3>1, NoneLeftBehind
    <2> QED
      BY <1>2, <1>5, <2>4, <2>8, <2>9, GrowingStep
  <1> QED
    BY <1>8, <1>9

LEMMA LookupFolderKeeps ==
  ASSUME TreeInv, NEW c \in Client, LookupFolder(c)
  PROVE  TreeInv'
  <1>1. pc[c] = "lookup" /\ pc[c] # "tables"
    BY DEF LookupFolder
  <1>2. ASSUME NEW r \in Find(req[c].path), fid' = [fid EXCEPT ![c] = r.id],
               pc' = [pc EXCEPT ![c] = "look"],
               UNCHANGED <<made, folders, tables, nextId, req, stack, todo, calls, faults>>
        PROVE  TreeInv'
    <2> DEFINE l == "look"
    <2>0. PICK f : f = r.id
      OBVIOUS
    <2>1. f \in 1 .. nextId - 1 /\ nextId \in Nat /\ f \in Nat
      <3>1. r \in folders
        BY DEF Find
      <3> QED
        BY <2>0, <3>1, OfClient DEF TreeInv, RowsOK, RowOK
    <2>2. /\ l \in Label /\ pc' = [pc EXCEPT ![c] = l] /\ fid' = [fid EXCEPT ![c] = f]
          /\ UNCHANGED req /\ UNCHANGED stack
      BY <1>2, <2>0 DEF Label, Taking
    <2>3. l = "look"
      OBVIOUS
    <2>4. todo' = [todo EXCEPT ![c] = todo[c]] /\ todo[c] \in Seq(Table) /\ InCall(c)
          /\ made' \in 0 .. Len(DatabaseStatements)
      BY <1>2, OfClient
    <2> HIDE DEF l
    <2>5. todo[c] \in Seq(Table) /\ f \in Nat
      BY <2>1, <2>4
    <2>6. /\ LocalTypes' /\ OthersWait(c)
          /\ pc'[c] = l /\ req'[c] = req[c] /\ stack'[c] = stack[c] /\ todo'[c] = todo[c]
          /\ fid'[c] = f
      <3>1. todo' = [todo EXCEPT ![c] = todo[c]]
        BY <2>4
      <3> QED
        BY <2>2, <2>5, <3>1, NewTodo
    <2>7. InCall(c)'
      BY <1>1, <1>2, <2>1, <2>3, <2>4, <2>6 DEF InCall, Storing, Taking, HasFolder
    <2>8. ClientOK(c)'
      BY <2>3, <2>6, <2>7 DEF ClientOK, StackOK, TablesOK, DeletionOK, Storing
    <2> QED
      BY <1>1, <1>2, <2>4, <2>6, <2>8, LocalStep
  <1>3. ASSUME Throw(c)
        PROVE  TreeInv'
    BY <1>1, <1>3, Throws
  <1> QED
    BY <1>2, <1>3 DEF LookupFolder, Goto

LEMMA LookForChildrenKeeps ==
  ASSUME TreeInv, NEW c \in Client, LookForChildren(c)
  PROVE  TreeInv'
  <1>1. /\ pc[c] = "look" /\ pc[c] # "tables"
        /\ UNCHANGED <<made, folders, tables, nextId, faults>>
    BY DEF LookForChildren
  <1>2. CASE Children(fid[c]) = {}
    <2> DEFINE l == "delete"
    <2>0. PICK s : s = <<[path |-> req[c].path, mark |-> nextId, parent |-> 0]>>
      OBVIOUS
    <2>1. /\ nextId \in Nat \ {0} /\ InCall(c) /\ made' \in 0 .. Len(DatabaseStatements)
          /\ req[c] \in Request[c]
      BY <1>1, OfClient DEF InCall, Taking
    <2>2. s \in Seq(Entry) /\ Len(s) = 1 /\ s[1].mark = nextId
      <3>1. req[c].path \in Seq(Token)
        BY <2>1, RequestedPaths
      <3>2. [path |-> req[c].path, mark |-> nextId, parent |-> 0] \in Entry
        BY <2>1, <3>1 DEF Entry
      <3> QED
        BY <2>0, <3>2
    <2>3. /\ l \in Label /\ pc' = [pc EXCEPT ![c] = l] /\ stack' = [stack EXCEPT ![c] = s]
          /\ UNCHANGED req /\ UNCHANGED todo /\ UNCHANGED fid
      BY <1>2, <2>0 DEF LookForChildren, Goto, Label, Taking
    <2>4. l = "delete"
      OBVIOUS
    <2> HIDE DEF l
    <2>5. s \in Seq(Entry)
      BY <2>2
    <2>6. /\ LocalTypes' /\ OthersWait(c)
          /\ pc'[c] = l /\ req'[c] = req[c] /\ stack'[c] = s /\ todo'[c] = todo[c]
          /\ fid'[c] = fid[c]
      BY <2>3, <2>5, NewStack
    <2>7. InCall(c)'
      BY <1>1, <2>1, <2>4, <2>6 DEF InCall, Storing, Taking, HasFolder
    <2>8. DeletionOK(c)'
      <3>1. Children(fid[c])' = {}
        BY <1>1, <1>2, <2>6 DEF Children
      <3>2. stack'[c][1].mark <= nextId' /\ Len(stack'[c]) = 1
        BY <1>1, <2>1, <2>2, <2>6
      <3> QED
        BY <2>4, <2>6, <3>1, <3>2 DEF DeletionOK
    <2>9. ClientOK(c)'
      BY <2>4, <2>6, <2>7, <2>8 DEF ClientOK, StackOK, TablesOK, Storing
    <2> QED
      BY <1>1, <2>1, <2>6, <2>9, LocalStep
  <1>3. CASE Children(fid[c]) # {}
    <2>1. EndCall(c, "ready")
      BY <1>3 DEF LookForChildren
    <2> QED
      BY <1>1, <2>1, EndsCall
  <1> QED
    BY <1>2, <1>3

LEMMA DeleteRowKeeps ==
  ASSUME TreeInv, NEW c \in Client, DeleteRow(c)
  PROVE  TreeInv'
  <1>1. /\ pc[c] = "delete" /\ pc[c] # "tables" /\ EndCall(c, "ready")
        /\ UNCHANGED <<made, tables, nextId, faults>> /\ folders' \subseteq folders
    BY DEF DeleteRow
  <1>2. /\ nextId \in Nat \ {0} /\ made' \in 0 .. Len(DatabaseStatements)
        /\ folders \in SUBSET Row /\ IsFiniteSet(folders) /\ faults' \in Nat
        /\ tables' \in SUBSET ((1 .. nextId' - 1) \X Table) /\ RowsOK
    BY <1>1 DEF TreeInv, TreeTypeOK
  <1>3. /\ nextId' \in Nat \ {0} /\ folders' \in SUBSET Row /\ IsFiniteSet(folders') /\ Grows
    BY <1>1, <1>2, FS_Subset DEF Grows
  <1>4. RowsOK'
    BY <1>1, <1>2 DEF RowsOK, RowOK
  <1>5. LocalTypes' /\ OthersWait(c) /\ ClientOK(c)'
    BY <1>1, <1>3, Ended
  <1>6. FolderHasTables'
    <2>1. \A r \in folders' \ folders : FALSE
      BY <1>1
    <2> QED
      BY <1>1, <1>3, <1>5, <2>1, NoneLeftBehind
  <1> QED
    BY <1>2, <1>3, <1>4, <1>5, <1>6, GrowingStep

LEMMA CrashKeeps ==
  ASSUME TreeInv, NEW c \in Client, Crash(c)
  PROVE  TreeInv'
  <1>1. /\ EndCall(c, "closed") /\ UNCHANGED <<made, folders, tables, nextId>>
        /\ faults' = faults + 1
    BY DEF Crash
  <1>2. /\ nextId' \in Nat \ {0} /\ made' \in 0 .. Len(DatabaseStatements)
        /\ folders' \in SUBSET Row /\ IsFiniteSet(folders) /\ faults \in Nat /\ faults' \in Nat
        /\ tables' \in SUBSET ((1 .. nextId' - 1) \X Table) /\ RowsOK /\ FolderHasTables
        /\ IsFiniteSet(folders')
    BY <1>1 DEF TreeInv, TreeTypeOK
  <1>3. RowsOK' /\ Grows
    BY <1>1, <1>2 DEF RowsOK, RowOK, Grows
  <1>4. LocalTypes' /\ OthersWait(c) /\ ClientOK(c)'
    BY <1>1, <1>2, Ended
  <1>5. FolderHasTables'
    <2>1. IsFiniteSet(Unfinished) /\ Cardinality(Unfinished) <= faults
      BY <1>2, FS_Subset DEF Unfinished, FolderHasTables
    <2>2. ASSUME NEW r \in Unfinished', r \notin Unfinished
          PROVE  r.id = fid[c] /\ r \in folders
      <3>1. /\ r \in folders /\ r.kind # "set" /\ ~Complete(r.id, r.kind)
            /\ ~\E d \in Client : pc'[d] = "tables" /\ fid'[d] = r.id
        BY <1>1, <2>2, SameSets DEF Unfinished, Complete
      <3>2. PICK d \in Client : pc[d] = "tables" /\ fid[d] = r.id
        BY <2>2, <3>1 DEF Unfinished
      <3>3. d = c
        BY <1>4, <3>1, <3>2 DEF OthersWait
      <3> QED
        BY <3>1, <3>2, <3>3
    <2>3. PICK x : Unfinished' \subseteq Unfinished \cup {x}
      <3>1. CASE Unfinished' \subseteq Unfinished
        BY <3>1
      <3>2. CASE ~(Unfinished' \subseteq Unfinished)
        <4>1. PICK x \in Unfinished' : x \notin Unfinished
          BY <3>2
        <4>2. \A r \in Unfinished' : r \in Unfinished \/ r = x
          BY <1>2, <2>2, <4>1 DEF RowsOK
        <4> QED
          BY <4>2
      <3> QED
        BY <3>1, <3>2
    <2>4. /\ IsFiniteSet(Unfinished \cup {x})
          /\ Cardinality(Unfinished \cup {x}) = Cardinality(Unfinished) \/
             Cardinality(Unfinished \cup {x}) = Cardinality(Unfinished) + 1
      BY <2>1, FS_AddElement
    <2>5. /\ IsFiniteSet(Unfinished')
          /\ Cardinality(Unfinished') <= Cardinality(Unfinished \cup {x})
      BY <2>3, <2>4, FS_Subset
    <2>6. /\ Cardinality(Unfinished') \in Nat /\ Cardinality(Unfinished) \in Nat
          /\ Cardinality(Unfinished \cup {x}) \in Nat
      BY <2>1, <2>4, <2>5, FS_CardinalityType
    <2>7. Cardinality(Unfinished') <= faults'
      BY <1>1, <1>2, <2>1, <2>4, <2>5, <2>6
    <2> QED
      BY <2>7 DEF FolderHasTables
  <1> QED
    BY <1>2, <1>3, <1>4, <1>5, GrowingStep

(* Every step on the folders keeps the invariant. *)
LEMMA TreeStepKeeps ==
  ASSUME TreeInv, NEW c \in Client, TreeStep(c)
  PROVE  TreeInv'
  <1>1. OpenDatabase(c) \/ CreateDatabase(c) => TreeInv'
    BY OpenDatabaseKeeps, CreateDatabaseKeeps
  <1>2. (\E q \in Request[c] : CallFolderMgr(c, q)) => TreeInv'
    BY CallFolderMgrKeeps
  <1>3. Exist(c) \/ FindParent(c) \/ ExistRoot(c) \/ StoreRow(c) \/ FindParentAgain(c) => TreeInv'
    BY ExistKeeps, FindParentKeeps, ExistRootKeeps, StoreRowKeeps, FindParentAgainKeeps
  <1>4. CreateTable(c) \/ LookupFolder(c) \/ LookForChildren(c) \/ DeleteRow(c) => TreeInv'
    BY CreateTableKeeps, LookupFolderKeeps, LookForChildrenKeeps, DeleteRowKeeps
  <1>5. Crash(c) => TreeInv'
    BY CrashKeeps
  <1> QED
    BY <1>1, <1>2, <1>3, <1>4, <1>5 DEF TreeStep

LEMMA TreeInitOK == TreeInit => TreeInv
  <1> SUFFICES ASSUME TreeInit
               PROVE  TreeInv
    OBVIOUS
  <1>1. /\ made = 0 /\ folders = {} /\ tables = {} /\ nextId = 1 /\ faults = 0
        /\ pc = [c \in Client |-> "closed"] /\ req = [c \in Client |-> NoRequest]
        /\ stack = [c \in Client |-> <<>>] /\ todo = [c \in Client |-> <<>>]
        /\ fid = [c \in Client |-> 0]
    BY DEF TreeInit
  <1>2. TreeTypeOK
    <2>1. <<>> \in Seq(Entry) /\ <<>> \in Seq(Table) /\ "closed" \in Label
      BY DEF Label
    <2>2. /\ pc \in [Client -> Label] /\ fid \in [Client -> Nat]
          /\ stack \in [Client -> Seq(Entry)] /\ todo \in [Client -> Seq(Table)]
          /\ req = [c \in Client |-> req[c]]
      BY <1>1, <2>1
    <2>3. /\ made \in 0 .. Len(DatabaseStatements) /\ nextId \in Nat \ {0} /\ faults \in Nat
          /\ folders \in SUBSET Row /\ IsFiniteSet(folders)
          /\ tables \in SUBSET ((1 .. nextId - 1) \X Table)
      BY <1>1, StatementsOfKinds, FS_EmptySet
    <2> QED
      BY <2>2, <2>3 DEF TreeTypeOK
  <1>3. RowsOK
    BY <1>1 DEF RowsOK
  <1>4. FolderHasTables
    <2>1. Unfinished = {}
      BY <1>1 DEF Unfinished
    <2>2. Cardinality(Unfinished) = 0
      BY <2>1, FS_EmptySet
    <2> QED
      BY <1>1, <2>2 DEF FolderHasTables
  <1>5. ASSUME NEW c \in Client
        PROVE  ClientOK(c)
    BY <1>1 DEF ClientOK, InCall, StackOK, TablesOK, DeletionOK, Storing, Taking, HasFolder
  <1> QED
    BY <1>2, <1>3, <1>4, <1>5 DEF TreeInv
-----------------------------------------------------------------------------
(* Tags.  The calls of CondDBTagMgr change no row of folders_tbl. *)
LEMMA NewVisit ==
  ASSUME TreeInv, NEW c \in Client, NEW l \in Label, NEW q, NEW f \in Nat,
         pc' = [pc EXCEPT ![c] = l], req' = [req EXCEPT ![c] = q],
         fid' = [fid EXCEPT ![c] = f], UNCHANGED stack, UNCHANGED todo
  PROVE  /\ LocalTypes' /\ OthersWait(c)
         /\ pc'[c] = l /\ req'[c] = q /\ stack'[c] = stack[c] /\ todo'[c] = todo[c]
         /\ fid'[c] = f
  <1>1. /\ pc \in [Client -> Label] /\ fid \in [Client -> Nat]
        /\ stack \in [Client -> Seq(Entry)] /\ todo \in [Client -> Seq(Table)]
        /\ req = [d \in Client |-> req[d]]
    BY DEF TreeInv, TreeTypeOK
  <1>2. /\ pc' \in [Client -> Label] /\ fid' \in [Client -> Nat]
        /\ stack' \in [Client -> Seq(Entry)] /\ todo' \in [Client -> Seq(Table)]
        /\ pc'[c] = l /\ fid'[c] = f
        /\ \A d \in Client \ {c} : pc'[d] = pc[d] /\ fid'[d] = fid[d]
    BY <1>1
  <1>3. /\ req' = [d \in Client |-> req'[d]] /\ req'[c] = q
        /\ \A d \in Client \ {c} : req'[d] = req[d]
    BY <1>1
  <1> QED
    BY <1>2, <1>3, SameSets DEF LocalTypes, OthersWait

(* A client that goes on with its call of CondDBTagMgr. *)
LEMMA TagStepKeepsTree ==
  ASSUME TreeInv, NEW c \in Client, pc[c] \in Tagging \cup {"ready"},
         NEW l \in Tagging, NEW q, NEW f \in Nat, f < nextId, l \in HasFolder => f > 0,
         pc' = [pc EXCEPT ![c] = l], req' = [req EXCEPT ![c] = q],
         fid' = [fid EXCEPT ![c] = f],
         UNCHANGED <<made, folders, tables, nextId, faults>>,
         UNCHANGED stack, UNCHANGED todo
  PROVE  TreeInv'
  <1>1. l \in Label
    BY DEF Label
  <1>2. /\ LocalTypes' /\ OthersWait(c)
        /\ pc'[c] = l /\ req'[c] = q /\ stack'[c] = stack[c] /\ todo'[c] = todo[c]
        /\ fid'[c] = f
    BY <1>1, NewVisit
  <1>3. InCall(c)'
    BY <1>2 DEF InCall, Storing, Taking, Tagging, HasFolder
  <1>4. ClientOK(c)'
    BY <1>2, <1>3 DEF ClientOK, StackOK, TablesOK, DeletionOK, Storing, Tagging
  <1>5. pc[c] # "tables" /\ made' \in 0 .. Len(DatabaseStatements)
    BY OfClient DEF Tagging
  <1> QED
    BY <1>2, <1>4, <1>5, LocalStep

LEMMA TagClient ==
  ASSUME TagInv, NEW c \in Client
  PROVE  /\ tid[c] \in -1 .. nextTag - 1 /\ nextTag \in Nat \ {0, 1}
         /\ tid = [tid EXCEPT ![c] = tid[c]] /\ frames = [frames EXCEPT ![c] = frames[c]]
         /\ frames[c] # <<>> => pc[c] \in Visiting
  BY DEF TagInv, TagRowsOK, TagClientsOK

LEMMA TagClientsKept ==
  ASSUME TreeInv, TagInv, NEW c \in Client, NEW l, NEW i \in -1 .. nextTag - 1, NEW fr,
         fr # <<>> => l \in Visiting,
         pc' = [pc EXCEPT ![c] = l], tid' = [tid EXCEPT ![c] = i],
         frames' = [frames EXCEPT ![c] = fr], nextTag' \in {nextTag, nextTag + 1}
  PROVE  TagClientsOK'
  <1>1. /\ pc \in [Client -> Label] /\ tid \in [Client -> -1 .. nextTag - 1]
        /\ frames = [d \in Client |-> frames[d]] /\ nextTag \in Nat
        /\ \A d \in Client : frames[d] # <<>> => pc[d] \in Visiting
    BY DEF TreeInv, TreeTypeOK, TagInv, TagRowsOK, TagClientsOK
  <1>2. tid' \in [Client -> -1 .. nextTag' - 1]
    <2>1. -1 .. nextTag - 1 \subseteq -1 .. nextTag' - 1
      BY <1>1
    <2>2. tid' \in [Client -> -1 .. nextTag - 1]
      BY <1>1
    <2> QED
      BY <2>1, <2>2
  <1>3. frames' = [d \in Client |-> frames'[d]] /\ frames'[c] = fr /\ pc'[c] = l
    BY <1>1
  <1>4. \A d \in Client \ {c} : frames'[d] = frames[d] /\ pc'[d] = pc[d]
    BY <1>1
  <1>5. \A d \in Client : frames'[d] # <<>> => pc'[d] \in Visiting
    BY <1>1, <1>3, <1>4
  <1> QED
    BY <1>2, <1>3, <1>5 DEF TagClientsOK, Visiting

(* The end of a call. *)
LEMMA TagCallLeft ==
  ASSUME TagTreeInv, NEW c \in Client, EndCall(c, "ready"),
         tid' = [tid EXCEPT ![c] = 0], frames' = [frames EXCEPT ![c] = <<>>],
         UNCHANGED <<made, folders, tables, nextId, faults>>, nextTag' = nextTag,
         pc[c] # "tables"
  PROVE  TreeInv' /\ TagClientsOK'
  <1>1. pc' = [pc EXCEPT ![c] = "ready"]
    BY DEF EndCall, Goto
  <1>2. TreeInv'
    BY <1>1, EndsCall DEF TagTreeInv
  <1>3. TagClientsOK'
    <2>1. PICK l, fr : l = "ready" /\ fr = <<>>
      OBVIOUS
    <2>2. 0 \in -1 .. nextTag - 1
      BY DEF TagTreeInv, TagInv, TagRowsOK
    <2>3. /\ pc' = [pc EXCEPT ![c] = l] /\ tid' = [tid EXCEPT ![c] = 0]
          /\ frames' = [frames EXCEPT ![c] = fr] /\ nextTag' \in {nextTag, nextTag + 1}
          /\ fr # <<>> => l \in Visiting
      BY <1>1, <2>1
    <2> QED
      BY <2>2, <2>3, TagClientsKept DEF TagTreeInv
  <1> QED
    BY <1>2, <1>3

LEMMA TagCallEnds ==
  ASSUME TagTreeInv, NEW c \in Client, EndTagCall(c, "ready"),
         UNCHANGED <<made, folders, tables, nextId, faults>>, nextTag' = nextTag,
         pc[c] # "tables"
  PROVE  TreeInv' /\ TagClientsOK'
  <1>1. /\ EndCall(c, "ready") /\ tid' = [tid EXCEPT ![c] = 0]
        /\ frames' = [frames EXCEPT ![c] = <<>>]
    BY DEF EndTagCall
  <1> QED
    BY <1>1, TagCallLeft

(* The same where nothing is left of a visit. *)
LEMMA CallEnds ==
  ASSUME TagTreeInv, NEW c \in Client, EndCall(c, "ready"),
         pc[c] \in {"storeTag", "renameTag", "deleteTag"},
         UNCHANGED <<made, folders, tables, nextId, faults>>,
         nextTag' \in {nextTag, nextTag + 1}, UNCHANGED tid, UNCHANGED frames
  PROVE  TreeInv' /\ TagClientsOK'
  <1>1. TreeInv'
    BY EndsCall DEF TagTreeInv
  <1>2. /\ pc \in [Client -> Label] /\ tid \in [Client -> -1 .. nextTag - 1]
        /\ frames = [d \in Client |-> frames[d]] /\ nextTag \in Nat /\ frames[c] = <<>>
        /\ \A d \in Client : frames[d] # <<>> => pc[d] \in Visiting
    BY DEF TagTreeInv, TreeInv, TreeTypeOK, TagInv, TagRowsOK, TagClientsOK, Visiting
  <1>3. tid' \in [Client -> -1 .. nextTag' - 1]
    <2>1. -1 .. nextTag - 1 \subseteq -1 .. nextTag' - 1
      BY <1>2
    <2> QED
      BY <1>2, <2>1
  <1>4. \A d \in Client \ {c} : pc'[d] = pc[d]
    BY <1>2 DEF EndCall, Goto
  <1>5. \A d \in Client : frames'[d] # <<>> => pc'[d] \in Visiting
    BY <1>2, <1>4
  <1>6. frames' = [d \in Client |-> frames'[d]]
    BY <1>2
  <1>7. TagClientsOK'
    BY <1>3, <1>5, <1>6 DEF TagClientsOK, Visiting
  <1> QED
    BY <1>1, <1>7

(* A client goes on with the next label of its call. *)
LEMMA TagStepKeeps ==
  ASSUME TagTreeInv, NEW c \in Client, pc[c] \in Tagging,
         NEW l \in Tagging, NEW f \in Nat, f < nextId, l \in HasFolder => f > 0,
         pc[c] \in Visiting => l \in Visiting,
         NEW i \in -1 .. nextTag - 1, tid' = [tid EXCEPT ![c] = i],
         pc' = [pc EXCEPT ![c] = l], fid' = [fid EXCEPT ![c] = f],
         UNCHANGED <<made, folders, tables, nextId, faults>>, nextTag' = nextTag,
         UNCHANGED <<req, stack, todo, frames>>
  PROVE  TreeInv' /\ TagClientsOK'
  <1>1. TreeInv'
    <2>1. PICK q : q = req[c]
      OBVIOUS
    <2>2. /\ req' = [req EXCEPT ![c] = q] /\ UNCHANGED stack /\ UNCHANGED todo
          /\ TreeInv /\ pc[c] \in Tagging \cup {"ready"}
      BY <2>1, OfClient DEF TagTreeInv
    <2> QED
      BY <2>2, TagStepKeepsTree
  <1>2. TagClientsOK'
    <2>1. /\ pc \in [Client -> Label] /\ tid \in [Client -> -1 .. nextTag - 1]
          /\ frames = [d \in Client |-> frames[d]]
          /\ \A d \in Client : frames[d] # <<>> => pc[d] \in Visiting
      BY DEF TagTreeInv, TreeInv, TreeTypeOK, TagInv, TagClientsOK
    <2>2. tid' \in [Client -> -1 .. nextTag' - 1]
      BY <2>1
    <2>3. pc'[c] = l /\ \A d \in Client \ {c} : pc'[d] = pc[d]
      BY <2>1
    <2>4. \A d \in Client : frames'[d] # <<>> => pc'[d] \in Visiting
      BY <2>1, <2>3
    <2>5. frames' = [d \in Client |-> frames'[d]]
      BY <2>1
    <2> QED
      BY <2>2, <2>4, <2>5 DEF TagClientsOK, Visiting
  <1> QED
    BY <1>1, <1>2

(* The end of a visit. *)
LEMMA GoOnKeeps ==
  ASSUME TagTreeInv, NEW c \in Client, pc[c] \in Visiting, NEW rest, GoOn(c, rest),
         UNCHANGED <<made, folders, tables, nextId, faults>>, nextTag' = nextTag
  PROVE  TreeInv' /\ TagClientsOK'
  <1>1. pc[c] \in Tagging /\ pc[c] # "tables" /\ TreeInv /\ TagInv
    BY DEF Visiting, Tagging, TagTreeInv
  <1>2. CASE EndTagCall(c, "ready")
    BY <1>1, <1>2, TagCallEnds
  <1>3. CASE ~EndTagCall(c, "ready")
    <2>1. PICK l : l = "tag"
      OBVIOUS
    <2>2. l \in Tagging /\ l \in Visiting /\ l \notin HasFolder
      BY <2>1 DEF Tagging, Visiting, HasFolder
    <2>3. PICK q, fr : /\ req' = [req EXCEPT ![c] = q] /\ frames' = [frames EXCEPT ![c] = fr]
                       /\ pc' = [pc EXCEPT ![c] = l]
                       /\ UNCHANGED <<stack, todo, fid, tid>>
      <3>1. PICK fr, p : /\ frames' = [frames EXCEPT ![c] = fr]
                         /\ req' = [req EXCEPT ![c].path = p]
                         /\ pc' = [pc EXCEPT ![c] = "tag"]
                         /\ UNCHANGED <<stack, todo, fid, tid>>
        BY <1>3 DEF GoOn, Goto
      <3>2. req' = [req EXCEPT ![c] = [req[c] EXCEPT !.path = p]]
        BY <3>1
      <3> QED
        BY <2>1, <3>1, <3>2
    <2>4. TreeInv'
      <3>1. PICK f : f = fid[c]
        OBVIOUS
      <3>2. /\ f \in Nat /\ f < nextId /\ fid' = [fid EXCEPT ![c] = f]
            /\ UNCHANGED stack /\ UNCHANGED todo /\ pc[c] \in Tagging \cup {"ready"}
        BY <1>1, <2>3, <3>1, OfClient DEF InCall
      <3>3. req' = [req EXCEPT ![c] = q] /\ pc' = [pc EXCEPT ![c] = l]
        BY <2>3
      <3> QED
        BY <1>1, <2>2, <3>2, <3>3, TagStepKeepsTree
    <2>5. TagClientsOK'
      <3>1. PICK i : i = tid[c]
        OBVIOUS
      <3>2. /\ i \in -1 .. nextTag - 1 /\ tid' = [tid EXCEPT ![c] = i]
            /\ nextTag' \in {nextTag, nextTag + 1}
        BY <1>1, <2>3, <3>1, TagClient
      <3>3. frames' = [frames EXCEPT ![c] = fr] /\ pc' = [pc EXCEPT ![c] = l]
        BY <2>3
      <3> QED
        BY <1>1, <2>2, <3>2, <3>3, TagClientsKept
    <2> QED
      BY <2>4, <2>5
  <1> QED
    BY <1>2, <1>3

LEMMA SwallowedKeeps ==
  ASSUME TagTreeInv, NEW c \in Client, pc[c] \in {"tag", "tagFolder", "untagFolder"},
         Swallowed(c), UNCHANGED <<made, folders, tables, nextId, faults>>, nextTag' = nextTag
  PROVE  TreeInv' /\ TagClientsOK'
  <1>1. CASE frames[c] = <<>>
    BY <1>1, TagCallEnds DEF Swallowed
  <1>2. CASE frames[c] # <<>>
    <2>1. pc[c] \in Visiting
      BY <1>2, TagClient DEF TagTreeInv
    <2>2. GoOn(c, Front(frames[c]))
      BY <1>2 DEF Swallowed
    <2> QED
      BY <2>1, <2>2, GoOnKeeps
  <1> QED
    BY <1>1, <1>2

LEMMA TagRowsSame ==
  ASSUME TagTreeInv, UNCHANGED <<tags, nextTag, assoc, tagObj, filled, nextId>>
  PROVE  TagRowsOK'
  BY DEF TagTreeInv, TagInv, TagRowsOK

LEMMA CallTagMgrKeeps ==
  ASSUME TagTreeInv, NEW c \in Client, NEW q \in Request[c], CallTagMgr(c, q)
  PROVE  TagTreeInv'
  <1>1. /\ pc[c] = "ready" /\ UNCHANGED <<made, folders, tables, nextId, faults>>
        /\ q.op \notin FolderCalls /\ UNCHANGED stack /\ UNCHANGED todo /\ UNCHANGED fid
        /\ UNCHANGED <<tags, nextTag, assoc, tagObj, filled, tid, frames>>
    BY DEF CallTagMgr
  <1>2. TreeInv /\ TagInv /\ TagRowsOK'
    BY <1>1, TagRowsSame DEF TagTreeInv
  <1>3. CASE Executed("HEAD row")
    <2>1. PICK l : l = q.op
      OBVIOUS
    <2>2. l \in Tagging /\ l \notin HasFolder
      BY <1>1, <2>1, TagRequestAssumption DEF TagCalls, Tagging, HasFolder
    <2>3. req' = [req EXCEPT ![c] = q] /\ pc' = [pc EXCEPT ![c] = l]
      BY <1>3, <2>1 DEF CallTagMgr, Goto
    <2>4. TreeInv'
      <3>1. PICK f : f = fid[c]
        OBVIOUS
      <3>2. /\ f \in Nat /\ f < nextId /\ fid' = [fid EXCEPT ![c] = f]
            /\ pc[c] \in Tagging \cup {"ready"}
        BY <1>1, <1>2, <3>1, OfClient DEF InCall
      <3> QED
        BY <1>1, <1>2, <2>2, <2>3, <3>2, TagStepKeepsTree
    <2>5. TagClientsOK'
      <3>1. /\ pc \in [Client -> Label] /\ tid \in [Client -> -1 .. nextTag - 1]
            /\ frames = [d \in Client |-> frames[d]]
            /\ \A d \in Client : frames[d] # <<>> => pc[d] \in Visiting
        BY <1>2 DEF TreeInv, TreeTypeOK, TagInv, TagClientsOK
      <3>2. frames[c] = <<>>
        BY <1>1, <3>1 DEF Visiting
      <3>3. \A d \in Client \ {c} : pc'[d] = pc[d]
        BY <2>3, <3>1
      <3>4. \A d \in Client : frames'[d] # <<>> => pc'[d] \in Visiting
        BY <1>1, <3>1, <3>2, <3>3
      <3>5. tid' \in [Client -> -1 .. nextTag' - 1] /\ frames' = [d \in Client |-> frames'[d]]
        BY <1>1, <3>1
      <3> QED
        BY <3>4, <3>5 DEF TagClientsOK, Visiting
    <2> QED
      BY <1>2, <2>4, <2>5 DEF TagTreeInv, TagInv
  <1>4. CASE ~Executed("HEAD row")
    <2>1. UNCHANGED <<pc, req>>
      BY <1>4 DEF CallTagMgr
    <2>2. TreeInv'
      <3>1. LocalTypes /\ ClientOK(c) /\ made' \in 0 .. Len(DatabaseStatements)
        BY <1>1, <1>2 DEF TreeInv, TreeTypeOK, LocalTypes
      <3>2. LocalTypes' /\ OthersWait(c)
        BY <1>1, <2>1, <3>1, SameSets DEF LocalTypes, OthersWait
      <3>3. ClientOK(c)'
        BY <1>1, <2>1, <3>1
        DEF ClientOK, InCall, StackOK, TablesOK, DeletionOK, Storing, Taking, HasFolder
      <3> QED
        BY <1>1, <1>2, <3>1, <3>2, <3>3, LocalStep
    <2>3. TagClientsOK'
      BY <1>1, <1>2, <2>1 DEF TagInv, TagClientsOK, Visiting
    <2> QED
      BY <1>2, <2>2, <2>3 DEF TagTreeInv, TagInv
  <1> QED
    BY <1>3, <1>4

LEMMA TagExistsKeeps ==
  ASSUME TagTreeInv, NEW c \in Client, TagExists(c)
  PROVE  TagTreeInv'
  <1>1. /\ pc[c] \in {"createTag", "changeTagName"} /\ pc[c] # "tables" /\ pc[c] \in Tagging
        /\ UNCHANGED <<made, folders, tables, nextId, faults>> /\ nextTag' = nextTag
        /\ UNCHANGED <<tags, nextTag, assoc, tagObj, filled, nextId>> /\ pc[c] \notin Visiting
    BY DEF TagExists, tree, Tagging, Visiting
  <1>2. CASE TagNamed(req[c].newName) # {}
    <2>1. EndTagCall(c, "ready")
      BY <1>2 DEF TagExists
    <2>2. TreeInv' /\ TagClientsOK'
      BY <1>1, <2>1, TagCallEnds
    <2> QED
      BY <1>1, <2>2, TagRowsSame DEF TagTreeInv, TagInv
  <1>3. CASE TagNamed(req[c].newName) = {}
    <2>1. PICK l : l = IF pc[c] = "createTag" THEN "storeTag" ELSE "renameTag"
      OBVIOUS
    <2>2. l \in Tagging /\ l \notin HasFolder
      BY <2>1 DEF Tagging, HasFolder
    <2>3. PICK f, i : f = fid[c] /\ i = tid[c]
      OBVIOUS
    <2>4. /\ pc' = [pc EXCEPT ![c] = l] /\ UNCHANGED <<req, stack, todo, frames>>
          /\ fid' = [fid EXCEPT ![c] = f] /\ tid' = [tid EXCEPT ![c] = i]
          /\ f \in Nat /\ f < nextId /\ i \in -1 .. nextTag - 1
      <3>1. /\ pc' = [pc EXCEPT ![c] = l] /\ UNCHANGED <<req, stack, todo, frames>>
            /\ fid' = fid /\ tid' = tid
        BY <1>3, <2>1 DEF TagExists, Goto, locals, tagLocals
      <3> QED
        BY <2>3, <3>1, OfClient, TagClient DEF TagTreeInv, InCall
    <2>5. TreeInv' /\ TagClientsOK'
      BY <1>1, <2>2, <2>4, TagStepKeeps
    <2> QED
      BY <1>1, <2>5, TagRowsSame DEF TagTreeInv, TagInv
  <1> QED
    BY <1>2, <1>3

LEMMA StoreTagKeeps ==
  ASSUME TagTreeInv, NEW c \in Client, StoreTag(c)
  PROVE  TagTreeInv'
  <1>1. /\ pc[c] = "storeTag" /\ EndCall(c, "ready") /\ nextTag' = nextTag + 1
        /\ UNCHANGED <<made, folders, tables, nextId, faults>>
        /\ UNCHANGED <<assoc, tagObj, filled>> /\ UNCHANGED tid /\ UNCHANGED frames
        /\ tags' = tags \cup {[id |-> nextTag, name |-> req[c].newName]}
    BY DEF StoreTag, tree
  <1>2. TreeInv' /\ TagClientsOK'
    BY <1>1, CallEnds
  <1>3. TagRowsOK'
    <2>1. /\ nextTag \in Nat \ {0, 1} /\ \A t \in tags : t.id \in 2 .. nextTag - 1
          /\ assoc \cup tagObj \subseteq (-1 .. nextTag - 1) \X (1 .. nextId - 1)
          /\ filled \subseteq 1 .. nextId - 1
      BY DEF TagTreeInv, TagInv, TagRowsOK
    <2>2. \A t \in tags' : t.id \in 2 .. nextTag' - 1
      BY <1>1, <2>1
    <2>3. -1 .. nextTag - 1 \subseteq -1 .. nextTag' - 1
      BY <1>1, <2>1
    <2>4. (assoc \cup tagObj)' \subseteq (-1 .. nextTag' - 1) \X (1 .. nextId' - 1)
      BY <1>1, <2>1, <2>3
    <2> QED
      BY <1>1, <2>1, <2>2, <2>4 DEF TagRowsOK
  <1> QED
    BY <1>2, <1>3 DEF TagTreeInv, TagInv

LEMMA RenameTagKeeps ==
  ASSUME TagTreeInv, NEW c \in Client, RenameTag(c) \/ DeleteTag(c)
  PROVE  TagTreeInv'
  <1>1. /\ pc[c] \in {"storeTag", "renameTag", "deleteTag"} /\ EndCall(c, "ready")
        /\ UNCHANGED <<made, folders, tables, nextId, faults>> /\ nextTag' = nextTag
        /\ UNCHANGED <<assoc, tagObj, filled>> /\ UNCHANGED tid /\ UNCHANGED frames
    BY DEF RenameTag, DeleteTag, tree
  <1>2. TreeInv' /\ TagClientsOK'
    BY <1>1, CallEnds
  <1>3. \A t \in tags' : t.id \in 2 .. nextTag - 1
    <2>1. \A t \in tags : t.id \in 2 .. nextTag - 1
      BY DEF TagTreeInv, TagInv, TagRowsOK
    <2>2. CASE RenameTag(c)
      <3> SUFFICES ASSUME NEW t \in tags'
                   PROVE  t.id \in 2 .. nextTag - 1
        OBVIOUS
      <3>1. PICK u \in tags : t = IF u.name = req[c].name
                                  THEN [u EXCEPT !.name = req[c].newName] ELSE u
        BY <2>2 DEF RenameTag
      <3>2. t.id = u.id
        BY <3>1
      <3> QED
        BY <2>1, <3>2
    <2>3. CASE DeleteTag(c)
      BY <2>1, <2>3 DEF DeleteTag
    <2> QED
      BY <2>2, <2>3
  <1>4. TagRowsOK'
    BY <1>1, <1>3 DEF TagTreeInv, TagInv, TagRowsOK
  <1> QED
    BY <1>2, <1>4 DEF TagTreeInv, TagInv

LEMMA TagGetIdKeeps ==
  ASSUME TagTreeInv, NEW c \in Client, TagGetId(c)
  PROVE  TagTreeInv'
  <1>1. /\ pc[c] \in {"tag", "untag"} /\ pc[c] \in Tagging
        /\ UNCHANGED <<made, folders, tables, nextId, faults>> /\ nextTag' = nextTag
        /\ UNCHANGED <<tags, nextTag, assoc, tagObj, filled, nextId>>
    BY DEF TagGetId, TagUnchanged, tree, Tagging
  <1>2. ASSUME pc[c] = "tag", Swallowed(c)
        PROVE  TreeInv' /\ TagClientsOK'
    BY <1>1, <1>2, SwallowedKeeps
  <1>3. ASSUME NEW i \in {t.id : t \in TagNamed(req[c].name)}
                           \cup (IF TagNamed(req[c].name) = {} THEN {NoTag} ELSE {}),
               tid' = [tid EXCEPT ![c] = i],
               pc' = [pc EXCEPT ![c] = IF pc[c] = "tag" THEN "tagFolder" ELSE "untagFolder"],
               UNCHANGED <<req, stack, todo, fid, frames>>
        PROVE  TreeInv' /\ TagClientsOK'
    <2>1. PICK l, f : l = (IF pc[c] = "tag" THEN "tagFolder" ELSE "untagFolder") /\ f = fid[c]
      OBVIOUS
    <2>2. /\ l \in Tagging /\ l \notin HasFolder /\ (pc[c] \in Visiting => l \in Visiting)
      BY <1>1, <2>1 DEF Tagging, HasFolder, Visiting
    <2>3. i \in -1 .. nextTag - 1
      <3>1. nextTag \in Nat \ {0, 1} /\ \A t \in tags : t.id \in 2 .. nextTag - 1
        BY DEF TagTreeInv, TagInv, TagRowsOK
      <3>2. i = -1 \/ \E t \in tags : i = t.id
        BY DEF NoTag, TagNamed
      <3> QED
        BY <3>1, <3>2
    <2>4. /\ f \in Nat /\ f < nextId /\ fid' = [fid EXCEPT ![c] = f]
          /\ pc' = [pc EXCEPT ![c] = l] /\ UNCHANGED <<req, stack, todo, frames>>
      BY <1>3, <2>1, OfClient DEF TagTreeInv, InCall
    <2> QED
      BY <1>1, <1>3, <2>2, <2>3, <2>4, TagStepKeeps
  <1>4. TreeInv' /\ TagClientsOK'
    BY <1>2, <1>3 DEF TagGetId, Goto, locals
  <1> QED
    BY <1>1, <1>4, TagRowsSame DEF TagTreeInv, TagInv

(* A visit that has found its folder. *)
LEMMA FolderFound ==
  ASSUME TagTreeInv, NEW c \in Client, pc[c] \in Tagging,
         NEW r \in folders, NEW l \in Tagging, pc[c] \in Visiting => l \in Visiting,
         pc' = [pc EXCEPT ![c] = l], fid' = [fid EXCEPT ![c] = r.id],
         UNCHANGED <<made, folders, tables, nextId, faults>>, nextTag' = nextTag,
         UNCHANGED <<req, stack, todo, tid, frames>>
  PROVE  TreeInv' /\ TagClientsOK'
  <1>1. PICK f, i : f = r.id /\ i = tid[c]
    OBVIOUS
  <1>2. f \in Nat /\ f < nextId /\ f > 0
    <2>1. f \in 1 .. nextId - 1 /\ nextId \in Nat
      BY <1>1 DEF TagTreeInv, TreeInv, TreeTypeOK, RowsOK, RowOK
    <2> QED
      BY <2>1
  <1>3. i \in -1 .. nextTag - 1 /\ tid' = [tid EXCEPT ![c] = i]
    BY <1>1, TagClient DEF TagTreeInv
  <1>4. fid' = [fid EXCEPT ![c] = f] /\ UNCHANGED <<req, stack, todo, frames>>
    BY <1>1
  <1> QED
    BY <1>2, <1>3, <1>4, TagStepKeeps

LEMMA TagGetFolderKeeps ==
  ASSUME TagTreeInv, NEW c \in Client, TagGetFolder(c)
  PROVE  TagTreeInv'
  <1>1. /\ pc[c] \in {"tagFolder", "untagFolder"} /\ pc[c] \in Tagging
        /\ UNCHANGED <<made, folders, tables, nextId, faults>> /\ nextTag' = nextTag
        /\ UNCHANGED <<tags, nextTag, assoc, tagObj, filled, nextId>>
    BY DEF TagGetFolder, TagUnchanged, tree, Tagging
  <1>2. ASSUME Swallowed(c)
        PROVE  TreeInv' /\ TagClientsOK'
    BY <1>1, <1>2, SwallowedKeeps
  <1>3. ASSUME NEW r \in Find(req[c].path), fid' = [fid EXCEPT ![c] = r.id],
               pc' = [pc EXCEPT ![c] = IF pc[c] = "tagFolder" THEN "tagLook" ELSE "untagObjects"],
               UNCHANGED <<req, stack, todo, tid, frames>>
        PROVE  TreeInv' /\ TagClientsOK'
    <2>1. PICK l : l = IF pc[c] = "tagFolder" THEN "tagLook" ELSE "untagObjects"
      OBVIOUS
    <2>2. l \in Tagging /\ (pc[c] \in Visiting => l \in Visiting)
      BY <1>1, <2>1 DEF Tagging, Visiting
    <2>3. r \in folders /\ pc' = [pc EXCEPT ![c] = l]
      BY <1>3, <2>1 DEF Find
    <2> QED
      BY <1>1, <1>3, <2>2, <2>3, FolderFound
  <1>4. TreeInv' /\ TagClientsOK'
    BY <1>2, <1>3 DEF TagGetFolder, Goto, tagLocals
  <1> QED
    BY <1>1, <1>4, TagRowsSame DEF TagTreeInv, TagInv

(* A visit that goes on with the folder it has found. *)
LEMMA SameFolder ==
  ASSUME TagTreeInv, NEW c \in Client, pc[c] \in Tagging, pc[c] \in HasFolder,
         NEW l \in Tagging, pc[c] \in Visiting => l \in Visiting,
         pc' = [pc EXCEPT ![c] = l], UNCHANGED <<req, stack, todo, fid, tid, frames>>,
         UNCHANGED <<made, folders, tables, nextId, faults>>, nextTag' = nextTag
  PROVE  TreeInv' /\ TagClientsOK'
  <1>1. PICK f, i : f = fid[c] /\ i = tid[c]
    OBVIOUS
  <1>2. f \in Nat /\ f < nextId /\ f > 0 /\ fid' = [fid EXCEPT ![c] = f]
    BY <1>1, OfClient DEF TagTreeInv, InCall
  <1>3. i \in -1 .. nextTag - 1 /\ tid' = [tid EXCEPT ![c] = i]
    BY <1>1, TagClient DEF TagTreeInv
  <1>4. UNCHANGED <<req, stack, todo, frames>>
    OBVIOUS
  <1> QED
    BY <1>2, <1>3, <1>4, TagStepKeeps

LEMMA TagLookKeeps ==
  ASSUME TagTreeInv, NEW c \in Client, TagLook(c)
  PROVE  TagTreeInv'
  <1>1. /\ pc[c] \in Tagging /\ pc[c] \in Visiting /\ pc[c] \in HasFolder
        /\ UNCHANGED <<made, folders, tables, nextId, faults>> /\ nextTag' = nextTag
        /\ UNCHANGED <<tags, nextTag, assoc, tagObj, filled, nextId>>
    BY DEF TagLook, TagUnchanged, tree, Tagging, Visiting, HasFolder
  <1>2. TreeInv' /\ TagClientsOK'
    <2>1. CASE \E r \in folders : r.id = fid[c] /\ r.kind = "set"
      <3>1. PICK rest : GoOn(c, rest)
        BY <2>1 DEF TagLook
      <3> QED
        BY <1>1, <3>1, GoOnKeeps
    <2>2. CASE ~\E r \in folders : r.id = fid[c] /\ r.kind = "set"
      <3>1. PICK l : l = "tagObjects"
        OBVIOUS
      <3>2. /\ pc' = [pc EXCEPT ![c] = l] /\ UNCHANGED <<req, stack, todo, fid, tid, frames>>
            /\ l \in Tagging /\ (pc[c] \in Visiting => l \in Visiting)
        BY <2>2, <3>1 DEF TagLook, Goto, locals, tagLocals, Tagging, Visiting
      <3> QED
        BY <1>1, <3>2, SameFolder
    <2> QED
      BY <2>1, <2>2
  <1> QED
    BY <1>1, <1>2, TagRowsSame DEF TagTreeInv, TagInv

(* A tag and a folder that a client works with have had rows. *)
LEMMA KnownIds ==
  ASSUME TagTreeInv, NEW c \in Client, pc[c] \in HasFolder
  PROVE  <<tid[c], fid[c]>> \in (-1 .. nextTag - 1) \X (1 .. nextId - 1)
  <1>1. fid[c] \in Nat /\ fid[c] < nextId /\ fid[c] > 0 /\ nextId \in Nat
    BY OfClient DEF TagTreeInv, InCall
  <1>2. fid[c] \in 1 .. nextId - 1
    BY <1>1
  <1>3. tid[c] \in -1 .. nextTag - 1
    BY TagClient DEF TagTreeInv
  <1> QED
    BY <1>2, <1>3

LEMMA TagObjectsKeeps ==
  ASSUME TagTreeInv, NEW c \in Client, TagObjects(c)
  PROVE  TagTreeInv'
  <1>1. /\ pc[c] \in Tagging /\ pc[c] \in Visiting /\ pc[c] \in HasFolder
        /\ UNCHANGED <<made, folders, tables, nextId, faults>> /\ nextTag' = nextTag
        /\ UNCHANGED <<tags, nextTag, assoc, filled, nextId>>
    BY DEF TagObjects, tree, Tagging, Visiting, HasFolder
  <1> DEFINE known == {<<fid[c], "head">>, <<fid[c], "tag2obj">>} \subseteq tables
                      /\ fid[c] \in filled
  <1>2. TreeInv' /\ TagClientsOK'
    <2>1. CASE known
      <3>1. PICK l : l = "associate"
        OBVIOUS
      <3>2. /\ pc' = [pc EXCEPT ![c] = l] /\ UNCHANGED <<req, stack, todo, fid, tid, frames>>
            /\ l \in Tagging /\ (pc[c] \in Visiting => l \in Visiting)
        BY <2>1, <3>1 DEF TagObjects, Goto, locals, tagLocals, Tagging, Visiting
      <3> QED
        BY <1>1, <3>2, SameFolder
    <2>2. CASE ~known
      <3>1. PICK rest : GoOn(c, rest)
        BY <2>2 DEF TagObjects
      <3> QED
        BY <1>1, <3>1, GoOnKeeps
    <2> QED
      BY <2>1, <2>2
  <1>3. tagObj' \subseteq tagObj \cup {<<tid[c], fid[c]>>}
    BY DEF TagObjects
  <1>4. TagRowsOK'
    BY <1>1, <1>3, KnownIds DEF TagTreeInv, TagInv, TagRowsOK
  <1> QED
    BY <1>2, <1>4 DEF TagTreeInv, TagInv

LEMMA AssociateKeeps ==
  ASSUME TagTreeInv, NEW c \in Client, Associate(c)
  PROVE  TagTreeInv'
  <1>1. /\ pc[c] \in Visiting /\ pc[c] \in HasFolder /\ GoOn(c, frames[c])
        /\ UNCHANGED <<made, folders, tables, nextId, faults>> /\ nextTag' = nextTag
        /\ UNCHANGED <<tags, nextTag, tagObj, filled, nextId>>
        /\ assoc' \subseteq assoc \cup {<<tid[c], fid[c]>>}
    BY DEF Associate, tree, Visiting, HasFolder
  <1>2. TreeInv' /\ TagClientsOK'
    <2>1. PICK rest : GoOn(c, rest)
      BY <1>1
    <2> QED
      BY <1>1, <2>1, GoOnKeeps
  <1>3. TagRowsOK'
    BY <1>1, KnownIds DEF TagTreeInv, TagInv, TagRowsOK
  <1> QED
    BY <1>2, <1>3 DEF TagTreeInv, TagInv

LEMMA UntagObjectsKeeps ==
  ASSUME TagTreeInv, NEW c \in Client, UntagObjects(c) \/ UntagLook(c)
  PROVE  TagTreeInv'
  <1>1. /\ pc[c] \in Tagging /\ pc[c] \in HasFolder /\ pc[c] \notin Visiting
        /\ pc[c] # "tables" /\ tagObj' \subseteq tagObj
        /\ UNCHANGED <<made, folders, tables, nextId, faults>> /\ nextTag' = nextTag
        /\ UNCHANGED <<tags, nextTag, assoc, filled, nextId>>
    BY DEF UntagObjects, UntagLook, TagUnchanged, tree, Tagging, Visiting, HasFolder
  <1>2. TreeInv' /\ TagClientsOK'
    <2>1. CASE EndTagCall(c, "ready")
      BY <1>1, <2>1, TagCallEnds
    <2>2. CASE ~EndTagCall(c, "ready")
      <3>1. PICK l : l = IF pc[c] = "untagObjects" THEN "untagLook" ELSE "unassociate"
        OBVIOUS
      <3>2. /\ pc' = [pc EXCEPT ![c] = l] /\ UNCHANGED <<req, stack, todo, fid, tid, frames>>
            /\ l \in Tagging
        BY <2>2, <3>1 DEF UntagObjects, UntagLook, Goto, locals, tagLocals, Tagging
      <3> QED
        BY <1>1, <3>2, SameFolder
    <2> QED
      BY <2>1, <2>2
  <1>3. TagRowsOK'
    BY <1>1 DEF TagTreeInv, TagInv, TagRowsOK
  <1> QED
    BY <1>2, <1>3 DEF TagTreeInv, TagInv

LEMMA UnassociateKeeps ==
  ASSUME TagTreeInv, NEW c \in Client, Unassociate(c)
  PROVE  TagTreeInv'
  <1>1. /\ pc[c] # "tables" /\ EndCall(c, "ready") /\ assoc' \subseteq assoc
        /\ tid' = [tid EXCEPT ![c] = 0] /\ frames' = [frames EXCEPT ![c] = <<>>]
        /\ UNCHANGED <<made, folders, tables, nextId, faults>> /\ nextTag' = nextTag
        /\ UNCHANGED <<tags, nextTag, tagObj, filled, nextId>>
    BY DEF Unassociate, tree
  <1>2. TreeInv' /\ TagClientsOK'
    BY <1>1, TagCallLeft
  <1>3. TagRowsOK'
    BY <1>1 DEF TagTreeInv, TagInv, TagRowsOK
  <1> QED
    BY <1>2, <1>3 DEF TagTreeInv, TagInv

LEMMA StoreLookupKeeps ==
  ASSUME TagTreeInv, NEW c \in Client, StoreLookup(c)
  PROVE  TagTreeInv'
  <1>1. /\ pc[c] = "store" /\ pc[c] \in Tagging /\ pc[c] # "tables" /\ pc[c] \notin Visiting
        /\ UNCHANGED <<made, folders, tables, nextId, faults>> /\ nextTag' = nextTag
        /\ UNCHANGED <<tags, nextTag, assoc, tagObj, filled, nextId>>
    BY DEF StoreLookup, TagUnchanged, tree, Tagging, Visiting
  <1>2. ASSUME EndTagCall(c, "ready")
        PROVE  TreeInv' /\ TagClientsOK'
    BY <1>1, <1>2, TagCallEnds
  <1>3. ASSUME NEW r \in Find(req[c].path), fid' = [fid EXCEPT ![c] = r.id],
               pc' = [pc EXCEPT ![c] = "storeObject"],
               UNCHANGED <<req, stack, todo, tid, frames>>
        PROVE  TreeInv' /\ TagClientsOK'
    <2>1. PICK l : l = "storeObject"
      OBVIOUS
    <2>2. /\ l \in Tagging /\ r \in folders /\ pc' = [pc EXCEPT ![c] = l]
          /\ (pc[c] \in Visiting => l \in Visiting)
      BY <1>1, <1>3, <2>1 DEF Tagging, Find
    <2> QED
      BY <1>1, <1>3, <2>2, FolderFound
  <1>4. TreeInv' /\ TagClientsOK'
    BY <1>2, <1>3 DEF StoreLookup, Goto, tagLocals
  <1> QED
    BY <1>1, <1>4, TagRowsSame DEF TagTreeInv, TagInv

LEMMA StoreObjectKeeps ==
  ASSUME TagTreeInv, NEW c \in Client, StoreObject(c)
  PROVE  TagTreeInv'
  <1>1. /\ pc[c] = "storeObject" /\ pc[c] # "tables" /\ EndTagCall(c, "ready")
        /\ pc[c] \in HasFolder /\ filled' \subseteq filled \cup {fid[c]}
        /\ UNCHANGED <<made, folders, tables, nextId, faults>> /\ nextTag' = nextTag
        /\ UNCHANGED <<tags, nextTag, assoc, tagObj, nextId>>
    BY DEF StoreObject, tree, HasFolder
  <1>2. TreeInv' /\ TagClientsOK'
    BY <1>1, TagCallEnds
  <1>3. fid[c] \in 1 .. nextId - 1
    BY <1>1, KnownIds
  <1>4. TagRowsOK'
    BY <1>1, <1>3 DEF TagTreeInv, TagInv, TagRowsOK
  <1> QED
    BY <1>2, <1>4 DEF TagTreeInv, TagInv
-----------------------------------------------------------------------------
(* Folders and tags together. *)
LEMMA TreeStepLocal ==
  ASSUME TreeInv, NEW c \in Client, TreeStep(c)
  PROVE  /\ \A d \in Client \ {c} : pc'[d] = pc[d]
         /\ nextId' \in {nextId, nextId + 1}
  <1>1. ASSUME NEW l, Goto(c, l)
        PROVE  \A d \in Client \ {c} : pc'[d] = pc[d]
    BY <1>1 DEF Goto, TreeInv, TreeTypeOK
  <1>2. ASSUME NEW l, EndCall(c, l)
        PROVE  \A d \in Client \ {c} : pc'[d] = pc[d]
    BY <1>1, <1>2 DEF EndCall
  <1>3. ASSUME Throw(c)
        PROVE  /\ \A d \in Client \ {c} : pc'[d] = pc[d]
               /\ nextId' \in {nextId, nextId + 1}
    BY <1>2, <1>3 DEF Throw
  <1>4. CASE OpenDatabase(c)
    BY <1>1, <1>4 DEF OpenDatabase
  <1>5. CASE CreateDatabase(c)
    BY <1>1, <1>5 DEF CreateDatabase
  <1>6. CASE \E q \in Request[c] : CallFolderMgr(c, q)
    BY <1>1, <1>6 DEF CallFolderMgr
  <1>7. CASE Exist(c)
    BY <1>1, <1>3, <1>7 DEF Exist
  <1>8. CASE FindParent(c)
    BY <1>1, <1>3, <1>8 DEF FindParent
  <1>9. CASE ExistRoot(c)
    BY <1>1, <1>3, <1>9 DEF ExistRoot
  <1>10. CASE StoreRow(c)
    <2>1. Throw(c) \/ nextId' = nextId + 1
      BY <1>10 DEF StoreRow
    <2>2. Throw(c) \/ EndCall(c, "ready") \/ \E l \in {"again", "tables"} : Goto(c, l)
      <3>1. TreeInv /\ pc[c] \in Storing /\ Len(stack[c]) \in Nat \ {0}
        BY <1>10, TopEntry DEF StoreRow, Storing
      <3>2. CASE Throw(c)
        BY <3>2
      <3>3. CASE ~Throw(c) /\ NewRow(c).kind = "set" /\ Len(stack[c]) > 1
        BY <1>10, <3>3 DEF StoreRow
      <3>4. CASE ~Throw(c) /\ NewRow(c).kind = "set" /\ ~(Len(stack[c]) > 1)
        <4>1. Len(stack[c]) = 1
          <5>1. ASSUME NEW n \in Nat \ {0}, ~(n > 1)
                PROVE  n = 1
            BY <5>1
          <5> QED
            BY <3>1, <3>4, <5>1
        <4> QED
          BY <1>10, <3>4, <4>1 DEF StoreRow
      <3>5. CASE ~Throw(c) /\ NewRow(c).kind # "set"
        BY <1>10, <3>5 DEF StoreRow
      <3> QED
        BY <3>2, <3>3, <3>4, <3>5
    <2> QED
      BY <1>1, <1>2, <1>3, <2>1, <2>2
  <1>11. CASE FindParentAgain(c)
    BY <1>1, <1>2, <1>11 DEF FindParentAgain
  <1>12. CASE CreateTable(c)
    BY <1>2, <1>12 DEF CreateTable
  <1>13. CASE LookupFolder(c)
    BY <1>1, <1>3, <1>13 DEF LookupFolder
  <1>14. CASE LookForChildren(c)
    BY <1>1, <1>2, <1>14 DEF LookForChildren
  <1>15. CASE DeleteRow(c)
    BY <1>2, <1>15 DEF DeleteRow
  <1>16. CASE Crash(c)
    BY <1>2, <1>16 DEF Crash
  <1> QED
    BY <1>4, <1>5, <1>6, <1>7, <1>8, <1>9, <1>10, <1>11, <1>12, <1>13, <1>14, <1>15, <1>16
    DEF TreeStep

LEMMA ChangeTreeKeeps ==
  ASSUME TagTreeInv, NEW c \in Client, ChangeTree(c)
  PROVE  TagTreeInv'
  <1>1. /\ TreeStep(c) /\ tid' = [tid EXCEPT ![c] = 0] /\ frames' = [frames EXCEPT ![c] = <<>>]
        /\ UNCHANGED <<tags, nextTag, assoc, tagObj, filled>> /\ TreeInv /\ TagInv
    BY DEF ChangeTree, TagTreeInv
  <1>2. TreeInv'
    BY <1>1, TreeStepKeeps
  <1>3. /\ \A d \in Client \ {c} : pc'[d] = pc[d]
        /\ nextId' \in {nextId, nextId + 1} /\ nextId \in Nat \ {0}
    BY <1>1, TreeStepLocal, OfClient
  <1>4. TagRowsOK'
    <2>1. 1 .. nextId - 1 \subseteq 1 .. nextId' - 1
      BY <1>3
    <2> QED
      BY <1>1, <2>1 DEF TagInv, TagRowsOK
  <1>5. TagClientsOK'
    <2>1. /\ tid \in [Client -> -1 .. nextTag - 1] /\ frames = [d \in Client |-> frames[d]]
          /\ \A d \in Client : frames[d] # <<>> => pc[d] \in Visiting
          /\ nextTag \in Nat \ {0, 1}
      BY <1>1 DEF TagInv, TagRowsOK, TagClientsOK
    <2>2. 0 \in -1 .. nextTag - 1
      BY <2>1
    <2>3. tid' \in [Client -> -1 .. nextTag' - 1] /\ frames' = [d \in Client |-> frames'[d]]
      BY <1>1, <2>1, <2>2
    <2>4. frames'[c] = <<>> /\ \A d \in Client \ {c} : frames'[d] = frames[d]
      BY <1>1, <2>1
    <2>5. \A d \in Client : frames'[d] # <<>> => pc'[d] \in Visiting
      BY <1>3, <2>1, <2>4
    <2> QED
      BY <2>3, <2>5 DEF TagClientsOK, Visiting
  <1> QED
    BY <1>2, <1>4, <1>5 DEF TagTreeInv, TagInv

LEMMA InitOK == Init => TagTreeInv
  <1> SUFFICES ASSUME Init
               PROVE  TagTreeInv
    OBVIOUS
  <1>1. TreeInv
    BY TreeInitOK DEF Init
  <1>2. TagRowsOK
    BY DEF Init, TagRowsOK
  <1>3. TagClientsOK
    <2>1. nextTag = 2 /\ tid = [c \in Client |-> 0] /\ frames = [c \in Client |-> <<>>]
      BY DEF Init
    <2>2. tid \in [Client -> -1 .. nextTag - 1]
      BY <2>1
    <2> QED
      BY <2>1, <2>2 DEF TagClientsOK
  <1> QED
    BY <1>1, <1>2, <1>3 DEF TagTreeInv, TagInv

(* When nothing happens, nothing changes. *)
LEMMA StutterKeeps ==
  ASSUME TagTreeInv, UNCHANGED vars
  PROVE  TagTreeInv'
  <1>1. /\ UNCHANGED <<made, folders, tables, nextId, faults>>
        /\ UNCHANGED <<pc, req, stack, todo, fid>>
        /\ UNCHANGED <<tags, nextTag, assoc, tagObj, filled, tid, frames>>
    BY DEF vars, treeVars, locals, tagLocals
  <1>2. TreeInv'
    <2>1. TreeTypeOK'
      BY <1>1, SameSets DEF TagTreeInv, TreeInv, TreeTypeOK
    <2>2. RowsOK'
      BY <1>1 DEF TagTreeInv, TreeInv, RowsOK, RowOK
    <2>3. Grows
      BY <1>1 DEF Grows, TagTreeInv, TreeInv, TreeTypeOK
    <2>4. \A c \in Client : ClientOK(c)'
      BY <1>1, <2>3, OthersKeep DEF TagTreeInv
    <2>5. FolderHasTables'
      <3>1. Unfinished' = Unfinished
        BY <1>1, SameSets DEF Unfinished, Complete
      <3> QED
        BY <1>1, <3>1 DEF FolderHasTables, TagTreeInv, TreeInv
    <2> QED
      BY <2>1, <2>2, <2>4, <2>5 DEF TreeInv
  <1>3. TagInv'
    BY <1>1 DEF TagTreeInv, TagInv, TagRowsOK, TagClientsOK
  <1> QED
    BY <1>2, <1>3 DEF TagTreeInv

LEMMA NextKeeps ==
  ASSUME TagTreeInv, [Next]_vars
  PROVE  TagTreeInv'
  <1>1. ASSUME NEW c \in Client, ChangeTree(c)
        PROVE  TagTreeInv'
    BY <1>1, ChangeTreeKeeps
  <1>2. ASSUME NEW c \in Client, TagStep(c)
        PROVE  TagTreeInv'
    <2>1. (\E q \in Request[c] : CallTagMgr(c, q)) => TagTreeInv'
      BY CallTagMgrKeeps
    <2>2. TagExists(c) \/ StoreTag(c) \/ RenameTag(c) \/ DeleteTag(c) => TagTreeInv'
      BY TagExistsKeeps, StoreTagKeeps, RenameTagKeeps
    <2>3. TagGetId(c) \/ TagGetFolder(c) \/ TagLook(c) => TagTreeInv'
      BY TagGetIdKeeps, TagGetFolderKeeps, TagLookKeeps
    <2>4. TagObjects(c) \/ Associate(c) => TagTreeInv'
      BY TagObjectsKeeps, AssociateKeeps
    <2>6. UntagObjects(c) \/ UntagLook(c) \/ Unassociate(c) => TagTreeInv'
      BY UntagObjectsKeeps, UnassociateKeeps
    <2>5. StoreLookup(c) \/ StoreObject(c) => TagTreeInv'
      BY StoreLookupKeeps, StoreObjectKeeps
    <2> QED
      BY <1>2, <2>1, <2>2, <2>3, <2>4, <2>5, <2>6 DEF TagStep
  <1>3. ASSUME UNCHANGED vars
        PROVE  TagTreeInv'
    BY <1>3, StutterKeeps
  <1> QED
    BY <1>1, <1>2, <1>3 DEF Next, Finished

LEMMA CatalogIsSafe == Spec => []TagTreeInv
  <1>1. Init => TagTreeInv
    BY InitOK
  <1>2. TagTreeInv /\ [Next]_vars => TagTreeInv'
    BY NextKeeps
  <1> QED
    BY <1>1, <1>2, PTL DEF Spec
-----------------------------------------------------------------------------
(* What the invariant says of the catalog. *)
LEMMA CatalogFollows == TagTreeInv => CatalogInv /\ DuplicatesOnlyFromRaces
  <1> SUFFICES ASSUME TagTreeInv
               PROVE  CatalogInv /\ DuplicatesOnlyFromRaces
    OBVIOUS
  <1>1. TreeInv /\ TagInv /\ TreeTypeOK /\ RowsOK /\ FolderHasTables
    BY DEF TagTreeInv, TreeInv
  <1>2. \A r \in folders : r \in Row /\ RowOK(r)
    BY <1>1 DEF TreeTypeOK, RowsOK
  <1>3. nextId \in Nat \ {0}
    BY <1>1 DEF TreeTypeOK
  <1>4. TypeOK
    <2>1. made \in 0 .. Len(DatabaseStatements)
      BY <1>1 DEF TreeTypeOK
    <2>2. ASSUME NEW r \in folders
          PROVE  /\ r.id \in Id /\ r.parent \in 0 .. nextId - 1 /\ r.mark \in Id
                 /\ r.kind \in {"set"} \cup DOMAIN Statements
                 /\ Range(r.path) \subseteq
                      {Separator} \cup UNION {Range(q.path) : q \in UNION Range(Request)}
      <3>1. /\ r.id \in 1 .. nextId - 1 /\ r.mark \in 1 .. r.id /\ r.parent < r.id
            /\ r.parent \in Nat /\ r.kind \in {"set"} \cup DOMAIN Statements
            /\ r.path \in Seq(Token)
        BY <1>2 DEF RowOK, Row
      <3>2. r.id \in Id /\ r.parent \in 0 .. nextId - 1 /\ r.mark \in Id
        BY <1>3, <3>1 DEF Id
      <3>3. Range(r.path) \subseteq Token
        BY <3>1 DEF Range
      <3> QED
        BY <3>1, <3>2, <3>3 DEF Token
    <2>3. \A t \in tables : t[1] \in Id
      BY <1>1 DEF TreeTypeOK, Id
    <2>4. /\ \A t \in tags : t.id \in 2 .. nextTag - 1
          /\ assoc \cup tagObj \subseteq (-1 .. nextTag - 1) \X Id /\ filled \subseteq Id
      BY <1>1 DEF TagInv, TagRowsOK, Id
    <2>5. ASSUME NEW c \in Client
          PROVE  /\ fid[c] \in 0 .. nextId - 1 /\ tid[c] \in -1 .. nextTag - 1
                 /\ ~Working(c) => /\ req[c] = NoRequest /\ stack[c] = <<>>
                                   /\ todo[c] = <<>> /\ frames[c] = <<>>
      <3>1. InCall(c) /\ fid[c] \in Nat /\ fid[c] < nextId
        BY <1>1, OfClient DEF InCall
      <3>2. fid[c] \in 0 .. nextId - 1
        BY <1>3, <3>1
      <3>3. tid[c] \in -1 .. nextTag - 1 /\ (frames[c] # <<>> => pc[c] \in Visiting)
        BY <1>1, TagClient
      <3>4. ~Working(c) => /\ req[c] = NoRequest /\ stack[c] = <<>>
                           /\ todo[c] = <<>> /\ frames[c] = <<>>
        BY <3>1, <3>3 DEF Working, InCall, Visiting
      <3> QED
        BY <3>2, <3>3, <3>4
    <2> QED
      BY <2>1, <2>2, <2>3, <2>4, <2>5 DEF TypeOK
  <1>5. OnlyLatecomersOrphaned
    <2> SUFFICES ASSUME NEW c \in Client, pc[c] = "delete", NEW r \in Children(fid[c])
                 PROVE  r.id >= Top(c).mark
      BY DEF OnlyLatecomersOrphaned
    <2>1. Len(stack[c]) = 1 /\ r.id >= stack[c][1].mark
      BY <1>1, OfClient DEF DeletionOK
    <2>2. Top(c) = stack[c][1]
      BY <2>1 DEF Top, Last
    <2> QED
      BY <2>1, <2>2
  <1>6. RowsMatchPaths
    BY <1>2 DEF RowsMatchPaths, RowOK
  <1>7. DuplicatesOnlyFromRaces
    BY <1>2 DEF DuplicatesOnlyFromRaces, RowOK
  <1> QED
    BY <1>1, <1>4, <1>5, <1>6, <1>7 DEF CatalogInv

(* folders_tbl, tags_tbl and the tables of folders keep their types and agree:
   of a folder that misses tables, its process has died; a child that misses
   its parent was stored after deleteFolder looked for children; and the row of
   a parent is a folder set with the path of the parent.  This is so for any
   processes, requests, and number of calls and crashes. *)
THEOREM CatalogIsConsistent == Spec => []CatalogInv
  <1>1. TagTreeInv => CatalogInv
    BY CatalogFollows
  <1> QED
    BY <1>1, CatalogIsSafe, PTL

(* CondFolderMgr::exist is all there is against two rows with one path: when
   there are two, the process that stored the later one had looked before the
   earlier one was stored. *)
THEOREM DuplicatesComeFromRaces == Spec => []DuplicatesOnlyFromRaces
  <1>1. TagTreeInv => DuplicatesOnlyFromRaces
    BY CatalogFollows
  <1> QED
    BY <1>1, CatalogIsSafe, PTL

(* A row that is new in folders_tbl has the next id. *)
LEMMA TreeRows ==
  ASSUME NEW c \in Client, TreeStep(c)
  PROVE  \A r \in folders' : r \in folders \/ r.id = nextId
  <1>1. CASE OpenDatabase(c) \/ CreateDatabase(c) \/ \E q \in Request[c] : CallFolderMgr(c, q)
    BY <1>1 DEF OpenDatabase, CreateDatabase, CallFolderMgr
  <1>2. CASE Exist(c) \/ FindParent(c) \/ ExistRoot(c) \/ FindParentAgain(c)
    BY <1>2 DEF Exist, FindParent, ExistRoot, FindParentAgain, Throw
  <1>3. CASE StoreRow(c)
    <2>1. Throw(c) \/ folders' = folders \cup {NewRow(c)}
      BY <1>3 DEF StoreRow
    <2> QED
      BY <2>1 DEF Throw, NewRow
  <1>4. CASE CreateTable(c) \/ LookupFolder(c) \/ LookForChildren(c) \/ DeleteRow(c) \/ Crash(c)
    BY <1>4 DEF CreateTable, LookupFolder, LookForChildren, DeleteRow, Crash, Throw
  <1> QED
    BY <1>1, <1>2, <1>3, <1>4 DEF TreeStep

LEMMA TagRows ==
  ASSUME NEW c \in Client, TagStep(c)
  PROVE  /\ UNCHANGED folders
         /\ \A t \in tags' : (\E u \in tags : u.id = t.id) \/ t.id = nextTag
  <1>1. CASE \/ \E q \in Request[c] : CallTagMgr(c, q)
             \/ TagExists(c) \/ TagObjects(c) \/ Associate(c) \/ StoreObject(c)
             \/ UntagObjects(c) \/ Unassociate(c)
    BY <1>1
    DEF CallTagMgr, TagExists, TagObjects, Associate, StoreObject, UntagObjects, Unassociate, tree
  <1>2. CASE TagGetId(c) \/ TagGetFolder(c) \/ TagLook(c) \/ UntagLook(c) \/ StoreLookup(c)
    BY <1>2 DEF TagGetId, TagGetFolder, TagLook, UntagLook, StoreLookup, TagUnchanged, tree
  <1>3. CASE StoreTag(c)
    BY <1>3 DEF StoreTag, tree
  <1>4. CASE RenameTag(c)
    <2>1. UNCHANGED folders
      BY <1>4 DEF RenameTag, tree
    <2>2. ASSUME NEW t \in tags'
          PROVE  \E u \in tags : u.id = t.id
      <3>1. PICK u \in tags : t = IF u.name = req[c].name
                                  THEN [u EXCEPT !.name = req[c].newName] ELSE u
        BY <1>4 DEF RenameTag
      <3>2. t.id = u.id
        BY <3>1
      <3> QED
        BY <3>2
    <2> QED
      BY <2>1, <2>2
  <1>5. CASE DeleteTag(c)
    BY <1>5 DEF DeleteTag, tree
  <1> QED
    BY <1>1, <1>2, <1>3, <1>4, <1>5 DEF TagStep

(* The tables that deleteFolder leaves behind, and the associations that
   deleteTag does, are never found by a new folder or tag: no step stores a row
   with an id that a table or an association has. *)
THEOREM IdsAreNeverUsedAgain == Spec => NewIdIsFresh
  <1> DEFINE fresh ==
        /\ \A i \in {r.id : r \in folders'} \ {r.id : r \in folders} :
             /\ \A t \in tables : t[1] # i
             /\ \A a \in assoc \cup tagObj : a[2] # i
        /\ \A i \in {t.id : t \in tags'} \ {t.id : t \in tags} :
             \A a \in assoc \cup tagObj : a[1] # i
  <1>1. ASSUME TagTreeInv, Next
        PROVE  fresh
    <2>1. \A r \in folders' : r \in folders \/ r.id = nextId
      <3>1. ASSUME NEW c \in Client, ChangeTree(c)
            PROVE  \A r \in folders' : r \in folders \/ r.id = nextId
        BY <3>1, TreeRows DEF ChangeTree
      <3>2. ASSUME NEW c \in Client, TagStep(c)
            PROVE  \A r \in folders' : r \in folders \/ r.id = nextId
        BY <3>2, TagRows
      <3>3. ASSUME Finished
            PROVE  folders' = folders
        BY <3>3 DEF Finished, vars, treeVars
      <3> QED
        BY <1>1, <3>1, <3>2, <3>3 DEF Next
    <2>2. \A t \in tags' : (\E u \in tags : u.id = t.id) \/ t.id = nextTag
      <3>1. ASSUME NEW c \in Client, ChangeTree(c)
            PROVE  tags' = tags
        BY <3>1 DEF ChangeTree
      <3>2. ASSUME NEW c \in Client, TagStep(c)
            PROVE  \A t \in tags' : (\E u \in tags : u.id = t.id) \/ t.id = nextTag
        BY <3>2, TagRows
      <3>3. ASSUME Finished
            PROVE  tags' = tags
        BY <3>3 DEF Finished, vars
      <3> QED
        BY <1>1, <3>1, <3>2, <3>3 DEF Next
    <2>3. /\ nextId \in Nat /\ nextTag \in Nat
          /\ tables \subseteq (1 .. nextId - 1) \X Table
          /\ assoc \cup tagObj \subseteq (-1 .. nextTag - 1) \X (1 .. nextId - 1)
      BY <1>1 DEF TagTreeInv, TreeInv, TreeTypeOK, TagInv, TagRowsOK
    <2>4. /\ \A t \in tables : t[1] # nextId
          /\ \A a \in assoc \cup tagObj : a[2] # nextId /\ a[1] # nextTag
      BY <2>3
    <2>5. \A i \in {r.id : r \in folders'} \ {r.id : r \in folders} : i = nextId
      BY <2>1
    <2>6. \A i \in {t.id : t \in tags'} \ {t.id : t \in tags} : i = nextTag
      BY <2>2
    <2> QED
      BY <2>4, <2>5, <2>6
  <1>2. TagTreeInv /\ [Next]_vars => [fresh]_vars
    <2> HIDE DEF fresh
    <2> QED
      BY <1>1
  <1>3. Spec => [][fresh]_vars
    <2> HIDE DEF fresh
    <2> QED
      BY <1>2, CatalogIsSafe, PTL DEF Spec
  <1> QED
    BY <1>3, PTL DEF NewIdIsFresh
-----------------------------------------------------------------------------
(* A call of tag reaches the folders that are due.  While it runs, each of them
   is associated already, or at or beneath the folder that is visited, or at or
   beneath a child in some frame. *)
Under(i, j) == \A ids : j \in ids /\ Closed(ids) => i \in ids

DueIsLeaf(i) == i \in filled /\ \E r \in folders : r.id = i /\ r.kind # "set"

Here(c, i) ==
  \/ pc[c] \in {"tag", "tagFolder"} /\ \E r \in Find(req[c].path) : Under(i, r.id)
  \/ pc[c] \in {"tagLook", "tagObjects", "associate"} /\ Under(i, fid[c])

Ahead(stacked, i) == \E k \in DOMAIN stacked : \E f \in stacked[k] : Under(i, f.id)

(* What a visit has found. *)
Found(c) ==
  /\ pc[c] \in {"tag", "tagFolder"} => Find(req[c].path) # {}
  /\ pc[c] # "tag" => \E t \in TagNamed(req[c].name) : tid[c] = t.id
  /\ pc[c] \in {"tagLook", "tagObjects", "associate"} => \E r \in folders : r.id = fid[c]
  /\ pc[c] \in {"tagObjects", "associate"} => \A r \in folders : r.id = fid[c] => r.kind # "set"

CoverOK(c) ==
  /\ UniquePaths /\ Executed("tag2folder_tbl") /\ TagNamed(req[c].name) # {}
  /\ \A k \in DOMAIN frames[c] : frames[c][k] \subseteq folders
  /\ Found(c)
  /\ \A i \in due[c] :
       DueIsLeaf(i) /\ (i \in TaggedFolders(req[c].name) \/ Here(c, i) \/ Ahead(frames[c], i))

IsCall(q) == {"op", "path", "name"} \subseteq DOMAIN q /\ q = [field \in DOMAIN q |-> q[field]]

Covering(c) ==
  /\ pc[c] \in Visiting <=> req[c].op = "tag"
  /\ req[c].op = "tag" => IsCall(req[c]) /\ (due[c] # {} => CoverOK(c))

(* Only a folder with its tables has objects. *)
FilledOK == \A i \in filled : <<i, "head">> \in tables /\ <<i, "tag2obj">> \in tables

FramesOK == frames \in [Client -> Seq(SUBSET Row)] /\ due = [c \in Client |-> due[c]]

CoverInv == TagTreeInv /\ FilledOK /\ FramesOK /\ \A c \in Client : Covering(c)

(* What the end of a call of tag leaves. *)
Ends(c) ==
  req[c].op = "tag" /\ req'[c].op # "tag" /\ faults' = faults =>
    \A name \in {req[c].name} : due[c] \subseteq TaggedFolders(name)'

(* A step of c leaves the visits of the others alone. *)
OthersVisit(c) ==
  \A d \in Client \ {c} : /\ pc'[d] = pc[d] /\ req'[d] = req[d] /\ fid'[d] = fid[d]
                          /\ tid'[d] = tid[d] /\ frames'[d] = frames[d]

(* What the call of d relies on is still there after a step. *)
DueKept(d) ==
  due'[d] # {} =>
    /\ due'[d] \subseteq due[d] /\ folders \subseteq folders' /\ (UniquePaths => UniquePaths')
    /\ tags \subseteq tags' /\ filled \subseteq filled'
    /\ \A i \in due'[d] : \A t \in TagNamed(req[d].name) :
         <<t.id, i>> \in assoc => <<t.id, i>> \in assoc'
    /\ made \in Nat /\ made' \in Nat /\ made <= made'
    /\ \A r \in folders' : r \in folders \/ \A s \in folders : s.id # r.id

(* Executed statements stay executed. *)
LEMMA StillExecuted ==
  ASSUME made \in Nat, made' \in Nat, made <= made', NEW table, Executed(table)
  PROVE  Executed(table)'
  <1>1. PICK i \in 1 .. made : DatabaseStatements[i] = table
    BY DEF Executed
  <1>2. i \in 1 .. made'
    BY <1>1
  <1> QED
    BY <1>1, <1>2, SameSets DEF Executed

LEMMA CoverKept ==
  ASSUME NEW d \in Client, CoverOK(d), due'[d] # {}, DueKept(d),
         pc'[d] = pc[d], req'[d] = req[d], fid'[d] = fid[d], tid'[d] = tid[d],
         frames'[d] = frames[d]
  PROVE  CoverOK(d)'
  <1>1. /\ due'[d] \subseteq due[d] /\ folders \subseteq folders' /\ UniquePaths'
        /\ tags \subseteq tags' /\ filled \subseteq filled'
        /\ \A r \in folders' : r \in folders \/ \A s \in folders : s.id # r.id
    BY DEF DueKept, CoverOK
  <1>2. Executed("tag2folder_tbl")'
    BY StillExecuted DEF DueKept, CoverOK
  <1>3. PICK n, p, i0 : n = req[d].name /\ p = req[d].path /\ i0 = fid[d]
    OBVIOUS
  <1>4. TagNamed(n) \subseteq TagNamed(n)' /\ Find(p) \subseteq Find(p)'
    BY <1>1 DEF TagNamed, Find
  <1>5. ASSUME NEW i, NEW j, Under(i, j)
        PROVE  Under(i, j)'
    BY <1>1, <1>5 DEF Under, Closed
  <1>6. ASSUME NEW i \in due'[d], i \in TaggedFolders(n)
        PROVE  i \in TaggedFolders(n)'
    <2>1. PICK r \in folders, t \in TagNamed(n) : r.id = i /\ <<t.id, i>> \in assoc
      BY <1>6 DEF TaggedFolders
    <2>2. <<t.id, i>> \in assoc' /\ r \in folders' /\ t \in TagNamed(n)'
      BY <1>1, <1>3, <1>4, <2>1 DEF DueKept
    <2> QED
      BY <2>1, <2>2 DEF TaggedFolders
  <1>7. Found(d)'
    BY <1>1, <1>3, <1>4 DEF Found, CoverOK
  <1>8. ASSUME NEW i \in due'[d]
        PROVE  DueIsLeaf(i)' /\ (i \in TaggedFolders(req[d].name) \/ Here(d, i) \/ Ahead(frames[d], i))'
    <2>1. DueIsLeaf(i)'
      BY <1>1 DEF DueIsLeaf, CoverOK
    <2>5. i \in due[d]
      BY <1>1
    <2>2. CASE i \in TaggedFolders(n)
      BY <1>3, <1>6, <2>1, <2>2
    <2>3. CASE Here(d, i)
      <3>1. Here(d, i)'
        BY <1>3, <1>4, <1>5, <2>3 DEF Here
      <3> QED
        BY <2>1, <3>1
    <2>4. CASE Ahead(frames[d], i)
      <3>1. Ahead(frames[d], i)'
        BY <1>5, <2>4 DEF Ahead
      <3> QED
        BY <2>1, <3>1
    <2> QED
      BY <1>3, <2>2, <2>3, <2>4, <2>5 DEF CoverOK
  <1>9. \A k \in DOMAIN frames'[d] : frames'[d][k] \subseteq folders'
    BY <1>1 DEF CoverOK
  <1> QED
    BY <1>1, <1>2, <1>3, <1>4, <1>7, <1>8, <1>9 DEF CoverOK

LEMMA OthersCovered ==
  ASSUME NEW c \in Client, NEW d \in Client \ {c}, Covering(d), OthersVisit(c), DueKept(d)
  PROVE  Covering(d)' /\ Ends(d)
  <1>1. /\ pc'[d] = pc[d] /\ req'[d] = req[d] /\ fid'[d] = fid[d] /\ tid'[d] = tid[d]
        /\ frames'[d] = frames[d]
    BY DEF OthersVisit
  <1>2. Ends(d)
    BY <1>1 DEF Ends
  <1>3. ASSUME req[d].op = "tag", due'[d] # {}
        PROVE  CoverOK(d)'
    <2>1. CoverOK(d)
      BY <1>3 DEF Covering, DueKept
    <2> QED
      BY <1>1, <1>3, <2>1, CoverKept
  <1>4. Visiting' = Visiting
    BY DEF Visiting
  <1> QED
    BY <1>1, <1>2, <1>3, <1>4 DEF Covering, IsCall

(* A client that is in no visit of tag, before and after. *)
LEMMA NotTagging ==
  ASSUME NEW c \in Client, req[c].op # "tag", req'[c].op # "tag", pc'[c] \notin Visiting
  PROVE  Covering(c)' /\ Ends(c)
  BY DEF Covering, Ends, Visiting

(* What of the types a step on one client leaves. *)
LEMMA NewFrames ==
  ASSUME FramesOK, NEW c \in Client, NEW fr \in Seq(SUBSET Row),
         frames' = [frames EXCEPT ![c] = fr]
  PROVE  /\ frames' \in [Client -> Seq(SUBSET Row)] /\ frames'[c] = fr
         /\ \A d \in Client \ {c} : frames'[d] = frames[d]
  BY DEF FramesOK

LEMMA NewDue ==
  ASSUME FramesOK, NEW c \in Client, NEW s, due' = [due EXCEPT ![c] = s]
  PROVE  /\ due' = [d \in Client |-> due'[d]] /\ due'[c] = s
         /\ \A d \in Client \ {c} : due'[d] = due[d]
  BY DEF FramesOK

(* The end of a call, and of a visit. *)
LEMMA TagCallEnded ==
  ASSUME CoverInv, NEW c \in Client, EndTagCall(c, "ready")
  PROVE  /\ FramesOK' /\ OthersVisit(c) /\ \A d \in Client \ {c} : due'[d] = due[d]
         /\ req'[c].op # "tag" /\ pc'[c] = "ready"
  <1>1. /\ pc' = [pc EXCEPT ![c] = "ready"] /\ req' = [req EXCEPT ![c] = NoRequest]
        /\ fid' = [fid EXCEPT ![c] = 0] /\ tid' = [tid EXCEPT ![c] = 0]
        /\ frames' = [frames EXCEPT ![c] = <<>>] /\ due' = [due EXCEPT ![c] = {}]
    BY DEF EndTagCall, EndCall, Goto
  <1>2. /\ FramesOK /\ pc \in [Client -> Label] /\ fid \in [Client -> Nat]
        /\ req = [d \in Client |-> req[d]] /\ tid \in [Client -> -1 .. nextTag - 1]
    BY DEF CoverInv, TagTreeInv, TreeInv, TreeTypeOK, TagInv, TagClientsOK
  <1>3. /\ due' = [d \in Client |-> due'[d]] /\ \A d \in Client \ {c} : due'[d] = due[d]
    BY <1>1, <1>2, NewDue
  <1>4. /\ frames' \in [Client -> Seq(SUBSET Row)]
        /\ \A d \in Client \ {c} : frames'[d] = frames[d]
    <2>1. <<>> \in Seq(SUBSET Row)
      OBVIOUS
    <2> QED
      BY <1>1, <1>2, <2>1, NewFrames
  <1>5. \A d \in Client \ {c} : /\ pc'[d] = pc[d] /\ req'[d] = req[d] /\ fid'[d] = fid[d]
                                /\ tid'[d] = tid[d]
    BY <1>1, <1>2
  <1>6. req'[c].op # "tag"
    <2>1. req'[c] = NoRequest
      BY <1>1, <1>2
    <2> QED
      BY <2>1 DEF NoRequest
  <1>7. FramesOK'
    BY <1>3, <1>4, SameSets DEF FramesOK
  <1>8. pc'[c] = "ready"
    BY <1>1, <1>2
  <1> QED
    BY <1>3, <1>4, <1>5, <1>6, <1>7, <1>8 DEF OthersVisit

(* What has to be so of the frames that a call of tag goes on with. *)
CanGoOn(c, rest) ==
  /\ UniquePaths /\ Executed("tag2folder_tbl")
  /\ \E t \in TagNamed(req[c].name) : tid[c] = t.id
  /\ \A k \in DOMAIN rest : rest[k] \subseteq folders
  /\ \A n \in {req[c].name} :
       \A i \in due[c] : DueIsLeaf(i) /\ (Ahead(rest, i) \/ i \in TaggedFolders(n)')

(* The frames with one child less. *)
LEMMA FramesLeft ==
  ASSUME NEW rest \in Seq(SUBSET Row), NEW k \in DOMAIN rest, NEW r \in rest[k],
         \A j \in k + 1 .. Len(rest) : rest[j] = {}
  PROVE  /\ Append(SubSeq(rest, 1, k - 1), rest[k] \ {r}) \in Seq(SUBSET Row)
         /\ \A m \in DOMAIN Append(SubSeq(rest, 1, k - 1), rest[k] \ {r}) :
              m \in DOMAIN rest /\ Append(SubSeq(rest, 1, k - 1), rest[k] \ {r})[m] \subseteq rest[m]
         /\ \A m \in DOMAIN rest : \A f \in rest[m] :
              \/ f = r
              \/ /\ m \in DOMAIN Append(SubSeq(rest, 1, k - 1), rest[k] \ {r})
                 /\ f \in Append(SubSeq(rest, 1, k - 1), rest[k] \ {r})[m]
  <1> DEFINE left == Append(SubSeq(rest, 1, k - 1), rest[k] \ {r})
             before == SubSeq(rest, 1, k - 1)
  <1>1. k \in Nat \ {0} /\ k <= Len(rest) /\ Len(rest) \in Nat /\ DOMAIN rest = 1 .. Len(rest)
    OBVIOUS
  <1>2. /\ before \in Seq(SUBSET Row) /\ Len(before) = k - 1
        /\ \A m \in 1 .. k - 1 : before[m] = rest[m]
    BY <1>1
  <1>3. rest[k] \ {r} \in SUBSET Row
    BY <1>1
  <1>4. /\ left \in Seq(SUBSET Row) /\ Len(left) = k /\ left[k] = rest[k] \ {r}
        /\ \A m \in 1 .. k - 1 : left[m] = rest[m]
    <2> HIDE DEF before
    <2>1. left = Append(before, rest[k] \ {r})
      BY DEF before
    <2> QED
      BY <1>1, <1>2, <1>3, <2>1
  <1> HIDE DEF left, before
  <1>5. DOMAIN left = 1 .. k
    BY <1>1, <1>4
  <1>6. ASSUME NEW m \in DOMAIN left
        PROVE  m \in DOMAIN rest /\ left[m] \subseteq rest[m]
    <2>1. m \in 1 .. k - 1 \/ m = k
      BY <1>1, <1>5
    <2> QED
      BY <1>1, <1>4, <2>1
  <1>7. ASSUME NEW m \in DOMAIN rest, NEW f \in rest[m]
        PROVE  f = r \/ (m \in DOMAIN left /\ f \in left[m])
    <2>1. m \in 1 .. k - 1 \/ m = k \/ m \in k + 1 .. Len(rest)
      BY <1>1
    <2> QED
      BY <1>1, <1>4, <1>5, <2>1
  <1> QED
    BY <1>4, <1>6, <1>7 DEF left

(* A request with another path. *)
LEMMA WithPath ==
  ASSUME NEW q, IsCall(q), NEW p, NEW w, w = [q EXCEPT !.path = p]
  PROVE  IsCall(w) /\ w.op = q.op /\ w.name = q.name /\ w.path = p
  <1>1. /\ DOMAIN w = DOMAIN q
        /\ \A field \in DOMAIN q : w[field] = IF field = "path" THEN p ELSE q[field]
        /\ w = [field \in DOMAIN q |-> w[field]]
    BY DEF IsCall
  <1>2. w["op"] = q["op"] /\ w["name"] = q["name"] /\ w["path"] = p
    BY <1>1 DEF IsCall
  <1> QED
    BY <1>1, <1>2 DEF IsCall

(* The visit of child r of the set on level k. *)
NextChild(c, rest, k, r) ==
  /\ \A j \in k + 1 .. Len(rest) : rest[j] = {}
  /\ frames' = [frames EXCEPT ![c] = Append(SubSeq(rest, 1, k - 1), rest[k] \ {r})]
  /\ req' = [req EXCEPT ![c].path = r.path]
  /\ pc' = [pc EXCEPT ![c] = "tag"] /\ UNCHANGED <<stack, todo, fid, tid, due>>

LEMMA GoOnOthers ==
  ASSUME CoverInv, NEW c \in Client, NEW rest \in Seq(SUBSET Row), GoOn(c, rest)
  PROVE  FramesOK' /\ OthersVisit(c) /\ \A d \in Client \ {c} : due'[d] = due[d]
  <1>1. CASE EndTagCall(c, "ready")
    BY <1>1, TagCallEnded
  <1>2. CASE ~EndTagCall(c, "ready")
    <2>10. PICK k \in DOMAIN rest : \E r \in rest[k] : NextChild(c, rest, k, r)
      BY <1>2 DEF GoOn, Goto, NextChild
    <2>11. PICK r \in rest[k] : NextChild(c, rest, k, r)
      BY <2>10
    <2>1. /\ \A j \in k + 1 .. Len(rest) : rest[j] = {}
          /\ frames' = [frames EXCEPT ![c] = Append(SubSeq(rest, 1, k - 1), rest[k] \ {r})]
          /\ req' = [req EXCEPT ![c].path = r.path]
          /\ pc' = [pc EXCEPT ![c] = "tag"] /\ UNCHANGED <<stack, todo, fid, tid, due>>
      BY <2>11 DEF NextChild
    <2>2. PICK left \in Seq(SUBSET Row) : frames' = [frames EXCEPT ![c] = left]
      BY <2>1, FramesLeft
    <2>3. /\ FramesOK /\ pc \in [Client -> Label] /\ req = [d \in Client |-> req[d]]
      BY DEF CoverInv, TagTreeInv, TreeInv, TreeTypeOK
    <2>4. /\ frames' \in [Client -> Seq(SUBSET Row)]
          /\ \A d \in Client \ {c} : frames'[d] = frames[d]
      BY <2>2, <2>3, NewFrames
    <2>5. \A d \in Client \ {c} : pc'[d] = pc[d] /\ req'[d] = req[d]
      BY <2>1, <2>3
    <2>6. FramesOK'
      BY <2>1, <2>3, <2>4, SameSets DEF FramesOK
    <2> QED
      BY <2>1, <2>4, <2>5, <2>6 DEF OthersVisit
  <1> QED
    BY <1>1, <1>2

LEMMA GoOnCovers ==
  ASSUME CoverInv, NEW c \in Client, pc[c] \in Visiting, NEW rest \in Seq(SUBSET Row),
         GoOn(c, rest), due[c] # {} => CanGoOn(c, rest),
         UNCHANGED <<made, folders, tags, filled>>
  PROVE  Covering(c)' /\ Ends(c)
  <1>1. req[c].op = "tag" /\ IsCall(req[c]) /\ (due[c] # {} => CoverOK(c))
    BY DEF CoverInv, Covering
  <1>2. CASE EndTagCall(c, "ready") /\ \A k \in DOMAIN rest : rest[k] = {}
    <2>1. Covering(c)'
      BY <1>2, TagCallEnded DEF Covering, Visiting
    <2>2. PICK n : n = req[c].name
      OBVIOUS
    <2>3. \A i \in due[c] : i \in TaggedFolders(n)'
      BY <1>2, <2>2 DEF CanGoOn, Ahead
    <2>4. Ends(c)
      BY <2>2, <2>3 DEF Ends
    <2> QED
      BY <2>1, <2>4
  <1>3. CASE ~(EndTagCall(c, "ready") /\ \A k \in DOMAIN rest : rest[k] = {})
    <2>10. PICK k \in DOMAIN rest : \E r \in rest[k] : NextChild(c, rest, k, r)
      BY <1>3 DEF GoOn, Goto, NextChild
    <2>11. PICK r \in rest[k] : NextChild(c, rest, k, r)
      BY <2>10
    <2>1. /\ \A j \in k + 1 .. Len(rest) : rest[j] = {}
          /\ frames' = [frames EXCEPT ![c] = Append(SubSeq(rest, 1, k - 1), rest[k] \ {r})]
          /\ req' = [req EXCEPT ![c].path = r.path]
          /\ pc' = [pc EXCEPT ![c] = "tag"] /\ UNCHANGED <<stack, todo, fid, tid, due>>
      BY <2>11 DEF NextChild
    <2>2. PICK left : left = Append(SubSeq(rest, 1, k - 1), rest[k] \ {r})
      OBVIOUS
    <2>3. /\ left \in Seq(SUBSET Row)
          /\ \A m \in DOMAIN left : m \in DOMAIN rest /\ left[m] \subseteq rest[m]
          /\ \A m \in DOMAIN rest : \A f \in rest[m] : f = r \/ (m \in DOMAIN left /\ f \in left[m])
      BY <2>1, <2>2, FramesLeft
    <2>4. FramesOK /\ pc \in [Client -> Label] /\ req = [d \in Client |-> req[d]]
      BY DEF CoverInv, TagTreeInv, TreeInv, TreeTypeOK
    <2>5. frames'[c] = left /\ pc'[c] = "tag" /\ req'[c] = [req[c] EXCEPT !.path = r.path]
      BY <2>1, <2>2, <2>3, <2>4, NewFrames
    <2>6. /\ IsCall(req'[c]) /\ req'[c].op = "tag" /\ req'[c].name = req[c].name
          /\ req'[c].path = r.path
      <3>1. PICK q, p, w : q = req[c] /\ p = r.path /\ w = req'[c]
        OBVIOUS
      <3>2. IsCall(q) /\ w = [q EXCEPT !.path = p]
        BY <1>1, <2>5, <3>1
      <3>3. IsCall(w) /\ w.op = q.op /\ w.name = q.name /\ w.path = p
        BY <3>2, WithPath
      <3> QED
        BY <1>1, <3>1, <3>3
    <2>7. Ends(c)
      BY <2>6 DEF Ends
    <2>8. ASSUME due'[c] # {}
          PROVE  CoverOK(c)'
      <3>1. CanGoOn(c, rest) /\ CoverOK(c) /\ due'[c] = due[c]
        BY <1>1, <2>1, <2>8
      <3>2. UniquePaths' /\ r \in folders
        BY <2>1, <3>1 DEF CanGoOn, UniquePaths
      <3>3. Executed("tag2folder_tbl")'
        BY <3>1, SameSets DEF CanGoOn, Executed
      <3>4. PICK n : n = req[c].name
        OBVIOUS
      <3>5. TagNamed(n)' # {}
        BY <3>1, <3>4 DEF CanGoOn, TagNamed
      <3>6. \A m \in DOMAIN left : left[m] \subseteq folders'
        BY <2>3, <3>1 DEF CanGoOn
      <3>7. r \in Find(r.path)'
        BY <3>2 DEF Find
      <3>8. Found(c)'
        BY <2>5, <2>6, <3>7 DEF Found
      <3>9. ASSUME NEW i \in due[c]
            PROVE  /\ DueIsLeaf(i)'
                   /\ i \in TaggedFolders(n)' \/ Here(c, i)' \/ Ahead(left, i)'
        <4>1. DueIsLeaf(i)' /\ (Ahead(rest, i) \/ i \in TaggedFolders(n)')
          BY <3>1, <3>4 DEF CanGoOn, DueIsLeaf
        <4>2. ASSUME NEW m \in DOMAIN rest, NEW f \in rest[m], Under(i, f.id)
              PROVE  Here(c, i)' \/ Ahead(left, i)'
          <5>1. Under(i, f.id)'
            BY <4>2 DEF Under, Closed
          <5>2. CASE f = r
            BY <2>5, <2>6, <3>7, <5>1, <5>2 DEF Here
          <5>3. CASE f # r
            <6>1. m \in DOMAIN left /\ f \in left[m]
              BY <2>3, <5>3
            <6> QED
              BY <5>1, <6>1 DEF Ahead
          <5> QED
            BY <5>2, <5>3
        <4> QED
          BY <4>1, <4>2 DEF Ahead
      <3> QED
        BY <2>5, <2>6, <3>1, <3>2, <3>3, <3>4, <3>5, <3>6, <3>8, <3>9 DEF CoverOK
    <2> QED
      BY <2>5, <2>6, <2>7, <2>8 DEF Covering, Visiting
  <1> QED
    BY <1>2, <1>3
-----------------------------------------------------------------------------
(* What is beneath a folder set is at or beneath one of its children; nothing
   is beneath a folder. *)
LEMMA BeneathSet ==
  ASSUME TagTreeInv, NEW i, NEW j, Under(i, j), DueIsLeaf(i),
         NEW r \in folders, r.id = j, r.kind = "set"
  PROVE  \E f \in Children(j) : Under(i, f.id)
  <1> DEFINE beneath == {s.id : s \in {t \in folders : \E f \in Children(j) : Under(t.id, f.id)}}
  <1>1. i # j
    <2>1. \A p, s \in folders : p.id = s.id => p = s
      BY DEF TagTreeInv, TreeInv, RowsOK
    <2> QED
      BY <2>1 DEF DueIsLeaf
  <1>2. Closed({j} \cup beneath)
    <2> SUFFICES ASSUME NEW s \in folders, s.parent \in {j} \cup beneath
                 PROVE  s.id \in beneath
      BY DEF Closed
    <2>1. CASE s.parent = j
      <3>1. s \in Children(j) /\ Under(s.id, s.id)
        BY <2>1 DEF Children, Under
      <3> QED
        BY <3>1
    <2>2. CASE s.parent \in beneath
      <3>1. PICK f \in Children(j) : Under(s.parent, f.id)
        BY <2>2
      <3>2. Under(s.id, f.id)
        BY <3>1 DEF Under, Closed
      <3> QED
        BY <3>2
    <2> QED
      BY <2>1, <2>2
  <1>3. i \in beneath
    <2>1. i \in {j} \cup beneath
      <3> HIDE DEF beneath
      <3> QED
        BY <1>2 DEF Under
    <2> QED
      BY <1>1, <2>1
  <1> QED
    BY <1>3

LEMMA BeneathFolder ==
  ASSUME TagTreeInv, NEW i, NEW j, Under(i, j), NEW r \in folders, r.id = j,
         \A s \in folders : s.id = j => s.kind # "set"
  PROVE  i = j
  <1>1. \A s, p \in folders : s.parent = p.id => p.kind = "set"
    BY DEF TagTreeInv, TreeInv, RowsOK, RowOK
  <1>2. Closed({j})
    BY <1>1 DEF Closed
  <1> QED
    BY <1>2 DEF Under

LEMMA LeavesUnder ==
  ASSUME NEW r \in folders, NEW i \in Leaves(r.id)
  PROVE  DueIsLeaf(i) /\ Under(i, r.id)
  <1> DEFINE rows == {s.id : s \in folders}
  <1>1. ASSUME NEW ids, r.id \in ids, Closed(ids)
        PROVE  i \in ids
    <2>1. r.id \in ids \cap rows /\ ids \cap rows \in SUBSET rows
      BY <1>1
    <2>2. Closed(ids \cap rows)
      BY <1>1 DEF Closed
    <2> QED
      BY <2>1, <2>2 DEF Leaves
  <1>2. DueIsLeaf(i)
    BY DEF Leaves, DueIsLeaf
  <1>3. Under(i, r.id)
    BY <1>1 DEF Under
  <1> QED
    BY <1>2, <1>3

(* What a step of client c has to keep. *)
Covers(c) ==
  /\ FramesOK' /\ OthersVisit(c) /\ \A d \in Client \ {c} : DueKept(d)
  /\ Covering(c)' /\ Ends(c)

LEMMA SameRows ==
  ASSUME CoverInv, NEW c \in Client, \A d \in Client \ {c} : due'[d] = due[d],
         made' = made, folders' = folders, tags \subseteq tags', assoc \subseteq assoc',
         filled \subseteq filled'
  PROVE  \A d \in Client \ {c} : DueKept(d)
  <1>1. made \in Nat
    BY DEF CoverInv, TagTreeInv, TreeInv, TreeTypeOK
  <1>2. UniquePaths' <=> UniquePaths
    BY DEF UniquePaths
  <1> QED
    BY <1>1, <1>2 DEF DueKept

(* A step that only goes to the next label. *)
LEMMA LabelStep ==
  ASSUME CoverInv, NEW c \in Client, NEW l, pc' = [pc EXCEPT ![c] = l], req' = req,
         frames' = frames, due' = due,
         NEW f, fid' = [fid EXCEPT ![c] = f], NEW i, tid' = [tid EXCEPT ![c] = i]
  PROVE  /\ FramesOK' /\ OthersVisit(c) /\ \A d \in Client \ {c} : due'[d] = due[d]
         /\ pc'[c] = l /\ fid'[c] = f /\ tid'[c] = i
  <1>1. /\ pc \in [Client -> Label] /\ fid \in [Client -> Nat]
        /\ tid \in [Client -> -1 .. nextTag - 1] /\ FramesOK
    BY DEF CoverInv, TagTreeInv, TreeInv, TreeTypeOK, TagInv, TagClientsOK
  <1>2. FramesOK'
    BY <1>1, SameSets DEF FramesOK
  <1> QED
    BY <1>1, <1>2 DEF OthersVisit

LEMMA SameIds ==
  ASSUME CoverInv, NEW c \in Client
  PROVE  /\ fid = [fid EXCEPT ![c] = fid[c]] /\ tid = [tid EXCEPT ![c] = tid[c]]
         /\ frames[c] \in Seq(SUBSET Row)
  BY DEF CoverInv, TagTreeInv, TreeInv, TreeTypeOK, TagInv, TagClientsOK, FramesOK

(* A visit that goes on with the same folder or folder set. *)
LEMMA CoverMoves ==
  ASSUME NEW c \in Client, CoverOK(c), UNCHANGED <<made, folders, tags, assoc, filled>>,
         req'[c] = req[c], frames'[c] = frames[c], due'[c] = due[c], Found(c)',
         \A i \in due[c] : Here(c, i) => Here(c, i)'
  PROVE  CoverOK(c)'
  <1>1. UniquePaths' /\ Executed("tag2folder_tbl")'
    BY SameSets DEF CoverOK, UniquePaths, Executed
  <1>2. PICK n : n = req[c].name
    OBVIOUS
  <1>3. TagNamed(n)' = TagNamed(n) /\ TaggedFolders(n)' = TaggedFolders(n)
    BY DEF TagNamed, TaggedFolders
  <1>4. ASSUME NEW i \in due[c]
        PROVE  DueIsLeaf(i)' /\ (i \in TaggedFolders(n)' \/ Here(c, i)' \/ Ahead(frames[c], i)')
    <2>1. DueIsLeaf(i)'
      BY DEF CoverOK, DueIsLeaf
    <2>2. Ahead(frames[c], i) => Ahead(frames[c], i)'
      BY DEF Ahead, Under, Closed
    <2> QED
      BY <1>2, <1>3, <2>1, <2>2 DEF CoverOK
  <1>5. \A k \in DOMAIN frames'[c] : frames'[c][k] \subseteq folders'
    BY DEF CoverOK
  <1> QED
    BY <1>1, <1>2, <1>3, <1>4, <1>5 DEF CoverOK

LEMMA SwallowedCovers ==
  ASSUME CoverInv, NEW c \in Client, pc[c] \in {"tag", "tagFolder", "untagFolder"},
         Swallowed(c), pc[c] \in Visiting => due[c] = {}, TagUnchanged
  PROVE  Covers(c)
  <1>1. /\ made' = made /\ folders' = folders /\ tags' = tags /\ assoc' = assoc
        /\ filled' = filled
    BY DEF TagUnchanged, tree
  <1>2. CASE frames[c] = <<>>
    <2>1. EndTagCall(c, "ready")
      BY <1>2 DEF Swallowed
    <2>2. /\ FramesOK' /\ OthersVisit(c) /\ \A d \in Client \ {c} : due'[d] = due[d]
          /\ req'[c].op # "tag" /\ pc'[c] = "ready"
      BY <2>1, TagCallEnded
    <2>3. Covering(c)'
      BY <2>2 DEF Covering, Visiting
    <2>4. Ends(c)
      BY DEF Ends, CoverInv, Covering
    <2> QED
      BY <1>1, <2>2, <2>3, <2>4, SameRows DEF Covers
  <1>3. CASE frames[c] # <<>>
    <2>1. pc[c] \in Visiting
      BY <1>3, TagClient DEF CoverInv, TagTreeInv
    <2>2. PICK rest \in Seq(SUBSET Row) : GoOn(c, rest)
      <3>1. Front(frames[c]) \in Seq(SUBSET Row)
        BY <1>3, SameIds DEF Front
      <3> QED
        BY <1>3, <3>1 DEF Swallowed
    <2>3. Covering(c)' /\ Ends(c)
      BY <1>1, <2>1, <2>2, GoOnCovers
    <2>4. FramesOK' /\ OthersVisit(c) /\ \A d \in Client \ {c} : due'[d] = due[d]
      BY <2>2, GoOnOthers
    <2> QED
      BY <1>1, <2>3, <2>4, SameRows DEF Covers
  <1> QED
    BY <1>2, <1>3

(* A call of CondDBTagMgr begins. *)
LEMMA CallTagMgrCovers ==
  ASSUME CoverInv, NEW c \in Client, NEW q \in Request[c], CallTagMgr(c, q)
  PROVE  Covers(c)
  <1>1. /\ pc[c] = "ready" /\ q.op \notin FolderCalls /\ made' = made /\ folders' = folders
        /\ tags' = tags /\ assoc' = assoc /\ filled' = filled /\ frames' = frames
        /\ fid' = fid /\ tid' = tid
    BY DEF CallTagMgr
  <1>2. /\ FramesOK /\ pc \in [Client -> Label] /\ req = [d \in Client |-> req[d]]
    BY DEF CoverInv, TagTreeInv, TreeInv, TreeTypeOK
  <1>3. req[c].op # "tag"
    BY <1>1 DEF CoverInv, Covering, Visiting
  <1>4. CASE Executed("HEAD row")
    <2>1. /\ req' = [req EXCEPT ![c] = q] /\ pc' = [pc EXCEPT ![c] = q.op]
          /\ due' = [due EXCEPT ![c] = Due(q)]
      BY <1>4 DEF CallTagMgr, Goto
    <2>2. req'[c] = q /\ pc'[c] = q.op /\ OthersVisit(c)
      BY <1>1, <1>2, <2>1 DEF OthersVisit
    <2>3. /\ due' = [d \in Client |-> due'[d]] /\ due'[c] = Due(q)
          /\ \A d \in Client \ {c} : due'[d] = due[d]
      BY <1>2, <2>1, NewDue
    <2>4. FramesOK'
      BY <1>1, <1>2, <2>3, SameSets DEF FramesOK
    <2>5. Ends(c)
      BY <1>3 DEF Ends
    <2>6. q.op \in Visiting <=> q.op = "tag"
      BY <1>1, TagRequestAssumption DEF TagCalls, Visiting
    <2>7. q.op = "tag" => IsCall(q)
      BY TagRequestAssumption DEF IsCall
    <2>8. ASSUME q.op = "tag", Due(q) # {}
          PROVE  CoverOK(c)'
      <3>1. /\ Executed("tag2folder_tbl") /\ TagNamed(q.name) # {} /\ UniquePaths
            /\ Due(q) = UNION {Leaves(r.id) : r \in Find(q.path)}
        BY <2>8 DEF Due
      <3>2. \A i \in Due(q) : \E r \in Find(q.path) : DueIsLeaf(i) /\ Under(i, r.id)
        <4>1. ASSUME NEW r \in Find(q.path), NEW i \in Leaves(r.id)
              PROVE  DueIsLeaf(i) /\ Under(i, r.id)
          BY LeavesUnder DEF Find
        <4> QED
          BY <3>1, <4>1
      <3>3. /\ UniquePaths' /\ Executed("tag2folder_tbl")' /\ TagNamed(q.name)' # {}
            /\ Find(q.path)' = Find(q.path)
        BY <1>1, <3>1, SameSets DEF UniquePaths, Executed, TagNamed, Find
      <3>4. Found(c)'
        <4>1. Find(q.path)' # {}
          BY <2>8, <3>2, <3>3
        <4> QED
          BY <2>2, <2>8, <4>1 DEF Found
      <3>5. ASSUME NEW i \in Due(q)
            PROVE  DueIsLeaf(i)' /\ Here(c, i)'
        <4>1. PICK r \in Find(q.path) : DueIsLeaf(i) /\ Under(i, r.id)
          BY <3>2
        <4>2. DueIsLeaf(i)' /\ Under(i, r.id)'
          BY <1>1, <4>1 DEF DueIsLeaf, Under, Closed
        <4> QED
          BY <2>2, <2>8, <3>3, <4>2 DEF Here
      <3>6. frames'[c] = <<>>
        BY <1>1 DEF CoverInv, TagTreeInv, TagInv, TagClientsOK, Visiting
      <3> QED
        BY <2>2, <2>3, <3>3, <3>4, <3>5, <3>6 DEF CoverOK
    <2>9. Covering(c)'
      BY <2>2, <2>3, <2>6, <2>7, <2>8 DEF Covering, IsCall, Visiting
    <2> QED
      BY <1>1, <2>2, <2>3, <2>4, <2>5, <2>9, SameRows DEF Covers
  <1>5. CASE ~Executed("HEAD row")
    <2>1. pc' = pc /\ req' = req /\ due' = due
      BY <1>5 DEF CallTagMgr
    <2>2. OthersVisit(c) /\ \A d \in Client \ {c} : due'[d] = due[d]
      BY <1>1, <2>1 DEF OthersVisit
    <2>3. FramesOK'
      BY <1>1, <1>2, <2>1, SameSets DEF FramesOK
    <2>4. Covering(c)' /\ Ends(c)
      BY <1>1, <1>3, <2>1, NotTagging DEF Visiting
    <2> QED
      BY <1>1, <2>2, <2>3, <2>4, SameRows DEF Covers
  <1> QED
    BY <1>4, <1>5

(* A client that is not in a visit goes on with its call, or ends it. *)
LEMMA OtherCallGoesOn ==
  ASSUME CoverInv, NEW c \in Client, pc[c] \notin Visiting, NEW l, l \notin Visiting,
         pc' = [pc EXCEPT ![c] = l], req' = req, frames' = frames, due' = due,
         NEW f, fid' = [fid EXCEPT ![c] = f], NEW i, tid' = [tid EXCEPT ![c] = i],
         made' = made, folders' = folders, tags \subseteq tags', assoc \subseteq assoc',
         filled \subseteq filled'
  PROVE  Covers(c)
  <1>1. /\ FramesOK' /\ OthersVisit(c) /\ \A d \in Client \ {c} : due'[d] = due[d]
        /\ pc'[c] = l
    BY LabelStep
  <1>2. req[c].op # "tag"
    BY DEF CoverInv, Covering
  <1>3. Covering(c)' /\ Ends(c)
    BY <1>1, <1>2, NotTagging
  <1> QED
    BY <1>1, <1>3, SameRows DEF Covers

LEMMA OtherCallEnds ==
  ASSUME CoverInv, NEW c \in Client, pc[c] \notin Visiting, EndTagCall(c, "ready"),
         made' = made, folders' = folders, tags \subseteq tags', assoc \subseteq assoc',
         filled \subseteq filled'
  PROVE  Covers(c)
  <1>1. /\ FramesOK' /\ OthersVisit(c) /\ \A d \in Client \ {c} : due'[d] = due[d]
        /\ req'[c].op # "tag" /\ pc'[c] = "ready"
    BY TagCallEnded
  <1>2. req[c].op # "tag"
    BY DEF CoverInv, Covering
  <1>3. Covering(c)' /\ Ends(c)
    BY <1>1, <1>2, NotTagging DEF Visiting
  <1> QED
    BY <1>1, <1>3, SameRows DEF Covers

LEMMA TagExistsCovers ==
  ASSUME CoverInv, NEW c \in Client, TagExists(c)
  PROVE  Covers(c)
  <1>1. /\ pc[c] \notin Visiting /\ made' = made /\ folders' = folders /\ tags' = tags
        /\ assoc' = assoc /\ filled' = filled
    BY DEF TagExists, tree, Visiting
  <1>2. CASE EndTagCall(c, "ready")
    BY <1>1, <1>2, OtherCallEnds
  <1>3. CASE ~EndTagCall(c, "ready")
    <2>1. PICK l : l = IF pc[c] = "createTag" THEN "storeTag" ELSE "renameTag"
      OBVIOUS
    <2>2. /\ pc' = [pc EXCEPT ![c] = l] /\ req' = req /\ frames' = frames /\ due' = due
          /\ fid' = fid /\ tid' = tid
      BY <1>3, <2>1 DEF TagExists, Goto, locals, tagLocals
    <2>3. PICK f, i : f = fid[c] /\ i = tid[c]
      OBVIOUS
    <2>4. fid' = [fid EXCEPT ![c] = f] /\ tid' = [tid EXCEPT ![c] = i] /\ l \notin Visiting
      BY <2>1, <2>2, <2>3, SameIds DEF Visiting
    <2> QED
      BY <1>1, <2>2, <2>4, OtherCallGoesOn
  <1> QED
    BY <1>2, <1>3

(* tags_tbl changes: a name that is doubled or goes leaves nothing due. *)
LEMMA TagsChange ==
  ASSUME CoverInv, NEW c \in Client, pc[c] \notin Visiting, EndCall(c, "ready"),
         made' = made, folders' = folders, assoc' = assoc, filled' = filled,
         tid' = tid, frames' = frames, due' = [d \in Client |-> due'[d]],
         \A d \in Client : due'[d] # {} => due'[d] = due[d] /\ tags \subseteq tags'
  PROVE  Covers(c)
  <1>1. /\ FramesOK /\ pc \in [Client -> Label] /\ fid \in [Client -> Nat]
        /\ req = [d \in Client |-> req[d]] /\ made \in Nat
    BY DEF CoverInv, TagTreeInv, TreeInv, TreeTypeOK
  <1>2. /\ pc' = [pc EXCEPT ![c] = "ready"] /\ req' = [req EXCEPT ![c] = NoRequest]
        /\ fid' = [fid EXCEPT ![c] = 0]
    BY DEF EndCall, Goto
  <1>3. OthersVisit(c)
    BY <1>1, <1>2 DEF OthersVisit
  <1>4. FramesOK'
    BY <1>1, SameSets DEF FramesOK
  <1>5. req[c].op # "tag" /\ req'[c].op # "tag" /\ pc'[c] \notin Visiting
    <2>1. req'[c] = NoRequest /\ pc'[c] = "ready"
      BY <1>1, <1>2
    <2> QED
      BY <2>1 DEF CoverInv, Covering, NoRequest, Visiting
  <1>6. UniquePaths' <=> UniquePaths
    BY DEF UniquePaths
  <1>7. \A d \in Client \ {c} : DueKept(d)
    BY <1>1, <1>6 DEF DueKept
  <1> QED
    BY <1>3, <1>4, <1>5, <1>7, NotTagging DEF Covers

LEMMA StoreTagCovers ==
  ASSUME CoverInv, NEW c \in Client, StoreTag(c)
  PROVE  Covers(c)
  <1>1. /\ pc[c] \notin Visiting /\ EndCall(c, "ready") /\ made' = made /\ folders' = folders
        /\ assoc' = assoc /\ filled' = filled /\ tid' = tid /\ frames' = frames
        /\ due' = [d \in Client |-> IF UniqueNames' THEN due[d] ELSE {}] /\ tags \subseteq tags'
    BY DEF StoreTag, tree, Visiting
  <1>2. /\ due' = [d \in Client |-> due'[d]]
        /\ \A d \in Client : due'[d] # {} => due'[d] = due[d] /\ tags \subseteq tags'
    BY <1>1
  <1> QED
    BY <1>1, <1>2, TagsChange

LEMMA RenameTagCovers ==
  ASSUME CoverInv, NEW c \in Client, RenameTag(c) \/ DeleteTag(c)
  PROVE  Covers(c)
  <1>1. /\ pc[c] \notin Visiting /\ EndCall(c, "ready") /\ made' = made /\ folders' = folders
        /\ assoc' = assoc /\ filled' = filled /\ tid' = tid /\ frames' = frames
        /\ due' = [d \in Client |-> {}]
    BY DEF RenameTag, DeleteTag, tree, Visiting
  <1>2. /\ due' = [d \in Client |-> due'[d]]
        /\ \A d \in Client : due'[d] # {} => due'[d] = due[d] /\ tags \subseteq tags'
    BY <1>1
  <1> QED
    BY <1>1, <1>2, TagsChange

(* A visit that goes on with what it has found. *)
LEMMA VisitGoesOn ==
  ASSUME CoverInv, NEW c \in Client, pc[c] \in Visiting, NEW l \in Visiting,
         pc' = [pc EXCEPT ![c] = l], req' = req, frames' = frames, due' = due,
         NEW f, fid' = [fid EXCEPT ![c] = f], NEW i, tid' = [tid EXCEPT ![c] = i],
         made' = made, folders' = folders, tags' = tags, assoc' = assoc, filled' = filled,
         due[c] # {} => Found(c)' /\ \A j \in due[c] : Here(c, j) => Here(c, j)'
  PROVE  Covers(c)
  <1>1. /\ FramesOK' /\ OthersVisit(c) /\ \A d \in Client \ {c} : due'[d] = due[d]
        /\ pc'[c] = l
    BY LabelStep
  <1>2. /\ req[c].op = "tag" /\ IsCall(req[c]) /\ (due[c] # {} => CoverOK(c))
    BY DEF CoverInv, Covering
  <1>3. due[c] # {} => CoverOK(c)'
    BY <1>2, CoverMoves
  <1>4. Covering(c)'
    BY <1>1, <1>2, <1>3 DEF Covering, IsCall, Visiting
  <1>5. Ends(c)
    BY <1>2 DEF Ends
  <1> QED
    BY <1>1, <1>4, <1>5, SameRows DEF Covers

LEMMA VisitEnds ==
  ASSUME CoverInv, NEW c \in Client, pc[c] \in Visiting, NEW rest \in Seq(SUBSET Row),
         GoOn(c, rest), due[c] # {} => CanGoOn(c, rest), made' = made, folders' = folders,
         tags' = tags, assoc \subseteq assoc', filled' = filled
  PROVE  Covers(c)
  <1>1. Covering(c)' /\ Ends(c)
    BY GoOnCovers
  <1>2. FramesOK' /\ OthersVisit(c) /\ \A d \in Client \ {c} : due'[d] = due[d]
    BY GoOnOthers
  <1> QED
    BY <1>1, <1>2, SameRows DEF Covers

LEMMA VisitRelies ==
  ASSUME CoverInv, NEW c \in Client, pc[c] \in Visiting, due[c] # {}
  PROVE  CoverOK(c)
  BY DEF CoverInv, Covering

LEMMA TagGetIdCovers ==
  ASSUME CoverInv, NEW c \in Client, TagGetId(c)
  PROVE  Covers(c)
  <1>1. /\ pc[c] \in {"tag", "untag"} /\ TagUnchanged
        /\ made' = made /\ folders' = folders /\ tags' = tags /\ assoc' = assoc
        /\ filled' = filled
    BY DEF TagGetId, TagUnchanged, tree
  <1>2. ASSUME TagNamed(req[c].name) = {}, pc[c] = "tag", Swallowed(c)
        PROVE  Covers(c)
    <2>1. due[c] = {}
      BY <1>2, VisitRelies DEF CoverOK, Visiting
    <2> QED
      BY <1>1, <1>2, <2>1, SwallowedCovers
  <1>3. ASSUME NEW i \in {t.id : t \in TagNamed(req[c].name)}
                           \cup (IF TagNamed(req[c].name) = {} THEN {NoTag} ELSE {}),
               tid' = [tid EXCEPT ![c] = i],
               pc' = [pc EXCEPT ![c] = IF pc[c] = "tag" THEN "tagFolder" ELSE "untagFolder"],
               UNCHANGED locals, frames' = frames, due' = due
        PROVE  Covers(c)
    <2>1. req' = req /\ fid' = fid
      BY <1>3 DEF locals
    <2>2. PICK f : f = fid[c]
      OBVIOUS
    <2>3. fid' = [fid EXCEPT ![c] = f]
      BY <2>1, <2>2, SameIds
    <2>4. CASE pc[c] = "untag"
      <3>1. PICK l : l = "untagFolder"
        OBVIOUS
      <3>2. pc' = [pc EXCEPT ![c] = l] /\ l \notin Visiting /\ pc[c] \notin Visiting
        BY <1>3, <2>4, <3>1 DEF Visiting
      <3> QED
        BY <1>1, <1>3, <2>1, <2>3, <3>2, OtherCallGoesOn
    <2>5. CASE pc[c] = "tag"
      <3>1. PICK l : l = "tagFolder"
        OBVIOUS
      <3>2. pc' = [pc EXCEPT ![c] = l] /\ l \in Visiting /\ pc[c] \in Visiting
        BY <1>3, <2>5, <3>1 DEF Visiting
      <3>3. /\ pc'[c] = l /\ tid'[c] = i /\ fid'[c] = f
        <4>1. /\ pc' = [pc EXCEPT ![c] = l] /\ req' = req /\ frames' = frames /\ due' = due
              /\ fid' = [fid EXCEPT ![c] = f] /\ tid' = [tid EXCEPT ![c] = i]
          BY <1>3, <2>1, <2>3, <3>2
        <4> QED
          BY <4>1, LabelStep
      <3>4. ASSUME due[c] # {}
            PROVE  Found(c)' /\ \A j \in due[c] : Here(c, j) => Here(c, j)'
        <4>1. CoverOK(c)
          BY <3>2, <3>4, VisitRelies
        <4>2. PICK n, p : n = req[c].name /\ p = req[c].path
          OBVIOUS
        <4>3. /\ TagNamed(n)' = TagNamed(n) /\ Find(p)' = Find(p)
          BY <1>1 DEF TagNamed, Find
        <4>4. \E t \in TagNamed(n) : i = t.id
          BY <4>1, <4>2 DEF CoverOK
        <4>5. Found(c)'
          BY <2>1, <2>5, <3>1, <3>3, <4>1, <4>2, <4>3, <4>4 DEF Found, CoverOK
        <4>6. ASSUME NEW j \in due[c], Here(c, j)
              PROVE  Here(c, j)'
          <5>1. PICK r \in Find(p) : Under(j, r.id)
            BY <2>5, <4>2, <4>6 DEF Here
          <5>2. Under(j, r.id)' /\ r \in Find(p)'
            BY <1>1, <4>3, <5>1 DEF Under, Closed
          <5> QED
            BY <2>1, <3>1, <3>3, <4>2, <5>2 DEF Here
        <4> QED
          BY <4>5, <4>6
      <3> QED
        BY <1>1, <1>3, <2>1, <2>3, <3>2, <3>4, VisitGoesOn
    <2> QED
      BY <1>1, <2>4, <2>5
  <1> QED
    BY <1>2, <1>3 DEF TagGetId, Goto

LEMMA TagGetFolderCovers ==
  ASSUME CoverInv, NEW c \in Client, TagGetFolder(c)
  PROVE  Covers(c)
  <1>1. /\ pc[c] \in {"tagFolder", "untagFolder"} /\ TagUnchanged
        /\ made' = made /\ folders' = folders /\ tags' = tags /\ assoc' = assoc
        /\ filled' = filled
    BY DEF TagGetFolder, TagUnchanged, tree
  <1>2. ASSUME Find(req[c].path) = {}, Swallowed(c)
        PROVE  Covers(c)
    <2>1. pc[c] \in Visiting => due[c] = {}
      BY <1>1, <1>2, VisitRelies DEF CoverOK, Found, Visiting
    <2> QED
      BY <1>1, <1>2, <2>1, SwallowedCovers
  <1>3. ASSUME NEW r \in Find(req[c].path), fid' = [fid EXCEPT ![c] = r.id],
               pc' = [pc EXCEPT ![c] = IF pc[c] = "tagFolder" THEN "tagLook" ELSE "untagObjects"],
               req' = req, UNCHANGED tagLocals
        PROVE  Covers(c)
    <2>1. tid' = tid /\ frames' = frames /\ due' = due
      BY <1>3 DEF tagLocals
    <2>2. PICK i, f : i = tid[c] /\ f = r.id
      OBVIOUS
    <2>3. tid' = [tid EXCEPT ![c] = i] /\ fid' = [fid EXCEPT ![c] = f]
      BY <1>3, <2>1, <2>2, SameIds
    <2>4. CASE pc[c] = "untagFolder"
      <3>1. PICK l : l = "untagObjects"
        OBVIOUS
      <3>2. pc' = [pc EXCEPT ![c] = l] /\ l \notin Visiting /\ pc[c] \notin Visiting
        BY <1>3, <2>4, <3>1 DEF Visiting
      <3> QED
        BY <1>1, <1>3, <2>1, <2>3, <3>2, OtherCallGoesOn
    <2>5. CASE pc[c] = "tagFolder"
      <3>1. PICK l : l = "tagLook"
        OBVIOUS
      <3>2. pc' = [pc EXCEPT ![c] = l] /\ l \in Visiting /\ pc[c] \in Visiting
        BY <1>3, <2>5, <3>1 DEF Visiting
      <3>3. /\ pc'[c] = l /\ tid'[c] = i /\ fid'[c] = f
        <4>1. /\ pc' = [pc EXCEPT ![c] = l] /\ req' = req /\ frames' = frames /\ due' = due
              /\ fid' = [fid EXCEPT ![c] = f] /\ tid' = [tid EXCEPT ![c] = i]
          BY <1>3, <2>1, <2>3, <3>2
        <4> QED
          BY <4>1, LabelStep
      <3>4. ASSUME due[c] # {}
            PROVE  Found(c)' /\ \A j \in due[c] : Here(c, j) => Here(c, j)'
        <4>1. CoverOK(c)
          BY <3>2, <3>4, VisitRelies
        <4>2. PICK n, p : n = req[c].name /\ p = req[c].path
          OBVIOUS
        <4>3. /\ TagNamed(n)' = TagNamed(n) /\ r \in folders'
          BY <1>1 DEF TagNamed, Find
        <4>4. Found(c)'
          BY <1>3, <2>2, <2>5, <3>1, <3>3, <4>1, <4>2, <4>3 DEF Found, CoverOK
        <4>5. ASSUME NEW j \in due[c], Here(c, j)
              PROVE  Here(c, j)'
          <5>1. PICK s \in Find(p) : Under(j, s.id)
            BY <2>5, <4>2, <4>5 DEF Here
          <5>2. s = r
            BY <4>1, <4>2 DEF CoverOK, UniquePaths, Find
          <5>3. Under(j, f)'
            BY <1>1, <2>2, <5>1, <5>2 DEF Under, Closed
          <5> QED
            BY <3>1, <3>3, <5>3 DEF Here
        <4> QED
          BY <4>4, <4>5
      <3> QED
        BY <1>1, <1>3, <2>1, <2>3, <3>2, <3>4, VisitGoesOn
    <2> QED
      BY <1>1, <2>4, <2>5
  <1> QED
    BY <1>2, <1>3 DEF TagGetFolder, Goto

LEMMA TagLookCovers ==
  ASSUME CoverInv, NEW c \in Client, TagLook(c)
  PROVE  Covers(c)
  <1>1. /\ pc[c] = "tagLook" /\ pc[c] \in Visiting
        /\ made' = made /\ folders' = folders /\ tags' = tags /\ assoc' = assoc
        /\ filled' = filled
    BY DEF TagLook, TagUnchanged, tree, Visiting
  <1>2. ASSUME NEW r \in folders, r.id = fid[c], r.kind = "set",
               GoOn(c, Append(frames[c], Children(fid[c])))
        PROVE  Covers(c)
    <2>1. PICK rest : rest = Append(frames[c], Children(fid[c]))
      OBVIOUS
    <2>2. Children(fid[c]) \in SUBSET Row /\ frames[c] \in Seq(SUBSET Row)
      BY SameIds DEF CoverInv, TagTreeInv, TreeInv, TreeTypeOK, Children
    <2>3. /\ rest \in Seq(SUBSET Row) /\ Len(frames[c]) \in Nat
          /\ DOMAIN frames[c] = 1 .. Len(frames[c]) /\ DOMAIN rest = 1 .. Len(frames[c]) + 1
          /\ \A k \in DOMAIN frames[c] : rest[k] = frames[c][k]
          /\ rest[Len(frames[c]) + 1] = Children(fid[c])
      BY <2>1, <2>2
    <2>4. ASSUME due[c] # {}
          PROVE  CanGoOn(c, rest)
      <3>1. CoverOK(c)
        BY <1>1, <2>4, VisitRelies
      <3>2. /\ UniquePaths /\ Executed("tag2folder_tbl")
            /\ \E t \in TagNamed(req[c].name) : tid[c] = t.id
        BY <1>1, <3>1 DEF CoverOK, Found
      <3>3. ASSUME NEW k \in DOMAIN rest
            PROVE  rest[k] \subseteq folders
        <4>1. k \in DOMAIN frames[c] \/ k = Len(frames[c]) + 1
          BY <2>3
        <4>2. \A m \in DOMAIN frames[c] : frames[c][m] \subseteq folders
          BY <3>1 DEF CoverOK
        <4> QED
          BY <2>3, <4>1, <4>2 DEF Children
      <3>4. PICK n : n = req[c].name
        OBVIOUS
      <3>5. ASSUME NEW i \in due[c]
            PROVE  DueIsLeaf(i) /\ (Ahead(rest, i) \/ i \in TaggedFolders(n)')
        <4>1. DueIsLeaf(i) /\ (i \in TaggedFolders(n) \/ Here(c, i) \/ Ahead(frames[c], i))
          BY <3>1, <3>4 DEF CoverOK
        <4>2. CASE i \in TaggedFolders(n)
          BY <1>1, <4>1, <4>2 DEF TaggedFolders, TagNamed
        <4>3. CASE Here(c, i)
          <5>1. Under(i, fid[c])
            BY <1>1, <4>3 DEF Here
          <5>2. \E f \in Children(fid[c]) : Under(i, f.id)
            <6>1. PICK j : j = fid[c]
              OBVIOUS
            <6>2. Under(i, j) /\ r.id = j /\ TagTreeInv
              BY <1>2, <5>1, <6>1 DEF CoverInv
            <6>3. \E f \in Children(j) : Under(i, f.id)
              BY <1>2, <4>1, <6>2, BeneathSet
            <6> QED
              BY <6>1, <6>3
          <5>3. Len(frames[c]) + 1 \in DOMAIN rest
            BY <2>3
          <5>4. Ahead(rest, i)
            BY <2>3, <5>2, <5>3 DEF Ahead
          <5> QED
            BY <4>1, <5>4
        <4>4. CASE Ahead(frames[c], i)
          <5>1. \A k \in DOMAIN frames[c] : k \in DOMAIN rest /\ rest[k] = frames[c][k]
            BY <2>3
          <5>2. Ahead(rest, i)
            BY <4>4, <5>1 DEF Ahead
          <5> QED
            BY <4>1, <5>2
        <4> QED
          BY <4>1, <4>2, <4>3, <4>4
      <3> QED
        BY <3>2, <3>3, <3>4, <3>5 DEF CanGoOn
    <2>5. GoOn(c, rest) /\ rest \in Seq(SUBSET Row)
      BY <1>2, <2>1, <2>3
    <2> QED
      BY <1>1, <2>4, <2>5, VisitEnds
  <1>3. ASSUME \A r \in folders : r.id = fid[c] => r.kind # "set",
               pc' = [pc EXCEPT ![c] = "tagObjects"], UNCHANGED locals, UNCHANGED tagLocals
        PROVE  Covers(c)
    <2>1. PICK l, f, i : l = "tagObjects" /\ f = fid[c] /\ i = tid[c]
      OBVIOUS
    <2>2. /\ pc' = [pc EXCEPT ![c] = l] /\ l \in Visiting /\ req' = req /\ frames' = frames
          /\ due' = due /\ fid' = [fid EXCEPT ![c] = f] /\ tid' = [tid EXCEPT ![c] = i]
      BY <1>3, <2>1, SameIds DEF locals, tagLocals, Visiting
    <2>3. pc'[c] = l /\ fid'[c] = f /\ tid'[c] = i
      BY <2>2, LabelStep
    <2>4. ASSUME due[c] # {}
          PROVE  Found(c)' /\ \A j \in due[c] : Here(c, j) => Here(c, j)'
      <3>1. CoverOK(c)
        BY <1>1, <2>4, VisitRelies
      <3>2. PICK n : n = req[c].name
        OBVIOUS
      <3>3. TagNamed(n)' = TagNamed(n)
        BY <1>1 DEF TagNamed
      <3>4. Found(c)'
        BY <1>1, <1>3, <2>1, <2>2, <2>3, <3>1, <3>2, <3>3 DEF Found, CoverOK
      <3>5. ASSUME NEW j \in due[c], Here(c, j)
            PROVE  Here(c, j)'
        <4>1. Under(j, f)'
          BY <1>1, <2>1, <3>5 DEF Here, Under, Closed
        <4> QED
          BY <2>1, <2>3, <4>1 DEF Here
      <3> QED
        BY <3>4, <3>5
    <2> QED
      BY <1>1, <2>2, <2>4, VisitGoesOn
  <1> QED
    BY <1>2, <1>3 DEF TagLook, Goto

(* A visit of a folder: of what is due, only the folder itself is here. *)
LEMMA HereIsFolder ==
  ASSUME CoverInv, NEW c \in Client, pc[c] \in {"tagObjects", "associate"}, due[c] # {},
         NEW i \in due[c], Here(c, i)
  PROVE  i = fid[c]
  <1>1. CoverOK(c) /\ TagTreeInv
    BY VisitRelies DEF Visiting, CoverInv
  <1>2. PICK j : j = fid[c]
    OBVIOUS
  <1>3. Under(i, j)
    BY <1>2 DEF Here
  <1>4. (\E r \in folders : r.id = j) /\ \A s \in folders : s.id = j => s.kind # "set"
    BY <1>1, <1>2 DEF CoverOK, Found
  <1>5. i = j
    BY <1>1, <1>3, <1>4, BeneathFolder
  <1> QED
    BY <1>2, <1>5

LEMMA TagObjectsCovers ==
  ASSUME CoverInv, NEW c \in Client, TagObjects(c)
  PROVE  Covers(c)
  <1>1. /\ pc[c] = "tagObjects" /\ pc[c] \in Visiting
        /\ made' = made /\ folders' = folders /\ tags' = tags /\ assoc' = assoc
        /\ filled' = filled
    BY DEF TagObjects, tree, Visiting
  <1>2. ASSUME pc' = [pc EXCEPT ![c] = "associate"], UNCHANGED locals, UNCHANGED tagLocals
        PROVE  Covers(c)
    <2>1. PICK l, f, i : l = "associate" /\ f = fid[c] /\ i = tid[c]
      OBVIOUS
    <2>2. /\ pc' = [pc EXCEPT ![c] = l] /\ l \in Visiting /\ req' = req /\ frames' = frames
          /\ due' = due /\ fid' = [fid EXCEPT ![c] = f] /\ tid' = [tid EXCEPT ![c] = i]
      BY <1>2, <2>1, SameIds DEF locals, tagLocals, Visiting
    <2>3. pc'[c] = l /\ fid'[c] = f /\ tid'[c] = i
      BY <2>2, LabelStep
    <2>4. ASSUME due[c] # {}
          PROVE  Found(c)' /\ \A j \in due[c] : Here(c, j) => Here(c, j)'
      <3>1. CoverOK(c)
        BY <1>1, <2>4, VisitRelies
      <3>2. PICK n : n = req[c].name
        OBVIOUS
      <3>3. TagNamed(n)' = TagNamed(n)
        BY <1>1 DEF TagNamed
      <3>4. Found(c)'
        BY <1>1, <2>1, <2>2, <2>3, <3>1, <3>2, <3>3 DEF Found, CoverOK
      <3>5. ASSUME NEW j \in due[c], Here(c, j)
            PROVE  Here(c, j)'
        <4>1. Under(j, f)'
          BY <1>1, <2>1, <3>5 DEF Here, Under, Closed
        <4> QED
          BY <2>1, <2>3, <4>1 DEF Here
      <3> QED
        BY <3>4, <3>5
    <2> QED
      BY <1>1, <2>2, <2>4, VisitGoesOn
  <1>3. ASSUME GoOn(c, frames[c]),
               ~({<<fid[c], "head">>, <<fid[c], "tag2obj">>} \subseteq tables /\ fid[c] \in filled)
        PROVE  Covers(c)
    <2>1. ASSUME due[c] # {}
          PROVE  CanGoOn(c, frames[c])
      <3>1. CoverOK(c)
        BY <1>1, <2>1, VisitRelies
      <3>2. PICK n : n = req[c].name
        OBVIOUS
      <3>3. ASSUME NEW i \in due[c]
            PROVE  DueIsLeaf(i) /\ (Ahead(frames[c], i) \/ i \in TaggedFolders(n)')
        <4>1. DueIsLeaf(i) /\ (i \in TaggedFolders(n) \/ Here(c, i) \/ Ahead(frames[c], i))
          BY <3>1, <3>2 DEF CoverOK
        <4>2. ~Here(c, i)
          <5>1. Here(c, i) => i = fid[c]
            BY <1>1, <2>1, HereIsFolder
          <5>2. i # fid[c]
            BY <1>3, <4>1 DEF DueIsLeaf, CoverInv, FilledOK
          <5> QED
            BY <5>1, <5>2
        <4>3. TaggedFolders(n)' = TaggedFolders(n)
          BY <1>1 DEF TaggedFolders, TagNamed
        <4> QED
          BY <4>1, <4>2, <4>3
      <3> QED
        BY <1>1, <3>1, <3>2, <3>3 DEF CanGoOn, CoverOK, Found
    <2>2. PICK rest \in Seq(SUBSET Row) : rest = frames[c]
      BY SameIds
    <2>3. GoOn(c, rest) /\ (due[c] # {} => CanGoOn(c, rest))
      BY <1>3, <2>1, <2>2
    <2> QED
      BY <1>1, <2>3, VisitEnds
  <1> QED
    BY <1>2, <1>3 DEF TagObjects, Goto

LEMMA AssociateCovers ==
  ASSUME CoverInv, NEW c \in Client, Associate(c)
  PROVE  Covers(c)
  <1>1. /\ pc[c] = "associate" /\ pc[c] \in Visiting /\ GoOn(c, frames[c])
        /\ made' = made /\ folders' = folders /\ tags' = tags /\ assoc \subseteq assoc'
        /\ filled' = filled
        /\ Executed("tag2folder_tbl") => <<tid[c], fid[c]>> \in assoc'
    BY DEF Associate, tree, Visiting
  <1>2. ASSUME due[c] # {}
        PROVE  CanGoOn(c, frames[c])
    <2>1. CoverOK(c)
      BY <1>1, <1>2, VisitRelies
    <2>2. PICK n : n = req[c].name
      OBVIOUS
    <2>3. TaggedFolders(n) \subseteq TaggedFolders(n)'
      BY <1>1 DEF TaggedFolders, TagNamed
    <2>4. fid[c] \in TaggedFolders(n)'
      <3>1. PICK r \in folders : r.id = fid[c]
        BY <1>1, <2>1 DEF CoverOK, Found
      <3>2. PICK t \in tags : t.name = n /\ tid[c] = t.id
        BY <1>1, <2>1, <2>2 DEF CoverOK, Found, TagNamed
      <3>3. <<t.id, r.id>> \in assoc'
        BY <1>1, <2>1, <3>1, <3>2 DEF CoverOK
      <3>4. PICK j : j = fid[c]
        OBVIOUS
      <3>5. r \in folders' /\ t \in TagNamed(n)' /\ r.id = j
        BY <1>1, <3>1, <3>2, <3>4 DEF TagNamed
      <3>6. j \in TaggedFolders(n)'
        BY <3>3, <3>5 DEF TaggedFolders
      <3> QED
        BY <3>4, <3>6
    <2>5. ASSUME NEW i \in due[c]
          PROVE  DueIsLeaf(i) /\ (Ahead(frames[c], i) \/ i \in TaggedFolders(n)')
      <3>1. DueIsLeaf(i) /\ (i \in TaggedFolders(n) \/ Here(c, i) \/ Ahead(frames[c], i))
        BY <2>1, <2>2 DEF CoverOK
      <3>2. Here(c, i) => i = fid[c]
        BY <1>1, <1>2, HereIsFolder
      <3> QED
        BY <2>3, <2>4, <3>1, <3>2
    <2> QED
      BY <1>1, <2>1, <2>2, <2>5 DEF CanGoOn, CoverOK, Found
  <1>3. PICK rest \in Seq(SUBSET Row) : rest = frames[c]
    BY SameIds
  <1>4. GoOn(c, rest) /\ (due[c] # {} => CanGoOn(c, rest))
    BY <1>1, <1>2, <1>3
  <1> QED
    BY <1>1, <1>4, VisitEnds

LEMMA OtherStepCovers ==
  ASSUME CoverInv, NEW c \in Client,
         UntagObjects(c) \/ UntagLook(c) \/ StoreLookup(c) \/ StoreObject(c)
  PROVE  Covers(c)
  <1>1. /\ pc[c] \notin Visiting /\ made' = made /\ folders' = folders /\ tags' = tags
        /\ assoc' = assoc /\ filled \subseteq filled'
    BY DEF UntagObjects, UntagLook, StoreLookup, StoreObject, TagUnchanged, tree, Visiting
  <1>2. CASE EndTagCall(c, "ready")
    BY <1>1, <1>2, OtherCallEnds
  <1>3. CASE ~EndTagCall(c, "ready") /\ StoreLookup(c)
    <2>1. PICK r \in Find(req[c].path) :
            /\ fid' = [fid EXCEPT ![c] = r.id] /\ pc' = [pc EXCEPT ![c] = "storeObject"]
            /\ req' = req /\ UNCHANGED tagLocals
      BY <1>3 DEF StoreLookup, Goto
    <2>2. tid' = tid /\ frames' = frames /\ due' = due
      BY <2>1 DEF tagLocals
    <2>3. PICK l, f, i : l = "storeObject" /\ f = r.id /\ i = tid[c]
      OBVIOUS
    <2>4. /\ pc' = [pc EXCEPT ![c] = l] /\ l \notin Visiting /\ fid' = [fid EXCEPT ![c] = f]
          /\ tid' = [tid EXCEPT ![c] = i] /\ req' = req
      BY <2>1, <2>2, <2>3, SameIds DEF Visiting
    <2> QED
      BY <1>1, <2>2, <2>4, OtherCallGoesOn
  <1>4. CASE ~EndTagCall(c, "ready") /\ (UntagObjects(c) \/ UntagLook(c))
    <2>1. PICK l, f, i : /\ l = IF pc[c] = "untagObjects" THEN "untagLook" ELSE "unassociate"
                         /\ f = fid[c] /\ i = tid[c]
      OBVIOUS
    <2>2. /\ pc' = [pc EXCEPT ![c] = l] /\ req' = req /\ frames' = frames /\ due' = due
          /\ fid' = fid /\ tid' = tid
      BY <1>4, <2>1 DEF UntagObjects, UntagLook, Goto, locals, tagLocals
    <2>3. fid' = [fid EXCEPT ![c] = f] /\ tid' = [tid EXCEPT ![c] = i] /\ l \notin Visiting
      BY <2>1, <2>2, SameIds DEF Visiting
    <2> QED
      BY <1>1, <2>2, <2>3, OtherCallGoesOn
  <1>5. CASE StoreObject(c)
    BY <1>2, <1>5 DEF StoreObject
  <1> QED
    BY <1>2, <1>3, <1>4, <1>5

(* An untag takes away the association of one folder, which is then not due. *)
LEMMA UnassociateCovers ==
  ASSUME CoverInv, NEW c \in Client, Unassociate(c)
  PROVE  Covers(c)
  <1>1. /\ pc[c] \notin Visiting /\ made' = made /\ folders' = folders /\ tags' = tags
        /\ filled' = filled /\ assoc' = assoc \ {<<tid[c], fid[c]>>}
        /\ pc' = [pc EXCEPT ![c] = "ready"] /\ req' = [req EXCEPT ![c] = NoRequest]
        /\ fid' = [fid EXCEPT ![c] = 0] /\ tid' = [tid EXCEPT ![c] = 0]
        /\ frames' = [frames EXCEPT ![c] = <<>>]
        /\ due' = [d \in Client |-> {i \in due[d] :
             ~ /\ i = fid[c] /\ <<tid[c], i>> \in assoc
               /\ \E t \in TagNamed(req[d].name) : t.id = tid[c]}]
    BY DEF Unassociate, EndCall, Goto, tree, Visiting
  <1>2. /\ FramesOK /\ pc \in [Client -> Label] /\ fid \in [Client -> Nat] /\ made \in Nat
        /\ req = [d \in Client |-> req[d]] /\ tid \in [Client -> -1 .. nextTag - 1]
    BY DEF CoverInv, TagTreeInv, TreeInv, TreeTypeOK, TagInv, TagClientsOK
  <1>3. /\ frames' \in [Client -> Seq(SUBSET Row)]
        /\ \A d \in Client \ {c} : frames'[d] = frames[d]
    <2>1. <<>> \in Seq(SUBSET Row)
      OBVIOUS
    <2> QED
      BY <1>1, <1>2, <2>1, NewFrames
  <1>4. FramesOK'
    <2>1. due' = [d \in Client |-> due'[d]]
      BY <1>1
    <2> QED
      BY <1>3, <2>1, SameSets DEF FramesOK
  <1>5. OthersVisit(c)
    BY <1>1, <1>2, <1>3 DEF OthersVisit
  <1>6. req[c].op # "tag" /\ req'[c].op # "tag" /\ pc'[c] \notin Visiting
    <2>1. req'[c] = NoRequest /\ pc'[c] = "ready"
      BY <1>1, <1>2
    <2> QED
      BY <1>1, <2>1 DEF CoverInv, Covering, NoRequest, Visiting
  <1>7. ASSUME NEW d \in Client \ {c}
        PROVE  DueKept(d)
    <2>1. due'[d] \subseteq due[d]
      BY <1>1
    <2>2. ASSUME NEW i \in due'[d], NEW t \in TagNamed(req[d].name), <<t.id, i>> \in assoc
          PROVE  <<t.id, i>> \in assoc'
      <3>1. ~(i = fid[c] /\ t.id = tid[c])
        BY <1>1, <2>2
      <3>2. <<t.id, i>> # <<tid[c], fid[c]>>
        BY <3>1
      <3> QED
        BY <1>1, <2>2, <3>2
    <2>3. UniquePaths' <=> UniquePaths
      BY <1>1 DEF UniquePaths
    <2> QED
      BY <1>1, <1>2, <2>1, <2>2, <2>3 DEF DueKept
  <1> QED
    BY <1>4, <1>5, <1>6, <1>7, NotTagging DEF Covers

(* The steps of FolderTree happen outside a visit, but for a crash. *)
LEMMA TreeStepRequests ==
  ASSUME CoverInv, NEW c \in Client, TreeStep(c)
  PROVE  /\ \A d \in Client \ {c} : req'[d] = req[d] /\ fid'[d] = fid[d]
         /\ req'[c] = req[c] \/ req'[c] = NoRequest \/ req'[c].op \in FolderCalls
         /\ pc'[c] \notin Visiting
         /\ pc[c] \notin Visiting \/ Crash(c)
         /\ tables \subseteq tables' /\ made' \in {made, made + 1}
  <1> DEFINE others == \A d \in Client \ {c} : req'[d] = req[d] /\ fid'[d] = fid[d]
             own    == req'[c] = req[c] \/ req'[c] = NoRequest \/ req'[c].op \in FolderCalls
             rows   == tables \subseteq tables' /\ made' \in {made, made + 1}
             away   == pc'[c] \notin Visiting /\ (pc[c] \notin Visiting \/ Crash(c))
  <1>1. /\ pc \in [Client -> Label] /\ req = [d \in Client |-> req[d]]
        /\ fid \in [Client -> Nat]
    BY DEF CoverInv, TagTreeInv, TreeInv, TreeTypeOK
  <1>2. ASSUME NEW l \in Label, EndCall(c, l)
        PROVE  others /\ own /\ pc'[c] = l
    BY <1>1, <1>2 DEF EndCall, Goto
  <1>3. ASSUME NEW l \in Label, Goto(c, l)
        PROVE  pc'[c] = l
    BY <1>1, <1>3 DEF Goto
  <1>4. ASSUME Throw(c)
        PROVE  others /\ own /\ pc'[c] = "ready" /\ rows
    BY <1>2, <1>4 DEF Throw, Label
  <1>5. ASSUME req' = req, fid' = fid
        PROVE  others /\ own
    BY <1>5
  <1>6. CASE OpenDatabase(c)
    BY <1>3, <1>5, <1>6 DEF OpenDatabase, Label, Visiting
  <1>7. CASE CreateDatabase(c)
    BY <1>3, <1>5, <1>7 DEF CreateDatabase, Label, Visiting
  <1>8. ASSUME NEW q \in Request[c], CallFolderMgr(c, q)
        PROVE  others /\ own /\ rows /\ away
    <2>1. CASE UNCHANGED <<pc, req, stack>>
      BY <1>5, <1>8, <2>1 DEF CallFolderMgr, Visiting
    <2>2. CASE req' = [req EXCEPT ![c] = q] /\ \E l \in {"lookup", "exist"} : Goto(c, l)
      <3>1. others /\ req'[c] = q /\ q.op \in FolderCalls
        BY <1>1, <1>8, <2>2 DEF CallFolderMgr
      <3>2. pc'[c] \in {"lookup", "exist"}
        BY <1>3, <2>2 DEF Label, Storing, Taking
      <3> QED
        BY <1>8, <3>1, <3>2 DEF CallFolderMgr, Visiting
    <2> QED
      BY <1>8, <2>1, <2>2 DEF CallFolderMgr
  <1>9. CASE Exist(c)
    BY <1>3, <1>4, <1>5, <1>9 DEF Exist, Label, Storing, Visiting
  <1>10. CASE FindParent(c)
    <2>1. pc[c] = "parent"
      BY <1>10 DEF FindParent
    <2>2. Throw(c) \/ (/\ req' = req /\ fid' = fid /\ made' = made /\ tables' = tables
                       /\ \E l \in {"insert", "root", "exist"} : Goto(c, l))
      BY <1>10 DEF FindParent, locals
    <2>3. {"insert", "root", "exist"} \subseteq Label
      BY DEF Label, Storing
    <2> QED
      BY <1>3, <1>4, <1>5, <2>1, <2>2, <2>3 DEF Visiting
  <1>11. CASE ExistRoot(c)
    BY <1>3, <1>4, <1>5, <1>11 DEF ExistRoot, Label, Storing, Visiting
  <1>12. CASE StoreRow(c)
    <2>1. pc[c] = "insert" /\ rows
      BY <1>12 DEF StoreRow, Throw
    <2>2. \/ Throw(c) \/ EndCall(c, "ready")
          \/ req' = req /\ (fid' = fid \/ \E f : fid' = [fid EXCEPT ![c] = f])
             /\ \E l \in {"again", "tables"} : Goto(c, l)
      <3>1. Len(stack[c]) \in Nat \ {0}
        BY <2>1, TopEntry DEF CoverInv, TagTreeInv, Storing
      <3>2. CASE Throw(c)
        BY <3>2
      <3>3. CASE ~Throw(c) /\ NewRow(c).kind = "set" /\ Len(stack[c]) > 1
        BY <1>12, <3>3 DEF StoreRow
      <3>4. CASE ~Throw(c) /\ NewRow(c).kind = "set" /\ ~(Len(stack[c]) > 1)
        <4>1. Len(stack[c]) = 1
          <5>1. ASSUME NEW n \in Nat \ {0}, ~(n > 1)
                PROVE  n = 1
            BY <5>1
          <5> QED
            BY <3>1, <3>4, <5>1
        <4> QED
          BY <1>12, <3>4, <4>1 DEF StoreRow
      <3>5. CASE ~Throw(c) /\ NewRow(c).kind # "set"
        BY <1>12, <3>5 DEF StoreRow
      <3> QED
        BY <3>2, <3>3, <3>4, <3>5
    <2>3. ASSUME req' = req, fid' = fid \/ \E f : fid' = [fid EXCEPT ![c] = f]
          PROVE  others /\ own
      BY <1>1, <2>3
    <2>4. {"again", "tables", "ready"} \subseteq Label
      BY DEF Label, Storing
    <2> QED
      BY <1>2, <1>3, <1>4, <2>1, <2>2, <2>3, <2>4 DEF Visiting
  <1>13. CASE FindParentAgain(c)
    <2>1. pc[c] = "again" /\ made' = made /\ tables' = tables
      BY <1>13 DEF FindParentAgain
    <2>2. EndCall(c, "closed") \/ (req' = req /\ fid' = fid /\ Goto(c, "insert"))
      BY <1>13 DEF FindParentAgain
    <2> QED
      BY <1>2, <1>3, <1>5, <2>1, <2>2 DEF Label, Storing, Visiting
  <1>14. CASE CreateTable(c)
    BY <1>2, <1>5, <1>14 DEF CreateTable, Label, Visiting
  <1>15. CASE LookupFolder(c)
    <2>1. pc[c] = "lookup"
      BY <1>15 DEF LookupFolder
    <2>2. Throw(c) \/ (/\ req' = req /\ made' = made /\ tables' = tables /\ Goto(c, "look")
                       /\ \E f : fid' = [fid EXCEPT ![c] = f])
      BY <1>15 DEF LookupFolder
    <2>3. ASSUME req' = req, \E f : fid' = [fid EXCEPT ![c] = f]
          PROVE  others /\ own
      BY <1>1, <2>3
    <2> QED
      BY <1>3, <1>4, <2>1, <2>2, <2>3 DEF Label, Taking, Visiting
  <1>16. CASE LookForChildren(c)
    BY <1>2, <1>3, <1>5, <1>16 DEF LookForChildren, Label, Taking, Visiting
  <1>17. CASE DeleteRow(c)
    BY <1>2, <1>17 DEF DeleteRow, Label, Visiting
  <1>18. CASE Crash(c)
    BY <1>2, <1>18 DEF Crash, Label, Visiting
  <1> QED
    BY <1>6, <1>7, <1>8, <1>9, <1>10, <1>11, <1>12, <1>13, <1>14, <1>15, <1>16, <1>17, <1>18
    DEF TreeStep

LEMMA ChangeTreeCovers ==
  ASSUME CoverInv, NEW c \in Client, ChangeTree(c)
  PROVE  Covers(c)
  <1>1. /\ TreeStep(c) /\ tid' = [tid EXCEPT ![c] = 0] /\ frames' = [frames EXCEPT ![c] = <<>>]
        /\ due' = [d \in Client |-> IF d # c /\ folders \subseteq folders' /\ UniquePaths'
                                    THEN due[d] ELSE {}]
        /\ tags' = tags /\ assoc' = assoc /\ filled' = filled
    BY DEF ChangeTree
  <1>2. /\ FramesOK /\ TreeInv /\ made \in Nat /\ faults \in Nat
        /\ tid \in [Client -> -1 .. nextTag - 1] /\ \A r \in folders : r.id < nextId
    <2>1. \A r \in folders : r.id \in 1 .. nextId - 1 /\ nextId \in Nat
      BY DEF CoverInv, TagTreeInv, TreeInv, TreeTypeOK, RowsOK, RowOK
    <2>2. \A r \in folders : r.id < nextId
      BY <2>1
    <2> QED
      BY <2>2 DEF CoverInv, TagTreeInv, TreeInv, TreeTypeOK, TagInv, TagClientsOK
  <1>3. /\ frames' \in [Client -> Seq(SUBSET Row)]
        /\ \A d \in Client \ {c} : frames'[d] = frames[d]
    <2>1. <<>> \in Seq(SUBSET Row)
      OBVIOUS
    <2> QED
      BY <1>1, <1>2, <2>1, NewFrames
  <1>4. FramesOK'
    <2>1. due' = [d \in Client |-> due'[d]]
      BY <1>1
    <2> QED
      BY <1>3, <2>1, SameSets DEF FramesOK
  <1>5. /\ \A d \in Client \ {c} : req'[d] = req[d] /\ fid'[d] = fid[d]
        /\ req'[c] = req[c] \/ req'[c] = NoRequest \/ req'[c].op \in FolderCalls
        /\ pc'[c] \notin Visiting /\ (pc[c] \notin Visiting \/ Crash(c))
        /\ made' \in {made, made + 1}
    BY <1>1, TreeStepRequests
  <1>6. OthersVisit(c)
    BY <1>1, <1>2, <1>3, <1>5, TreeStepLocal DEF OthersVisit
  <1>7. ASSUME NEW d \in Client \ {c}
        PROVE  DueKept(d)
    <2>1. due'[d] # {} => due'[d] = due[d] /\ folders \subseteq folders' /\ UniquePaths'
      BY <1>1
    <2>2. made' \in Nat /\ made <= made'
      BY <1>2, <1>5
    <2>3. \A r \in folders' : r \in folders \/ \A s \in folders : s.id # r.id
      <3>1. \A r \in folders' : r \in folders \/ r.id = nextId
        BY <1>1, TreeRows
      <3>2. \A s \in folders : s.id # nextId
        <4>1. \A s \in folders : s.id \in 1 .. nextId - 1 /\ nextId \in Nat
          BY <1>2 DEF TreeInv, TreeTypeOK, RowsOK, RowOK
        <4> QED
          BY <4>1
      <3> QED
        BY <3>1, <3>2
    <2> QED
      BY <1>1, <1>2, <2>1, <2>2, <2>3 DEF DueKept
  <1>8. CASE Crash(c)
    <2>1. faults' # faults
      BY <1>2, <1>8 DEF Crash
    <2>2. req'[c].op # "tag"
      <3>1. req'[c] = NoRequest
        BY <1>2, <1>8 DEF Crash, EndCall, TreeInv, TreeTypeOK
      <3> QED
        BY <3>1 DEF NoRequest
    <2>3. Covering(c)' /\ Ends(c)
      BY <1>5, <2>1, <2>2 DEF Covering, Ends, Visiting
    <2> QED
      BY <1>4, <1>6, <1>7, <2>3 DEF Covers
  <1>9. CASE pc[c] \notin Visiting
    <2>1. req[c].op # "tag"
      BY <1>9 DEF CoverInv, Covering
    <2>2. req'[c].op # "tag"
      BY <1>5, <2>1 DEF NoRequest, FolderCalls
    <2>3. Covering(c)' /\ Ends(c)
      BY <1>5, <2>1, <2>2, NotTagging
    <2> QED
      BY <1>4, <1>6, <1>7, <2>3 DEF Covers
  <1> QED
    BY <1>5, <1>8, <1>9

LEMMA TagStepCovers ==
  ASSUME CoverInv, NEW c \in Client, TagStep(c)
  PROVE  Covers(c)
  <1>1. (\E q \in Request[c] : CallTagMgr(c, q)) => Covers(c)
    BY CallTagMgrCovers
  <1>2. TagExists(c) \/ StoreTag(c) \/ RenameTag(c) \/ DeleteTag(c) => Covers(c)
    BY TagExistsCovers, StoreTagCovers, RenameTagCovers
  <1>3. TagGetId(c) \/ TagGetFolder(c) \/ TagLook(c) => Covers(c)
    BY TagGetIdCovers, TagGetFolderCovers, TagLookCovers
  <1>4. TagObjects(c) \/ Associate(c) => Covers(c)
    BY TagObjectsCovers, AssociateCovers
  <1>5. UntagObjects(c) \/ UntagLook(c) \/ StoreLookup(c) \/ StoreObject(c) => Covers(c)
    BY OtherStepCovers
  <1>6. Unassociate(c) => Covers(c)
    BY UnassociateCovers
  <1> QED
    BY <1>1, <1>2, <1>3, <1>4, <1>5, <1>6 DEF TagStep

(* An object is stored only where the tables are. *)
LEMMA FilledKept ==
  ASSUME CoverInv, NEW c \in Client, ChangeTree(c) \/ TagStep(c)
  PROVE  FilledOK'
  <1>1. CASE ChangeTree(c)
    <2>1. filled' = filled /\ tables \subseteq tables'
      BY <1>1, TreeStepRequests DEF ChangeTree
    <2> QED
      BY <2>1 DEF CoverInv, FilledOK
  <1>2. CASE StoreObject(c)
    <2>1. PICK i : i = fid[c]
      OBVIOUS
    <2>2. tables' = tables
      BY <1>2 DEF StoreObject, tree
    <2>3. CASE filled' = filled
      BY <2>2, <2>3 DEF CoverInv, FilledOK
    <2>4. CASE filled' # filled
      <3>1. /\ filled' = filled \cup {i}
            /\ Complete(i, "BLOBTAG") \/ Complete(i, "STRUCTTAG")
        BY <1>2, <2>1, <2>4 DEF StoreObject
      <3>2. <<i, "head">> \in tables /\ <<i, "tag2obj">> \in tables
        <4>1. /\ 4 \in DOMAIN Statements.BLOBTAG /\ Statements.BLOBTAG[4] = "head"
              /\ 2 \in DOMAIN Statements.BLOBTAG /\ Statements.BLOBTAG[2] = "tag2obj"
              /\ 4 \in DOMAIN Statements.STRUCTTAG /\ Statements.STRUCTTAG[4] = "head"
              /\ 1 \in DOMAIN Statements.STRUCTTAG /\ Statements.STRUCTTAG[1] = "tag2obj"
          BY DEF Statements
        <4>2. /\ Statements["BLOBTAG"] = Statements.BLOBTAG
              /\ Statements["STRUCTTAG"] = Statements.STRUCTTAG
          OBVIOUS
        <4> QED
          BY <3>1, <4>1, <4>2 DEF Complete
      <3> QED
        BY <2>2, <3>1, <3>2 DEF CoverInv, FilledOK
    <2> QED
      BY <2>3, <2>4
  <1>3. CASE TagStep(c) /\ ~StoreObject(c)
    <2>1. filled' = filled /\ tables' = tables
      <3>1. (\E q \in Request[c] : CallTagMgr(c, q)) => filled' = filled /\ tables' = tables
        BY DEF CallTagMgr
      <3>2. TagExists(c) \/ StoreTag(c) \/ RenameTag(c) \/ DeleteTag(c) =>
              filled' = filled /\ tables' = tables
        BY DEF TagExists, StoreTag, RenameTag, DeleteTag, tree
      <3>3. TagGetId(c) \/ TagGetFolder(c) \/ TagLook(c) \/ UntagLook(c) \/ StoreLookup(c) =>
              filled' = filled /\ tables' = tables
        BY DEF TagGetId, TagGetFolder, TagLook, UntagLook, StoreLookup, TagUnchanged, tree
      <3>4. TagObjects(c) \/ Associate(c) \/ UntagObjects(c) \/ Unassociate(c) =>
              filled' = filled /\ tables' = tables
        BY DEF TagObjects, Associate, UntagObjects, Unassociate, tree
      <3> QED
        BY <1>3, <3>1, <3>2, <3>3, <3>4 DEF TagStep
    <2> QED
      BY <2>1 DEF CoverInv, FilledOK
  <1> QED
    BY <1>1, <1>2, <1>3

LEMMA CoverStarts == Init => CoverInv
  <1> SUFFICES ASSUME Init
               PROVE  CoverInv
    OBVIOUS
  <1>1. TagTreeInv
    BY InitOK
  <1>2. FilledOK
    BY DEF Init, FilledOK
  <1>3. FramesOK
    <2>1. frames = [c \in Client |-> <<>>] /\ due = [c \in Client |-> {}]
      BY DEF Init
    <2>2. <<>> \in Seq(SUBSET Row)
      OBVIOUS
    <2> QED
      BY <2>1, <2>2 DEF FramesOK
  <1>4. ASSUME NEW c \in Client
        PROVE  Covering(c)
    <2>1. pc[c] = "closed" /\ req[c] = NoRequest
      BY DEF Init, TreeInit
    <2> QED
      BY <2>1 DEF Covering, Visiting, NoRequest
  <1> QED
    BY <1>1, <1>2, <1>3, <1>4 DEF CoverInv

(* When nothing happens, no visit goes on. *)
LEMMA CoverStutters ==
  ASSUME CoverInv, UNCHANGED vars
  PROVE  FilledOK' /\ FramesOK' /\ (\A c \in Client : Covering(c)') /\ \A c \in Client : Ends(c)
  <1>1. /\ made' = made /\ folders' = folders /\ tables' = tables /\ faults' = faults
        /\ pc' = pc /\ req' = req /\ fid' = fid /\ tags' = tags /\ assoc' = assoc
        /\ filled' = filled /\ tid' = tid /\ frames' = frames /\ due' = due
    BY DEF vars, treeVars, locals, tagLocals
  <1>2. FilledOK' /\ FramesOK'
    BY <1>1, SameSets DEF CoverInv, FilledOK, FramesOK
  <1>3. ASSUME NEW c \in Client
        PROVE  Covering(c)' /\ Ends(c)
    <2>1. Ends(c)
      BY <1>1 DEF Ends
    <2>2. /\ req'[c] = req[c] /\ frames'[c] = frames[c] /\ due'[c] = due[c] /\ pc'[c] = pc[c]
          /\ fid'[c] = fid[c] /\ tid'[c] = tid[c]
      BY <1>1
    <2>3. ASSUME CoverOK(c), due'[c] # {}
          PROVE  CoverOK(c)'
      <3>1. DueKept(c)
        <4>1. made \in Nat
          BY DEF CoverInv, TagTreeInv, TreeInv, TreeTypeOK
        <4>2. UniquePaths' <=> UniquePaths
          BY <1>1 DEF UniquePaths
        <4> QED
          BY <1>1, <4>1, <4>2 DEF DueKept
      <3> QED
        BY <2>2, <2>3, <3>1, CoverKept
    <2>4. Covering(c)'
      BY <2>2, <2>3 DEF CoverInv, Covering, IsCall, Visiting
    <2> QED
      BY <2>1, <2>4
  <1> QED
    BY <1>2, <1>3

LEMMA CoverKeeps ==
  ASSUME CoverInv, [Next]_vars
  PROVE  CoverInv' /\ \A c \in Client : Ends(c)
  <1>1. TagTreeInv'
    BY NextKeeps DEF CoverInv
  <1>2. ASSUME NEW c \in Client, ChangeTree(c) \/ TagStep(c)
        PROVE  /\ FilledOK' /\ FramesOK'
               /\ \A d \in Client : Covering(d)' /\ Ends(d)
    <2>1. FilledOK'
      BY <1>2, FilledKept
    <2>2. Covers(c)
      BY <1>2, ChangeTreeCovers, TagStepCovers
    <2>3. ASSUME NEW d \in Client \ {c}
          PROVE  Covering(d)' /\ Ends(d)
      <3>1. Covering(d) /\ OthersVisit(c) /\ DueKept(d)
        BY <2>2 DEF Covers, CoverInv
      <3> QED
        BY <3>1, OthersCovered
    <2> QED
      BY <2>1, <2>2, <2>3 DEF Covers
  <1>3. ASSUME UNCHANGED vars
        PROVE  /\ FilledOK' /\ FramesOK'
               /\ \A d \in Client : Covering(d)' /\ Ends(d)
    BY <1>3, CoverStutters
  <1>4. /\ FilledOK' /\ FramesOK' /\ \A d \in Client : Covering(d)' /\ Ends(d)
    BY <1>2, <1>3 DEF Next, Finished
  <1> QED
    BY <1>1, <1>4 DEF CoverInv

LEMMA CallsOfTagCover == Spec => []CoverInv
  <1>1. Init => CoverInv
    BY CoverStarts
  <1>2. CoverInv /\ [Next]_vars => CoverInv'
    BY CoverKeeps
  <1> QED
    BY <1>1, <1>2, PTL DEF Spec

(* tag hides every exception of a visit, and each visit looks the tag and the
   folder up again; still, a call that ends has associated the tag with every
   folder with objects beneath its path, so that getAllTaggedFolder lists it,
   unless somebody deleted a row of folders_tbl or tags_tbl or doubled a name
   meanwhile, and but for a folder whose association an untag has deleted. *)
THEOREM TagReachesTree == Spec => TagCoversTree
  <1> DEFINE covers ==
        \A c \in Client :
          req[c].op = "tag" /\ req'[c].op # "tag" /\ faults' = faults =>
            \A name \in {req[c].name} : due[c] \subseteq TaggedFolders(name)'
  <1>1. CoverInv /\ [Next]_vars => [covers]_vars
    <2>1. ASSUME CoverInv, [Next]_vars
          PROVE  covers
      BY <2>1, CoverKeeps DEF Ends
    <2> HIDE DEF covers
    <2> QED
      BY <2>1
  <1>2. Spec => [][covers]_vars
    <2> HIDE DEF covers
    <2> QED
      BY <1>1, CallsOfTagCover, PTL DEF Spec
  <1> QED
    BY <1>2, PTL DEF TagCoversTree
-----------------------------------------------------------------------------
(* The queries.  Only the root has no parent, and a row that is going to be
   stored has one or is the root. *)
RootRow(r) == r.parent > 0 \/ r.path = Root

RootRowsOK ==
  /\ \A r \in folders : RootRow(r)
  /\ \A c \in Client : pc[c] = "insert" => RootRow(Top(c))

ListInv == TagTreeInv /\ RootRowsOK

(* What a step does to the rows that are stored and to be stored. *)
RootStep(c) ==
  /\ \A d \in Client \ {c} : pc'[d] = pc[d] /\ stack'[d] = stack[d]
  /\ pc'[c] = "insert" => RootRow(Last(stack'[c]))
  /\ \A r \in folders' : r \in folders \/ (pc[c] = "insert" /\ r = NewRow(c))

LEMMA RootStepKeeps ==
  ASSUME RootRowsOK, NEW c \in Client, RootStep(c)
  PROVE  RootRowsOK'
  <1>1. \A r \in folders' : RootRow(r)
    BY DEF RootRowsOK, RootStep, NewRow, RootRow
  <1>2. ASSUME NEW d \in Client, pc'[d] = "insert"
        PROVE  RootRow(Last(stack'[d]))
    BY <1>2 DEF RootRowsOK, RootStep, Top
  <1> QED
    BY <1>1, <1>2 DEF RootRowsOK, RootRow, Top

(* A step that leaves the rows alone, and does not go to store one. *)
LEMMA StackMoves ==
  ASSUME TreeInv, NEW c \in Client, NEW l \in Label, NEW s,
         pc' = [pc EXCEPT ![c] = l], stack' = stack \/ stack' = [stack EXCEPT ![c] = s],
         l = "insert" => RootRow(Last(stack'[c])),
         \A r \in folders' : r \in folders \/ (pc[c] = "insert" /\ r = NewRow(c))
  PROVE  RootStep(c)
  <1>1. pc \in [Client -> Label] /\ stack \in [Client -> Seq(Entry)]
    BY DEF TreeInv, TreeTypeOK
  <1>2. pc'[c] = l /\ \A d \in Client \ {c} : pc'[d] = pc[d]
    BY <1>1
  <1>3. \A d \in Client \ {c} : stack'[d] = stack[d]
    BY <1>1
  <1> QED
    BY <1>2, <1>3 DEF RootStep

LEMMA CallEndMoves ==
  ASSUME TreeInv, NEW c \in Client, NEW l \in {"ready", "closed"}, EndCall(c, l),
         \A r \in folders' : r \in folders \/ (pc[c] = "insert" /\ r = NewRow(c))
  PROVE  RootStep(c)
  <1>1. pc' = [pc EXCEPT ![c] = l] /\ stack' = [stack EXCEPT ![c] = <<>>]
    BY DEF EndCall, Goto
  <1>2. l \in Label /\ l # "insert"
    BY DEF Label
  <1> QED
    BY <1>1, <1>2, StackMoves

LEMMA ThrowMoves ==
  ASSUME TreeInv, NEW c \in Client, Throw(c)
  PROVE  RootStep(c)
  <1>1. PICK l \in {"ready", "closed"} : EndCall(c, l)
    BY DEF Throw
  <1> QED
    BY <1>1, CallEndMoves DEF Throw

(* The folder on top of the stack gets the id of its parent. *)
LEMMA ParentMoves ==
  ASSUME TreeInv, NEW c \in Client, pc[c] \in {"parent", "again"},
         NEW r \in FindSet(ParentOf(Top(c).path)),
         stack' = [stack EXCEPT ![c][Len(stack[c])].parent = r.id],
         pc' = [pc EXCEPT ![c] = "insert"], UNCHANGED folders
  PROVE  RootStep(c)
  <1>1. pc[c] \in Storing /\ pc[c] # "exist" /\ "insert" \in Label
    BY DEF Storing, Label
  <1>2. /\ stack \in [Client -> Seq(Entry)] /\ stack[c] \in Seq(Entry)
        /\ Len(stack[c]) \in Nat \ {0} /\ stack[c][Len(stack[c])] \in Entry
    BY <1>1, TopEntry DEF TreeInv, TreeTypeOK
  <1> DEFINE e == [stack[c][Len(stack[c])] EXCEPT !.parent = r.id]
             s == [stack[c] EXCEPT ![Len(stack[c])] = e]
  <1>3. stack' = [stack EXCEPT ![c] = s]
    OBVIOUS
  <1>4. r.id > 0
    <2>1. r \in folders /\ r.id \in 1 .. nextId - 1 /\ nextId \in Nat
      BY DEF FindSet, Find, TreeInv, TreeTypeOK, RowsOK, RowOK
    <2> QED
      BY <2>1
  <1>5. e.parent = r.id /\ e \in Entry
    <2>1. r \in Row
      BY DEF FindSet, Find, TreeInv, TreeTypeOK
    <2>2. ASSUME NEW u \in Entry, NEW n \in Nat
          PROVE  [u EXCEPT !.parent = n].parent = n /\ [u EXCEPT !.parent = n] \in Entry
      BY DEF Entry
    <2>3. r.id \in Nat
      BY <2>1 DEF Row
    <2> QED
      BY <1>2, <2>2, <2>3
  <1> HIDE DEF e
  <1>6. Last(s) = e
    <2>1. Len(s) = Len(stack[c]) /\ s[Len(stack[c])] = e
      BY <1>2, <1>5
    <2> HIDE DEF s
    <2> QED
      BY <2>1 DEF Last
  <1>7. stack'[c] = s
    BY <1>2, <1>3
  <1> HIDE DEF s
  <1>8. RootRow(Last(stack'[c]))
    BY <1>4, <1>5, <1>6, <1>7 DEF RootRow
  <1> QED
    BY <1>1, <1>3, <1>8, StackMoves

LEMMA StoringMoves ==
  ASSUME TreeInv, NEW c \in Client, Exist(c) \/ FindParent(c) \/ ExistRoot(c) \/ FindParentAgain(c)
  PROVE  RootStep(c)
  <1>1. {"parent", "root", "exist", "insert"} \subseteq Label
    BY DEF Label, Storing
  <1>2. UNCHANGED folders
    BY DEF Exist, FindParent, ExistRoot, FindParentAgain, Throw
  <1>3. CASE Exist(c)
    <2>1. CASE Throw(c)
      BY <2>1, ThrowMoves
    <2>2. CASE ~Throw(c)
      <3>1. /\ pc' = [pc EXCEPT ![c] = "parent"]
            /\ stack' = [stack EXCEPT ![c][Len(stack[c])].mark = nextId]
        BY <1>3, <2>2 DEF Exist, Goto
      <3>2. PICK s : stack' = [stack EXCEPT ![c] = s]
        BY <3>1
      <3> QED
        BY <1>1, <1>2, <3>1, <3>2, StackMoves
    <2> QED
      BY <2>1, <2>2
  <1>4. CASE FindParent(c)
    <2>1. CASE Throw(c)
      BY <2>1, ThrowMoves
    <2>2. ASSUME NEW r \in FindSet(ParentOf(Top(c).path)),
                 stack' = [stack EXCEPT ![c][Len(stack[c])].parent = r.id], Goto(c, "insert")
          PROVE  RootStep(c)
      BY <1>2, <1>4, <2>2, ParentMoves DEF FindParent, Goto
    <2>3. ASSUME NEW l \in {"root", "exist"}, NEW s, Goto(c, l),
                 stack' = stack \/ stack' = [stack EXCEPT ![c] = s]
          PROVE  RootStep(c)
      BY <1>1, <1>2, <2>3, StackMoves DEF Goto
    <2>4. \/ Throw(c)
          \/ \E r \in FindSet(ParentOf(Top(c).path)) :
               stack' = [stack EXCEPT ![c][Len(stack[c])].parent = r.id] /\ Goto(c, "insert")
          \/ Goto(c, "root") /\ stack' = stack
          \/ Goto(c, "exist") /\ \E s : stack' = [stack EXCEPT ![c] = s]
      BY <1>4 DEF FindParent, locals
    <2> QED
      BY <2>1, <2>2, <2>3, <2>4
  <1>5. CASE ExistRoot(c)
    <2>1. CASE Throw(c)
      BY <2>1, ThrowMoves
    <2>2. CASE ~Throw(c)
      <3> DEFINE e == [path |-> Root, mark |-> nextId, parent |-> 0]
                 s == [stack[c] EXCEPT ![Len(stack[c])] = e]
      <3>1. /\ pc[c] = "root" /\ pc' = [pc EXCEPT ![c] = "insert"]
            /\ stack' = [stack EXCEPT ![c] = s]
        BY <1>5, <2>2 DEF ExistRoot, Goto
      <3>2. /\ stack \in [Client -> Seq(Entry)] /\ stack[c] \in Seq(Entry)
            /\ Len(stack[c]) \in Nat \ {0}
        BY <3>1, TopEntry DEF TreeInv, TreeTypeOK, Storing
      <3>3. e.path = Root
        OBVIOUS
      <3> HIDE DEF e
      <3>4. Len(s) = Len(stack[c]) /\ s[Len(stack[c])] = e
        BY <3>2
      <3>5. stack'[c] = s
        BY <3>1, <3>2
      <3> HIDE DEF s
      <3>6. RootRow(Last(stack'[c]))
        BY <3>3, <3>4, <3>5 DEF RootRow, Last
      <3> QED
        BY <1>1, <1>2, <3>1, <3>6, StackMoves
    <2> QED
      BY <2>1, <2>2
  <1>6. CASE FindParentAgain(c)
    <2>1. CASE EndCall(c, "closed")
      BY <1>2, <2>1, CallEndMoves
    <2>2. CASE ~EndCall(c, "closed")
      <3>1. PICK r \in FindSet(ParentOf(Top(c).path)) :
              stack' = [stack EXCEPT ![c][Len(stack[c])].parent = r.id] /\ Goto(c, "insert")
        BY <1>6, <2>2 DEF FindParentAgain
      <3> QED
        BY <1>2, <1>6, <3>1, ParentMoves DEF FindParentAgain, Goto
    <2> QED
      BY <2>1, <2>2
  <1> QED
    BY <1>3, <1>4, <1>5, <1>6

LEMMA StoreRowMoves ==
  ASSUME TreeInv, NEW c \in Client, StoreRow(c)
  PROVE  RootStep(c)
  <1>1. pc[c] = "insert" /\ \A r \in folders' : r \in folders \/ r = NewRow(c)
    BY DEF StoreRow, Throw
  <1>2. Len(stack[c]) \in Nat \ {0}
    BY <1>1, TopEntry DEF Storing
  <1>3. {"again", "tables"} \subseteq Label
    BY DEF Label, Storing
  <1> DEFINE refused == \/ NewRow(c).kind \in {"set", "BLOBTAG"} /\ ~Executed("database row")
                        \/ NewRow(c).kind # "set" /\ Top(c).path = Root
  <1>4. CASE refused
    BY <1>4, ThrowMoves DEF StoreRow
  <1>5. CASE ~refused /\ NewRow(c).kind = "set" /\ Len(stack[c]) > 1
    <2>1. Len(stack[c]) # 1
      <3>1. ASSUME NEW n \in Nat, n > 1
            PROVE  n # 1
        BY <3>1
      <3> HIDE DEF refused
      <3> QED
        BY <1>2, <1>5, <3>1
    <2>2. pc' = [pc EXCEPT ![c] = "again"] /\ stack' = [stack EXCEPT ![c] = Front(stack[c])]
      BY <1>5, <2>1 DEF StoreRow, Goto
    <2> QED
      BY <1>1, <1>3, <2>2, StackMoves
  <1>6. CASE ~refused /\ NewRow(c).kind = "set" /\ ~(Len(stack[c]) > 1)
    <2>1. Len(stack[c]) = 1
      <3>1. ASSUME NEW n \in Nat \ {0}, ~(n > 1)
            PROVE  n = 1
        BY <3>1
      <3> QED
        BY <1>2, <1>6, <3>1
    <2>2. EndCall(c, "ready")
      BY <1>6, <2>1 DEF StoreRow
    <2> QED
      BY <1>1, <2>2, CallEndMoves
  <1>7. CASE ~refused /\ NewRow(c).kind # "set"
    <2>1. pc' = [pc EXCEPT ![c] = "tables"] /\ stack' = stack
      BY <1>7 DEF StoreRow, Goto
    <2> QED
      BY <1>1, <1>3, <2>1, StackMoves
  <1> QED
    BY <1>4, <1>5, <1>6, <1>7

LEMMA TreeStepMoves ==
  ASSUME TreeInv, NEW c \in Client, TreeStep(c)
  PROVE  RootStep(c)
  <1>1. {"ready", "create", "closed", "lookup", "exist", "look", "delete"} \subseteq Label
    BY DEF Label, Storing, Taking
  <1>2. pc = [pc EXCEPT ![c] = pc[c]] /\ pc[c] \in Label
    BY OfClient
  <1>3. ASSUME NEW l \in Label, pc' = [pc EXCEPT ![c] = l], l # "insert",
               NEW s, stack' = stack \/ stack' = [stack EXCEPT ![c] = s], folders' \subseteq folders
        PROVE  RootStep(c)
    BY <1>3, StackMoves
  <1>4. CASE OpenDatabase(c) \/ CreateDatabase(c)
    <2>1. /\ stack' = stack /\ folders' = folders
          /\ \E l \in {"ready", "create", "closed"} : pc' = [pc EXCEPT ![c] = l]
      BY <1>4 DEF OpenDatabase, CreateDatabase, Goto
    <2> QED
      BY <1>1, <1>3, <2>1
  <1>5. ASSUME NEW q \in Request[c], CallFolderMgr(c, q)
        PROVE  RootStep(c)
    <2>1. /\ pc[c] = "ready" /\ folders' = folders
          /\ stack' = stack \/ \E s : stack' = [stack EXCEPT ![c] = s]
          /\ pc' = pc \/ \E l \in {"lookup", "exist"} : pc' = [pc EXCEPT ![c] = l]
      BY <1>5 DEF CallFolderMgr, Goto
    <2> QED
      BY <1>1, <1>2, <1>3, <2>1
  <1>6. CASE Exist(c) \/ FindParent(c) \/ ExistRoot(c) \/ FindParentAgain(c)
    BY <1>6, StoringMoves
  <1>7. CASE StoreRow(c)
    BY <1>7, StoreRowMoves
  <1>8. CASE CreateTable(c)
    <2>1. pc[c] = "tables" /\ folders' = folders
      BY <1>8 DEF CreateTable
    <2>2. CASE EndCall(c, "ready")
      BY <2>1, <2>2, CallEndMoves
    <2>3. CASE ~EndCall(c, "ready")
      <3>1. pc' = pc /\ stack' = stack
        BY <1>8, <2>3 DEF CreateTable
      <3> QED
        BY <1>2, <1>3, <2>1, <3>1
    <2> QED
      BY <2>2, <2>3
  <1>9. CASE LookupFolder(c)
    <2>1. \/ Throw(c)
          \/ pc' = [pc EXCEPT ![c] = "look"] /\ stack' = stack /\ folders' = folders
      BY <1>9 DEF LookupFolder, Goto
    <2> QED
      BY <1>1, <1>3, <2>1, ThrowMoves
  <1>10. CASE LookForChildren(c)
    <2>1. folders' = folders
      BY <1>10 DEF LookForChildren
    <2>2. \/ EndCall(c, "ready")
          \/ pc' = [pc EXCEPT ![c] = "delete"] /\ \E s : stack' = [stack EXCEPT ![c] = s]
      BY <1>10 DEF LookForChildren, Goto
    <2> QED
      BY <1>1, <1>3, <2>1, <2>2, CallEndMoves
  <1>11. CASE DeleteRow(c) \/ Crash(c)
    <2>1. folders' \subseteq folders /\ \E l \in {"ready", "closed"} : EndCall(c, l)
      BY <1>11 DEF DeleteRow, Crash
    <2> QED
      BY <2>1, CallEndMoves
  <1> QED
    BY <1>4, <1>5, <1>6, <1>7, <1>8, <1>9, <1>10, <1>11 DEF TreeStep

LEMMA TagStepMoves ==
  ASSUME TreeInv, NEW c \in Client, TagStep(c)
  PROVE  RootStep(c)
  <1>1. UNCHANGED folders
    BY TagRows
  <1>2. ASSUME NEW l \in {"ready", "closed"}, EndTagCall(c, l) \/ EndCall(c, l)
        PROVE  RootStep(c)
    BY <1>1, <1>2, CallEndMoves DEF EndTagCall
  <1>3. ASSUME NEW l \in Label, Goto(c, l), l # "insert", stack' = stack
        PROVE  RootStep(c)
    BY <1>1, <1>3, StackMoves DEF Goto
  <1>4. ASSUME NEW rest, GoOn(c, rest)
        PROVE  RootStep(c)
    BY <1>2, <1>3, <1>4 DEF GoOn, Label, Tagging
  <1>5. ASSUME Swallowed(c)
        PROVE  RootStep(c)
    BY <1>2, <1>4, <1>5 DEF Swallowed
  <1>6. ASSUME NEW q \in Request[c], CallTagMgr(c, q)
        PROVE  RootStep(c)
    <2>1. pc[c] = "ready" /\ stack' = stack
      BY <1>6 DEF CallTagMgr
    <2>2. CASE pc' = pc
      <3>1. pc' = [pc EXCEPT ![c] = pc[c]] /\ pc[c] \in Label
        BY <2>2, OfClient
      <3> QED
        BY <1>3, <2>1, <3>1 DEF Goto
    <2>3. CASE pc' # pc
      <3>1. Goto(c, q.op)
        BY <1>6, <2>3 DEF CallTagMgr
      <3>2. q.op \in TagCalls
        BY <1>6, TagRequestAssumption DEF CallTagMgr
      <3> QED
        BY <1>3, <2>1, <3>1, <3>2 DEF TagCalls, Label, Tagging
    <2> QED
      BY <2>2, <2>3
  <1>7. CASE TagExists(c)
    BY <1>2, <1>3, <1>7 DEF TagExists, locals, Label, Tagging
  <1>8. CASE StoreTag(c) \/ RenameTag(c) \/ DeleteTag(c) \/ Unassociate(c) \/ StoreObject(c)
    BY <1>2, <1>8 DEF StoreTag, RenameTag, DeleteTag, Unassociate, StoreObject
  <1>9. CASE TagGetId(c)
    <2>1. Swallowed(c) \/ (stack' = stack /\ \E l \in {"tagFolder", "untagFolder"} : Goto(c, l))
      BY <1>9 DEF TagGetId, locals
    <2> QED
      BY <1>3, <1>5, <2>1 DEF Label, Tagging
  <1>10. CASE TagGetFolder(c)
    <2>1. Swallowed(c) \/ (stack' = stack /\ \E l \in {"tagLook", "untagObjects"} : Goto(c, l))
      BY <1>10 DEF TagGetFolder
    <2> QED
      BY <1>3, <1>5, <2>1 DEF Label, Tagging
  <1>11. CASE TagLook(c) \/ TagObjects(c) \/ Associate(c)
    <2>1. \/ \E rest : GoOn(c, rest)
          \/ stack' = stack /\ \E l \in {"tagObjects", "associate"} : Goto(c, l)
      BY <1>11 DEF TagLook, TagObjects, Associate, locals
    <2> QED
      BY <1>3, <1>4, <2>1 DEF Label, Tagging
  <1>12. CASE StoreLookup(c)
    BY <1>2, <1>3, <1>12 DEF StoreLookup, Label, Tagging
  <1>13. CASE UntagObjects(c) \/ UntagLook(c)
    <2>1. \/ EndTagCall(c, "ready")
          \/ stack' = stack /\ \E l \in {"untagLook", "unassociate"} : Goto(c, l)
      BY <1>13 DEF UntagObjects, UntagLook, locals
    <2> QED
      BY <1>2, <1>3, <2>1 DEF Label, Tagging
  <1> QED
    BY <1>6, <1>7, <1>8, <1>9, <1>10, <1>11, <1>12, <1>13 DEF TagStep

LEMMA ListKeeps ==
  ASSUME ListInv, [Next]_vars
  PROVE  ListInv'
  <1>1. TagTreeInv'
    BY NextKeeps DEF ListInv
  <1>2. TreeInv /\ RootRowsOK
    BY DEF ListInv, TagTreeInv
  <1>3. ASSUME NEW c \in Client, ChangeTree(c) \/ TagStep(c)
        PROVE  RootRowsOK'
    BY <1>2, <1>3, TreeStepMoves, TagStepMoves, RootStepKeeps DEF ChangeTree
  <1>4. ASSUME UNCHANGED vars
        PROVE  RootRowsOK'
    <2>1. folders' = folders /\ pc' = pc /\ stack' = stack
      BY <1>4 DEF vars, treeVars, locals
    <2> QED
      BY <1>2, <2>1 DEF RootRowsOK, RootRow, Top
  <1> QED
    BY <1>1, <1>3, <1>4 DEF ListInv, Next, Finished

LEMMA RootsHaveNoParent == Spec => []ListInv
  <1>1. Init => ListInv
    <2> SUFFICES ASSUME Init
                 PROVE  ListInv
      OBVIOUS
    <2>1. folders = {} /\ \A c \in Client : pc[c] = "closed"
      BY DEF Init, TreeInit
    <2> QED
      BY <2>1, InitOK DEF ListInv, RootRowsOK
  <1>2. ListInv /\ [Next]_vars => ListInv'
    BY ListKeeps
  <1> QED
    BY <1>1, <1>2, PTL DEF Spec
-----------------------------------------------------------------------------
(* What the invariant says to a query. *)
LEMMA RowsOfQuery ==
  ASSUME ListInv
  PROVE  /\ nextId \in Nat
         /\ \A r, s \in folders : r.id = s.id => r = s
         /\ \A r \in folders : /\ r.id \in Nat /\ r.id < nextId /\ r.parent \in Nat
                               /\ r.parent < r.id /\ (r.parent # 0 \/ r.path = Root)
         /\ \A r, p \in folders : r.parent = p.id => p.kind = "set" /\ p.path = ParentOf(r.path)
  <1>1. /\ nextId \in Nat /\ folders \subseteq Row /\ RowsOK /\ RootRowsOK
    BY DEF ListInv, TagTreeInv, TreeInv, TreeTypeOK
  <1>2. \A r, s \in folders : r.id = s.id => r = s
    BY <1>1 DEF RowsOK
  <1>3. \A r, p \in folders : r.parent = p.id => p.kind = "set" /\ p.path = ParentOf(r.path)
    BY <1>1 DEF RowsOK, RowOK
  <1>4. ASSUME NEW r \in folders
        PROVE  /\ r.id \in Nat /\ r.id < nextId /\ r.parent \in Nat
               /\ r.parent < r.id /\ (r.parent # 0 \/ r.path = Root)
    <2>1. r \in Row /\ r.id \in 1 .. nextId - 1 /\ r.parent < r.id
      BY <1>1 DEF RowsOK, RowOK
    <2>2. r.id \in Nat /\ r.parent \in Nat
      BY <2>1 DEF Row
    <2>3. r.parent > 0 \/ r.path = Root
      BY <1>1 DEF RootRowsOK, RootRow
    <2> QED
      BY <1>1, <2>1, <2>2, <2>3
  <1> QED
    BY <1>1, <1>2, <1>3, <1>4

LEMMA ParentOfRoot == ParentOf(Root) = Root
  <1>1. Len(Root) <= 2
    BY DEF Root
  <1>2. ParentOf(Root) = IF Len(Root) <= 2 THEN Root
                         ELSE SubSeq(Root, 1, Len(Root) - 2)
    BY NormalRoot DEF ParentOf
  <1> QED
    BY <1>1, <1>2

(* A row with the path p is the parent of s. *)
Beneath(s, p) == \E r \in folders : r.path = p /\ s.parent = r.id

LEMMA BeneathByPath ==
  ASSUME ListInv, Attached, NEW s \in folders, NEW p
  PROVE  /\ Beneath(s, p) => p = ParentOf(s.path) /\ IsSet(p)
         /\ p = ParentOf(s.path) /\ p # s.path => Beneath(s, p)
  <1>1. ASSUME Beneath(s, p)
        PROVE  p = ParentOf(s.path) /\ IsSet(p)
    <2>1. PICK r \in folders : r.path = p /\ s.parent = r.id
      BY <1>1 DEF Beneath
    <2>2. r.kind = "set" /\ r.path = ParentOf(s.path)
      BY <2>1, RowsOfQuery
    <2> QED
      BY <2>1, <2>2 DEF IsSet, Find
  <1>2. ASSUME p = ParentOf(s.path), p # s.path
        PROVE  Beneath(s, p)
    <2>1. s.parent # 0
      BY <1>2, RowsOfQuery, ParentOfRoot
    <2>2. PICK r \in folders : r.id = s.parent
      BY <2>1 DEF Attached
    <2>3. r.path = ParentOf(s.path)
      BY <2>2, RowsOfQuery
    <2> QED
      BY <1>2, <2>2, <2>3 DEF Beneath
  <1> QED
    BY <1>1, <1>2

LEMMA TaggedPaths ==
  ASSUME ListInv, NEW name
  PROVE  GetAllTaggedFolder(name) = {p \in Paths : FolderIsTagged(p, name)}
  <1>1. ASSUME NEW p \in GetAllTaggedFolder(name)
        PROVE  p \in Paths /\ FolderIsTagged(p, name)
    <2>1. PICK r \in folders : r.path = p /\ r.id \in TaggedFolders(name)
      BY DEF GetAllTaggedFolder
    <2>2. PICK f \in folders : f.id = r.id /\ \E t \in TagNamed(name) : <<t.id, f.id>> \in assoc
      BY <2>1 DEF TaggedFolders
    <2> QED
      BY <2>1, <2>2 DEF Paths, FolderIsTagged, Find
  <1>2. ASSUME NEW p \in Paths, FolderIsTagged(p, name)
        PROVE  p \in GetAllTaggedFolder(name)
    <2>1. PICK r \in folders : r.path = p /\ \E t \in TagNamed(name) : <<t.id, r.id>> \in assoc
      BY <1>2 DEF FolderIsTagged, Find
    <2>2. r.id \in TaggedFolders(name)
      BY <2>1 DEF TaggedFolders
    <2> QED
      BY <2>1, <2>2 DEF GetAllTaggedFolder
  <1> QED
    BY <1>1, <1>2

(* What is at or above paths is the smallest set with them and with the parents
   of what it has. *)
UpClosed(up) == \A q \in up : ParentOf(q) \in Paths => ParentOf(q) \in up

LEMMA AboveIsLeast ==
  ASSUME NEW paths \in SUBSET Paths
  PROVE  LET above == AtOrAbove(paths)
         IN  /\ above \subseteq Paths /\ paths \subseteq above /\ UpClosed(above)
             /\ \A up \in SUBSET Paths : paths \subseteq up /\ UpClosed(up) => above \subseteq up
  <1> DEFINE above == AtOrAbove(paths)
             parent == [p \in Paths |-> ParentOf(p)]
  <1>1. \A up \in SUBSET Paths :
          UpClosed(up) <=> \A q \in up : parent[q] \in Paths => parent[q] \in up
    BY DEF UpClosed
  <1>2. above = {p \in Paths : \A up \in SUBSET Paths :
                   paths \subseteq up /\ (\A q \in up : parent[q] \in Paths => parent[q] \in up)
                     => p \in up}
    BY DEF AtOrAbove
  <1> HIDE DEF above, parent
  <1>3. above = {p \in Paths : \A up \in SUBSET Paths : paths \subseteq up /\ UpClosed(up) => p \in up}
    BY <1>1, <1>2
  <1>4. above \subseteq Paths /\ paths \subseteq above
    BY <1>3
  <1>5. UpClosed(above)
    <2> SUFFICES ASSUME NEW q \in above, ParentOf(q) \in Paths,
                        NEW up \in SUBSET Paths, paths \subseteq up, UpClosed(up)
                 PROVE  ParentOf(q) \in up
      BY <1>3 DEF UpClosed
    <2>1. q \in up
      BY <1>3
    <2> QED
      BY <2>1 DEF UpClosed
  <1>6. \A up \in SUBSET Paths : paths \subseteq up /\ UpClosed(up) => above \subseteq up
    BY <1>3
  <1> QED
    BY <1>4, <1>5, <1>6 DEF above

(* What isTagged asks: whether the folder is tagged, or something beneath it. *)
Asked(f, p, name) ==
  FolderIsTagged(p, name) \/ \E s \in folders : Beneath(s, p) /\ f[s.path]

(* A set of paths that is tagged wherever it asks, and only there, is what is at
   or above the tagged folders. *)
LEMMA AboveIsAsked ==
  ASSUME ListInv, Attached, NEW name, NEW p \in Paths,
         NEW g, g = [q \in Paths |-> q \in AtOrAbove(GetAllTaggedFolder(name))]
  PROVE  p \in AtOrAbove(GetAllTaggedFolder(name)) <=> Asked(g, p, name)
  <1> DEFINE tagged == GetAllTaggedFolder(name)
             above == AtOrAbove(tagged)
  <1>1. /\ tagged \in SUBSET Paths
        /\ \A q \in Paths : q \in tagged <=> FolderIsTagged(q, name)
    BY TaggedPaths
  <1>2. /\ above \subseteq Paths /\ tagged \subseteq above /\ UpClosed(above)
        /\ \A up \in SUBSET Paths : tagged \subseteq up /\ UpClosed(up) => above \subseteq up
    BY <1>1, AboveIsLeast
  <1>3. \A s \in folders : s.path \in Paths /\ (g[s.path] <=> s.path \in above)
    BY DEF Paths
  <1> HIDE DEF above, tagged
  <1>4. ASSUME Asked(g, p, name)
        PROVE  p \in above
    <2>1. CASE FolderIsTagged(p, name)
      BY <1>1, <1>2, <2>1
    <2>2. CASE ~FolderIsTagged(p, name)
      <3>1. PICK s \in folders : Beneath(s, p) /\ g[s.path]
        BY <1>4, <2>2 DEF Asked
      <3>2. s.path \in above /\ p = ParentOf(s.path)
        BY <1>3, <3>1, BeneathByPath
      <3> QED
        BY <1>2, <3>2 DEF UpClosed
    <2> QED
      BY <2>1, <2>2
  <1>5. ASSUME p \in above, ~Asked(g, p, name)
        PROVE  FALSE
    <2> DEFINE up == above \ {p}
    <2>1. tagged \subseteq up
      BY <1>1, <1>2, <1>5 DEF Asked
    <2>2. UpClosed(up)
      <3> SUFFICES ASSUME NEW q \in above, q # p, ParentOf(q) \in Paths
                   PROVE  ParentOf(q) \in above /\ ParentOf(q) # p
        BY DEF UpClosed
      <3>1. ParentOf(q) \in above
        BY <1>2 DEF UpClosed
      <3>2. ASSUME ParentOf(q) = p
            PROVE  FALSE
        <4>1. PICK s \in folders : s.path = q
          BY <1>2 DEF Paths
        <4>2. Beneath(s, p)
          BY <3>2, <4>1, BeneathByPath
        <4>3. g[s.path]
          BY <1>3, <4>1
        <4> QED
          BY <1>5, <4>2, <4>3 DEF Asked
      <3> QED
        BY <3>1, <3>2
    <2>3. up \in SUBSET Paths
      BY <1>2
    <2> QED
      BY <1>2, <1>5, <2>1, <2>2, <2>3
  <1> QED
    BY <1>4, <1>5 DEF above, tagged

(* No row is beneath itself, so that there is only one such set. *)
LEMMA AskedIsAbove ==
  ASSUME ListInv, UniquePaths, Attached, NEW name, NEW f,
         \A p \in Paths : f[p] <=> Asked(f, p, name)
  PROVE  \A p \in Paths : f[p] <=> p \in AtOrAbove(GetAllTaggedFolder(name))
  <1> DEFINE tagged == GetAllTaggedFolder(name)
             above == AtOrAbove(tagged)
  <1>1. /\ tagged \in SUBSET Paths
        /\ \A q \in Paths : q \in tagged <=> FolderIsTagged(q, name)
    BY TaggedPaths
  <1>2. /\ above \subseteq Paths /\ tagged \subseteq above /\ UpClosed(above)
        /\ \A up \in SUBSET Paths : tagged \subseteq up /\ UpClosed(up) => above \subseteq up
    BY <1>1, AboveIsLeast
  <1> HIDE DEF above, tagged
  <1>3. ASSUME NEW p \in above
        PROVE  f[p]
    <2> DEFINE up == {q \in Paths : f[q]}
    <2>1. tagged \subseteq up
      BY <1>1 DEF Asked
    <2>2. UpClosed(up)
      <3> SUFFICES ASSUME NEW q \in Paths, f[q], ParentOf(q) \in Paths
                   PROVE  f[ParentOf(q)]
        BY DEF UpClosed
      <3>1. CASE ParentOf(q) = q
        BY <3>1
      <3>2. CASE ParentOf(q) # q
        <4>1. PICK s \in folders : s.path = q
          BY DEF Paths
        <4>2. Beneath(s, ParentOf(q))
          BY <3>2, <4>1, BeneathByPath
        <4>3. Asked(f, ParentOf(q), name)
          BY <4>1, <4>2 DEF Asked
        <4> QED
          BY <4>3
      <3> QED
        BY <3>1, <3>2
    <2>3. up \in SUBSET Paths
      OBVIOUS
    <2> QED
      BY <1>2, <2>1, <2>2, <2>3
  <1> DEFINE odd(r) == f[r.path] /\ r.path \notin above
             left == {n \in Nat : \E r \in folders : n = nextId - r.id /\ odd(r)}
  <1>4. ASSUME left # {}
        PROVE  FALSE
    <2>1. PICK n \in left : \A m \in left : <<m, n>> \notin OpToRel(<, Nat)
      BY <1>4, WFMin, NatLessThanWellFounded
    <2>2. n \in Nat
      OBVIOUS
    <2>3. PICK r \in folders : n = nextId - r.id /\ odd(r)
      OBVIOUS
    <2>4. r.path \in Paths
      BY DEF Paths
    <2>5. ~FolderIsTagged(r.path, name)
      BY <1>1, <1>2, <2>3, <2>4
    <2>6. PICK s \in folders : Beneath(s, r.path) /\ f[s.path]
      BY <2>3, <2>4, <2>5 DEF Asked
    <2>7. r.path = ParentOf(s.path)
      BY <2>6, BeneathByPath
    <2>8. s.path \notin above
      BY <1>2, <2>3, <2>4, <2>7 DEF UpClosed
    <2>9. s.parent = r.id
      BY <2>6 DEF Beneath, UniquePaths
    <2>10. nextId - s.id \in Nat /\ nextId - s.id < n
      <3>1. nextId \in Nat /\ s.id \in Nat /\ r.id \in Nat /\ s.id < nextId /\ s.parent < s.id
        BY RowsOfQuery
      <3> QED
        BY <2>3, <2>9, <3>1
    <2>11. nextId - s.id \in left
      BY <2>6, <2>8, <2>10
    <2> HIDE DEF left
    <2> QED
      BY <2>1, <2>2, <2>10, <2>11 DEF OpToRel
  <1>5. ASSUME NEW p \in Paths, f[p]
        PROVE  p \in above
    <2>1. PICK r \in folders : r.path = p
      BY DEF Paths
    <2>2. nextId - r.id \in Nat
      <3>1. nextId \in Nat /\ r.id \in Nat /\ r.id < nextId
        BY RowsOfQuery
      <3> QED
        BY <3>1
    <2> QED
      BY <1>4, <1>5, <2>1, <2>2
  <1>6. \A p \in Paths : f[p] <=> p \in above
    BY <1>3, <1>5
  <1> QED
    BY <1>6 DEF above, tagged

(* isTagged, although it calls itself, ends for every path, and tells what is at
   or above the folders that are tagged. *)
LEMMA IsTaggedIsAbove ==
  ASSUME ListInv, UniquePaths, Attached, NEW name
  PROVE  {path \in Paths : IsTagged(path, name)} = AtOrAbove(GetAllTaggedFolder(name))
  <1> DEFINE step(f, p) ==
               \/ FolderIsTagged(p, name)
               \/ /\ IsSet(p)
                  /\ \E child \in UNION {Children(r.id) : r \in Find(p)} : f[child.path]
             above == AtOrAbove(GetAllTaggedFolder(name))
             g == [p \in Paths |-> p \in above]
             f == CHOOSE h : h = [p \in Paths |-> step(h, p)]
  <1>1. ASSUME NEW h, NEW p
        PROVE  step(h, p) <=> Asked(h, p, name)
    <2>1. ASSUME NEW s
          PROVE  s \in UNION {Children(r.id) : r \in Find(p)} <=> s \in folders /\ Beneath(s, p)
      BY DEF Children, Find, Beneath
    <2>2. \A s \in folders : Beneath(s, p) => IsSet(p)
      BY BeneathByPath
    <2> QED
      BY <2>1, <2>2 DEF Asked
  <1> HIDE DEF above
  <1>2. g = [p \in Paths |-> step(g, p)]
    <2>1. ASSUME NEW p \in Paths
          PROVE  p \in above <=> step(g, p)
      <3>1. PICK h : h = g
        OBVIOUS
      <3>2. p \in above <=> Asked(h, p, name)
        BY <3>1, AboveIsAsked DEF above
      <3> HIDE DEF step, g
      <3> QED
        BY <1>1, <3>1, <3>2
    <2>2. ASSUME NEW p \in Paths
          PROVE  step(g, p) \in BOOLEAN
      <3> HIDE DEF g
      <3> QED
        OBVIOUS
    <2>3. \A p \in Paths : (p \in above) = step(g, p)
      <3> HIDE DEF g, step
      <3> QED
        BY <2>1, <2>2
    <2> HIDE DEF step
    <2> QED
      BY <2>3
  <1>3. f = [p \in Paths |-> step(f, p)]
    <2> HIDE DEF step, g
    <2> QED
      BY <1>2
  <1>4. \A path : IsTagged(path, name) <=> path \in Paths /\ f[path]
    BY DEF IsTagged
  <1> HIDE DEF f
  <1>5. \A p \in Paths : f[p] <=> Asked(f, p, name)
    <2>1. ASSUME NEW p \in Paths
          PROVE  f[p] <=> step(f, p)
      <3> HIDE DEF step
      <3>1. f[p] = step(f, p)
        BY <1>3
      <3> QED
        BY <3>1
    <2> HIDE DEF step
    <2> QED
      BY <1>1, <2>1
  <1>6. \A p \in Paths : f[p] <=> p \in above
    BY <1>5, AskedIsAbove DEF above
  <1>7. above \subseteq Paths
    <2>1. GetAllTaggedFolder(name) \in SUBSET Paths
      BY TaggedPaths
    <2> QED
      BY <2>1, AboveIsLeast DEF above
  <1> QED
    BY <1>4, <1>6, <1>7 DEF above

LEMMA FoldersAgree ==
  ASSUME ListInv, UniquePaths, Attached, NEW r \in folders
  PROVE  /\ GetCondDBFolderSet(r.path) = None <=> r.path \in GetAllCondDBFolder
         /\ \A f \in GetCondDBFolder(r.path) : f.parent # 0 => IsSet(ParentOf(f.path))
         /\ GetFolderType(r.path) = {"set"} <=> r.path \in GetAllCondDBFolderSet
  <1>1. Find(r.path) = {r}
    BY DEF Find, UniquePaths
  <1>2. GetCondDBFolderSet(r.path) = None <=> r.kind # "set"
    BY <1>1 DEF GetCondDBFolderSet, FindSet, None
  <1>3. GetFolderType(r.path) = {r.kind}
    BY <1>1 DEF GetFolderType
  <1>4. /\ r.path \in GetAllCondDBFolder <=> r.kind # "set"
        /\ r.path \in GetAllCondDBFolderSet <=> r.kind = "set"
    BY DEF GetAllCondDBFolder, GetAllCondDBFolderSet, UniquePaths
  <1>5. ASSUME r.parent # 0
        PROVE  IsSet(ParentOf(r.path))
    <2>1. PICK p \in folders : p.id = r.parent
      BY <1>5 DEF Attached
    <2>2. p.kind = "set" /\ p.path = ParentOf(r.path)
      BY <2>1, RowsOfQuery
    <2> QED
      BY <2>2 DEF IsSet, Find
  <1> QED
    BY <1>1, <1>2, <1>3, <1>4, <1>5 DEF GetCondDBFolder

(* What is beneath a path by the column fparent is so by its path. *)
LEMMA BeneathAgrees ==
  ASSUME ListInv, Attached, NEW r \in folders, r.path = Normal(r.path)
  PROVE  GetAllCondDBFolderBeneath(r.path) =
           {r.path} \cup {s.path : s \in {f \in folders : f.path # Root
                                                          /\ ParentOf(f.path) = r.path}}
  <1> DEFINE children == {s.path : s \in UNION {Children(p.id) : p \in FindSet(r.path)}}
             named == {s.path : s \in {f \in folders : f.path # Root /\ ParentOf(f.path) = r.path}}
  <1>1. GetAllCondDBFolderBeneath(r.path) = {r.path} \cup children
    <2>1. r.path \in Seq(Token) /\ Separator \in Token
      BY DEF ListInv, TagTreeInv, TreeInv, TreeTypeOK, Row, Token
    <2>2. ValidPath(r.path)
      BY <2>1, NormalIsValid
    <2> QED
      BY <2>2 DEF GetAllCondDBFolderBeneath, Find
  <1>2. ASSUME NEW x \in children
        PROVE  x \in {r.path} \cup named
    <2>1. PICK s \in folders : s.path = x /\ \E p \in FindSet(r.path) : s.parent = p.id
      BY DEF Children
    <2>2. PICK p \in folders : p.path = r.path /\ s.parent = p.id
      BY <2>1 DEF FindSet, Find
    <2>3. ParentOf(s.path) = r.path
      BY <2>2, RowsOfQuery
    <2>4. CASE s.path = Root
      BY <2>1, <2>3, <2>4, ParentOfRoot
    <2>5. CASE s.path # Root
      BY <2>1, <2>3, <2>5
    <2> QED
      BY <2>4, <2>5
  <1>3. ASSUME NEW x \in named
        PROVE  x \in children
    <2>1. PICK s \in folders : s.path = x /\ s.path # Root /\ ParentOf(s.path) = r.path
      OBVIOUS
    <2>2. s.parent # 0
      BY <2>1, RowsOfQuery
    <2>3. PICK p \in folders : p.id = s.parent
      BY <2>2 DEF Attached
    <2>4. p.kind = "set" /\ p.path = r.path
      BY <2>1, <2>3, RowsOfQuery
    <2> QED
      BY <2>1, <2>3, <2>4 DEF Children, FindSet, Find
  <1> HIDE DEF children, named
  <1>4. {r.path} \cup children = {r.path} \cup named
    BY <1>2, <1>3
  <1> QED
    BY <1>1, <1>4 DEF named

LEMMA TagsAgree ==
  ASSUME ListInv, NEW name, NEW path \in Paths
  PROVE  name \in GetCondDBTag(path) <=> path \in GetAllTaggedFolder(name)
  <1>1. path \in GetAllTaggedFolder(name) <=> FolderIsTagged(path, name)
    BY TaggedPaths
  <1>2. name \in GetCondDBTag(path) <=>
          \E t \in tags : t.name = name /\ \E r \in Find(path) : <<t.id, r.id>> \in assoc
    BY DEF GetCondDBTag
  <1> QED
    BY <1>1, <1>2 DEF FolderIsTagged, TagNamed

(* However folders and tags were created, renamed and deleted, whoever raced with
   whom, and whatever a crash left behind: as long as no path is doubled and no
   row has lost its parent, the listings of folders, of what is beneath a folder
   set, of the tags of a folder and of the folders of a tag, and isTagged, tell
   one story. *)
THEOREM QueriesAgree == Spec => []ListingsAgree
  <1>1. ASSUME ListInv
        PROVE  ListingsAgree
    BY <1>1, FoldersAgree, BeneathAgrees, TagsAgree, IsTaggedIsAbove DEF ListingsAgree
  <1> QED
    BY <1>1, RootsHaveNoParent, PTL
=============================================================================
