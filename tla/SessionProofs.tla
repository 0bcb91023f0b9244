---------------------------- MODULE SessionProofs ----------------------------
(***************************************************************************)
(* Sessions of programs and of PHP scripts, for any processes, databases   *)
(* and names of servers, and any number of calls and failures.             *)
(***************************************************************************)
EXTENDS PhpBinding, TLAPS, FiniteSetTheorems

Manager == {"folder", "tag", "object", "online", "data"}

SessionRecord ==
  [interface : {"none", "new", "failed", "ready"},
   name : Database \cup {NoDatabase}, current : Database \cup {NoDatabase},
   answer : {"none", "opened", "refused", "created"},
   usage : Nat, linked : SUBSET Manager,
   log : {"none", "database"} \cup Manager, creating : BOOLEAN,
   top : [TopManager -> {"none", "shared", "lost"}]]

CatalogRow == [dbname : Database, srvname : {Server[p] : p \in Program}]

SessionTypeOK ==
  /\ made \in [Database -> 0 .. Statements]
  /\ row \in [Database -> SUBSET CatalogRow]
  /\ connections \in [Program -> Int]
  /\ session \in [Program -> SessionRecord]
  /\ faults \in Nat

(* The handle has at least the users that are linked to it, and no other one
   unless a manager was lost. *)
Counted(s) ==
  /\ s.usage >= 1 + Cardinality(s.linked)
  /\ faults = 0 => s.usage = 1 + Cardinality(s.linked)

(* A session selects databases that exist, and the one it is for, unless it
   was refused that one or has still to make it. *)
RightDatabase(s) ==
  /\ s.current # NoDatabase => made[s.current] > 0
  /\ s.current \notin {NoDatabase, s.name} => s.creating \/ s.answer = "refused"
  /\ s.answer \in {"opened", "created"} => s.current = s.name /\ s.current # NoDatabase
  /\ s.answer = "created" => made[s.current] = Statements
  /\ s.creating => s.answer = "none" /\ s.name # NoDatabase

(* What an interface holds before init, after an init that failed, and once
   it is connected. *)
Lifetime(s) ==
  /\ s.interface = "none" => s = NoSession
  /\ s.interface = "new" => s = NewInterface
  /\ s.interface # "ready" => s.answer = "none" /\ s.current = NoDatabase /\ ~s.creating
  /\ s.interface \in {"failed", "ready"} =>
       s.name # NoDatabase /\ s.log # "none" /\ Counted(s)

NothingLost(p) ==
  faults = 0 => /\ connections[p] = IF session[p].interface = "ready" THEN 1 ELSE 0
                /\ session[p].interface # "failed"
                /\ \A k \in TopManager : session[p].top[k] # "lost"

SessionOK(p) == Lifetime(session[p]) /\ RightDatabase(session[p]) /\ NothingLost(p)

(* The process that executes createDatabase for d is alone with it; the row
   that names d is there from its statement on. *)
DatabaseOK(d) ==
  /\ \A p, q \in Creators(d) : p = q
  /\ Creators(d) # {} => made[d] \in 1 .. Statements - 1
  /\ made[d] \in 1 .. Statements - 1 => faults > 0 \/ Creators(d) # {}
  /\ made[d] < RowStatement => row[d] = {}
  /\ made[d] >= RowStatement => \E r \in CatalogRow : row[d] = {r} /\ r.dbname = d

(* What has to hold before each step. *)
ProgramInv ==
  /\ SessionTypeOK
  /\ \A p \in Program : SessionOK(p)
  /\ \A d \in Database : DatabaseOK(d)
  /\ WritesGoHome

(* A script has a session that is open; while it has an iterator, its database
   has the row that the managers made on the way look for. *)
ScriptRecord ==
  [open : BOOLEAN, iterator : Seq(Row), printing : BOOLEAN, printed : Seq(Row),
   reply : {None, Error, Done, Array}, found : Seq(Row), prints : Nat]

ScriptOK(p) ==
  LET s == script[p]
  IN  /\ s.open => /\ session[p].interface = "ready" /\ session[p].answer = "opened"
                   /\ ~session[p].creating
      /\ s.iterator # <<>> => s.open /\ s.iterator = s.found /\ s.prints = 0 /\ CanWork(p)
      /\ s.printing => /\ s.iterator # <<>> /\ s.reply = None
                       /\ Len(s.printed) <= Len(s.iterator)
                       /\ \A i \in 1 .. Len(s.printed) : s.printed[i] = s.iterator[i]
      /\ s.reply = Array => s.printed = s.found /\ s.prints = 1

PhpInv ==
  /\ ProgramInv
  /\ script \in [Program -> ScriptRecord]
  /\ \A p \in Program : ScriptOK(p)
-----------------------------------------------------------------------------
USE DEF Statements, RowStatement

LEMMA NamesDiffer == NoDatabase \notin Database
  BY NoDatabaseAssumption

LEMMA NewInterfaceType == NewInterface \in SessionRecord /\ NoSession \in SessionRecord
  BY DEF NewInterface, NoSession, SessionRecord, TopManager

LEMMA SameTypes ==
  SessionRecord' = SessionRecord /\ CatalogRow' = CatalogRow /\ ScriptRecord' = ScriptRecord
  BY DEF SessionRecord, CatalogRow, ScriptRecord, TopManager, Manager, None, Error, Done, Array

(* A step that concerns one session, which neither begins nor finishes the
   creation of a database, keeps what is said of all the others. *)
LEMMA OneSession ==
  ASSUME ProgramInv, NEW p \in Program, NEW t \in SessionRecord,
         session' = [session EXCEPT ![p] = t], UNCHANGED <<made, row>>,
         connections' \in [Program -> Int],
         \A q \in Program \ {p} : connections'[q] = connections[q],
         faults' \in {faults, faults + 1}, WritesGoHome', SessionOK(p)',
         \A d \in Database : p \in Creators(d)' => p \in Creators(d),
         \A d \in Database : p \in Creators(d) => p \in Creators(d)' \/ faults' > 0
  PROVE  ProgramInv'
  <1>1. SessionTypeOK'
    <2>1. made' \in [Database -> 0 .. Statements] /\ row' \in [Database -> SUBSET CatalogRow]
      BY DEF ProgramInv, SessionTypeOK
    <2>2. session' \in [Program -> SessionRecord]
      BY DEF ProgramInv, SessionTypeOK
    <2>3. faults' \in Nat
      BY DEF ProgramInv, SessionTypeOK
    <2> QED
      BY <2>1, <2>2, <2>3, SameTypes DEF SessionTypeOK
  <1>2. session'[p] = t /\ \A q \in Program \ {p} : session'[q] = session[q]
    BY DEF ProgramInv, SessionTypeOK
  <1>3. faults \in Nat /\ faults' \in Nat /\ (faults' = 0 => faults = 0)
    BY DEF ProgramInv, SessionTypeOK
  <1>4. ASSUME NEW q \in Program
        PROVE  SessionOK(q)'
    <2>1. CASE q = p
      BY <2>1
    <2>2. CASE q # p
      <3>1. SessionOK(q) /\ session'[q] = session[q] /\ connections'[q] = connections[q]
        BY <1>2, <2>2 DEF ProgramInv
      <3> QED
        BY <1>3, <3>1 DEF SessionOK, Lifetime, Counted, RightDatabase, NothingLost
    <2> QED
      BY <2>1, <2>2
  <1>5. ASSUME NEW d \in Database
        PROVE  DatabaseOK(d)'
    <2>1. DatabaseOK(d) /\ made'[d] = made[d] /\ row'[d] = row[d]
      BY DEF ProgramInv
    <2>2. \A q \in Program \ {p} : q \in Creators(d)' <=> q \in Creators(d)
      BY <1>2 DEF Creators
    <2>3. Creators(d)' \subseteq Creators(d)
      BY <2>2 DEF Creators
    <2>4. Creators(d) # {} => Creators(d)' # {} \/ faults' > 0
      BY <2>2 DEF Creators
    <2>5. faults > 0 => faults' > 0
      BY <1>3
    <2> QED
      BY <2>1, <2>3, <2>4, <2>5, SameTypes DEF DatabaseOK
  <1> QED
    BY <1>1, <1>4, <1>5 DEF ProgramInv
-----------------------------------------------------------------------------
(* The parts of the invariant that speak of one process. *)
LEMMA OfProgram ==
  ASSUME ProgramInv, NEW p \in Program
  PROVE  /\ session[p] \in SessionRecord
         /\ Lifetime(session[p]) /\ RightDatabase(session[p]) /\ NothingLost(p)
         /\ connections[p] \in Int /\ faults \in Nat
  BY DEF ProgramInv, SessionTypeOK, SessionOK

(* A manager handed out is a share of what the interface holds. *)
LEMMA HandedKeeps ==
  ASSUME NEW s \in SessionRecord, NEW k \in TopManager
  PROVE  LET t == Handed(s, k)
         IN  /\ t \in SessionRecord
             /\ t.interface = s.interface /\ t.name = s.name /\ t.current = s.current
             /\ t.answer = s.answer /\ t.usage = s.usage /\ t.linked = s.linked
             /\ t.log = s.log /\ t.creating = s.creating
             /\ \A j \in TopManager : t.top[j] = "lost" => s.top[j] = "lost"
  BY DEF Handed, SessionRecord

LEMMA LinkedIsFinite ==
  ASSUME NEW s \in SessionRecord
  PROVE  IsFiniteSet(s.linked)
  <1>1. IsFiniteSet(Manager)
    <2>1. IsFiniteSet({"folder"}) /\ IsFiniteSet({"folder"} \cup {"tag"})
      BY FS_AddElement, FS_Singleton
    <2>2. IsFiniteSet({"folder"} \cup {"tag"} \cup {"object"})
      BY <2>1, FS_AddElement
    <2>3. IsFiniteSet({"folder"} \cup {"tag"} \cup {"object"} \cup {"online"})
      BY <2>2, FS_AddElement
    <2>4. IsFiniteSet({"folder"} \cup {"tag"} \cup {"object"} \cup {"online"} \cup {"data"})
      BY <2>3, FS_AddElement
    <2>5. Manager = {"folder"} \cup {"tag"} \cup {"object"} \cup {"online"} \cup {"data"}
      BY DEF Manager
    <2> QED
      BY <2>4, <2>5
  <1> QED
    BY <1>1, FS_Subset DEF SessionRecord

(* The counter of the handle goes up with the managers that are linked. *)
LEMMA JoinedIsCounted ==
  ASSUME NEW s \in SessionRecord, NEW k \in Manager \ s.linked, Counted(s), faults \in Nat
  PROVE  Counted(Joined(s, k))
  <1>2. IsFiniteSet(s.linked)
    BY LinkedIsFinite
  <1>3. Cardinality(s.linked) \in Nat /\ Cardinality(s.linked \cup {k}) = Cardinality(s.linked) + 1
    BY <1>2, FS_AddElement, FS_CardinalityType
  <1>4. /\ Joined(s, k).linked = s.linked \cup {k}
        /\ Joined(s, k).usage = s.usage + 1
        /\ s.usage \in Nat
    BY DEF Joined, SessionRecord
  <1> QED
    BY <1>3, <1>4 DEF Counted

(* A new manager leaves the session in the database it is in: the table there
   names no other one. *)
LEMMA LinkedKeeps ==
  ASSUME ProgramInv, NEW s \in SessionRecord, NEW k \in Manager,
         s.current # NoDatabase, row[s.current] # {}, Counted(s), s.log # "none"
  PROVE  LET t == Linked(s, k)
         IN  /\ t \in SessionRecord
             /\ t.interface = s.interface /\ t.name = s.name /\ t.current = s.current
             /\ t.answer = s.answer /\ t.creating = s.creating /\ t.top = s.top
             /\ t.log # "none" /\ Counted(t)
  <1>1. CASE k \in s.linked
    BY <1>1 DEF Linked
  <1>2. CASE k \notin s.linked
    <2>1. s.current \in Database
      BY DEF SessionRecord
    <2>2. PICK r \in CatalogRow : row[s.current] = {r} /\ r.dbname = s.current
      BY <2>1 DEF ProgramInv, DatabaseOK, SessionTypeOK
    <2>3. DBPath(s).dbname = s.current
      BY <2>2 DEF DBPath
    <2>4. Linked(s, k) = [WithLog(Joined(s, k), k) EXCEPT !.current = s.current]
      BY <1>2, <2>3 DEF Linked
    <2>5. /\ Linked(s, k).linked = Joined(s, k).linked
          /\ Linked(s, k).usage = Joined(s, k).usage
      BY <2>4 DEF WithLog, Joined, SessionRecord
    <2>6. Counted(Joined(s, k))
      BY <1>2, JoinedIsCounted DEF ProgramInv, SessionTypeOK
    <2>7. Counted(Linked(s, k))
      BY <2>5, <2>6 DEF Counted
    <2>8. k # "none" /\ k \in {"none", "database"} \cup Manager
      BY DEF Manager
    <2> DEFINE u == [s EXCEPT !.linked = s.linked \cup {k}, !.usage = s.usage + 1, !.log = k]
    <2>9. Linked(s, k) = [u EXCEPT !.current = s.current]
      BY <2>4 DEF WithLog, Joined, SessionRecord
    <2>10. /\ u \in SessionRecord
           /\ u.interface = s.interface /\ u.name = s.name /\ u.current = s.current
           /\ u.answer = s.answer /\ u.creating = s.creating /\ u.top = s.top
           /\ u.log = k
      <3>1. s.linked \cup {k} \in SUBSET Manager /\ s.usage + 1 \in Nat
        BY DEF SessionRecord
      <3>2. [s EXCEPT !.linked = s.linked \cup {k}] \in SessionRecord
        BY <3>1 DEF SessionRecord
      <3>3. [s EXCEPT !.linked = s.linked \cup {k}, !.usage = s.usage + 1] \in SessionRecord
        BY <3>1, <3>2 DEF SessionRecord
      <3>4. u \in SessionRecord
        BY <2>8, <3>3 DEF SessionRecord
      <3> QED
        BY <3>4 DEF SessionRecord
    <2>11. Linked(s, k) = u
      BY <2>9, <2>10 DEF SessionRecord
    <2> HIDE DEF u
    <2> QED
      BY <2>7, <2>8, <2>10, <2>11
  <1> QED
    BY <1>1, <1>2

LEMMA WithManagersKeeps ==
  ASSUME ProgramInv, NEW s \in SessionRecord, NEW k \in {"object", "online"},
         s.current # NoDatabase, row[s.current] # {}, Counted(s), s.log # "none"
  PROVE  LET t == WithManagers(s, k)
         IN  /\ t \in SessionRecord
             /\ t.interface = s.interface /\ t.name = s.name /\ t.current = s.current
             /\ t.answer = s.answer /\ t.creating = s.creating /\ t.top = s.top
             /\ t.log # "none" /\ Counted(t)
  <1>1. CASE k = "object"
    <2> DEFINE u == Linked(s, "object")
    <2>1. "object" \in Manager /\ "data" \in Manager
      BY DEF Manager
    <2>2. /\ u \in SessionRecord
          /\ u.interface = s.interface /\ u.name = s.name /\ u.current = s.current
          /\ u.answer = s.answer /\ u.creating = s.creating /\ u.top = s.top
          /\ u.log # "none" /\ Counted(u)
      BY <2>1, LinkedKeeps
    <2>3. WithManagers(s, k) = Linked(u, "data")
      BY <1>1 DEF WithManagers
    <2> HIDE DEF u
    <2>4. LET t == Linked(u, "data")
          IN  /\ t \in SessionRecord
              /\ t.interface = u.interface /\ t.name = u.name /\ t.current = u.current
              /\ t.answer = u.answer /\ t.creating = u.creating /\ t.top = u.top
              /\ t.log # "none" /\ Counted(t)
      BY <2>1, <2>2, LinkedKeeps
    <2> QED
      BY <2>2, <2>3, <2>4
  <1>2. CASE k = "online"
    <2>1. "online" \in Manager /\ WithManagers(s, k) = Linked(s, "online")
      BY <1>2 DEF Manager, WithManagers
    <2> QED
      BY <2>1, LinkedKeeps
  <1> QED
    BY <1>1, <1>2
-----------------------------------------------------------------------------
LEMMA NewSessionKeeps ==
  ASSUME ProgramInv, NEW p \in Program, NewSession(p)
  PROVE  ProgramInv'
  <1>1. /\ session' = [session EXCEPT ![p] = NewInterface] /\ NewInterface \in SessionRecord
        /\ UNCHANGED <<made, row, strays, connections, faults>>
        /\ session[p].interface = "none" /\ ~session[p].creating
    BY NewInterfaceType DEF NewSession, Become, serverVars, Is
  <1>2. session'[p] = NewInterface
    BY <1>1 DEF ProgramInv, SessionTypeOK
  <1>3. NothingLost(p) /\ faults' = faults /\ connections'[p] = connections[p]
    BY <1>1, OfProgram
  <1>4. SessionOK(p)'
    BY <1>1, <1>2, <1>3
    DEF SessionOK, Lifetime, Counted, RightDatabase, NothingLost, NewInterface
  <1>5. \A d \in Database : p \notin Creators(d) /\ p \notin Creators(d)'
    BY <1>1, <1>2 DEF Creators, NewInterface
  <1>6. connections' \in [Program -> Int] /\ WritesGoHome'
    BY <1>1 DEF ProgramInv, SessionTypeOK, WritesGoHome
  <1> QED
    BY <1>1, <1>4, <1>5, <1>6, OneSession

LEMMA JoinedType ==
  ASSUME NEW s \in SessionRecord, NEW k \in Manager
  PROVE  LET t == Joined(s, k)
         IN  /\ t \in SessionRecord
             /\ t.interface = s.interface /\ t.name = s.name /\ t.current = s.current
             /\ t.answer = s.answer /\ t.creating = s.creating /\ t.top = s.top
             /\ t.log = s.log /\ t.linked = s.linked \cup {k} /\ t.usage = s.usage + 1
  <1>1. s.linked \cup {k} \in SUBSET Manager /\ s.usage + 1 \in Nat
    BY DEF SessionRecord
  <1>2. [s EXCEPT !.linked = s.linked \cup {k}] \in SessionRecord
    BY <1>1 DEF SessionRecord
  <1> QED
    BY <1>1, <1>2 DEF Joined, SessionRecord

(* init: what an interface holds that has a new MySqlDBMgr. *)
LEMMA InitialisedType ==
  ASSUME ProgramInv, NEW p \in Program, NEW d \in Database,
         session[p].interface # "ready", NEW state \in {"ready", "failed"}
  PROVE  LET t == [Initialised(p, d) EXCEPT !.interface = state]
         IN  /\ t \in SessionRecord
             /\ t.interface = state /\ t.name = d /\ t.current = NoDatabase
             /\ t.answer = "none" /\ ~t.creating /\ t.log = "database" /\ Counted(t)
             /\ \A k \in TopManager : t.top[k] = "lost" => session[p].top[k] # "none"
  <1>1. session[p] \in SessionRecord /\ Lifetime(session[p]) /\ faults \in Nat
    BY OfProgram
  <1>2. session[p].answer = "none" /\ ~session[p].creating
    BY <1>1 DEF Lifetime
  <1> DEFINE fresh == [session[p] EXCEPT !.usage = 1, !.linked = {}, !.current = NoDatabase]
             f     == Joined(fresh, "folder")
             g     == Joined(f, "tag")
  <1>3. /\ [session[p] EXCEPT !.usage = 1] \in SessionRecord
        /\ [session[p] EXCEPT !.usage = 1, !.linked = {}] \in SessionRecord
        /\ fresh \in SessionRecord
    BY <1>1 DEF SessionRecord
  <1>4. /\ fresh.usage = 1 /\ fresh.linked = {} /\ fresh.current = NoDatabase
        /\ fresh.interface = session[p].interface /\ fresh.answer = "none" /\ ~fresh.creating
        /\ fresh.top = session[p].top
    BY <1>1, <1>2 DEF SessionRecord
  <1>5. Counted(fresh)
    BY <1>1, <1>4, FS_EmptySet DEF Counted
  <1> HIDE DEF fresh
  <1>6. "folder" \in Manager /\ "tag" \in Manager
    BY DEF Manager
  <1>7. /\ f \in SessionRecord /\ Counted(f) /\ f.linked = {"folder"}
        /\ f.current = NoDatabase /\ f.answer = "none" /\ ~f.creating /\ f.top = session[p].top
    <2>1. "folder" \in Manager \ fresh.linked
      BY <1>4, <1>6
    <2>2. Counted(f)
      BY <1>1, <1>3, <1>5, <2>1, JoinedIsCounted
    <2> QED
      BY <1>3, <1>4, <1>6, <2>2, JoinedType
  <1> HIDE DEF f
  <1>8. /\ g \in SessionRecord /\ Counted(g)
        /\ g.current = NoDatabase /\ g.answer = "none" /\ ~g.creating /\ g.top = session[p].top
    <2>1. "tag" \in Manager \ f.linked
      BY <1>6, <1>7
    <2>2. Counted(g)
      BY <1>1, <1>7, <2>1, JoinedIsCounted
    <2> QED
      BY <1>6, <1>7, <2>2, JoinedType
  <1> DEFINE lost == [k \in TopManager |-> IF session[p].top[k] = "none" THEN "none" ELSE "lost"]
             h == [g EXCEPT !.log = "database"]
             i == [h EXCEPT !.name = d]
             j == [i EXCEPT !.top = lost]
             t == [j EXCEPT !.interface = state]
  <1>9. [Initialised(p, d) EXCEPT !.interface = state] = t
    <2>1. h.top = session[p].top
      BY <1>8 DEF SessionRecord
    <2> QED
      BY <2>1 DEF Initialised, WithLog, fresh, f
  <1> HIDE DEF g
  <1>10. lost \in [TopManager -> {"none", "shared", "lost"}]
    OBVIOUS
  <1>11. \A k \in TopManager : lost[k] = "lost" => session[p].top[k] # "none"
    OBVIOUS
  <1> HIDE DEF lost
  <1>12. h \in SessionRecord /\ i \in SessionRecord /\ j \in SessionRecord
    BY <1>8, <1>10 DEF SessionRecord
  <1>13. /\ t \in SessionRecord
         /\ t.interface = state /\ t.name = d /\ t.current = NoDatabase
         /\ t.answer = "none" /\ ~t.creating /\ t.log = "database" /\ t.top = lost
         /\ t.usage = g.usage /\ t.linked = g.linked
    BY <1>8, <1>12 DEF SessionRecord
  <1>14. Counted(t)
    BY <1>8, <1>13 DEF Counted
  <1> HIDE DEF t
  <1> QED
    BY <1>9, <1>11, <1>13, <1>14

LEMMA InitSessionKeeps ==
  ASSUME ProgramInv, NEW p \in Program, NEW d \in Database, InitSession(p, d)
  PROVE  ProgramInv'
  <1> DEFINE t == [Initialised(p, d) EXCEPT !.interface = "ready"]
  <1>1. /\ CanInit(p) /\ session' = [session EXCEPT ![p] = t]
        /\ connections' = [connections EXCEPT ![p] = @ + 1]
        /\ UNCHANGED <<made, row, strays, faults>>
    BY DEF InitSession, Become
  <1>2. /\ t \in SessionRecord
        /\ t.interface = "ready" /\ t.name = d /\ t.current = NoDatabase
        /\ t.answer = "none" /\ ~t.creating /\ t.log = "database" /\ Counted(t)
        /\ \A k \in TopManager : t.top[k] = "lost" => session[p].top[k] # "none"
    <2>1. session[p].interface # "ready"
      BY <1>1 DEF CanInit, Is
    <2> QED
      BY <2>1, InitialisedType
  <1> HIDE DEF t
  <1>3. /\ session[p].interface \in {"new", "failed"} /\ ~session[p].creating
        /\ Lifetime(session[p]) /\ NothingLost(p) /\ connections[p] \in Int
    BY <1>1, OfProgram DEF CanInit, Is
  <1>4. session'[p] = t /\ connections'[p] = connections[p] + 1
    BY <1>1 DEF ProgramInv, SessionTypeOK
  <1>5. NothingLost(p)'
    <2>1. CASE session[p].interface = "new"
      <3>1. \A k \in TopManager : t.top[k] # "lost"
        BY <1>2, <1>3, <2>1 DEF Lifetime, NewInterface
      <3>2. faults = 0 => connections[p] = 0
        BY <1>3, <2>1 DEF NothingLost
      <3> QED
        BY <1>1, <1>2, <1>4, <3>1, <3>2 DEF NothingLost
    <2>2. CASE session[p].interface = "failed"
      BY <1>1, <1>3, <2>2 DEF NothingLost
    <2> QED
      BY <1>3, <2>1, <2>2
  <1>6. SessionOK(p)'
    BY <1>1, <1>2, <1>4, <1>5, NamesDiffer DEF SessionOK, Lifetime, Counted, RightDatabase
  <1>7. \A e \in Database : p \notin Creators(e) /\ p \notin Creators(e)'
    BY <1>2, <1>3, <1>4 DEF Creators
  <1>8. /\ connections' \in [Program -> Int] /\ WritesGoHome'
        /\ \A q \in Program \ {p} : connections'[q] = connections[q]
    BY <1>1 DEF ProgramInv, SessionTypeOK, WritesGoHome
  <1> QED
    BY <1>1, <1>2, <1>6, <1>7, <1>8, OneSession

LEMMA InitFailsKeeps ==
  ASSUME ProgramInv, NEW p \in Program, NEW d \in Database, InitFails(p, d)
  PROVE  ProgramInv'
  <1> DEFINE t == [Initialised(p, d) EXCEPT !.interface = "failed"]
  <1>1. /\ CanInit(p) /\ session' = [session EXCEPT ![p] = t]
        /\ faults' = faults + 1
        /\ UNCHANGED <<made, row, strays, connections>>
    BY DEF InitFails, Become, serverVars
  <1>2. /\ t \in SessionRecord
        /\ t.interface = "failed" /\ t.name = d /\ t.current = NoDatabase
        /\ t.answer = "none" /\ ~t.creating /\ t.log = "database" /\ Counted(t)
        /\ \A k \in TopManager : t.top[k] = "lost" => session[p].top[k] # "none"
    <2>1. session[p].interface # "ready"
      BY <1>1 DEF CanInit, Is
    <2> QED
      BY <2>1, InitialisedType
  <1> HIDE DEF t
  <1>3. ~session[p].creating /\ faults \in Nat
    BY <1>1, OfProgram DEF CanInit, Is
  <1>4. session'[p] = t
    BY <1>1 DEF ProgramInv, SessionTypeOK
  <1>5. faults' > 0 /\ faults' # 0
    BY <1>1, <1>3
  <1>6. SessionOK(p)'
    BY <1>2, <1>4, <1>5, NamesDiffer DEF SessionOK, Lifetime, Counted, RightDatabase, NothingLost
  <1>7. \A e \in Database : p \notin Creators(e) /\ p \notin Creators(e)'
    BY <1>2, <1>3, <1>4 DEF Creators
  <1>8. connections' \in [Program -> Int] /\ WritesGoHome'
    BY <1>1 DEF ProgramInv, SessionTypeOK, WritesGoHome
  <1> QED
    BY <1>1, <1>2, <1>6, <1>7, <1>8, OneSession

(* A manager that the interface hands out. *)
LEMMA GetTopManagerKeeps ==
  ASSUME ProgramInv, NEW p \in Program, NEW k \in TopManager,
         session' = [session EXCEPT ![p] = Handed(session[p], k)],
         session[p].interface \in {"ready", "failed"}, ~session[p].creating,
         UNCHANGED <<serverVars, faults>>
  PROVE  ProgramInv'
  <1> DEFINE s == session[p]  t == Handed(s, k)
  <1>1. UNCHANGED <<made, row, strays, connections, faults>>
    BY DEF serverVars
  <1>2. /\ s \in SessionRecord /\ Lifetime(s) /\ RightDatabase(s) /\ NothingLost(p)
    BY OfProgram
  <1>3. /\ t \in SessionRecord
        /\ t.interface = s.interface /\ t.name = s.name /\ t.current = s.current
        /\ t.answer = s.answer /\ t.usage = s.usage /\ t.linked = s.linked
        /\ t.log = s.log /\ t.creating = s.creating
        /\ \A j \in TopManager : t.top[j] = "lost" => s.top[j] = "lost"
    BY <1>2, HandedKeeps
  <1> HIDE DEF t
  <1>4. session' = [session EXCEPT ![p] = t] /\ session'[p] = t
    BY DEF t, ProgramInv, SessionTypeOK
  <1>5. Lifetime(t)
    BY <1>2, <1>3 DEF Lifetime, Counted
  <1>6. SessionOK(p)'
    BY <1>1, <1>2, <1>3, <1>4, <1>5 DEF SessionOK, Lifetime, Counted, RightDatabase, NothingLost
  <1>7. \A e \in Database : p \notin Creators(e) /\ p \notin Creators(e)'
    BY <1>3, <1>4 DEF Creators
  <1>8. connections' \in [Program -> Int] /\ WritesGoHome'
    BY <1>1 DEF ProgramInv, SessionTypeOK, WritesGoHome
  <1> QED
    BY <1>1, <1>3, <1>4, <1>6, <1>7, <1>8, OneSession
-----------------------------------------------------------------------------
(* A ready session goes on with its handle: what the handle counts and what
   the interface has handed out stay as they are, and no database is begun
   or finished. *)
LEMMA ReadyStep ==
  ASSUME ProgramInv, NEW p \in Program, session[p].interface = "ready",
         NEW t \in SessionRecord, session' = [session EXCEPT ![p] = t],
         t.interface = "ready", t.name # NoDatabase, t.log # "none", t.top = session[p].top,
         Counted(t), RightDatabase(t),
         UNCHANGED <<made, row, connections, faults>>, WritesGoHome',
         \A d \in Database : p \in Creators(d) => p \in Creators(d)',
         \A d \in Database : p \in Creators(d)' => p \in Creators(d)
  PROVE  ProgramInv'
  <1>1. NothingLost(p)
    BY OfProgram
  <1>2. session'[p] = t /\ connections'[p] = connections[p]
    BY DEF ProgramInv, SessionTypeOK
  <1>3. SessionOK(p)'
    BY <1>1, <1>2 DEF SessionOK, Lifetime, Counted, RightDatabase, NothingLost
  <1>4. connections' \in [Program -> Int]
    BY DEF ProgramInv, SessionTypeOK
  <1> QED
    BY <1>3, <1>4, OneSession

(* changeDB for a session that is for the database asked for. *)
LEMMA OpenedIsRight ==
  ASSUME ProgramInv, NEW s \in SessionRecord, NEW d \in Database,
         s.interface = "ready", ~s.creating, RightDatabase(s)
  PROVE  LET t == Opened(s, d)
         IN  /\ t \in SessionRecord
             /\ t.interface = "ready" /\ t.name = d /\ ~t.creating /\ t.top = s.top
             /\ t.usage = s.usage /\ t.linked = s.linked /\ t.log = s.log
             /\ t.answer = IF Exists(d) THEN "opened" ELSE "refused"
             /\ t.current = IF Exists(d) THEN d ELSE s.current
             /\ RightDatabase(t)
  <1> DEFINE u == [s EXCEPT !.name = d]
  <1>1. /\ u \in SessionRecord
        /\ u.interface = "ready" /\ u.name = d /\ ~u.creating /\ u.top = s.top
        /\ u.usage = s.usage /\ u.linked = s.linked /\ u.log = s.log /\ u.current = s.current
    BY DEF SessionRecord
  <1>2. Opened(s, d) = ChangeDB(u, d)
    BY DEF Opened
  <1> HIDE DEF u
  <1>3. made[d] \in Int
    BY DEF ProgramInv, SessionTypeOK
  <1>4. CASE Exists(d)
    <2> DEFINE v == [u EXCEPT !.current = d]
               t == [v EXCEPT !.answer = "opened"]
    <2>1. v \in SessionRecord /\ t \in SessionRecord
      BY <1>1 DEF SessionRecord
    <2>2. Opened(s, d) = t
      BY <1>2, <1>4 DEF ChangeDB
    <2>3. /\ t.interface = "ready" /\ t.name = d /\ ~t.creating /\ t.top = s.top
          /\ t.usage = s.usage /\ t.linked = s.linked /\ t.log = s.log
          /\ t.current = d /\ t.answer = "opened"
      BY <1>1, <2>1 DEF SessionRecord
    <2> HIDE DEF t
    <2>4. RightDatabase(t)
      BY <1>4, <2>3, NamesDiffer DEF RightDatabase, Exists
    <2> QED
      BY <1>4, <2>1, <2>2, <2>3, <2>4
  <1>5. CASE ~Exists(d)
    <2> DEFINE t == [u EXCEPT !.answer = "refused"]
    <2>1. t \in SessionRecord /\ Opened(s, d) = t
      BY <1>1, <1>2, <1>5 DEF ChangeDB, SessionRecord
    <2>3. /\ t.interface = "ready" /\ t.name = d /\ ~t.creating /\ t.top = s.top
          /\ t.usage = s.usage /\ t.linked = s.linked /\ t.log = s.log
          /\ t.current = s.current /\ t.answer = "refused"
      BY <1>1, <2>1 DEF SessionRecord
    <2> HIDE DEF t
    <2>4. RightDatabase(t)
      BY <2>3 DEF RightDatabase
    <2> QED
      BY <1>5, <2>1, <2>3, <2>4
  <1> QED
    BY <1>4, <1>5

LEMMA OpenDatabaseKeeps ==
  ASSUME ProgramInv, NEW p \in Program, OpenDatabase(p)
  PROVE  ProgramInv'
  <1> DEFINE s == session[p]  d == s.name  t == Opened(s, d)
  <1>1. /\ s.interface = "ready" /\ ~s.creating
        /\ session' = [session EXCEPT ![p] = t]
        /\ UNCHANGED <<made, row, strays, connections, faults>>
    BY DEF OpenDatabase, Become, Is, serverVars
  <1>2. s \in SessionRecord /\ Lifetime(s) /\ RightDatabase(s)
    BY OfProgram
  <1>3. d \in Database /\ s.log # "none" /\ Counted(s)
    BY <1>1, <1>2 DEF Lifetime, SessionRecord
  <1>4. /\ t \in SessionRecord
        /\ t.interface = "ready" /\ t.name = d /\ ~t.creating /\ t.top = s.top
        /\ t.usage = s.usage /\ t.linked = s.linked /\ t.log = s.log
        /\ t.answer = IF Exists(d) THEN "opened" ELSE "refused"
        /\ t.current = IF Exists(d) THEN d ELSE s.current
        /\ RightDatabase(t)
    BY <1>1, <1>2, <1>3, OpenedIsRight
  <1> HIDE DEF t
  <1>5. session'[p] = t
    BY <1>1 DEF ProgramInv, SessionTypeOK
  <1>6. \A e \in Database : p \notin Creators(e) /\ p \notin Creators(e)'
    BY <1>1, <1>4, <1>5 DEF Creators
  <1>7. Counted(t) /\ WritesGoHome'
    BY <1>1, <1>3, <1>4 DEF Counted, ProgramInv, WritesGoHome
  <1> QED
    BY <1>1, <1>3, <1>4, <1>6, <1>7, NamesDiffer, ReadyStep

LEMMA CreateCondDBKeeps ==
  ASSUME ProgramInv, NEW p \in Program, NEW d \in Database, CreateCondDB(p, d)
  PROVE  ProgramInv'
  <1> DEFINE s == session[p]  o == Opened(s, d)
             n == [o EXCEPT !.creating = TRUE]
             t == [n EXCEPT !.answer = "none"]
  <1>1. /\ s.interface = "ready" /\ ~s.creating
        /\ session' = [session EXCEPT ![p] = IF Exists(d) THEN o ELSE t]
        /\ UNCHANGED <<made, row, strays, connections, faults>>
    BY DEF CreateCondDB, Become, Is, serverVars
  <1>2. s \in SessionRecord /\ Lifetime(s) /\ RightDatabase(s)
    BY OfProgram
  <1>3. s.log # "none" /\ Counted(s)
    BY <1>1, <1>2 DEF Lifetime
  <1>4. /\ o \in SessionRecord
        /\ o.interface = "ready" /\ o.name = d /\ ~o.creating /\ o.top = s.top
        /\ o.usage = s.usage /\ o.linked = s.linked /\ o.log = s.log
        /\ o.answer = IF Exists(d) THEN "opened" ELSE "refused"
        /\ o.current = IF Exists(d) THEN d ELSE s.current
        /\ RightDatabase(o)
    BY <1>1, <1>2, OpenedIsRight
  <1> HIDE DEF o
  <1>5. WritesGoHome'
    BY <1>1 DEF ProgramInv, WritesGoHome
  <1>6. CASE Exists(d)
    <2>1. session' = [session EXCEPT ![p] = o] /\ session'[p] = o
      BY <1>1, <1>6 DEF ProgramInv, SessionTypeOK
    <2>2. \A e \in Database : p \notin Creators(e) /\ p \notin Creators(e)'
      BY <1>1, <1>4, <2>1 DEF Creators
    <2>3. Counted(o)
      BY <1>3, <1>4 DEF Counted
    <2> QED
      BY <1>1, <1>3, <1>4, <1>5, <2>1, <2>2, <2>3, NamesDiffer, ReadyStep
  <1>7. CASE ~Exists(d)
    <2>1. n \in SessionRecord /\ t \in SessionRecord
      BY <1>4 DEF SessionRecord
    <2>2. /\ t.interface = "ready" /\ t.name = d /\ t.creating /\ t.top = s.top
          /\ t.usage = s.usage /\ t.linked = s.linked /\ t.log = s.log
          /\ t.current = s.current /\ t.answer = "none"
      BY <1>4, <1>7, <2>1 DEF SessionRecord
    <2> HIDE DEF t
    <2>3. session' = [session EXCEPT ![p] = t] /\ session'[p] = t
      BY <1>1, <1>7 DEF ProgramInv, SessionTypeOK
    <2>4. s.current # d
      BY <1>2, <1>7, NamesDiffer DEF RightDatabase, Exists
    <2>5. \A e \in Database : p \notin Creators(e) /\ p \notin Creators(e)'
      BY <1>1, <2>2, <2>3, <2>4 DEF Creators
    <2>6. Counted(t)
      BY <1>3, <2>2 DEF Counted
    <2>7. RightDatabase(t)
      BY <1>2, <2>2, NamesDiffer DEF RightDatabase
    <2> QED
      BY <1>1, <1>3, <1>5, <2>1, <2>2, <2>3, <2>5, <2>6, <2>7, NamesDiffer, ReadyStep
  <1> QED
    BY <1>6, <1>7

(* The exception of a creation that another program was faster with. *)
LEMMA DatabaseExistsKeeps ==
  ASSUME ProgramInv, NEW p \in Program, DatabaseExists(p)
  PROVE  ProgramInv'
  <1> DEFINE s == session[p]
             n == [s EXCEPT !.creating = FALSE]
             t == [n EXCEPT !.answer = "refused"]
  <1>1. /\ s.creating /\ s.current # s.name
        /\ session' = [session EXCEPT ![p] = t]
        /\ UNCHANGED <<made, row, strays, connections, faults>>
    BY DEF DatabaseExists, Become, Created, serverVars
  <1>2. s \in SessionRecord /\ Lifetime(s) /\ RightDatabase(s)
    BY OfProgram
  <1>3. s.interface = "ready" /\ s.log # "none" /\ Counted(s) /\ s.name # NoDatabase
    BY <1>1, <1>2 DEF Lifetime
  <1>4. n \in SessionRecord /\ t \in SessionRecord
    BY <1>2 DEF SessionRecord
  <1>5. /\ t.interface = "ready" /\ t.name = s.name /\ ~t.creating /\ t.top = s.top
        /\ t.usage = s.usage /\ t.linked = s.linked /\ t.log = s.log
        /\ t.current = s.current /\ t.answer = "refused"
    BY <1>2, <1>3, <1>4 DEF SessionRecord
  <1> HIDE DEF t
  <1>6. session'[p] = t
    BY <1>1 DEF ProgramInv, SessionTypeOK
  <1>7. \A e \in Database : p \notin Creators(e) /\ p \notin Creators(e)'
    BY <1>1, <1>5, <1>6 DEF Creators
  <1>8. Counted(t) /\ WritesGoHome' /\ RightDatabase(t)
    BY <1>1, <1>2, <1>3, <1>5 DEF Counted, ProgramInv, WritesGoHome, RightDatabase
  <1> QED
    BY <1>1, <1>3, <1>4, <1>5, <1>7, <1>8, ReadyStep
-----------------------------------------------------------------------------
(* Working with managers changes only what the handle counts. *)
LEMMA WorkStep ==
  ASSUME ProgramInv, NEW p \in Program, CanWork(p), NEW t \in SessionRecord,
         session' = [session EXCEPT ![p] = t],
         t.interface = session[p].interface, t.name = session[p].name,
         t.current = session[p].current, t.answer = session[p].answer,
         t.creating = session[p].creating, t.top = session[p].top,
         t.log # "none", Counted(t),
         UNCHANGED <<made, row, connections, faults>>, WritesGoHome'
  PROVE  ProgramInv'
  <1>1. session[p].interface = "ready" /\ ~session[p].creating
    BY DEF CanWork, Is
  <1>2. Lifetime(session[p]) /\ RightDatabase(session[p])
    BY OfProgram
  <1>3. session'[p] = t
    BY DEF ProgramInv, SessionTypeOK
  <1>4. \A e \in Database : p \notin Creators(e) /\ p \notin Creators(e)'
    BY <1>1, <1>3 DEF Creators
  <1>5. t.name # NoDatabase /\ RightDatabase(t)
    BY <1>1, <1>2 DEF Lifetime, RightDatabase
  <1> QED
    BY <1>1, <1>4, <1>5, ReadyStep

LEMMA CanWorkWith ==
  ASSUME ProgramInv, NEW p \in Program, CanWork(p)
  PROVE  LET s == session[p]
         IN  /\ s \in SessionRecord /\ s.current \in Database /\ row[s.current] # {}
             /\ s.current # NoDatabase /\ Counted(s) /\ s.log # "none"
             /\ s.current # s.name => s.answer = "refused"
  <1>1. session[p] \in SessionRecord /\ Lifetime(session[p]) /\ RightDatabase(session[p])
    BY OfProgram
  <1> QED
    BY <1>1 DEF CanWork, Is, SessionRecord, Lifetime, RightDatabase

LEMMA CreateFolderKeeps ==
  ASSUME ProgramInv, NEW p \in Program, NEW k \in Kind, CreateFolder(p, k)
  PROVE  ProgramInv'
  <1> DEFINE s == session[p]  t == Linked(s, k)
  <1>1. /\ CanWork(p) /\ session' = [session EXCEPT ![p] = t]
        /\ strays' = IF t.current = t.name THEN strays
                     ELSE strays \cup {[what |-> "folder", after |-> t.answer]}
        /\ UNCHANGED <<made, row, connections, faults>>
    BY DEF CreateFolder, Works, Become
  <1>2. /\ s \in SessionRecord /\ s.current \in Database /\ row[s.current] # {}
        /\ s.current # NoDatabase /\ Counted(s) /\ s.log # "none"
    BY <1>1, CanWorkWith
  <1>3. k \in Manager
    BY KindAssumption DEF Manager
  <1>4. /\ t \in SessionRecord
        /\ t.interface = s.interface /\ t.name = s.name /\ t.current = s.current
        /\ t.answer = s.answer /\ t.creating = s.creating /\ t.top = s.top
        /\ t.log # "none" /\ Counted(t)
    BY <1>2, <1>3, LinkedKeeps
  <1> HIDE DEF t
  <1>5. DBId(p) # {}
    <2>1. Cardinality(DBId(p)) = 1
      BY DEF CreateFolder
    <2> QED
      BY <2>1, FS_EmptySet
  <1>6. PICK r \in row[s.current] : r.dbname = s.name
    BY <1>5 DEF DBId
  <1>7. r.dbname = s.current
    BY <1>2, <1>6 DEF ProgramInv, DatabaseOK, SessionTypeOK
  <1>8. WritesGoHome'
    BY <1>1, <1>4, <1>6, <1>7 DEF ProgramInv, WritesGoHome
  <1> QED
    BY <1>1, <1>4, <1>8, WorkStep

LEMMA StoreObjectKeeps ==
  ASSUME ProgramInv, NEW p \in Program, NEW k \in Kind, StoreObject(p, k)
  PROVE  ProgramInv'
  <1> DEFINE s == session[p]  t == WithManagers(s, k)
  <1>1. /\ CanWork(p) /\ session' = [session EXCEPT ![p] = t]
        /\ strays' = IF t.current = t.name THEN strays
                     ELSE strays \cup {[what |-> "object", after |-> t.answer]}
        /\ UNCHANGED <<made, row, connections, faults>>
    BY DEF StoreObject, Works, Become
  <1>2. /\ s \in SessionRecord /\ s.current \in Database /\ row[s.current] # {}
        /\ s.current # NoDatabase /\ Counted(s) /\ s.log # "none"
        /\ s.current # s.name => s.answer = "refused"
    BY <1>1, CanWorkWith
  <1>3. k \in {"object", "online"}
    BY KindAssumption
  <1>4. /\ t \in SessionRecord
        /\ t.interface = s.interface /\ t.name = s.name /\ t.current = s.current
        /\ t.answer = s.answer /\ t.creating = s.creating /\ t.top = s.top
        /\ t.log # "none" /\ Counted(t)
    BY <1>2, <1>3, WithManagersKeeps
  <1> HIDE DEF t
  <1>5. ASSUME NEW w \in strays'
        PROVE  w.what = "object" /\ w.after = "refused"
    <2>1. CASE w \in strays
      BY <2>1 DEF ProgramInv, WritesGoHome
    <2>2. CASE w \notin strays
      <3>1. t.current # t.name /\ w = [what |-> "object", after |-> t.answer]
        BY <1>1, <2>2
      <3> QED
        BY <1>2, <1>4, <3>1
    <2> QED
      BY <2>1, <2>2
  <1>6. WritesGoHome'
    BY <1>5 DEF WritesGoHome
  <1> QED
    BY <1>1, <1>4, <1>6, WorkStep

-----------------------------------------------------------------------------
(* What fails, and what ends. *)
LEMMA ManagerFailsKeeps ==
  ASSUME ProgramInv, NEW p \in Program, NEW k \in Kind, ManagerFails(p, k)
  PROVE  ProgramInv'
  <1> DEFINE s == session[p]
             u == [s EXCEPT !.usage = @ + 1]
             t == [u EXCEPT !.log = k]
  <1>1. /\ CanWork(p) /\ faults' = faults + 1
        /\ session' = [session EXCEPT ![p] = t]
        /\ UNCHANGED <<made, row, strays, connections>>
    BY DEF ManagerFails, Become, serverVars
  <1>2. /\ s \in SessionRecord /\ Lifetime(s) /\ RightDatabase(s) /\ faults \in Nat
        /\ s.interface = "ready" /\ ~s.creating
    BY <1>1, OfProgram DEF CanWork, Is
  <1>3. k \in Manager /\ k # "none"
    BY KindAssumption DEF Manager
  <1>4. u \in SessionRecord /\ t \in SessionRecord
    <2>1. s.usage + 1 \in Nat
      BY <1>2 DEF SessionRecord
    <2>2. u \in SessionRecord
      BY <1>2, <2>1 DEF SessionRecord
    <2> QED
      BY <1>3, <2>2 DEF SessionRecord
  <1>5. /\ t.interface = "ready" /\ t.name = s.name /\ ~t.creating /\ t.top = s.top
        /\ t.usage = s.usage + 1 /\ t.linked = s.linked /\ t.log = k
        /\ t.current = s.current /\ t.answer = s.answer
    BY <1>2, <1>4 DEF SessionRecord
  <1> HIDE DEF t
  <1>6. session'[p] = t
    BY <1>1 DEF ProgramInv, SessionTypeOK
  <1>7. t.usage >= 1 + Cardinality(t.linked)
    <2>1. Cardinality(s.linked) \in Nat
      BY <1>2, LinkedIsFinite, FS_CardinalityType
    <2>2. s.usage >= 1 + Cardinality(s.linked) /\ s.usage \in Nat
      BY <1>2 DEF Lifetime, Counted, SessionRecord
    <2> QED
      BY <1>5, <2>1, <2>2
  <1>8. faults' # 0 /\ faults' > 0
    BY <1>1, <1>2
  <1>9. SessionOK(p)'
    <2>1. t.name # NoDatabase /\ RightDatabase(t)
      BY <1>2, <1>5 DEF Lifetime, RightDatabase
    <2> QED
      BY <1>1, <1>3, <1>5, <1>6, <1>7, <1>8, <2>1
      DEF SessionOK, Lifetime, Counted, RightDatabase, NothingLost
  <1>10. \A e \in Database : p \notin Creators(e) /\ p \notin Creators(e)'
    BY <1>2, <1>5, <1>6 DEF Creators
  <1>11. connections' \in [Program -> Int] /\ WritesGoHome'
    BY <1>1 DEF ProgramInv, SessionTypeOK, WritesGoHome
  <1> QED
    BY <1>1, <1>4, <1>9, <1>10, <1>11, OneSession

LEMMA CreationFailsKeeps ==
  ASSUME ProgramInv, NEW p \in Program, CreationFails(p)
  PROVE  ProgramInv'
  <1> DEFINE s == session[p]
             n == [s EXCEPT !.creating = FALSE]
             t == [n EXCEPT !.answer = "refused"]
  <1>1. /\ s.creating /\ faults' = faults + 1
        /\ session' = [session EXCEPT ![p] = t]
        /\ UNCHANGED <<made, row, strays, connections>>
    BY DEF CreationFails, Become, serverVars
  <1>2. s \in SessionRecord /\ Lifetime(s) /\ RightDatabase(s) /\ faults \in Nat
    BY OfProgram
  <1>3. s.interface = "ready" /\ s.log # "none" /\ Counted(s) /\ s.name # NoDatabase
    BY <1>1, <1>2 DEF Lifetime
  <1>4. n \in SessionRecord /\ t \in SessionRecord
    BY <1>2 DEF SessionRecord
  <1>5. /\ t.interface = "ready" /\ t.name = s.name /\ ~t.creating /\ t.top = s.top
        /\ t.usage = s.usage /\ t.linked = s.linked /\ t.log = s.log
        /\ t.current = s.current /\ t.answer = "refused"
    BY <1>2, <1>3, <1>4 DEF SessionRecord
  <1> HIDE DEF t
  <1>6. session'[p] = t
    BY <1>1 DEF ProgramInv, SessionTypeOK
  <1>7. faults' # 0 /\ faults' > 0
    BY <1>1, <1>2
  <1>8. SessionOK(p)'
    <2>1. RightDatabase(t)
      BY <1>1, <1>2, <1>5 DEF RightDatabase
    <2> QED
      BY <1>1, <1>3, <1>5, <1>6, <1>7, <2>1
      DEF SessionOK, Lifetime, Counted, RightDatabase, NothingLost
  <1>9. \A e \in Database : p \notin Creators(e)'
    BY <1>5, <1>6 DEF Creators
  <1>10. connections' \in [Program -> Int] /\ WritesGoHome'
    BY <1>1 DEF ProgramInv, SessionTypeOK, WritesGoHome
  <1> QED
    BY <1>1, <1>4, <1>7, <1>8, <1>9, <1>10, OneSession

(* A session that has ended is the one that nobody has made. *)
LEMMA EndKeeps ==
  ASSUME ProgramInv, NEW p \in Program,
         session' = [session EXCEPT ![p] = NoSession], UNCHANGED <<made, row, strays>>,
         connections' \in [Program -> Int],
         \A q \in Program \ {p} : connections'[q] = connections[q],
         faults' \in {faults, faults + 1}, faults' = 0 => connections'[p] = 0,
         session[p].creating => faults' > 0
  PROVE  ProgramInv'
  <1>1. NoSession \in SessionRecord
    BY NewInterfaceType
  <1>2. session'[p] = NoSession
    BY DEF ProgramInv, SessionTypeOK
  <1> DEFINE s == NoSession
  <1>s. /\ s = NoSession /\ s.interface = "none" /\ s.name = NoDatabase /\ s.current = NoDatabase
        /\ s.answer = "none" /\ ~s.creating /\ \A k \in TopManager : s.top[k] # "lost"
    BY DEF NoSession, NewInterface
  <1> HIDE DEF s
  <1>3. SessionOK(p)'
    BY <1>2, <1>s DEF SessionOK, Lifetime, Counted, RightDatabase, NothingLost
  <1>4. \A e \in Database : p \notin Creators(e)' /\ (p \in Creators(e) => faults' > 0)
    BY <1>2 DEF Creators, NoSession, NewInterface
  <1>5. WritesGoHome'
    BY DEF ProgramInv, WritesGoHome
  <1> QED
    BY <1>1, <1>3, <1>4, <1>5, OneSession

LEMMA DestroySessionKeeps ==
  ASSUME ProgramInv, NEW p \in Program, DestroySession(p)
  PROVE  ProgramInv'
  <1> DEFINE s == session[p]
             closes == s.interface = "ready" /\ Unlinked(s) = 0
  <1>1. /\ s.interface \in {"ready", "failed"} /\ ~s.creating
        /\ session' = [session EXCEPT ![p] = NoSession]
        /\ connections' = IF closes THEN [connections EXCEPT ![p] = @ - 1] ELSE connections
        /\ UNCHANGED <<made, row, strays, faults>>
    BY DEF DestroySession, DestroyStep, Become, Is
  <1>2. /\ s \in SessionRecord /\ Lifetime(s) /\ NothingLost(p) /\ faults \in Nat
        /\ connections[p] \in Int
    BY OfProgram
  <1>3. /\ connections' \in [Program -> Int]
        /\ \A q \in Program \ {p} : connections'[q] = connections[q]
        /\ closes => connections'[p] = connections[p] - 1
    <2>1. connections \in [Program -> Int]
      BY DEF ProgramInv, SessionTypeOK
    <2>2. CASE closes
      BY <1>1, <1>2, <2>1, <2>2
    <2>3. CASE ~closes
      BY <1>1, <2>1, <2>3
    <2> QED
      BY <2>2, <2>3
  <1>4. faults' = 0 => connections'[p] = 0
    <2> SUFFICES ASSUME faults = 0
                 PROVE  connections'[p] = 0
      BY <1>1
    <2>1. s.interface = "ready" /\ connections[p] = 1
      BY <1>1, <1>2 DEF NothingLost
    <2>2. s.usage = 1 + Cardinality(s.linked)
      BY <1>2, <2>1 DEF Lifetime, Counted
    <2>3. Cardinality(s.linked) \in Nat
      BY <1>2, LinkedIsFinite, FS_CardinalityType
    <2>4. Unlinked(s) = 0
      BY <2>2, <2>3 DEF Unlinked
    <2> QED
      BY <1>3, <2>1, <2>4
  <1> QED
    BY <1>1, <1>3, <1>4, EndKeeps

LEMMA DieKeeps ==
  ASSUME ProgramInv, NEW p \in Program, Die(p)
  PROVE  ProgramInv'
  <1>1. /\ faults' = faults + 1 /\ session' = [session EXCEPT ![p] = NoSession]
        /\ connections' = [connections EXCEPT ![p] = 0]
        /\ UNCHANGED <<made, row, strays>>
    BY DEF Die, Become
  <1>2. faults' > 0 /\ faults' # 0
    BY <1>1, OfProgram
  <1>3. /\ connections' \in [Program -> Int]
        /\ \A q \in Program \ {p} : connections'[q] = connections[q]
    BY <1>1 DEF ProgramInv, SessionTypeOK
  <1> QED
    BY <1>1, <1>2, <1>3, EndKeeps
-----------------------------------------------------------------------------
(* One more statement of createDatabase: the process that executes it is the
   only one, and no other session has seen a database that is complete. *)
LEMMA StatementKeeps ==
  ASSUME ProgramInv, NEW p \in Program, NEW d \in Database, NEW t \in SessionRecord,
         session[p].creating, session[p].name = d,
         made[d] = 0 \/ p \in Creators(d),
         made[d] < Statements, made' = [made EXCEPT ![d] = made[d] + 1],
         session' = [session EXCEPT ![p] = t],
         t.interface = "ready", t.name = d, t.current = d, t.top = session[p].top,
         t.linked = session[p].linked, t.usage = session[p].usage, t.log = session[p].log,
         IF made'[d] < Statements THEN t.creating /\ t.answer = "none"
                                  ELSE ~t.creating /\ t.answer = "created",
         row' = IF made'[d] = RowStatement
                THEN [row EXCEPT ![d] = @ \cup {[dbname |-> d, srvname |-> Server[p]]}]
                ELSE row,
         UNCHANGED <<strays, connections, faults>>
  PROVE  ProgramInv'
  <1> DEFINE new == [dbname |-> d, srvname |-> Server[p]]
  <1>1. /\ session'[p] = t /\ \A q \in Program \ {p} : session'[q] = session[q]
        /\ made[d] \in 0 .. Statements - 1 /\ made'[d] = made[d] + 1
        /\ \A e \in Database \ {d} : made'[e] = made[e]
        /\ \A e \in Database : made[e] \in Int /\ made'[e] \in Int /\ made'[e] >= made[e]
    BY DEF ProgramInv, SessionTypeOK
  <1>2. new \in CatalogRow
    BY DEF CatalogRow
  <1>3. /\ row \in [Database -> SUBSET CatalogRow]
        /\ row' \in [Database -> SUBSET CatalogRow]
        /\ \A e \in Database \ {d} : row'[e] = row[e]
        /\ row'[d] = IF made'[d] = RowStatement THEN row[d] \cup {new} ELSE row[d]
    <2>1. row \in [Database -> SUBSET CatalogRow]
      BY DEF ProgramInv, SessionTypeOK
    <2>2. CASE made'[d] = RowStatement
      BY <1>2, <2>1, <2>2
    <2>3. CASE made'[d] # RowStatement
      BY <2>1, <2>3
    <2> QED
      BY <2>2, <2>3
  <1> HIDE DEF new
  <1>4. SessionTypeOK'
    <2>1. made' \in [Database -> 0 .. Statements]
      BY <1>1 DEF ProgramInv, SessionTypeOK
    <2>2. session' \in [Program -> SessionRecord]
      BY DEF ProgramInv, SessionTypeOK
    <2>3. connections' \in [Program -> Int] /\ faults' \in Nat
      BY DEF ProgramInv, SessionTypeOK
    <2> QED
      BY <1>3, <2>1, <2>2, <2>3, SameTypes DEF SessionTypeOK
  <1>5. ASSUME NEW q \in Program
        PROVE  SessionOK(q)'
    <2>1. CASE q = p
      <3>1. /\ session[p] \in SessionRecord /\ Lifetime(session[p])
            /\ NothingLost(p)
        BY OfProgram
      <3>2. session[p].interface = "ready"
        BY <3>1 DEF Lifetime
      <3>3. made'[d] > 0
        BY <1>1
      <3>4. ~(made'[d] < Statements) => made'[d] = Statements
        BY <1>1
      <3>5. RightDatabase(t)'
        BY <3>3, <3>4, NamesDiffer DEF RightDatabase
      <3>6. Lifetime(t)'
        BY <3>1, <3>2, NamesDiffer DEF Lifetime, Counted
      <3>7. NothingLost(p)'
        BY <1>1, <3>1, <3>2 DEF NothingLost
      <3> QED
        BY <1>1, <2>1, <3>5, <3>6, <3>7 DEF SessionOK, Lifetime, Counted, RightDatabase
    <2>2. CASE q # p
      <3>1. /\ SessionOK(q) /\ session'[q] = session[q] /\ connections'[q] = connections[q]
            /\ session[q] \in SessionRecord
        BY <1>1, <2>2 DEF ProgramInv, SessionTypeOK
      <3>2. session[q].current # NoDatabase => made'[session[q].current] > 0
        BY <1>1, <3>1 DEF SessionOK, RightDatabase, SessionRecord
      <3>3. session[q].answer = "created" => made'[session[q].current] = Statements
        BY <1>1, <3>1 DEF SessionOK, RightDatabase, SessionRecord
      <3>4. RightDatabase(session[q])'
        BY <3>1, <3>2, <3>3 DEF SessionOK, RightDatabase
      <3> QED
        BY <3>1, <3>4 DEF SessionOK, Lifetime, Counted, NothingLost
    <2> QED
      BY <2>1, <2>2
  <1>6. ASSUME NEW e \in Database, e # d
        PROVE  DatabaseOK(e)'
    <2>1. p \notin Creators(e) /\ p \notin Creators(e)'
      BY <1>1, <1>6 DEF Creators
    <2>2. Creators(e)' = Creators(e)
      BY <1>1, <2>1 DEF Creators
    <2> QED
      BY <1>1, <1>3, <1>6, <2>2, SameTypes DEF ProgramInv, DatabaseOK
  <1>7. DatabaseOK(d)'
    <2>1. DatabaseOK(d)
      BY DEF ProgramInv
    <2>2. Creators(d) \subseteq {p}
      BY <2>1 DEF DatabaseOK
    <2>3. Creators(d)' = IF made'[d] < Statements THEN {p} ELSE {}
      BY <1>1, <2>2 DEF Creators
    <2>4. made'[d] < RowStatement => row'[d] = {}
      BY <1>1, <1>3, <2>1 DEF DatabaseOK
    <2>5. made'[d] >= RowStatement => \E r \in CatalogRow : row'[d] = {r} /\ r.dbname = d
      <3>1. CASE made'[d] = RowStatement
        <4>1. row[d] = {}
          BY <1>1, <2>1, <3>1 DEF DatabaseOK
        <4>2. row'[d] = {new} /\ new.dbname = d
          BY <1>3, <3>1, <4>1 DEF new
        <4> QED
          BY <1>2, <4>2
      <3>2. CASE made'[d] # RowStatement
        BY <1>1, <1>3, <2>1, <3>2 DEF DatabaseOK
      <3> QED
        BY <3>1, <3>2
    <2> QED
      BY <1>1, <2>3, <2>4, <2>5, SameTypes DEF DatabaseOK
  <1>8. WritesGoHome'
    BY DEF ProgramInv, WritesGoHome
  <1> QED
    BY <1>4, <1>5, <1>6, <1>7, <1>8 DEF ProgramInv

LEMMA CreateDatabaseKeeps ==
  ASSUME ProgramInv, NEW p \in Program, CreateDatabase(p)
  PROVE  ProgramInv'
  <1> DEFINE s == session[p]  d == s.name  t == [s EXCEPT !.current = d]
  <1>1. /\ s.creating /\ s.current # d /\ ~Exists(d)
        /\ made' = [made EXCEPT ![d] = 1] /\ session' = [session EXCEPT ![p] = t]
        /\ UNCHANGED <<row, strays, connections, faults>>
    BY DEF CreateDatabase, Become, Created
  <1>2. s \in SessionRecord /\ Lifetime(s) /\ RightDatabase(s)
    BY OfProgram
  <1>3. s.interface = "ready" /\ s.answer = "none" /\ d \in Database
    BY <1>1, <1>2 DEF Lifetime, RightDatabase, SessionRecord
  <1>4. made[d] = 0
    BY <1>1, <1>3 DEF Exists, ProgramInv, SessionTypeOK
  <1>5. /\ t \in SessionRecord
        /\ t.interface = "ready" /\ t.name = d /\ t.current = d /\ t.top = s.top
        /\ t.linked = s.linked /\ t.usage = s.usage /\ t.log = s.log
        /\ t.creating /\ t.answer = "none"
    BY <1>1, <1>2, <1>3 DEF SessionRecord
  <1> HIDE DEF t
  <1>6. made'[d] = 1 /\ made' = [made EXCEPT ![d] = made[d] + 1]
    BY <1>1, <1>3, <1>4 DEF ProgramInv, SessionTypeOK
  <1>7. row' = IF made'[d] = RowStatement
               THEN [row EXCEPT ![d] = @ \cup {[dbname |-> d, srvname |-> Server[p]]}]
               ELSE row
    BY <1>1, <1>6
  <1>8. IF made'[d] < Statements THEN t.creating /\ t.answer = "none"
                                 ELSE ~t.creating /\ t.answer = "created"
    BY <1>5, <1>6
  <1>9. made[d] < Statements
    BY <1>4
  <1> HIDE DEF d
  <1> QED
    BY <1>1, <1>3, <1>4, <1>5, <1>6, <1>7, <1>8, <1>9, StatementKeeps DEF d

LEMMA CreateTableKeeps ==
  ASSUME ProgramInv, NEW p \in Program, CreateTable(p)
  PROVE  ProgramInv'
  <1> DEFINE s == session[p]  d == s.name
             n == [s EXCEPT !.creating = FALSE]
             c == [n EXCEPT !.answer = "created"]
             t == IF made'[d] < Statements THEN s ELSE c
  <1>1. /\ s.creating /\ s.current = d
        /\ made' = [made EXCEPT ![d] = @ + 1]
        /\ row' = IF made'[d] = RowStatement
                  THEN [row EXCEPT ![d] = @ \cup {[dbname |-> d, srvname |-> Server[p]]}]
                  ELSE row
        /\ session' = [session EXCEPT ![p] = t]
        /\ UNCHANGED <<strays, connections, faults>>
    BY DEF CreateTable, Become, Created
  <1>2. s \in SessionRecord /\ Lifetime(s) /\ RightDatabase(s)
    BY OfProgram
  <1>3. s.interface = "ready" /\ s.answer = "none" /\ d \in Database
    BY <1>1, <1>2 DEF Lifetime, RightDatabase, SessionRecord
  <1>4. p \in Creators(d)
    BY <1>1 DEF Creators
  <1>5. made[d] \in 1 .. Statements - 1 /\ made[d] < Statements
    BY <1>3, <1>4 DEF ProgramInv, DatabaseOK
  <1>6. /\ c \in SessionRecord
        /\ c.interface = "ready" /\ c.name = d /\ c.current = d /\ c.top = s.top
        /\ c.linked = s.linked /\ c.usage = s.usage /\ c.log = s.log
        /\ ~c.creating /\ c.answer = "created"
    <2>1. n \in SessionRecord
      BY <1>2 DEF SessionRecord
    <2>2. c \in SessionRecord
      BY <2>1 DEF SessionRecord
    <2> QED
      BY <1>1, <1>2, <1>3, <2>1, <2>2 DEF SessionRecord
  <1> HIDE DEF c
  <1>7. /\ t \in SessionRecord
        /\ t.interface = "ready" /\ t.name = d /\ t.current = d /\ t.top = s.top
        /\ t.linked = s.linked /\ t.usage = s.usage /\ t.log = s.log
        /\ IF made'[d] < Statements THEN t.creating /\ t.answer = "none"
                                    ELSE ~t.creating /\ t.answer = "created"
    BY <1>1, <1>2, <1>3, <1>6
  <1> HIDE DEF t
  <1>8. made' = [made EXCEPT ![d] = made[d] + 1]
    BY <1>1
  <1>9. s.name = d
    OBVIOUS
  <1> HIDE DEF d
  <1> QED
    BY <1>1, <1>3, <1>4, <1>5, <1>7, <1>8, <1>9, StatementKeeps
-----------------------------------------------------------------------------
(* No step of a session takes a row away, or touches another session. *)
LEMMA StepOfOne ==
  ASSUME ProgramInv, NEW p \in Program, SessionStep(p)
  PROVE  /\ \A q \in Program \ {p} : session'[q] = session[q]
         /\ \A d \in Database : row[d] \subseteq row'[d]
  <1>1. session \in [Program -> SessionRecord] /\ row \in [Database -> SUBSET CatalogRow]
    BY DEF ProgramInv, SessionTypeOK
  <1>2. \E t : session' = [session EXCEPT ![p] = t]
    <2>1. CASE NewSession(p) \/ OpenDatabase(p) \/ DestroySession(p) \/ Die(p)
      BY <2>1 DEF NewSession, OpenDatabase, DestroySession, Die, Become
    <2>2. CASE CreateDatabase(p) \/ DatabaseExists(p) \/ CreationFails(p)
      BY <2>2 DEF CreateDatabase, DatabaseExists, CreationFails, Become
    <2>3. CASE CreateTable(p)
      BY <2>3 DEF CreateTable, Become
    <2>4. CASE \E d \in Database : InitSession(p, d) \/ InitFails(p, d) \/ CreateCondDB(p, d)
      BY <2>4 DEF InitSession, InitFails, CreateCondDB, Become
    <2>5. CASE \E k \in Asked : GetTopManager(p, k)
      BY <2>5 DEF GetTopManager, Become
    <2>6. CASE \E k \in Kind : CreateFolder(p, k) \/ StoreObject(p, k) \/ ManagerFails(p, k)
      BY <2>6 DEF CreateFolder, StoreObject, ManagerFails, Works, Become
    <2> QED
      BY <2>1, <2>2, <2>3, <2>4, <2>5, <2>6 DEF SessionStep
  <1>3. CASE CreateTable(p)
    <2>1. \/ row' = row
          \/ \E e, new : row' = [row EXCEPT ![e] = @ \cup {new}]
      BY <1>3 DEF CreateTable
    <2> QED
      BY <1>1, <1>2, <2>1
  <1>4. CASE ~CreateTable(p)
    <2>1. row' = row
      BY <1>4 DEF SessionStep, NewSession, OpenDatabase, DestroySession, DestroyStep, Die,
                  CreateDatabase, DatabaseExists, CreationFails, InitSession, InitFails,
                  CreateCondDB, GetTopManager, CreateFolder, StoreObject, ManagerFails,
                  Works, serverVars
    <2> QED
      BY <1>1, <1>2, <2>1
  <1> QED
    BY <1>3, <1>4

LEMMA SessionStepKeeps ==
  ASSUME ProgramInv, NEW p \in Program, SessionStep(p)
  PROVE  ProgramInv'
  <1>1. ASSUME NEW k \in Asked, GetTopManager(p, k)
        PROVE  ProgramInv'
    <2>1. k \in TopManager
      BY AskedAssumption DEF TopManager
    <2> QED
      BY <1>1, <2>1, GetTopManagerKeeps DEF GetTopManager, Become, Is
  <1>2. CASE NewSession(p) \/ OpenDatabase(p) \/ DestroySession(p) \/ Die(p)
    BY <1>2, NewSessionKeeps, OpenDatabaseKeeps, DestroySessionKeeps, DieKeeps
  <1>3. CASE CreateDatabase(p) \/ DatabaseExists(p) \/ CreateTable(p) \/ CreationFails(p)
    BY <1>3, CreateDatabaseKeeps, DatabaseExistsKeeps, CreateTableKeeps, CreationFailsKeeps
  <1>4. CASE \E d \in Database : InitSession(p, d) \/ InitFails(p, d) \/ CreateCondDB(p, d)
    BY <1>4, InitSessionKeeps, InitFailsKeeps, CreateCondDBKeeps
  <1>5. CASE \E k \in Kind : CreateFolder(p, k) \/ StoreObject(p, k) \/ ManagerFails(p, k)
    BY <1>5, CreateFolderKeeps, StoreObjectKeeps, ManagerFailsKeeps
  <1> QED
    BY <1>1, <1>2, <1>3, <1>4, <1>5 DEF SessionStep

(* A call that fails, and changes nothing. *)
LEMMA FaultKeeps ==
  ASSUME ProgramInv, UNCHANGED <<serverVars, session>>, faults' \in {faults, faults + 1}
  PROVE  ProgramInv'
  <1>1. UNCHANGED <<made, row, strays, connections, session>>
    BY DEF serverVars
  <1>2. faults \in Nat /\ faults' \in Nat /\ (faults' = 0 => faults = 0)
        /\ (faults > 0 => faults' > 0)
    BY DEF ProgramInv, SessionTypeOK
  <1>3. SessionTypeOK'
    BY <1>1, <1>2, SameTypes DEF ProgramInv, SessionTypeOK
  <1>4. ASSUME NEW q \in Program
        PROVE  SessionOK(q)'
    <2>1. SessionOK(q)
      BY DEF ProgramInv
    <2> QED
      BY <1>1, <1>2, <2>1 DEF SessionOK, Lifetime, Counted, RightDatabase, NothingLost
  <1>5. ASSUME NEW d \in Database
        PROVE  DatabaseOK(d)'
    <2>1. DatabaseOK(d) /\ Creators(d)' = Creators(d)
      BY <1>1 DEF ProgramInv, Creators
    <2> QED
      BY <1>1, <1>2, <2>1, SameTypes DEF DatabaseOK
  <1>6. WritesGoHome'
    BY <1>1 DEF ProgramInv, WritesGoHome
  <1> QED
    BY <1>3, <1>4, <1>5, <1>6 DEF ProgramInv
-----------------------------------------------------------------------------
(* Scripts.  What an invariant says of a script that takes no step depends on
   its own session, and on rows that stay. *)
LEMMA ScriptKeeps ==
  ASSUME PhpInv, ProgramInv', NEW p \in Program, NEW n \in ScriptRecord,
         script' = [script EXCEPT ![p] = n],
         \A q \in Program \ {p} : session'[q] = session[q],
         \A d \in Database : row[d] \subseteq row'[d], ScriptOK(p)'
  PROVE  PhpInv'
  <1>1. script' \in [Program -> ScriptRecord]
    BY DEF PhpInv
  <1>2. ASSUME NEW q \in Program
        PROVE  ScriptOK(q)'
    <2>1. CASE q = p
      BY <2>1
    <2>2. CASE q # p
      <3>1. ScriptOK(q) /\ session'[q] = session[q] /\ script'[q] = script[q]
        BY <2>2 DEF PhpInv
      <3>2. session[q] \in SessionRecord
        BY OfProgram DEF PhpInv
      <3>3. CanWork(q) => CanWork(q)'
        BY <3>1, <3>2 DEF CanWork, Is, SessionRecord
      <3> QED
        BY <3>1, <3>3 DEF ScriptOK
    <2> QED
      BY <2>1, <2>2
  <1> QED
    BY <1>1, <1>2, SameTypes DEF PhpInv

(* A program that is no script has nothing of one. *)
LEMMA ProgramStepKeeps ==
  ASSUME PhpInv, NEW p \in Program, ProgramStep(p)
  PROVE  PhpInv'
  <1>1. ProgramInv /\ script \in [Program -> ScriptRecord] /\ ScriptOK(p)
    BY DEF PhpInv
  <1>2. CASE ~script[p].open /\ SessionStep(p) /\ UNCHANGED script
    <2>1. ProgramInv'
      BY <1>1, <1>2, SessionStepKeeps
    <2>2. /\ \A q \in Program \ {p} : session'[q] = session[q]
          /\ \A d \in Database : row[d] \subseteq row'[d]
      BY <1>1, <1>2, StepOfOne
    <2>3. script[p] \in ScriptRecord /\ script' = [script EXCEPT ![p] = script[p]]
      BY <1>1, <1>2
    <2>4. ScriptOK(p)'
      BY <1>1, <1>2 DEF ScriptOK
    <2> QED
      BY <2>1, <2>2, <2>3, <2>4, ScriptKeeps
  <1>3. CASE script[p].open /\ Die(p) /\ Return(p, NoScript)
    <2>1. ProgramInv'
      BY <1>1, <1>3, DieKeeps
    <2>2. SessionStep(p)
      BY <1>3 DEF SessionStep
    <2>3. /\ \A q \in Program \ {p} : session'[q] = session[q]
          /\ \A d \in Database : row[d] \subseteq row'[d]
      BY <1>1, <2>2, StepOfOne
    <2>4. NoScript \in ScriptRecord /\ script' = [script EXCEPT ![p] = NoScript]
      BY <1>3 DEF Return, NoScript, ScriptRecord, None
    <2>5. script'[p] = NoScript
      BY <1>1, <2>4
    <2>6. ScriptOK(p)'
      BY <2>5 DEF ScriptOK, NoScript, None, Array
    <2> QED
      BY <2>1, <2>3, <2>4, <2>6, ScriptKeeps
  <1> QED
    BY <1>2, <1>3 DEF ProgramStep

(* cdb_connect_open leaves a session that is connected to the database it was
   asked for. *)
LEMMA ConnectedKeeps ==
  ASSUME ProgramInv, NEW p \in Program, NEW d \in Database,
         session[p] = NoSession, Exists(d),
         session' = [session EXCEPT ![p] = Connected(p, d)],
         connections' = [connections EXCEPT ![p] = @ + 1],
         UNCHANGED <<made, row, strays, faults>>
  PROVE  /\ ProgramInv'
         /\ session'[p].interface = "ready" /\ session'[p].answer = "opened"
         /\ ~session'[p].creating
  <1> DEFINE i == [Initialised(p, d) EXCEPT !.interface = "ready"]
             o == Opened(i, d)
             t == Handed(o, "access")
  <1>1. /\ session[p].interface = "none" /\ \A k \in TopManager : session[p].top[k] = "none"
        /\ ~session[p].creating
    BY DEF NoSession, NewInterface
  <1>2. NothingLost(p) /\ connections[p] \in Int /\ faults \in Nat
    BY OfProgram
  <1>3. /\ i \in SessionRecord
        /\ i.interface = "ready" /\ i.name = d /\ i.current = NoDatabase
        /\ i.answer = "none" /\ ~i.creating /\ i.log = "database" /\ Counted(i)
        /\ \A k \in TopManager : i.top[k] = "lost" => session[p].top[k] # "none"
    <2>1. session[p].interface # "ready"
      BY <1>1
    <2> QED
      BY <2>1, InitialisedType
  <1> HIDE DEF i
  <1>4. RightDatabase(i)
    BY <1>3 DEF RightDatabase
  <1>5. /\ o \in SessionRecord
        /\ o.interface = "ready" /\ o.name = d /\ ~o.creating /\ o.top = i.top
        /\ o.usage = i.usage /\ o.linked = i.linked /\ o.log = i.log
        /\ o.answer = IF Exists(d) THEN "opened" ELSE "refused"
        /\ o.current = IF Exists(d) THEN d ELSE i.current
        /\ RightDatabase(o)
    BY <1>3, <1>4, OpenedIsRight
  <1> HIDE DEF o
  <1>6. "access" \in TopManager
    BY DEF TopManager
  <1>7. /\ t \in SessionRecord
        /\ t.interface = o.interface /\ t.name = o.name /\ t.current = o.current
        /\ t.answer = o.answer /\ t.usage = o.usage /\ t.linked = o.linked
        /\ t.log = o.log /\ t.creating = o.creating
        /\ \A j \in TopManager : t.top[j] = "lost" => o.top[j] = "lost"
    BY <1>5, <1>6, HandedKeeps
  <1>8. session' = [session EXCEPT ![p] = t]
    BY DEF Connected, i, o
  <1> HIDE DEF t
  <1>9. /\ session'[p] = t /\ connections'[p] = connections[p] + 1
        /\ connections' \in [Program -> Int]
        /\ \A q \in Program \ {p} : connections'[q] = connections[q]
    BY <1>8 DEF ProgramInv, SessionTypeOK
  <1>10. \A k \in TopManager : t.top[k] # "lost"
    BY <1>1, <1>3, <1>5, <1>7
  <1>11. NothingLost(p)'
    BY <1>1, <1>2, <1>5, <1>7, <1>9, <1>10 DEF NothingLost
  <1>12. Lifetime(t)
    BY <1>3, <1>5, <1>7, NamesDiffer DEF Lifetime, Counted
  <1>13. SessionOK(p)'
    BY <1>5, <1>7, <1>9, <1>11, <1>12 DEF SessionOK, Lifetime, Counted, RightDatabase
  <1>14. \A e \in Database : p \notin Creators(e) /\ p \notin Creators(e)'
    BY <1>1, <1>5, <1>7, <1>9 DEF Creators
  <1>15. WritesGoHome'
    BY DEF ProgramInv, WritesGoHome
  <1>16. ProgramInv'
    BY <1>7, <1>8, <1>9, <1>13, <1>14, <1>15, OneSession
  <1> QED
    BY <1>5, <1>7, <1>9, <1>16

LEMMA ConnectOpenKeeps ==
  ASSUME PhpInv, NEW p \in Program, NEW d \in Database, ConnectOpen(p, d)
  PROVE  PhpInv'
  <1> DEFINE n == [NoScript EXCEPT !.open = TRUE]
  <1>1. /\ ProgramInv /\ script \in [Program -> ScriptRecord]
        /\ session \in [Program -> SessionRecord]
    BY DEF PhpInv, ProgramInv, SessionTypeOK
  <1>2. /\ session[p] = NoSession /\ Exists(d)
        /\ session' = [session EXCEPT ![p] = Connected(p, d)]
        /\ connections' = [connections EXCEPT ![p] = @ + 1]
        /\ UNCHANGED <<made, row, strays, faults>>
        /\ script' = [script EXCEPT ![p] = n]
    BY DEF ConnectOpen, Become, Return
  <1>3. /\ ProgramInv'
        /\ session'[p].interface = "ready" /\ session'[p].answer = "opened"
        /\ ~session'[p].creating
    BY <1>1, <1>2, ConnectedKeeps
  <1>4. /\ n \in ScriptRecord
        /\ n.iterator = <<>> /\ ~n.printing /\ n.reply # Array
    <2>1. NoScript \in ScriptRecord
      BY DEF NoScript, ScriptRecord, None
    <2>2. NoScript.iterator = <<>> /\ ~NoScript.printing /\ NoScript.reply # Array
      BY DEF NoScript, None, Array
    <2> QED
      BY <2>1, <2>2 DEF ScriptRecord
  <1> HIDE DEF n
  <1>5. script'[p] = n /\ \A q \in Program \ {p} : session'[q] = session[q]
    BY <1>1, <1>2
  <1>6. ScriptOK(p)'
    BY <1>3, <1>4, <1>5 DEF ScriptOK
  <1>7. \A e \in Database : row[e] \subseteq row'[e]
    BY <1>2
  <1> QED
    BY <1>2, <1>3, <1>4, <1>5, <1>6, <1>7, ScriptKeeps

(* The calls that return without an object leave the iterator alone, and the
   array of an earlier call is gone. *)
LEMMA ReturnsKeep ==
  ASSUME PhpInv, ProgramInv', NEW p \in Program, ~script[p].printing,
         NEW reply \in {None, Error, Done}, Returns(p, reply),
         \A q \in Program \ {p} : session'[q] = session[q], UNCHANGED row,
         session'[p].interface = session[p].interface,
         session'[p].answer = session[p].answer,
         session'[p].creating = session[p].creating,
         session'[p].current = session[p].current
  PROVE  PhpInv'
  <1> DEFINE s == script[p]
             m == [s EXCEPT !.reply = reply]
             n == [m EXCEPT !.printed = <<>>]
  <1>1. s \in ScriptRecord /\ ScriptOK(p) /\ script \in [Program -> ScriptRecord]
    BY DEF PhpInv
  <1>2. m \in ScriptRecord /\ n \in ScriptRecord
    <2>1. <<>> \in Seq(Row) /\ reply \in {None, Error, Done, Array}
      OBVIOUS
    <2>2. m \in ScriptRecord
      BY <1>1, <2>1 DEF ScriptRecord
    <2> HIDE DEF m
    <2> QED
      BY <2>1, <2>2 DEF ScriptRecord
  <1>3. /\ n.open = s.open /\ n.iterator = s.iterator /\ n.found = s.found
        /\ n.prints = s.prints /\ n.printing = s.printing /\ n.reply = reply
    BY <1>1, <1>2 DEF ScriptRecord
  <1>4. reply # Array
    BY DEF None, Error, Done, Array
  <1>5. script' = [script EXCEPT ![p] = n] /\ script'[p] = n
    BY <1>1 DEF Returns, Return
  <1> HIDE DEF n
  <1>6. CanWork(p) => CanWork(p)'
    BY DEF CanWork, Is
  <1>7. ScriptOK(p)'
    BY <1>1, <1>3, <1>4, <1>5, <1>6 DEF ScriptOK
  <1>8. \A e \in Database : row[e] \subseteq row'[e]
    OBVIOUS
  <1> QED
    BY <1>2, <1>5, <1>7, <1>8, ScriptKeeps

LEMMA ConnectFailsKeeps ==
  ASSUME PhpInv, NEW p \in Program, NEW d \in Database, ConnectFails(p, d)
  PROVE  PhpInv'
  <1>1. /\ session[p] = NoSession /\ faults' \in {faults, faults + 1}
        /\ UNCHANGED <<serverVars, session>> /\ Returns(p, Error)
    BY DEF ConnectFails, Fault
  <1>2. ProgramInv'
    BY <1>1, FaultKeeps DEF PhpInv
  <1>3. ~script[p].printing
    BY <1>1 DEF PhpInv, ScriptOK, NoSession, NewInterface
  <1>4. UNCHANGED row
    BY <1>1 DEF serverVars
  <1> QED
    BY <1>1, <1>2, <1>3, <1>4, ReturnsKeep

LEMMA AskManagerKeeps ==
  ASSUME PhpInv, NEW p \in Program, NEW k \in TopManager, AskManager(p, k)
  PROVE  PhpInv'
  <1>1. /\ script[p].open /\ ~script[p].printing
        /\ session' = [session EXCEPT ![p] = Handed(session[p], k)]
        /\ UNCHANGED <<serverVars, faults>>
        /\ Returns(p, Done) \/ Returns(p, Error)
    BY DEF AskManager, Runs, Become
  <1>2. ProgramInv /\ ScriptOK(p) /\ session \in [Program -> SessionRecord]
    BY DEF PhpInv, ProgramInv, SessionTypeOK
  <1>3. session[p].interface = "ready" /\ ~session[p].creating
    BY <1>1, <1>2 DEF ScriptOK
  <1>4. ProgramInv'
    BY <1>1, <1>2, <1>3, GetTopManagerKeeps
  <1> DEFINE t == Handed(session[p], k)
  <1>5. /\ t \in SessionRecord
        /\ t.interface = session[p].interface /\ t.name = session[p].name
        /\ t.current = session[p].current
        /\ t.answer = session[p].answer /\ t.usage = session[p].usage
        /\ t.linked = session[p].linked
        /\ t.log = session[p].log /\ t.creating = session[p].creating
        /\ \A j \in TopManager : t.top[j] = "lost" => session[p].top[j] = "lost"
    BY <1>2, HandedKeeps
  <1>6. session'[p] = t /\ (\A q \in Program \ {p} : session'[q] = session[q]) /\ UNCHANGED row
    BY <1>1, <1>2 DEF serverVars
  <1> HIDE DEF t
  <1>7. CASE Returns(p, Done)
    BY <1>1, <1>4, <1>5, <1>6, <1>7, ReturnsKeep
  <1>8. CASE Returns(p, Error)
    BY <1>1, <1>4, <1>5, <1>6, <1>8, ReturnsKeep
  <1> QED
    BY <1>1, <1>7, <1>8

(* The managers that a query makes on its way do not write. *)
LEMMA QueriesKeep ==
  ASSUME ProgramInv, NEW p \in Program, CanWork(p), NEW t,
         \/ t = Linked(session[p], "object")
         \/ t = WithManagers(session[p], "object")
         \/ t = WithManagers(session[p], "online"),
         session' = [session EXCEPT ![p] = t], UNCHANGED <<serverVars, faults>>
  PROVE  /\ ProgramInv' /\ UNCHANGED row
         /\ \A q \in Program \ {p} : session'[q] = session[q]
         /\ session'[p].interface = session[p].interface
         /\ session'[p].answer = session[p].answer
         /\ session'[p].creating = session[p].creating
         /\ session'[p].current = session[p].current
  <1> DEFINE s == session[p]
  <1>1. /\ s \in SessionRecord /\ s.current \in Database /\ row[s.current] # {}
        /\ s.current # NoDatabase /\ Counted(s) /\ s.log # "none"
    BY CanWorkWith
  <1>2. /\ t \in SessionRecord
        /\ t.interface = s.interface /\ t.name = s.name /\ t.current = s.current
        /\ t.answer = s.answer /\ t.creating = s.creating /\ t.top = s.top
        /\ t.log # "none" /\ Counted(t)
    <2>1. CASE t = Linked(s, "object")
      <3>1. "object" \in Manager
        BY DEF Manager
      <3> QED
        BY <1>1, <2>1, <3>1, LinkedKeeps
    <2>2. CASE t = WithManagers(s, "object")
      BY <1>1, <2>2, WithManagersKeeps
    <2>3. CASE t = WithManagers(s, "online")
      BY <1>1, <2>3, WithManagersKeeps
    <2> QED
      BY <2>1, <2>2, <2>3
  <1>3. UNCHANGED <<made, row, strays, connections, faults>>
    BY DEF serverVars
  <1>4. WritesGoHome'
    BY <1>3 DEF ProgramInv, WritesGoHome
  <1>5. ProgramInv'
    BY <1>2, <1>3, <1>4, WorkStep
  <1>6. session'[p] = t /\ \A q \in Program \ {p} : session'[q] = session[q]
    BY DEF ProgramInv, SessionTypeOK
  <1> QED
    BY <1>2, <1>3, <1>5, <1>6

LEMMA QueryKeeps ==
  ASSUME PhpInv, NEW p \in Program, NEW k \in {"object", "online"},
         NEW replies \in SUBSET {Done, None}, Query(p, k, replies)
  PROVE  PhpInv'
  <1>1. ~script[p].printing /\ UNCHANGED <<serverVars, faults>> /\ ProgramInv
    BY DEF Query, Runs, PhpInv
  <1>2. CASE /\ CanWork(p) /\ Become(p, WithManagers(session[p], k))
             /\ \E reply \in replies : Returns(p, reply)
    <2>1. PICK reply \in {None, Error, Done} : Returns(p, reply)
      BY <1>2
    <2> DEFINE t == WithManagers(session[p], k)
    <2>2. session' = [session EXCEPT ![p] = t]
      BY <1>2 DEF Become
    <2>3. t = WithManagers(session[p], "object") \/ t = WithManagers(session[p], "online")
      OBVIOUS
    <2> HIDE DEF t
    <2>4. /\ ProgramInv' /\ UNCHANGED row
          /\ \A q \in Program \ {p} : session'[q] = session[q]
          /\ session'[p].interface = session[p].interface
          /\ session'[p].answer = session[p].answer
          /\ session'[p].creating = session[p].creating
          /\ session'[p].current = session[p].current
      BY <1>1, <1>2, <2>2, <2>3, QueriesKeep
    <2> QED
      BY <1>1, <2>1, <2>4, ReturnsKeep
  <1>3. CASE UNCHANGED session /\ Returns(p, Error)
    <2>1. ProgramInv'
      BY <1>1, <1>3, FaultKeeps
    <2>2. UNCHANGED row
      BY <1>1 DEF serverVars
    <2> QED
      BY <1>1, <1>3, <2>1, <2>2, ReturnsKeep
  <1> QED
    BY <1>2, <1>3 DEF Query

(* The rows of a browse are a sequence. *)
LEMMA BrowsedIsSequence ==
  ASSUME NEW S \in SUBSET Row, NEW rows \in SetToSeqs(S)
  PROVE  rows \in Seq(Row)
  <1>1. Cardinality(S) \in Nat
    BY RowAssumption, FS_Subset, FS_CardinalityType
  <1>2. rows \in [1 .. Cardinality(S) -> S]
    BY DEF SetToSeqs
  <1>3. rows \in [1 .. Cardinality(S) -> Row]
    BY <1>2
  <1> QED
    BY <1>1, <1>3

LEMMA BrowseKeeps ==
  ASSUME PhpInv, NEW p \in Program, Browse(p)
  PROVE  PhpInv'
  <1> DEFINE s == script[p]
             a == [s EXCEPT !.iterator = <<>>]
             b == [a EXCEPT !.found = <<>>]
             c == [b EXCEPT !.prints = 0]
             f == [c EXCEPT !.printed = <<>>]
  <1>1. /\ s.open /\ ~s.printing /\ UNCHANGED <<serverVars, faults>> /\ ProgramInv
        /\ s \in ScriptRecord /\ ScriptOK(p) /\ script \in [Program -> ScriptRecord]
    BY DEF Browse, Runs, PhpInv
  <1>2. f = Forgotten(p)
    BY DEF Forgotten
  <1>3. /\ f \in ScriptRecord /\ f.open /\ ~f.printing /\ f.iterator = <<>>
        /\ f.prints = 0 /\ f.printed = <<>> /\ f.found = <<>>
    <2>1. <<>> \in Seq(Row)
      OBVIOUS
    <2>2. a \in ScriptRecord /\ a.open /\ ~a.printing /\ a.iterator = <<>>
      BY <1>1, <2>1 DEF ScriptRecord
    <2> HIDE DEF a
    <2>3. /\ b \in ScriptRecord /\ b.open /\ ~b.printing /\ b.iterator = <<>>
          /\ b.found = <<>>
      BY <2>1, <2>2 DEF ScriptRecord
    <2> HIDE DEF b
    <2>4. /\ c \in ScriptRecord /\ c.open /\ ~c.printing /\ c.iterator = <<>>
          /\ c.found = <<>> /\ c.prints = 0
      BY <2>1, <2>3 DEF ScriptRecord
    <2> HIDE DEF c
    <2> QED
      BY <2>1, <2>4 DEF ScriptRecord
  <1> HIDE DEF f
  <1>4. Done # Array /\ Error # Array
    BY DEF Done, Error, Array
  <1>5. CASE /\ CanWork(p)
             /\ \E rows \in UNION {SetToSeqs(S) : S \in SUBSET Row} :
                  Return(p, [Forgotten(p) EXCEPT !.reply = Done, !.iterator = rows, !.found = rows])
             /\ Become(p, Linked(session[p], "object"))
    <2>1. PICK rows \in UNION {SetToSeqs(S) : S \in SUBSET Row} :
            Return(p, [Forgotten(p) EXCEPT !.reply = Done, !.iterator = rows, !.found = rows])
      BY <1>5
    <2>2. rows \in Seq(Row)
      <3>1. PICK S \in SUBSET Row : rows \in SetToSeqs(S)
        OBVIOUS
      <3> QED
        BY <3>1, BrowsedIsSequence
    <2> DEFINE u == [f EXCEPT !.reply = Done]
               v == [u EXCEPT !.iterator = rows]
               n == [v EXCEPT !.found = rows]
    <2>3. script' = [script EXCEPT ![p] = n]
      BY <1>2, <2>1 DEF Return
    <2>4. /\ n \in ScriptRecord /\ n.open /\ ~n.printing /\ n.iterator = rows
          /\ n.found = rows /\ n.prints = 0 /\ n.reply = Done
      <3>1. u \in ScriptRecord /\ u.open /\ ~u.printing /\ u.prints = 0 /\ u.reply = Done
        BY <1>3 DEF ScriptRecord
      <3> HIDE DEF u
      <3>2. /\ v \in ScriptRecord /\ v.open /\ ~v.printing /\ v.prints = 0 /\ v.reply = Done
            /\ v.iterator = rows
        BY <2>2, <3>1 DEF ScriptRecord
      <3> HIDE DEF v
      <3> QED
        BY <2>2, <3>2 DEF ScriptRecord
    <2> HIDE DEF n
    <2> DEFINE t == Linked(session[p], "object")
    <2>5. session' = [session EXCEPT ![p] = t] /\ t = Linked(session[p], "object")
      BY <1>5 DEF Become
    <2> HIDE DEF t
    <2>6. /\ ProgramInv' /\ UNCHANGED row
          /\ \A q \in Program \ {p} : session'[q] = session[q]
          /\ session'[p].interface = session[p].interface
          /\ session'[p].answer = session[p].answer
          /\ session'[p].creating = session[p].creating
          /\ session'[p].current = session[p].current
      BY <1>1, <1>5, <2>5, QueriesKeep
    <2>7. CanWork(p)'
      BY <1>5, <2>6 DEF CanWork, Is
    <2>8. script'[p] = n
      BY <1>1, <2>3
    <2>9. ScriptOK(p)'
      BY <1>1, <1>4, <2>4, <2>6, <2>7, <2>8 DEF ScriptOK
    <2>10. \A e \in Database : row[e] \subseteq row'[e]
      BY <2>6
    <2> QED
      BY <2>3, <2>4, <2>6, <2>9, <2>10, ScriptKeeps
  <1>6. CASE UNCHANGED session /\ Return(p, [Forgotten(p) EXCEPT !.reply = Error])
    <2> DEFINE n == [f EXCEPT !.reply = Error]
    <2>1. script' = [script EXCEPT ![p] = n]
      BY <1>2, <1>6 DEF Return
    <2>2. n \in ScriptRecord /\ n.open /\ ~n.printing /\ n.iterator = <<>> /\ n.reply = Error
      BY <1>3 DEF ScriptRecord
    <2> HIDE DEF n
    <2>3. ProgramInv'
      BY <1>1, <1>6, FaultKeeps
    <2>4. script'[p] = n
      BY <1>1, <2>1
    <2>5. ScriptOK(p)'
      BY <1>1, <1>4, <1>6, <2>2, <2>4 DEF ScriptOK
    <2>6. \A e \in Database : row[e] \subseteq row'[e]
      BY <1>1 DEF serverVars
    <2> QED
      BY <1>6, <2>1, <2>2, <2>3, <2>5, <2>6, ScriptKeeps
  <1> QED
    BY <1>5, <1>6 DEF Browse
-----------------------------------------------------------------------------
(* cdb_print_all_obj *)
LEMMA PrintNothingKeeps ==
  ASSUME PhpInv, NEW p \in Program, PrintNothing(p)
  PROVE  PhpInv'
  <1>1. /\ ~script[p].printing /\ Returns(p, None)
        /\ UNCHANGED <<serverVars, session>> /\ UNCHANGED faults
    BY DEF PrintNothing, Runs, sessionVars
  <1>2. ProgramInv'
    BY <1>1, FaultKeeps DEF PhpInv
  <1>3. UNCHANGED row
    BY <1>1 DEF serverVars
  <1> QED
    BY <1>1, <1>2, <1>3, ReturnsKeep

(* What a print changes of a script whose session it leaves alone. *)
LEMMA PrintKeeps ==
  ASSUME PhpInv, NEW p \in Program, NEW n \in ScriptRecord,
         script' = [script EXCEPT ![p] = n], UNCHANGED <<serverVars, session>>,
         faults' \in {faults, faults + 1}, ScriptOK(p)'
  PROVE  PhpInv'
  <1>1. ProgramInv'
    BY FaultKeeps DEF PhpInv
  <1>2. \A e \in Database : row[e] \subseteq row'[e]
    BY DEF serverVars
  <1> QED
    BY <1>1, <1>2, ScriptKeeps

LEMMA PrintStartKeeps ==
  ASSUME PhpInv, NEW p \in Program, PrintStart(p)
  PROVE  PhpInv'
  <1> DEFINE s == script[p]
             a == [s EXCEPT !.printing = TRUE]
             b == [a EXCEPT !.reply = None]
             n == [b EXCEPT !.printed = <<>>]
  <1>1. /\ s.open /\ s.iterator # <<>>
        /\ script' = [script EXCEPT ![p] = n]
        /\ UNCHANGED <<serverVars, session>> /\ UNCHANGED faults
    BY DEF PrintStart, Runs, Return, sessionVars
  <1>2. s \in ScriptRecord /\ ScriptOK(p) /\ script \in [Program -> ScriptRecord]
    BY DEF PhpInv
  <1>3. /\ n \in ScriptRecord /\ n.open /\ n.printing /\ n.printed = <<>> /\ n.reply = None
        /\ n.iterator = s.iterator /\ n.found = s.found /\ n.prints = s.prints
    <2>1. /\ a \in ScriptRecord /\ a.open /\ a.printing
          /\ a.iterator = s.iterator /\ a.found = s.found /\ a.prints = s.prints
      BY <1>1, <1>2 DEF ScriptRecord
    <2> HIDE DEF a
    <2>2. /\ b \in ScriptRecord /\ b.open /\ b.printing /\ b.reply = None
          /\ b.iterator = s.iterator /\ b.found = s.found /\ b.prints = s.prints
      BY <2>1 DEF ScriptRecord
    <2> HIDE DEF b
    <2>3. <<>> \in Seq(Row)
      OBVIOUS
    <2> QED
      BY <2>2, <2>3 DEF ScriptRecord
  <1> HIDE DEF n
  <1>4. script'[p] = n
    BY <1>1, <1>2
  <1>5. n.iterator \in Seq(Row) /\ n.printed \in Seq(Row) /\ Len(n.printed) = 0
    BY <1>3 DEF ScriptRecord
  <1>6. /\ Len(n.printed) <= Len(n.iterator)
        /\ \A i \in 1 .. Len(n.printed) : n.printed[i] = n.iterator[i]
    BY <1>5
  <1>7. UNCHANGED CanWork(p)
    BY <1>1 DEF CanWork, Is, serverVars
  <1>8. None # Array
    BY DEF None, Array
  <1>9. ScriptOK(p)'
    BY <1>1, <1>2, <1>3, <1>4, <1>6, <1>7, <1>8 DEF ScriptOK
  <1> QED
    BY <1>1, <1>3, <1>9, PrintKeeps

LEMMA PrintObjectKeeps ==
  ASSUME PhpInv, NEW p \in Program, PrintObject(p)
  PROVE  PhpInv'
  <1> DEFINE s == script[p]
             n == [s EXCEPT !.printed = Printed(s)]
             t == WithManagers(session[p], "object")
  <1>1. /\ s.printing /\ Len(s.printed) < Len(s.iterator)
        /\ script' = [script EXCEPT ![p] = n]
        /\ session' = [session EXCEPT ![p] = t]
        /\ UNCHANGED <<serverVars, faults>>
    BY DEF PrintObject, Return, Become
  <1>2. /\ s \in ScriptRecord /\ ScriptOK(p) /\ script \in [Program -> ScriptRecord]
        /\ ProgramInv
    BY DEF PhpInv
  <1>3. /\ s.iterator # <<>> /\ CanWork(p) /\ s.reply = None
        /\ s.iterator \in Seq(Row) /\ s.printed \in Seq(Row)
    BY <1>1, <1>2 DEF ScriptOK, ScriptRecord
  <1>4. t = WithManagers(session[p], "object")
    OBVIOUS
  <1> HIDE DEF t
  <1>5. /\ ProgramInv' /\ UNCHANGED row
        /\ \A q \in Program \ {p} : session'[q] = session[q]
        /\ session'[p].interface = session[p].interface
        /\ session'[p].answer = session[p].answer
        /\ session'[p].creating = session[p].creating
        /\ session'[p].current = session[p].current
    BY <1>1, <1>2, <1>3, <1>4, QueriesKeep
  <1>6. /\ Printed(s) \in Seq(Row) /\ Len(Printed(s)) = Len(s.printed) + 1
        /\ Len(Printed(s)) <= Len(s.iterator)
        /\ \A i \in 1 .. Len(Printed(s)) : Printed(s)[i] = s.iterator[i]
    <2> DEFINE next == s.iterator[Len(s.printed) + 1]
    <2>1. next \in Row
      BY <1>1, <1>3
    <2>2. \A i \in 1 .. Len(s.printed) : s.printed[i] = s.iterator[i]
      BY <1>1, <1>2 DEF ScriptOK
    <2>3. Printed(s) = Append(s.printed, next)
      BY DEF Printed
    <2>4. Printed(s) \in Seq(Row) /\ Len(Printed(s)) = Len(s.printed) + 1
      BY <1>3, <2>1, <2>3
    <2>5. \A i \in 1 .. Len(Printed(s)) :
            Printed(s)[i] = IF i = Len(s.printed) + 1 THEN next ELSE s.printed[i]
      BY <1>3, <2>1, <2>3, <2>4
    <2> QED
      BY <1>1, <1>3, <2>2, <2>4, <2>5
  <1>7. /\ n \in ScriptRecord /\ n.printed = Printed(s)
        /\ n.open = s.open /\ n.iterator = s.iterator /\ n.found = s.found
        /\ n.prints = s.prints /\ n.printing = s.printing /\ n.reply = s.reply
    BY <1>2, <1>6 DEF ScriptRecord
  <1> HIDE DEF n
  <1>8. script'[p] = n
    BY <1>1, <1>2
  <1>9. CanWork(p)'
    BY <1>3, <1>5 DEF CanWork, Is
  <1>10. None # Array
    BY DEF None, Array
  <1>11. ScriptOK(p)'
    BY <1>2, <1>3, <1>5, <1>6, <1>7, <1>8, <1>9, <1>10 DEF ScriptOK
  <1>12. \A e \in Database : row[e] \subseteq row'[e]
    BY <1>5
  <1> QED
    BY <1>1, <1>5, <1>7, <1>11, <1>12, ScriptKeeps

(* What is printed at the end is what was browsed. *)
LEMMA PrintEndsKeeps ==
  ASSUME PhpInv, NEW p \in Program, NEW reply \in {Array, Error}, script[p].printing,
         PrintEnds(p, reply), UNCHANGED <<serverVars, session>>,
         faults' \in {faults, faults + 1},
         reply = Array => Len(script[p].printed) = Len(script[p].iterator)
  PROVE  PhpInv'
  <1> DEFINE s == script[p]
             a == [s EXCEPT !.printing = FALSE]
             b == [a EXCEPT !.reply = reply]
             c == [b EXCEPT !.iterator = <<>>]
             n == [c EXCEPT !.prints = @ + 1]
  <1>1. s \in ScriptRecord /\ ScriptOK(p) /\ script \in [Program -> ScriptRecord]
    BY DEF PhpInv
  <1>2. script' = [script EXCEPT ![p] = n]
    BY <1>1 DEF PrintEnds, Return
  <1>3. /\ n \in ScriptRecord /\ ~n.printing /\ n.iterator = <<>> /\ n.reply = reply
        /\ n.open = s.open /\ n.printed = s.printed /\ n.found = s.found
        /\ n.prints = s.prints + 1
    <2>1. /\ a \in ScriptRecord /\ ~a.printing
          /\ a.open = s.open /\ a.printed = s.printed /\ a.found = s.found
          /\ a.prints = s.prints
      BY <1>1 DEF ScriptRecord
    <2> HIDE DEF a
    <2>2. /\ b \in ScriptRecord /\ ~b.printing /\ b.reply = reply
          /\ b.open = s.open /\ b.printed = s.printed /\ b.found = s.found
          /\ b.prints = s.prints
      BY <2>1 DEF ScriptRecord
    <2> HIDE DEF b
    <2>3. <<>> \in Seq(Row)
      OBVIOUS
    <2>4. /\ c \in ScriptRecord /\ ~c.printing /\ c.reply = reply /\ c.iterator = <<>>
          /\ c.open = s.open /\ c.printed = s.printed /\ c.found = s.found
          /\ c.prints = s.prints
      BY <2>2, <2>3 DEF ScriptRecord
    <2> HIDE DEF c
    <2>5. c.prints + 1 \in Nat
      BY <2>4 DEF ScriptRecord
    <2> QED
      BY <2>4, <2>5 DEF ScriptRecord
  <1> HIDE DEF n
  <1>4. script'[p] = n
    BY <1>1, <1>2
  <1>5. s.iterator = s.found /\ s.prints = 0
    BY <1>1 DEF ScriptOK
  <1>6. reply = Array => s.printed = s.found
    <2> SUFFICES ASSUME reply = Array
                 PROVE  s.printed = s.iterator
      BY <1>5
    <2>1. s.printed \in Seq(Row) /\ s.iterator \in Seq(Row)
      BY <1>1 DEF ScriptRecord
    <2>2. \A i \in 1 .. Len(s.printed) : s.printed[i] = s.iterator[i]
      BY <1>1 DEF ScriptOK
    <2> QED
      BY <2>1, <2>2
  <1>7. ScriptOK(p)'
    BY <1>1, <1>3, <1>4, <1>5, <1>6 DEF ScriptOK
  <1> QED
    BY <1>2, <1>3, <1>7, PrintKeeps

LEMMA ConnectCloseKeeps ==
  ASSUME PhpInv, NEW p \in Program, ConnectClose(p)
  PROVE  PhpInv'
  <1>1. /\ script' = [script EXCEPT ![p] = NoScript] /\ DestroySession(p)
        /\ ProgramInv /\ script \in [Program -> ScriptRecord]
    BY DEF ConnectClose, Return, PhpInv
  <1>2. ProgramInv'
    BY <1>1, DestroySessionKeeps
  <1>3. /\ \A q \in Program \ {p} : session'[q] = session[q]
        /\ \A d \in Database : row[d] \subseteq row'[d]
    <2>1. SessionStep(p)
      BY <1>1 DEF SessionStep
    <2> QED
      BY <1>1, <2>1, StepOfOne
  <1>4. NoScript \in ScriptRecord
    BY DEF NoScript, ScriptRecord, None
  <1>5. script'[p] = NoScript
    BY <1>1
  <1>6. ScriptOK(p)'
    BY <1>5 DEF ScriptOK, NoScript, None, Array
  <1> QED
    BY <1>1, <1>2, <1>3, <1>4, <1>6, ScriptKeeps
-----------------------------------------------------------------------------
LEMMA ScriptStepKeeps ==
  ASSUME PhpInv, NEW p \in Program, ScriptStep(p)
  PROVE  PhpInv'
  <1>1. CASE \E d \in Database : ConnectOpen(p, d) \/ ConnectFails(p, d)
    BY <1>1, ConnectOpenKeeps, ConnectFailsKeeps
  <1>2. CASE \/ GetFolders(p) \/ GetFolderSets(p) \/ GetFolder(p) \/ GetFolderType(p)
             \/ GetTags(p)
    <2>1. "folder" \in TopManager /\ "tag" \in TopManager
      BY DEF TopManager
    <2> QED
      BY <1>2, <2>1, AskManagerKeeps
      DEF GetFolders, GetFolderSets, GetFolder, GetFolderType, GetTags
  <1>3. CASE GetObject(p)
    BY <1>3, QueryKeeps DEF GetObject
  <1>4. CASE TableSchema(p) \/ BrowseTblTag(p) \/ BrowseTblPoint(p) \/ BrowseTblHistory(p)
    BY <1>4, QueryKeeps DEF TableSchema, BrowseTblTag, BrowseTblPoint, BrowseTblHistory
  <1>5. CASE BrowseAllObjs(p) \/ BrowseObjTag(p) \/ BrowseObjPoint(p) \/ BrowseObjHistory(p)
    BY <1>5, BrowseKeeps DEF BrowseAllObjs, BrowseObjTag, BrowseObjPoint, BrowseObjHistory
  <1>6. CASE PrintNothing(p) \/ PrintStart(p) \/ PrintObject(p)
    BY <1>6, PrintNothingKeeps, PrintStartKeeps, PrintObjectKeeps
  <1>7. CASE PrintDone(p)
    BY <1>7, PrintEndsKeeps DEF PrintDone, sessionVars
  <1>8. CASE PrintFails(p)
    <2>1. Error # Array
      BY DEF Error, Array
    <2> QED
      BY <1>8, <2>1, PrintEndsKeeps DEF PrintFails, Fault
  <1>9. CASE ConnectClose(p)
    BY <1>9, ConnectCloseKeeps
  <1> QED
    BY <1>1, <1>2, <1>3, <1>4, <1>5, <1>6, <1>7, <1>8, <1>9 DEF ScriptStep

LEMMA NextKeeps ==
  ASSUME PhpInv, [PhpNext]_phpVars
  PROVE  PhpInv'
  <1>1. ASSUME NEW p \in Program, ProgramStep(p)
        PROVE  PhpInv'
    BY <1>1, ProgramStepKeeps
  <1>2. ASSUME NEW p \in Script, ScriptStep(p)
        PROVE  PhpInv'
    BY <1>2, ScriptAssumption, ScriptStepKeeps
  <1>3. CASE UNCHANGED phpVars
    <2>1. UNCHANGED <<serverVars, session>> /\ UNCHANGED faults /\ UNCHANGED script
      BY <1>3 DEF phpVars, sessionVars
    <2>2. ProgramInv' /\ UNCHANGED row
      BY <2>1, FaultKeeps DEF PhpInv, serverVars
    <2>3. ASSUME NEW q \in Program
          PROVE  ScriptOK(q)'
      <3>1. ScriptOK(q)
        BY DEF PhpInv
      <3> QED
        BY <2>1, <2>2, <3>1 DEF ScriptOK, CanWork, Is
    <2> QED
      BY <2>1, <2>2, <2>3, SameTypes DEF PhpInv
  <1> QED
    BY <1>1, <1>2, <1>3 DEF PhpNext

LEMMA InitPhpInv == PhpInit => PhpInv
  <1> SUFFICES ASSUME PhpInit
               PROVE  PhpInv
    OBVIOUS
  <1> USE DEF PhpInit, SessionInit
  <1>1. SessionTypeOK
    <2>1. session \in [Program -> SessionRecord]
      BY NewInterfaceType
    <2> QED
      BY <2>1 DEF SessionTypeOK
  <1>2. ASSUME NEW p \in Program
        PROVE  SessionOK(p)
    BY DEF SessionOK, Lifetime, Counted, RightDatabase, NothingLost, NoSession, NewInterface
  <1>3. ASSUME NEW d \in Database
        PROVE  DatabaseOK(d)
    <2>1. Creators(d) = {}
      BY DEF Creators, NoSession, NewInterface
    <2> QED
      BY <2>1 DEF DatabaseOK
  <1>4. WritesGoHome
    BY DEF WritesGoHome
  <1>5. script \in [Program -> ScriptRecord]
    BY DEF NoScript, ScriptRecord, None
  <1>6. \A p \in Program : ScriptOK(p)
    BY DEF ScriptOK, NoScript, None, Array
  <1> QED
    BY <1>1, <1>2, <1>3, <1>4, <1>5, <1>6 DEF PhpInv, ProgramInv

(* What each step relies on holds always. *)
THEOREM SessionsAreConsistent == PhpSpec => []PhpInv
  <1>1. PhpInv /\ [PhpNext]_phpVars => PhpInv'
    BY NextKeeps
  <1> QED
    BY <1>1, InitPhpInv, PTL DEF PhpSpec

(* Sessions give up what they share, log where they have to, and write to the
   database they are for. *)
THEOREM SessionsShareOneConnection == PhpSpec => []SessionInv
  <1>1. PhpInv => SessionInv
    <2> SUFFICES ASSUME PhpInv
                 PROVE  SessionInv
      OBVIOUS
    <2>1. WritesGoHome
      BY DEF PhpInv, ProgramInv
    <2>2. ASSUME NEW p \in Program
          PROVE  LET s == session[p]
                 IN  /\ s.interface \in {"failed", "ready"} =>
                          /\ s.usage >= 1 + Cardinality(s.linked)
                          /\ faults = 0 => s.usage = 1 + Cardinality(s.linked)
                          /\ s.log # "none"
                     /\ faults = 0 => /\ connections[p] = IF s.interface = "ready" THEN 1 ELSE 0
                                      /\ \A k \in TopManager : s.top[k] # "lost"
                     /\ s.answer \in {"opened", "created"} =>
                          s.current = s.name /\ Exists(s.name)
      <3>1. Lifetime(session[p]) /\ RightDatabase(session[p]) /\ NothingLost(p)
        BY OfProgram DEF PhpInv
      <3> QED
        BY <3>1 DEF Lifetime, Counted, RightDatabase, NothingLost, Exists
    <2> QED
      BY <2>1, <2>2 DEF SessionInv
  <1> QED
    BY <1>1, SessionsAreConsistent, PTL

(* However many processes ask for a database at once, one of them makes it. *)
THEOREM DatabasesAreMadeByOne == PhpSpec => []MadeByOne
  <1>1. PhpInv => MadeByOne
    <2> SUFFICES ASSUME PhpInv, NEW d \in Database
                 PROVE  /\ Cardinality(Creators(d)) <= 1
                        /\ made[d] \in 1 .. Statements - 1 => faults > 0 \/ Creators(d) # {}
                        /\ made[d] = Statements =>
                             Cardinality(row[d]) = 1 /\ \A r \in row[d] : r.dbname = d
                        /\ \A p \in Program : session[p].answer = "created" =>
                             made[session[p].current] = Statements
      BY DEF MadeByOne
    <2>1. DatabaseOK(d)
      BY DEF PhpInv, ProgramInv
    <2>2. Cardinality(Creators(d)) <= 1
      <3>1. CASE Creators(d) = {}
        BY <3>1, FS_EmptySet
      <3>2. CASE Creators(d) # {}
        <4>1. PICK p : p \in Creators(d)
          BY <3>2
        <4>2. Creators(d) = {p}
          BY <2>1, <4>1 DEF DatabaseOK
        <4>3. Cardinality({p}) = 1
          BY FS_Singleton
        <4> QED
          BY <4>2, <4>3
      <3> QED
        BY <3>1, <3>2
    <2>3. made[d] = Statements => Cardinality(row[d]) = 1 /\ \A r \in row[d] : r.dbname = d
      <3> SUFFICES ASSUME made[d] = Statements
                   PROVE  Cardinality(row[d]) = 1 /\ \A r \in row[d] : r.dbname = d
        OBVIOUS
      <3>1. PICK r \in CatalogRow : row[d] = {r} /\ r.dbname = d
        BY <2>1 DEF DatabaseOK
      <3>2. Cardinality({r}) = 1
        BY FS_Singleton
      <3> QED
        BY <3>1, <3>2
    <2>4. ASSUME NEW p \in Program, session[p].answer = "created"
          PROVE  made[session[p].current] = Statements
      BY <2>4, OfProgram DEF PhpInv, RightDatabase
    <2> QED
      BY <2>1, <2>2, <2>3, <2>4 DEF DatabaseOK
  <1> QED
    BY <1>1, SessionsAreConsistent, PTL

(* A script prints what its last browse found. *)
THEOREM ScriptsPrintWhatTheyBrowsed == PhpSpec => []PrintsBrowsedRows
  <1>1. PhpInv => PrintsBrowsedRows
    BY DEF PhpInv, ScriptOK, PrintsBrowsedRows
  <1> QED
    BY <1>1, SessionsAreConsistent, PTL
=============================================================================
