------------------------- MODULE VersionStoreProofs --------------------------
(***************************************************************************)
(* The properties of VersionStore and VersionQueries for any clients,      *)
(* times and tables, and any number of calls and failures.                 *)
(***************************************************************************)
EXTENDS VersionQueries, TLAPS, FiniteSetTheorems, WellFoundedInduction

(* What a row says of an object is within what the object says. *)
Within(r) == \E k \in keyTbl : k.obj = r.obj /\ k.since <= r.since /\ r.till <= k.till

(* The object that a client has made of its table. *)
NewKey(c) ==
  \E k \in keyTbl :
    k.obj = LastObject /\ k.since = arg[c].since /\ k.till = arg[c].till

(* Key rows are numbered, and no number is given twice. *)
KeysNumbered ==
  /\ IsFiniteSet(keyTbl)
  /\ \A k \in keyTbl : k.obj <= Cardinality(keyTbl)
  /\ \A j, k \in keyTbl : j.obj = k.obj => j = k

(* The numbers of versions do not go on for ever: one of them is the MAX. *)
DatsBounded == \E b \in Nat : \A d \in dataTbl : d.dat <= b

SelectedRow == [place : Nat, obj : Nat, since : Time, till : Time]

LocalsOK ==
  /\ arg \in [Client -> [since : Int, till : Int, rows : Nat, call : Nat]]
  /\ todo \in [Client -> SUBSET SelectedRow]
  /\ tail \in [Client -> SUBSET HeadRow]

ClientInv(c) ==
  /\ pc[c] # "idle" => lock = c
  /\ pc[c] \notin {"idle", "failed"} =>
       arg[c].since \in Time /\ arg[c].till \in Time /\ arg[c].rows \in 1 .. MaxRows
  /\ pc[c] \in {"idle", "max"} => done[c] = 0
  /\ pc[c] = "data" => done[c] < arg[c].rows
  /\ \A r \in todo[c] \cup tail[c] : Within(r)
  /\ pc[c] \in {"rows", "split"} =>
       \A r \in todo[c] : r.since < arg[c].till /\ r.till > arg[c].since
  /\ pc[c] \in {"head", "unlock"} => NewKey(c)

(* What has to hold before each step. *)
StoreInv ==
  /\ TypeOK /\ LocalsOK /\ HeadWithinValidity
  /\ IsFiniteSet(DOMAIN headTbl) /\ KeysNumbered /\ DatsBounded
  /\ \A c \in Client : ClientInv(c)
-----------------------------------------------------------------------------
(* What of HEAD a client still has to make room in is in its overlap query,
   by the number of the object: the UPDATE or DELETE that one row leads to
   makes room in all pieces of its object. *)
RoomFound(c) ==
  \A n \in DOMAIN headTbl, p \in Time :
    Covers(arg[c], p) /\ Covers(headTbl[n], p) => \E r \in todo[c] : r.obj = headTbl[n].obj

TailIsOutside(c) ==
  \A t \in tail[c], p \in Time : ~(Covers(arg[c], p) /\ Covers(t, p))

ClientNewest(c) ==
  /\ pc[c] # "failed"
  /\ pc[c] \in {"rows", "split", "head"} => RoomFound(c)
  /\ pc[c] = "split" => TailIsOutside(c)
  /\ pc[c] = "head" => todo[c] = {}
  /\ pc[c] = "unlock" => \A p \in Time : Covers(arg[c], p) => HeadAt(p) = {LastObject}

NewestInv == faults = 0 => NewestIsInHead /\ \A c \in Client : ClientNewest(c)
-----------------------------------------------------------------------------
(* INSERT finds a free place, whatever places have been given up. *)
LEMMA FreePlace ==
  ASSUME StoreInv, NEW r
  PROVE  \E free \in Nat :
           /\ free \notin DOMAIN headTbl
           /\ Inserted(headTbl, r) =
                [n \in DOMAIN headTbl \cup {free} |-> IF n = free THEN r ELSE headTbl[n]]
  <1> DEFINE size == Cardinality(DOMAIN headTbl)
             Free(n) == n \notin DOMAIN headTbl /\ \A m \in 1 .. n - 1 : m \in DOMAIN headTbl
             S == (1 .. size + 1) \ DOMAIN headTbl
  <1>1. size \in Nat
    BY FS_CardinalityType DEF StoreInv
  <1>2. S # {}
    <2> SUFFICES ASSUME S = {}
                 PROVE  FALSE
      OBVIOUS
    <2>1. 1 .. size + 1 \in SUBSET DOMAIN headTbl
      OBVIOUS
    <2>2. Cardinality(1 .. size + 1) <= size
      BY <2>1, FS_Subset DEF StoreInv
    <2>3. Cardinality(1 .. size + 1) = size + 1
      <3> HIDE DEF size
      <3> QED
        BY <1>1, FS_Interval
    <2> HIDE DEF size
    <2> QED
      BY <1>1, <2>2, <2>3
  <1>3. S \subseteq Nat
    BY <1>1
  <1> HIDE DEF size
  <1>4. PICK x \in S : \A y \in S : <<y, x>> \notin OpToRel(<, Nat)
    <2> HIDE DEF S
    <2> QED
      BY <1>2, <1>3, WFMin, NatLessThanWellFounded
  <1>5. ASSUME NEW m \in 1 .. x - 1
        PROVE  m \in DOMAIN headTbl
    <2> SUFFICES ASSUME m \notin DOMAIN headTbl
                 PROVE  FALSE
      OBVIOUS
    <2>1. m \in S /\ m < x
      BY <1>1
    <2> QED
      BY <1>3, <1>4, <2>1 DEF OpToRel
  <1>6. \E n \in 1 .. size + 1 : Free(n)
    BY <1>5
  <1> DEFINE free == CHOOSE n \in 1 .. size + 1 : Free(n)
  <1>7. free \in 1 .. size + 1 /\ Free(free)
    <2> HIDE DEF Free
    <2> QED
      BY <1>6
  <1>8. Inserted(headTbl, r) = [n \in DOMAIN headTbl \cup {free} |-> IF n = free THEN r ELSE headTbl[n]]
    BY DEF Inserted, size
  <1> HIDE DEF free
  <1> QED
    BY <1>1, <1>7, <1>8

(* The rows of HEAD after each of its statements. *)
LEMMA InsertedRows ==
  ASSUME StoreInv, NEW r, headTbl' = Inserted(headTbl, r)
  PROVE  /\ DOMAIN headTbl' \subseteq Nat /\ IsFiniteSet(DOMAIN headTbl')
         /\ \A n \in DOMAIN headTbl' :
              headTbl'[n] = r \/ (n \in DOMAIN headTbl /\ headTbl'[n] = headTbl[n])
         /\ \E n \in DOMAIN headTbl' : headTbl'[n] = r
  <1>1. DOMAIN headTbl \subseteq Nat /\ IsFiniteSet(DOMAIN headTbl)
    BY DEF StoreInv, TypeOK
  <1>2. PICK free \in Nat :
          /\ free \notin DOMAIN headTbl
          /\ Inserted(headTbl, r) =
               [n \in DOMAIN headTbl \cup {free} |-> IF n = free THEN r ELSE headTbl[n]]
    BY FreePlace
  <1>3. DOMAIN headTbl' = DOMAIN headTbl \cup {free}
    BY <1>2
  <1>4. IsFiniteSet(DOMAIN headTbl')
    BY <1>1, <1>3, FS_AddElement
  <1> QED
    BY <1>1, <1>2, <1>3, <1>4

LEMMA UpdatedRows ==
  ASSUME StoreInv, NEW o, NEW column \in {"since", "till"}, NEW time \in Time,
         headTbl' = Updated(o, column, time)
  PROVE  /\ DOMAIN headTbl' = DOMAIN headTbl
         /\ \A n \in DOMAIN headTbl :
              /\ headTbl'[n] \in HeadRow /\ headTbl'[n].obj = headTbl[n].obj
              /\ headTbl[n].obj # o => headTbl'[n] = headTbl[n]
              /\ headTbl[n].obj = o /\ column = "since" =>
                   headTbl'[n].since = time /\ headTbl'[n].till = headTbl[n].till
              /\ headTbl[n].obj = o /\ column = "till" =>
                   headTbl'[n].since = headTbl[n].since /\ headTbl'[n].till = time
  <1>1. DOMAIN headTbl' = DOMAIN headTbl
    BY DEF Updated
  <1>2. ASSUME NEW n \in DOMAIN headTbl
        PROVE  /\ headTbl[n] \in HeadRow
               /\ headTbl'[n] = IF headTbl[n].obj # o THEN headTbl[n]
                                ELSE [headTbl[n] EXCEPT ![column] = time]
    BY <1>2 DEF Updated, StoreInv, TypeOK
  <1>3. ASSUME NEW n \in DOMAIN headTbl, headTbl[n].obj = o
        PROVE  /\ headTbl'[n] \in HeadRow /\ headTbl'[n].obj = headTbl[n].obj
               /\ headTbl'[n].since = IF column = "since" THEN time ELSE headTbl[n].since
               /\ headTbl'[n].till = IF column = "till" THEN time ELSE headTbl[n].till
    <2>1. headTbl[n] \in HeadRow /\ headTbl'[n] = [headTbl[n] EXCEPT ![column] = time]
      BY <1>2, <1>3
    <2> QED
      BY <2>1 DEF HeadRow
  <1> QED
    BY <1>1, <1>2, <1>3

LEMMA DeletedRows ==
  ASSUME StoreInv, NEW o, headTbl' = Deleted(o)
  PROVE  /\ DOMAIN headTbl' = {n \in DOMAIN headTbl : headTbl[n].obj # o}
         /\ \A n \in DOMAIN headTbl' : headTbl'[n] = headTbl[n]
         /\ IsFiniteSet(DOMAIN headTbl')
  <1>1. DOMAIN headTbl' = {n \in DOMAIN headTbl : headTbl[n].obj # o}
    BY DEF Deleted, Restrict
  <1>2. DOMAIN headTbl' \in SUBSET DOMAIN headTbl
    BY <1>1
  <1>3. IsFiniteSet(DOMAIN headTbl')
    BY <1>2, FS_Subset DEF StoreInv
  <1> QED
    BY <1>1, <1>3 DEF Deleted, Restrict
-----------------------------------------------------------------------------
(* A client that is at work holds the lock, and no other is at work. *)
LEMMA OthersIdle ==
  ASSUME StoreInv, NEW c \in Client, lock \in {c, Nobody}
  PROVE  \A d \in Client : d # c => pc[d] = "idle"
  BY NobodyAssumption DEF StoreInv, ClientInv

LEMMA Holder ==
  ASSUME StoreInv, NEW c \in Client, pc[c] # "idle"
  PROVE  lock = c
  BY DEF StoreInv, ClientInv

(* A step of one client, which deletes no key row, leaves the others alone. *)
LEMMA OneClientStep ==
  ASSUME StoreInv, NEW c \in Client, lock \in {c, Nobody},
         NEW label, pc' = [pc EXCEPT ![c] = label], keyTbl \subseteq keyTbl',
         \A d \in Client : d # c => done'[d] = done[d] /\ todo'[d] = todo[d] /\ tail'[d] = tail[d],
         ClientInv(c)'
  PROVE  \A d \in Client : ClientInv(d)'
  <1> SUFFICES ASSUME NEW d \in Client, d # c
               PROVE  ClientInv(d)'
    OBVIOUS
  <1>1. pc[d] = "idle" /\ pc'[d] = "idle"
    BY OthersIdle DEF StoreInv, TypeOK
  <1>2. done'[d] = 0 /\ \A r \in todo'[d] \cup tail'[d] : Within(r)'
    BY <1>1 DEF StoreInv, ClientInv, Within
  <1> QED
    BY <1>1, <1>2 DEF ClientInv

LEMMA StoreVerInv ==
  ASSUME StoreInv, NEW c \in Client, NEW i \in Interval, NEW n \in 1 .. MaxRows, StoreVer(c, i, n)
  PROVE  StoreInv'
  <1>1. i.since \in Time /\ i.till \in Time /\ i.since \in Int /\ i.till \in Int
    BY IntervalAssumption, TimeAssumption
  <1>2. /\ lock = Nobody /\ pc[c] = "idle" /\ calls < MaxStores /\ calls \in Nat
        /\ MaxRows \in Nat /\ MaxStores \in Nat
    BY BoundsAssumption DEF StoreVer, StoreInv, TypeOK
  <1>3. TypeOK'
    <2>1. calls' \in 0 .. MaxStores
      BY <1>2 DEF StoreVer
    <2> QED
      BY <2>1 DEF StoreVer, Goto, tables, StoreInv, TypeOK, Label
  <1>4. LocalsOK'
    BY <1>1, <1>2 DEF StoreVer, StoreInv, LocalsOK
  <1>5. HeadWithinValidity' /\ IsFiniteSet(DOMAIN headTbl') /\ KeysNumbered' /\ DatsBounded'
    BY DEF StoreVer, tables, StoreInv, HeadWithinValidity, KeysNumbered, DatsBounded
  <1>6. ClientInv(c)'
    <2>1. /\ pc'[c] = "max" /\ lock' = c /\ done'[c] = 0 /\ arg'[c].since = i.since
          /\ arg'[c].till = i.till /\ arg'[c].rows = n
      BY <1>2 DEF StoreVer, Goto, StoreInv, TypeOK, LocalsOK, ClientInv
    <2>2. \A r \in todo'[c] \cup tail'[c] : Within(r)'
      BY DEF StoreVer, tables, StoreInv, ClientInv, Within
    <2> QED
      BY <1>1, <2>1, <2>2 DEF ClientInv
  <1>7. \A d \in Client : ClientInv(d)'
    <2>1. \A d \in Client : d # c => done'[d] = done[d] /\ todo'[d] = todo[d] /\ tail'[d] = tail[d]
      BY DEF StoreVer
    <2>2. pc' = [pc EXCEPT ![c] = "max"] /\ keyTbl' = keyTbl
      BY DEF StoreVer, Goto, tables
    <2> QED
      BY <1>2, <1>6, <2>1, <2>2, OneClientStep
  <1> QED
    BY <1>3, <1>4, <1>5, <1>7 DEF StoreInv

(* SELECT MAX finds a number, and the greatest. *)
LEMMA MaxDat ==
  ASSUME StoreInv, dataTbl # {}
  PROVE  \E max \in Nat :
           /\ max = CHOOSE m \in {d.dat : d \in dataTbl} : \A d \in dataTbl : d.dat <= m
           /\ \A d \in dataTbl : d.dat <= max
  <1> DEFINE S == {d.dat : d \in dataTbl}
  <1>1. S \subseteq Nat /\ S # {}
    BY DEF StoreInv, TypeOK, DataRow
  <1>2. PICK b \in Nat : \A d \in dataTbl : d.dat <= b
    BY DEF StoreInv, DatsBounded
  <1>3. \A s \in S : s <= b
    BY <1>2
  <1> DEFINE T == {b - s : s \in S}
  <1>4. T \subseteq Nat /\ T # {}
    <2> HIDE DEF S
    <2>1. \A s \in S : b - s \in Nat
      BY <1>1, <1>3
    <2> QED
      BY <1>1, <2>1
  <1>5. PICK x \in T : \A y \in T : <<y, x>> \notin OpToRel(<, Nat)
    <2> HIDE DEF T
    <2> QED
      BY <1>4, WFMin, NatLessThanWellFounded
  <1>6. PICK m \in S : x = b - m
    BY <1>5
  <1>7. ASSUME NEW s \in S
        PROVE  s <= m
    <2>1. b - s \in T
      BY <1>7
    <2>2. ~(b - s < b - m)
      BY <1>4, <1>5, <1>6, <2>1 DEF OpToRel
    <2> HIDE DEF S
    <2> QED
      BY <1>1, <2>2
  <1>8. \E k \in S : \A d \in dataTbl : d.dat <= k
    BY <1>7
  <1> DEFINE max == CHOOSE k \in S : \A d \in dataTbl : d.dat <= k
  <1>9. max \in S /\ \A d \in dataTbl : d.dat <= max
    <2> HIDE DEF S
    <2> QED
      BY <1>8
  <1>10. max \in Nat
    BY <1>1, <1>9
  <1> QED
    BY <1>9, <1>10

LEMMA NewDat ==
  ASSUME StoreInv, NEW c \in Client, SelectMaxDat(c)
  PROVE  \E new \in Nat : /\ dat' = [dat EXCEPT ![c] = new]
                          /\ \A d \in dataTbl : d.dat < new
  <1> DEFINE last == CHOOSE m \in {d.dat : d \in dataTbl} : \A d \in dataTbl : d.dat <= m
  <1>1. dat' = [dat EXCEPT ![c] = IF dataTbl = {} THEN 0 ELSE 1 + last]
    BY DEF SelectMaxDat
  <1>2. CASE dataTbl = {}
    BY <1>1, <1>2
  <1>3. CASE dataTbl # {}
    <2>1. last \in Nat /\ \A d \in dataTbl : d.dat <= last
      BY <1>3, MaxDat
    <2>2. dat' = [dat EXCEPT ![c] = 1 + last]
      BY <1>1, <1>3
    <2>3. \A d \in dataTbl : d.dat \in Nat
      BY DEF StoreInv, TypeOK, DataRow
    <2> HIDE DEF last
    <2>4. 1 + last \in Nat /\ \A d \in dataTbl : d.dat < 1 + last
      BY <2>1, <2>3
    <2> QED
      BY <2>2, <2>4
  <1> QED
    BY <1>2, <1>3

LEMMA SelectMaxDatInv ==
  ASSUME StoreInv, NEW c \in Client, SelectMaxDat(c)
  PROVE  StoreInv'
  <1>1. /\ pc[c] = "max" /\ lock = c /\ pc'[c] = "data" /\ done[c] = 0 /\ arg[c].rows \in 1 .. MaxRows
        /\ arg[c].since \in Time /\ arg[c].till \in Time
    BY Holder DEF SelectMaxDat, Goto, StoreInv, TypeOK, ClientInv
  <1>2. dat' \in [Client -> Nat]
    BY NewDat DEF StoreInv, TypeOK
  <1>3. pc' \in [Client -> Label]
    BY DEF SelectMaxDat, Goto, StoreInv, TypeOK, Label
  <1>4. TypeOK' /\ LocalsOK'
    BY <1>2, <1>3 DEF SelectMaxDat, tables, StoreInv, TypeOK, LocalsOK
  <1>5. HeadWithinValidity' /\ IsFiniteSet(DOMAIN headTbl') /\ KeysNumbered' /\ DatsBounded'
    BY DEF SelectMaxDat, tables, StoreInv, HeadWithinValidity, KeysNumbered, DatsBounded
  <1>6. ClientInv(c)'
    <2>1. \A r \in todo'[c] \cup tail'[c] : Within(r)'
      BY DEF SelectMaxDat, tables, StoreInv, ClientInv, Within
    <2>2. lock' = c /\ done' = done /\ arg' = arg
      BY <1>1 DEF SelectMaxDat
    <2>3. done[c] < arg[c].rows
      BY <1>1, BoundsAssumption
    <2> QED
      BY <1>1, <2>1, <2>2, <2>3 DEF ClientInv
  <1>7. \A d \in Client : ClientInv(d)'
    <2>1. pc' = [pc EXCEPT ![c] = "data"] /\ keyTbl' = keyTbl /\ done' = done /\ todo' = todo /\ tail' = tail
      BY DEF SelectMaxDat, Goto, tables
    <2> QED
      BY <1>1, <1>6, <2>1, OneClientStep
  <1> QED
    BY <1>4, <1>5, <1>7 DEF StoreInv

LEMMA InsertDataInv ==
  ASSUME StoreInv, NEW c \in Client, InsertData(c)
  PROVE  StoreInv'
  <1> DEFINE new == [dat |-> dat[c], call |-> arg[c].call, row |-> done[c] + 1]
             label == IF done[c] + 1 = arg[c].rows THEN "select" ELSE "data"
  <1>1. /\ pc[c] = "data" /\ lock = c /\ done[c] < arg[c].rows /\ arg[c].rows \in 1 .. MaxRows
        /\ arg[c].since \in Time /\ arg[c].till \in Time /\ done[c] \in Nat /\ MaxRows \in Nat
    BY Holder, BoundsAssumption DEF InsertData, StoreInv, TypeOK, ClientInv
  <1>2. pc' = [pc EXCEPT ![c] = label] /\ pc'[c] = label
    BY DEF InsertData, Goto, StoreInv, TypeOK
  <1>3. done' = [done EXCEPT ![c] = done[c] + 1] /\ done[c] + 1 \in 0 .. MaxRows
    BY <1>1 DEF InsertData
  <1>4. done' \in [Client -> 0 .. MaxRows] /\ done'[c] = done[c] + 1
    BY <1>3 DEF StoreInv, TypeOK
  <1>5. pc' \in [Client -> Label]
    BY <1>2 DEF StoreInv, TypeOK, Label
  <1>6. dataTbl' = dataTbl \cup {new} /\ new \in DataRow /\ new.dat \in Nat
    BY <1>1 DEF InsertData, StoreInv, TypeOK, LocalsOK, DataRow
  <1>7. TypeOK'
    <2> HIDE DEF new
    <2> QED
      BY <1>4, <1>5, <1>6 DEF InsertData, StoreInv, TypeOK
  <1>8. LocalsOK' /\ HeadWithinValidity' /\ IsFiniteSet(DOMAIN headTbl') /\ KeysNumbered'
    BY DEF InsertData, StoreInv, LocalsOK, HeadWithinValidity, KeysNumbered
  <1>9. DatsBounded'
    <2>1. PICK b \in Nat : \A d \in dataTbl : d.dat <= b
      BY DEF StoreInv, DatsBounded
    <2>2. dataTbl \subseteq DataRow /\ \A d \in DataRow : d.dat \in Nat
      BY DEF StoreInv, TypeOK, DataRow
    <2> DEFINE b2 == b + new.dat
    <2> HIDE DEF new
    <2>3. b2 \in Nat /\ new.dat <= b2 /\ \A d \in dataTbl : d.dat <= b2
      BY <1>6, <2>1, <2>2
    <2> HIDE DEF b2
    <2>4. \A d \in dataTbl' : d.dat <= b2
      BY <1>6, <2>3
    <2> QED
      BY <2>3, <2>4 DEF DatsBounded
  <1>10. ClientInv(c)'
    <2>1. \A r \in todo'[c] \cup tail'[c] : Within(r)'
      BY DEF InsertData, StoreInv, ClientInv, Within
    <2>2. lock' = c /\ arg' = arg
      BY <1>1 DEF InsertData
    <2>3. done[c] + 1 # arg[c].rows => done[c] + 1 < arg[c].rows
      BY <1>1
    <2> QED
      BY <1>1, <1>2, <1>4, <2>1, <2>2, <2>3 DEF ClientInv
  <1>11. \A d \in Client : ClientInv(d)'
    <2>1. /\ keyTbl' = keyTbl /\ todo' = todo /\ tail' = tail
          /\ \A d \in Client : d # c => done'[d] = done[d]
      BY <1>3 DEF InsertData
    <2> QED
      BY <1>1, <1>2, <1>10, <2>1, OneClientStep
  <1> QED
    BY <1>7, <1>8, <1>9, <1>11 DEF StoreInv

LEMMA SelectOverlapInv ==
  ASSUME StoreInv, NEW c \in Client, SelectOverlap(c)
  PROVE  StoreInv'
  <1>1. /\ pc[c] = "select" /\ lock = c /\ arg[c].rows \in 1 .. MaxRows
        /\ arg[c].since \in Time /\ arg[c].till \in Time
    BY Holder DEF SelectOverlap, StoreInv, ClientInv
  <1>2. pc' = [pc EXCEPT ![c] = "rows"] /\ pc'[c] = "rows" /\ pc' \in [Client -> Label]
    BY DEF SelectOverlap, Goto, StoreInv, TypeOK, Label
  <1>3. TypeOK'
    BY <1>2 DEF SelectOverlap, tables, StoreInv, TypeOK
  <1>4. ASSUME NEW r \in Overlapping(arg[c])
        PROVE  /\ r \in SelectedRow /\ Within(r)
               /\ r.since < arg[c].till /\ r.till > arg[c].since
    <2>1. PICK n \in DOMAIN headTbl :
            /\ r = [place |-> n, obj |-> headTbl[n].obj, since |-> headTbl[n].since,
                    till |-> headTbl[n].till]
            /\ headTbl[n].since < arg[c].till /\ headTbl[n].till > arg[c].since
      BY <1>4 DEF Overlapping
    <2>2. n \in Nat /\ headTbl[n] \in HeadRow
      BY DEF StoreInv, TypeOK
    <2>3. r \in SelectedRow
      BY <2>1, <2>2 DEF SelectedRow, HeadRow
    <2>4. Within(r)
      BY <2>1 DEF StoreInv, HeadWithinValidity, Within
    <2> QED
      BY <2>1, <2>3, <2>4
  <1>5. /\ todo' = [todo EXCEPT ![c] = Overlapping(arg[c])]
        /\ Overlapping(arg[c]) \in SUBSET SelectedRow
    BY <1>4 DEF SelectOverlap
  <1>6. LocalsOK' /\ todo'[c] = Overlapping(arg[c])
    BY <1>5 DEF SelectOverlap, StoreInv, LocalsOK
  <1>7. HeadWithinValidity' /\ IsFiniteSet(DOMAIN headTbl') /\ KeysNumbered' /\ DatsBounded'
    BY DEF SelectOverlap, tables, StoreInv, HeadWithinValidity, KeysNumbered, DatsBounded
  <1>8. ClientInv(c)'
    <2>1. \A r \in todo'[c] \cup tail'[c] : Within(r)'
      BY <1>4, <1>6 DEF SelectOverlap, tables, StoreInv, ClientInv, Within
    <2>2. lock' = c /\ arg' = arg
      BY <1>1 DEF SelectOverlap
    <2> QED
      BY <1>1, <1>2, <1>4, <1>6, <2>1, <2>2 DEF ClientInv
  <1>9. \A d \in Client : ClientInv(d)'
    <2>1. /\ keyTbl' = keyTbl /\ done' = done /\ tail' = tail
          /\ \A d \in Client : d # c => todo'[d] = todo[d]
      BY <1>5 DEF SelectOverlap, tables, StoreInv, LocalsOK
    <2> QED
      BY <1>1, <1>2, <1>8, <2>1, OneClientStep
  <1> QED
    BY <1>3, <1>6, <1>7, <1>9 DEF StoreInv

(* What all turns of the loop have in common. *)
LEMMA NextRowFacts ==
  ASSUME StoreInv, NEW c \in Client, NEW r, NextRow(c, r)
  PROVE  /\ pc[c] = "rows" /\ lock = c /\ r \in todo[c] /\ r \in SelectedRow /\ Within(r)
         /\ arg[c].since \in Time /\ arg[c].till \in Time /\ arg[c].rows \in 1 .. MaxRows
         /\ r.since < arg[c].till /\ r.till > arg[c].since
  BY Holder DEF NextRow, StoreInv, LocalsOK, ClientInv

LEMMA NextRowInv ==
  ASSUME StoreInv, NEW c \in Client, NEW r, NextRow(c, r),
         \A n \in DOMAIN headTbl' : n \in Nat /\ headTbl'[n] \in HeadRow /\ Within(headTbl'[n]),
         IsFiniteSet(DOMAIN headTbl'),
         NEW label \in {"rows", "split"}, pc' = [pc EXCEPT ![c] = label],
         NEW T \in SUBSET HeadRow, \A t \in T : Within(t),
         tail' = [tail EXCEPT ![c] = T]
  PROVE  StoreInv'
  <1>1. /\ pc[c] = "rows" /\ lock = c /\ r \in todo[c] /\ r \in SelectedRow /\ Within(r)
        /\ arg[c].since \in Time /\ arg[c].till \in Time /\ arg[c].rows \in 1 .. MaxRows
    BY NextRowFacts
  <1>2. pc'[c] = label /\ pc' \in [Client -> Label]
    BY DEF StoreInv, TypeOK, Label
  <1>3. layer' \in [Client -> Nat \cup {-1}]
    <2>1. PICK k \in keyTbl : k.obj = r.obj
      BY <1>1 DEF Within
    <2>2. (CHOOSE j \in keyTbl : j.obj = r.obj) \in keyTbl
      BY <2>1
    <2>3. LayerOf(r.obj) \in Nat
      BY <2>2 DEF LayerOf, StoreInv, TypeOK, KeyRow
    <2> QED
      BY <2>3 DEF NextRow, StoreInv, TypeOK
  <1>4. TypeOK'
    BY <1>2, <1>3 DEF NextRow, StoreInv, TypeOK
  <1>5. todo' = [todo EXCEPT ![c] = todo[c] \ {r}]
    BY DEF NextRow
  <1>6. LocalsOK' /\ todo'[c] = todo[c] \ {r} /\ tail'[c] = T
    BY <1>5 DEF NextRow, StoreInv, LocalsOK
  <1>7. HeadWithinValidity' /\ KeysNumbered' /\ DatsBounded'
    BY DEF NextRow, StoreInv, HeadWithinValidity, Within, KeysNumbered, DatsBounded
  <1>8. ClientInv(c)'
    <2>1. \A s \in todo'[c] \cup tail'[c] : Within(s)'
      BY <1>6 DEF NextRow, StoreInv, ClientInv, Within
    <2>2. lock' = c /\ arg' = arg
      BY <1>1 DEF NextRow
    <2>3. \A s \in todo'[c] : s.since < arg[c].till /\ s.till > arg[c].since
      BY <1>1, <1>6 DEF StoreInv, ClientInv
    <2> QED
      BY <1>1, <1>2, <2>1, <2>2, <2>3 DEF ClientInv
  <1>9. \A d \in Client : ClientInv(d)'
    <2>1. /\ keyTbl' = keyTbl /\ done' = done
          /\ \A d \in Client : d # c => todo'[d] = todo[d] /\ tail'[d] = tail[d]
      BY <1>5 DEF NextRow, StoreInv, LocalsOK
    <2> QED
      BY <1>1, <1>8, <2>1, OneClientStep
  <1> QED
    BY <1>4, <1>6, <1>7, <1>9 DEF StoreInv

(* An UPDATE changes all pieces of an object, with a value from one of them:
   they stay within the object, because it is the same one. *)
LEMMA UpdatedWithin ==
  ASSUME StoreInv, NEW r \in SelectedRow, Within(r),
         NEW column \in {"since", "till"}, NEW time \in Time,
         headTbl' = Updated(r.obj, column, time),
         column = "since" => r.since <= time, column = "till" => time <= r.till
  PROVE  /\ \A n \in DOMAIN headTbl' : n \in Nat /\ headTbl'[n] \in HeadRow /\ Within(headTbl'[n])
         /\ IsFiniteSet(DOMAIN headTbl')
  <1>1. ASSUME NEW n \in DOMAIN headTbl
        PROVE  Within(headTbl'[n])
    <2>1. PICK k \in keyTbl : /\ k.obj = headTbl[n].obj
                              /\ k.since <= headTbl[n].since /\ headTbl[n].till <= k.till
      BY DEF StoreInv, HeadWithinValidity
    <2>2. CASE headTbl[n].obj # r.obj
      <3>1. headTbl'[n] = headTbl[n]
        BY <2>2, UpdatedRows
      <3> QED
        BY <2>1, <3>1 DEF Within
    <2>3. CASE headTbl[n].obj = r.obj
      <3>1. PICK j \in keyTbl : j.obj = r.obj /\ j.since <= r.since /\ r.till <= j.till
        BY DEF Within
      <3>2. j = k
        BY <2>1, <2>3, <3>1 DEF StoreInv, KeysNumbered
      <3>3. k.since \in Int /\ k.till \in Int /\ r.since \in Int /\ r.till \in Int /\ time \in Int
        BY TimeAssumption DEF StoreInv, TypeOK, KeyRow, SelectedRow
      <3>4. CASE column = "since"
        <4>1. headTbl'[n].since = time /\ headTbl'[n].till = headTbl[n].till /\ headTbl'[n].obj = r.obj
          BY <2>3, <3>4, UpdatedRows
        <4>2. k.since <= time
          BY <3>1, <3>2, <3>3, <3>4
        <4> QED
          BY <2>1, <2>3, <4>1, <4>2 DEF Within
      <3>5. CASE column = "till"
        <4>1. headTbl'[n].till = time /\ headTbl'[n].since = headTbl[n].since /\ headTbl'[n].obj = r.obj
          BY <2>3, <3>5, UpdatedRows
        <4>2. time <= k.till
          BY <3>1, <3>2, <3>3, <3>5
        <4> QED
          BY <2>1, <2>3, <4>1, <4>2 DEF Within
      <3> QED
        BY <3>4, <3>5
    <2> QED
      BY <2>2, <2>3
  <1>2. DOMAIN headTbl' = DOMAIN headTbl /\ \A n \in DOMAIN headTbl : headTbl'[n] \in HeadRow
    BY UpdatedRows
  <1> QED
    BY <1>1, <1>2 DEF StoreInv, TypeOK

LEMMA LoopInv ==
  ASSUME StoreInv, NEW c \in Client, NEW r \in todo[c],
         TrimEnd(c, r) \/ Swallow(c, r) \/ TrimStart(c, r) \/ SplitRow(c, r)
  PROVE  StoreInv'
  <1>1. NextRow(c, r)
    BY DEF TrimEnd, Swallow, TrimStart, SplitRow
  <1>2. /\ pc[c] = "rows" /\ r \in SelectedRow /\ Within(r)
        /\ arg[c].since \in Time /\ arg[c].till \in Time
        /\ r.since < arg[c].till /\ r.till > arg[c].since
    BY <1>1, NextRowFacts
  <1>3. /\ r.since \in Int /\ r.till \in Int /\ arg[c].since \in Int /\ arg[c].till \in Int
        /\ r.since <= arg[c].till /\ arg[c].since <= r.till
    <2>1. r.since \in Time /\ r.till \in Time
      BY <1>2 DEF SelectedRow
    <2>2. r.since \in Int /\ r.till \in Int /\ arg[c].since \in Int /\ arg[c].till \in Int
      BY <1>2, <2>1, TimeAssumption
    <2>3. \A x, y \in Int : x < y => x <= y
      OBVIOUS
    <2> QED
      BY <1>2, <2>2, <2>3
  <1>4. /\ pc = [pc EXCEPT ![c] = "rows"] /\ tail = [tail EXCEPT ![c] = tail[c]]
        /\ tail[c] \in SUBSET HeadRow /\ \A t \in tail[c] : Within(t)
    BY <1>2 DEF StoreInv, TypeOK, LocalsOK, ClientInv
  <1>5. CASE TrimEnd(c, r)
    <2>1. headTbl' = Updated(r.obj, "till", arg[c].since) /\ pc' = pc /\ tail' = tail
      BY <1>5 DEF TrimEnd
    <2>3. /\ \A n \in DOMAIN headTbl' : n \in Nat /\ headTbl'[n] \in HeadRow /\ Within(headTbl'[n])
          /\ IsFiniteSet(DOMAIN headTbl')
      BY <1>2, <1>3, <2>1, UpdatedWithin
    <2> QED
      BY <1>1, <1>4, <2>1, <2>3, NextRowInv
  <1>6. CASE Swallow(c, r)
    <2>1. headTbl' = Deleted(r.obj) /\ pc' = pc /\ tail' = tail
      BY <1>6 DEF Swallow
    <2>2. \A n \in DOMAIN headTbl : n \in Nat /\ headTbl[n] \in HeadRow /\ Within(headTbl[n])
      BY DEF StoreInv, TypeOK, HeadWithinValidity, Within
    <2>3. /\ \A n \in DOMAIN headTbl' : n \in Nat /\ headTbl'[n] \in HeadRow /\ Within(headTbl'[n])
          /\ IsFiniteSet(DOMAIN headTbl')
      BY <2>1, <2>2, DeletedRows
    <2> QED
      BY <1>1, <1>4, <2>1, <2>3, NextRowInv
  <1>7. CASE TrimStart(c, r)
    <2>1. headTbl' = Updated(r.obj, "since", arg[c].till) /\ pc' = pc /\ tail' = tail
      BY <1>7 DEF TrimStart
    <2>3. /\ \A n \in DOMAIN headTbl' : n \in Nat /\ headTbl'[n] \in HeadRow /\ Within(headTbl'[n])
          /\ IsFiniteSet(DOMAIN headTbl')
      BY <1>2, <1>3, <2>1, UpdatedWithin
    <2> QED
      BY <1>1, <1>4, <2>1, <2>3, NextRowInv
  <1>8. CASE SplitRow(c, r)
    <2> DEFINE T == {[obj |-> r.obj, since |-> arg[c].till, till |-> r.till]}
    <2>1. headTbl' = Updated(r.obj, "till", arg[c].since)
      BY <1>8 DEF SplitRow
    <2>2. pc' = [pc EXCEPT ![c] = "split"] /\ tail' = [tail EXCEPT ![c] = T]
      BY <1>8 DEF SplitRow, Goto
    <2>4. /\ \A n \in DOMAIN headTbl' : n \in Nat /\ headTbl'[n] \in HeadRow /\ Within(headTbl'[n])
          /\ IsFiniteSet(DOMAIN headTbl')
      BY <1>2, <1>3, <2>1, UpdatedWithin
    <2>5. T \in SUBSET HeadRow /\ \A t \in T : Within(t)
      <3>1. PICK k \in keyTbl : k.obj = r.obj /\ k.since <= r.since /\ r.till <= k.till
        BY <1>2 DEF Within
      <3>2. k.since <= arg[c].till
        <4>1. k.since \in Int
          BY TimeAssumption DEF StoreInv, TypeOK, KeyRow
        <4> QED
          BY <1>3, <3>1, <4>1
      <3>3. \A t \in T : Within(t)
        BY <3>1, <3>2 DEF Within
      <3> QED
        BY <1>2, <3>3 DEF HeadRow, SelectedRow
    <2> HIDE DEF T
    <2> QED
      BY <1>1, <2>2, <2>4, <2>5, NextRowInv
  <1> QED
    BY <1>5, <1>6, <1>7, <1>8

LEMMA InsertTailInv ==
  ASSUME StoreInv, NEW c \in Client, InsertTail(c)
  PROVE  StoreInv'
  <1>1. /\ pc[c] = "split" /\ lock = c /\ arg[c].rows \in 1 .. MaxRows
        /\ arg[c].since \in Time /\ arg[c].till \in Time
    BY Holder DEF InsertTail, StoreInv, ClientInv
  <1>2. pc' = [pc EXCEPT ![c] = "rows"] /\ pc'[c] = "rows" /\ pc' \in [Client -> Label]
    BY DEF InsertTail, Goto, StoreInv, TypeOK, Label
  <1>3. PICK t \in tail[c] : headTbl' = Inserted(headTbl, t)
    BY DEF InsertTail
  <1>4. t \in HeadRow /\ Within(t)
    BY DEF StoreInv, LocalsOK, ClientInv
  <1>5. /\ \A n \in DOMAIN headTbl' : n \in Nat /\ headTbl'[n] \in HeadRow /\ Within(headTbl'[n])
        /\ IsFiniteSet(DOMAIN headTbl')
    <2>1. \A n \in DOMAIN headTbl : headTbl[n] \in HeadRow /\ Within(headTbl[n])
      BY DEF StoreInv, TypeOK, HeadWithinValidity, Within
    <2> QED
      BY <1>3, <1>4, <2>1, InsertedRows
  <1>6. TypeOK'
    BY <1>2, <1>5 DEF InsertTail, StoreInv, TypeOK
  <1>7. tail' = [tail EXCEPT ![c] = {}]
    BY DEF InsertTail
  <1>8. LocalsOK' /\ tail'[c] = {}
    BY <1>7 DEF InsertTail, StoreInv, LocalsOK
  <1>9. HeadWithinValidity' /\ KeysNumbered' /\ DatsBounded'
    BY <1>5 DEF InsertTail, StoreInv, HeadWithinValidity, Within, KeysNumbered, DatsBounded
  <1>10. ClientInv(c)'
    <2>1. \A r \in todo'[c] \cup tail'[c] : Within(r)'
      BY <1>8 DEF InsertTail, StoreInv, ClientInv, Within
    <2>2. lock' = c /\ arg' = arg
      BY <1>1 DEF InsertTail
    <2>3. \A r \in todo'[c] : r.since < arg[c].till /\ r.till > arg[c].since
      BY <1>1 DEF InsertTail, StoreInv, ClientInv
    <2> QED
      BY <1>1, <1>2, <2>1, <2>2, <2>3 DEF ClientInv
  <1>11. \A d \in Client : ClientInv(d)'
    <2>1. /\ keyTbl' = keyTbl /\ done' = done /\ todo' = todo
          /\ \A d \in Client : d # c => tail'[d] = tail[d]
      BY <1>7 DEF InsertTail, StoreInv, LocalsOK
    <2> QED
      BY <1>1, <1>2, <1>10, <2>1, OneClientStep
  <1> QED
    BY <1>5, <1>6, <1>8, <1>9, <1>11 DEF StoreInv

LEMMA InsertKeyInv ==
  ASSUME StoreInv, NEW c \in Client, InsertKey(c)
  PROVE  StoreInv' /\ LastObject' = LastObject + 1
  <1> DEFINE new == [obj |-> LastObject + 1, since |-> arg[c].since, till |-> arg[c].till,
                     layer |-> layer[c] + 1, dat |-> dat[c]]
  <1>1. /\ pc[c] = "rows" /\ lock = c /\ arg[c].rows \in 1 .. MaxRows
        /\ arg[c].since \in Time /\ arg[c].till \in Time
    BY Holder DEF InsertKey, StoreInv, ClientInv
  <1>2. pc' = [pc EXCEPT ![c] = "head"] /\ pc'[c] = "head" /\ pc' \in [Client -> Label]
    BY DEF InsertKey, Goto, StoreInv, TypeOK, Label
  <1>3. LastObject \in Nat /\ IsFiniteSet(keyTbl)
    BY FS_CardinalityType DEF StoreInv, KeysNumbered, LastObject
  <1>4. keyTbl' = keyTbl \cup {new} /\ new \in KeyRow
    BY <1>1, <1>3 DEF InsertKey, StoreInv, TypeOK, KeyRow
  <1>5. /\ new.obj = LastObject + 1 /\ new.since = arg[c].since /\ new.till = arg[c].till
    OBVIOUS
  <1> HIDE DEF new
  <1>6. \A k \in keyTbl : k.obj \in Nat /\ k.obj <= LastObject
    BY DEF StoreInv, TypeOK, KeyRow, KeysNumbered, LastObject
  <1>7. \A k \in keyTbl : k.obj # new.obj
    BY <1>3, <1>5, <1>6
  <1>8. IsFiniteSet(keyTbl') /\ LastObject' = LastObject + 1
    <2>1. new \notin keyTbl
      BY <1>7
    <2>2. IsFiniteSet(keyTbl') /\ Cardinality(keyTbl') = Cardinality(keyTbl) + 1
      BY <1>3, <1>4, <2>1, FS_AddElement
    <2> QED
      BY <2>2 DEF LastObject
  <1>9. KeysNumbered'
    <2>1. \A k \in keyTbl' : k.obj <= Cardinality(keyTbl')
      BY <1>3, <1>4, <1>5, <1>6, <1>8 DEF LastObject
    <2>2. \A j, k \in keyTbl' : j.obj = k.obj => j = k
      BY <1>4, <1>7 DEF StoreInv, KeysNumbered
    <2> QED
      BY <1>8, <2>1, <2>2 DEF KeysNumbered
  <1>10. TypeOK'
    BY <1>2, <1>4 DEF InsertKey, locals, StoreInv, TypeOK
  <1>11. LocalsOK' /\ DatsBounded' /\ IsFiniteSet(DOMAIN headTbl') /\ HeadWithinValidity'
    BY <1>4 DEF InsertKey, locals, StoreInv, LocalsOK, DatsBounded, HeadWithinValidity
  <1>12. ClientInv(c)'
    <2>1. \A r \in todo'[c] \cup tail'[c] : Within(r)'
      BY <1>4 DEF InsertKey, locals, StoreInv, ClientInv, Within
    <2>2. lock' = c /\ arg' = arg
      BY <1>1 DEF InsertKey, locals
    <2>3. NewKey(c)'
      BY <1>4, <1>5, <1>8, <2>2 DEF NewKey
    <2> QED
      BY <1>1, <1>2, <2>1, <2>2, <2>3 DEF ClientInv
  <1>13. \A d \in Client : ClientInv(d)'
    <2>1. keyTbl \subseteq keyTbl' /\ done' = done /\ todo' = todo /\ tail' = tail
      BY <1>4 DEF InsertKey, locals
    <2> QED
      BY <1>1, <1>2, <1>12, <2>1, OneClientStep
  <1> QED
    BY <1>8, <1>9, <1>10, <1>11, <1>13 DEF StoreInv

LEMMA InsertHeadInv ==
  ASSUME StoreInv, NEW c \in Client, InsertHead(c)
  PROVE  StoreInv'
  <1> DEFINE new == [obj |-> LastObject, since |-> arg[c].since, till |-> arg[c].till]
  <1>1. /\ pc[c] = "head" /\ lock = c /\ arg[c].rows \in 1 .. MaxRows
        /\ arg[c].since \in Time /\ arg[c].till \in Time /\ NewKey(c)
    BY Holder DEF InsertHead, StoreInv, ClientInv
  <1>2. pc' = [pc EXCEPT ![c] = "unlock"] /\ pc'[c] = "unlock" /\ pc' \in [Client -> Label]
    BY DEF InsertHead, Goto, StoreInv, TypeOK, Label
  <1>3. headTbl' = Inserted(headTbl, new) /\ new \in HeadRow
    BY <1>1, FS_CardinalityType
    DEF InsertHead, StoreInv, KeysNumbered, LastObject, HeadRow
  <1>4. Within(new)
    <2>1. PICK k \in keyTbl :
            k.obj = LastObject /\ k.since = arg[c].since /\ k.till = arg[c].till
      BY <1>1 DEF NewKey
    <2>2. k.since \in Int /\ k.till \in Int
      BY TimeAssumption DEF StoreInv, TypeOK, KeyRow
    <2> QED
      BY <2>1, <2>2 DEF Within
  <1> HIDE DEF new
  <1>5. /\ \A n \in DOMAIN headTbl' : n \in Nat /\ headTbl'[n] \in HeadRow /\ Within(headTbl'[n])
        /\ IsFiniteSet(DOMAIN headTbl')
    <2>1. \A n \in DOMAIN headTbl : headTbl[n] \in HeadRow /\ Within(headTbl[n])
      BY DEF StoreInv, TypeOK, HeadWithinValidity, Within
    <2> QED
      BY <1>3, <1>4, <2>1, InsertedRows
  <1>6. TypeOK'
    BY <1>2, <1>5 DEF InsertHead, locals, StoreInv, TypeOK
  <1>7. LocalsOK' /\ HeadWithinValidity' /\ KeysNumbered' /\ DatsBounded'
    BY <1>5 DEF InsertHead, locals, StoreInv, LocalsOK, HeadWithinValidity, Within,
                KeysNumbered, DatsBounded
  <1>8. ClientInv(c)'
    <2>1. \A r \in todo'[c] \cup tail'[c] : Within(r)'
      BY DEF InsertHead, locals, StoreInv, ClientInv, Within
    <2>2. lock' = c /\ arg' = arg /\ NewKey(c)'
      BY <1>1 DEF InsertHead, locals, NewKey, LastObject
    <2> QED
      BY <1>1, <1>2, <2>1, <2>2 DEF ClientInv
  <1>9. \A d \in Client : ClientInv(d)'
    <2>1. keyTbl' = keyTbl /\ done' = done /\ todo' = todo /\ tail' = tail
      BY DEF InsertHead, locals
    <2> QED
      BY <1>1, <1>2, <1>8, <2>1, OneClientStep
  <1> QED
    BY <1>5, <1>6, <1>7, <1>9 DEF StoreInv

LEMMA EndCallInv ==
  ASSUME StoreInv, NEW c \in Client, pc[c] # "idle", EndCall(c)
  PROVE  StoreInv'
  <1>1. lock = c /\ lock' = Nobody
    BY Holder DEF EndCall
  <1>2. pc' = [pc EXCEPT ![c] = "idle"] /\ pc'[c] = "idle" /\ pc' \in [Client -> Label]
    BY DEF EndCall, Goto, StoreInv, TypeOK, Label
  <1>3. TypeOK'
    <2>1. done' \in [Client -> 0 .. MaxRows]
      BY BoundsAssumption DEF EndCall, StoreInv, TypeOK
    <2> QED
      BY <1>2, <2>1 DEF EndCall, tables, StoreInv, TypeOK
  <1>4. LocalsOK' /\ done'[c] = 0 /\ todo'[c] = {} /\ tail'[c] = {}
    BY DEF EndCall, StoreInv, TypeOK, LocalsOK, AnyArg
  <1>5. HeadWithinValidity' /\ IsFiniteSet(DOMAIN headTbl') /\ KeysNumbered' /\ DatsBounded'
    BY DEF EndCall, tables, StoreInv, HeadWithinValidity, KeysNumbered, DatsBounded
  <1>6. ClientInv(c)'
    BY <1>2, <1>4 DEF ClientInv
  <1>7. \A d \in Client : ClientInv(d)'
    <2>1. keyTbl \subseteq keyTbl'
      BY DEF EndCall, tables
    <2>2. \A d \in Client : d # c => done'[d] = done[d] /\ todo'[d] = todo[d] /\ tail'[d] = tail[d]
      BY DEF EndCall, StoreInv, TypeOK, LocalsOK
    <2> QED
      BY <1>1, <1>2, <1>6, <2>1, <2>2, OneClientStep
  <1> QED
    BY <1>3, <1>4, <1>5, <1>7 DEF StoreInv

LEMMA FailInv ==
  ASSUME StoreInv, NEW c \in Client, Fail(c)
  PROVE  StoreInv'
  <1>1. lock = c /\ lock' = c
    BY Holder DEF Fail
  <1>2. pc' = [pc EXCEPT ![c] = "failed"] /\ pc'[c] = "failed" /\ pc' \in [Client -> Label]
    BY DEF Fail, Goto, StoreInv, TypeOK, Label
  <1>3. TypeOK'
    <2>1. faults' \in 0 .. MaxFaults
      BY BoundsAssumption DEF Fail, StoreInv, TypeOK
    <2> QED
      BY <1>2, <2>1 DEF Fail, tables, locals, StoreInv, TypeOK
  <1>4. /\ LocalsOK' /\ HeadWithinValidity' /\ IsFiniteSet(DOMAIN headTbl')
        /\ KeysNumbered' /\ DatsBounded'
    BY DEF Fail, tables, locals, StoreInv, LocalsOK, HeadWithinValidity, KeysNumbered,
           DatsBounded
  <1>5. ClientInv(c)'
    BY <1>1, <1>2 DEF Fail, tables, locals, StoreInv, ClientInv, Within
  <1>6. \A d \in Client : ClientInv(d)'
    <2>1. keyTbl' = keyTbl /\ done' = done /\ todo' = todo /\ tail' = tail
      BY DEF Fail, tables, locals
    <2> QED
      BY <1>1, <1>2, <1>5, <2>1, OneClientStep
  <1> QED
    BY <1>3, <1>4, <1>6 DEF StoreInv

LEMMA StepInv == StoreInv /\ [Next]_vars => StoreInv'
  <1> SUFFICES ASSUME StoreInv, [Next]_vars
               PROVE  StoreInv'
    OBVIOUS
  <1>1. ASSUME NEW c \in Client, UnlockTables(c) \/ Close(c)
        PROVE  StoreInv'
    BY <1>1, EndCallInv DEF UnlockTables, Close
  <1>2. CASE UNCHANGED vars
    <2>1. TypeOK' /\ LocalsOK' /\ HeadWithinValidity' /\ KeysNumbered' /\ DatsBounded'
      BY <1>2 DEF vars, tables, locals, StoreInv, TypeOK, LocalsOK, HeadWithinValidity,
                  KeysNumbered, DatsBounded
    <2>2. \A c \in Client : ClientInv(c)'
      BY <1>2 DEF vars, tables, locals, StoreInv, ClientInv, Within, NewKey, LastObject
    <2> QED
      BY <1>2, <2>1, <2>2 DEF vars, tables, StoreInv
  <1> QED
    BY <1>1, <1>2, StoreVerInv, SelectMaxDatInv, InsertDataInv, SelectOverlapInv, LoopInv,
       InsertTailInv, InsertKeyInv, InsertHeadInv, FailInv
    DEF Next, Finished

LEMMA InitInv == Init => StoreInv
  <1> SUFFICES ASSUME Init
               PROVE  StoreInv
    OBVIOUS
  <1>1. DOMAIN headTbl = {} /\ keyTbl = {} /\ dataTbl = {}
    BY DEF Init
  <1>2. TypeOK
    BY <1>1, BoundsAssumption DEF Init, TypeOK, Label
  <1>3. LocalsOK
    BY DEF Init, LocalsOK, AnyArg
  <1>4. HeadWithinValidity /\ IsFiniteSet(DOMAIN headTbl) /\ KeysNumbered /\ DatsBounded
    BY <1>1, FS_EmptySet DEF HeadWithinValidity, KeysNumbered, DatsBounded
  <1>5. \A c \in Client : ClientInv(c)
    BY DEF Init, ClientInv
  <1> QED
    BY <1>2, <1>3, <1>4, <1>5 DEF StoreInv

LEMMA StoreInvHolds == Spec => []StoreInv
  BY InitInv, StepInv, PTL DEF Spec

(* Tables and locals keep their types, and every row of HEAD lies within the
   validity of its object, also the pieces that an UPDATE by obj_id changes
   along with another one, and after any failure: for any clients and tables. *)
THEOREM PiecesStayWithin == Spec => []VersionInv
  <1>1. StoreInv => VersionInv
    BY DEF StoreInv, VersionInv
  <1> QED
    BY <1>1, StoreInvHolds, PTL
-----------------------------------------------------------------------------
(* The newest version. *)
LEMMA OneClientNewest ==
  ASSUME StoreInv, NewestInv, NEW c \in Client, lock \in {c, Nobody},
         NEW label, pc' = [pc EXCEPT ![c] = label], faults' = faults,
         faults = 0 => lock' = c \/ NewestIsInHead', faults = 0 => ClientNewest(c)'
  PROVE  NewestInv'
  <1> SUFFICES ASSUME faults = 0
               PROVE  NewestIsInHead' /\ \A d \in Client : ClientNewest(d)'
    BY DEF NewestInv
  <1>1. NewestIsInHead'
    BY NobodyAssumption DEF NewestIsInHead
  <1>2. ASSUME NEW d \in Client, d # c
        PROVE  ClientNewest(d)'
    <2>1. pc'[d] = "idle"
      BY <1>2, OthersIdle DEF StoreInv, TypeOK
    <2> QED
      BY <2>1 DEF ClientNewest
  <1> QED
    BY <1>1, <1>2

(* Nothing is said of HEAD before the overlap query. *)
LEMMA BeforeQuery ==
  ASSUME StoreInv, NewestInv, NEW c \in Client, lock \in {c, Nobody}, lock' = c,
         NEW label \in {"max", "data", "select"}, pc' = [pc EXCEPT ![c] = label],
         faults' = faults
  PROVE  NewestInv'
  <1>1. pc'[c] = label
    BY DEF StoreInv, TypeOK
  <1>2. ClientNewest(c)'
    BY <1>1 DEF ClientNewest
  <1> QED
    BY <1>2, OneClientNewest

LEMMA SelectOverlapNewest ==
  ASSUME StoreInv, NewestInv, NEW c \in Client, SelectOverlap(c)
  PROVE  NewestInv'
  <1>1. lock = c /\ lock' = c /\ arg[c].since \in Time /\ arg[c].till \in Time
    BY Holder DEF SelectOverlap, StoreInv, ClientInv
  <1>2. pc' = [pc EXCEPT ![c] = "rows"] /\ pc'[c] = "rows" /\ faults' = faults
    BY DEF SelectOverlap, Goto, StoreInv, TypeOK
  <1>3. todo'[c] = Overlapping(arg[c])
    BY DEF SelectOverlap, StoreInv, LocalsOK
  <1>4. ASSUME NEW n \in DOMAIN headTbl, NEW p \in Time,
               Covers(arg[c], p), Covers(headTbl[n], p)
        PROVE  \E r \in Overlapping(arg[c]) : r.obj = headTbl[n].obj
    <2> DEFINE r == [place |-> n, obj |-> headTbl[n].obj, since |-> headTbl[n].since,
                     till |-> headTbl[n].till]
    <2>1. headTbl[n].since \in Int /\ headTbl[n].till \in Int /\ p \in Int
          /\ arg[c].since \in Int /\ arg[c].till \in Int
      BY <1>1, TimeAssumption DEF StoreInv, TypeOK, HeadRow
    <2>2. headTbl[n].since < arg[c].till /\ headTbl[n].till > arg[c].since
      BY <1>4, <2>1 DEF Covers
    <2>3. headTbl[n].obj \in Objects
      BY DEF StoreInv, HeadWithinValidity, Objects
    <2>4. r \in Overlapping(arg[c]) /\ r.obj = headTbl[n].obj
      BY <2>2, <2>3 DEF Overlapping
    <2> QED
      BY <2>4
  <1>5. RoomFound(c)'
    BY <1>3, <1>4 DEF SelectOverlap, tables, RoomFound, Covers
  <1>6. ClientNewest(c)'
    BY <1>2, <1>5 DEF ClientNewest
  <1> QED
    BY <1>1, <1>2, <1>6, OneClientNewest

(* Each statement of the loop leaves no piece of its object where the new
   version will be, and makes no piece longer on the way of another. *)
LEMMA LoopNewest ==
  ASSUME StoreInv, NewestInv, NEW c \in Client, NEW r \in todo[c],
         TrimEnd(c, r) \/ Swallow(c, r) \/ TrimStart(c, r) \/ SplitRow(c, r)
  PROVE  NewestInv'
  <1>1. NextRow(c, r)
    BY DEF TrimEnd, Swallow, TrimStart, SplitRow
  <1>2. /\ pc[c] = "rows" /\ lock = c /\ r \in SelectedRow
        /\ arg[c].since \in Time /\ arg[c].till \in Time
    BY <1>1, NextRowFacts
  <1>3. /\ lock' = c /\ faults' = faults /\ arg' = arg /\ todo'[c] = todo[c] \ {r}
        /\ pc' = [pc EXCEPT ![c] = pc'[c]] /\ pc'[c] \in {"rows", "split"}
    BY <1>1, <1>2
    DEF NextRow, TrimEnd, Swallow, TrimStart, SplitRow, Goto, StoreInv, TypeOK, LocalsOK
  <1>4. /\ DOMAIN headTbl' \subseteq DOMAIN headTbl
        /\ \A n \in DOMAIN headTbl' :
             /\ headTbl[n].obj # r.obj => headTbl'[n] = headTbl[n]
             /\ headTbl[n].obj = r.obj =>
                  headTbl'[n].till = arg[c].since \/ headTbl'[n].since = arg[c].till
    <2>1. CASE headTbl' = Updated(r.obj, "till", arg[c].since)
      BY <1>2, <2>1, UpdatedRows
    <2>2. CASE headTbl' = Updated(r.obj, "since", arg[c].till)
      BY <1>2, <2>2, UpdatedRows
    <2>3. CASE headTbl' = Deleted(r.obj)
      BY <2>3, DeletedRows
    <2> QED
      BY <2>1, <2>2, <2>3 DEF TrimEnd, Swallow, TrimStart, SplitRow
  <1>5. ASSUME faults = 0
        PROVE  RoomFound(c)'
    <2>1. RoomFound(c)
      BY <1>2, <1>5 DEF NewestInv, ClientNewest
    <2>2. ASSUME NEW n \in DOMAIN headTbl', NEW p \in Time,
                 Covers(arg[c], p), Covers(headTbl'[n], p)
          PROVE  \E s \in todo'[c] : s.obj = headTbl'[n].obj
      <3>1. headTbl[n].obj # r.obj
        <4>1. arg[c].since \in Int /\ arg[c].till \in Int /\ p \in Int
          BY <1>2, TimeAssumption
        <4>2. headTbl'[n].till # arg[c].since /\ headTbl'[n].since # arg[c].till
          BY <2>2, <4>1 DEF Covers
        <4> QED
          BY <1>4, <4>2
      <3>2. n \in DOMAIN headTbl /\ headTbl'[n] = headTbl[n]
        BY <1>4, <3>1
      <3>3. PICK s \in todo[c] : s.obj = headTbl[n].obj
        BY <2>1, <2>2, <3>2 DEF RoomFound
      <3> QED
        BY <1>3, <3>1, <3>2, <3>3
    <2> QED
      BY <1>3, <2>2 DEF RoomFound, Covers
  <1>6. pc'[c] = "split" => TailIsOutside(c)'
    <2> SUFFICES ASSUME pc'[c] = "split", NEW t \in tail'[c], NEW p \in Time,
                        Covers(arg[c], p), Covers(t, p)
                 PROVE  FALSE
      BY <1>3 DEF TailIsOutside, Covers
    <2>1. t.since = arg[c].till
      BY <1>2 DEF TrimEnd, Swallow, TrimStart, SplitRow, StoreInv, TypeOK, LocalsOK
    <2>2. arg[c].till \in Int /\ p \in Int
      BY <1>2, TimeAssumption
    <2> QED
      BY <2>1, <2>2 DEF Covers
  <1>7. faults = 0 => ClientNewest(c)'
    BY <1>3, <1>5, <1>6 DEF ClientNewest
  <1> QED
    BY <1>2, <1>3, <1>7, OneClientNewest

LEMMA InsertTailNewest ==
  ASSUME StoreInv, NewestInv, NEW c \in Client, InsertTail(c)
  PROVE  NewestInv'
  <1>1. pc[c] = "split" /\ lock = c /\ lock' = c /\ faults' = faults /\ arg' = arg /\ todo' = todo
    BY Holder DEF InsertTail
  <1>2. pc' = [pc EXCEPT ![c] = "rows"] /\ pc'[c] = "rows"
    BY DEF InsertTail, Goto, StoreInv, TypeOK
  <1>3. PICK t \in tail[c] : headTbl' = Inserted(headTbl, t)
    BY DEF InsertTail
  <1>4. \A n \in DOMAIN headTbl' :
          headTbl'[n] = t \/ (n \in DOMAIN headTbl /\ headTbl'[n] = headTbl[n])
    BY <1>3, InsertedRows
  <1>5. ASSUME faults = 0
        PROVE  RoomFound(c)'
    <2>1. RoomFound(c) /\ TailIsOutside(c)
      BY <1>1, <1>5 DEF NewestInv, ClientNewest
    <2>2. ASSUME NEW n \in DOMAIN headTbl', NEW p \in Time,
                 Covers(arg[c], p), Covers(headTbl'[n], p)
          PROVE  \E s \in todo[c] : s.obj = headTbl'[n].obj
      <3>1. headTbl'[n] # t
        BY <2>1, <2>2 DEF TailIsOutside
      <3> QED
        BY <1>4, <2>1, <2>2, <3>1 DEF RoomFound
    <2> QED
      BY <1>1, <2>2 DEF RoomFound, Covers
  <1>6. faults = 0 => ClientNewest(c)'
    BY <1>2, <1>5 DEF ClientNewest
  <1> QED
    BY <1>1, <1>2, <1>6, OneClientNewest

LEMMA InsertKeyNewest ==
  ASSUME StoreInv, NewestInv, NEW c \in Client, InsertKey(c)
  PROVE  NewestInv'
  <1>1. /\ pc[c] = "rows" /\ lock = c /\ lock' = c /\ faults' = faults /\ arg' = arg
        /\ todo' = todo /\ todo[c] = {} /\ headTbl' = headTbl
    BY Holder DEF InsertKey, locals
  <1>2. pc' = [pc EXCEPT ![c] = "head"] /\ pc'[c] = "head"
    BY DEF InsertKey, Goto, StoreInv, TypeOK
  <1>3. faults = 0 => RoomFound(c)'
    BY <1>1 DEF NewestInv, ClientNewest, RoomFound, Covers
  <1>4. faults = 0 => ClientNewest(c)'
    BY <1>1, <1>2, <1>3 DEF ClientNewest
  <1> QED
    BY <1>1, <1>2, <1>4, OneClientNewest

LEMMA InsertHeadNewest ==
  ASSUME StoreInv, NewestInv, NEW c \in Client, InsertHead(c)
  PROVE  NewestInv'
  <1> DEFINE new == [obj |-> LastObject, since |-> arg[c].since, till |-> arg[c].till]
  <1>1. /\ pc[c] = "head" /\ lock = c /\ lock' = c /\ faults' = faults /\ arg' = arg
        /\ keyTbl' = keyTbl /\ headTbl' = Inserted(headTbl, new)
    BY Holder DEF InsertHead, locals
  <1>2. pc' = [pc EXCEPT ![c] = "unlock"] /\ pc'[c] = "unlock"
    BY DEF InsertHead, Goto, StoreInv, TypeOK
  <1>3. new.obj = LastObject /\ \A p : Covers(new, p) <=> Covers(arg[c], p)
    BY DEF Covers
  <1> HIDE DEF new
  <1>4. /\ \A n \in DOMAIN headTbl' :
             headTbl'[n] = new \/ (n \in DOMAIN headTbl /\ headTbl'[n] = headTbl[n])
        /\ \E n \in DOMAIN headTbl' : headTbl'[n] = new
    BY <1>1, InsertedRows
  <1>5. ASSUME faults = 0, NEW p \in Time, Covers(arg[c], p)
        PROVE  HeadAt(p)' = {LastObject}
    <2>1. \A n \in DOMAIN headTbl : ~Covers(headTbl[n], p)
      BY <1>1, <1>5 DEF NewestInv, ClientNewest, RoomFound
    <2>2. \A n \in DOMAIN headTbl' : Covers(headTbl'[n], p) <=> headTbl'[n] = new
      BY <1>3, <1>4, <1>5, <2>1
    <2>3. HeadAt(p)' = {headTbl'[n].obj : n \in {m \in DOMAIN headTbl' : Covers(headTbl'[m], p)}}
      BY DEF HeadAt, Covers
    <2> QED
      BY <1>3, <1>4, <2>2, <2>3
  <1>6. faults = 0 => ClientNewest(c)'
    BY <1>1, <1>2, <1>5 DEF ClientNewest, Covers, LastObject
  <1> QED
    BY <1>1, <1>2, <1>6, OneClientNewest

LEMMA UnlockTablesNewest ==
  ASSUME StoreInv, NewestInv, NEW c \in Client, UnlockTables(c)
  PROVE  NewestInv'
  <1>1. /\ pc[c] = "unlock" /\ lock = c /\ faults' = faults
        /\ headTbl' = headTbl /\ keyTbl' = keyTbl
    BY Holder DEF UnlockTables, EndCall, tables
  <1>2. pc' = [pc EXCEPT ![c] = "idle"] /\ pc'[c] = "idle"
    BY DEF UnlockTables, EndCall, Goto, StoreInv, TypeOK
  <1>3. ASSUME faults = 0, NEW p \in Time, LastObject \in NewestAt(p)
        PROVE  HeadAt(p) = {LastObject}
    <2>1. PICK k \in keyTbl : k.obj = LastObject /\ Covers(k, p)
      BY <1>3 DEF NewestAt
    <2>2. PICK j \in keyTbl : j.obj = LastObject /\ j.since = arg[c].since /\ j.till = arg[c].till
      BY <1>1 DEF StoreInv, ClientInv, NewKey
    <2>3. Covers(arg[c], p)
      BY <2>1, <2>2 DEF StoreInv, KeysNumbered, Covers
    <2> QED
      BY <1>1, <1>3, <2>3 DEF NewestInv, ClientNewest
  <1>4. faults = 0 => NewestIsInHead'
    BY <1>1, <1>3 DEF NewestIsInHead, HeadAt, NewestAt, LastObject, Covers
  <1>5. ClientNewest(c)'
    BY <1>2 DEF ClientNewest
  <1> QED
    BY <1>1, <1>2, <1>4, <1>5, OneClientNewest

LEMMA StepNewest ==
  ASSUME StoreInv, NewestInv, [Next]_vars
  PROVE  NewestInv'
  <1>1. ASSUME NEW c \in Client, NEW i \in Interval, NEW n \in 1 .. MaxRows, StoreVer(c, i, n)
        PROVE  NewestInv'
    BY <1>1, BeforeQuery DEF StoreVer, Goto
  <1>2. ASSUME NEW c \in Client, SelectMaxDat(c)
        PROVE  NewestInv'
    <2>1. lock = c
      BY <1>2, Holder DEF SelectMaxDat
    <2> QED
      BY <1>2, <2>1, BeforeQuery DEF SelectMaxDat, Goto
  <1>3. ASSUME NEW c \in Client, InsertData(c)
        PROVE  NewestInv'
    <2>1. lock = c /\ lock' = c /\ faults' = faults
      BY <1>3, Holder DEF InsertData
    <2>2. pc' = [pc EXCEPT ![c] = "select"] \/ pc' = [pc EXCEPT ![c] = "data"]
      BY <1>3 DEF InsertData, Goto
    <2> QED
      BY <2>1, <2>2, BeforeQuery
  <1>4. ASSUME NEW c \in Client, Fail(c)
        PROVE  NewestInv'
    BY <1>4, BoundsAssumption DEF Fail, StoreInv, TypeOK, NewestInv
  <1>5. ASSUME NEW c \in Client, Close(c)
        PROVE  NewestInv'
    BY <1>5 DEF Close, EndCall, NewestInv, ClientNewest
  <1>6. CASE UNCHANGED vars
    <2>1. NewestIsInHead => NewestIsInHead'
      BY <1>6 DEF vars, tables, NewestIsInHead, HeadAt, NewestAt, LastObject, Covers
    <2>2. \A c \in Client : ClientNewest(c) => ClientNewest(c)'
      BY <1>6 DEF vars, tables, locals, ClientNewest, RoomFound, TailIsOutside, HeadAt,
                  LastObject, Covers
    <2> QED
      BY <1>6, <2>1, <2>2 DEF vars, NewestInv
  <1> QED
    BY <1>1, <1>2, <1>3, <1>4, <1>5, <1>6, SelectOverlapNewest, LoopNewest, InsertTailNewest,
       InsertKeyNewest, InsertHeadNewest, UnlockTablesNewest
    DEF Next, Finished

(* As long as nothing fails, HEAD holds the version stored last, and no other,
   on the whole of its validity: for any clients, tables and number of calls,
   in whatever order the overlap query returns the pieces. *)
THEOREM NewestWins == Spec => []NewestIsInHead
  <1>1. Init => NewestInv
    <2> SUFFICES ASSUME Init
                 PROVE  NewestInv
      OBVIOUS
    <2>1. \A p \in Time : NewestAt(p) = {}
      BY DEF Init, NewestAt
    <2> QED
      BY <2>1 DEF Init, NewestInv, NewestIsInHead, ClientNewest
  <1>2. Spec => []NewestInv
    BY <1>1, StoreInvHolds, StepNewest, PTL DEF Spec
  <1>3. Spec => [](faults = 0 => NewestIsInHead)
    BY <1>2, PTL DEF NewestInv
  <1>4. (faults = 0 => NewestIsInHead) => NewestIsInHead
    BY DEF NewestIsInHead
  <1> QED
    BY <1>3, <1>4, PTL

-----------------------------------------------------------------------------
(* Queries return whole versions. *)

(* The rows of one version are those of one table, and there is no other row
   with its number or of its call. *)
Whole(dat0) ==
  \E n \in 1 .. MaxRows :
    /\ \A d \in dataTbl : d.dat = dat0 => d.row \in 1 .. n
    /\ \A m \in 1 .. n : \E d \in dataTbl : d.dat = dat0 /\ d.row = m

(* What a client has inserted of its version: its first rows. *)
OwnRows(c) ==
  /\ \A d \in dataTbl : d.dat = dat[c] <=> d.call = arg[c].call
  /\ \A d \in dataTbl : d.dat = dat[c] => d.row \in 1 .. done[c]
  /\ \A m \in 1 .. done[c] : \E d \in dataTbl : d.dat = dat[c] /\ d.row = m

ClientData(c) ==
  /\ pc[c] # "idle" => arg[c].call <= calls
  /\ pc[c] = "max" => \A d \in dataTbl : d.call # arg[c].call
  /\ pc[c] = "data" => \A k \in keyTbl : k.dat # dat[c]
  /\ pc[c] \in {"data", "select", "rows", "split"} => OwnRows(c)
  /\ pc[c] \in {"select", "rows", "split"} => done[c] = arg[c].rows

(* Numbers of versions are numbers of calls, and an object has a whole
   version: a failed call leaves rows that no object has. *)
DataInv ==
  /\ \A d \in dataTbl : d.call <= calls
  /\ \A d, e \in dataTbl : d.dat = e.dat <=> d.call = e.call
  /\ \A k \in keyTbl : Whole(k.dat)
  /\ \A c \in Client : ClientData(c)
-----------------------------------------------------------------------------
(* The others are idle, and nothing is said of an idle client. *)
LEMMA OneClientData ==
  ASSUME StoreInv, NEW c \in Client, lock \in {c, Nobody},
         NEW label, pc' = [pc EXCEPT ![c] = label], ClientData(c)'
  PROVE  \A d \in Client : ClientData(d)'
  <1> SUFFICES ASSUME NEW d \in Client, d # c
               PROVE  ClientData(d)'
    OBVIOUS
  <1>1. pc'[d] = "idle"
    BY OthersIdle DEF StoreInv, TypeOK
  <1> QED
    BY <1>1 DEF ClientData

LEMMA StoreVerData ==
  ASSUME StoreInv, DataInv, NEW c \in Client, NEW i \in Interval, NEW n \in 1 .. MaxRows,
         StoreVer(c, i, n)
  PROVE  DataInv'
  <1>1. /\ lock = Nobody /\ calls' = calls + 1 /\ dataTbl' = dataTbl /\ keyTbl' = keyTbl
        /\ pc' = [pc EXCEPT ![c] = "max"] /\ pc'[c] = "max" /\ arg'[c].call = calls + 1
    BY DEF StoreVer, tables, Goto, StoreInv, TypeOK, LocalsOK
  <1>2. calls \in Nat /\ \A d \in dataTbl : d.call \in Nat /\ d.call <= calls
    BY BoundsAssumption DEF StoreInv, TypeOK, DataRow, DataInv
  <1>3. \A d \in dataTbl : d.call <= calls + 1 /\ d.call # calls + 1
    BY <1>2
  <1>4. ClientData(c)'
    BY <1>1, <1>2, <1>3 DEF ClientData
  <1>5. \A d \in Client : ClientData(d)'
    BY <1>1, <1>4, OneClientData
  <1> QED
    BY <1>1, <1>3, <1>5 DEF DataInv, Whole

(* The number is new: no row has it, and no object, whose rows are there. *)
LEMMA SelectMaxDatData ==
  ASSUME StoreInv, DataInv, NEW c \in Client, SelectMaxDat(c)
  PROVE  DataInv'
  <1>1. PICK new \in Nat : dat' = [dat EXCEPT ![c] = new] /\ \A d \in dataTbl : d.dat < new
    BY NewDat
  <1>2. /\ pc[c] = "max" /\ lock = c /\ done[c] = 0 /\ arg' = arg /\ done' = done /\ calls' = calls
        /\ dataTbl' = dataTbl /\ keyTbl' = keyTbl
        /\ pc' = [pc EXCEPT ![c] = "data"] /\ pc'[c] = "data" /\ dat'[c] = new
    BY <1>1, Holder DEF SelectMaxDat, Goto, tables, StoreInv, TypeOK, ClientInv
  <1>3. \A d \in dataTbl : d.dat # new /\ d.call # arg[c].call
    <2>1. \A d \in dataTbl : d.dat \in Nat
      BY DEF StoreInv, TypeOK, DataRow
    <2>2. \A d \in dataTbl : d.call # arg[c].call
      BY <1>2 DEF DataInv, ClientData
    <2> QED
      BY <1>1, <2>1, <2>2
  <1>4. ASSUME NEW k \in keyTbl
        PROVE  k.dat # new
    <2>1. PICK n \in 1 .. MaxRows : \A m \in 1 .. n : \E d \in dataTbl : d.dat = k.dat /\ d.row = m
      BY DEF DataInv, Whole
    <2>2. 1 \in 1 .. n
      BY BoundsAssumption
    <2>3. \E d \in dataTbl : d.dat = k.dat
      BY <2>1, <2>2
    <2> QED
      BY <1>3, <2>3
  <1>5. OwnRows(c)'
    BY <1>2, <1>3 DEF OwnRows
  <1>6. ClientData(c)'
    BY <1>2, <1>4, <1>5 DEF DataInv, ClientData
  <1>7. \A d \in Client : ClientData(d)'
    BY <1>2, <1>6, OneClientData
  <1> QED
    BY <1>2, <1>7 DEF DataInv, Whole

LEMMA InsertDataData ==
  ASSUME StoreInv, DataInv, NEW c \in Client, InsertData(c)
  PROVE  DataInv'
  <1> DEFINE new == [dat |-> dat[c], call |-> arg[c].call, row |-> done[c] + 1]
             label == IF done[c] + 1 = arg[c].rows THEN "select" ELSE "data"
  <1>1. /\ pc[c] = "data" /\ lock = c /\ arg' = arg /\ dat' = dat /\ calls' = calls
        /\ keyTbl' = keyTbl /\ dataTbl' = dataTbl \cup {new}
        /\ pc' = [pc EXCEPT ![c] = label] /\ pc'[c] = label
        /\ done[c] \in Nat /\ done'[c] = done[c] + 1
    BY Holder, BoundsAssumption DEF InsertData, Goto, StoreInv, TypeOK
  <1>2. /\ OwnRows(c) /\ arg[c].call <= calls /\ \A k \in keyTbl : k.dat # dat[c]
    BY <1>1 DEF DataInv, ClientData
  <1>3. new.dat = dat[c] /\ new.call = arg[c].call /\ new.row = done[c] + 1
    OBVIOUS
  <1> HIDE DEF new
  <1>4. \A d \in dataTbl' : d.call <= calls
    BY <1>1, <1>2, <1>3 DEF DataInv
  <1>5. \A d, e \in dataTbl' : d.dat = e.dat <=> d.call = e.call
    BY <1>1, <1>2, <1>3 DEF DataInv, OwnRows
  <1>6. ASSUME NEW k \in keyTbl
        PROVE  Whole(k.dat)'
    <2>1. PICK n \in 1 .. MaxRows :
            /\ \A d \in dataTbl : d.dat = k.dat => d.row \in 1 .. n
            /\ \A m \in 1 .. n : \E d \in dataTbl : d.dat = k.dat /\ d.row = m
      BY DEF DataInv, Whole
    <2>2. new.dat # k.dat
      BY <1>2, <1>3
    <2>3. /\ \A d \in dataTbl' : d.dat = k.dat => d.row \in 1 .. n
          /\ \A m \in 1 .. n : \E d \in dataTbl' : d.dat = k.dat /\ d.row = m
      BY <1>1, <2>1, <2>2
    <2> QED
      BY <2>3 DEF Whole
  <1>7. OwnRows(c)'
    <2>1. \A m : m \in 1 .. done[c] + 1 <=> m \in 1 .. done[c] \/ m = done[c] + 1
      BY <1>1
    <2>2. \A d \in dataTbl' : d.dat = dat[c] <=> d.call = arg[c].call
      BY <1>1, <1>2, <1>3 DEF OwnRows
    <2>3. \A d \in dataTbl' : d.dat = dat[c] => d.row \in 1 .. done[c] + 1
      BY <1>1, <1>2, <1>3, <2>1 DEF OwnRows
    <2>4. \A m \in 1 .. done[c] + 1 : \E d \in dataTbl' : d.dat = dat[c] /\ d.row = m
      BY <1>1, <1>2, <1>3, <2>1 DEF OwnRows
    <2> QED
      BY <1>1, <2>2, <2>3, <2>4 DEF OwnRows
  <1>8. ClientData(c)'
    BY <1>1, <1>2, <1>7 DEF ClientData
  <1>9. \A d \in Client : ClientData(d)'
    BY <1>1, <1>8, OneClientData
  <1> QED
    BY <1>1, <1>4, <1>5, <1>6, <1>9 DEF DataInv

(* A key row is inserted when the version is whole. *)
LEMMA InsertKeyData ==
  ASSUME StoreInv, DataInv, NEW c \in Client, InsertKey(c)
  PROVE  DataInv'
  <1> DEFINE new == [obj |-> LastObject + 1, since |-> arg[c].since, till |-> arg[c].till,
                     layer |-> layer[c] + 1, dat |-> dat[c]]
  <1>1. /\ pc[c] = "rows" /\ lock = c /\ arg' = arg /\ calls' = calls /\ dataTbl' = dataTbl
        /\ keyTbl' = keyTbl \cup {new} /\ new.dat = dat[c]
        /\ pc' = [pc EXCEPT ![c] = "head"] /\ pc'[c] = "head"
    BY Holder DEF InsertKey, locals, Goto, StoreInv, TypeOK
  <1>2. /\ OwnRows(c) /\ done[c] = arg[c].rows /\ arg[c].rows \in 1 .. MaxRows
        /\ arg[c].call <= calls
    BY <1>1 DEF DataInv, ClientData, StoreInv, ClientInv
  <1>3. Whole(dat[c])
    BY <1>2 DEF OwnRows, Whole
  <1> HIDE DEF new
  <1>4. \A k \in keyTbl' : Whole(k.dat)'
    BY <1>1, <1>3 DEF DataInv, Whole
  <1>5. ClientData(c)'
    BY <1>1, <1>2 DEF ClientData
  <1>6. \A d \in Client : ClientData(d)'
    BY <1>1, <1>5, OneClientData
  <1> QED
    BY <1>1, <1>4, <1>6 DEF DataInv

(* No other statement changes the data or the objects. *)
LEMMA QuietData ==
  ASSUME StoreInv, DataInv, NEW c \in Client, pc[c] # "idle",
         dataTbl' = dataTbl, keyTbl' = keyTbl, arg' = arg, dat' = dat, done' = done,
         calls' = calls, NEW label, pc' = [pc EXCEPT ![c] = label],
         \/ label \in {"rows", "split"} /\ pc[c] \in {"select", "rows", "split"}
         \/ label \in {"head", "unlock", "failed"}
  PROVE  DataInv'
  <1>1. lock = c /\ pc'[c] = label
    BY Holder DEF StoreInv, TypeOK
  <1>2. ClientData(c)'
    BY <1>1 DEF DataInv, ClientData, OwnRows
  <1>3. \A d \in Client : ClientData(d)'
    BY <1>1, <1>2, OneClientData
  <1> QED
    BY <1>3 DEF DataInv, Whole

LEMMA EndCallData ==
  ASSUME StoreInv, DataInv, NEW c \in Client, pc[c] # "idle", EndCall(c)
  PROVE  DataInv'
  <1>1. /\ lock = c /\ dataTbl' = dataTbl /\ keyTbl' = keyTbl /\ calls' = calls
        /\ pc' = [pc EXCEPT ![c] = "idle"] /\ pc'[c] = "idle"
    BY Holder DEF EndCall, tables, Goto, StoreInv, TypeOK
  <1>2. ClientData(c)'
    BY <1>1 DEF ClientData
  <1>3. \A d \in Client : ClientData(d)'
    BY <1>1, <1>2, OneClientData
  <1> QED
    BY <1>1, <1>3 DEF DataInv, Whole

LEMMA StepData == StoreInv /\ DataInv /\ [Next]_vars => DataInv'
  <1> SUFFICES ASSUME StoreInv, DataInv, [Next]_vars
               PROVE  DataInv'
    OBVIOUS
  <1>1. ASSUME NEW c \in Client, SelectOverlap(c)
        PROVE  DataInv'
    BY <1>1, QuietData DEF SelectOverlap, tables, Goto
  <1>2. ASSUME NEW c \in Client, NEW r \in todo[c],
               TrimEnd(c, r) \/ Swallow(c, r) \/ TrimStart(c, r)
        PROVE  DataInv'
    <2>1. /\ pc[c] = "rows" /\ dataTbl' = dataTbl /\ keyTbl' = keyTbl /\ arg' = arg
          /\ dat' = dat /\ done' = done /\ calls' = calls /\ pc' = pc
      BY <1>2 DEF TrimEnd, Swallow, TrimStart, NextRow
    <2>2. pc' = [pc EXCEPT ![c] = "rows"]
      BY <2>1 DEF StoreInv, TypeOK
    <2> QED
      BY <2>1, <2>2, QuietData
  <1>3. ASSUME NEW c \in Client, NEW r \in todo[c], SplitRow(c, r)
        PROVE  DataInv'
    BY <1>3, QuietData DEF SplitRow, NextRow, Goto
  <1>4. ASSUME NEW c \in Client, InsertTail(c)
        PROVE  DataInv'
    BY <1>4, QuietData DEF InsertTail, Goto
  <1>5. ASSUME NEW c \in Client, InsertHead(c)
        PROVE  DataInv'
    BY <1>5, QuietData DEF InsertHead, locals, Goto
  <1>6. ASSUME NEW c \in Client, Fail(c)
        PROVE  DataInv'
    BY <1>6, QuietData DEF Fail, tables, locals, Goto
  <1>7. ASSUME NEW c \in Client, UnlockTables(c) \/ Close(c)
        PROVE  DataInv'
    BY <1>7, EndCallData DEF UnlockTables, Close
  <1>8. CASE UNCHANGED vars
    BY <1>8 DEF vars, tables, locals, DataInv, ClientData, OwnRows, Whole
  <1> QED
    BY <1>1, <1>2, <1>3, <1>4, <1>5, <1>6, <1>7, <1>8,
       StoreVerData, SelectMaxDatData, InsertDataData, InsertKeyData
    DEF Next, Finished

LEMMA DataInvHolds == Spec => []DataInv
  <1>1. Init => DataInv
    BY DEF Init, DataInv, ClientData
  <1> QED
    BY <1>1, StoreInvHolds, StepData, PTL DEF Spec
-----------------------------------------------------------------------------
(* What is found for one piece is the version of its object. *)
LEMMA PieceFound ==
  ASSUME NEW pieces, NEW n, NEW f \in PieceRows(pieces, n)
  PROVE  /\ f.place = n /\ f.since = pieces[n].since /\ f.till = pieces[n].till
         /\ \E k \in keyTbl, d \in dataTbl :
              /\ k.obj = pieces[n].obj /\ d.dat = k.dat
              /\ f.dat = d.dat /\ f.call = d.call /\ f.row = d.row /\ f.layer = k.layer
  BY DEF PieceRows

LEMMA FoundInPiece ==
  ASSUME NEW pieces, NEW n, NEW k \in keyTbl, NEW d \in dataTbl,
         k.obj = pieces[n].obj, d.dat = k.dat
  PROVE  [place |-> n, since |-> pieces[n].since, till |-> pieces[n].till,
          dat |-> d.dat, call |-> d.call, row |-> d.row, layer |-> k.layer]
           \in PieceRows(pieces, n)
  BY DEF PieceRows

(* Whatever pieces a query finds, it finds whole versions. *)
LEMMA FoundAreWhole ==
  ASSUME StoreInv, DataInv, NEW pieces, NEW S, NEW found,
         found = UNION {PieceRows(pieces, n) : n \in S}
  PROVE  FoundWhole(found)
  <1> SUFFICES ASSUME NEW f \in found
               PROVE  LET rows == {g \in found : g.place = f.place}
                      IN  \E n \in 1 .. MaxRows :
                            /\ {[call |-> g.call, row |-> g.row] : g \in rows}
                                 = {[call |-> f.call, row |-> m] : m \in 1 .. n}
                            /\ \A d \in dataTbl : d.call = f.call => d.row <= n
    BY DEF FoundWhole
  <1> DEFINE rows == {g \in found : g.place = f.place}
  <1>1. PICK a \in S : f \in PieceRows(pieces, a)
    OBVIOUS
  <1>2. /\ f.place = a
        /\ \E k \in keyTbl, d \in dataTbl :
             k.obj = pieces[a].obj /\ d.dat = k.dat /\ f.call = d.call
    BY <1>1, PieceFound
  <1>3. PICK k \in keyTbl, e \in dataTbl :
          k.obj = pieces[a].obj /\ e.dat = k.dat /\ f.call = e.call
    BY <1>2
  <1>4. PICK n \in 1 .. MaxRows :
          /\ \A d \in dataTbl : d.dat = k.dat => d.row \in 1 .. n
          /\ \A m \in 1 .. n : \E d \in dataTbl : d.dat = k.dat /\ d.row = m
    BY DEF DataInv, Whole
  <1>5. \A d \in dataTbl : d.call = f.call <=> d.dat = k.dat
    BY <1>3 DEF DataInv
  <1>6. ASSUME NEW g \in rows
        PROVE  g.call = f.call /\ g.row \in 1 .. n
    <2>1. PICK b \in S : g \in PieceRows(pieces, b)
      OBVIOUS
    <2>2. /\ g.place = b
          /\ \E j \in keyTbl, d \in dataTbl :
               j.obj = pieces[b].obj /\ d.dat = j.dat /\ g.call = d.call /\ g.row = d.row
      BY <2>1, PieceFound
    <2>3. b = a
      BY <1>2, <2>2
    <2>4. PICK j \in keyTbl, d \in dataTbl :
            j.obj = pieces[a].obj /\ d.dat = j.dat /\ g.call = d.call /\ g.row = d.row
      BY <2>2, <2>3
    <2>5. j = k
      BY <1>3, <2>4 DEF StoreInv, KeysNumbered
    <2> QED
      BY <1>4, <1>5, <2>4, <2>5
  <1>7. ASSUME NEW m \in 1 .. n
        PROVE  \E g \in rows : g.call = f.call /\ g.row = m
    <2>1. PICK d \in dataTbl : d.dat = k.dat /\ d.row = m
      BY <1>4
    <2> DEFINE g == [place |-> a, since |-> pieces[a].since, till |-> pieces[a].till,
                     dat |-> d.dat, call |-> d.call, row |-> d.row, layer |-> k.layer]
    <2>2. g \in PieceRows(pieces, a)
      BY <1>3, <2>1, FoundInPiece
    <2>3. g.place = a /\ g.call = d.call /\ g.row = m
      BY <2>1
    <2> HIDE DEF g
    <2>4. g \in rows
      BY <1>2, <2>2, <2>3
    <2> QED
      BY <1>5, <2>1, <2>3, <2>4
  <1>8. \A d \in dataTbl : d.call = f.call => d.row <= n
    BY <1>4, <1>5
  <1> HIDE DEF rows
  <1>9. {[call |-> g.call, row |-> g.row] : g \in rows} = {[call |-> f.call, row |-> m] : m \in 1 .. n}
    BY <1>6, <1>7
  <1> QED
    BY <1>8, <1>9 DEF rows

(* The queries on HEAD, by the pieces that they find. *)
LEMMA FindRows ==
  ASSUME NEW p
  PROVE  FindCondDBObject(p) =
           UNION {PieceRows(headTbl, n) : n \in {m \in DOMAIN headTbl : Covers(headTbl[m], p)}}
  BY DEF FindCondDBObject, FindTag, Joined

LEMMA HistoryRows ==
  ASSUME NEW since, NEW till
  PROVE  BrowseHistory(since, till) =
           UNION {PieceRows(headTbl, n) :
                    n \in {m \in DOMAIN headTbl : Touches(headTbl[m], since, till)}}
  BY DEF BrowseHistory, BrowseHist, Joined

LEMMA HeadRows ==
  BrowseObjectsInTag = UNION {PieceRows(headTbl, n) : n \in DOMAIN headTbl}
  BY DEF BrowseObjectsInTag, BrowseTag, Joined

LEMMA AllRows ==
  BrowseAllObjects = UNION {PieceRows(ObjectPieces, n) : n \in DOMAIN ObjectPieces}
  BY DEF BrowseAllObjects, BrowseAll, Joined

LEMMA PointRows ==
  ASSUME NEW p
  PROVE  BrowseObjectsAtPoint(p) =
           UNION {PieceRows(ObjectPieces, n) :
                    n \in {m \in DOMAIN ObjectPieces :
                             ObjectPieces[m].since <= p /\ p <= ObjectPieces[m].till}}
  BY DEF BrowseObjectsAtPoint, BrowsePoint, Joined

(* A row of HEAD is found at a point only where its object was valid. *)
LEMMA FoundWasValid ==
  ASSUME StoreInv, NEW p \in Time
  PROVE  Contents(FindCondDBObject(p)) \subseteq Contents(BrowseObjectsAtPoint(p))
  <1> SUFFICES ASSUME NEW f \in FindCondDBObject(p)
               PROVE  \E g \in BrowseObjectsAtPoint(p) :
                        g.dat = f.dat /\ g.row = f.row /\ g.layer = f.layer
    BY DEF Contents
  <1>1. PICK n \in DOMAIN headTbl : Covers(headTbl[n], p) /\ f \in PieceRows(headTbl, n)
    BY FindRows
  <1>2. PICK k \in keyTbl, d \in dataTbl :
          /\ k.obj = headTbl[n].obj /\ d.dat = k.dat
          /\ f.dat = d.dat /\ f.row = d.row /\ f.layer = k.layer
    BY <1>1, PieceFound
  <1>3. k.since <= p /\ p <= k.till
    <2>1. PICK j \in keyTbl : /\ j.obj = headTbl[n].obj
                              /\ j.since <= headTbl[n].since /\ headTbl[n].till <= j.till
      BY DEF StoreInv, HeadWithinValidity
    <2>2. j = k
      BY <1>2, <2>1 DEF StoreInv, KeysNumbered
    <2>3. /\ k.since \in Int /\ k.till \in Int /\ p \in Int
          /\ headTbl[n].since \in Int /\ headTbl[n].till \in Int
      BY TimeAssumption DEF StoreInv, TypeOK, KeyRow, HeadRow
    <2> QED
      BY <1>1, <2>1, <2>2, <2>3 DEF Covers
  <1>4. k.obj \in DOMAIN ObjectPieces /\ ObjectPieces[k.obj] = k
    <2>1. (CHOOSE j \in keyTbl : j.obj = k.obj) = k
      BY DEF StoreInv, KeysNumbered
    <2> QED
      BY <2>1 DEF ObjectPieces, Objects
  <1> DEFINE g == [place |-> k.obj, since |-> ObjectPieces[k.obj].since,
                   till |-> ObjectPieces[k.obj].till,
                   dat |-> d.dat, call |-> d.call, row |-> d.row, layer |-> k.layer]
  <1>5. g \in PieceRows(ObjectPieces, k.obj)
    BY <1>2, <1>4, FoundInPiece
  <1>6. g.dat = f.dat /\ g.row = f.row /\ g.layer = f.layer
    BY <1>2
  <1> HIDE DEF g
  <1>7. g \in BrowseObjectsAtPoint(p)
    BY <1>3, <1>4, <1>5, PointRows
  <1> QED
    BY <1>6, <1>7

(* The three cases of the WHERE clause are those in which a piece meets a
   closed interval. *)
LEMMA TouchesMeets ==
  ASSUME NEW a \in Int, NEW b \in Int, a <= b, NEW r, r.since \in Int, r.till \in Int,
         r.since < r.till
  PROVE  Touches(r, a, b) <=> \E p \in a .. b : Covers(r, p)
  <1>1. ASSUME NEW p \in a .. b, Covers(r, p)
        PROVE  Touches(r, a, b)
    BY <1>1 DEF Covers, Touches
  <1>2. CASE r.since < a /\ a < r.till
    <2>1. a \in a .. b /\ Covers(r, a)
      BY <1>2 DEF Covers
    <2> QED
      BY <1>1, <2>1
  <1>3. CASE r.since < b /\ b < r.till
    <2>1. b \in a .. b /\ Covers(r, b)
      BY <1>3 DEF Covers
    <2> QED
      BY <1>1, <2>1
  <1>4. CASE r.since >= a /\ b >= r.since
    <2>1. r.since \in a .. b /\ Covers(r, r.since)
      BY <1>4 DEF Covers
    <2> QED
      BY <1>1, <2>1
  <1> QED
    BY <1>1, <1>2, <1>3, <1>4 DEF Touches

LEMMA HistoryIsPoints ==
  ASSUME StoreInv, NEW i \in Interval, i.since <= i.till
  PROVE  UNION {FindCondDBObject(p) : p \in i.since .. i.till}
           = {f \in BrowseHistory(i.since, i.till) : f.since < f.till}
  <1>1. i.since \in Int /\ i.till \in Int
    BY IntervalAssumption, TimeAssumption
  <1>2. \A n \in DOMAIN headTbl : headTbl[n].since \in Int /\ headTbl[n].till \in Int
    BY TimeAssumption DEF StoreInv, TypeOK, HeadRow
  <1>3. ASSUME NEW p \in i.since .. i.till, NEW f \in FindCondDBObject(p)
        PROVE  f \in BrowseHistory(i.since, i.till) /\ f.since < f.till
    <2>1. PICK n \in DOMAIN headTbl : Covers(headTbl[n], p) /\ f \in PieceRows(headTbl, n)
      BY FindRows
    <2>2. headTbl[n].since < headTbl[n].till
      BY <1>1, <1>2, <2>1 DEF Covers
    <2>3. Touches(headTbl[n], i.since, i.till)
      BY <1>1, <1>2, <2>1, <2>2, TouchesMeets
    <2>4. f.since = headTbl[n].since /\ f.till = headTbl[n].till
      BY <2>1, PieceFound
    <2> QED
      BY <2>1, <2>2, <2>3, <2>4, HistoryRows
  <1>4. ASSUME NEW f \in BrowseHistory(i.since, i.till), f.since < f.till
        PROVE  \E p \in i.since .. i.till : f \in FindCondDBObject(p)
    <2>1. PICK n \in DOMAIN headTbl :
            Touches(headTbl[n], i.since, i.till) /\ f \in PieceRows(headTbl, n)
      BY HistoryRows
    <2>2. f.since = headTbl[n].since /\ f.till = headTbl[n].till
      BY <2>1, PieceFound
    <2>3. PICK p \in i.since .. i.till : Covers(headTbl[n], p)
      BY <1>1, <1>2, <1>4, <2>1, <2>2, TouchesMeets
    <2> QED
      BY <2>1, <2>3, FindRows
  <1> QED
    BY <1>3, <1>4

LEMMA HeadIsPoints ==
  ASSUME StoreInv
  PROVE  BrowseObjectsInTag = (UNION {FindCondDBObject(p) : p \in Time})
                                \cup {f \in BrowseObjectsInTag : f.since >= f.till}
  <1>1. ASSUME NEW p \in Time, NEW f \in FindCondDBObject(p)
        PROVE  f \in BrowseObjectsInTag
    BY FindRows, HeadRows
  <1>2. ASSUME NEW f \in BrowseObjectsInTag, ~(f.since >= f.till)
        PROVE  \E p \in Time : f \in FindCondDBObject(p)
    <2>1. PICK n \in DOMAIN headTbl : f \in PieceRows(headTbl, n)
      BY HeadRows
    <2>2. f.since = headTbl[n].since /\ f.till = headTbl[n].till
      BY <2>1, PieceFound
    <2>3. headTbl[n].since \in Time /\ headTbl[n].since \in Int /\ headTbl[n].till \in Int
      BY TimeAssumption DEF StoreInv, TypeOK, HeadRow
    <2>4. Covers(headTbl[n], headTbl[n].since)
      BY <1>2, <2>2, <2>3 DEF Covers
    <2> QED
      BY <2>1, <2>3, <2>4, FindRows
  <1> QED
    BY <1>1, <1>2

(* Queries for intervals that end before they begin are left out: their
   history is not that of a set of points. *)
ForwardIntervals == \A i \in Interval : i.since <= i.till

(* Whatever failed and at which statement, all queries return whole versions
   and agree with each other: for any clients, times and tables. *)
THEOREM QueriesAgree == ForwardIntervals /\ Spec => []VersionsFound
  <1>1. ASSUME StoreInv, DataInv, ForwardIntervals
        PROVE  VersionsFound
    <2>1. FoundWhole(BrowseAllObjects)
      BY <1>1, AllRows, FoundAreWhole
    <2>2. FoundWhole(BrowseObjectsInTag)
      BY <1>1, HeadRows, FoundAreWhole
    <2>3. \A p \in Time : FoundWhole(FindCondDBObject(p))
      BY <1>1, FindRows, FoundAreWhole
    <2>4. \A p \in Time : Contents(FindCondDBObject(p)) \subseteq Contents(BrowseObjectsAtPoint(p))
      BY <1>1, FoundWasValid
    <2>5. \A i \in Interval :
            UNION {FindCondDBObject(p) : p \in i.since .. i.till}
              = {f \in BrowseHistory(i.since, i.till) : f.since < f.till}
      BY <1>1, HistoryIsPoints DEF ForwardIntervals
    <2> QED
      BY <1>1, <2>1, <2>2, <2>3, <2>4, <2>5, HeadIsPoints DEF VersionsFound
  <1>2. ForwardIntervals => ForwardIntervals'
    BY DEF ForwardIntervals
  <1> QED
    BY <1>1, <1>2, StoreInvHolds, DataInvHolds, PTL
=============================================================================
