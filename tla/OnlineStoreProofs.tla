-------------------------- MODULE OnlineStoreProofs --------------------------
(***************************************************************************)
(* OnlineInv, QueriesFindRows and the refinement of OverwrittenTimeline    *)
(* for any clients, tables and times, and any number of stores and faults. *)
(***************************************************************************)
EXTENDS OnlineStore, TLAPS

(* What a client stores is a sequence of times. *)
LEMMA ArgType ==
  ASSUME TypeOK, NEW c \in Client
  PROVE  arg[c] \in Seq(Time)
  <1>1. arg[c] \in Tables \/ arg[c] = <<>>
    BY DEF TypeOK
  <1>2. <<>> \in Seq(Time)
    OBVIOUS
  <1> QED
    BY <1>1, <1>2, TableAssumption

(* A table that is stored has a time from Time in each of its rows. *)
LEMMA SinceType ==
  ASSUME TypeOK, NEW c \in Client, l[c] \in 1 .. Len(arg[c])
  PROVE  Since(c) \in Time /\ Since(c) \in Int
  <1>1. arg[c] \in Seq(Time)
    BY ArgType
  <1>2. Since(c) \in Time
    BY <1>1 DEF Since
  <1> QED
    BY <1>2, TimeAssumption

(* Rows are only changed by the one client that holds the lock: the others
   have not cleared the table. *)
LEMMA OnlyOneAtInsert ==
  ASSUME TypeOK, NEW c \in Client, NEW d \in Client,
         pc[c] \in {"update", "insert"}, pc[d] \in {"update", "insert"}
  PROVE  c = d
  BY DEF TypeOK

(* A call begins with the first row of its table. *)
LEMMA StoreType ==
  ASSUME TypeOK, NEW c \in Client, NEW t \in Tables, StoreOnl(c, t)
  PROVE  TypeOK'
  <1>1. t \in Seq(Time)
    BY TableAssumption
  <1>2. t # <<>> => 1 \in 1 .. Len(t)
    BY <1>1
  <1>3. calls + 1 \in 1 .. MaxStores
    BY BoundsAssumption DEF TypeOK, StoreOnl
  <1>4. /\ pc' \in [Client -> Label] /\ call' \in [Client -> 0 .. MaxStores]
        /\ arg' \in [Client -> Tables \cup {<<>>}] /\ calls' \in 0 .. MaxStores
    BY <1>3 DEF TypeOK, StoreOnl, Goto, Label
  <1>5. ASSUME NEW d \in Client
        PROVE  /\ pc'[d] = "idle" => l'[d] = 1
               /\ pc'[d] \in {"relock", "lock", "update", "insert"} =>
                    call'[d] # 0 /\ l'[d] \in 1 .. Len(arg'[d])
               /\ pc'[d] \in {"update", "insert"} => lock' = d
    <2>1. CASE d = c
      <3>1. pc'[c] \in {"lock", "unlock"} /\ (pc'[c] = "lock" => t # <<>>)
        BY DEF TypeOK, StoreOnl, Goto
      <3>2. call'[c] = calls + 1 /\ arg'[c] = t /\ l'[c] = 1
        BY DEF TypeOK, StoreOnl
      <3> QED
        BY <2>1, <3>1, <3>2, <1>2, <1>3
    <2>2. CASE d # c
      BY <2>2 DEF TypeOK, StoreOnl, Goto
    <2> QED
      BY <2>1, <2>2
  <1> QED
    BY <1>4, <1>5 DEF TypeOK, StoreOnl

(* The statements that leave the table alone keep the types. *)
LEMMA LockType ==
  ASSUME TypeOK, NEW c \in Client, GiveUpLock(c) \/ LockTable(c)
  PROVE  TypeOK'
  <1>1. CASE GiveUpLock(c)
    BY <1>1 DEF TypeOK, GiveUpLock, Goto, Label
  <1>2. CASE LockTable(c)
    BY <1>2, NameAssumption DEF TypeOK, LockTable, Goto, Label
  <1> QED
    BY <1>1, <1>2

LEMMA EndType ==
  ASSUME TypeOK, NEW c \in Client, EndCall(c)
  PROVE  TypeOK'
  <1>1. 0 \in 0 .. MaxStores
    BY BoundsAssumption
  <1> QED
    BY <1>1 DEF TypeOK, EndCall, Goto, Label

LEMMA FailType ==
  ASSUME TypeOK, NEW c \in Client, Fail(c)
  PROVE  TypeOK'
  <1>1. faults' \in 0 .. MaxFaults
    BY BoundsAssumption DEF TypeOK, Fail
  <1> QED
    BY <1>1 DEF TypeOK, Fail, Goto, Label

LEMMA UpdateType ==
  ASSUME TypeOK, NEW c \in Client, UpdateTill(c)
  PROVE  TypeOK'
  <1>1. Since(c) \in Time
    BY SinceType DEF UpdateTill, TypeOK
  <1>2. onlTbl' \subseteq OnlRow
    BY <1>1 DEF UpdateTill, TypeOK, OnlRow
  <1> QED
    BY <1>2 DEF TypeOK, UpdateTill, Goto, Label

LEMMA InsertType ==
  ASSUME TypeOK, NEW c \in Client, InsertOnl(c)
  PROVE  TypeOK'
  <1>1. Since(c) \in Time
    BY SinceType DEF InsertOnl, TypeOK
  <1>2. onlTbl' \subseteq OnlRow
    BY <1>1, TimeAssumption DEF InsertOnl, TypeOK, OnlRow
  <1>3. arg[c] \in Seq(Time)
    BY ArgType
  <1>4. l[c] # Len(arg[c]) => l[c] + 1 \in 1 .. Len(arg[c])
    BY <1>3 DEF InsertOnl, TypeOK
  <1>5. pc' \in [Client -> Label] /\ l' \in [Client -> Nat]
    <2>1. pc' \in [Client -> Label]
      BY DEF TypeOK, InsertOnl, Goto, Label
    <2>2. l[c] + 1 \in Nat
      BY DEF TypeOK
    <2>3. l' = l \/ l' = [l EXCEPT ![c] = l[c] + 1]
      BY DEF InsertOnl
    <2> QED
      BY <2>1, <2>2, <2>3 DEF TypeOK
  <1>6. ASSUME NEW d \in Client
        PROVE  /\ pc'[d] = "idle" => l'[d] = 1
               /\ pc'[d] \in {"relock", "lock", "update", "insert"} =>
                    call'[d] # 0 /\ l'[d] \in 1 .. Len(arg'[d])
               /\ pc'[d] \in {"update", "insert"} => lock' = d
    <2>1. CASE d = c
      <3>1. pc'[c] \in {"unlock", "relock"}
        BY DEF TypeOK, InsertOnl, Goto
      <3>2. pc'[c] = "relock" => l'[c] = l[c] + 1 /\ l[c] # Len(arg[c])
        BY DEF TypeOK, InsertOnl, Goto
      <3>3. call'[c] # 0 /\ arg' = arg
        BY DEF TypeOK, InsertOnl
      <3> QED
        BY <2>1, <3>1, <3>2, <3>3, <1>4
    <2>2. CASE d # c
      BY <2>2 DEF TypeOK, InsertOnl, Goto
    <2> QED
      BY <2>1, <2>2
  <1> QED
    BY <1>2, <1>5, <1>6 DEF TypeOK, InsertOnl

(* Every step keeps the types. *)
LEMMA StepType ==
  ASSUME TypeOK, [Next]_vars
  PROVE  TypeOK'
  <1>1. CASE UNCHANGED vars
    BY <1>1 DEF TypeOK, vars
  <1>2. ASSUME NEW c \in Client, NEW t \in Tables, StoreOnl(c, t)
        PROVE  TypeOK'
    BY <1>2, StoreType
  <1>3. ASSUME NEW c \in Client, GiveUpLock(c) \/ LockTable(c)
        PROVE  TypeOK'
    BY <1>3, LockType
  <1>4. ASSUME NEW c \in Client, UpdateTill(c)
        PROVE  TypeOK'
    BY <1>4, UpdateType
  <1>5. ASSUME NEW c \in Client, InsertOnl(c)
        PROVE  TypeOK'
    BY <1>5, InsertType
  <1>6. ASSUME NEW c \in Client, UnlockTables(c) \/ Close(c)
        PROVE  TypeOK'
    BY <1>6, EndType DEF UnlockTables, Close
  <1>7. ASSUME NEW c \in Client, Fail(c)
        PROVE  TypeOK'
    BY <1>7, FailType
  <1> QED
    BY <1>1, <1>2, <1>3, <1>4, <1>5, <1>6, <1>7 DEF Next, Statement, Finished

(* The row of NULLs is for all of time. *)
LEMMA InitType == Init => TypeOK
  BY TimeAssumption, BoundsAssumption DEF Init, TypeOK, OnlRow, Label

-----------------------------------------------------------------------------
(* The statements that do not touch the table keep OneValuePerPoint and
   Cleared, unless a client comes to its INSERT. *)
LEMMA QuietStep ==
  ASSUME OnlineInv, onlTbl' = onlTbl, 
         \A c \in Client : pc'[c] = "insert" =>
           pc[c] = "insert" /\ arg'[c] = arg[c] /\ l'[c] = l[c]
  PROVE  OneValuePerPoint' /\ Cleared'
  BY DEF OnlineInv, OneValuePerPoint, Cleared, FindOnl, Covers, Since

(* After the UPDATE nothing is valid from the time of the client on; the rows
   that were cut, or left, are valid where they were before it at most. *)
LEMMA UpdateStep ==
  ASSUME OnlineInv, NEW c \in Client, UpdateTill(c)
  PROVE  OneValuePerPoint' /\ Cleared'
  <1> DEFINE s == Since(c)
             Cut(r) == IF r.till > s THEN [r EXCEPT !.till = s] ELSE r
  <1>1. s \in Time /\ s \in Int
    BY SinceType DEF OnlineInv, UpdateTill, TypeOK
  <1>2. onlTbl' = {Cut(r) : r \in onlTbl}
    BY DEF UpdateTill
  <1>3. ASSUME NEW r \in onlTbl
        PROVE  /\ Cut(r).till <= s
               /\ \A p \in Time : Covers(Cut(r), p) => Covers(r, p)
    <2>1. r \in OnlRow
      BY DEF OnlineInv, TypeOK
    <2>2. r.till \in Int /\ r.since \in Int
      BY <2>1, TimeAssumption DEF OnlRow
    <2>3. CASE r.till > s
      <3>1. Cut(r).till = s /\ Cut(r).since = r.since
        BY <2>1, <2>3 DEF OnlRow
      <3> QED
        BY <3>1, <2>2, <2>3, <1>1, TimeAssumption DEF Covers
    <2>4. CASE ~(r.till > s)
      BY <2>2, <2>4, <1>1
    <2> QED
      BY <2>3, <2>4
  <1>4. OneValuePerPoint'
    <2> SUFFICES ASSUME NEW p \in Time, NEW q \in onlTbl', NEW r \in onlTbl',
                        Covers(q, p), Covers(r, p)
                 PROVE  q = r
      BY DEF OneValuePerPoint, FindOnl, Covers
    <2>1. PICK q0 \in onlTbl : q = Cut(q0)
      BY <1>2
    <2>2. PICK r0 \in onlTbl : r = Cut(r0)
      BY <1>2
    <2>3. Covers(q0, p) /\ Covers(r0, p)
      BY <2>1, <2>2, <1>3
    <2>4. q0 = r0
      BY <2>3 DEF OnlineInv, OneValuePerPoint, FindOnl
    <2> QED
      BY <2>1, <2>2, <2>4
  <1>5. Cleared'
    <2>1. ASSUME NEW d \in Client, pc'[d] = "insert"
          PROVE  d = c
      BY <2>1, OnlyOneAtInsert DEF OnlineInv, TypeOK, UpdateTill, Goto
    <2>2. Since(c)' = s
      BY DEF UpdateTill, Since
    <2> QED
      BY <2>1, <2>2, <1>2, <1>3 DEF Cleared
  <1> QED
    BY <1>4, <1>5

(* The row that is inserted is valid only where nothing is. *)
LEMMA InsertStep ==
  ASSUME OnlineInv, NEW c \in Client, InsertOnl(c)
  PROVE  OneValuePerPoint' /\ Cleared'
  <1>1. Since(c) \in Int
    BY SinceType DEF OnlineInv, InsertOnl, TypeOK
  <1>2. ASSUME NEW r \in onlTbl, NEW p \in Time, Covers(r, p)
        PROVE  ~(Since(c) <= p)
    <2>1. r.till <= Since(c)
      BY DEF OnlineInv, Cleared, InsertOnl
    <2>2. r.till \in Int
      BY TimeAssumption DEF OnlineInv, TypeOK, OnlRow
    <2> QED
      BY <2>1, <2>2, <1>1, <1>2, TimeAssumption DEF Covers
  <1> DEFINE new == [since |-> Since(c), till |-> PlusInf, call |-> call[c], row |-> l[c]]
  <1>3. onlTbl' = onlTbl \cup {new}
    BY DEF InsertOnl
  <1>4. OneValuePerPoint'
    <2> SUFFICES ASSUME NEW p \in Time, NEW q \in onlTbl', NEW r \in onlTbl',
                        Covers(q, p), Covers(r, p)
                 PROVE  q = r
      BY DEF OneValuePerPoint, FindOnl, Covers
    <2>1. CASE q \in onlTbl /\ r \in onlTbl
      BY <2>1 DEF OnlineInv, OneValuePerPoint, FindOnl
    <2>2. CASE q = new /\ r = new
      BY <2>2
    <2>3. CASE q \in onlTbl /\ r = new
      BY <2>3, <1>2 DEF Covers
    <2>4. CASE q = new /\ r \in onlTbl
      BY <2>4, <1>2 DEF Covers
    <2> QED
      BY <2>1, <2>2, <2>3, <2>4, <1>3
  <1>5. ASSUME NEW d \in Client
        PROVE  pc'[d] # "insert"
    BY OnlyOneAtInsert DEF OnlineInv, TypeOK, InsertOnl, Goto
  <1> QED
    BY <1>4, <1>5 DEF Cleared

(* At no moment are there two values for one point in time, whoever stores at
   the same time and whatever failed: OnlineInv is inductive. *)
THEOREM OnlineInvHolds == Spec => []OnlineInv
  <1>1. Init => OnlineInv
    BY InitType DEF Init, OnlineInv, OneValuePerPoint, Cleared, FindOnl
  <1>2. OnlineInv /\ [Next]_vars => OnlineInv'
    <2> SUFFICES ASSUME OnlineInv, [Next]_vars
                 PROVE  OnlineInv'
      OBVIOUS
    <2>1. TypeOK'
      BY StepType DEF OnlineInv
    <2>2. ASSUME UNCHANGED vars
          PROVE  OneValuePerPoint' /\ Cleared'
      BY <2>2, QuietStep DEF vars
    <2>3. ASSUME NEW c \in Client, NEW t \in Tables, StoreOnl(c, t)
          PROVE  OneValuePerPoint' /\ Cleared'
      BY <2>3, QuietStep DEF StoreOnl, Goto, OnlineInv, TypeOK
    <2>4. ASSUME NEW c \in Client, GiveUpLock(c) \/ LockTable(c)
          PROVE  OneValuePerPoint' /\ Cleared'
      BY <2>4, QuietStep DEF GiveUpLock, LockTable, Goto, OnlineInv, TypeOK
    <2>5. ASSUME NEW c \in Client, UpdateTill(c)
          PROVE  OneValuePerPoint' /\ Cleared'
      BY <2>5, UpdateStep
    <2>6. ASSUME NEW c \in Client, InsertOnl(c)
          PROVE  OneValuePerPoint' /\ Cleared'
      BY <2>6, InsertStep
    <2>7. ASSUME NEW c \in Client, UnlockTables(c) \/ Close(c)
          PROVE  OneValuePerPoint' /\ Cleared'
      BY <2>7, QuietStep DEF UnlockTables, Close, EndCall, Goto, OnlineInv, TypeOK
    <2>8. ASSUME NEW c \in Client, Fail(c)
          PROVE  OneValuePerPoint' /\ Cleared'
      BY <2>8, QuietStep DEF Fail, Goto, OnlineInv, TypeOK
    <2>9. OneValuePerPoint' /\ Cleared'
      BY <2>2, <2>3, <2>4, <2>5, <2>6, <2>7, <2>8 DEF Next, Statement, Finished
    <2> QED
      BY <2>1, <2>9 DEF OnlineInv
  <1> QED
    BY <1>1, <1>2, PTL DEF Spec
-----------------------------------------------------------------------------
(* A point without a value is waiting for the INSERT of a client, unless
   something failed. *)
Filled ==
  faults = 0 =>
    \A p \in Time : p < PlusInf =>
      FindOnl(p) # {} \/ \E c \in Client : pc[c] = "insert" /\ Since(c) <= p

(* Steps that neither change the table nor take a client from its INSERT. *)
LEMMA QuietFilled ==
  ASSUME Filled, onlTbl' = onlTbl,
         faults' = 0 => faults = 0,
         \A c \in Client : pc[c] = "insert" /\ faults' = 0 =>
           pc'[c] = "insert" /\ arg'[c] = arg[c] /\ l'[c] = l[c]
  PROVE  Filled'
  BY DEF Filled, FindOnl, Covers, Since

LEMMA UpdateFilled ==
  ASSUME OnlineInv, Filled, NEW c \in Client, UpdateTill(c)
  PROVE  Filled'
  <1>1. Since(c) \in Int /\ Since(c)' = Since(c) /\ pc'[c] = "insert"
    BY SinceType DEF OnlineInv, UpdateTill, TypeOK, Since, Goto
  <1>2. SUFFICES ASSUME faults = 0, NEW p \in Time, p < PlusInf, ~(Since(c) <= p)
                 PROVE  FindOnl(p)' # {}
    BY <1>1 DEF Filled, UpdateTill
  <1>3. \A d \in Client : pc[d] # "insert"
    BY OnlyOneAtInsert DEF OnlineInv, UpdateTill
  <1>4. PICK r \in onlTbl : Covers(r, p)
    BY <1>2, <1>3 DEF Filled, FindOnl
  <1>5. r \in OnlRow /\ r.till \in Int /\ r.since \in Int /\ p \in Int
    BY TimeAssumption DEF OnlineInv, TypeOK, OnlRow
  <1> DEFINE cut == IF r.till > Since(c) THEN [r EXCEPT !.till = Since(c)] ELSE r
  <1>6. cut \in onlTbl'
    BY DEF UpdateTill
  <1>7. Covers(cut, p)
    BY <1>1, <1>2, <1>4, <1>5 DEF Covers, OnlRow
  <1> QED
    BY <1>6, <1>7 DEF FindOnl, Covers

LEMMA InsertFilled ==
  ASSUME OnlineInv, Filled, NEW c \in Client, InsertOnl(c)
  PROVE  Filled'
  <1>1. SUFFICES ASSUME faults = 0, NEW p \in Time, p < PlusInf
                 PROVE  FindOnl(p)' # {}
    BY DEF Filled, InsertOnl
  <1> DEFINE new == [since |-> Since(c), till |-> PlusInf, call |-> call[c], row |-> l[c]]
  <1>2. CASE Since(c) <= p
    <2>1. new \in onlTbl' /\ Covers(new, p)
      BY <1>1, <1>2 DEF InsertOnl, Covers
    <2> QED
      BY <2>1 DEF FindOnl, Covers
  <1>3. CASE ~(Since(c) <= p)
    <2>1. \A d \in Client : pc[d] = "insert" => d = c
      BY OnlyOneAtInsert DEF OnlineInv, InsertOnl
    <2>2. FindOnl(p) # {}
      BY <1>1, <1>3, <2>1 DEF Filled
    <2> QED
      BY <2>2 DEF FindOnl, InsertOnl, Covers
  <1> QED
    BY <1>2, <1>3

(* While nobody stores, queries of an interval find all that is valid at its
   points, and unless something failed there is something at each. *)
THEOREM QueriesFindAllRows == Spec => []QueriesFindRows
  <1>1. Init => Filled
    <2> SUFFICES ASSUME Init, NEW p \in Time, p < PlusInf
                 PROVE  FindOnl(p) # {}
      BY DEF Filled
    <2>1. MinusInf <= p
      BY TimeAssumption
    <2> DEFINE null == [since |-> MinusInf, till |-> PlusInf, call |-> 0, row |-> 0]
    <2>2. null \in onlTbl /\ Covers(null, p)
      BY <2>1 DEF Init, Covers
    <2> QED
      BY <2>2 DEF FindOnl
  <1>2. OnlineInv /\ Filled /\ [Next]_vars => Filled'
    <2> SUFFICES ASSUME OnlineInv, Filled, [Next]_vars
                 PROVE  Filled'
      OBVIOUS
    <2>1. ASSUME UNCHANGED vars
          PROVE  Filled'
      BY <2>1, QuietFilled DEF vars
    <2>2. ASSUME NEW c \in Client, NEW t \in Tables, StoreOnl(c, t)
          PROVE  Filled'
      <3>1. ASSUME NEW d \in Client, pc[d] = "insert"
            PROVE  pc'[d] = "insert" /\ arg'[d] = arg[d] /\ l'[d] = l[d]
        BY <2>2, <3>1 DEF StoreOnl, Goto, OnlineInv, TypeOK
      <3> QED
        BY <2>2, <3>1, QuietFilled DEF StoreOnl
    <2>3. ASSUME NEW c \in Client, GiveUpLock(c) \/ LockTable(c)
          PROVE  Filled'
      BY <2>3, QuietFilled DEF GiveUpLock, LockTable, Goto, OnlineInv, TypeOK
    <2>4. ASSUME NEW c \in Client, UpdateTill(c)
          PROVE  Filled'
      BY <2>4, UpdateFilled
    <2>5. ASSUME NEW c \in Client, InsertOnl(c)
          PROVE  Filled'
      BY <2>5, InsertFilled
    <2>6. ASSUME NEW c \in Client, UnlockTables(c) \/ Close(c)
          PROVE  Filled'
      <3>1. ASSUME NEW d \in Client, pc[d] = "insert"
            PROVE  pc'[d] = "insert" /\ arg'[d] = arg[d] /\ l'[d] = l[d]
        BY <2>6, <3>1 DEF UnlockTables, Close, EndCall, Goto, OnlineInv, TypeOK
      <3> QED
        BY <2>6, <3>1, QuietFilled DEF UnlockTables, Close, EndCall
    <2>7. ASSUME NEW c \in Client, Fail(c)
          PROVE  Filled'
      <3>1. faults' # 0
        BY <2>7 DEF Fail, OnlineInv, TypeOK
      <3> QED
        BY <3>1 DEF Filled
    <2> QED
      BY <2>1, <2>2, <2>3, <2>4, <2>5, <2>6, <2>7 DEF Next, Statement, Finished
  <1>3. OnlineInv /\ Filled => GapsOnlyFromFailures
    BY NameAssumption DEF OnlineInv, TypeOK, Filled, GapsOnlyFromFailures
  <1>4. OnlineInv => BrowseCoversFind
    <2> SUFFICES ASSUME OnlineInv, NEW s \in Time, NEW t \in Time, NEW p \in Time,
                        s <= p, p <= t, NEW r \in onlTbl, Covers(r, p)
                 PROVE  r \in BrowseOnl(s, t)
      BY DEF BrowseCoversFind, FindOnl
    <2>1. r.since \in Int /\ r.till \in Int /\ {s, t, p} \subseteq Int
      BY TimeAssumption DEF OnlineInv, TypeOK, OnlRow
    <2>2. CASE r.since < s
      BY <2>1, <2>2 DEF BrowseOnl, Covers
    <2>3. CASE r.since >= s
      BY <2>1, <2>3 DEF BrowseOnl, Covers
    <2> QED
      BY <2>1, <2>2, <2>3
  <1> QED
    BY <1>1, <1>2, <1>3, <1>4, OnlineInvHolds, PTL DEF Spec, QueriesFindRows
-----------------------------------------------------------------------------
(* The timeline shows the one value that is pending or found. *)
LEMMA AnyOfOne ==
  ASSUME NEW v, NEW default
  PROVE  AnyOf({v}, default) = v
  BY DEF AnyOf

LEMMA AnyOfNone ==
  ASSUME NEW default
  PROVE  AnyOf({}, default) = default
  BY DEF AnyOf

(* Steps that neither change the table nor what is pending. *)
LEMMA QuietTimeline ==
  ASSUME onlTbl' = onlTbl,
         \A c \in Client : pc'[c] = "insert" <=> pc[c] = "insert",
         \A c \in Client : pc[c] = "insert" =>
           arg'[c] = arg[c] /\ l'[c] = l[c] /\ call'[c] = call[c],
         NEW p \in Time
  PROVE  ValueAt(p)' = ValueAt(p)
  <1>1. Pending(p)' = Pending(p)
    BY DEF Pending, Since
  <1>2. Found(p)' = Found(p)
    BY DEF Found, FindOnl, Covers
  <1> QED
    BY <1>1, <1>2 DEF ValueAt

(* The UPDATE of a client: from its time on its value is pending, and before
   it the same rows are found as before. *)
LEMMA UpdateTimeline ==
  ASSUME OnlineInv, NEW c \in Client, UpdateTill(c), NEW p \in Time, p < PlusInf
  PROVE  ValueAt(p)' = IF p >= Since(c) THEN [call |-> call[c], row |-> l[c]]
                                        ELSE ValueAt(p)
  <1>1. Since(c) \in Int /\ p \in Int /\ Since(c)' = Since(c) /\ pc'[c] = "insert"
    BY SinceType, TimeAssumption DEF OnlineInv, UpdateTill, TypeOK, Since, Goto
  <1>2. \A d \in Client : pc[d] # "insert" /\ (pc'[d] = "insert" => d = c)
    BY OnlyOneAtInsert DEF OnlineInv, TypeOK, UpdateTill, Goto
  <1>3. CASE p >= Since(c)
    <2>1. Pending(p)' = {[call |-> call[c], row |-> l[c]]}
      BY <1>1, <1>2, <1>3 DEF Pending, UpdateTill
    <2> QED
      BY <2>1, <1>3, AnyOfOne DEF ValueAt
  <1>4. CASE ~(p >= Since(c))
    <2>1. Pending(p)' = {} /\ Pending(p) = {}
      BY <1>1, <1>2, <1>4 DEF Pending
    <2> DEFINE Cut(r) == IF r.till > Since(c) THEN [r EXCEPT !.till = Since(c)] ELSE r
    <2>2. ASSUME NEW r \in onlTbl
          PROVE  /\ Covers(Cut(r), p) <=> Covers(r, p)
                 /\ Cut(r).call = r.call /\ Cut(r).row = r.row
      <3>1. r \in OnlRow /\ r.till \in Int /\ r.since \in Int
        BY TimeAssumption DEF OnlineInv, TypeOK, OnlRow
      <3> QED
        BY <3>1, <1>1, <1>4 DEF Covers, OnlRow
    <2>3. onlTbl' = {Cut(r) : r \in onlTbl}
      BY DEF UpdateTill
    <2>4. Found(p)' = Found(p)
      <3>1. Found(p)' = {[call |-> r.call, row |-> r.row] : r \in {q \in onlTbl' : Covers(q, p)}}
        BY DEF Found, FindOnl, Covers
      <3>2. {q \in onlTbl' : Covers(q, p)} = {Cut(r) : r \in {q \in onlTbl : Covers(q, p)}}
        BY <2>2, <2>3
      <3>3. Found(p)' = {[call |-> Cut(r).call, row |-> Cut(r).row] :
                           r \in {q \in onlTbl : Covers(q, p)}}
        BY <3>1, <3>2
      <3> QED
        BY <3>3, <2>2 DEF Found, FindOnl
    <2> QED
      BY <2>1, <2>4, <1>4, AnyOfNone DEF ValueAt
  <1> QED
    BY <1>3, <1>4

(* The INSERT makes what is pending found. *)
LEMMA InsertTimeline ==
  ASSUME OnlineInv, NEW c \in Client, InsertOnl(c), NEW p \in Time, p < PlusInf
  PROVE  ValueAt(p)' = ValueAt(p)
  <1>1. Since(c) \in Int /\ p \in Int
    BY SinceType, TimeAssumption DEF OnlineInv, InsertOnl, TypeOK
  <1>2. \A d \in Client : pc'[d] # "insert" /\ (pc[d] = "insert" => d = c)
    BY OnlyOneAtInsert DEF OnlineInv, TypeOK, InsertOnl, Goto
  <1> DEFINE value == [call |-> call[c], row |-> l[c]]
             new   == [since |-> Since(c), till |-> PlusInf, call |-> call[c], row |-> l[c]]
  <1>3. Pending(p)' = {}
    BY <1>2 DEF Pending
  <1>4. Found(p)' = {[call |-> r.call, row |-> r.row] :
                       r \in {q \in onlTbl \cup {new} : Covers(q, p)}}
    BY DEF Found, FindOnl, Covers, InsertOnl
  <1>5. CASE Since(c) <= p
    <2>1. Pending(p) = {value}
      BY <1>2, <1>5 DEF Pending, InsertOnl
    <2>2. \A r \in onlTbl : ~Covers(r, p)
      <3>1. \A r \in onlTbl : r.till <= Since(c) /\ r.till \in Int
        BY TimeAssumption DEF OnlineInv, Cleared, InsertOnl, TypeOK, OnlRow
      <3> QED
        BY <3>1, <1>1, <1>5 DEF Covers
    <2>3. Covers(new, p)
      BY <1>5 DEF Covers
    <2>4. {q \in onlTbl \cup {new} : Covers(q, p)} = {new}
      BY <2>2, <2>3
    <2>5. Found(p)' = {value}
      <3>1. Found(p)' = {[call |-> r.call, row |-> r.row] : r \in {new}}
        BY <1>4, <2>4
      <3>2. [call |-> new.call, row |-> new.row] = value
        OBVIOUS
      <3> QED
        BY ONLY <3>1, <3>2
    <2>6. ValueAt(p)' = AnyOf({}, AnyOf({value}, NoValue))
      BY <1>3, <2>5 DEF ValueAt
    <2>7. ValueAt(p) = AnyOf({value}, AnyOf(Found(p), NoValue))
      BY <2>1 DEF ValueAt
    <2>8. \A d : AnyOf({value}, d) = value /\ AnyOf({}, d) = d
      BY AnyOfOne, AnyOfNone
    <2> HIDE DEF value
    <2> QED
      BY <2>6, <2>7, <2>8
  <1>6. CASE ~(Since(c) <= p)
    <2>1. Pending(p) = {}
      BY <1>2, <1>6 DEF Pending
    <2>2. ~Covers(new, p)
      BY <1>6 DEF Covers
    <2>3. Found(p)' = Found(p)
      BY <1>4, <2>2 DEF Found, FindOnl
    <2> QED
      BY <1>3, <2>1, <2>3 DEF ValueAt
  <1> QED
    BY <1>5, <1>6

(* A client that fails before its INSERT leaves nothing from its time on. *)
LEMMA FailTimeline ==
  ASSUME OnlineInv, NEW c \in Client, Fail(c), pc[c] = "insert",
         NEW p \in Time, p < PlusInf
  PROVE  ValueAt(p)' = IF p >= Since(c) THEN NoValue ELSE ValueAt(p)
  <1>1. Since(c) \in Int /\ p \in Int
    BY SinceType, TimeAssumption DEF OnlineInv, TypeOK
  <1>2. \A d \in Client : pc'[d] # "insert" /\ (pc[d] = "insert" => d = c)
    BY OnlyOneAtInsert DEF OnlineInv, TypeOK, Fail, Goto
  <1>3. Pending(p)' = {}
    BY <1>2 DEF Pending
  <1>4. Found(p)' = Found(p)
    BY DEF Found, FindOnl, Covers, Fail
  <1>5. CASE p >= Since(c)
    <2>1. \A r \in onlTbl : ~Covers(r, p)
      <3>1. \A r \in onlTbl : r.till <= Since(c) /\ r.till \in Int
        BY TimeAssumption DEF OnlineInv, Cleared, TypeOK, OnlRow
      <3> QED
        BY <3>1, <1>1, <1>5 DEF Covers
    <2>2. Found(p) = {}
      BY <2>1 DEF Found, FindOnl
    <2> QED
      BY <1>3, <1>4, <1>5, <2>2, AnyOfNone DEF ValueAt
  <1>6. CASE ~(p >= Since(c))
    <2>1. Pending(p) = {}
      BY <1>1, <1>2, <1>6 DEF Pending
    <2> QED
      BY <1>3, <1>4, <1>6, <2>1 DEF ValueAt
  <1> QED
    BY <1>5, <1>6
(* The timeline ends before PlusInf, and nothing is before MinusInf. *)
LEMMA BelowPlusInf ==
  ASSUME NEW p \in Time \ {PlusInf}
  PROVE  p \in Time /\ MinusInf <= p /\ p < PlusInf /\ ~(p >= PlusInf)
  <1>1. p \in Int /\ MinusInf \in Int /\ PlusInf \in Int /\ p # PlusInf
    BY TimeAssumption
  <1>2. MinusInf <= p /\ p <= PlusInf
    BY TimeAssumption
  <1> QED
    BY <1>1, <1>2
-----------------------------------------------------------------------------
(* Each UPDATE overwrites the timeline from the time of its row on, a failure
   before the INSERT forgets it from there on, and no other step shows. *)
LEMMA StepImplements ==
  ASSUME OnlineInv, OnlineInv', [Next]_vars
  PROVE  [Timeline!Next]_([p \in Time \ {PlusInf} |-> ValueAt(p)])
  <1> DEFINE Shown == [p \in Time \ {PlusInf} |-> ValueAt(p)]
  <1>1. \A p \in Time \ {PlusInf} : p \in Time /\ p < PlusInf /\ ~(p >= PlusInf)
    BY BelowPlusInf
  <1>2. (\A p \in Time \ {PlusInf} : ValueAt(p)' = ValueAt(p)) => Shown' = Shown
    OBVIOUS
  <1>3. ASSUME NEW s \in Time \ {PlusInf}, NEW v \in Stored \cup {NoValue},
               \A p \in Time \ {PlusInf} : ValueAt(p)' = IF p >= s THEN v ELSE ValueAt(p)
        PROVE  Timeline!Next
    <2>1. Timeline!Put(s, v)
      BY <1>3 DEF Timeline!Put
    <2> QED
      BY <2>1 DEF Timeline!Next, Timeline!Cut
  <1>4. ASSUME UNCHANGED vars
        PROVE  Shown' = Shown
    BY <1>1, <1>2, <1>4, QuietTimeline DEF vars, OnlineInv, TypeOK
  <1>5. ASSUME NEW c \in Client, NEW t \in Tables, StoreOnl(c, t)
        PROVE  Shown' = Shown
    BY <1>1, <1>2, <1>5, QuietTimeline DEF StoreOnl, Goto, OnlineInv, TypeOK
  <1>6. ASSUME NEW c \in Client, GiveUpLock(c) \/ LockTable(c)
        PROVE  Shown' = Shown
    BY <1>1, <1>2, <1>6, QuietTimeline DEF GiveUpLock, LockTable, Goto, OnlineInv, TypeOK
  <1>7. ASSUME NEW c \in Client, UpdateTill(c)
        PROVE  Timeline!Next \/ Shown' = Shown
    <2> DEFINE value == [call |-> call[c], row |-> l[c]]
    <2>1. Since(c) \in Time
      BY <1>7, SinceType DEF OnlineInv, UpdateTill, TypeOK
    <2>2. value \in Stored
      <3>1. call[c] \in 1 .. MaxStores
        BY <1>7, BoundsAssumption DEF OnlineInv, TypeOK, UpdateTill
      <3>2. arg[c] \in Seq(Time) /\ l[c] \in DOMAIN arg[c]
        BY <1>7, ArgType DEF OnlineInv, TypeOK, UpdateTill
      <3>3. arg[c] \in Tables
        BY <3>2 DEF OnlineInv, TypeOK
      <3> QED
        BY <3>1, <3>2, <3>3 DEF Stored
    <2>3. \A p \in Time \ {PlusInf} : ValueAt(p)' = IF p >= Since(c) THEN value ELSE ValueAt(p)
      BY <1>1, <1>7, UpdateTimeline
    <2>4. CASE Since(c) = PlusInf
      BY <1>1, <1>2, <2>3, <2>4
    <2>5. CASE Since(c) # PlusInf
      BY <1>3, <2>1, <2>2, <2>3, <2>5
    <2> QED
      BY <2>4, <2>5
  <1>8. ASSUME NEW c \in Client, InsertOnl(c)
        PROVE  Shown' = Shown
    BY <1>1, <1>2, <1>8, InsertTimeline
  <1>9. ASSUME NEW c \in Client, UnlockTables(c) \/ Close(c)
        PROVE  Shown' = Shown
    BY <1>1, <1>2, <1>9, QuietTimeline
    DEF UnlockTables, Close, EndCall, Goto, OnlineInv, TypeOK
  <1>10. ASSUME NEW c \in Client, Fail(c)
         PROVE  Timeline!Next \/ Shown' = Shown
    <2>1. CASE pc[c] = "insert"
      <3>1. Since(c) \in Time
        BY <2>1, SinceType DEF OnlineInv, TypeOK
      <3>2. \A p \in Time \ {PlusInf} : ValueAt(p)' = IF p >= Since(c) THEN NoValue ELSE ValueAt(p)
        BY <1>1, <1>10, <2>1, FailTimeline
      <3>3. CASE Since(c) = PlusInf
        BY <1>1, <1>2, <3>2, <3>3
      <3>4. CASE Since(c) # PlusInf
        <4>1. Since(c) \in Time \ {PlusInf} /\ NoValue \in Stored \cup {NoValue}
          BY <3>1, <3>4
        <4> QED
          BY ONLY <4>1, <1>3, <3>2
      <3> QED
        BY <3>3, <3>4
    <2>2. CASE pc[c] # "insert"
      BY <1>1, <1>2, <1>10, <2>2, QuietTimeline DEF Fail, Goto, OnlineInv, TypeOK
    <2> QED
      BY <2>1, <2>2
  <1> QED
    BY <1>4, <1>5, <1>6, <1>7, <1>8, <1>9, <1>10 DEF Next, Statement, Finished

(* For any clients, tables and failures storing row by row is overwriting the
   timeline: what readers find at a point is the value stored last for a time
   not after it, or nothing where a failure forgot. *)
THEOREM StoringImplementsTimeline == Spec => ImplementsTimeline
  <1>1. Init => Timeline!Init
    <2> SUFFICES ASSUME Init, NEW p \in Time \ {PlusInf}
                 PROVE  ValueAt(p) = NoValue
      BY DEF Timeline!Init
    <2> DEFINE null == [since |-> MinusInf, till |-> PlusInf, call |-> 0, row |-> 0]
    <2>1. MinusInf <= p /\ p < PlusInf
      BY BelowPlusInf
    <2>2. Covers(null, p)
      BY <2>1 DEF Covers
    <2>3. {r \in onlTbl : Covers(r, p)} = {null}
      BY <2>2 DEF Init
    <2>4. Found(p) = {NoValue}
      <3>1. Found(p) = {[call |-> r.call, row |-> r.row] : r \in {null}}
        BY <2>3 DEF Found, FindOnl
      <3>2. [call |-> null.call, row |-> null.row] = NoValue
        BY DEF NoValue
      <3> QED
        BY ONLY <3>1, <3>2
    <2>5. Pending(p) = {}
      BY DEF Init, Pending
    <2> QED
      BY <2>4, <2>5, AnyOfNone, AnyOfOne DEF ValueAt
  <1> QED
    BY <1>1, StepImplements, OnlineInvHolds, PTL
    DEF Spec, ImplementsTimeline, Timeline!Spec
=============================================================================
