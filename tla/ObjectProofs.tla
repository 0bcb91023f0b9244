---------------------------- MODULE ObjectProofs ----------------------------
(***************************************************************************)
(* Proofs about ObjectStore, TaggedStore and ObjectReader, for every set   *)
(* of clients, taggers, tags, points in time and intervals (till <= since  *)
(* included), results of any length and any number of calls and faults.    *)
(*                                                                         *)
(* Storing: HEAD names one object at a point, never goes back to an older  *)
(* one, and names stored data only; and as long as nothing fails, storing  *)
(* implements ObjectTimeline.                                              *)
(*                                                                         *)
(* Tags: what a tag names is stored, and if no two processes apply one     *)
(* tag, a tag is single-valued and one version of the folder.              *)
(*                                                                         *)
(* Readers: iterators stay inside their result, loops over it meet its     *)
(* rows in order, searches find the neighbour of a point, and what an      *)
(* iterator goes through is one version of the folder.                     *)
(***************************************************************************)
EXTENDS ObjectReader, TLAPS, FiniteSetTheorems

USE DEF HeadRow, JoinedRow, KeyRow, Label, Locked

(* The interval given to the locals of a client that runs no call exists. *)
LEMMA AnyIntervalType == AnyInterval \in Interval
  BY IntervalAssumption DEF AnyInterval

(* Times are integers, so the prover may compare and order them. *)
LEMMA IntervalType ==
  ASSUME TypeOK, NEW c \in Client
  PROVE  /\ iv[c] \in [since : Time, till : Time]
         /\ iv[c].since \in Int /\ iv[c].till \in Int
         /\ \A p \in Time : p \in Int
  <1>1. iv[c] \in [since : Time, till : Time]
    BY IntervalAssumption DEF TypeOK
  <1> QED
    BY <1>1, TimeAssumption

(* The result of the overlap query has the columns of its two tables. *)
LEMMA OverlappingType ==
  ASSUME TypeOK, NEW i \in Interval
  PROVE  Overlapping(i) \in SUBSET JoinedRow
  BY DEF TypeOK, Overlapping, LayersOf

(* What is in the result of the overlap query. *)
LEMMA OverlappingRows ==
  ASSUME TypeOK, NEW i \in Interval, NEW r \in Overlapping(i)
  PROVE  /\ r.head \in headTbl
         /\ r.head.since < i.till /\ r.head.till > i.since
         /\ \E k \in keyTbl : k.obj = r.head.obj /\ k.layer = r.layer
         /\ r = [head |-> r.head, layer |-> r.layer]
  BY DEF TypeOK, Overlapping, LayersOf

(* A row of HEAD whose object has a key row is found. *)
LEMMA OverlappingComplete ==
  ASSUME TypeOK, NEW i \in Interval, NEW h \in headTbl, HasKey(h.obj),
         h.since < i.till, h.till > i.since
  PROVE  \E r \in Overlapping(i) : r.head = h
  <1>1. PICK k \in keyTbl : k.obj = h.obj
    BY DEF HasKey
  <1>2. k.layer \in LayersOf(h)
    BY <1>1 DEF LayersOf
  <1>3. [head |-> h, layer |-> k.layer] \in Overlapping(i)
    BY <1>2 DEF Overlapping
  <1> QED
    BY <1>3

-----------------------------------------------------------------------------
(* A step that ends a call leaves only well-typed locals. *)
LEMMA ForgetLocalsType ==
  ASSUME TypeOK, NEW c \in Client, ForgetLocals(c)
  PROVE  /\ iv' \in [Client -> Interval] /\ dat' \in [Client -> Nat]
         /\ todo' \in [Client -> SUBSET JoinedRow]
         /\ layer' \in [Client -> Nat \cup {-1}]
         /\ tail' \in [Client -> SUBSET HeadRow]
         /\ lastId' \in [Client -> Nat]
  BY AnyIntervalType DEF ForgetLocals, TypeOK

(* The statement of one row of the loop leaves HEAD well typed. *)
LEMMA RowStepType ==
  ASSUME TypeOK, NEW c \in Client, NEW r \in todo[c],
         TrimEnd(c, r) \/ Swallow(c, r) \/ TrimStart(c, r) \/ SplitRow(c, r)
  PROVE  TypeOK'
  <1> USE DEF TypeOK, NextRow, tables, locals
  <1>1. iv[c].since \in Time /\ iv[c].till \in Time
    BY IntervalAssumption
  <1>2. r \in JoinedRow
    OBVIOUS
  <1>3. CASE TrimEnd(c, r)
    BY <1>1, <1>2, <1>3 DEF TrimEnd, Replaced
  <1>4. CASE Swallow(c, r)
    BY <1>1, <1>2, <1>4 DEF Swallow
  <1>5. CASE TrimStart(c, r)
    BY <1>1, <1>2, <1>5 DEF TrimStart, Replaced
  <1>6. CASE SplitRow(c, r)
    BY <1>1, <1>2, <1>6 DEF SplitRow, Replaced, Goto
  <1> QED
    BY <1>3, <1>4, <1>5, <1>6

LEMMA InitTypeOK == Init => TypeOK
  BY AnyIntervalType DEF Init, TypeOK

LEMMA StepTypeOK ==
  ASSUME TypeOK, [Next]_vars
  PROVE  TypeOK'
  <1> USE DEF TypeOK, tables, locals, Goto
  <1>1. ASSUME NEW c \in Client, NEW i \in Interval, StoreData(c, i)
        PROVE  TypeOK'
    BY <1>1 DEF StoreData
  <1>2. ASSUME NEW c \in Client, LockTables(c)
        PROVE  TypeOK'
    BY <1>2 DEF LockTables
  <1>3. ASSUME NEW c \in Client, SelectOverlap(c)
        PROVE  TypeOK'
    <2>1. Overlapping(iv[c]) \in SUBSET JoinedRow
      BY OverlappingType
    <2> QED
      BY <1>3, <2>1 DEF SelectOverlap
  <1>4. ASSUME NEW c \in Client, NEW r \in todo[c],
               TrimEnd(c, r) \/ Swallow(c, r) \/ TrimStart(c, r) \/ SplitRow(c, r)
        PROVE  TypeOK'
    BY <1>4, RowStepType
  <1>5. ASSUME NEW c \in Client, InsertTail(c)
        PROVE  TypeOK'
    BY <1>5 DEF InsertTail
  <1>6. ASSUME NEW c \in Client, InsertKey(c)
        PROVE  TypeOK'
    BY <1>6, IntervalAssumption DEF InsertKey
  <1>7. ASSUME NEW c \in Client, InsertHead(c)
        PROVE  TypeOK'
    BY <1>7, IntervalAssumption DEF InsertHead
  <1>8. ASSUME NEW c \in Client, UnlockTables(c)
        PROVE  TypeOK'
    BY <1>8, ForgetLocalsType DEF UnlockTables
  <1>9. ASSUME NEW c \in Client, Crash(c)
        PROVE  TypeOK'
    BY <1>9, ForgetLocalsType DEF Crash, Disconnect
  <1>10. ASSUME NEW c \in Client, StatementFails(c)
        PROVE  TypeOK'
    BY <1>10 DEF StatementFails
  <1>11. ASSUME NEW c \in Client, Close(c)
        PROVE  TypeOK'
    BY <1>11, ForgetLocalsType DEF Close, Disconnect
  <1>12. CASE UNCHANGED vars
    BY <1>12 DEF vars
  <1> QED
    BY <1>1, <1>2, <1>3, <1>4, <1>5, <1>6, <1>7, <1>8, <1>9, <1>10, <1>11, <1>12
    DEF Next, Step, Finished

(* Type correctness: every table and every local of every client keeps the
   type of its column or variable, whatever is stored and whoever fails. *)
THEOREM TypeCorrect == Spec => []TypeOK
  BY InitTypeOK, StepTypeOK, PTL DEF Spec
-----------------------------------------------------------------------------
(* HEAD names at most one object per point.  HeadInv is inductive: the part
   about a client under the lock can only be disturbed by that client. *)
ClientInv(c) == /\ pc[c] \in {"rows", "split"} => TodoMeetsInterval(c)
                /\ pc[c] = "split" => TailIsFree(c)
                /\ pc[c] = "head" => RoomIsMade(c)

(* What the other clients rely on is left alone by the owner of the lock:
   none of them is under the lock. *)
LEMMA OthersUnaffected ==
  ASSUME TypeOK, OnlyOwnerLocked, NEW c \in Client, lock = c,
         NEW label, pc' = [pc EXCEPT ![c] = label],
         NEW d \in Client, d # c
  PROVE  ClientInv(d)'
  BY DEF OnlyOwnerLocked, ClientInv, TypeOK

(* An UPDATE of a row that is there swaps it for the new one. *)
LEMMA ReplacedRows ==
  ASSUME NEW h \in headTbl, NEW new
  PROVE  Replaced(h, new) = (headTbl \ {h}) \cup {new}
  BY DEF Replaced

(* A row of the overlap query is handled: its HEAD row gives way to pieces
   of it that do not meet the interval of the new object. *)
LEMMA RowHandled ==
  ASSUME TypeOK, HeadInv, NEW c \in Client, NEW r \in todo[c], pc[c] = "rows",
         todo' = [todo EXCEPT ![c] = @ \ {r}], iv' = iv, keyTbl' = keyTbl,
         headTbl \ {r.head} \subseteq headTbl',
         \A n \in headTbl' :
           \/ n \in headTbl \ {r.head}
           \/ /\ n.obj = r.head.obj
              /\ \A p \in Time : Covers(n, p) => /\ Covers(r.head, p)
                                                 /\ ~Covers(iv[c], p)
  PROVE  TodoMeetsInterval(c)' /\ HeadSingleValued' /\ HeadHasKeys'
  <1>1. TodoMeetsInterval(c) /\ HeadSingleValued /\ HeadHasKeys
    BY DEF HeadInv
  <1>2. todo'[c] = todo[c] \ {r} /\ r.head \in headTbl
    BY <1>1 DEF TypeOK, TodoMeetsInterval
  <1>3. ASSUME NEW g \in headTbl'
        PROVE  \E f \in headTbl : /\ f.obj = g.obj
                                  /\ \A p \in Time : Covers(g, p) => Covers(f, p)
    BY <1>2
  <1>4. HeadSingleValued'
    <2> SUFFICES ASSUME NEW p \in Time, NEW g \in headTbl', NEW h \in headTbl',
                        Covers(g, p), Covers(h, p)
                 PROVE  g.obj = h.obj
      BY DEF HeadSingleValued, Covers
    <2>1. PICK f \in headTbl : f.obj = g.obj /\ Covers(f, p)
      BY <1>3
    <2>2. PICK e \in headTbl : e.obj = h.obj /\ Covers(e, p)
      BY <1>3
    <2> QED
      BY <1>1, <2>1, <2>2 DEF HeadSingleValued
  <1>5. HeadHasKeys'
    BY <1>1, <1>3 DEF HeadHasKeys, HasKey
  <1>6. ASSUME NEW q \in todo'[c]
        PROVE  /\ q.head \in headTbl'
               /\ q.head.since < iv'[c].till /\ q.head.till > iv'[c].since
    BY <1>1, <1>2 DEF TodoMeetsInterval
  <1>7. ASSUME NEW q \in todo'[c], NEW t \in todo'[c], q.head = t.head
        PROVE  q = t
    BY <1>1, <1>2, <1>7 DEF TodoMeetsInterval
  <1>8. ASSUME NEW h \in headTbl', NEW p \in Time, Covers(h, p), Covers(iv[c], p)
        PROVE  \E q \in todo'[c] : q.head = h
    <2>1. h \in headTbl /\ h # r.head
      BY <1>8
    <2>2. PICK q \in todo[c] : q.head = h
      BY <1>1, <1>8, <2>1 DEF TodoMeetsInterval
    <2> QED
      BY <1>2, <2>1, <2>2
  <1>9. TodoMeetsInterval(c)'
    BY <1>6, <1>7, <1>8 DEF TodoMeetsInterval, Covers
  <1> QED
    BY <1>4, <1>5, <1>9

(* The four statements of the loop keep HeadInv. *)
LEMMA RowStepHeadInv ==
  ASSUME TypeOK, HeadInv, NEW c \in Client, NEW r \in todo[c],
         TrimEnd(c, r) \/ Swallow(c, r) \/ TrimStart(c, r) \/ SplitRow(c, r)
  PROVE  HeadInv'
  <1> DEFINE h == r.head
             since == iv[c].since
             till == iv[c].till
  <1>1. /\ pc[c] = "rows" /\ lock = c /\ lock' = lock
        /\ keyTbl' = keyTbl /\ objSeq' = objSeq /\ iv' = iv
        /\ todo' = [todo EXCEPT ![c] = @ \ {r}]
    BY DEF TrimEnd, Swallow, TrimStart, SplitRow, NextRow, HeadInv,
           OnlyOwnerLocked
  <1>2. TodoMeetsInterval(c)
    BY <1>1 DEF HeadInv
  <1>3. /\ h \in headTbl /\ h \in HeadRow
        /\ since \in Int /\ till \in Int /\ h.since \in Int /\ h.till \in Int
        /\ h.since < till /\ h.till > since
        /\ \A p \in Time : p \in Int
    <2>1. h \in headTbl /\ h \in HeadRow /\ h.since < till /\ h.till > since
      BY <1>2 DEF TypeOK, TodoMeetsInterval
    <2> QED
      BY <2>1, IntervalType
  <1>4. HasKey(h.obj)
    BY <1>3 DEF HeadInv, HeadHasKeys
  <1>5. ASSUME NEW label \in {"rows", "split"}, pc' = [pc EXCEPT ![c] = label]
        PROVE  /\ OnlyOwnerLocked' /\ KeysNumbered'
               /\ \A d \in Client : d # c => ClientInv(d)'
    <2>1. OnlyOwnerLocked' /\ KeysNumbered'
      BY <1>1, <1>5 DEF HeadInv, OnlyOwnerLocked, KeysNumbered, TypeOK
    <2>2. ASSUME NEW d \in Client, d # c
          PROVE  ClientInv(d)'
      BY <1>1, <1>5, <2>2, OthersUnaffected DEF HeadInv
    <2> QED
      BY <2>1, <2>2
  <1>6. ASSUME UNCHANGED pc, TodoMeetsInterval(c)', HeadSingleValued', HeadHasKeys'
        PROVE  HeadInv'
    <2>1. pc' = [pc EXCEPT ![c] = "rows"] /\ pc'[c] = "rows"
      BY <1>1, <1>6 DEF TypeOK
    <2>2. ClientInv(c)'
      BY <1>6, <2>1 DEF ClientInv
    <2> QED
      BY <1>5, <1>6, <2>1, <2>2 DEF HeadInv, ClientInv
  <1>7. CASE TrimEnd(c, r)
    <2> DEFINE new == [h EXCEPT !.till = since]
    <2>1. headTbl' = (headTbl \ {h}) \cup {new}
      BY <1>3, <1>7, ReplacedRows DEF TrimEnd
    <2>2. /\ new.obj = h.obj
          /\ \A p \in Time : Covers(new, p) => Covers(h, p) /\ ~Covers(iv[c], p)
      BY <1>3 DEF Covers
    <2>3. TodoMeetsInterval(c)' /\ HeadSingleValued' /\ HeadHasKeys'
      BY <1>1, <2>1, <2>2, RowHandled
    <2> QED
      BY <1>6, <1>7, <2>3 DEF TrimEnd
  <1>8. CASE Swallow(c, r)
    <2>1. TodoMeetsInterval(c)' /\ HeadSingleValued' /\ HeadHasKeys'
      BY <1>1, <1>8, RowHandled DEF Swallow
    <2> QED
      BY <1>6, <1>8, <2>1 DEF Swallow
  <1>9. CASE TrimStart(c, r)
    <2> DEFINE new == [h EXCEPT !.since = till]
    <2>1. headTbl' = (headTbl \ {h}) \cup {new}
      BY <1>3, <1>9, ReplacedRows DEF TrimStart
    <2>2. /\ new.obj = h.obj
          /\ \A p \in Time : Covers(new, p) => Covers(h, p) /\ ~Covers(iv[c], p)
      BY <1>3 DEF Covers
    <2>3. TodoMeetsInterval(c)' /\ HeadSingleValued' /\ HeadHasKeys'
      BY <1>1, <2>1, <2>2, RowHandled
    <2> QED
      BY <1>6, <1>9, <2>3 DEF TrimStart
  <1>10. CASE SplitRow(c, r)
    <2> DEFINE new == [h EXCEPT !.till = since]
               rest == [h EXCEPT !.since = till]
    <2>1. headTbl' = (headTbl \ {h}) \cup {new}
      BY <1>3, <1>10, ReplacedRows DEF SplitRow
    <2>2. /\ new.obj = h.obj
          /\ \A p \in Time : Covers(new, p) => Covers(h, p) /\ ~Covers(iv[c], p)
      BY <1>3 DEF Covers
    <2>3. TodoMeetsInterval(c)' /\ HeadSingleValued' /\ HeadHasKeys'
      BY <1>1, <2>1, <2>2, RowHandled
    <2>4. pc' = [pc EXCEPT ![c] = "split"] /\ pc'[c] = "split" /\ tail'[c] = {rest}
      BY <1>10 DEF SplitRow, Goto, TypeOK
    <2>5. rest.since = till /\ rest.obj = h.obj
      BY <1>3
    <2>6. ASSUME NEW g \in headTbl', NEW p \in Time, Covers(rest, p), Covers(g, p)
          PROVE  g.obj = rest.obj
      <3>1. Covers(h, p)
        BY <1>3, <2>6 DEF Covers
      <3>2. \E f \in headTbl : f.obj = g.obj /\ Covers(f, p)
        BY <1>3, <2>1, <2>2, <2>6
      <3> QED
        BY <1>3, <2>5, <3>1, <3>2 DEF HeadInv, HeadSingleValued
    <2>7. TailIsFree(c)'
      BY <1>1, <1>4, <2>4, <2>5, <2>6 DEF TailIsFree, HasKey, Covers
    <2>8. ClientInv(c)'
      BY <2>3, <2>4, <2>7 DEF ClientInv
    <2> QED
      BY <1>5, <2>3, <2>4, <2>8 DEF HeadInv, ClientInv
  <1> QED
    BY <1>7, <1>8, <1>9, <1>10

(* A step that leaves HEAD and the keys alone, and after which its client has
   nothing to rely on, keeps HeadInv. *)
LEMMA QuietStepHeadInv ==
  ASSUME TypeOK, HeadInv, NEW c \in Client, keyTbl' = keyTbl, headTbl' = headTbl,
         objSeq' = objSeq,
         NEW label \in Label, pc' = [pc EXCEPT ![c] = label],
         label \notin {"rows", "split", "head"},
         label \in Locked => lock' = c,
         lock' = lock \/ lock = Nobody \/ lock = c,
         \A d \in Client : d # c => /\ iv'[d] = iv[d] /\ todo'[d] = todo[d]
                                    /\ tail'[d] = tail[d] /\ lastId'[d] = lastId[d]
  PROVE  HeadInv'
  <1>1. OnlyOwnerLocked' /\ KeysNumbered' /\ HeadHasKeys' /\ HeadSingleValued'
    BY NobodyAssumption
    DEF HeadInv, OnlyOwnerLocked, KeysNumbered, HeadHasKeys, HasKey,
        HeadSingleValued, Covers, TypeOK
  <1>2. ASSUME NEW d \in Client
        PROVE  ClientInv(d)'
    <2>1. CASE d = c
      BY <2>1 DEF ClientInv, TypeOK
    <2>2. CASE d # c
      <3>1. ClientInv(d) /\ pc'[d] = pc[d]
        BY <2>2 DEF HeadInv, ClientInv, TypeOK
      <3> QED
        BY <2>2, <3>1 DEF ClientInv, TodoMeetsInterval, TailIsFree, RoomIsMade,
                          HasKey, Covers
    <2> QED
      BY <2>1, <2>2
  <1> QED
    BY <1>1, <1>2 DEF HeadInv, ClientInv

(* After the overlap query the client knows every row it has to handle. *)
LEMMA SelectHeadInv ==
  ASSUME TypeOK, HeadInv, NEW c \in Client, SelectOverlap(c)
  PROVE  HeadInv'
  <1>1. /\ lock = c /\ iv[c] \in Interval /\ pc' = [pc EXCEPT ![c] = "rows"]
        /\ pc'[c] = "rows" /\ todo'[c] = Overlapping(iv[c])
        /\ UNCHANGED <<keyTbl, headTbl, objSeq, lock, iv>>
    BY DEF SelectOverlap, Goto, HeadInv, OnlyOwnerLocked, TypeOK, tables
  <1>2. OnlyOwnerLocked' /\ KeysNumbered' /\ HeadHasKeys' /\ HeadSingleValued'
    BY <1>1 DEF HeadInv, OnlyOwnerLocked, KeysNumbered, HeadHasKeys, HasKey,
                HeadSingleValued, Covers, TypeOK
  <1>3. ASSUME NEW r \in Overlapping(iv[c])
        PROVE  /\ r.head \in headTbl
               /\ r.head.since < iv[c].till /\ r.head.till > iv[c].since
    BY <1>1, OverlappingRows
  <1>4. ASSUME NEW q \in Overlapping(iv[c]), NEW r \in Overlapping(iv[c]),
               q.head = r.head
        PROVE  q = r
    <2>1. PICK j \in keyTbl : j.obj = q.head.obj /\ j.layer = q.layer
      BY <1>1, OverlappingRows
    <2>2. PICK k \in keyTbl : k.obj = r.head.obj /\ k.layer = r.layer
      BY <1>1, OverlappingRows
    <2>3. j = k
      BY <1>4, <2>1, <2>2 DEF HeadInv, KeysNumbered
    <2>4. /\ q = [head |-> q.head, layer |-> q.layer]
          /\ r = [head |-> r.head, layer |-> r.layer]
      BY <1>1, OverlappingRows
    <2> QED
      BY <1>4, <2>1, <2>2, <2>3, <2>4
  <1>5. ASSUME NEW h \in headTbl, NEW p \in Time, Covers(h, p), Covers(iv[c], p)
        PROVE  \E r \in Overlapping(iv[c]) : r.head = h
    <2>1. h.since < iv[c].till /\ h.till > iv[c].since
      <3>1. h.since \in Int /\ h.till \in Int
        BY TimeAssumption DEF TypeOK
      <3> QED
        BY <1>5, <3>1, IntervalType DEF Covers
    <2>2. HasKey(h.obj)
      BY DEF HeadInv, HeadHasKeys
    <2> QED
      BY <1>1, <2>1, <2>2, OverlappingComplete
  <1>6. TodoMeetsInterval(c)'
    BY <1>1, <1>3, <1>4, <1>5 DEF TodoMeetsInterval, Covers
  <1>7. ASSUME NEW d \in Client
        PROVE  ClientInv(d)'
    <2>1. CASE d = c
      BY <1>1, <1>6, <2>1 DEF ClientInv
    <2>2. CASE d # c
      BY <1>1, <2>2, OthersUnaffected DEF HeadInv
    <2> QED
      BY <2>1, <2>2
  <1> QED
    BY <1>2, <1>7 DEF HeadInv, ClientInv

LEMMA InsertTailHeadInv ==
  ASSUME TypeOK, HeadInv, NEW c \in Client, InsertTail(c)
  PROVE  HeadInv'
  <1>1. /\ lock = c /\ pc' = [pc EXCEPT ![c] = "rows"] /\ pc'[c] = "rows"
        /\ headTbl' = headTbl \cup tail[c] /\ tail[c] \subseteq HeadRow
        /\ UNCHANGED <<keyTbl, objSeq, lock, iv, todo>>
        /\ TodoMeetsInterval(c) /\ TailIsFree(c)
    BY DEF InsertTail, Goto, HeadInv, OnlyOwnerLocked, TypeOK
  <1>2. OnlyOwnerLocked' /\ KeysNumbered' /\ HeadHasKeys'
    BY <1>1 DEF HeadInv, OnlyOwnerLocked, KeysNumbered, HeadHasKeys, HasKey,
                TailIsFree, TypeOK
  <1>3. HeadSingleValued'
    BY <1>1 DEF HeadInv, HeadSingleValued, TailIsFree, Covers
  <1>4. TodoMeetsInterval(c)'
    <2>1. ASSUME NEW t \in tail[c], NEW p \in Time
          PROVE  ~(Covers(t, p) /\ Covers(iv[c], p))
      <3>1. t.since = iv[c].till
        BY <1>1 DEF TailIsFree
      <3>2. iv[c].till \in Int /\ p \in Int
        BY IntervalType
      <3> QED
        BY <3>1, <3>2 DEF Covers
    <2> QED
      BY <1>1, <2>1 DEF TodoMeetsInterval, Covers
  <1>5. ASSUME NEW d \in Client
        PROVE  ClientInv(d)'
    <2>1. CASE d = c
      BY <1>1, <1>4, <2>1 DEF ClientInv
    <2>2. CASE d # c
      BY <1>1, <2>2, OthersUnaffected DEF HeadInv
    <2> QED
      BY <2>1, <2>2
  <1> QED
    BY <1>2, <1>3, <1>5 DEF HeadInv, ClientInv

LEMMA InsertKeyHeadInv ==
  ASSUME TypeOK, HeadInv, NEW c \in Client, InsertKey(c)
  PROVE  HeadInv'
  <1> DEFINE new == [obj |-> objSeq + 1, since |-> iv[c].since,
                     till |-> iv[c].till, layer |-> layer[c] + 1,
                     dat |-> dat[c]]
  <1>1. /\ lock = c /\ pc' = [pc EXCEPT ![c] = "head"] /\ pc'[c] = "head"
        /\ pc[c] = "rows" /\ todo[c] = {}
        /\ objSeq' = objSeq + 1 /\ lastId'[c] = objSeq + 1
        /\ keyTbl' = keyTbl \cup {new}
        /\ UNCHANGED <<headTbl, lock, iv>>
    BY DEF InsertKey, Goto, HeadInv, OnlyOwnerLocked, TypeOK
  <1>2. OnlyOwnerLocked' /\ HeadHasKeys' /\ HeadSingleValued'
    BY <1>1 DEF HeadInv, OnlyOwnerLocked, HeadHasKeys, HasKey,
                HeadSingleValued, Covers, TypeOK
  <1>3. KeysNumbered'
    BY <1>1 DEF HeadInv, KeysNumbered, TypeOK
  <1>4. RoomIsMade(c)'
    <2>1. TodoMeetsInterval(c)
      BY <1>1 DEF HeadInv
    <2>2. HasKey(lastId[c])'
      <3>1. new \in keyTbl' /\ new.obj = lastId'[c]
        BY <1>1
      <3> QED
        BY <3>1 DEF HasKey
    <2> QED
      BY <1>1, <2>1, <2>2 DEF RoomIsMade, TodoMeetsInterval, Covers
  <1>5. ASSUME NEW d \in Client
        PROVE  ClientInv(d)'
    <2>1. CASE d = c
      BY <1>1, <1>4, <2>1 DEF ClientInv
    <2>2. CASE d # c
      BY <1>1, <2>2, OthersUnaffected DEF HeadInv
    <2> QED
      BY <2>1, <2>2
  <1> QED
    BY <1>2, <1>3, <1>5 DEF HeadInv, ClientInv

LEMMA InsertHeadHeadInv ==
  ASSUME TypeOK, HeadInv, NEW c \in Client, InsertHead(c)
  PROVE  HeadInv'
  <1> DEFINE new == [obj |-> lastId[c], since |-> iv[c].since, till |-> iv[c].till]
  <1>1. /\ lock = c /\ pc' = [pc EXCEPT ![c] = "unlock"] /\ pc'[c] = "unlock"
        /\ headTbl' = headTbl \cup {new} /\ RoomIsMade(c)
        /\ UNCHANGED <<keyTbl, objSeq, lock>>
    BY DEF InsertHead, Goto, HeadInv, OnlyOwnerLocked, TypeOK
  <1>2. OnlyOwnerLocked' /\ KeysNumbered' /\ HeadHasKeys'
    BY <1>1 DEF HeadInv, OnlyOwnerLocked, KeysNumbered, HeadHasKeys, HasKey,
                RoomIsMade, TypeOK
  <1>3. \A p \in Time : Covers(new, p) => Covers(iv[c], p)
    BY DEF Covers
  <1>4. HeadSingleValued'
    BY <1>1, <1>3 DEF HeadInv, HeadSingleValued, RoomIsMade, Covers
  <1>5. ASSUME NEW d \in Client
        PROVE  ClientInv(d)'
    <2>1. CASE d = c
      BY <1>1, <2>1 DEF ClientInv
    <2>2. CASE d # c
      BY <1>1, <2>2, OthersUnaffected DEF HeadInv
    <2> QED
      BY <2>1, <2>2
  <1> QED
    BY <1>2, <1>4, <1>5 DEF HeadInv, ClientInv

LEMMA StepHeadInv ==
  ASSUME TypeOK, HeadInv, [Next]_vars
  PROVE  HeadInv'
  <1> USE DEF Goto, tables, locals
  <1>1. ASSUME NEW c \in Client, NEW i \in Interval, StoreData(c, i)
        PROVE  HeadInv'
    BY <1>1, QuietStepHeadInv DEF StoreData, TypeOK
  <1>2. ASSUME NEW c \in Client, LockTables(c)
        PROVE  HeadInv'
    BY <1>2, QuietStepHeadInv DEF LockTables, TypeOK
  <1>3. ASSUME NEW c \in Client, SelectOverlap(c)
        PROVE  HeadInv'
    BY <1>3, SelectHeadInv
  <1>4. ASSUME NEW c \in Client, NEW r \in todo[c],
               TrimEnd(c, r) \/ Swallow(c, r) \/ TrimStart(c, r) \/ SplitRow(c, r)
        PROVE  HeadInv'
    BY <1>4, RowStepHeadInv
  <1>5. ASSUME NEW c \in Client, InsertTail(c)
        PROVE  HeadInv'
    BY <1>5, InsertTailHeadInv
  <1>6. ASSUME NEW c \in Client, InsertKey(c)
        PROVE  HeadInv'
    BY <1>6, InsertKeyHeadInv
  <1>7. ASSUME NEW c \in Client, InsertHead(c)
        PROVE  HeadInv'
    BY <1>7, InsertHeadHeadInv
  <1>8. ASSUME NEW c \in Client, UnlockTables(c)
        PROVE  HeadInv'
    <2>1. lock = c
      BY <1>8 DEF UnlockTables, HeadInv, OnlyOwnerLocked
    <2> QED
      BY <1>8, <2>1, QuietStepHeadInv DEF UnlockTables, ForgetLocals, TypeOK
  <1>9. ASSUME NEW c \in Client, Crash(c)
        PROVE  HeadInv'
    BY <1>9, QuietStepHeadInv DEF Crash, Disconnect, ForgetLocals, TypeOK
  <1>10. ASSUME NEW c \in Client, StatementFails(c)
        PROVE  HeadInv'
    <2>1. lock = c
      BY <1>10 DEF StatementFails, HeadInv, OnlyOwnerLocked
    <2> QED
      BY <1>10, <2>1, QuietStepHeadInv DEF StatementFails, TypeOK
  <1>11. ASSUME NEW c \in Client, Close(c)
        PROVE  HeadInv'
    BY <1>11, QuietStepHeadInv DEF Close, Disconnect, ForgetLocals, TypeOK
  <1>12. CASE UNCHANGED vars
    BY <1>12 DEF vars, HeadInv, OnlyOwnerLocked, KeysNumbered, HeadHasKeys,
                 HasKey, HeadSingleValued, Covers, TodoMeetsInterval,
                 TailIsFree, RoomIsMade
  <1> QED
    BY <1>1, <1>2, <1>3, <1>4, <1>5, <1>6, <1>7, <1>8, <1>9, <1>10, <1>11, <1>12
    DEF Next, Step, Finished

LEMMA InitHeadInv == Init => HeadInv
  BY DEF Init, HeadInv, OnlyOwnerLocked, KeysNumbered, HeadHasKeys, HeadSingleValued

(* Init and every step keep HeadInv. *)
THEOREM HeadInvHolds == Spec => []HeadInv
  BY InitHeadInv, StepHeadInv, TypeCorrect, PTL DEF Spec

(* Types and the order of HEAD together, as the runs check them. *)
THEOREM StoreInvHolds == Spec => []StoreInv
  BY TypeCorrect, HeadInvHolds, PTL DEF StoreInv

(* HEAD never names two objects for one point in time, so findCondDBObject,
   which reads one row, does not depend on which: for all clients and all
   intervals, in the middle of a store and after any crash. *)
THEOREM HeadNamesOneObject == Spec => []HeadSingleValued
  <1>1. HeadInv => HeadSingleValued
    BY DEF HeadInv
  <1> QED
    BY <1>1, HeadInvHolds, PTL

-----------------------------------------------------------------------------
(* HEAD never goes back to an older object, and what it names is stored. *)

(* Each of the four statements of the loop puts pieces of a row of HEAD in
   its place; the tail, if there is one, is a piece of it, too. *)
PieceOf(n, h) == n.obj = h.obj /\ h.since <= n.since /\ n.till <= h.till

LEMMA RowStepPieces ==
  ASSUME TypeOK, HeadInv, NEW c \in Client, NEW r \in todo[c],
         TrimEnd(c, r) \/ Swallow(c, r) \/ TrimStart(c, r) \/ SplitRow(c, r)
  PROVE  /\ pc[c] = "rows" /\ r.head \in headTbl
         /\ UNCHANGED <<keyTbl, objSeq, datSeq, iv, dat, lastId, faults>>
         /\ \A h \in headTbl' : h \in headTbl \/ PieceOf(h, r.head)
         /\ \A t \in tail'[c] : t \in tail[c] \/ PieceOf(t, r.head)
         /\ \A d \in Client : d # c => tail'[d] = tail[d] /\ pc'[d] = pc[d]
         /\ pc'[c] \in {"rows", "split"}
         /\ pc'[c] = "split" => \A t \in tail'[c] : PieceOf(t, r.head)
  <1>1. /\ pc[c] = "rows" /\ TodoMeetsInterval(c)
        /\ UNCHANGED <<keyTbl, objSeq, datSeq, iv, dat, lastId, faults>>
    BY DEF TrimEnd, Swallow, TrimStart, SplitRow, NextRow, HeadInv
  <1>2. /\ r.head \in headTbl /\ r.head \in HeadRow
        /\ r.head.since < iv[c].till /\ r.head.till > iv[c].since
    BY <1>1 DEF TodoMeetsInterval, TypeOK
  <1>3. /\ r.head.since \in Int /\ r.head.till \in Int
        /\ iv[c].since \in Int /\ iv[c].till \in Int
    BY <1>2, TimeAssumption, IntervalType DEF HeadRow
  <1> DEFINE before == [r.head EXCEPT !.till = iv[c].since]
             after  == [r.head EXCEPT !.since = iv[c].till]
  <1>4. /\ iv[c].since <= r.head.till => PieceOf(before, r.head)
        /\ r.head.since <= iv[c].till => PieceOf(after, r.head)
    BY <1>2, <1>3 DEF PieceOf, HeadRow
  <1>5. PieceOf(before, r.head) /\ PieceOf(after, r.head)
    BY <1>2, <1>3, <1>4
  <1> HIDE DEF before, after
  <1>6. CASE TrimEnd(c, r)
    <2>1. headTbl' = (headTbl \ {r.head}) \cup {before} /\ UNCHANGED <<pc, tail>>
      BY <1>2, <1>6, ReplacedRows DEF TrimEnd, before
    <2> QED
      BY <1>1, <1>2, <1>5, <2>1
  <1>7. CASE Swallow(c, r)
    BY <1>1, <1>2, <1>7 DEF Swallow
  <1>8. CASE TrimStart(c, r)
    <2>1. headTbl' = (headTbl \ {r.head}) \cup {after} /\ UNCHANGED <<pc, tail>>
      BY <1>2, <1>8, ReplacedRows DEF TrimStart, after
    <2> QED
      BY <1>1, <1>2, <1>5, <2>1
  <1>9. CASE SplitRow(c, r)
    <2>1. headTbl' = (headTbl \ {r.head}) \cup {before}
      BY <1>2, <1>9, ReplacedRows DEF SplitRow, before
    <2>2. /\ tail'[c] = {after} /\ pc'[c] = "split"
          /\ \A d \in Client : d # c => tail'[d] = tail[d] /\ pc'[d] = pc[d]
      BY <1>9 DEF SplitRow, Goto, TypeOK, after
    <2> QED
      BY <1>1, <1>2, <1>5, <2>1, <2>2
  <1> QED
    BY <1>6, <1>7, <1>8, <1>9
-----------------------------------------------------------------------------
(* A piece covers no point that its row does not cover. *)
LEMMA PieceCovers ==
  ASSUME NEW h \in HeadRow, NEW n \in HeadRow, PieceOf(n, h),
         NEW p \in Time, Covers(n, p)
  PROVE  Covers(h, p)
  <1>1. /\ h.since \in Int /\ h.till \in Int /\ p \in Int
        /\ n.since \in Int /\ n.till \in Int
    BY TimeAssumption DEF HeadRow
  <1> QED
    BY <1>1 DEF PieceOf, Covers

LEMMA StepKeepsOrder ==
  ASSUME TypeOK, TypeOK', HeadInv, [Next]_vars, NEW p \in Time,
         NEW g \in headTbl, NEW h \in headTbl', Covers(g, p), Covers(h, p)
  PROVE  g.obj <= h.obj
  <1>1. g.obj \in Nat /\ h.obj \in Nat /\ g \in HeadRow /\ h \in HeadRow
    BY DEF TypeOK, HeadRow
  <1> SUFFICES g.obj = h.obj
    BY <1>1
  <1>2. CASE h \in headTbl
    BY <1>2 DEF HeadInv, HeadSingleValued
  <1>3. ASSUME NEW c \in Client, NEW r \in todo[c],
               TrimEnd(c, r) \/ Swallow(c, r) \/ TrimStart(c, r) \/ SplitRow(c, r)
        PROVE  g.obj = h.obj
    <2>1. r.head \in headTbl /\ (h \in headTbl \/ PieceOf(h, r.head))
      BY <1>3, RowStepPieces
    <2>2. CASE PieceOf(h, r.head)
      <3>1. Covers(r.head, p) /\ r.head.obj = h.obj
        BY <1>1, <2>1, <2>2, PieceCovers DEF TypeOK, PieceOf
      <3> QED
        BY <2>1, <3>1 DEF HeadInv, HeadSingleValued
    <2> QED
      BY <1>2, <2>1, <2>2
  <1>4. ASSUME NEW c \in Client, InsertTail(c)
        PROVE  g.obj = h.obj
    <2>1. TailIsFree(c) /\ (h \in headTbl \/ h \in tail[c])
      BY <1>4 DEF InsertTail, HeadInv
    <2> QED
      BY <1>2, <2>1 DEF TailIsFree
  <1>5. ASSUME NEW c \in Client, InsertHead(c)
        PROVE  g.obj = h.obj
    <2>1. RoomIsMade(c)
      BY <1>5 DEF InsertHead, HeadInv
    <2>2. h \in headTbl \/ (Covers(h, p) => Covers(iv[c], p))
      BY <1>5 DEF InsertHead, Covers
    <2> QED
      BY <1>2, <2>1, <2>2 DEF RoomIsMade
  <1>6. CASE headTbl' = headTbl
    BY <1>2, <1>6
  <1> QED
    BY <1>3, <1>4, <1>5, <1>6
    DEF Next, Step, StoreData, LockTables, SelectOverlap, InsertKey, UnlockTables,
        Crash, StatementFails, Close, Disconnect, Finished, vars, tables

(* No step of any client, whatever fails, puts an older object in the place
   of a newer one: a row that is cut leaves pieces of itself only, a tail is
   inserted where nothing else is, and so is the new object. *)
THEOREM HeadOnlyMovesOn == Spec => HeadNeverGoesBack
  <1>1. TypeOK /\ TypeOK' /\ HeadInv /\ [Next]_vars
          => [\A p \in Time : \A g \in headTbl, h \in headTbl' :
                Covers(g, p) /\ Covers(h, p) => g.obj <= h.obj]_vars
    BY StepKeepsOrder
  <1> QED
    BY <1>1, TypeCorrect, HeadInvHolds, PTL DEF Spec, HeadNeverGoesBack
-----------------------------------------------------------------------------
(* The object's data are stored before anything is locked, so what a client
   carries to its INSERT has to stay nobody else's on the way. *)
Storing == {"lock", "select", "rows", "split"}

WithinKey(h) ==
  \E k \in keyTbl : k.obj = h.obj /\ k.since <= h.since /\ h.till <= k.till

DataAreOwn(c) ==
  /\ dat[c] \in 1 .. datSeq
  /\ \A k \in keyTbl : k.dat # dat[c]
  /\ \A d \in Client : d # c /\ pc[d] \in Storing => dat[d] # dat[c]

KeyIsNew(c) ==
  \E k \in keyTbl : k.obj = lastId[c] /\ k.since = iv[c].since /\ k.till = iv[c].till

CarriesData(c) ==
  /\ pc[c] \in Storing => DataAreOwn(c)
  /\ pc[c] = "split" => \A t \in tail[c] : WithinKey(t)
  /\ pc[c] = "head" => KeyIsNew(c)

KeysNameData ==
  /\ \A k \in keyTbl : k.dat \in 1 .. datSeq
  /\ \A j, k \in keyTbl : j.dat = k.dat => j = k

DataInv ==
  /\ \A h \in headTbl : WithinKey(h)
  /\ KeysNameData
  /\ \A c \in Client : CarriesData(c)

(* A piece of a row is within the validity of its object when the row is. *)
LEMMA PieceWithinKey ==
  ASSUME TypeOK, NEW h \in HeadRow, NEW n \in HeadRow, PieceOf(n, h), WithinKey(h)
  PROVE  WithinKey(n)
  <1>1. PICK k \in keyTbl : k.obj = h.obj /\ k.since <= h.since /\ h.till <= k.till
    BY DEF WithinKey
  <1>2. k.since \in Int /\ k.till \in Int
    BY TimeAssumption DEF TypeOK, KeyRow
  <1>3. h.since \in Int /\ h.till \in Int /\ n.since \in Int /\ n.till \in Int
    BY TimeAssumption DEF HeadRow
  <1>4. n.obj = k.obj /\ k.since <= n.since /\ n.till <= k.till
    BY <1>1, <1>2, <1>3 DEF PieceOf
  <1> QED
    BY <1>4 DEF WithinKey

(* A step of one client that leaves the tables alone, and at most ends its
   call or moves on in it. *)
LEMMA QuietStepDataInv ==
  ASSUME TypeOK, DataInv, NEW c \in Client,
         keyTbl' = keyTbl, headTbl' = headTbl, datSeq' = datSeq,
         NEW label, pc' = [pc EXCEPT ![c] = label], label \notin {"split", "head"},
         label \in Storing => pc[c] \in Storing /\ dat'[c] = dat[c],
         \A d \in Client : d # c => /\ iv'[d] = iv[d] /\ dat'[d] = dat[d]
                                    /\ tail'[d] = tail[d] /\ lastId'[d] = lastId[d]
  PROVE  DataInv'
  <1>1. pc'[c] = label /\ \A d \in Client : d # c => pc'[d] = pc[d]
    BY DEF TypeOK
  <1>2. ASSUME NEW d \in Client
        PROVE  CarriesData(d)'
    <2>1. CarriesData(d) /\ CarriesData(c)
      BY DEF DataInv
    <2>2. CASE d = c
      <3>1. pc'[c] \in Storing => DataAreOwn(c)'
        BY <1>1, <2>1 DEF CarriesData, DataAreOwn
      <3> QED
        BY <1>1, <2>2, <3>1 DEF CarriesData
    <2>3. CASE d # c
      <3>1. pc[d] \in Storing => DataAreOwn(d)'
        BY <1>1, <2>1, <2>3 DEF CarriesData, DataAreOwn
      <3> QED
        BY <1>1, <2>1, <2>3, <3>1 DEF CarriesData, WithinKey, KeyIsNew
    <2> QED
      BY <2>2, <2>3
  <1> QED
    BY <1>2 DEF DataInv, KeysNameData, WithinKey

LEMMA StoreDataDataInv ==
  ASSUME TypeOK, DataInv, NEW c \in Client, NEW i \in Interval, StoreData(c, i)
  PROVE  DataInv'
  <1>1. /\ pc'[c] = "lock" /\ dat'[c] = datSeq + 1 /\ datSeq' = datSeq + 1
        /\ UNCHANGED <<keyTbl, headTbl, tail, lastId>> /\ datSeq \in Nat
        /\ \A d \in Client : d # c => pc'[d] = pc[d] /\ dat'[d] = dat[d] /\ iv'[d] = iv[d]
    BY DEF StoreData, Goto, TypeOK
  <1>2. /\ \A k \in keyTbl : k.dat \in 1 .. datSeq
        /\ \A d \in Client : pc[d] \in Storing => dat[d] \in 1 .. datSeq
    BY DEF DataInv, KeysNameData, CarriesData, DataAreOwn
  <1>3. ASSUME NEW d \in Client
        PROVE  CarriesData(d)'
    <2>1. CarriesData(d)
      BY DEF DataInv
    <2>2. CASE d = c
      BY <1>1, <1>2, <2>2 DEF CarriesData, DataAreOwn
    <2>3. CASE d # c
      <3>1. pc[d] \in Storing => DataAreOwn(d)'
        BY <1>1, <1>2, <2>1, <2>3 DEF CarriesData, DataAreOwn
      <3> QED
        BY <1>1, <2>1, <2>3, <3>1 DEF CarriesData, WithinKey, KeyIsNew
    <2> QED
      BY <2>2, <2>3
  <1>4. KeysNameData'
    BY <1>1, <1>2 DEF DataInv, KeysNameData
  <1> QED
    BY <1>1, <1>3, <1>4 DEF DataInv, WithinKey

(* A statement of the loop, and the INSERT of a tail: what HEAD and the tail
   hold afterwards are pieces of what they held. *)
LEMMA LoopDataInv ==
  ASSUME TypeOK, HeadInv, DataInv, NEW c \in Client, pc[c] \in {"rows", "split"},
         UNCHANGED <<keyTbl, datSeq, iv, dat, lastId>>,
         pc'[c] \in {"rows", "split"},
         \A d \in Client : d # c => tail'[d] = tail[d] /\ pc'[d] = pc[d],
         \A h \in headTbl' : WithinKey(h),
         pc'[c] = "split" => \A t \in tail'[c] : WithinKey(t)
  PROVE  DataInv'
  <1>1. ASSUME NEW d \in Client
        PROVE  CarriesData(d)'
    <2>1. CarriesData(d) /\ (pc'[d] \in Storing => pc[d] \in Storing)
      BY DEF DataInv, Storing
    <2>2. pc'[d] \in Storing => DataAreOwn(d)'
      BY <2>1 DEF CarriesData, DataAreOwn, Storing
    <2> QED
      BY <2>1, <2>2 DEF CarriesData, WithinKey, KeyIsNew
  <1> QED
    BY <1>1 DEF DataInv, KeysNameData, WithinKey

LEMMA RowStepDataInv ==
  ASSUME TypeOK, TypeOK', HeadInv, DataInv, NEW c \in Client, NEW r \in todo[c],
         TrimEnd(c, r) \/ Swallow(c, r) \/ TrimStart(c, r) \/ SplitRow(c, r)
  PROVE  DataInv'
  <1>1. WithinKey(r.head) /\ r.head \in HeadRow
    BY RowStepPieces DEF DataInv, TypeOK
  <1>2. \A h \in headTbl' : WithinKey(h)
    BY <1>1, RowStepPieces, PieceWithinKey DEF DataInv, TypeOK
  <1>3. pc'[c] = "split" => \A t \in tail'[c] : WithinKey(t)
    BY <1>1, RowStepPieces, PieceWithinKey DEF TypeOK
  <1> QED
    BY <1>2, <1>3, RowStepPieces, LoopDataInv

LEMMA InsertTailDataInv ==
  ASSUME TypeOK, HeadInv, DataInv, NEW c \in Client, InsertTail(c)
  PROVE  DataInv'
  <1>1. /\ pc[c] = "split" /\ pc'[c] = "rows"
        /\ UNCHANGED <<keyTbl, datSeq, iv, dat, lastId>>
        /\ \A d \in Client : d # c => tail'[d] = tail[d] /\ pc'[d] = pc[d]
        /\ headTbl' = headTbl \cup tail[c]
    BY DEF InsertTail, Goto, TypeOK
  <1>2. \A h \in headTbl' : WithinKey(h)
    BY <1>1 DEF DataInv, CarriesData
  <1> QED
    BY <1>1, <1>2, LoopDataInv

LEMMA InsertKeyDataInv ==
  ASSUME TypeOK, HeadInv, DataInv, NEW c \in Client, InsertKey(c)
  PROVE  DataInv'
  <1> DEFINE new == [obj |-> objSeq + 1, since |-> iv[c].since,
                     till |-> iv[c].till, layer |-> layer[c] + 1, dat |-> dat[c]]
  <1>1. /\ pc[c] = "rows" /\ pc'[c] = "head" /\ lastId'[c] = objSeq + 1
        /\ keyTbl' = keyTbl \cup {new} /\ UNCHANGED <<headTbl, datSeq, iv, dat, tail>>
        /\ \A d \in Client : d # c => pc'[d] = pc[d] /\ lastId'[d] = lastId[d]
    BY DEF InsertKey, Goto, TypeOK
  <1>2. DataAreOwn(c)
    BY <1>1 DEF DataInv, CarriesData, Storing
  <1>3. \A h : WithinKey(h) => WithinKey(h)'
    BY <1>1 DEF WithinKey
  <1>4. KeysNameData'
    BY <1>1, <1>2 DEF DataInv, KeysNameData, DataAreOwn
  <1>5. ASSUME NEW d \in Client
        PROVE  CarriesData(d)'
    <2>1. CASE d = c
      <3>1. new \in keyTbl' /\ new.obj = lastId'[c]
            /\ new.since = iv'[c].since /\ new.till = iv'[c].till
        BY <1>1
      <3>2. KeyIsNew(c)'
        BY <3>1 DEF KeyIsNew
      <3> QED
        BY <1>1, <2>1, <3>2 DEF CarriesData, Storing
    <2>2. CASE d # c
      <3>1. CarriesData(d) /\ pc'[d] = pc[d]
        BY <1>1, <2>2 DEF DataInv
      <3>2. pc[d] \in Storing => DataAreOwn(d)'
        <4>1. pc[d] \in Storing => dat[d] # dat[c]
          BY <1>2, <2>2 DEF DataAreOwn
        <4>2. new.dat = dat[c]
          OBVIOUS
        <4>3. \A e \in Client : pc'[e] \in Storing => pc[e] \in Storing
          BY <1>1 DEF Storing
        <4> QED
          BY <1>1, <3>1, <4>1, <4>2, <4>3 DEF CarriesData, DataAreOwn
      <3>3. pc[d] = "head" => KeyIsNew(d)'
        BY <1>1, <2>2, <3>1 DEF CarriesData, KeyIsNew
      <3> QED
        BY <1>1, <1>3, <3>1, <3>2, <3>3 DEF CarriesData
    <2> QED
      BY <2>1, <2>2
  <1> QED
    BY <1>1, <1>3, <1>4, <1>5 DEF DataInv

LEMMA InsertHeadDataInv ==
  ASSUME TypeOK, HeadInv, DataInv, NEW c \in Client, InsertHead(c)
  PROVE  DataInv'
  <1> DEFINE new == [obj |-> lastId[c], since |-> iv[c].since, till |-> iv[c].till]
  <1>1. /\ pc[c] = "head" /\ pc'[c] = "unlock" /\ headTbl' = headTbl \cup {new}
        /\ UNCHANGED <<keyTbl, datSeq, iv, dat, tail, lastId>>
        /\ \A d \in Client : d # c => pc'[d] = pc[d]
    BY DEF InsertHead, Goto, TypeOK, locals
  <1>2. WithinKey(new)
    <2>1. PICK k \in keyTbl : /\ k.obj = lastId[c] /\ k.since = iv[c].since
                              /\ k.till = iv[c].till
      BY <1>1 DEF DataInv, CarriesData, KeyIsNew
    <2>2. k.since \in Int /\ k.till \in Int
      BY TimeAssumption DEF TypeOK, KeyRow
    <2>3. k.obj = new.obj /\ k.since <= new.since /\ new.till <= k.till
      BY <2>1, <2>2
    <2> QED
      BY <2>3 DEF WithinKey
  <1>3. ASSUME NEW d \in Client
        PROVE  CarriesData(d)'
    <2>1. CASE d = c
      BY <1>1, <2>1 DEF CarriesData, Storing
    <2>2. CASE d # c
      <3>1. CarriesData(d) /\ pc'[d] = pc[d]
        BY <1>1, <2>2 DEF DataInv
      <3>2. \A e \in Client : pc'[e] \in Storing => pc[e] \in Storing
        BY <1>1 DEF Storing
      <3>3. pc[d] \in Storing => DataAreOwn(d)'
        BY <1>1, <3>1, <3>2 DEF CarriesData, DataAreOwn
      <3> QED
        BY <1>1, <3>1, <3>3 DEF CarriesData, WithinKey, KeyIsNew
    <2> QED
      BY <2>1, <2>2
  <1> QED
    BY <1>1, <1>2, <1>3 DEF DataInv, KeysNameData, WithinKey

LEMMA StepDataInv ==
  ASSUME TypeOK, TypeOK', HeadInv, DataInv, [Next]_vars
  PROVE  DataInv'
  <1> USE DEF Goto, tables, locals, Storing
  <1>1. ASSUME NEW c \in Client, NEW i \in Interval, StoreData(c, i)
        PROVE  DataInv'
    BY <1>1, StoreDataDataInv
  <1>2. ASSUME NEW c \in Client, LockTables(c)
        PROVE  DataInv'
    BY <1>2, QuietStepDataInv DEF LockTables
  <1>3. ASSUME NEW c \in Client, SelectOverlap(c)
        PROVE  DataInv'
    BY <1>3, QuietStepDataInv DEF SelectOverlap
  <1>4. ASSUME NEW c \in Client, NEW r \in todo[c],
               TrimEnd(c, r) \/ Swallow(c, r) \/ TrimStart(c, r) \/ SplitRow(c, r)
        PROVE  DataInv'
    BY <1>4, RowStepDataInv
  <1>5. ASSUME NEW c \in Client, InsertTail(c)
        PROVE  DataInv'
    BY <1>5, InsertTailDataInv
  <1>6. ASSUME NEW c \in Client, InsertKey(c)
        PROVE  DataInv'
    BY <1>6, InsertKeyDataInv
  <1>7. ASSUME NEW c \in Client, InsertHead(c)
        PROVE  DataInv'
    BY <1>7, InsertHeadDataInv
  <1>8. ASSUME NEW c \in Client, UnlockTables(c) \/ Crash(c) \/ Close(c)
        PROVE  DataInv'
    BY <1>8, QuietStepDataInv
    DEF UnlockTables, Crash, Close, Disconnect, ForgetLocals, TypeOK
  <1>9. ASSUME NEW c \in Client, StatementFails(c)
        PROVE  DataInv'
    BY <1>9, QuietStepDataInv DEF StatementFails
  <1>10. CASE UNCHANGED vars
    BY <1>10 DEF vars, DataInv, KeysNameData, CarriesData, DataAreOwn, WithinKey,
                 KeyIsNew
  <1> QED
    BY <1>1, <1>2, <1>3, <1>4, <1>5, <1>6, <1>7, <1>8, <1>9, <1>10
    DEF Next, Step, Finished

LEMMA InitDataInv == Init => DataInv
  BY DEF Init, DataInv, KeysNameData, CarriesData, Storing

(* For all clients, intervals and faults: each row of HEAD is a piece of the
   validity of an object whose data were stored before, for it alone. *)
THEOREM HeadDataAreStored == Spec => []HeadNamesStoredData
  <1>1. Spec => []DataInv
    BY InitDataInv, StepDataInv, TypeCorrect, HeadInvHolds, PTL DEF Spec
  <1>2. HeadInv /\ DataInv => HeadNamesStoredData
    BY DEF HeadInv, KeysNumbered, DataInv, KeysNameData, WithinKey, HeadNamesStoredData
  <1> QED
    BY <1>1, <1>2, HeadInvHolds, PTL

-----------------------------------------------------------------------------
(* ObjectStore implements ObjectTimeline: as long as nothing fails, HEAD
   between two stores is at every point the last object stored there, and a
   store is one step for whoever reads it. *)

(* NewestAt of a given key table. *)
NewestIn(keys, p, n) ==
  {k.obj : k \in {j \in keys : /\ j.obj <= n /\ Covers(j, p)
                               /\ \A l \in keys : l.obj <= n /\ Covers(l, p)
                                                    => l.obj <= j.obj}}

(* A client between the overlap query and the INSERT into HEAD has changed
   HEAD on the interval of its object, and nowhere else. *)
InLoop == {"rows", "split", "head"}

TailAt(c, p) ==
  {t.obj : t \in {u \in tail[c] : pc[c] = "split" /\ Covers(u, p)}}

LatestOutside(c) ==
  \A p \in Time : ~Covers(iv[c], p) => HeadAt(p) \cup TailAt(c, p) = NewestAt(p, objSeq)

LastKeyIsOf(c) ==
  /\ lastId[c] = objSeq
  /\ \E k \in keyTbl : k.obj = objSeq /\ k.since = iv[c].since /\ k.till = iv[c].till

LatestInv ==
  faults = 0 =>
    /\ \A c \in Client : pc[c] # "failed"
    /\ (\A c \in Client : pc[c] \notin InLoop) => \A p \in Time : HeadAt(p) = NewestAt(p, objSeq)
    /\ \A c \in Client : /\ pc[c] \in InLoop => LatestOutside(c)
                         /\ pc[c] \in {"head", "unlock"} => LastKeyIsOf(c)

(* The object whose key was inserted last is the newest one wherever it is
   valid, and makes no difference elsewhere. *)
LEMMA NewestIsLast ==
  ASSUME NEW n \in Nat, NEW keys \in SUBSET KeyRow, \A k \in keys : k.obj <= n,
         NEW k \in keys, k.obj = n, \A j \in keys : j.obj = n => j = k,
         NEW p \in Time
  PROVE  /\ Covers(k, p) => NewestIn(keys, p, n) = {n}
         /\ ~Covers(k, p) => NewestIn(keys, p, n) = NewestIn(keys, p, n - 1)
  <1>1. \A j \in keys : j.obj \in Nat
    BY DEF KeyRow
  <1>2. CASE Covers(k, p)
    BY <1>1, <1>2 DEF NewestIn
  <1>3. CASE ~Covers(k, p)
    <2>1. \A j \in keys : Covers(j, p) => (j.obj <= n <=> j.obj <= n - 1)
      BY <1>1, <1>3
    <2> QED
      BY <1>3, <2>1 DEF NewestIn
  <1> QED
    BY <1>2, <1>3

(* A key that is inserted with the next number changes nothing among those
   before it. *)
LEMMA NewestWithoutNext ==
  ASSUME NEW n \in Nat, NEW keys \in SUBSET KeyRow, NEW k, k.obj = n + 1, NEW p \in Time
  PROVE  NewestIn(keys \cup {k}, p, n) = NewestIn(keys, p, n)
  <1>1. ~(k.obj <= n)
    OBVIOUS
  <1> QED
    BY <1>1 DEF NewestIn

LEMMA NewestOfTable == \A p, n : NewestAt(p, n) = NewestIn(keyTbl, p, n)
  BY DEF NewestAt, NewestIn

(* The same, for the table and the owner of the last key in it. *)
LEMMA NewestOfOwner ==
  ASSUME TypeOK, HeadInv, NEW c \in Client, LastKeyIsOf(c), NEW p \in Time
  PROVE  /\ Covers(iv[c], p) => NewestAt(p, objSeq) = {objSeq}
         /\ ~Covers(iv[c], p) => NewestAt(p, objSeq) = NewestAt(p, objSeq - 1)
  <1>1. PICK k \in keyTbl : k.obj = objSeq /\ k.since = iv[c].since /\ k.till = iv[c].till
    BY DEF LastKeyIsOf
  <1>2. Covers(k, p) <=> Covers(iv[c], p)
    BY <1>1 DEF Covers
  <1>3. /\ objSeq \in Nat /\ keyTbl \in SUBSET KeyRow
        /\ \A j \in keyTbl : j.obj <= objSeq /\ (j.obj = objSeq => j = k)
    BY <1>1 DEF HeadInv, KeysNumbered, TypeOK
  <1> QED
    BY <1>1, <1>2, <1>3, NewestIsLast, NewestOfTable
-----------------------------------------------------------------------------
(* A step that changes neither table leaves every other client as it was. *)
LEMMA QuietStepLatest ==
  ASSUME TypeOK, LatestInv, NEW c \in Client, pc[c] \notin InLoop,
         UNCHANGED <<keyTbl, headTbl, objSeq, faults>>,
         NEW label, pc' = [pc EXCEPT ![c] = label],
         label \notin InLoop \cup {"failed", "unlock"},
         \A d \in Client : d # c => iv'[d] = iv[d] /\ tail'[d] = tail[d] /\ lastId'[d] = lastId[d]
  PROVE  LatestInv'
  <1> SUFFICES ASSUME faults = 0
               PROVE  LatestInv'
    BY DEF LatestInv
  <1>1. pc'[c] = label /\ \A d \in Client : d # c => pc'[d] = pc[d]
    BY DEF TypeOK
  <1>2. \A p : HeadAt(p)' = HeadAt(p) /\ NewestAt(p, objSeq)' = NewestAt(p, objSeq)
    BY DEF HeadAt, NewestAt, Covers
  <1>3. ASSUME NEW d \in Client, d # c
        PROVE  /\ pc[d] \in InLoop => LatestOutside(d)'
               /\ pc[d] \in {"head", "unlock"} => LastKeyIsOf(d)'
    BY <1>1, <1>2, <1>3 DEF LatestInv, LatestOutside, LastKeyIsOf, TailAt, Covers
  <1>4. pc'[c] \notin InLoop \cup {"failed", "head", "unlock"}
    BY <1>1 DEF InLoop
  <1>5. \A p \in Time : (\A d \in Client : pc[d] \notin InLoop) => HeadAt(p)' = NewestAt(p, objSeq)'
    BY <1>2 DEF LatestInv
  <1>6. (\A d \in Client : pc'[d] \notin InLoop) <=> (\A d \in Client : pc[d] \notin InLoop)
    BY <1>1, <1>4
  <1> QED
    BY <1>1, <1>3, <1>4, <1>5, <1>6 DEF LatestInv

(* A step of the owner of the lock under which it stays in the loop: nobody
   else is in it, so its own part is all there is to show. *)
LEMMA OwnerStepLatest ==
  ASSUME TypeOK, HeadInv, LatestInv, faults' = 0 => faults = 0, NEW c \in Client,
         pc[c] \in Locked, NEW label, pc' = [pc EXCEPT ![c] = label], label # "failed",
         faults' = 0 =>
           /\ label \notin InLoop => \A p \in Time : (HeadAt(p) = NewestAt(p, objSeq))'
           /\ label \in InLoop => LatestOutside(c)'
           /\ label \in {"head", "unlock"} => LastKeyIsOf(c)'
  PROVE  LatestInv'
  <1>1. pc'[c] = label /\ \A d \in Client : d # c => pc'[d] = pc[d] /\ pc[d] \notin Locked
    BY DEF TypeOK, HeadInv, OnlyOwnerLocked
  <1>2. \A d \in Client : d # c => pc'[d] \notin InLoop \cup {"failed", "head", "unlock"}
    BY <1>1 DEF Locked, InLoop
  <1> QED
    BY <1>1, <1>2 DEF LatestInv

LEMMA SelectLatest ==
  ASSUME TypeOK, HeadInv, LatestInv, NEW c \in Client, SelectOverlap(c)
  PROVE  LatestInv'
  <1>1. /\ pc[c] = "select" /\ pc' = [pc EXCEPT ![c] = "rows"] /\ pc'[c] = "rows"
        /\ UNCHANGED <<keyTbl, headTbl, objSeq, iv, faults>>
        /\ \A d \in Client : pc[d] \notin InLoop
    BY DEF SelectOverlap, Goto, TypeOK, HeadInv, OnlyOwnerLocked, tables, Locked, InLoop
  <1>2. faults = 0 => LatestOutside(c)'
    BY <1>1 DEF LatestInv, LatestOutside, TailAt, HeadAt, NewestAt, Covers
  <1> QED
    BY <1>1, <1>2, OwnerStepLatest DEF Locked, InLoop

(* The four statements of the loop take from HEAD only what lies in the
   interval of the new object, and what they owe it is in the tail. *)
LEMMA RowStepKeepsOutside ==
  ASSUME TypeOK, TypeOK', HeadInv, NEW c \in Client, NEW r \in todo[c],
         TrimEnd(c, r) \/ Swallow(c, r) \/ TrimStart(c, r) \/ SplitRow(c, r),
         NEW p \in Time, ~Covers(iv[c], p)
  PROVE  (HeadAt(p) \cup TailAt(c, p))' = HeadAt(p)
  <1>1. /\ pc[c] = "rows" /\ r.head \in headTbl /\ r.head \in HeadRow
        /\ \A h \in headTbl' : h \in headTbl \/ PieceOf(h, r.head)
        /\ pc'[c] = "split" => \A t \in tail'[c] : PieceOf(t, r.head)
    BY RowStepPieces DEF TypeOK
  <1>2. /\ r.head.since \in Int /\ r.head.till \in Int /\ p \in Int
        /\ iv[c].since \in Int /\ iv[c].till \in Int
    BY <1>1, TimeAssumption, IntervalType DEF HeadRow
  <1> DEFINE before == [r.head EXCEPT !.till = iv[c].since]
             after  == [r.head EXCEPT !.since = iv[c].till]
  <1>3. /\ before.obj = r.head.obj /\ before.since = r.head.since /\ before.till = iv[c].since
        /\ after.obj = r.head.obj /\ after.since = iv[c].till /\ after.till = r.head.till
    BY <1>1 DEF HeadRow
  <1> HIDE DEF before, after
  <1>4. /\ headTbl \ {r.head} \subseteq headTbl'
        /\ Covers(r.head, p) =>
             \/ \E n \in headTbl' : n.obj = r.head.obj /\ Covers(n, p)
             \/ pc'[c] = "split" /\ \E n \in tail'[c] : n.obj = r.head.obj /\ Covers(n, p)
    <2>1. CASE TrimEnd(c, r)
      <3>1. headTbl' = (headTbl \ {r.head}) \cup {before}
        BY <1>1, <2>1, ReplacedRows DEF TrimEnd, before
      <3>2. Covers(r.head, p) => Covers(before, p)
        BY <1>2, <1>3, <2>1 DEF TrimEnd, Covers
      <3> QED
        BY <1>3, <3>1, <3>2
    <2>2. CASE Swallow(c, r)
      <3>1. ~Covers(r.head, p)
        BY <1>2, <2>2 DEF Swallow, Covers
      <3> QED
        BY <2>2, <3>1 DEF Swallow
    <2>3. CASE TrimStart(c, r)
      <3>1. headTbl' = (headTbl \ {r.head}) \cup {after}
        BY <1>1, <2>3, ReplacedRows DEF TrimStart, after
      <3>2. Covers(r.head, p) => Covers(after, p)
        BY <1>2, <1>3, <2>3 DEF TrimStart, Covers
      <3> QED
        BY <1>3, <3>1, <3>2
    <2>4. CASE SplitRow(c, r)
      <3>1. headTbl' = (headTbl \ {r.head}) \cup {before}
        BY <1>1, <2>4, ReplacedRows DEF SplitRow, before
      <3>2. tail'[c] = {after} /\ pc'[c] = "split"
        BY <2>4 DEF SplitRow, Goto, TypeOK, after
      <3>3. Covers(r.head, p) => Covers(before, p) \/ Covers(after, p)
        BY <1>2, <1>3, <2>4 DEF SplitRow, Covers
      <3> QED
        BY <1>3, <3>1, <3>2, <3>3
    <2> QED
      BY <2>1, <2>2, <2>3, <2>4
  <1>5. ASSUME NEW o \in HeadAt(p)
        PROVE  o \in (HeadAt(p) \cup TailAt(c, p))'
    <2>1. PICK h \in headTbl : h.obj = o /\ Covers(h, p)
      BY DEF HeadAt
    <2>2. \/ \E n \in headTbl' : n.obj = o /\ Covers(n, p)
          \/ pc'[c] = "split" /\ \E n \in tail'[c] : n.obj = o /\ Covers(n, p)
      BY <1>4, <2>1
    <2> QED
      BY <2>2 DEF HeadAt, TailAt, Covers
  <1>6. ASSUME NEW o \in (HeadAt(p) \cup TailAt(c, p))'
        PROVE  o \in HeadAt(p)
    <2>1. \/ \E n \in headTbl' : n.obj = o /\ Covers(n, p)
          \/ pc'[c] = "split" /\ \E n \in tail'[c] : n.obj = o /\ Covers(n, p)
      BY <1>6 DEF HeadAt, TailAt, Covers
    <2>2. \E h \in headTbl : h.obj = o /\ Covers(h, p)
      <3>1. \A n \in headTbl' \cup tail'[c] :
              n \in HeadRow /\ (PieceOf(n, r.head) /\ Covers(n, p) => Covers(r.head, p))
        BY <1>1, PieceCovers DEF TypeOK
      <3> QED
        BY <1>1, <2>1, <3>1 DEF PieceOf
    <2> QED
      BY <2>2 DEF HeadAt
  <1> QED
    BY <1>5, <1>6

LEMMA RowStepLatest ==
  ASSUME TypeOK, TypeOK', HeadInv, LatestInv, NEW c \in Client, NEW r \in todo[c],
         TrimEnd(c, r) \/ Swallow(c, r) \/ TrimStart(c, r) \/ SplitRow(c, r)
  PROVE  LatestInv'
  <1>1. /\ pc[c] = "rows" /\ UNCHANGED <<keyTbl, objSeq, iv, faults>>
        /\ pc'[c] \in {"rows", "split"}
        /\ \A d \in Client : d # c => pc'[d] = pc[d]
    BY RowStepPieces
  <1>2. pc' = [pc EXCEPT ![c] = pc'[c]]
    BY <1>1 DEF TypeOK
  <1>3. ASSUME faults = 0
        PROVE  LatestOutside(c)'
    <2>1. \A p \in Time : ~Covers(iv[c], p) => HeadAt(p) = NewestAt(p, objSeq)
      <3>1. \A p : TailAt(c, p) = {}
        BY <1>1 DEF TailAt
      <3>2. LatestOutside(c)
        BY <1>1, <1>3 DEF LatestInv, InLoop
      <3> QED
        BY <3>1, <3>2 DEF LatestOutside
    <2>2. \A p \in Time : NewestAt(p, objSeq)' = NewestAt(p, objSeq)
      BY <1>1 DEF NewestAt, Covers
    <2>3. \A p \in Time : Covers(iv[c], p)' <=> Covers(iv[c], p)
      BY <1>1 DEF Covers
    <2> QED
      BY <2>1, <2>2, <2>3, RowStepKeepsOutside DEF LatestOutside
  <1> QED
    BY <1>1, <1>2, <1>3, OwnerStepLatest DEF Locked, InLoop

LEMMA InsertTailLatest ==
  ASSUME TypeOK, HeadInv, LatestInv, NEW c \in Client, InsertTail(c)
  PROVE  LatestInv'
  <1>1. /\ pc[c] = "split" /\ pc' = [pc EXCEPT ![c] = "rows"] /\ pc'[c] = "rows"
        /\ headTbl' = headTbl \cup tail[c]
        /\ UNCHANGED <<keyTbl, objSeq, iv, faults>>
    BY DEF InsertTail, Goto, TypeOK
  <1>2. \A p \in Time : (HeadAt(p) \cup TailAt(c, p))' = HeadAt(p) \cup TailAt(c, p)
    BY <1>1 DEF HeadAt, TailAt, Covers
  <1>3. \A p \in Time : NewestAt(p, objSeq)' = NewestAt(p, objSeq)
    BY <1>1 DEF NewestAt, Covers
  <1>4. faults = 0 => LatestOutside(c)'
    BY <1>1, <1>2, <1>3 DEF LatestInv, LatestOutside, InLoop, Covers
  <1> QED
    BY <1>1, <1>4, OwnerStepLatest DEF Locked, InLoop

LEMMA InsertKeyLatest ==
  ASSUME TypeOK, TypeOK', HeadInv, HeadInv', LatestInv, NEW c \in Client, InsertKey(c)
  PROVE  LatestInv'
  <1> DEFINE new == [obj |-> objSeq + 1, since |-> iv[c].since,
                     till |-> iv[c].till, layer |-> layer[c] + 1, dat |-> dat[c]]
  <1>1. /\ pc[c] = "rows" /\ pc' = [pc EXCEPT ![c] = "head"] /\ pc'[c] = "head"
        /\ keyTbl' = keyTbl \cup {new} /\ objSeq' = objSeq + 1
        /\ lastId'[c] = objSeq + 1 /\ UNCHANGED <<headTbl, iv, faults>>
        /\ objSeq \in Nat /\ keyTbl \in SUBSET KeyRow
    BY DEF InsertKey, Goto, TypeOK
  <1>2. new \in keyTbl' /\ new.obj = objSeq' /\ new.since = iv'[c].since /\ new.till = iv'[c].till
    BY <1>1
  <1>3. LastKeyIsOf(c)'
    BY <1>1, <1>2 DEF LastKeyIsOf
  <1>4. ASSUME faults = 0, NEW p \in Time, ~Covers(iv[c], p)
        PROVE  (HeadAt(p) \cup TailAt(c, p))' = NewestAt(p, objSeq)'
    <2>1. (HeadAt(p) \cup TailAt(c, p))' = HeadAt(p) /\ HeadAt(p) = NewestAt(p, objSeq)
      BY <1>1, <1>4 DEF LatestInv, LatestOutside, TailAt, HeadAt, Covers, InLoop
    <2>2. NewestAt(p, objSeq) = NewestIn(keyTbl, p, objSeq)
      BY NewestOfTable
    <2>3. NewestAt(p, objSeq)' = NewestIn(keyTbl', p, objSeq')
      BY DEF NewestAt, NewestIn, Covers
    <2>4. NewestIn(keyTbl', p, objSeq') = NewestIn(keyTbl', p, objSeq' - 1)
      <3>1. /\ objSeq' \in Nat /\ keyTbl' \in SUBSET KeyRow
            /\ \A j \in keyTbl' : j.obj <= objSeq' /\ (j.obj = objSeq' => j = new)
        BY <1>2 DEF HeadInv, KeysNumbered, TypeOK
      <3>2. ~Covers(new, p)
        BY <1>4 DEF Covers
      <3> HIDE DEF new
      <3> QED
        BY <1>2, <3>1, <3>2, NewestIsLast
    <2>5. NewestIn(keyTbl', p, objSeq) = NewestIn(keyTbl, p, objSeq)
      <3>1. new.obj = objSeq + 1
        OBVIOUS
      <3> HIDE DEF new
      <3> QED
        BY <1>1, <3>1, NewestWithoutNext
    <2> QED
      BY <1>1, <2>1, <2>2, <2>3, <2>4, <2>5
  <1>5. faults = 0 => LatestOutside(c)'
    BY <1>1, <1>4 DEF LatestOutside, Covers
  <1> QED
    BY <1>1, <1>3, <1>5, OwnerStepLatest DEF Locked, InLoop

LEMMA InsertHeadLatest ==
  ASSUME TypeOK, HeadInv, LatestInv, NEW c \in Client, InsertHead(c)
  PROVE  LatestInv'
  <1> DEFINE new == [obj |-> lastId[c], since |-> iv[c].since, till |-> iv[c].till]
  <1>1. /\ pc[c] = "head" /\ pc' = [pc EXCEPT ![c] = "unlock"] /\ RoomIsMade(c)
        /\ headTbl' = headTbl \cup {new}
        /\ UNCHANGED <<keyTbl, objSeq, iv, lastId, faults>>
    BY DEF InsertHead, Goto, TypeOK, HeadInv, locals
  <1>2. ASSUME faults = 0, NEW p \in Time
        PROVE  (HeadAt(p) = NewestAt(p, objSeq))'
    <2>1. LastKeyIsOf(c) /\ LatestOutside(c)
      BY <1>1, <1>2 DEF LatestInv, InLoop
    <2>2. NewestAt(p, objSeq)' = NewestAt(p, objSeq)
      BY <1>1 DEF NewestAt, Covers
    <2>3. Covers(new, p) <=> Covers(iv[c], p)
      BY DEF Covers
    <2>4. HeadAt(p)' = {h.obj : h \in {g \in headTbl \cup {new} : Covers(g, p)}}
      BY <1>1 DEF HeadAt, Covers
    <2>5. CASE Covers(iv[c], p)
      <3>1. {g \in headTbl \cup {new} : Covers(g, p)} = {new}
        BY <1>1, <2>3, <2>5 DEF RoomIsMade
      <3>2. HeadAt(p)' = {objSeq}
        <4>1. new.obj = objSeq
          BY <2>1 DEF LastKeyIsOf
        <4> HIDE DEF new
        <4> QED
          BY <2>4, <3>1, <4>1
      <3> QED
        BY <2>1, <2>2, <2>5, <3>2, NewestOfOwner
    <2>6. CASE ~Covers(iv[c], p)
      <3>1. HeadAt(p)' = HeadAt(p)
        BY <2>3, <2>4, <2>6 DEF HeadAt
      <3>2. HeadAt(p) = NewestAt(p, objSeq)
        BY <1>1, <2>1, <2>6 DEF LatestOutside, TailAt
      <3> QED
        BY <2>2, <3>1, <3>2
    <2> QED
      BY <2>5, <2>6
  <1>3. faults = 0 => LastKeyIsOf(c)'
    BY <1>1 DEF LatestInv, LastKeyIsOf
  <1> QED
    BY <1>1, <1>2, <1>3, OwnerStepLatest DEF Locked, InLoop

LEMMA StepLatestInv ==
  ASSUME TypeOK, TypeOK', HeadInv, HeadInv', LatestInv, [Next]_vars
  PROVE  LatestInv'
  <1> USE DEF Goto, tables, locals
  <1>1. ASSUME NEW c \in Client, NEW i \in Interval, StoreData(c, i)
        PROVE  LatestInv'
    BY <1>1, QuietStepLatest DEF StoreData, TypeOK, InLoop
  <1>2. ASSUME NEW c \in Client, LockTables(c)
        PROVE  LatestInv'
    BY <1>2, QuietStepLatest DEF LockTables, InLoop
  <1>3. ASSUME NEW c \in Client, SelectOverlap(c)
        PROVE  LatestInv'
    BY <1>3, SelectLatest
  <1>4. ASSUME NEW c \in Client, NEW r \in todo[c],
               TrimEnd(c, r) \/ Swallow(c, r) \/ TrimStart(c, r) \/ SplitRow(c, r)
        PROVE  LatestInv'
    BY <1>4, RowStepLatest
  <1>5. ASSUME NEW c \in Client, InsertTail(c)
        PROVE  LatestInv'
    BY <1>5, InsertTailLatest
  <1>6. ASSUME NEW c \in Client, InsertKey(c)
        PROVE  LatestInv'
    BY <1>6, InsertKeyLatest
  <1>7. ASSUME NEW c \in Client, InsertHead(c)
        PROVE  LatestInv'
    BY <1>7, InsertHeadLatest
  <1>8. ASSUME NEW c \in Client, UnlockTables(c)
        PROVE  LatestInv'
    BY <1>8, QuietStepLatest DEF UnlockTables, ForgetLocals, TypeOK, InLoop
  <1>9. ASSUME NEW c \in Client, Crash(c) \/ StatementFails(c)
        PROVE  LatestInv'
    BY <1>9 DEF Crash, StatementFails, LatestInv, TypeOK
  <1>10. ASSUME NEW c \in Client, Close(c)
         PROVE  LatestInv'
    BY <1>10 DEF Close, LatestInv
  <1>11. CASE UNCHANGED vars
    <2>1. /\ \A p : HeadAt(p)' = HeadAt(p) /\ NewestAt(p, objSeq)' = NewestAt(p, objSeq)
          /\ \A c, p : TailAt(c, p)' = TailAt(c, p) /\ Covers(iv[c], p)' = Covers(iv[c], p)
      BY <1>11 DEF vars, HeadAt, NewestAt, TailAt, Covers
    <2>2. \A c \in Client : /\ LatestOutside(c)' <=> LatestOutside(c)
                            /\ LastKeyIsOf(c)' <=> LastKeyIsOf(c)
      BY <1>11, <2>1 DEF vars, LatestOutside, LastKeyIsOf
    <2> QED
      BY <1>11, <2>1, <2>2 DEF vars, LatestInv
  <1> QED
    BY <1>1, <1>2, <1>3, <1>4, <1>5, <1>6, <1>7, <1>8, <1>9, <1>10, <1>11
    DEF Next, Step, Finished

LEMMA InitLatestInv == Init => LatestInv
  BY DEF Init, LatestInv, HeadAt, NewestAt, InLoop

LEMMA LatestInvHolds == Spec => []LatestInv
  BY InitLatestInv, StepLatestInv, TypeCorrect, HeadInvHolds, PTL DEF Spec

(* Between two stores HEAD is at every point the last object stored there,
   as long as nothing has failed: the splits and cuts of any number of stores
   lose no piece of an object that is not covered, and bring none back. *)
THEOREM HeadIsNewest == Spec => []HeadIsLatest
  <1>1. TypeOK /\ HeadInv /\ LatestInv => HeadIsLatest
    BY NobodyAssumption
    DEF TypeOK, HeadInv, OnlyOwnerLocked, LatestInv, HeadIsLatest, InLoop, Locked
  <1> QED
    BY <1>1, TypeCorrect, HeadInvHolds, LatestInvHolds, PTL
-----------------------------------------------------------------------------
(* What readers can see is at each point the newest object that is
   committed: while a store is under way they wait. *)
VisibleIsCommitted == VisibleHead = [p \in Time |-> Object(NewestAt(p, Committed))]

LEMMA VisibleIsNewest ==
  ASSUME TypeOK, HeadInv, LatestInv, faults = 0
  PROVE  VisibleIsCommitted
  <1>1. CASE lock = Nobody
    <2>1. \A c \in Client : pc[c] \notin InLoop \cup {"head", "unlock"}
      BY <1>1, NobodyAssumption DEF HeadInv, OnlyOwnerLocked, Locked, InLoop
    <2>2. Committed = objSeq
      BY <2>1 DEF Committed
    <2>3. \A p \in Time : HeadAt(p) = NewestAt(p, Committed)
      BY <2>1, <2>2 DEF LatestInv
    <2> QED
      BY <1>1, <2>3 DEF VisibleHead, VisibleIsCommitted
  <1>2. CASE lock # Nobody
    BY <1>2 DEF VisibleHead, VisibleIsCommitted
  <1> QED
    BY <1>1, <1>2

(* The INSERT of a key is not to be seen yet. *)
LEMMA InsertKeyNotVisible ==
  ASSUME TypeOK, HeadInv, NEW c \in Client, InsertKey(c)
  PROVE  Committed' = Committed /\ \A p \in Time : NewestAt(p, Committed)' = NewestAt(p, Committed)
  <1> DEFINE new == [obj |-> objSeq + 1, since |-> iv[c].since,
                     till |-> iv[c].till, layer |-> layer[c] + 1, dat |-> dat[c]]
  <1>1. /\ pc[c] = "rows" /\ pc'[c] = "head" /\ objSeq' = objSeq + 1
        /\ keyTbl' = keyTbl \cup {new} /\ objSeq \in Nat /\ keyTbl \in SUBSET KeyRow
    BY DEF InsertKey, Goto, TypeOK
  <1>2. \A d \in Client : pc[d] \notin {"head", "unlock"}
    BY <1>1 DEF HeadInv, OnlyOwnerLocked, Locked
  <1>3. Committed = objSeq /\ Committed' = objSeq
    BY <1>1, <1>2 DEF Committed
  <1>4. ASSUME NEW p \in Time
        PROVE  NewestAt(p, Committed)' = NewestAt(p, Committed)
    <2>1. NewestAt(p, Committed)' = NewestIn(keyTbl', p, objSeq)
      BY <1>3 DEF NewestAt, NewestIn, Covers
    <2>2. new.obj = objSeq + 1
      OBVIOUS
    <2> HIDE DEF new
    <2>3. NewestIn(keyTbl', p, objSeq) = NewestIn(keyTbl, p, objSeq)
      BY <1>1, <2>2, NewestWithoutNext
    <2> QED
      BY <1>3, <2>1, <2>3, NewestOfTable
  <1> QED
    BY <1>3, <1>4

(* UNLOCK TABLES shows the new object on all of its interval at once. *)
LEMMA UnlockShowsObject ==
  ASSUME TypeOK, HeadInv, LatestInv, faults = 0, NEW c \in Client, UnlockTables(c)
  PROVE  /\ Committed' = Committed + 1
         /\ \A p \in Time : NewestAt(p, Committed)' =
              IF Covers(iv[c], p) THEN {Committed + 1} ELSE NewestAt(p, Committed)
  <1>1. /\ pc[c] = "unlock" /\ pc'[c] = "idle" /\ objSeq' = objSeq /\ objSeq \in Nat
        /\ keyTbl' = keyTbl /\ \A d \in Client : d # c => pc'[d] = pc[d]
    BY DEF UnlockTables, Goto, TypeOK, tables
  <1>2. \A d \in Client : pc'[d] \notin {"head", "unlock"}
    BY <1>1 DEF HeadInv, OnlyOwnerLocked, Locked
  <1>3. Committed = objSeq - 1 /\ Committed' = objSeq
    BY <1>1, <1>2 DEF Committed
  <1>4. \A p : NewestAt(p, Committed)' = NewestAt(p, objSeq)
    BY <1>1, <1>3 DEF NewestAt, Covers
  <1>5. LastKeyIsOf(c)
    BY <1>1 DEF LatestInv
  <1> QED
    BY <1>1, <1>3, <1>4, <1>5, NewestOfOwner

(* No other statement changes what is committed. *)
LEMMA OtherStepNotVisible ==
  ASSUME keyTbl' = keyTbl, objSeq' = objSeq,
         (\E c \in Client : pc'[c] \in {"head", "unlock"})
           <=> (\E c \in Client : pc[c] \in {"head", "unlock"})
  PROVE  Committed' = Committed /\ \A p \in Time : NewestAt(p, Committed)' = NewestAt(p, Committed)
  <1>1. Committed' = Committed
    BY DEF Committed
  <1> QED
    BY <1>1 DEF NewestAt, Covers

LEMMA StepImplementsTimeline ==
  ASSUME TypeOK, TypeOK', HeadInv, HeadInv', LatestInv, LatestInv',
         VisibleIsCommitted, VisibleIsCommitted', faults = 0, faults' = 0, [Next]_vars
  PROVE  [Timeline!Next]_<<Committed, VisibleHead>>
  <1>1. /\ VisibleHead = [p \in Time |-> Object(NewestAt(p, Committed))]
        /\ VisibleHead' = [p \in Time |-> Object(NewestAt(p, Committed)')]
    BY DEF VisibleIsCommitted, Object
  <1>2. (Committed' = Committed /\ \A p \in Time : NewestAt(p, Committed)' = NewestAt(p, Committed))
          => UNCHANGED <<Committed, VisibleHead>>
    BY <1>1
  <1>3. ASSUME NEW c \in Client, InsertKey(c)
        PROVE  UNCHANGED <<Committed, VisibleHead>>
    BY <1>2, <1>3, InsertKeyNotVisible
  <1>4. ASSUME NEW c \in Client, UnlockTables(c)
        PROVE  Timeline!Next
    <2> DEFINE i == iv[c]
    <2>1. i \in Interval /\ Committed' = Committed + 1
      BY <1>4, UnlockShowsObject DEF TypeOK
    <2>2. \A n : Object({n}) = n
      BY DEF Object
    <2>3. ASSUME NEW p \in Time
          PROVE  Object(NewestAt(p, Committed)')
                   = IF i.since <= p /\ p < i.till THEN Committed + 1 ELSE VisibleHead[p]
      BY <1>1, <1>4, <2>2, UnlockShowsObject DEF Covers
    <2>4. VisibleHead' = Timeline!Overlaid(i)
      BY <1>1, <2>3 DEF Timeline!Overlaid
    <2> QED
      BY <2>1, <2>4 DEF Timeline!Next
  <1> DEFINE Quiet == UNCHANGED <<keyTbl, objSeq>>
             Ending == \E c \in Client : pc[c] \in {"head", "unlock"}
  <1>5. ASSUME NEW c \in Client, NEW label, pc' = [pc EXCEPT ![c] = label],
               label \in {"head", "unlock"} <=> pc[c] \in {"head", "unlock"}
        PROVE  Ending' <=> Ending
    BY <1>5 DEF TypeOK
  <1>6. ASSUME NEW c \in Client,
               \/ \E i \in Interval : StoreData(c, i)
               \/ LockTables(c) \/ SelectOverlap(c) \/ InsertTail(c) \/ InsertHead(c)
        PROVE  UNCHANGED <<Committed, VisibleHead>>
    <2>1. Quiet
      BY <1>6 DEF StoreData, LockTables, SelectOverlap, InsertTail, InsertHead, tables
    <2>2. PICK label : /\ pc' = [pc EXCEPT ![c] = label]
                       /\ label \in {"head", "unlock"} <=> pc[c] \in {"head", "unlock"}
      BY <1>6 DEF StoreData, LockTables, SelectOverlap, InsertTail, InsertHead, Goto
    <2>3. Ending' <=> Ending
      BY <1>5, <2>2
    <2> QED
      BY <1>2, <2>1, <2>3, OtherStepNotVisible
  <1>7. ASSUME NEW c \in Client, NEW r \in todo[c],
               TrimEnd(c, r) \/ Swallow(c, r) \/ TrimStart(c, r) \/ SplitRow(c, r)
        PROVE  UNCHANGED <<Committed, VisibleHead>>
    <2>1. /\ Quiet /\ pc[c] = "rows" /\ pc'[c] \in {"rows", "split"}
          /\ \A d \in Client : d # c => pc'[d] = pc[d]
      BY <1>7, RowStepPieces
    <2>2. Ending' <=> Ending
      BY <2>1
    <2> QED
      BY <1>2, <2>1, <2>2, OtherStepNotVisible
  <1>8. ASSUME NEW c \in Client
        PROVE  ~(Crash(c) \/ StatementFails(c) \/ Close(c))
    BY DEF Crash, StatementFails, Close, LatestInv
  <1>9. CASE UNCHANGED vars
    BY <1>2, <1>9, OtherStepNotVisible DEF vars, tables
  <1> QED
    BY <1>3, <1>4, <1>6, <1>7, <1>8, <1>9 DEF Next, Step, Finished

NoFaults == MaxFaults = 0 /\ faults = 0

(* When no statement fails and nobody dies, storing objects statement by
   statement implements the timeline in which each store is one step: for any
   clients and intervals and any number of stores. *)
THEOREM StoringImplementsTimeline == MaxFaults = 0 /\ Spec => ImplementsTimeline
  <1>1. MaxFaults = 0 /\ Init => NoFaults
    BY DEF Init, NoFaults
  <1>2. NoFaults /\ [Next]_vars => NoFaults'
    <2> SUFFICES ASSUME NoFaults, [Next]_vars
                 PROVE  faults' = faults
      BY DEF NoFaults
    <2>1. ASSUME NEW c \in Client
          PROVE  /\ ~(Crash(c) \/ StatementFails(c))
                 /\ (\E i \in Interval : StoreData(c, i)) => faults' = faults
                 /\ Close(c) => faults' = faults
      BY DEF NoFaults, Crash, StatementFails, StoreData, Close
    <2>2. ASSUME NEW c \in Client, Step(c)
          PROVE  faults' = faults
      BY <2>2 DEF Step, LockTables, SelectOverlap, TrimEnd, Swallow, TrimStart, SplitRow,
                  NextRow, InsertTail, InsertKey, InsertHead, UnlockTables
    <2> QED
      BY <2>1, <2>2 DEF Next, Finished, vars
  <1>3. Init => Timeline!Init
    <2> SUFFICES ASSUME Init
                 PROVE  Timeline!Init
      OBVIOUS
    <2>1. Committed = 0
      BY DEF Init, Committed
    <2>2. \A p \in Time : HeadAt(p) = {}
      BY DEF Init, HeadAt
    <2>3. VisibleHead = [p \in Time |-> 0]
      BY <2>2 DEF Init, VisibleHead, Object
    <2> QED
      BY <2>1, <2>3 DEF Timeline!Init
  <1>4. TypeOK /\ TypeOK' /\ HeadInv /\ HeadInv' /\ LatestInv /\ LatestInv'
        /\ VisibleIsCommitted /\ VisibleIsCommitted'
        /\ NoFaults /\ NoFaults' /\ [Next]_vars
          => [Timeline!Next]_<<Committed, VisibleHead>>
    BY StepImplementsTimeline DEF NoFaults
  <1>5. TypeOK /\ HeadInv /\ LatestInv /\ NoFaults => VisibleIsCommitted
    BY VisibleIsNewest DEF NoFaults
  <1> QED
    BY <1>1, <1>2, <1>3, <1>4, <1>5, TypeCorrect, HeadInvHolds, LatestInvHolds, PTL
    DEF Spec, ImplementsTimeline, Timeline!Spec, Timeline!vars
-----------------------------------------------------------------------------

HIDE DEF HeadRow, JoinedRow, KeyRow, Label, Locked

(* A tagger may fail while clients are storing, which is no step of
   ObjectStore: what is proved of its steps is put together here. *)
FolderInv == TypeOK /\ HeadInv /\ DataInv /\ LatestInv

LEMMA InitFolderInv == Init => FolderInv
  BY InitTypeOK, InitHeadInv, InitDataInv, InitLatestInv DEF FolderInv

LEMMA StepFolderInv ==
  ASSUME FolderInv, [Next]_vars
  PROVE  FolderInv'
  <1>1. TypeOK' /\ HeadInv'
    BY StepTypeOK, StepHeadInv DEF FolderInv
  <1> QED
    BY <1>1, StepDataInv, StepLatestInv DEF FolderInv

LEMMA FaultFolderInv ==
  ASSUME FolderInv, UNCHANGED <<tables, lock, pc, locals>>, faults' = faults + 1
  PROVE  FolderInv'
  <1> USE DEF tables, locals
  <1>1. TypeOK'
    BY DEF FolderInv, TypeOK
  <1>2. HeadInv'
    BY DEF FolderInv, HeadInv, OnlyOwnerLocked, KeysNumbered, HeadHasKeys, HasKey,
           HeadSingleValued, Covers, TodoMeetsInterval, TailIsFree, RoomIsMade
  <1>3. DataInv'
    BY DEF FolderInv, DataInv, KeysNameData, CarriesData, DataAreOwn, WithinKey, KeyIsNew
  <1>4. LatestInv'
    BY DEF FolderInv, TypeOK, LatestInv
  <1> QED
    BY <1>1, <1>2, <1>3, <1>4 DEF FolderInv

(* The key table only grows, by the next number, and the data do not go. *)
LEMMA KeysGrow ==
  ASSUME TypeOK, [Next]_vars
  PROVE  /\ datSeq <= datSeq' /\ objSeq <= objSeq'
         /\ \/ keyTbl' = keyTbl
            \/ \E k : k.obj = objSeq + 1 /\ keyTbl' = keyTbl \cup {k}
  <1>1. objSeq \in Nat /\ datSeq \in Nat
    BY DEF TypeOK
  <1>2. ASSUME NEW c \in Client, InsertKey(c)
        PROVE  \E k : k.obj = objSeq + 1 /\ keyTbl' = keyTbl \cup {k}
    <2> DEFINE new == [obj |-> objSeq + 1, since |-> iv[c].since, till |-> iv[c].till,
                       layer |-> layer[c] + 1, dat |-> dat[c]]
    <2>1. new.obj = objSeq + 1 /\ keyTbl' = keyTbl \cup {new}
      BY <1>2 DEF InsertKey
    <2> QED
      BY <2>1
  <1>3. ASSUME NEW c \in Client, InsertKey(c)
        PROVE  datSeq' = datSeq /\ objSeq' = objSeq + 1
    BY <1>3 DEF InsertKey
  <1>4. ASSUME NEW c \in Client, NEW i \in Interval, StoreData(c, i)
        PROVE  datSeq' = datSeq + 1 /\ UNCHANGED <<keyTbl, objSeq>>
    BY <1>4 DEF StoreData
  <1>5. ASSUME NEW c \in Client,
               \/ LockTables(c) \/ SelectOverlap(c) \/ InsertTail(c) \/ InsertHead(c)
               \/ UnlockTables(c) \/ Crash(c) \/ StatementFails(c) \/ Close(c)
        PROVE  UNCHANGED <<keyTbl, objSeq, datSeq>>
    BY <1>5 DEF LockTables, SelectOverlap, InsertTail, InsertHead, UnlockTables, Crash,
                StatementFails, Close, Disconnect, tables
  <1>6. ASSUME NEW c \in Client, NEW r \in todo[c],
               TrimEnd(c, r) \/ Swallow(c, r) \/ TrimStart(c, r) \/ SplitRow(c, r)
        PROVE  UNCHANGED <<keyTbl, objSeq, datSeq>>
    BY <1>6 DEF TrimEnd, Swallow, TrimStart, SplitRow, NextRow
  <1>7. UNCHANGED vars => UNCHANGED <<keyTbl, objSeq, datSeq>>
    BY DEF vars, tables
  <1> QED
    BY <1>1, <1>2, <1>3, <1>4, <1>5, <1>6, <1>7 DEF Next, Step, Finished
-----------------------------------------------------------------------------
(* The rows of a tag, and those a tagger has read and not yet inserted, are
   pieces of objects in the key table. *)
TagRowsWithinKeys ==
  /\ \A t \in Tag : \A r \in BagToSet(tagRows[t]) : WithinKey(r)
  /\ \A g \in Tagger : \A r \in picked[g] : WithinKey(r)

LEMMA AnyTagType == AnyTag \in Tag
  BY TagsOfAssumption DEF AnyTag

(* What the INSERT of one row makes of the rows of a tag. *)
LEMMA RowAdded ==
  ASSUME NEW B, IsABag(B), NEW r
  PROVE  IsABag(B (+) SetToBag({r})) /\ BagToSet(B (+) SetToBag({r})) = BagToSet(B) \cup {r}
  <1> DEFINE D == DOMAIN B
             S == SetToBag({r})
             U == [e \in D \cup {r} |-> (IF e \in D THEN B[e] ELSE 0) + (IF e = r THEN 1 ELSE 0)]
  <1>1. DOMAIN S = {r} /\ S[r] = 1
    BY DEF SetToBag
  <1>2. B (+) S = U
    BY <1>1 DEF (+)
  <1>3. \A e \in D : B[e] \in Nat /\ B[e] > 0
    BY DEF IsABag
  <1>4. \A e \in D \cup {r} : U[e] \in Nat /\ U[e] > 0
    BY <1>3
  <1>5. DOMAIN U = D \cup {r} /\ U \in [D \cup {r} -> {n \in Nat : n > 0}]
    BY <1>4
  <1> QED
    BY <1>2, <1>5 DEF IsABag, BagToSet

LEMMA EmptyIsABag == IsABag(EmptyBag) /\ BagToSet(EmptyBag) = {}
  BY DEF IsABag, BagToSet, EmptyBag, SetToBag

(* The part of TaggingTypeOK that is about the taggers. *)
TaggerTypeOK ==
  /\ DOMAIN tagRows = Tag
  /\ \A t \in Tag : IsABag(tagRows[t]) /\ BagToSet(tagRows[t]) \subseteq HeadRow
  /\ folderTags \in [Tag -> Nat]
  /\ tpc \in [Tagger -> TaggerLabel]
  /\ tagOf \in [Tagger -> Tag]
  /\ picked \in [Tagger -> SUBSET HeadRow]
  /\ tagCalls \in 0 .. MaxTagCalls

LEMMA TaggingTypes == TaggingTypeOK <=> TypeOK /\ TaggerTypeOK
  BY DEF TaggingTypeOK, TaggerTypeOK, BagToSet

(* What a step of a tagger does, as far as most proofs care: it goes on, it
   reads rows that are in HEAD or in a tag, and it deletes the rows of its
   tag or inserts one it has read. *)
TaggerActs(g) ==
  /\ UNCHANGED <<tables, lock, pc, locals>>
  /\ tpc'[g] \in TaggerLabel /\ tpc' = [tpc EXCEPT ![g] = tpc'[g]]
  /\ tagOf'[g] \in Tag /\ tagOf' = [tagOf EXCEPT ![g] = tagOf'[g]]
  /\ picked' = [picked EXCEPT ![g] = picked'[g]]
  /\ \/ picked'[g] \subseteq picked[g] \cup headTbl
     \/ \E u \in Tag : picked'[g] = BagToSet(tagRows[u])
  /\ \E t \in Tag : \/ tagRows' = tagRows
                    \/ tagRows' = [tagRows EXCEPT ![t] = EmptyBag]
                    \/ \E r \in picked[g] : tagRows' = [tagRows EXCEPT ![t] = @ (+) SetToBag({r})]
  /\ folderTags' \in [Tag -> Nat] /\ tagCalls' \in 0 .. MaxTagCalls

TaggerMoves(g) ==
  \/ \E t \in Tag : \/ TagSelect(g, t) \/ UntagObjects(g, t)
                    \/ \E u \in Tag : CopySelect(g, t, u)
  \/ TaggerStep(g)

LEMMA TaggerMovesActs ==
  ASSUME TypeOK, TaggerTypeOK, NEW g \in Tagger, TaggerMoves(g)
  PROVE  TaggerActs(g) /\ faults' = faults
  <1> USE TagCallAssumption, AnyTagType
      DEF TaggerTypeOK, TaggerLabel, TaggerGoto, vars, tables, locals
  <1>1. ASSUME NEW t \in Tag, Begin(g, t)
        PROVE  /\ tagCalls' \in 0 .. MaxTagCalls /\ t \in Tag
               /\ tagOf' = [tagOf EXCEPT ![g] = t] /\ tagOf'[g] = t
    BY <1>1 DEF Begin
  <1>2. ASSUME NEW t \in Tag, TagSelect(g, t)
        PROVE  TaggerActs(g) /\ faults' = faults
    BY <1>1, <1>2 DEF TagSelect, TaggerActs
  <1>3. ASSUME NEW t \in Tag, UntagObjects(g, t)
        PROVE  TaggerActs(g) /\ faults' = faults
    BY <1>1, <1>3 DEF UntagObjects, TaggerActs
  <1>4. ASSUME NEW t \in Tag, NEW u \in Tag, CopySelect(g, t, u)
        PROVE  TaggerActs(g) /\ faults' = faults
    BY <1>1, <1>4 DEF CopySelect, TaggerActs
  <1>5. ASSUME DeleteOld(g)
        PROVE  TaggerActs(g) /\ faults' = faults
    BY <1>5 DEF DeleteOld, TaggerActs
  <1>6. ASSUME NEW r \in picked[g], InsertRow(g, r)
        PROVE  TaggerActs(g) /\ faults' = faults
    BY <1>6 DEF InsertRow, TaggerActs
  <1>7. ASSUME RecordFolder(g)
        PROVE  TaggerActs(g) /\ faults' = faults
    BY <1>7 DEF RecordFolder, Return, TaggerActs
  <1>8. ASSUME CopyDelete(g)
        PROVE  TaggerActs(g) /\ faults' = faults
    BY <1>8 DEF CopyDelete, Return, TaggerActs
  <1>9. ASSUME UntagFolder(g)
        PROVE  TaggerActs(g) /\ faults' = faults
    BY <1>9 DEF UntagFolder, Return, TaggerActs
  <1>10. ASSUME UnrecordFolder(g)
         PROVE  TaggerActs(g) /\ faults' = faults
    BY <1>10 DEF UnrecordFolder, Return, TaggerActs
  <1> QED
    BY <1>2, <1>3, <1>4, <1>5, <1>6, <1>7, <1>8, <1>9, <1>10 DEF TaggerMoves, TaggerStep

LEMMA TaggerFailsActs ==
  ASSUME TypeOK, TaggerTypeOK, NEW g \in Tagger, TaggerFails(g)
  PROVE  TaggerActs(g) /\ faults' = faults + 1
  BY AnyTagType
  DEF TaggerFails, Return, TaggerGoto, TaggerTypeOK, TaggerLabel, TaggerActs, tables, locals

LEMMA TagRowsAfter ==
  ASSUME TaggerTypeOK, NEW g \in Tagger, TaggerActs(g), NEW t \in Tag
  PROVE  /\ IsABag(tagRows'[t])
         /\ BagToSet(tagRows'[t]) \subseteq BagToSet(tagRows[t]) \cup picked[g]
  <1>1. IsABag(tagRows[t])
    BY DEF TaggerTypeOK
  <1>2. \/ tagRows'[t] = tagRows[t] \/ tagRows'[t] = EmptyBag
        \/ \E r \in picked[g] : tagRows'[t] = tagRows[t] (+) SetToBag({r})
    BY DEF TaggerActs, TaggerTypeOK
  <1>3. CASE tagRows'[t] = EmptyBag
    BY <1>3, EmptyIsABag
  <1>4. ASSUME NEW r \in picked[g], tagRows'[t] = tagRows[t] (+) SetToBag({r})
        PROVE  /\ IsABag(tagRows'[t])
               /\ BagToSet(tagRows'[t]) = BagToSet(tagRows[t]) \cup {r}
    <2>1. \A B : IsABag(B) => /\ IsABag(B (+) SetToBag({r}))
                              /\ BagToSet(B (+) SetToBag({r})) = BagToSet(B) \cup {r}
      BY RowAdded
    <2> QED
      BY <1>1, <1>4, <2>1
  <1>5. CASE tagRows'[t] = tagRows[t]
    BY <1>1, <1>5
  <1>6. CASE \E r \in picked[g] : tagRows'[t] = tagRows[t] (+) SetToBag({r})
    <2>1. PICK r \in picked[g] : tagRows'[t] = tagRows[t] (+) SetToBag({r})
      BY <1>6
    <2> QED
      BY <1>4, <2>1
  <1> QED
    BY <1>2, <1>3, <1>5, <1>6

LEMMA ActsKeepTypes ==
  ASSUME TypeOK, TaggerTypeOK, NEW g \in Tagger, TaggerActs(g)
  PROVE  TaggerTypeOK'
  <1> USE DEF TaggerTypeOK
  <1>1. headTbl \subseteq HeadRow
    BY DEF TypeOK
  <1>2. DOMAIN tagRows' = Tag
    BY DEF TaggerActs
  <1>3. ASSUME NEW t \in Tag
        PROVE  IsABag(tagRows'[t]) /\ BagToSet(tagRows'[t]) \subseteq HeadRow
    <2>1. BagToSet(tagRows[t]) \subseteq HeadRow /\ picked[g] \subseteq HeadRow
      OBVIOUS
    <2> QED
      BY <2>1, TagRowsAfter
  <1>4. picked' \in [Tagger -> SUBSET HeadRow]
    <2>1. picked'[g] \in SUBSET HeadRow
      BY <1>1 DEF TaggerActs
    <2> QED
      BY <2>1 DEF TaggerActs
  <1>5. tpc' \in [Tagger -> TaggerLabel] /\ tagOf' \in [Tagger -> Tag]
    BY DEF TaggerActs
  <1> QED
    BY <1>2, <1>3, <1>4, <1>5 DEF TaggerActs

LEMMA ActsKeepWithin ==
  ASSUME TypeOK, TaggerTypeOK, DataInv, TagRowsWithinKeys, NEW g \in Tagger, TaggerActs(g)
  PROVE  TagRowsWithinKeys'
  <1>1. \A r : WithinKey(r)' <=> WithinKey(r)
    BY DEF TaggerActs, tables, WithinKey
  <1>2. ASSUME NEW t \in Tag, NEW r \in BagToSet(tagRows'[t])
        PROVE  WithinKey(r)
    <2>1. r \in BagToSet(tagRows[t]) \/ r \in picked[g]
      BY <1>2, TagRowsAfter
    <2> QED
      BY <2>1 DEF TagRowsWithinKeys
  <1>3. ASSUME NEW e \in Tagger, NEW r \in picked'[e]
        PROVE  WithinKey(r)
    <2>1. \/ r \in picked[e] \/ r \in headTbl
          \/ \E u \in Tag : r \in BagToSet(tagRows[u])
      BY DEF TaggerActs, TaggerTypeOK
    <2> QED
      BY <2>1 DEF TagRowsWithinKeys, DataInv
  <1> QED
    BY <1>1, <1>2, <1>3 DEF TagRowsWithinKeys

(* Every step of the composition is one of the folder, or of one tagger. *)
LEMMA TaggingSteps ==
  ASSUME FolderInv, TaggerTypeOK, [TaggingNext]_allVars
  PROVE  \/ [Next]_vars /\ UNCHANGED tagVars
         \/ \E g \in Tagger : TaggerMoves(g) /\ TaggerActs(g) /\ UNCHANGED vars
         \/ \E g \in Tagger : TaggerFails(g) /\ TaggerActs(g) /\ faults' = faults + 1
  <1>1. ASSUME NEW g \in Tagger, TaggerMoves(g)
        PROVE  TaggerActs(g) /\ UNCHANGED vars
    BY <1>1, TaggerMovesActs DEF FolderInv, TaggerActs, vars
  <1>2. ASSUME NEW g \in Tagger, TaggerFails(g)
        PROVE  TaggerActs(g) /\ faults' = faults + 1
    BY <1>2, TaggerFailsActs DEF FolderInv
  <1> QED
    BY <1>1, <1>2 DEF TaggingNext, TaggerMoves, allVars

LEMMA TaggingStepFolderInv ==
  ASSUME FolderInv, TaggerTypeOK, [TaggingNext]_allVars
  PROVE  FolderInv'
  <1>1. ASSUME NEW g \in Tagger, TaggerActs(g), faults' = faults + 1
        PROVE  FolderInv'
    BY <1>1, FaultFolderInv DEF TaggerActs
  <1> QED
    BY <1>1, TaggingSteps, StepFolderInv

LEMMA TaggingStepNames ==
  ASSUME FolderInv, TaggerTypeOK, TagRowsWithinKeys, [TaggingNext]_allVars
  PROVE  TaggerTypeOK' /\ TagRowsWithinKeys'
  <1>1. CASE [Next]_vars /\ UNCHANGED tagVars
    <2>1. \A r : WithinKey(r) => WithinKey(r)'
      BY <1>1, KeysGrow DEF FolderInv, WithinKey
    <2> QED
      BY <1>1, <2>1 DEF tagVars, TaggerTypeOK, TagRowsWithinKeys
  <1>2. ASSUME NEW g \in Tagger, TaggerActs(g)
        PROVE  TaggerTypeOK' /\ TagRowsWithinKeys'
    BY <1>2, ActsKeepTypes, ActsKeepWithin DEF FolderInv
  <1> QED
    BY <1>1, <1>2, TaggingSteps

LEMMA InitNames == TaggingInit => FolderInv /\ TaggerTypeOK /\ TagRowsWithinKeys
  <1> SUFFICES ASSUME TaggingInit
               PROVE  FolderInv /\ TaggerTypeOK /\ TagRowsWithinKeys
    OBVIOUS
  <1>1. FolderInv
    BY InitFolderInv DEF TaggingInit
  <1>2. TaggerTypeOK
    BY AnyTagType, EmptyIsABag, TagCallAssumption DEF TaggingInit, TaggerTypeOK, TaggerLabel
  <1>3. TagRowsWithinKeys
    BY EmptyIsABag DEF TaggingInit, TagRowsWithinKeys
  <1> QED
    BY <1>1, <1>2, <1>3

LEMMA NamesHold == TaggingSpec => [](FolderInv /\ TaggerTypeOK /\ TagRowsWithinKeys)
  BY InitNames, TaggingStepFolderInv, TaggingStepNames, PTL DEF TaggingSpec

(* For all clients, taggers and faults: tables and locals keep their types,
   and each row of a tag is a piece of an object whose data are stored, even
   if a process failed in the middle of a call. *)
THEOREM TagsNameStoredData == TaggingSpec => []TaggingInv
  <1>1. FolderInv /\ TaggerTypeOK /\ TagRowsWithinKeys => TaggingInv
    <2> SUFFICES ASSUME FolderInv, TaggerTypeOK, TagRowsWithinKeys
                 PROVE  TaggingInv
      OBVIOUS
    <2>1. TaggingTypeOK
      BY TaggingTypes DEF FolderInv
    <2>2. TagNamesStoredData
      BY DEF TagRowsWithinKeys, WithinKey, FolderInv, DataInv, KeysNameData,
             TagNamesStoredData
    <2> QED
      BY <2>1, <2>2 DEF TaggingInv
  <1> QED
    BY <1>1, NamesHold, PTL
-----------------------------------------------------------------------------
(* No two processes apply one tag. *)
OwnTags == \A g, h \in Tagger : g # h => TagsOf[g] \cap TagsOf[h] = {}

(* Rows that name one object at most at each point; and rows that are, at
   every point, the newest of the first objects of a key table. *)
SingleValued(rows) ==
  \A p \in Time : \A a, b \in rows : Covers(a, p) /\ Covers(b, p) => a.obj = b.obj

ObjectsAt(rows, p) == {r.obj : r \in {s \in rows : Covers(s, p)}}

VersionIn(rows, keys, last) ==
  \E n \in 0 .. last : \A p \in Time : ObjectsAt(rows, p) = NewestIn(keys, p, n)

IsVersion(rows) == faults = 0 => VersionIn(rows, keyTbl, objSeq)

(* What a tagger has inserted and what it has yet to insert make one version
   together; nobody else touches the rows of its tag. *)
TaggerInv(g) ==
  LET t == tagOf[g]
      read == picked[g]
      rows == BagToSet(tagRows[t])
  IN  /\ tpc[g] # "idle" => t \in TagsOf[g]
      /\ tpc[g] = "delete" => SingleValued(read) /\ IsVersion(read)
      /\ tpc[g] = "insert" => SingleValued(read \cup rows) /\ IsVersion(read \cup rows)
      /\ tpc[g] = "record" => IsVersion(rows)
      /\ tpc[g] \in {"untagFolder", "unrecord"} => rows = {}

TagsInv ==
  /\ \A g \in Tagger : TaggerInv(g)
  /\ \A t \in Tag : LET rows == BagToSet(tagRows[t])
                    IN  /\ SingleValued(rows)
                        /\ ~AtWork(t) => rows = {} \/ IsVersion(rows)

(* A version stays one when more keys are inserted. *)
LEMMA StoringKeepsVersion ==
  ASSUME FolderInv, [Next]_vars, NEW rows, VersionIn(rows, keyTbl, objSeq)
  PROVE  VersionIn(rows, keyTbl', objSeq')
  <1>1. /\ objSeq \in Nat /\ keyTbl \subseteq KeyRow /\ objSeq' \in Nat
    BY StepTypeOK DEF FolderInv, TypeOK
  <1>2. /\ objSeq <= objSeq'
        /\ keyTbl' = keyTbl \/ \E k : k.obj = objSeq + 1 /\ keyTbl' = keyTbl \cup {k}
    BY KeysGrow DEF FolderInv
  <1>3. PICK n \in 0 .. objSeq : \A p \in Time : ObjectsAt(rows, p) = NewestIn(keyTbl, p, n)
    BY DEF VersionIn
  <1>4. ASSUME NEW k, k.obj = objSeq + 1, NEW p \in Time
        PROVE  NewestIn(keyTbl \cup {k}, p, n) = NewestIn(keyTbl, p, n)
    <2>1. ~(k.obj <= n)
      BY <1>1, <1>4
    <2> QED
      BY <2>1 DEF NewestIn
  <1>5. \A p \in Time : ObjectsAt(rows, p) = NewestIn(keyTbl', p, n)
    BY <1>2, <1>3, <1>4
  <1>6. n \in 0 .. objSeq'
    BY <1>1, <1>2
  <1> QED
    BY <1>5, <1>6 DEF VersionIn

LEMMA FaultsGrow ==
  ASSUME TypeOK, [Next]_vars, faults' = 0
  PROVE  faults = 0
  <1>1. faults' = faults \/ faults' = faults + 1
    <2>1. ASSUME NEW c \in Client, NEW i \in Interval, StoreData(c, i)
          PROVE  faults' = faults
      BY <2>1 DEF StoreData
    <2>2. ASSUME NEW c \in Client, Step(c)
          PROVE  faults' = faults
      BY <2>2 DEF Step, LockTables, SelectOverlap, TrimEnd, Swallow, TrimStart, SplitRow,
                  NextRow, InsertTail, InsertKey, InsertHead, UnlockTables
    <2>3. ASSUME NEW c \in Client, Crash(c) \/ StatementFails(c) \/ Close(c)
          PROVE  faults' \in {faults, faults + 1}
      BY <2>3 DEF Crash, StatementFails, Close
    <2>4. UNCHANGED vars => faults' = faults
      BY DEF vars
    <2> QED
      BY <2>1, <2>2, <2>3, <2>4 DEF Next, Finished
  <1> QED
    BY <1>1 DEF TypeOK

LEMMA StoringKeepsTags ==
  ASSUME FolderInv, TagsInv, [Next]_vars, UNCHANGED tagVars
  PROVE  TagsInv'
  <1>1. UNCHANGED <<tagRows, tpc, tagOf, picked>>
    BY DEF tagVars
  <1>2. ASSUME NEW rows, IsVersion(rows)
        PROVE  IsVersion(rows)'
    BY <1>2, StoringKeepsVersion, FaultsGrow DEF IsVersion, FolderInv
  <1>3. ASSUME NEW g \in Tagger
        PROVE  TaggerInv(g)'
    BY <1>1, <1>2 DEF TagsInv, TaggerInv
  <1>4. \A t \in Tag : AtWork(t)' <=> AtWork(t)
    BY <1>1 DEF AtWork
  <1> QED
    BY <1>1, <1>2, <1>3, <1>4 DEF TagsInv

(* A step of one tagger, which changes the rows of its own tag only. *)
LEMMA OwnStepTags ==
  ASSUME OwnTags, TaggerTypeOK, TagsInv, NEW g \in Tagger, NEW t \in TagsOf[g],
         tpc[g] # "idle" => tagOf[g] = t, tpc'[g] # "idle" => tagOf'[g] = t,
         faults' = 0 => UNCHANGED <<keyTbl, objSeq, faults>>,
         \A e \in Tagger : e # g => /\ tpc'[e] = tpc[e] /\ tagOf'[e] = tagOf[e]
                                    /\ picked'[e] = picked[e],
         \A u \in Tag : u # t => tagRows'[u] = tagRows[u],
         TaggerInv(g)', SingleValued(BagToSet(tagRows'[t])),
         tpc'[g] = "idle" => BagToSet(tagRows'[t]) = {} \/ IsVersion(BagToSet(tagRows[t]))'
  PROVE  TagsInv'
  <1>1. ASSUME NEW rows, IsVersion(rows)
        PROVE  IsVersion(rows)'
    BY <1>1 DEF IsVersion
  <1>2. ASSUME NEW e \in Tagger
        PROVE  TaggerInv(e)'
    <2>1. CASE e # g
      <3>1. tpc[e] # "idle" => tagOf[e] \in TagsOf[e] /\ tagOf[e] # t /\ tagOf[e] \in Tag
        <4>1. tpc[e] # "idle" => tagOf[e] \in TagsOf[e]
          BY DEF TagsInv, TaggerInv
        <4>2. TagsOf[g] \cap TagsOf[e] = {}
          BY <2>1 DEF OwnTags
        <4> QED
          BY <4>1, <4>2 DEF TaggerTypeOK
      <3>2. tpc[e] # "idle" => tagRows'[tagOf[e]] = tagRows[tagOf[e]]
        BY <3>1
      <3>3. tpc'[e] = tpc[e] /\ tagOf'[e] = tagOf[e] /\ picked'[e] = picked[e]
        BY <2>1
      <3>4. TaggerInv(e)
        BY DEF TagsInv
      <3> QED
        BY <1>1, <3>2, <3>3, <3>4 DEF TaggerInv
    <2> QED
      BY <2>1
  <1>3. ASSUME NEW u \in Tag
        PROVE  /\ SingleValued(BagToSet(tagRows'[u]))
               /\ ~AtWork(u)' => BagToSet(tagRows'[u]) = {} \/ IsVersion(BagToSet(tagRows[u]))'
    <2>1. CASE u = t
      BY <2>1 DEF AtWork
    <2>2. CASE u # t
      <3>1. ~AtWork(u)' => ~AtWork(u)
        BY <2>2 DEF AtWork
      <3> QED
        BY <1>1, <2>2, <3>1 DEF TagsInv
    <2> QED
      BY <2>1, <2>2
  <1> QED
    BY <1>2, <1>3 DEF TagsInv

LEMMA OtherTaggers ==
  ASSUME NEW g \in Tagger, TaggerTypeOK, TaggerActs(g)
  PROVE  \A e \in Tagger : e # g => /\ tpc'[e] = tpc[e] /\ tagOf'[e] = tagOf[e]
                                    /\ picked'[e] = picked[e]
  BY DEF TaggerActs, TaggerTypeOK

(* HEAD, when no client has locked it, is a version. *)
LEMMA HeadIsVersion ==
  ASSUME FolderInv, lock = Nobody
  PROVE  SingleValued(headTbl) /\ IsVersion(headTbl)
  <1>1. SingleValued(headTbl)
    BY DEF FolderInv, HeadInv, HeadSingleValued, SingleValued
  <1>2. ASSUME faults = 0
        PROVE  VersionIn(headTbl, keyTbl, objSeq)
    <2>1. \A c \in Client : pc[c] \notin InLoop
      BY NobodyAssumption DEF FolderInv, HeadInv, OnlyOwnerLocked, InLoop, Locked
    <2>2. \A p \in Time : ObjectsAt(headTbl, p) = NewestIn(keyTbl, p, objSeq)
      BY <1>2, <2>1, NewestOfTable DEF FolderInv, LatestInv, ObjectsAt, HeadAt
    <2>3. objSeq \in 0 .. objSeq
      BY DEF FolderInv, TypeOK
    <2> QED
      BY <2>2, <2>3 DEF VersionIn
  <1> QED
    BY <1>1, <1>2 DEF IsVersion

LEMMA MovesKeepTags ==
  ASSUME OwnTags, FolderInv, TaggerTypeOK, TagsInv, NEW g \in Tagger,
         TaggerMoves(g), TaggerActs(g), UNCHANGED vars
  PROVE  TagsInv'
  <1>1. /\ UNCHANGED <<keyTbl, objSeq, headTbl, faults>> /\ TaggerInv(g)
        /\ g \in DOMAIN tpc /\ g \in DOMAIN tagOf /\ g \in DOMAIN picked
        /\ DOMAIN tagRows = Tag /\ TagsOf[g] \subseteq Tag
    BY TagsOfAssumption DEF vars, tables, TagsInv, TaggerTypeOK
  <1>2. \A t \in Tag : SingleValued(BagToSet(tagRows[t]))
    BY DEF TagsInv
  <1>3. SingleValued({})
    BY DEF SingleValued
  <1> USE DEF TaggerGoto
  <1>4. ASSUME NEW t \in Tag, TagSelect(g, t)
        PROVE  TagsInv'
    <2>1. /\ tpc[g] = "idle" /\ tpc'[g] = "delete" /\ t \in TagsOf[g] /\ tagOf'[g] = t
          /\ picked'[g] = headTbl /\ tagRows' = tagRows /\ lock = Nobody
      BY <1>1, <1>4 DEF TagSelect, Begin
    <2>2. TaggerInv(g)'
      BY <1>1, <2>1, HeadIsVersion DEF TaggerInv, IsVersion
    <2> QED
      BY <1>1, <1>2, <2>1, <2>2, OwnStepTags, OtherTaggers
  <1>5. ASSUME NEW t \in Tag, UntagObjects(g, t)
        PROVE  TagsInv'
    <2>1. /\ tpc[g] = "idle" /\ tpc'[g] = "untagFolder" /\ t \in TagsOf[g] /\ tagOf'[g] = t
          /\ BagToSet(tagRows'[t]) = {} /\ \A u \in Tag : u # t => tagRows'[u] = tagRows[u]
      BY <1>1, <1>5, EmptyIsABag DEF UntagObjects, Begin
    <2>2. TaggerInv(g)'
      BY <1>1, <2>1 DEF TaggerInv
    <2> QED
      BY <1>1, <1>3, <2>1, <2>2, OwnStepTags, OtherTaggers
  <1>6. ASSUME NEW t \in Tag, NEW u \in Tag, CopySelect(g, t, u)
        PROVE  TagsInv'
    <2>1. /\ tpc[g] = "idle" /\ tpc'[g] = "copyDelete" /\ t \in TagsOf[g] /\ tagOf'[g] = t
          /\ tagRows' = tagRows
      BY <1>1, <1>6 DEF CopySelect, Begin
    <2>2. TaggerInv(g)'
      BY <1>1, <2>1 DEF TaggerInv
    <2> QED
      BY <1>1, <1>2, <2>1, <2>2, OwnStepTags, OtherTaggers
  <1>7. ASSUME tpc[g] # "idle"
        PROVE  tagOf[g] \in TagsOf[g]
    BY <1>1, <1>7 DEF TaggerInv
  <1>8. PICK t \in Tag : t = tagOf[g]
    BY DEF TaggerTypeOK
  <1>9. ASSUME DeleteOld(g)
        PROVE  TagsInv'
    <2>1. /\ tpc[g] = "delete" /\ tpc'[g] = "insert" /\ tagOf' = tagOf /\ picked' = picked
          /\ t \in TagsOf[g] /\ BagToSet(tagRows'[t]) = {}
          /\ \A u \in Tag : u # t => tagRows'[u] = tagRows[u]
      BY <1>1, <1>7, <1>8, <1>9, EmptyIsABag DEF DeleteOld
    <2>2. picked[g] \cup BagToSet(tagRows'[t]) = picked[g]
      BY <2>1
    <2>3. TaggerInv(g)'
      BY <1>1, <1>8, <2>1, <2>2 DEF TaggerInv, IsVersion
    <2> QED
      BY <1>1, <1>3, <1>8, <2>1, <2>3, OwnStepTags, OtherTaggers
  <1>10. ASSUME NEW r \in picked[g], InsertRow(g, r)
         PROVE  TagsInv'
    <2>1. /\ tpc[g] = "insert" /\ tpc'[g] \in {"insert", "record"} /\ tagOf' = tagOf
          /\ picked'[g] = picked[g] \ {r} /\ (tpc'[g] = "record" => picked[g] = {r})
          /\ t \in TagsOf[g] /\ tagRows'[t] = tagRows[t] (+) SetToBag({r})
          /\ \A u \in Tag : u # t => tagRows'[u] = tagRows[u]
      BY <1>1, <1>7, <1>8, <1>10 DEF InsertRow
    <2>2. BagToSet(tagRows'[t]) = BagToSet(tagRows[t]) \cup {r}
      <3>1. \A B : IsABag(B) => BagToSet(B (+) SetToBag({r})) = BagToSet(B) \cup {r}
        BY RowAdded
      <3> QED
        BY <1>1, <2>1, <3>1 DEF TaggerTypeOK
    <2>3. picked'[g] \cup BagToSet(tagRows'[t]) = picked[g] \cup BagToSet(tagRows[t])
      BY <2>1, <2>2
    <2>4. /\ SingleValued(picked[g] \cup BagToSet(tagRows[t]))
          /\ IsVersion(picked[g] \cup BagToSet(tagRows[t]))
      BY <1>1, <1>8, <2>1 DEF TaggerInv
    <2>5. tpc'[g] = "record" => BagToSet(tagRows'[t]) = picked[g] \cup BagToSet(tagRows[t])
      BY <2>1, <2>2
    <2>6. SingleValued(BagToSet(tagRows'[t]))
      BY <2>3, <2>4 DEF SingleValued
    <2>7. TaggerInv(g)'
      BY <1>1, <1>8, <2>1, <2>3, <2>4, <2>5 DEF TaggerInv, IsVersion
    <2> QED
      BY <1>1, <1>8, <2>1, <2>6, <2>7, OwnStepTags, OtherTaggers
  <1>11. ASSUME RecordFolder(g)
         PROVE  TagsInv'
    <2>1. /\ tpc[g] = "record" /\ tpc'[g] = "idle" /\ t \in TagsOf[g] /\ tagRows' = tagRows
      BY <1>1, <1>7, <1>8, <1>11 DEF RecordFolder, Return
    <2>2. IsVersion(BagToSet(tagRows[t]))'
      BY <1>1, <1>8, <2>1 DEF TaggerInv, IsVersion
    <2>3. TaggerInv(g)'
      BY <2>1 DEF TaggerInv
    <2> QED
      BY <1>1, <1>2, <1>8, <2>1, <2>2, <2>3, OwnStepTags, OtherTaggers
  <1>12. ASSUME CopyDelete(g)
         PROVE  TagsInv'
    <2>1. /\ tpc[g] = "copyDelete" /\ tpc'[g] = "idle" /\ t \in TagsOf[g]
          /\ BagToSet(tagRows'[t]) = {} /\ \A u \in Tag : u # t => tagRows'[u] = tagRows[u]
      BY <1>1, <1>7, <1>8, <1>12, EmptyIsABag DEF CopyDelete, Return
    <2>2. TaggerInv(g)'
      BY <2>1 DEF TaggerInv
    <2> QED
      BY <1>1, <1>3, <1>8, <2>1, <2>2, OwnStepTags, OtherTaggers
  <1>13. ASSUME UntagFolder(g)
         PROVE  TagsInv'
    <2>1. /\ tpc[g] = "untagFolder" /\ t \in TagsOf[g] /\ tagRows' = tagRows
          /\ tpc'[g] = "idle" \/ (tpc'[g] = "unrecord" /\ tagOf' = tagOf)
      BY <1>1, <1>7, <1>8, <1>13 DEF UntagFolder, Return
    <2>2. BagToSet(tagRows'[t]) = {}
      BY <1>1, <1>8, <2>1 DEF TaggerInv
    <2>3. TaggerInv(g)'
      BY <1>8, <2>1, <2>2 DEF TaggerInv
    <2> QED
      BY <1>1, <1>3, <1>8, <2>1, <2>2, <2>3, OwnStepTags, OtherTaggers
  <1>14. ASSUME UnrecordFolder(g)
         PROVE  TagsInv'
    <2>1. /\ tpc[g] = "unrecord" /\ tpc'[g] = "idle" /\ t \in TagsOf[g] /\ tagRows' = tagRows
      BY <1>1, <1>7, <1>8, <1>14 DEF UnrecordFolder, Return
    <2>2. BagToSet(tagRows'[t]) = {}
      BY <1>1, <1>8, <2>1 DEF TaggerInv
    <2>3. TaggerInv(g)'
      BY <2>1 DEF TaggerInv
    <2> QED
      BY <1>1, <1>3, <1>8, <2>1, <2>2, <2>3, OwnStepTags, OtherTaggers
  <1> QED
    BY <1>4, <1>5, <1>6, <1>9, <1>10, <1>11, <1>12, <1>13, <1>14 DEF TaggerMoves, TaggerStep

LEMMA FailsKeepsTags ==
  ASSUME OwnTags, FolderInv, TaggerTypeOK, TagsInv, NEW g \in Tagger,
         TaggerFails(g), TaggerActs(g)
  PROVE  TagsInv'
  <1>1. /\ tpc[g] # "idle" /\ tpc'[g] = "idle" /\ tagRows' = tagRows /\ faults' # 0
    BY DEF TaggerFails, Return, TaggerGoto, TaggerTypeOK, FolderInv, TypeOK
  <1>2. PICK t \in TagsOf[g] : t = tagOf[g] /\ t \in Tag
    BY <1>1 DEF TagsInv, TaggerInv, TaggerTypeOK
  <1>3. TaggerInv(g)' /\ IsVersion(BagToSet(tagRows[t]))' /\ SingleValued(BagToSet(tagRows'[t]))
    BY <1>1, <1>2 DEF TaggerInv, IsVersion, TagsInv
  <1> QED
    BY <1>1, <1>2, <1>3, OwnStepTags, OtherTaggers

LEMMA StepKeepsTags ==
  ASSUME OwnTags, FolderInv, TaggerTypeOK, TagsInv, [TaggingNext]_allVars
  PROVE  TagsInv'
  BY TaggingSteps, StoringKeepsTags, MovesKeepTags, FailsKeepsTags

LEMMA InitTags == TaggingInit => TagsInv
  BY EmptyIsABag DEF TaggingInit, TagsInv, TaggerInv, SingleValued

LEMMA OnlyEmptyIsEmpty ==
  ASSUME NEW B, IsABag(B), BagToSet(B) = {}
  PROVE  B = EmptyBag
  BY DEF IsABag, BagToSet, EmptyBag, SetToBag

LEMMA SoundTags ==
  ASSUME FolderInv, TaggerTypeOK, TagsInv
  PROVE  TagIsSomeHead
  <1>1. TagSingleValued
    BY DEF TagsInv, SingleValued, TagSingleValued, TaggedAt
  <1>2. TagIsOneVersion
    <2> SUFFICES ASSUME NEW t \in Tag, faults = 0, ~AtWork(t), tagRows[t] # EmptyBag
                 PROVE  \E n \in 0 .. objSeq : \A p \in Time : TaggedAt(t, p) = NewestAt(p, n)
      BY DEF TagIsOneVersion
    <2>1. BagToSet(tagRows[t]) # {}
      BY OnlyEmptyIsEmpty DEF TaggerTypeOK
    <2>2. VersionIn(BagToSet(tagRows[t]), keyTbl, objSeq)
      BY <2>1 DEF TagsInv, IsVersion
    <2>3. \A p : TaggedAt(t, p) = ObjectsAt(BagToSet(tagRows[t]), p)
      BY DEF TaggedAt, ObjectsAt
    <2> QED
      BY <2>2, <2>3, NewestOfTable DEF VersionIn
  <1> QED
    BY <1>1, <1>2 DEF TagIsSomeHead

(* If no two processes apply one tag, a tag never names two objects for one
   point, and when it has been applied it is what HEAD was at one moment:
   for all clients, taggers, intervals and calls of untag and of failing
   copies in between. *)
THEOREM TagsAreVersions == OwnTags /\ TaggingSpec => []TagIsSomeHead
  <1>1. OwnTags /\ TaggingInit => TagsInv
    BY InitTags
  <1>2. OwnTags /\ FolderInv /\ TaggerTypeOK /\ TagsInv /\ [TaggingNext]_allVars => TagsInv'
    BY StepKeepsTags
  <1>3. OwnTags => OwnTags'
    BY DEF OwnTags
  <1>4. FolderInv /\ TaggerTypeOK /\ TagsInv => TagIsSomeHead
    BY SoundTags
  <1> QED
    BY <1>1, <1>2, <1>3, <1>4, NamesHold, PTL DEF TaggingSpec
-----------------------------------------------------------------------------
(* The reader reads what the others leave in the tables and changes none:
   what is proved of storing and tagging holds beside it. *)
LEMMA ReaderStepReads ==
  ASSUME ReaderStep
  PROVE  UNCHANGED allVars
  BY DEF ReaderStep, BrowseObjectsInTag, BrowseObjectsHistory, BeginSearch, BrowseAllObjects,
         BrowseObjectsAtPoint, BrowseObjectsInInterval, OpenIterator, CallIterator,
         DeleteIterator, SearchOn, EndSearch, Forget

LEMMA ReaderSteps ==
  ASSUME [ReaderNext]_systemVars
  PROVE  \/ [TaggingNext]_allVars /\ UNCHANGED readerVars
         \/ ReaderStep /\ UNCHANGED allVars
  BY ReaderStepReads DEF ReaderNext, systemVars

LEMMA ReadersLetTag == ReaderSpec => TaggingSpec
  <1>1. ReaderInit => TaggingInit
    BY DEF ReaderInit
  <1>2. [ReaderNext]_systemVars => [TaggingNext]_allVars
    BY ReaderSteps
  <1> QED
    BY <1>1, <1>2, PTL DEF ReaderSpec, TaggingSpec

LEMMA TablesHold == ReaderSpec => [](FolderInv /\ TaggerTypeOK /\ TagRowsWithinKeys)
  BY ReadersLetTag, NamesHold, PTL
-----------------------------------------------------------------------------
(* The tables are finite, and where no interval is empty no row is: a split
   leaves no piece without a point. *)
IntervalsOrdered == \A i \in Interval : i.since < i.till

NonEmpty(r) == IntervalsOrdered => r.since < r.till

Sound(rows) == IsFiniteSet(rows) /\ \A r \in rows : NonEmpty(r)

FolderRowsSound ==
  /\ IsFiniteSet(keyTbl)
  /\ Sound(headTbl)
  /\ \A c \in Client : Sound(tail[c])

TagRowsSound ==
  /\ \A t \in Tag : Sound(BagToSet(tagRows[t]))
  /\ \A g \in Tagger : Sound(picked[g])

LEMMA NoRowsSound == Sound({})
  BY FS_EmptySet DEF Sound

LEMMA SomeRowsSound ==
  ASSUME NEW rows, Sound(rows), NEW some \in SUBSET rows
  PROVE  Sound(some)
  BY FS_Subset DEF Sound

LEMMA MoreRowsSound ==
  ASSUME NEW rows, Sound(rows), NEW r, NonEmpty(r)
  PROVE  Sound(rows \cup {r})
  <1>1. IsFiniteSet(rows \cup {r})
    BY FS_AddElement DEF Sound
  <1> QED
    BY <1>1 DEF Sound

LEMMA BothRowsSound ==
  ASSUME NEW rows, Sound(rows), NEW more, Sound(more)
  PROVE  Sound(rows \cup more)
  <1>1. IsFiniteSet(rows \cup more)
    BY FS_Union DEF Sound
  <1> QED
    BY <1>1 DEF Sound

LEMMA SwappedRowSound ==
  ASSUME NEW rows, Sound(rows), NEW old, NEW r, NonEmpty(r)
  PROVE  Sound((rows \ {old}) \cup {r})
  <1>1. rows \ {old} \in SUBSET rows
    OBVIOUS
  <1>2. Sound(rows \ {old})
    BY <1>1, SomeRowsSound
  <1> QED
    BY <1>2, MoreRowsSound

LEMMA RowStepSound ==
  ASSUME TypeOK, HeadInv, FolderRowsSound, NEW c \in Client, NEW r \in todo[c],
         TrimEnd(c, r) \/ Swallow(c, r) \/ TrimStart(c, r) \/ SplitRow(c, r)
  PROVE  FolderRowsSound'
  <1>1. /\ pc[c] = "rows" /\ r.head \in headTbl /\ UNCHANGED keyTbl
    BY RowStepPieces
  <1>2. r.head \in HeadRow
    BY <1>1 DEF TypeOK
  <1>3. /\ r.head.since \in Int /\ r.head.till \in Int
        /\ iv[c].since \in Int /\ iv[c].till \in Int
    BY <1>2, TimeAssumption, IntervalType DEF HeadRow
  <1>4. NonEmpty(r.head) /\ Sound(headTbl) /\ Sound(tail[c])
    BY <1>1 DEF FolderRowsSound, Sound
  <1> DEFINE before == [r.head EXCEPT !.till = iv[c].since]
             after  == [r.head EXCEPT !.since = iv[c].till]
  <1>5. /\ before.since = r.head.since /\ before.till = iv[c].since
        /\ after.since = iv[c].till /\ after.till = r.head.till
    BY <1>2 DEF HeadRow
  <1>6. /\ r.head.since < iv[c].since => NonEmpty(before)
        /\ r.head.till > iv[c].till => NonEmpty(after)
    BY <1>3, <1>5 DEF NonEmpty
  <1> HIDE DEF before, after
  <1>7. ASSUME Sound(headTbl'), Sound(tail'[c]), \A d \in Client : d # c => tail'[d] = tail[d]
        PROVE  FolderRowsSound'
    <2>1. ASSUME NEW d \in Client
          PROVE  Sound(tail'[d])
      BY <1>7 DEF FolderRowsSound
    <2> QED
      BY <1>1, <1>7, <2>1 DEF FolderRowsSound, Sound, NonEmpty
  <1>8. CASE TrimEnd(c, r)
    <2>1. /\ headTbl' = (headTbl \ {r.head}) \cup {before} /\ UNCHANGED tail
          /\ r.head.since < iv[c].since
      BY <1>1, <1>8, ReplacedRows DEF TrimEnd, before
    <2>2. Sound((headTbl \ {r.head}) \cup {before})
      BY <1>4, <1>6, <2>1, SwappedRowSound
    <2> QED
      BY <1>4, <1>7, <2>1, <2>2
  <1>9. CASE Swallow(c, r)
    <2>1. headTbl' = headTbl \ {r.head} /\ UNCHANGED tail
      BY <1>9 DEF Swallow
    <2>2. headTbl \ {r.head} \in SUBSET headTbl
      OBVIOUS
    <2>3. Sound(headTbl \ {r.head})
      BY <1>4, <2>2, SomeRowsSound
    <2> QED
      BY <1>4, <1>7, <2>1, <2>3
  <1>10. CASE TrimStart(c, r)
    <2>1. /\ headTbl' = (headTbl \ {r.head}) \cup {after} /\ UNCHANGED tail
          /\ r.head.till > iv[c].till
      BY <1>1, <1>10, ReplacedRows DEF TrimStart, after
    <2>2. Sound((headTbl \ {r.head}) \cup {after})
      BY <1>4, <1>6, <2>1, SwappedRowSound
    <2> QED
      BY <1>4, <1>7, <2>1, <2>2
  <1>11. CASE SplitRow(c, r)
    <2>1. /\ headTbl' = (headTbl \ {r.head}) \cup {before}
          /\ r.head.since < iv[c].since /\ r.head.till > iv[c].till
      BY <1>1, <1>11, ReplacedRows DEF SplitRow, before
    <2>2. /\ tail'[c] = {} \cup {after}
          /\ \A d \in Client : d # c => tail'[d] = tail[d]
      BY <1>11 DEF SplitRow, TypeOK, after
    <2>3. Sound((headTbl \ {r.head}) \cup {before}) /\ Sound({} \cup {after})
      BY <1>4, <1>6, <2>1, SwappedRowSound, MoreRowsSound, NoRowsSound
    <2> QED
      BY <1>7, <2>1, <2>2, <2>3
  <1> QED
    BY <1>8, <1>9, <1>10, <1>11

LEMMA StoringKeepsSound ==
  ASSUME FolderInv, FolderRowsSound, [Next]_vars
  PROVE  FolderRowsSound'
  <1>1. TypeOK /\ HeadInv
    BY DEF FolderInv
  <1>2. ASSUME UNCHANGED <<keyTbl, headTbl>>,
               \A c \in Client : tail'[c] = tail[c] \/ tail'[c] = {}
        PROVE  FolderRowsSound'
    <2>1. \A c \in Client : Sound(tail'[c])
      BY <1>2, NoRowsSound DEF FolderRowsSound
    <2> QED
      BY <1>2, <2>1 DEF FolderRowsSound, Sound, NonEmpty
  <1>3. ASSUME NEW c \in Client, NEW i \in Interval, StoreData(c, i)
        PROVE  FolderRowsSound'
    BY <1>2, <1>3 DEF StoreData
  <1>4. ASSUME NEW c \in Client, LockTables(c) \/ SelectOverlap(c) \/ StatementFails(c)
        PROVE  FolderRowsSound'
    BY <1>2, <1>4 DEF LockTables, SelectOverlap, StatementFails, tables, locals
  <1>5. ASSUME NEW c \in Client, UnlockTables(c) \/ Crash(c) \/ Close(c)
        PROVE  FolderRowsSound'
    BY <1>1, <1>2, <1>5 DEF UnlockTables, Crash, Close, Disconnect, ForgetLocals, tables, TypeOK
  <1>6. ASSUME NEW c \in Client, InsertTail(c)
        PROVE  FolderRowsSound'
    <2>1. /\ headTbl' = headTbl \cup tail[c] /\ UNCHANGED keyTbl
          /\ \A d \in Client : tail'[d] = tail[d] \/ tail'[d] = {}
      BY <1>1, <1>6 DEF InsertTail, TypeOK
    <2>2. Sound(headTbl \cup tail[c])
      BY BothRowsSound DEF FolderRowsSound
    <2>3. \A d \in Client : Sound(tail'[d])
      BY <2>1, NoRowsSound DEF FolderRowsSound
    <2> QED
      BY <2>1, <2>2, <2>3 DEF FolderRowsSound, Sound, NonEmpty
  <1>7. ASSUME NEW c \in Client, InsertKey(c)
        PROVE  FolderRowsSound'
    <2>1. PICK k : keyTbl' = keyTbl \cup {k} /\ UNCHANGED <<headTbl, tail>>
      BY <1>7 DEF InsertKey
    <2>2. IsFiniteSet(keyTbl \cup {k})
      BY FS_AddElement DEF FolderRowsSound
    <2> QED
      BY <2>1, <2>2 DEF FolderRowsSound, Sound, NonEmpty
  <1>8. ASSUME NEW c \in Client, InsertHead(c)
        PROVE  FolderRowsSound'
    <2>1. PICK r : /\ r = [obj |-> lastId[c], since |-> iv[c].since, till |-> iv[c].till]
      OBVIOUS
    <2>2. headTbl' = headTbl \cup {r} /\ UNCHANGED <<keyTbl, tail>>
      BY <1>8, <2>1 DEF InsertHead, locals
    <2>3. r.since = iv[c].since /\ r.till = iv[c].till /\ iv[c] \in Interval
      BY <1>1, <2>1 DEF TypeOK
    <2>4. NonEmpty(r)
      BY <2>3 DEF NonEmpty, IntervalsOrdered
    <2>5. Sound(headTbl \cup {r})
      BY <2>4, MoreRowsSound DEF FolderRowsSound
    <2> QED
      BY <2>2, <2>5 DEF FolderRowsSound, Sound, NonEmpty
  <1>9. ASSUME NEW c \in Client, NEW r \in todo[c],
               TrimEnd(c, r) \/ Swallow(c, r) \/ TrimStart(c, r) \/ SplitRow(c, r)
        PROVE  FolderRowsSound'
    BY <1>1, <1>9, RowStepSound
  <1>10. CASE UNCHANGED vars
    BY <1>2, <1>10 DEF vars, tables, locals
  <1> QED
    BY <1>3, <1>4, <1>5, <1>6, <1>7, <1>8, <1>9, <1>10 DEF Next, Step, Finished

LEMMA TaggingKeepsSound ==
  ASSUME FolderInv, TaggerTypeOK, FolderRowsSound, TagRowsSound, [TaggingNext]_allVars
  PROVE  FolderRowsSound' /\ TagRowsSound'
  <1>1. CASE [Next]_vars /\ UNCHANGED tagVars
    BY <1>1, StoringKeepsSound DEF tagVars, TagRowsSound, Sound, NonEmpty
  <1>2. ASSUME NEW g \in Tagger, TaggerActs(g)
        PROVE  FolderRowsSound' /\ TagRowsSound'
    <2>1. FolderRowsSound'
      BY <1>2 DEF TaggerActs, tables, locals, FolderRowsSound, Sound, NonEmpty
    <2>2. Sound(headTbl)
      BY DEF FolderRowsSound
    <2>3. ASSUME NEW t \in Tag
          PROVE  Sound(BagToSet(tagRows'[t]))
      <3>1. Sound(BagToSet(tagRows[t]) \cup picked[g])
        BY BothRowsSound DEF TagRowsSound
      <3>2. BagToSet(tagRows'[t]) \in SUBSET (BagToSet(tagRows[t]) \cup picked[g])
        BY <1>2, TagRowsAfter
      <3> QED
        BY <3>1, <3>2, SomeRowsSound
    <2>4. Sound(picked'[g])
      <3>1. CASE picked'[g] \subseteq picked[g] \cup headTbl
        <4>1. Sound(picked[g] \cup headTbl)
          BY <2>2, BothRowsSound DEF TagRowsSound
        <4>2. picked'[g] \in SUBSET (picked[g] \cup headTbl)
          BY <3>1
        <4> QED
          BY <4>1, <4>2, SomeRowsSound
      <3>2. CASE \E u \in Tag : picked'[g] = BagToSet(tagRows[u])
        BY <3>2 DEF TagRowsSound
      <3> QED
        BY <1>2, <3>1, <3>2 DEF TaggerActs
    <2>5. ASSUME NEW e \in Tagger
          PROVE  Sound(picked'[e])
      BY <1>2, <2>4, OtherTaggers DEF TagRowsSound
    <2> QED
      BY <2>1, <2>3, <2>5 DEF TagRowsSound, Sound, NonEmpty
  <1> QED
    BY <1>1, <1>2, TaggingSteps

LEMMA InitSound == TaggingInit => FolderRowsSound /\ TagRowsSound
  BY NoRowsSound, EmptyIsABag, FS_EmptySet DEF TaggingInit, Init, FolderRowsSound, TagRowsSound

LEMMA SoundHolds == ReaderSpec => [](FolderRowsSound /\ TagRowsSound)
  BY ReadersLetTag, NamesHold, InitSound, TaggingKeepsSound, PTL DEF TaggingSpec
-----------------------------------------------------------------------------
(* mysql_store_result: a result holds each row of the query once. *)
LEMMA ResultRows ==
  ASSUME NEW rows, IsFiniteSet(rows), rows # {}, NEW s \in SetToSeqs(rows)
  PROVE  s \in Seq(rows) /\ Len(s) \in Nat \ {0} /\ ToSet(s) = rows
  <1> DEFINE n == Cardinality(rows)
  <1>1. n \in Nat \ {0}
    BY FS_CardinalityType, FS_EmptySet
  <1>2. s \in [1 .. n -> rows] /\ \A i, j \in 1 .. n : i # j => s[i] # s[j]
    BY DEF SetToSeqs
  <1>3. s \in Injection(1 .. n, rows)
    BY <1>2 DEF Injection, IsInjective
  <1>4. Cardinality(1 .. n) = n
    BY <1>1, FS_Interval
  <1>5. s \in Surjection(1 .. n, rows)
    BY <1>3, <1>4, FS_Injection
  <1>6. s \in Seq(rows) /\ Len(s) = n /\ DOMAIN s = 1 .. n
    BY <1>1, <1>2
  <1>7. ToSet(s) = rows
    BY <1>5, <1>6 DEF ToSet, Surjection
  <1> QED
    BY <1>1, <1>6, <1>7

(* The rows the queries may find. *)
LEMMA KeysFinite ==
  ASSUME IsFiniteSet(keyTbl), TypeOK
  PROVE  IsFiniteSet(BrowseAll) /\ BrowseAll \subseteq HeadRow
  <1> DEFINE f == [k \in keyTbl |-> [obj |-> k.obj, since |-> k.since, till |-> k.till]]
  <1>1. f \in Surjection(keyTbl, BrowseAll)
    BY DEF Surjection, BrowseAll
  <1>2. IsFiniteSet(BrowseAll)
    BY <1>1, FS_Surjection
  <1> QED
    BY <1>2 DEF TypeOK, KeyRow, HeadRow, BrowseAll

LEMMA QueryRows ==
  ASSUME FolderInv, TaggerTypeOK, FolderRowsSound, TagRowsSound
  PROVE  /\ \A v \in Version : /\ IsFiniteSet(Rows(v)) /\ Rows(v) \subseteq HeadRow
                               /\ \A r \in Rows(v) : NonEmpty(r)
         /\ IsFiniteSet(BrowseAll) /\ BrowseAll \subseteq HeadRow
  <1>1. TypeOK
    BY DEF FolderInv
  <1>2. ASSUME NEW v \in Version
        PROVE  /\ IsFiniteSet(Rows(v)) /\ Rows(v) \subseteq HeadRow
               /\ \A r \in Rows(v) : NonEmpty(r)
    BY <1>1 DEF TypeOK, Rows, Version, FolderRowsSound, TagRowsSound, Sound, TaggerTypeOK
  <1> QED
    BY <1>1, <1>2, KeysFinite DEF FolderRowsSound

(* Where an iterator is: MySqlResult has no row yet, after goToFirst and
   goToLast, or it has the row behind which MySQL's cursor is. *)
PositionInv ==
  /\ currpos \in Nat /\ synced \in BOOLEAN /\ result \in Seq(HeadRow)
  /\ asked = Nothing => search = NoSearch /\ res = Opened /\ out = NoRow /\ ~synced
  /\ asked # Nothing =>
       /\ currpos < Len(result)
       /\ \/ /\ res = [rpos |-> currpos, cursor |-> currpos, row |-> NoRow]
             /\ out = NoRow /\ ~synced
          \/ /\ out \in Nat /\ out \in {currpos - 1, currpos} /\ (synced => out = currpos)
             /\ res = [rpos |-> currpos, cursor |-> out + 1, row |-> out]

(* What a SELECT does to the reader. *)
LEMMA SelectOpens ==
  ASSUME FolderInv, TaggerTypeOK, FolderRowsSound, TagRowsSound,
         NEW rows, NEW what, Select(rows, what),
         rows \subseteq BrowseAll \/ \E v \in Version : rows \subseteq Rows(v)
  PROVE  /\ asked' = what /\ asked = Nothing /\ lock = Nobody
         /\ result' \in Seq(HeadRow) /\ Len(result') \in Nat \ {0} /\ ToSet(result') = rows
         /\ res' = Opened /\ currpos' = 0
  <1>1. IsFiniteSet(rows) /\ rows \subseteq HeadRow
    <2>1. CASE rows \subseteq BrowseAll
      BY <2>1, QueryRows, FS_Subset
    <2>2. ASSUME NEW v \in Version, rows \subseteq Rows(v)
          PROVE  IsFiniteSet(rows) /\ rows \subseteq HeadRow
      BY <2>2, QueryRows, FS_Subset
    <2> QED
      BY <2>1, <2>2
  <1>2. rows # {} /\ result' \in SetToSeqs(rows)
    BY DEF Select
  <1>3. result' \in Seq(rows) /\ Len(result') \in Nat \ {0} /\ ToSet(result') = rows
    BY <1>1, <1>2, ResultRows
  <1>4. result' \in Seq(HeadRow)
    BY <1>1, <1>3
  <1> QED
    BY <1>3, <1>4 DEF Select

(* What each query asks for. *)
Asked(rows, what) ==
  \/ \E v \in Version :
       /\ what.from = v
       /\ \/ rows = Rows(v) /\ what.points = Time
          \/ \E i \in Interval : rows = BrowseHistory(v, i) /\ what.points = PointsOf(i)
  \/ rows \subseteq BrowseAll /\ what.from = "all"

LEMMA AskedRows ==
  ASSUME NEW rows, NEW what, Asked(rows, what)
  PROVE  rows \subseteq BrowseAll \/ \E v \in Version : rows \subseteq Rows(v)
  BY DEF Asked, BrowseHistory

(* The steps of the reader. *)
Opens == \E rows, what : Asked(rows, what) /\ OpenIterator(rows, what)

Searches ==
  \E dir \in {"next", "last"}, p \in Time, v \in Version : BeginSearch(dir, p, v)

LEMMA ReaderStepKinds ==
  ASSUME ReaderStep
  PROVE  Opens \/ Searches \/ CallIterator \/ DeleteIterator \/ SearchOn \/ EndSearch
  <1>1. ASSUME NEW v \in Version, BrowseObjectsInTag(v)
        PROVE  Opens
    <2> DEFINE what == [from |-> v, points |-> Time]
    <2>1. Asked(BrowseTagged(v), what) /\ OpenIterator(BrowseTagged(v), what)
      BY <1>1 DEF BrowseObjectsInTag, Asked, BrowseTagged
    <2> QED
      BY <2>1 DEF Opens
  <1>2. ASSUME NEW v \in Version, NEW i \in Interval, BrowseObjectsHistory(v, i)
        PROVE  Opens
    <2> DEFINE what == [from |-> v, points |-> PointsOf(i)]
    <2>1. Asked(BrowseHistory(v, i), what) /\ OpenIterator(BrowseHistory(v, i), what)
      BY <1>2 DEF BrowseObjectsHistory, Asked
    <2> QED
      BY <2>1 DEF Opens
  <1>3. ASSUME NEW rows \in SUBSET BrowseAll, NEW points,
               OpenIterator(rows, [from |-> "all", points |-> points])
        PROVE  Opens
    <2>1. Asked(rows, [from |-> "all", points |-> points])
      BY DEF Asked
    <2> QED
      BY <1>3, <2>1 DEF Opens
  <1>4. CASE BrowseAllObjects
    BY <1>3, <1>4 DEF BrowseAllObjects
  <1>5. ASSUME NEW p \in Time, BrowseObjectsAtPoint(p)
        PROVE  Opens
    <2>1. BrowseAtPoint(p) \in SUBSET BrowseAll
      BY DEF BrowseAtPoint
    <2> QED
      BY <1>3, <1>5, <2>1 DEF BrowseObjectsAtPoint
  <1>6. ASSUME NEW i \in Interval, BrowseObjectsInInterval(i)
        PROVE  Opens
    <2>1. BrowseInInterval(i) \in SUBSET BrowseAll
      BY DEF BrowseInInterval
    <2> QED
      BY <1>3, <1>6, <2>1 DEF BrowseObjectsInInterval
  <1> QED
    BY <1>1, <1>2, <1>4, <1>5, <1>6 DEF ReaderStep, Searches

(* The calls of an iterator, each from where PositionInv says it may be. *)
LEMMA SeekGoes ==
  ASSUME PositionInv, asked # Nothing, NEW pos \in Nat, pos < Len(result)
  PROVE  Seek(res, pos) = [rpos |-> pos, cursor |-> pos, row |-> NoRow]
  BY DEF Seek

LEMMA HandsOutSought ==
  ASSUME PositionInv, asked # Nothing, NEW pos \in Nat, pos < Len(result),
         HandOut(Seek(res, pos))
  PROVE  res' = [rpos |-> pos, cursor |-> pos + 1, row |-> pos] /\ out' = pos
  <1> DEFINE k == [rpos |-> pos, cursor |-> pos, row |-> NoRow]
  <1>1. res' = GetField(k) /\ out' = res'.row
    BY SeekGoes DEF HandOut
  <1>2. GetField(k) = [rpos |-> pos, cursor |-> pos + 1, row |-> pos]
    BY DEF GetField, NoRow
  <1> QED
    BY <1>1, <1>2

LEMMA HandsOutNext ==
  ASSUME PositionInv, asked # Nothing, NextObject
  PROVE  /\ currpos' = currpos + 1 /\ currpos' \in Nat /\ currpos' < Len(result)
         /\ out' = (IF out = NoRow THEN currpos ELSE out + 1)
         /\ res' = [rpos |-> currpos', cursor |-> out' + 1, row |-> out']
  <1>1. currpos \in Nat /\ Len(result) \in Nat /\ currpos < Len(result) - 1
    BY DEF PositionInv, NextObject, HasNext
  <1>2. PICK n \in Nat : res = [rpos |-> currpos, cursor |-> n, row |-> out]
                         /\ n = (IF out = NoRow THEN currpos ELSE out + 1)
    BY <1>1 DEF PositionInv, NoRow
  <1> DEFINE k == [rpos |-> currpos + 1, cursor |-> n, row |-> NoRow]
  <1>3. NextResultRow(res) = k
    BY <1>1, <1>2 DEF NextResultRow
  <1>4. GetField(k) = [rpos |-> currpos + 1, cursor |-> n + 1, row |-> n]
    BY <1>1 DEF GetField, NoRow
  <1>5. currpos' = currpos + 1 /\ res' = GetField(k) /\ out' = res'.row
    BY <1>3 DEF NextObject, HandOut
  <1> QED
    BY <1>1, <1>2, <1>4, <1>5

LEMMA CallsKeepPosition ==
  ASSUME PositionInv, asked # Nothing, UNCHANGED <<asked, result>>,
         Current \/ Previous \/ NextObject \/ GoToFirst \/ GoToLast
  PROVE  PositionInv'
  <1>1. /\ currpos \in Nat /\ Len(result) \in Nat /\ currpos < Len(result)
        /\ result \in Seq(HeadRow) /\ synced \in BOOLEAN
    BY DEF PositionInv
  <1>2. ASSUME NEW pos \in Nat, pos < Len(result), HandOut(Seek(res, pos)),
               currpos' = pos, synced' = TRUE
        PROVE  PositionInv'
    <2>1. res' = [rpos |-> pos, cursor |-> pos + 1, row |-> pos] /\ out' = pos
      BY <1>2, HandsOutSought
    <2> QED
      BY <1>1, <1>2, <2>1 DEF PositionInv
  <1>3. CASE Current
    BY <1>1, <1>2, <1>3 DEF Current
  <1>4. CASE Previous
    <2>1. currpos - 1 \in Nat /\ currpos - 1 < Len(result)
      BY <1>1, <1>4 DEF Previous, HasPrevious
    <2> QED
      BY <1>2, <1>4, <2>1 DEF Previous
  <1>5. CASE NextObject
    <2>1. /\ currpos' = currpos + 1 /\ currpos' \in Nat /\ currpos' < Len(result)
          /\ out' = (IF out = NoRow THEN currpos ELSE out + 1)
          /\ res' = [rpos |-> currpos', cursor |-> out' + 1, row |-> out']
      BY <1>5, HandsOutNext
    <2>2. synced' = synced
      BY <1>5 DEF NextObject
    <2>3. /\ out = NoRow => ~synced
          /\ out # NoRow => out \in Nat /\ out \in {currpos - 1, currpos} /\ (synced => out = currpos)
      BY DEF PositionInv, NoRow
    <2>4. out' \in Nat /\ out' \in {currpos' - 1, currpos'} /\ (synced' => out' = currpos')
      BY <1>1, <2>1, <2>2, <2>3
    <2> QED
      BY <1>1, <2>1, <2>2, <2>4 DEF PositionInv
  <1>6. ASSUME NEW pos \in Nat, pos < Len(result), GoTo(pos)
        PROVE  PositionInv'
    <2>1. res' = [rpos |-> pos, cursor |-> pos, row |-> NoRow]
      BY <1>6, SeekGoes DEF GoTo
    <2>2. currpos' = pos /\ out' = NoRow /\ synced' = FALSE
      BY <1>6 DEF GoTo
    <2> QED
      BY <1>1, <1>6, <2>1, <2>2 DEF PositionInv
  <1>7. CASE GoToFirst
    BY <1>1, <1>6, <1>7 DEF GoToFirst
  <1>8. CASE GoToLast
    <2>1. Len(result) - 1 \in Nat /\ Len(result) - 1 < Len(result)
      BY <1>1
    <2> QED
      BY <1>6, <1>8, <2>1 DEF GoToLast
  <1> QED
    BY <1>3, <1>4, <1>5, <1>7, <1>8

(* findNextValid and findLastValid: what has been met so far is no better
   than what has been found. *)
Beyond(r) == IF search.dir = "next" THEN r.since > search.point ELSE r.till < search.point

AtLeast(f, r) == IF search.dir = "next" THEN f.since <= r.since ELSE f.till >= r.till

SearchInv ==
  search # NoSearch =>
    /\ search \in [dir : {"next", "last"}, point : Time]
    /\ found \subseteq HeadRow /\ \A f, g \in found : f = g
    /\ \/ out = currpos
       \/ out = NoRow /\ currpos = 0
    /\ \A j \in 1 .. out + 1 : Beyond(result[j]) =>
         found # {} /\ \A f \in found : AtLeast(f, result[j])
    /\ \A f \in found : f.obj # 0 => f \in ToSet(result) /\ Beyond(f)

LEMMA SearchIsAsked ==
  ASSUME PositionInv, search # NoSearch
  PROVE  asked # Nothing
  BY DEF PositionInv

(* One object more is looked at. *)
LEMMA KeepsBest ==
  ASSUME NEW r \in HeadRow, found \subseteq HeadRow, \A f, g \in found : f = g,
         search \in [dir : {"next", "last"}, point : Time], Keep(r)
  PROVE  /\ found' \subseteq HeadRow /\ \A f, g \in found' : f = g
         /\ \A f \in found' : f \in found \/ (f = r /\ Beyond(r))
         /\ Beyond(r) => found' # {} /\ \A f \in found' : AtLeast(f, r)
         /\ \A q \in HeadRow : found # {} /\ (\A f \in found : AtLeast(f, q)) =>
              found' # {} /\ \A f \in found' : AtLeast(f, q)
  <1>1. \A q \in HeadRow : q.since \in Int /\ q.till \in Int
    BY TimeAssumption DEF HeadRow
  <1>2. search.point \in Int /\ search.dir \in {"next", "last"}
    BY TimeAssumption
  <1>3. r.since \in Int /\ r.till \in Int
    BY <1>1
  <1>4. CASE Improves(r)
    <2>1. found' = {r} /\ Beyond(r)
      BY <1>4 DEF Keep, Improves, Beyond
    <2>2. AtLeast(r, r)
      BY <1>3 DEF AtLeast
    <2>3. ASSUME NEW q \in HeadRow, NEW f \in found, AtLeast(f, q)
          PROVE  AtLeast(r, q)
      <3>1. f.since \in Int /\ f.till \in Int /\ q.since \in Int /\ q.till \in Int
        BY <1>1
      <3>2. IF search.dir = "next" THEN r.since < f.since ELSE r.till > f.till
        BY <1>4 DEF Improves
      <3> QED
        BY <1>3, <2>3, <3>1, <3>2 DEF AtLeast
    <2> QED
      BY <2>1, <2>2, <2>3
  <1>5. CASE ~Improves(r)
    <2>1. found' = found
      BY <1>5 DEF Keep
    <2>2. ASSUME Beyond(r)
          PROVE  found # {} /\ \A f \in found : AtLeast(f, r)
      <3>1. PICK g \in found : ~(IF search.dir = "next" THEN r.since < g.since ELSE r.till > g.till)
        BY <1>5, <2>2 DEF Improves, Beyond
      <3>2. g.since \in Int /\ g.till \in Int
        BY <1>1
      <3>3. AtLeast(g, r)
        BY <1>3, <3>1, <3>2 DEF AtLeast
      <3>4. \A f \in found : f = g
        OBVIOUS
      <3> QED
        BY <3>3, <3>4
    <2> QED
      BY <2>1, <2>2
  <1> QED
    BY <1>4, <1>5

LEMMA RowOfResult ==
  ASSUME NEW s \in Seq(HeadRow), NEW j \in 1 .. Len(s)
  PROVE  s[j] \in HeadRow /\ s[j] \in ToSet(s)
  BY DEF ToSet

LEMMA SearchOnKeeps ==
  ASSUME PositionInv, SearchInv, SearchOn
  PROVE  PositionInv' /\ SearchInv'
  <1>1. /\ search # NoSearch /\ asked # Nothing /\ UNCHANGED <<asked, result, search>>
        /\ out' \in 0 .. Len(result) - 1 /\ Keep(result[out' + 1])
    BY SearchIsAsked DEF SearchOn
  <1>2. /\ search \in [dir : {"next", "last"}, point : Time]
        /\ found \subseteq HeadRow /\ \A f, g \in found : f = g
        /\ out = currpos \/ (out = NoRow /\ currpos = 0)
        /\ \A j \in 1 .. out + 1 : Beyond(result[j]) =>
             found # {} /\ \A f \in found : AtLeast(f, result[j])
        /\ \A f \in found : f.obj # 0 => f \in ToSet(result) /\ Beyond(f)
    BY <1>1 DEF SearchInv
  <1>3. PositionInv'
    BY <1>1, CallsKeepPosition DEF SearchOn
  <1>4. currpos \in Nat /\ Len(result) \in Nat /\ currpos < Len(result) /\ result \in Seq(HeadRow)
    BY <1>1 DEF PositionInv
  <1>5. out' = currpos' /\ out' = out + 1
    <2>1. CASE out = NoRow
      <3>1. Current /\ currpos = 0
        BY <1>2, <1>4, <2>1 DEF SearchOn, NoRow
      <3>2. out' = currpos /\ currpos' = currpos
        BY <1>1, <1>4, <3>1, HandsOutSought DEF Current
      <3> QED
        BY <2>1, <3>1, <3>2 DEF NoRow
    <2>2. CASE out # NoRow
      <3>1. NextObject /\ out = currpos
        BY <1>2, <2>2 DEF SearchOn
      <3>2. currpos' = currpos + 1 /\ out' = out + 1
        BY <1>1, <2>2, <3>1, HandsOutNext
      <3> QED
        BY <3>1, <3>2
    <2> QED
      BY <2>1, <2>2
  <1>6. PICK r : r = result[out' + 1]
    OBVIOUS
  <1>7. r \in HeadRow /\ r \in ToSet(result) /\ Keep(r)
    <2>1. out' + 1 \in 1 .. Len(result)
      <3>1. \A n \in Nat : \A o \in 0 .. n - 1 : o + 1 \in 1 .. n
        OBVIOUS
      <3> QED
        BY <1>1, <1>4, <3>1
    <2> QED
      BY <1>1, <1>4, <1>6, <2>1, RowOfResult
  <1>8. /\ found' \subseteq HeadRow /\ \A f, g \in found' : f = g
        /\ \A f \in found' : f \in found \/ (f = r /\ Beyond(r))
        /\ Beyond(r) => found' # {} /\ \A f \in found' : AtLeast(f, r)
        /\ \A q \in HeadRow : found # {} /\ (\A f \in found : AtLeast(f, q)) =>
             found' # {} /\ \A f \in found' : AtLeast(f, q)
    BY <1>2, <1>7, KeepsBest
  <1>9. ASSUME NEW j \in 1 .. out' + 1, Beyond(result[j])
        PROVE  found' # {} /\ \A f \in found' : AtLeast(f, result[j])
    <2>1. CASE j = out' + 1
      BY <1>6, <1>8, <1>9, <2>1
    <2>2. CASE j # out' + 1
      <3>1. j \in 1 .. out + 1 /\ j \in 1 .. Len(result)
        BY <1>1, <1>4, <1>5, <2>2
      <3>2. found # {} /\ \A f \in found : AtLeast(f, result[j])
        BY <1>2, <1>9, <3>1
      <3>3. result[j] \in HeadRow
        BY <1>4, <3>1
      <3> QED
        BY <1>8, <3>2, <3>3
    <2> QED
      BY <2>1, <2>2
  <1>10. \A f \in found' : f.obj # 0 => f \in ToSet(result) /\ Beyond(f)
    BY <1>2, <1>7, <1>8
  <1>11. \A f, q : (AtLeast(f, q)' <=> AtLeast(f, q)) /\ (Beyond(q)' <=> Beyond(q))
    BY <1>1 DEF AtLeast, Beyond
  <1>12. SearchInv'
    BY <1>1, <1>2, <1>5, <1>8, <1>9, <1>10, <1>11 DEF SearchInv
  <1> QED
    BY <1>3, <1>12

LEMMA DefaultRows ==
  ASSUME NEW i \in Default
  PROVE  [obj |-> 0, since |-> i.since, till |-> i.till] \in HeadRow
  BY DefaultAssumption, IntervalAssumption DEF HeadRow

LEMMA SomeTime == Time # {}
  BY IntervalAssumption

LEMMA OpenedAtFirst ==
  ASSUME FolderInv, TaggerTypeOK, FolderRowsSound, TagRowsSound, PositionInv,
         NEW rows, NEW what, Asked(rows, what), Select(rows, what),
         out' = NoRow, synced' = FALSE, search' = NoSearch \/ what # Nothing
  PROVE  PositionInv'
  <1>1. /\ asked' = what /\ result' \in Seq(HeadRow) /\ Len(result') \in Nat \ {0}
        /\ res' = [rpos |-> 0, cursor |-> 0, row |-> NoRow] /\ currpos' = 0
    BY SelectOpens, AskedRows DEF Opened
  <1>2. PICK nothing : nothing = Nothing
    OBVIOUS
  <1>3. asked' = nothing => search' = NoSearch
    BY <1>1, <1>2
  <1>4. currpos' \in Nat /\ currpos' < Len(result') /\ synced' \in BOOLEAN
    <2>1. \A n \in Nat \ {0} : 0 < n
      OBVIOUS
    <2> QED
      BY <1>1, <2>1
  <1> QED
    BY <1>1, <1>2, <1>3, <1>4 DEF PositionInv, Opened, Nothing

LEMMA ForgetStartsAgain ==
  ASSUME Forget
  PROVE  PositionInv' /\ SearchInv'
  <1>1. <<>> \in Seq(HeadRow)
    OBVIOUS
  <1> QED
    BY <1>1 DEF Forget, PositionInv, SearchInv, Opened, Nothing, NoSearch

LEMMA BeginSearchKeeps ==
  ASSUME FolderInv, TaggerTypeOK, FolderRowsSound, TagRowsSound, PositionInv,
         NEW dir \in {"next", "last"}, NEW p \in Time, NEW v \in Version,
         BeginSearch(dir, p, v)
  PROVE  PositionInv' /\ SearchInv'
  <1>1. PICK what : what = [from |-> v, points |-> Time]
    OBVIOUS
  <1>2. Asked(Rows(v), what) /\ Select(Rows(v), what)
    BY <1>1 DEF BeginSearch, BrowseTagged, Asked
  <1>3. what # Nothing
    BY <1>1, SomeTime DEF Nothing
  <1>4. out' = NoRow /\ synced' = FALSE /\ search' = [dir |-> dir, point |-> p]
    BY DEF BeginSearch
  <1>5. PositionInv'
    BY <1>2, <1>3, <1>4, OpenedAtFirst
  <1>6. currpos' = 0
    BY <1>2 DEF Select
  <1>7. 1 .. out' + 1 = {}
    BY <1>4 DEF NoRow
  <1>8. \/ found' = {}
        \/ \E i \in Default : found' = {[obj |-> 0, since |-> i.since, till |-> i.till]}
    BY DEF BeginSearch
  <1>9. /\ found' \subseteq HeadRow /\ \A f, g \in found' : f = g
        /\ \A f \in found' : f.obj = 0
    BY <1>8, DefaultRows
  <1>10. search' \in [dir : {"next", "last"}, point : Time]
    BY <1>4
  <1> QED
    BY <1>4, <1>5, <1>6, <1>7, <1>9, <1>10 DEF SearchInv

LEMMA ReaderStepKeeps ==
  ASSUME FolderInv, TaggerTypeOK, FolderRowsSound, TagRowsSound, PositionInv, SearchInv,
         ReaderStep
  PROVE  PositionInv' /\ SearchInv'
  <1>1. CASE Opens
    <2>1. PICK rows, what : Asked(rows, what) /\ OpenIterator(rows, what)
      BY <1>1 DEF Opens
    <2>2. /\ Select(rows, what) /\ out' = NoRow /\ synced' = FALSE /\ search' = search
          /\ asked = Nothing
      BY <2>1 DEF OpenIterator, Select
    <2>3. search = NoSearch
      BY <2>2 DEF PositionInv
    <2>4. PositionInv'
      BY <2>1, <2>2, <2>3, OpenedAtFirst
    <2>5. SearchInv'
      BY <2>2, <2>3 DEF SearchInv, NoSearch
    <2> QED
      BY <2>4, <2>5
  <1>2. CASE Searches
    BY <1>2, BeginSearchKeeps DEF Searches
  <1>3. CASE CallIterator
    <2>1. asked # Nothing /\ search = NoSearch /\ UNCHANGED <<asked, result, search>>
      BY <1>3 DEF CallIterator, Iterating
    <2>2. PositionInv'
      BY <1>3, <2>1, CallsKeepPosition DEF CallIterator
    <2> QED
      BY <2>1, <2>2 DEF SearchInv, NoSearch
  <1>4. CASE DeleteIterator \/ EndSearch
    BY <1>4, ForgetStartsAgain DEF DeleteIterator, EndSearch
  <1>5. CASE SearchOn
    BY <1>5, SearchOnKeeps
  <1> QED
    BY <1>1, <1>2, <1>3, <1>4, <1>5, ReaderStepKinds

LEMMA OthersKeepPosition ==
  ASSUME PositionInv, SearchInv, UNCHANGED readerVars
  PROVE  PositionInv' /\ SearchInv'
  BY DEF readerVars, PositionInv, SearchInv, Beyond, AtLeast, Opened, Nothing, NoSearch

LEMMA PositionsHold == ReaderSpec => [](PositionInv /\ SearchInv)
  <1>1. ReaderInit => PositionInv /\ SearchInv
    <2> SUFFICES ASSUME ReaderInit
                 PROVE  PositionInv /\ SearchInv
      OBVIOUS
    <2>1. /\ result \in Seq(HeadRow) /\ asked = Nothing /\ search = NoSearch /\ res = Opened
          /\ out = NoRow /\ synced = FALSE /\ currpos = 0
      BY DEF ReaderInit
    <2>2. currpos \in Nat /\ synced \in BOOLEAN
      BY <2>1
    <2> QED
      BY <2>1, <2>2 DEF PositionInv, SearchInv
  <1>2. /\ FolderInv /\ TaggerTypeOK /\ TagRowsWithinKeys /\ FolderRowsSound /\ TagRowsSound
        /\ PositionInv /\ SearchInv /\ [ReaderNext]_systemVars
        => PositionInv' /\ SearchInv'
    BY ReaderSteps, ReaderStepKeeps, OthersKeepPosition
  <1> QED
    BY <1>1, <1>2, TablesHold, SoundHolds, PTL DEF ReaderSpec

(* Whatever is called in whatever order, and whatever is stored meanwhile, the
   positions stay inside the result and MySQL is never asked for the row behind
   the last. *)
THEOREM IteratorsStayInside == ReaderSpec => []ReaderInv
  <1>1. PositionInv => ReaderInv
    <2> SUFFICES ASSUME PositionInv
                 PROVE  ReaderInv
      OBVIOUS
    <2>1. Len(result) \in Nat /\ currpos \in Nat
      BY DEF PositionInv
    <2> QED
      BY <2>1 DEF PositionInv, ReaderInv, Opened, NoRow
  <1> QED
    BY <1>1, PositionsHold, PTL

(* After current or previous every next hands out the row that follows the
   one before it, for results of any length. *)
THEOREM NextHandsOutSuccessor == ReaderSpec => []NextIsSuccessor
  <1>1. PositionInv => NextIsSuccessor
    BY DEF PositionInv, NextIsSuccessor
  <1> QED
    BY <1>1, PositionsHold, PTL

(* The loops of findNextValid and findLastValid find the object of the
   version that is next to the point, for any rows in any order and any object
   the caller had. *)
THEOREM SearchesFindNeighbour == ReaderSpec => []FindsNeighbour
  <1>1. PositionInv /\ SearchInv => FindsNeighbour
    <2> SUFFICES ASSUME PositionInv, SearchInv, search # NoSearch, out # NoRow, ~HasNext
                 PROVE  /\ found = {} => Candidates = {}
                        /\ \A f \in found : /\ f.obj # 0 => f \in Candidates
                                            /\ \A r \in Candidates : AtLeast(f, r)
      BY DEF FindsNeighbour, AtLeast
    <2>1. Len(result) \in Nat /\ currpos \in Nat /\ currpos < Len(result) /\ out = currpos
      BY SearchIsAsked DEF PositionInv, SearchInv
    <2>2. 1 .. out + 1 = 1 .. Len(result)
      BY <2>1 DEF HasNext
    <2>3. Candidates = {r \in ToSet(result) : Beyond(r)}
      BY DEF Candidates, Beyond
    <2>4. ASSUME NEW r \in Candidates
          PROVE  found # {} /\ \A f \in found : AtLeast(f, r)
      <3>1. PICK j \in 1 .. Len(result) : r = result[j]
        BY <2>3 DEF ToSet, PositionInv
      <3> QED
        BY <2>2, <2>3, <3>1 DEF SearchInv
    <2> QED
      BY <2>3, <2>4 DEF SearchInv
  <1> QED
    BY <1>1, PositionsHold, PTL
-----------------------------------------------------------------------------
(* Queries about points and about intervals.  Two intervals with points that
   overlap have a point of Time in common: the later of their beginnings. *)
LEMMA OverlapHasPoint ==
  ASSUME NEW i \in [since : Time, till : Time], NEW r \in HeadRow,
         i.since < i.till, r.since < r.till
  PROVE  r.since < i.till /\ r.till > i.since <=> \E p \in PointsOf(i) : Covers(r, p)
  <1>1. /\ i.since \in Time /\ i.till \in Time /\ i.since \in Int /\ i.till \in Int
        /\ r.since \in Time /\ r.till \in Time /\ r.since \in Int /\ r.till \in Int
    BY TimeAssumption DEF HeadRow
  <1>2. ASSUME r.since < i.till, r.till > i.since
        PROVE  \E p \in PointsOf(i) : Covers(r, p)
    <2>1. CASE r.since <= i.since
      <3>1. i.since \in PointsOf(i) /\ Covers(r, i.since)
        BY <1>1, <1>2, <2>1 DEF PointsOf, Covers
      <3> QED
        BY <3>1
    <2>2. CASE ~(r.since <= i.since)
      <3>1. r.since \in PointsOf(i) /\ Covers(r, r.since)
        BY <1>1, <1>2, <2>2 DEF PointsOf, Covers
      <3> QED
        BY <3>1
    <2> QED
      BY <2>1, <2>2
  <1>3. ASSUME NEW p \in PointsOf(i), Covers(r, p)
        PROVE  r.since < i.till /\ r.till > i.since
    <2>1. p \in Int /\ i.since <= p /\ p < i.till /\ r.since <= p /\ p < r.till
      BY <1>3, TimeAssumption DEF PointsOf, Covers
    <2> QED
      BY <1>1, <2>1
  <1> QED
    BY <1>2, <1>3

LEMMA VersionWithinKeys ==
  ASSUME FolderInv, TagRowsWithinKeys, NEW v \in Version, NEW r \in Rows(v)
  PROVE  WithinKey(r)
  BY DEF FolderInv, DataInv, TagRowsWithinKeys, Version, Rows

LEMMA QueriesCorrespond ==
  ASSUME FolderInv, TaggerTypeOK, TagRowsWithinKeys, FolderRowsSound, TagRowsSound,
         IntervalsOrdered
  PROVE  QueriesAgree
  <1>1. ASSUME NEW v \in Version, NEW i \in Interval
        PROVE  BrowseHistory(v, i) = UNION {Find(v, p) : p \in PointsOf(i)}
    <2>1. i \in [since : Time, till : Time] /\ i.since < i.till
      BY IntervalAssumption DEF IntervalsOrdered
    <2>2. \A r \in Rows(v) : r \in HeadRow /\ r.since < r.till
      BY QueryRows DEF NonEmpty
    <2>3. \A r \in Rows(v) : r.since < i.till /\ r.till > i.since
                             <=> \E p \in PointsOf(i) : Covers(r, p)
      BY <2>1, <2>2, OverlapHasPoint
    <2> QED
      BY <2>3 DEF BrowseHistory, Find
  <1>2. ASSUME NEW v \in Version, NEW p \in Time, NEW r \in Find(v, p)
        PROVE  \E k \in BrowseAtPoint(p) : k.obj = r.obj
    <2>1. r \in Rows(v) /\ r.since <= p /\ p < r.till
      BY DEF Find, Covers
    <2>2. PICK k \in keyTbl : k.obj = r.obj /\ k.since <= r.since /\ r.till <= k.till
      BY <2>1, VersionWithinKeys DEF WithinKey
    <2>3. /\ k.since \in Int /\ k.till \in Int /\ r.since \in Int /\ r.till \in Int
          /\ p \in Int
      BY <2>1, QueryRows, TimeAssumption DEF FolderInv, TypeOK, KeyRow, HeadRow
    <2>4. PICK b : b = [obj |-> k.obj, since |-> k.since, till |-> k.till]
      OBVIOUS
    <2>5. b \in BrowseAll /\ b.since <= p /\ p <= b.till /\ b.obj = r.obj
      BY <2>1, <2>2, <2>3, <2>4 DEF BrowseAll
    <2> QED
      BY <2>5 DEF BrowseAtPoint
  <1>3. \A v \in Version : \A p \in Time :
          {r.obj : r \in Find(v, p)} \subseteq {k.obj : k \in BrowseAtPoint(p)}
    BY <1>2
  <1> QED
    BY <1>1, <1>3 DEF QueriesAgree

(* If no interval is empty, the query of an interval returns what the queries
   of its points return, for HEAD and every tag, and the query of all objects
   at a point has what they name there. *)
THEOREM PointsAndIntervalsAgree == IntervalsOrdered /\ ReaderSpec => []QueriesAgree
  <1>1. IntervalsOrdered => IntervalsOrdered'
    BY DEF IntervalsOrdered
  <1>2. /\ IntervalsOrdered /\ FolderInv /\ TaggerTypeOK /\ TagRowsWithinKeys
        /\ FolderRowsSound /\ TagRowsSound
        => QueriesAgree
    BY QueriesCorrespond
  <1> QED
    BY <1>1, <1>2, TablesHold, SoundHolds, PTL
-----------------------------------------------------------------------------
(* What an iterator over a version goes through.  That rows are a version of
   the folder stays true when more objects are stored. *)
VersionOn(points, rows) ==
  \E n \in 0 .. objSeq : \A p \in points : ObjectsAt(rows, p) = NewestIn(keyTbl, p, n)

SnapshotInv ==
  asked.from # "all" =>
    /\ SingleValued(ToSet(result))
    /\ asked.from = "HEAD" /\ faults = 0 => VersionOn(asked.points, ToSet(result))

LEMMA StoringKeepsVersionOn ==
  ASSUME FolderInv, [Next]_vars, NEW points, NEW rows, VersionOn(points, rows)
  PROVE  VersionOn(points, rows)'
  <1>1. PICK n \in 0 .. objSeq : \A p \in points : ObjectsAt(rows, p) = NewestIn(keyTbl, p, n)
    BY DEF VersionOn
  <1>2. /\ objSeq <= objSeq' /\ objSeq \in Nat /\ objSeq' \in Nat
        /\ keyTbl' = keyTbl \/ \E k : k.obj = objSeq + 1 /\ keyTbl' = keyTbl \cup {k}
    BY KeysGrow, StepTypeOK DEF FolderInv, TypeOK
  <1>3. ASSUME NEW k, k.obj = objSeq + 1, NEW p
        PROVE  NewestIn(keyTbl \cup {k}, p, n) = NewestIn(keyTbl, p, n)
    <2>1. ~(k.obj <= n)
      BY <1>2, <1>3
    <2> QED
      BY <2>1 DEF NewestIn
  <1>4. \A p : NewestIn(keyTbl', p, n) = NewestIn(keyTbl, p, n)
    BY <1>2, <1>3
  <1>5. n \in 0 .. objSeq'
    BY <1>2
  <1>6. \A p : ObjectsAt(rows, p)' = ObjectsAt(rows, p)
    BY DEF ObjectsAt, Covers
  <1> QED
    BY <1>1, <1>4, <1>5, <1>6 DEF VersionOn

LEMMA OthersKeepSnapshot ==
  ASSUME FolderInv, TaggerTypeOK, SnapshotInv, [TaggingNext]_allVars, UNCHANGED readerVars
  PROVE  SnapshotInv'
  <1>1. UNCHANGED <<asked, result>>
    BY DEF readerVars
  <1>2. PICK rows, points : rows = ToSet(result) /\ points = asked.points
    OBVIOUS
  <1>3. CASE [Next]_vars /\ UNCHANGED tagVars
    <2>1. faults' = 0 => faults = 0
      BY <1>3, FaultsGrow DEF FolderInv
    <2>2. VersionOn(points, rows) => VersionOn(points, rows)'
      BY <1>3, StoringKeepsVersionOn
    <2> QED
      BY <1>1, <1>2, <2>1, <2>2 DEF SnapshotInv
  <1>4. ASSUME UNCHANGED vars
        PROVE  SnapshotInv'
    BY <1>1, <1>4 DEF vars, tables, SnapshotInv, VersionOn
  <1>5. ASSUME faults' = faults + 1
        PROVE  SnapshotInv'
    <2>1. faults' # 0
      BY <1>5 DEF FolderInv, TypeOK
    <2> QED
      BY <1>1, <2>1 DEF SnapshotInv
  <1> QED
    BY <1>3, <1>4, <1>5, TaggingSteps

(* The rows of a version name one object at a point, and HEAD is a version. *)
LEMMA SnapshotTaken ==
  ASSUME FolderInv, TaggerTypeOK, FolderRowsSound, TagRowsSound, TagSingleValued,
         NEW rows, NEW what, Asked(rows, what), Select(rows, what), UNCHANGED allVars
  PROVE  SnapshotInv'
  <1>1. asked' = what /\ lock = Nobody /\ ToSet(result') = rows
    BY SelectOpens, AskedRows
  <1>2. UNCHANGED <<keyTbl, objSeq, faults>>
    BY DEF allVars, vars, tables
  <1>3. CASE what.from = "all"
    BY <1>1, <1>3 DEF SnapshotInv
  <1>4. CASE what.from # "all"
    <2>1. PICK v \in Version :
            /\ what.from = v
            /\ \/ rows = Rows(v) /\ what.points = Time
               \/ \E i \in Interval : rows = BrowseHistory(v, i) /\ what.points = PointsOf(i)
      BY <1>4 DEF Asked
    <2>2. SingleValued(headTbl) /\ IsVersion(headTbl)
      BY <1>1, HeadIsVersion
    <2>3. SingleValued(Rows(v))
      <3>1. \A t \in Tag : SingleValued(BagToSet(tagRows[t]))
        BY DEF TagSingleValued, TaggedAt, SingleValued
      <3> QED
        BY <2>2, <3>1 DEF Rows, Version
    <2>4. SingleValued(rows)
      <3>1. rows \subseteq Rows(v)
        BY <2>1 DEF BrowseHistory
      <3> QED
        BY <2>3, <3>1 DEF SingleValued
    <2>5. ASSUME v = "HEAD", faults = 0
          PROVE  VersionOn(what.points, rows)
      <3>1. PICK n \in 0 .. objSeq :
              \A p \in Time : ObjectsAt(headTbl, p) = NewestIn(keyTbl, p, n)
        BY <2>2, <2>5 DEF IsVersion, VersionIn
      <3>2. ASSUME NEW p \in what.points
            PROVE  p \in Time /\ ObjectsAt(rows, p) = ObjectsAt(headTbl, p)
        <4>1. CASE rows = Rows(v) /\ what.points = Time
          BY <2>5, <4>1 DEF Rows
        <4>2. ASSUME NEW i \in Interval, rows = BrowseHistory(v, i), what.points = PointsOf(i)
              PROVE  p \in Time /\ ObjectsAt(rows, p) = ObjectsAt(headTbl, p)
          <5>1. p \in Time /\ i.since <= p /\ p < i.till
            BY <4>2 DEF PointsOf, Covers
          <5>2. /\ i.since \in Int /\ i.till \in Int /\ p \in Int
                /\ \A r \in headTbl : r.since \in Int /\ r.till \in Int
            BY <5>1, IntervalAssumption, TimeAssumption DEF FolderInv, TypeOK, HeadRow
          <5>3. \A r \in headTbl : Covers(r, p) => r \in rows
            BY <2>5, <4>2, <5>1, <5>2 DEF BrowseHistory, Rows, Covers
          <5>4. rows \subseteq headTbl
            BY <2>5, <4>2 DEF BrowseHistory, Rows
          <5> QED
            BY <5>1, <5>3, <5>4 DEF ObjectsAt
        <4> QED
          BY <2>1, <4>1, <4>2
      <3> QED
        BY <3>1, <3>2 DEF VersionOn
    <2>6. VersionOn(what.points, rows)' <=> VersionOn(what.points, rows)
      BY <1>2 DEF VersionOn
    <2> QED
      BY <1>1, <1>2, <2>1, <2>4, <2>5, <2>6 DEF SnapshotInv
  <1> QED
    BY <1>3, <1>4

LEMMA ReaderStepSnapshot ==
  ASSUME FolderInv, TaggerTypeOK, FolderRowsSound, TagRowsSound, TagSingleValued,
         SnapshotInv, ReaderStep
  PROVE  SnapshotInv'
  <1>1. UNCHANGED allVars
    BY ReaderStepReads
  <1>2. CASE Opens
    BY <1>1, <1>2, SnapshotTaken DEF Opens, OpenIterator
  <1>3. ASSUME NEW dir \in {"next", "last"}, NEW p \in Time, NEW v \in Version,
               BeginSearch(dir, p, v)
        PROVE  SnapshotInv'
    <2>1. PICK what : what = [from |-> v, points |-> Time]
      OBVIOUS
    <2>2. Asked(Rows(v), what) /\ Select(Rows(v), what)
      BY <1>3, <2>1 DEF BeginSearch, BrowseTagged, Asked
    <2> QED
      BY <1>1, <2>2, SnapshotTaken
  <1>4. ASSUME UNCHANGED <<asked, result>>
        PROVE  SnapshotInv'
    BY <1>1, <1>4 DEF allVars, vars, tables, SnapshotInv, VersionOn
  <1>5. CASE CallIterator \/ SearchOn
    BY <1>4, <1>5 DEF CallIterator, SearchOn
  <1>6. CASE DeleteIterator \/ EndSearch
    <2>1. asked'.from = "nowhere" /\ ToSet(result') = {}
      BY <1>6 DEF DeleteIterator, EndSearch, Forget, Nothing, ToSet
    <2> QED
      BY <2>1 DEF SnapshotInv, SingleValued
  <1> QED
    BY <1>2, <1>3, <1>5, <1>6, ReaderStepKinds DEF Searches

LEMMA SnapshotsAreConsistent ==
  ASSUME SnapshotInv
  PROVE  SnapshotConsistent
  <1>1. \A p : ResultAt(p) = ObjectsAt(ToSet(result), p)
    BY DEF ResultAt, ObjectsAt
  <1> QED
    BY <1>1, NewestOfTable DEF SnapshotInv, SnapshotConsistent, VersionOn, SingleValued, ObjectsAt

(* If no two processes apply one tag, an iterator over HEAD or a tag meets one
   object at a point, and an iterator over HEAD goes through one version of
   the folder, whatever is stored, tagged and failing meanwhile. *)
THEOREM IteratorsSeeOneVersion == OwnTags /\ ReaderSpec => []SnapshotConsistent
  <1>1. ReaderInit => SnapshotInv
    BY DEF ReaderInit, SnapshotInv, Nothing, SingleValued, ToSet
  <1>2. TagIsSomeHead => TagSingleValued
    BY DEF TagIsSomeHead
  <1>3. /\ FolderInv /\ TaggerTypeOK /\ TagRowsWithinKeys /\ FolderRowsSound /\ TagRowsSound
        /\ TagSingleValued /\ SnapshotInv /\ [ReaderNext]_systemVars
        => SnapshotInv'
    BY ReaderSteps, ReaderStepSnapshot, OthersKeepSnapshot
  <1>4. SnapshotInv => SnapshotConsistent
    BY SnapshotsAreConsistent
  <1> QED
    BY <1>1, <1>2, <1>3, <1>4, TagsAreVersions, ReadersLetTag, TablesHold, SoundHolds, PTL
    DEF ReaderSpec
=============================================================================
