------------------------- MODULE OnlineIdStoreProofs -------------------------
(***************************************************************************)
(* The properties of OnlineIdStore for any clients, Ids, times and tables, *)
(* and any number of calls and failures.                                   *)
(***************************************************************************)
EXTENDS OnlineIdStore, TLAPS, WellFoundedInduction

(* A nonempty set of integers that does not go on for ever has a greatest
   element: the code takes maxima of open rows and of rows with one Id. *)
LEMMA Greatest ==
  ASSUME NEW S, S \subseteq Int, S # {}, NEW b \in Int, \A s \in S : s <= b
  PROVE  \E m \in S : \A s \in S : s <= m
  <1> DEFINE T == {b - s : s \in S}
  <1>1. T \subseteq Nat /\ T # {}
    <2>1. \A s \in S : b - s \in Nat
      OBVIOUS
    <2> QED
      BY <2>1
  <1>2. PICK x \in T : \A y \in T : <<y, x>> \notin OpToRel(<, Nat)
    BY <1>1, WFMin, NatLessThanWellFounded
  <1>3. \A y \in T : ~(y < x)
    BY <1>1, <1>2 DEF OpToRel
  <1>4. PICK m \in S : x = b - m
    BY <1>2
  <1>5. ASSUME NEW s \in S
        PROVE  s <= m
    <2>1. b - s \in T
      OBVIOUS
    <2>2. ~(b - s < b - m)
      BY <1>3, <1>4, <2>1
    <2>3. s \in Int /\ m \in Int
      OBVIOUS
    <2> HIDE DEF T
    <2> QED
      BY <2>2, <2>3
  <1> QED
    BY <1>5
-----------------------------------------------------------------------------
LastRow(c) == arg[c][l[c]]

(* The rows of the block a client stores have one Id, and it found no open
   rows of this Id that are as new. *)
BlockRead(c) ==
  /\ l[c] \in 1 .. Len(arg[c]) /\ first[c] \in 1 .. l[c]
  /\ \A m \in first[c] .. l[c] : arg[c][m].id = LastRow(c).id
  /\ open[c][LastRow(c).id] < LastRow(c).since

(* After the UPDATE nothing of the Id, and no NULLs, are valid from the time
   of the block on, except the rows the client has inserted itself. *)
BlockIsClosed(c) ==
  \A r \in onlTbl : r.id \in {LastRow(c).id, NoId} =>
    \/ r.till <= LastRow(c).since
    \/ /\ r.id = LastRow(c).id /\ r.since = LastRow(c).since
       /\ r.call = call[c] /\ r.till = PlusInf

ClientInv(c) ==
  /\ pc[c] # "idle" => lock = c
  /\ pc[c] \in {"idle", "select"} => l[c] = 0 /\ first[c] = 1 /\ next[c] = 1
  /\ pc[c] \in {"close", "insert"} => BlockRead(c)
  /\ pc[c] = "insert" => next[c] \in first[c] .. l[c] /\ BlockIsClosed(c)

(* The rows of one block that are found at all end together, and there is
   one row of NULLs. *)
BlocksEndTogether ==
  \A q, r \in onlTbl :
    q.id = r.id /\ q.since = r.since /\ q.call = r.call /\ q.since < q.till /\ r.since < r.till
      => q.till = r.till

OneNullRow == \A q, r \in onlTbl : q.id = NoId /\ r.id = NoId => q = r

(* What has to hold before each step. *)
IdInv ==
  /\ TypeOK /\ NullRowStandsAlone /\ OneBlockPerId /\ BlocksEndTogether /\ OneNullRow
  /\ \A c \in Client : ClientInv(c)

LEMMA SequenceRows ==
  ASSUME NEW S, NEW s \in Seq(S)
  PROVE  Len(s) \in Nat /\ \A n \in 1 .. Len(s) : s[n] \in S
  OBVIOUS

(* A table is a sequence of rows. *)
LEMMA ArgRows ==
  ASSUME TypeOK, NEW c \in Client
  PROVE  /\ Len(arg[c]) \in Nat
         /\ \A n \in 1 .. Len(arg[c]) : arg[c][n] \in [id : Id, since : Time]
  <1>1. arg[c] \in Tables \/ arg[c] = <<>>
    BY DEF TypeOK
  <1>2. <<>> \in Seq([id : Id, since : Time])
    OBVIOUS
  <1>3. arg[c] \in Seq([id : Id, since : Time])
    BY <1>1, <1>2, TableAssumption
  <1> QED
    BY <1>3, SequenceRows

LEMMA LastRowType ==
  ASSUME TypeOK, NEW c \in Client, BlockRead(c)
  PROVE  /\ LastRow(c).id \in Id /\ LastRow(c).id # NoId
         /\ LastRow(c).since \in Time /\ LastRow(c).since \in Int
  <1>1. LastRow(c) \in [id : Id, since : Time]
    BY ArgRows DEF BlockRead, LastRow
  <1> QED
    BY <1>1, NameAssumption, TimeAssumption

(* The rows that a block is looked for in end, so there is a last one. *)
LEMMA BlockEnds ==
  ASSUME TypeOK, NEW c \in Client, l[c] < Len(arg[c])
  PROVE  /\ BlockEnd(c) \in l[c] + 1 .. Len(arg[c])
         /\ \A m \in l[c] + 1 .. BlockEnd(c) : arg[c][m].id = arg[c][l[c] + 1].id
  <1>1. Len(arg[c]) \in Nat /\ l[c] \in Nat
    BY ArgRows DEF TypeOK
  <1> DEFINE S == {n \in l[c] + 1 .. Len(arg[c]) :
                     \A m \in l[c] + 1 .. n : arg[c][m].id = arg[c][l[c] + 1].id}
  <1>2. /\ S # {} /\ S \subseteq Int /\ Len(arg[c]) \in Int
        /\ \A n \in S : n <= Len(arg[c])
    <2>1. l[c] + 1 \in S
      BY <1>1
    <2> QED
      BY <1>1, <2>1
  <1>3. PICK n \in S : \A k \in S : k <= n
    <2> HIDE DEF S
    <2> QED
      BY <1>2, Greatest
  <1>4. n < Len(arg[c]) => arg[c][n + 1].id # arg[c][n].id
    <2> SUFFICES ASSUME n < Len(arg[c]), arg[c][n + 1].id = arg[c][n].id
                 PROVE  FALSE
      OBVIOUS
    <2>1. n \in Int /\ l[c] + 1 <= n /\ arg[c][n].id = arg[c][l[c] + 1].id
      BY <1>1
    <2>2. n + 1 \in l[c] + 1 .. Len(arg[c])
      BY <1>1, <2>1
    <2>3. \A m \in l[c] + 1 .. n + 1 : m \in l[c] + 1 .. n \/ m = n + 1
      BY <1>1, <2>1
    <2>4. n + 1 \in S
      BY <2>1, <2>2, <2>3
    <2>5. n + 1 <= n
      BY <1>3, <2>4
    <2> QED
      BY <2>1, <2>5
  <1> QED
    BY <1>4 DEF BlockEnd

(* The time of open rows is a time; it is 0 for an Id that has none. *)
LEMMA OpenSinceType ==
  ASSUME TypeOK, NEW i \in Id
  PROVE  OpenSince(i) \in Time \cup {0}
  <1> DEFINE S == {r.since : r \in {q \in onlTbl : q.till = PlusInf /\ q.id = i}}
  <1>1. S \subseteq Time
    BY DEF TypeOK, OnlRow
  <1>2. CASE S = {}
    BY <1>2 DEF OpenSince
  <1>3. CASE S # {}
    <2>1. S \subseteq Int /\ PlusInf \in Int /\ \A s \in S : s <= PlusInf
      BY <1>1, TimeAssumption
    <2>2. \E s \in S : \A u \in S : u <= s
      <3> HIDE DEF S
      <3> QED
        BY <1>3, <2>1, Greatest
    <2>3. (CHOOSE s \in S : \A u \in S : u <= s) \in S
      BY <2>2
    <2> QED
      BY <1>1, <1>3, <2>3 DEF OpenSince
  <1> QED
    BY <1>2, <1>3
-----------------------------------------------------------------------------
(* Only the owner of the lock is in a call. *)
LEMMA OthersIdle ==
  ASSUME IdInv, NEW c \in Client, lock \in {c, Nobody},
         NEW d \in Client, d # c, pc'[d] = pc[d],
         l'[d] = l[d], first'[d] = first[d], next'[d] = next[d]
  PROVE  ClientInv(d)'
  <1>1. pc[d] = "idle" /\ ClientInv(d)
    BY NameAssumption DEF IdInv, ClientInv
  <1> QED
    BY <1>1 DEF ClientInv

LEMMA SameTable ==
  ASSUME IdInv, onlTbl' = onlTbl
  PROVE  NullRowStandsAlone' /\ OneBlockPerId' /\ BlocksEndTogether' /\ OneNullRow'
  BY DEF IdInv, NullRowStandsAlone, OneBlockPerId, At, Covers, BlocksEndTogether, OneNullRow

LEMMA StoreOnlIdInv ==
  ASSUME IdInv, NEW c \in Client, NEW t \in Tables, StoreOnlId(c, t)
  PROVE  IdInv'
  <1>1. /\ pc[c] = "idle" /\ l[c] = 0 /\ first[c] = 1 /\ next[c] = 1
        /\ lock = Nobody /\ TypeOK /\ Len(t) \in Nat
    BY TableAssumption DEF IdInv, ClientInv, StoreOnlId
  <1>2. TypeOK'
    BY <1>1, BoundsAssumption DEF TypeOK, StoreOnlId, Goto, Label
  <1>3. ASSUME NEW d \in Client
        PROVE  ClientInv(d)'
    <2>1. CASE d = c
      BY <1>1, <2>1 DEF StoreOnlId, Goto, ClientInv, TypeOK
    <2>2. CASE d # c
      BY <1>1, <2>2, OthersIdle DEF StoreOnlId, Goto, TypeOK
    <2> QED
      BY <2>1, <2>2
  <1> QED
    BY <1>2, <1>3, SameTable DEF IdInv, StoreOnlId

LEMMA SelectOpenInv ==
  ASSUME IdInv, NEW c \in Client, SelectOpen(c)
  PROVE  IdInv'
  <1>1. /\ pc[c] = "select" /\ l[c] = 0 /\ first[c] = 1 /\ next[c] = 1
        /\ lock = c /\ TypeOK
    BY DEF IdInv, ClientInv, SelectOpen
  <1>2. TypeOK'
    <2>1. [i \in Id |-> OpenSince(i)] \in [Id -> Time \cup {0}]
      BY <1>1, OpenSinceType
    <2> QED
      BY <1>1, <2>1 DEF TypeOK, SelectOpen, Goto, Label
  <1>3. ASSUME NEW d \in Client
        PROVE  ClientInv(d)'
    <2>1. CASE d = c
      BY <1>1, <2>1 DEF SelectOpen, Goto, ClientInv, TypeOK
    <2>2. CASE d # c
      BY <1>1, <2>2, OthersIdle DEF SelectOpen, Goto, TypeOK
    <2> QED
      BY <2>1, <2>2
  <1> QED
    BY <1>2, <1>3, SameTable DEF IdInv, SelectOpen

LEMMA ReadBlockInv ==
  ASSUME IdInv, NEW c \in Client, ReadBlock(c)
  PROVE  IdInv'
  <1> DEFINE n == BlockEnd(c)
  <1>1. /\ pc[c] = "block" /\ first[c] = l[c] + 1 /\ lock = c /\ TypeOK
        /\ l[c] < Len(arg[c]) /\ Len(arg[c]) \in Nat /\ l[c] \in Nat
        /\ next[c] \in 1 .. l[c] + 1
    BY ArgRows DEF IdInv, TypeOK, ClientInv, ReadBlock
  <1>2. /\ n \in l[c] + 1 .. Len(arg[c])
        /\ \A m \in l[c] + 1 .. n : arg[c][m].id = arg[c][l[c] + 1].id
    BY <1>1, BlockEnds
  <1>3. l' = [l EXCEPT ![c] = n] /\ l'[c] = n
    BY <1>1 DEF ReadBlock, TypeOK
  <1>4. \/ /\ pc' = [pc EXCEPT ![c] = "close"] /\ first' = first
           /\ open[c][arg[c][n].id] < arg[c][n].since
        \/ pc' = pc /\ first' = [first EXCEPT ![c] = n + 1]
    BY DEF ReadBlock, Goto
  <1> HIDE DEF n
  <1>5. UNCHANGED <<onlTbl, lock, arg, call, open, next, calls, faults>>
    BY DEF ReadBlock
  <1>6. TypeOK'
    <2>1. /\ l' \in [Client -> Nat] /\ first' \in [Client -> Nat]
          /\ pc' \in [Client -> Label]
          /\ \A d \in Client : d # c => l'[d] = l[d] /\ first'[d] = first[d] /\ pc'[d] = pc[d]
      <3>1. n \in Nat /\ n + 1 \in Nat /\ "close" \in Label
        BY <1>1, <1>2 DEF Label
      <3>2. {l, first} \subseteq [Client -> Nat] /\ pc \in [Client -> Label]
        BY <1>1 DEF TypeOK
      <3> QED
        BY <1>3, <1>4, <3>1, <3>2
    <2>2. /\ l'[c] \in 0 .. Len(arg[c]) /\ first'[c] \in 1 .. l'[c] + 1
          /\ next[c] \in 1 .. l'[c] + 1
          /\ pc'[c] = "block" => first'[c] = l'[c] + 1
      BY <1>1, <1>2, <1>3, <1>4 DEF TypeOK
    <2>3. \A d \in Client : /\ l'[d] \in 0 .. Len(arg[d]) /\ first'[d] \in 1 .. l'[d] + 1
                            /\ next[d] \in 1 .. l'[d] + 1
                            /\ pc'[d] = "block" => first'[d] = l'[d] + 1
      BY <1>1, <2>1, <2>2 DEF TypeOK
    <2> QED
      BY <1>1, <1>5, <2>1, <2>3 DEF TypeOK
  <1>7. ASSUME NEW d \in Client
        PROVE  ClientInv(d)'
    <2>1. CASE d = c
      <3>1. CASE pc'[c] = "close"
        <4>1. /\ first'[c] = l[c] + 1
              /\ open[c][arg[c][n].id] < arg[c][n].since
          BY <1>1, <1>4, <3>1 DEF TypeOK
        <4>2. BlockRead(c)'
          BY <1>1, <1>2, <1>3, <1>5, <4>1 DEF BlockRead, LastRow
        <4> QED
          BY <1>1, <1>5, <2>1, <3>1, <4>2 DEF ClientInv
      <3>2. CASE pc'[c] # "close"
        BY <1>1, <1>4, <1>5, <2>1, <3>2 DEF ClientInv, TypeOK
      <3> QED
        BY <3>1, <3>2
    <2>2. CASE d # c
      <3>1. pc'[d] = pc[d] /\ l'[d] = l[d] /\ first'[d] = first[d] /\ next'[d] = next[d]
        BY <1>1, <1>3, <1>4, <1>5, <2>2 DEF TypeOK
      <3> QED
        BY <1>1, <2>2, <3>1, OthersIdle
    <2> QED
      BY <2>1, <2>2
  <1> QED
    BY <1>5, <1>6, <1>7, SameTable DEF IdInv
(* The UPDATE only moves ends to the time of the block. *)
LEMMA CloseOpenInv ==
  ASSUME IdInv, NEW c \in Client, CloseOpen(c)
  PROVE  IdInv'
  <1> DEFINE since == LastRow(c).since
             ids == {LastRow(c).id, NoId}
             Cut(r) == IF r.till > since /\ r.id \in ids THEN [r EXCEPT !.till = since] ELSE r
  <1>1. /\ pc[c] = "close" /\ lock = c /\ TypeOK /\ BlockRead(c)
        /\ first[c] \in 1 .. l[c] /\ l[c] \in Nat
    BY DEF IdInv, TypeOK, ClientInv, CloseOpen, BlockRead
  <1>2. /\ onlTbl' = {Cut(r) : r \in onlTbl}
        /\ next' = [next EXCEPT ![c] = first[c]] /\ pc' = [pc EXCEPT ![c] = "insert"]
        /\ UNCHANGED <<lock, arg, call, open, first, l, calls, faults>>
    BY DEF CloseOpen, Goto, LastRow
  <1>3. since \in Time /\ since \in Int
    BY <1>1, LastRowType
  <1>4. ASSUME NEW r \in onlTbl
        PROVE  /\ Cut(r) \in OnlRow /\ Cut(r).id = r.id /\ Cut(r).since = r.since
               /\ Cut(r).call = r.call
               /\ \A p \in Time : Covers(Cut(r), p) => Covers(r, p)
               /\ r.id \in ids => Cut(r).till <= since
               /\ Cut(r).since < Cut(r).till => r.since < r.till
               /\ Cut(r).till = IF r.till > since /\ r.id \in ids THEN since ELSE r.till
    <2>1. r \in OnlRow /\ r.till \in Int /\ r.since \in Int /\ \A p \in Time : p \in Int
      BY <1>1, TimeAssumption DEF TypeOK, OnlRow
    <2> HIDE DEF since
    <2> QED
      BY <1>3, <2>1 DEF OnlRow, Covers
  <1> HIDE DEF since, ids, Cut
  <1>5. TypeOK'
    <2>1. next' \in [Client -> Nat] /\ next'[c] = first[c]
          /\ \A d \in Client : d # c => next'[d] = next[d]
      BY <1>1, <1>2 DEF TypeOK
    <2>2. pc' \in [Client -> Label] /\ \A d \in Client : pc'[d] = "block" => pc[d] = "block"
      BY <1>1, <1>2 DEF TypeOK, Label
    <2>3. \A d \in Client : next'[d] \in 1 .. l[d] + 1
      BY <1>1, <2>1 DEF TypeOK
    <2> QED
      BY <1>1, <1>2, <1>4, <2>1, <2>2, <2>3 DEF TypeOK
  <1>6. ASSUME NEW i, NEW p \in Time, NEW q \in At(i, p)'
        PROVE  \E r \in At(i, p) : q.since = r.since /\ q.call = r.call
    BY <1>2, <1>4 DEF At, Covers
  <1>7. NullRowStandsAlone' /\ OneBlockPerId'
    BY <1>6 DEF IdInv, NullRowStandsAlone, OneBlockPerId
  <1>8. OneNullRow'
    BY <1>2, <1>4 DEF IdInv, OneNullRow
  <1>9. BlocksEndTogether'
    <2> SUFFICES ASSUME NEW q \in onlTbl, NEW r \in onlTbl,
                        Cut(q).id = Cut(r).id, Cut(q).since = Cut(r).since,
                        Cut(q).call = Cut(r).call,
                        Cut(q).since < Cut(q).till, Cut(r).since < Cut(r).till
                 PROVE  Cut(q).till = Cut(r).till
      BY <1>2 DEF BlocksEndTogether
    <2>1. q.id = r.id /\ q.till = r.till
      BY <1>4 DEF IdInv, BlocksEndTogether
    <2> QED
      BY <1>4, <2>1
  <1>10. ASSUME NEW d \in Client
         PROVE  ClientInv(d)'
    <2>1. CASE d = c
      <3>1. BlockRead(c)'
        BY <1>1, <1>2 DEF BlockRead, LastRow
      <3>2. BlockIsClosed(c)'
        BY <1>2, <1>4 DEF BlockIsClosed, LastRow, ids, since
      <3>3. pc'[c] = "insert" /\ next'[c] \in first'[c] .. l'[c]
        BY <1>1, <1>2 DEF TypeOK
      <3> QED
        BY <1>1, <1>2, <2>1, <3>1, <3>2, <3>3 DEF ClientInv
    <2>2. CASE d # c
      BY <1>1, <1>2, <2>2, OthersIdle DEF TypeOK
    <2> QED
      BY <2>1, <2>2
  <1> QED
    BY <1>5, <1>7, <1>8, <1>9, <1>10 DEF IdInv

(* A row is inserted where there is nothing of its Id but its own block. *)
LEMMA InsertRowInv ==
  ASSUME IdInv, NEW c \in Client, InsertRow(c)
  PROVE  IdInv'
  <1> DEFINE since == LastRow(c).since
             id  == LastRow(c).id
             new == [since |-> arg[c][l[c]].since, till |-> PlusInf,
                     id |-> arg[c][next[c]].id, call |-> call[c], row |-> next[c]]
  <1>1. /\ pc[c] = "insert" /\ lock = c /\ TypeOK /\ BlockRead(c) /\ BlockIsClosed(c)
        /\ next[c] \in first[c] .. l[c] /\ first[c] \in 1 .. l[c] /\ l[c] \in Nat
    BY DEF IdInv, TypeOK, ClientInv, InsertRow, BlockRead
  <1>2. /\ onlTbl' = onlTbl \cup {new}
        /\ UNCHANGED <<lock, arg, call, open, l, calls, faults>>
    BY DEF InsertRow
  <1>3. \/ /\ next[c] = l[c] /\ pc' = [pc EXCEPT ![c] = "block"] /\ next' = next
           /\ first' = [first EXCEPT ![c] = l[c] + 1]
        \/ /\ next[c] # l[c] /\ next' = [next EXCEPT ![c] = @ + 1]
           /\ pc' = pc /\ first' = first
    BY DEF InsertRow, Goto
  <1>4. /\ since \in Time /\ since \in Int /\ id \in Id /\ id # NoId
        /\ PlusInf \in Time /\ \A p \in Time : p \in Int
    BY <1>1, LastRowType, TimeAssumption
  <1>5. /\ new.since = since /\ new.id = id /\ new.till = PlusInf /\ new.call = call[c]
    BY <1>1 DEF BlockRead, LastRow
  <1>6. new \in OnlRow
    BY <1>1, <1>4, <1>5 DEF OnlRow, TypeOK
  <1> HIDE DEF new, since, id
  <1>7. \A d \in Client : d # c => pc'[d] = pc[d] /\ next'[d] = next[d] /\ first'[d] = first[d]
    BY <1>1, <1>3 DEF TypeOK
  <1>8. TypeOK'
    <2>1. next' \in [Client -> Nat] /\ first' \in [Client -> Nat] /\ pc' \in [Client -> Label]
      <3>1. {next, first} \subseteq [Client -> Nat] /\ pc \in [Client -> Label]
        BY <1>1 DEF TypeOK
      <3>2. l[c] + 1 \in Nat /\ next[c] + 1 \in Nat /\ "block" \in Label
        BY <1>1, <3>1 DEF Label
      <3> QED
        BY <1>3, <3>1, <3>2
    <2>2. /\ next'[c] \in 1 .. l[c] + 1 /\ first'[c] \in 1 .. l[c] + 1
          /\ pc'[c] = "block" => first'[c] = l[c] + 1
      BY <1>1, <1>3 DEF TypeOK
    <2>3. \A d \in Client : /\ next'[d] \in 1 .. l[d] + 1 /\ first'[d] \in 1 .. l[d] + 1
                            /\ pc'[d] = "block" => first'[d] = l[d] + 1
      BY <1>1, <1>7, <2>2 DEF TypeOK
    <2> QED
      BY <1>1, <1>2, <1>6, <2>1, <2>3 DEF TypeOK
  <1>9. ASSUME NEW p \in Time, Covers(new, p), NEW r \in onlTbl, Covers(r, p),
               r.id \in {id, NoId}
        PROVE  r.id = id /\ r.since = since /\ r.call = call[c]
    <2>1. \/ r.till <= since
          \/ r.id = id /\ r.since = since /\ r.call = call[c] /\ r.till = PlusInf
      BY <1>1, <1>9 DEF BlockIsClosed, id, since
    <2>2. r.till \in Int
      BY <1>1, TimeAssumption DEF TypeOK, OnlRow
    <2> QED
      BY <1>4, <1>5, <1>9, <2>1, <2>2 DEF Covers
  <1>10. NullRowStandsAlone'
    <2> SUFFICES ASSUME NEW i \in Id, NEW p \in Time, NEW q \in onlTbl', NEW r \in onlTbl',
                        q.id = NoId, r.id = i, Covers(q, p), Covers(r, p)
                 PROVE  FALSE
      BY DEF NullRowStandsAlone, At, Covers
    <2>1. q \in onlTbl
      BY <1>2, <1>4, <1>5
    <2>2. CASE r \in onlTbl
      BY <2>1, <2>2 DEF IdInv, NullRowStandsAlone, At
    <2>3. CASE r = new
      BY <1>4, <1>9, <2>1, <2>3
    <2> QED
      BY <1>2, <2>2, <2>3
  <1>11. OneBlockPerId'
    <2> SUFFICES ASSUME NEW i \in Id, NEW p \in Time, NEW q \in onlTbl', NEW r \in onlTbl',
                        q.id = i, r.id = i, Covers(q, p), Covers(r, p)
                 PROVE  q.since = r.since /\ q.call = r.call
      BY DEF OneBlockPerId, At, Covers
    <2>1. CASE q \in onlTbl /\ r \in onlTbl
      BY <2>1 DEF IdInv, OneBlockPerId, At
    <2>2. CASE q = new /\ r \in onlTbl
      BY <1>5, <1>9, <2>2
    <2>3. CASE r = new /\ q \in onlTbl
      BY <1>5, <1>9, <2>3
    <2>4. CASE q = new /\ r = new
      BY <2>4
    <2> QED
      BY <1>2, <2>1, <2>2, <2>3, <2>4
  <1>12. OneNullRow'
    BY <1>2, <1>4, <1>5 DEF IdInv, OneNullRow
  <1>13. BlocksEndTogether'
    <2>1. ASSUME NEW r \in onlTbl, r.id = id, r.since = since, r.since < r.till
          PROVE  r.till = PlusInf
      <3>1. r.till \in Int /\ r.since \in Int
        BY <1>1, TimeAssumption DEF TypeOK, OnlRow
      <3>2. r.till <= since \/ r.till = PlusInf
        BY <1>1, <2>1 DEF BlockIsClosed, id, since
      <3> QED
        BY <1>4, <2>1, <3>1, <3>2
    <2> SUFFICES ASSUME NEW q \in onlTbl', NEW r \in onlTbl',
                        q.id = r.id, q.since = r.since, q.call = r.call,
                        q.since < q.till, r.since < r.till
                 PROVE  q.till = r.till
      BY DEF BlocksEndTogether
    <2>2. CASE q \in onlTbl /\ r \in onlTbl
      BY <2>2 DEF IdInv, BlocksEndTogether
    <2>3. CASE q = new
      BY <1>2, <1>5, <2>1, <2>3
    <2>4. CASE r = new
      BY <1>2, <1>5, <2>1, <2>4
    <2> QED
      BY <1>2, <2>2, <2>3, <2>4
  <1>14. ASSUME NEW d \in Client
         PROVE  ClientInv(d)'
    <2>1. CASE d = c
      <3>1. BlockIsClosed(c)'
        BY <1>1, <1>2, <1>5 DEF BlockIsClosed, LastRow, id, since
      <3>2. CASE next[c] = l[c]
        BY <1>1, <1>2, <1>3, <2>1, <3>2 DEF ClientInv, TypeOK
      <3>3. CASE next[c] # l[c]
        <4>1. BlockRead(c)'
          BY <1>1, <1>2, <1>3, <3>3 DEF BlockRead, LastRow
        <4>2. pc'[c] = "insert" /\ next'[c] \in first'[c] .. l'[c]
          BY <1>1, <1>2, <1>3, <3>3 DEF TypeOK
        <4> QED
          BY <1>1, <1>2, <2>1, <3>1, <4>1, <4>2 DEF ClientInv
      <3> QED
        BY <3>2, <3>3
    <2>2. CASE d # c
      BY <1>1, <1>2, <1>7, <2>2, OthersIdle
    <2> QED
      BY <2>1, <2>2
  <1> QED
    BY <1>8, <1>10, <1>11, <1>12, <1>13, <1>14 DEF IdInv

LEMMA EndCallInv ==
  ASSUME IdInv, NEW c \in Client, lock = c, EndCall(c)
  PROVE  IdInv'
  <1>1. /\ TypeOK /\ pc'[c] = "idle" /\ l'[c] = 0 /\ first'[c] = 1 /\ next'[c] = 1
        /\ \A d \in Client : d # c => /\ pc'[d] = pc[d] /\ l'[d] = l[d] /\ arg'[d] = arg[d]
                                      /\ first'[d] = first[d] /\ next'[d] = next[d]
    BY DEF IdInv, EndCall, Goto, TypeOK
  <1>2. TypeOK'
    <2>1. /\ pc' \in [Client -> Label] /\ arg' \in [Client -> Tables \cup {<<>>}]
          /\ call' \in [Client -> Nat] /\ {first', l', next'} \subseteq [Client -> Nat]
          /\ arg'[c] = <<>>
      BY <1>1 DEF TypeOK, EndCall, Goto, Label
    <2>2. open' \in [Client -> [Id -> Time \cup {0}]]
      <3>1. [i \in Id |-> 0] \in [Id -> Time \cup {0}]
        OBVIOUS
      <3> QED
        BY <1>1, <3>1 DEF TypeOK, EndCall
    <2>3. \A d \in Client : /\ l'[d] \in 0 .. Len(arg'[d])
                            /\ first'[d] \in 1 .. l'[d] + 1
                            /\ next'[d] \in 1 .. l'[d] + 1
                            /\ pc'[d] = "block" => first'[d] = l'[d] + 1
      <3>1. Len(arg'[c]) = 0
        BY <2>1
      <3>2. ASSUME NEW d \in Client, d # c
            PROVE  /\ l'[d] \in 0 .. Len(arg'[d])
                   /\ first'[d] \in 1 .. l'[d] + 1 /\ next'[d] \in 1 .. l'[d] + 1
                   /\ pc'[d] = "block" => first'[d] = l'[d] + 1
        BY <1>1, <3>2 DEF TypeOK
      <3> QED
        BY <1>1, <3>1, <3>2
    <2> QED
      BY <1>1, <2>1, <2>2, <2>3 DEF TypeOK, EndCall
  <1>3. ASSUME NEW d \in Client
        PROVE  ClientInv(d)'
    <2>1. CASE d = c
      BY <1>1, <2>1 DEF ClientInv
    <2>2. CASE d # c
      BY <1>1, <2>2, OthersIdle
    <2> QED
      BY <2>1, <2>2
  <1> QED
    BY <1>2, <1>3, SameTable DEF IdInv, EndCall

LEMMA FailInv ==
  ASSUME IdInv, NEW c \in Client, Fail(c)
  PROVE  IdInv'
  <1>1. TypeOK /\ lock = c /\ pc' = [pc EXCEPT ![c] = "failed"]
    BY DEF IdInv, ClientInv, Fail, Goto
  <1>2. UNCHANGED <<onlTbl, lock, arg, call, open, first, l, next, calls>>
    BY DEF Fail, locals
  <1>3. TypeOK'
    BY <1>1, <1>2, BoundsAssumption DEF TypeOK, Fail, Label
  <1>4. ASSUME NEW d \in Client
        PROVE  ClientInv(d)'
    <2>1. CASE d = c
      BY <1>1, <1>2, <2>1 DEF ClientInv, TypeOK
    <2>2. CASE d # c
      BY <1>1, <1>2, <2>2, OthersIdle DEF TypeOK
    <2> QED
      BY <2>1, <2>2
  <1> QED
    BY <1>2, <1>3, <1>4, SameTable DEF IdInv

LEMMA StepInv ==
  ASSUME IdInv, [Next]_vars
  PROVE  IdInv'
  <1>1. ASSUME NEW c \in Client, UnlockTables(c) \/ Close(c)
        PROVE  IdInv'
    <2>1. lock = c /\ EndCall(c)
      BY <1>1 DEF UnlockTables, Close, IdInv, ClientInv
    <2> QED
      BY <2>1, EndCallInv
  <1>2. CASE UNCHANGED vars
    <2>1. TypeOK'
      BY <1>2 DEF vars, locals, IdInv, TypeOK
    <2>2. \A c \in Client : ClientInv(c)'
      BY <1>2 DEF vars, locals, IdInv, ClientInv, BlockRead, BlockIsClosed, LastRow
    <2> QED
      BY <1>2, <2>1, <2>2, SameTable DEF vars, IdInv
  <1> QED
    BY <1>1, <1>2, StoreOnlIdInv, SelectOpenInv, ReadBlockInv, CloseOpenInv, InsertRowInv,
       FailInv
    DEF Next, Finished

LEMMA InitInv == Init => IdInv
  <1> SUFFICES ASSUME Init
               PROVE  IdInv
    OBVIOUS
  <1>1. TypeOK
    BY TimeAssumption, BoundsAssumption DEF Init, TypeOK, OnlRow, Label
  <1>2. NullRowStandsAlone /\ OneBlockPerId /\ BlocksEndTogether /\ OneNullRow
    BY NameAssumption
    DEF Init, NullRowStandsAlone, OneBlockPerId, At, BlocksEndTogether, OneNullRow
  <1> QED
    BY <1>1, <1>2 DEF Init, IdInv, ClientInv

LEMMA IdInvHolds == Spec => []IdInv
  BY InitInv, StepInv, PTL DEF Spec
-----------------------------------------------------------------------------
(* Tables and locals keep their types, and no point at which an Id has values
   shows the row of NULLs as well: for any clients, tables and failures. *)
THEOREM NullsHideNothing == Spec => []OnlineIdInv
  <1>1. IdInv => OnlineIdInv
    BY DEF IdInv, OnlineIdInv
  <1> QED
    BY <1>1, IdInvHolds, PTL

(* What is found of an Id at a point is of one block: of one call and one
   time, also after a crash between the rows of a block. *)
THEOREM OneBlockAtATime == Spec => []OneBlockPerId
  <1>1. IdInv => OneBlockPerId
    BY DEF IdInv
  <1> QED
    BY <1>1, IdInvHolds, PTL

(* The UPDATE moves no end that was before the open rows of the Id when the
   call began: the map that is read once says the truth until it ends,
   because the lock is kept. *)
LEMMA StepKeepsHistory ==
  ASSUME IdInv, [Next]_vars, NEW c \in Client, pc[c] \in {"block", "close", "insert"},
         NEW r \in onlTbl, r.id # NoId, r.till <= open[c][r.id]
  PROVE  r \in onlTbl'
  <1>1. lock = c /\ \A d \in Client : d # c => pc[d] = "idle"
    BY NameAssumption DEF IdInv, ClientInv
  <1>2. ASSUME NEW d \in Client, CloseOpen(d)
        PROVE  r \in onlTbl'
    <2>1. d = c /\ BlockRead(c) /\ TypeOK
      BY <1>1, <1>2 DEF CloseOpen, IdInv, ClientInv
    <2>2. LastRow(c).id \in Id /\ LastRow(c).since \in Int /\ r.till \in Int
      BY <2>1, LastRowType, TimeAssumption DEF TypeOK, OnlRow
    <2>3. open[c][LastRow(c).id] \in Int /\ open[c][LastRow(c).id] < LastRow(c).since
      BY <2>1, <2>2, TimeAssumption DEF TypeOK, BlockRead
    <2>4. ~(r.till > LastRow(c).since /\ r.id \in {LastRow(c).id, NoId})
      BY <2>2, <2>3
    <2> QED
      BY <1>2, <2>1, <2>4 DEF CloseOpen, LastRow
  <1> QED
    BY <1>2 DEF Next, StoreOnlId, SelectOpen, ReadBlock, InsertRow, UnlockTables, Close,
                EndCall, Fail, Finished, vars

(* History is kept: for any clients, tables and failures. *)
THEOREM HistoryIsKept == Spec => HistoryKept
  <1>1. IdInv /\ [Next]_vars =>
          [\A c \in Client : pc[c] \in {"block", "close", "insert"} =>
             \A r \in onlTbl : r.id # NoId /\ r.till <= open[c][r.id] => r \in onlTbl']_vars
    BY StepKeepsHistory
  <1> QED
    BY <1>1, IdInvHolds, PTL DEF Spec, HistoryKept
-----------------------------------------------------------------------------
(* An Id has values from its first time on, or a client is about to insert
   the first row of a block of it. *)
Owed(i, p) ==
  \E c \in Client : /\ pc[c] = "insert" /\ next[c] = first[c]
                    /\ LastRow(c).id = i /\ LastRow(c).since <= p

IdFilled ==
  faults = 0 =>
    /\ \A c \in Client : pc[c] # "failed"
    /\ \A r \in onlTbl, p \in Time :
         r.id # NoId /\ r.since <= p /\ p < PlusInf => At(r.id, p) # {} \/ Owed(r.id, p)

LEMMA QuietFilled ==
  ASSUME IdFilled, onlTbl' = onlTbl, faults' = faults,
         \A c \in Client : /\ pc[c] # "insert" /\ pc'[c] # "insert"
                           /\ pc'[c] = "failed" => pc[c] = "failed"
  PROVE  IdFilled'
  BY DEF IdFilled, Owed, At, Covers

LEMMA CloseFilled ==
  ASSUME IdInv, IdFilled, NEW c \in Client, CloseOpen(c)
  PROVE  IdFilled'
  <1> DEFINE since == LastRow(c).since
             id == LastRow(c).id
             Cut(r) == IF r.till > since /\ r.id \in {id, NoId}
                       THEN [r EXCEPT !.till = since] ELSE r
  <1>1. /\ pc[c] = "close" /\ TypeOK /\ BlockRead(c)
        /\ \A d \in Client : d # c => pc[d] = "idle"
    BY NameAssumption DEF IdInv, ClientInv, CloseOpen
  <1>2. /\ onlTbl' = {Cut(r) : r \in onlTbl}
        /\ next'[c] = first'[c] /\ pc'[c] = "insert" /\ \A d \in Client : d # c => pc'[d] = pc[d]
        /\ LastRow(c)' = LastRow(c) /\ faults' = faults
    BY <1>1 DEF CloseOpen, Goto, LastRow, TypeOK
  <1>3. since \in Int /\ \A p \in Time : p \in Int
    BY <1>1, LastRowType, TimeAssumption
  <1>4. ASSUME NEW r \in onlTbl
        PROVE  /\ Cut(r).id = r.id /\ Cut(r).since = r.since
               /\ \A p \in Time : Covers(r, p) /\ p < since => Covers(Cut(r), p)
               /\ r.id \notin {id, NoId} => Cut(r) = r
    <2>1. r \in OnlRow /\ r.till \in Int
      BY <1>1, TimeAssumption DEF TypeOK, OnlRow
    <2> HIDE DEF since, id
    <2> QED
      BY <1>3, <2>1 DEF OnlRow, Covers
  <1> HIDE DEF Cut
  <1>5. ASSUME faults = 0, NEW q \in onlTbl, NEW p \in Time,
               q.id # NoId, q.since <= p, p < PlusInf
        PROVE  At(q.id, p)' # {} \/ Owed(q.id, p)'
    <2>1. At(q.id, p) # {}
      BY <1>1, <1>5 DEF IdFilled, Owed
    <2>2. PICK r \in onlTbl : r.id = q.id /\ Covers(r, p)
      BY <2>1 DEF At
    <2>3. CASE Covers(Cut(r), p)
      <3>1. Cut(r) \in onlTbl' /\ Cut(r).id = q.id
        BY <1>2, <1>4, <2>2
      <3> QED
        BY <2>3, <3>1 DEF At, Covers
    <2>4. CASE ~Covers(Cut(r), p)
      <3>1. since <= p /\ q.id = id
        <4> HIDE DEF since, id
        <4> QED
          BY <1>3, <1>4, <1>5, <2>2, <2>4
      <3> QED
        BY <1>2, <3>1 DEF Owed
    <2> QED
      BY <2>3, <2>4
  <1>6. ASSUME faults = 0, NEW q \in onlTbl', NEW p \in Time,
               q.id # NoId, q.since <= p, p < PlusInf
        PROVE  At(q.id, p)' # {} \/ Owed(q.id, p)'
    <2>1. PICK r \in onlTbl : q = Cut(r)
      BY <1>2
    <2> QED
      BY <1>4, <1>5, <1>6, <2>1
  <1> QED
    BY <1>1, <1>2, <1>6 DEF IdFilled

LEMMA InsertFilled ==
  ASSUME IdInv, IdFilled, NEW c \in Client, InsertRow(c)
  PROVE  IdFilled'
  <1> DEFINE new == [since |-> arg[c][l[c]].since, till |-> PlusInf,
                     id |-> arg[c][next[c]].id, call |-> call[c], row |-> next[c]]
  <1>1. /\ pc[c] = "insert" /\ TypeOK /\ BlockRead(c) /\ next[c] \in first[c] .. l[c]
        /\ \A d \in Client : d # c => pc[d] = "idle"
    BY NameAssumption DEF IdInv, ClientInv, InsertRow
  <1>2. /\ onlTbl' = onlTbl \cup {new} /\ faults' = faults
        /\ \A d \in Client : pc'[d] = "failed" => pc[d] = "failed"
    BY <1>1 DEF InsertRow, Goto, TypeOK
  <1>3. new.id = LastRow(c).id /\ new.since = LastRow(c).since /\ new.till = PlusInf
    BY <1>1 DEF BlockRead, LastRow
  <1> HIDE DEF new
  <1>4. ASSUME faults = 0, NEW q \in onlTbl', NEW p \in Time,
               q.id # NoId, q.since <= p, p < PlusInf
        PROVE  At(q.id, p)' # {}
    <2>1. CASE q.id = new.id /\ new.since <= p
      <3>1. new \in onlTbl' /\ new.id = q.id /\ Covers(new, p)
        BY <1>2, <1>3, <1>4, <2>1 DEF Covers
      <3> QED
        BY <3>1 DEF At, Covers
    <2>2. CASE ~(q.id = new.id /\ new.since <= p)
      <3>1. q \in onlTbl
        BY <1>2, <1>4, <2>2
      <3>2. ~Owed(q.id, p)
        BY <1>1, <1>3, <2>2 DEF Owed
      <3>3. PICK r \in onlTbl : r.id = q.id /\ Covers(r, p)
        BY <1>4, <3>1, <3>2 DEF IdFilled, At
      <3> QED
        BY <1>2, <3>3 DEF At, Covers
    <2> QED
      BY <2>1, <2>2
  <1> QED
    BY <1>2, <1>4 DEF IdFilled

LEMMA StepFilled ==
  ASSUME IdInv, IdFilled, [Next]_vars
  PROVE  IdFilled'
  <1>1. ASSUME NEW c \in Client, pc[c] # "insert", lock \in {c, Nobody},
               NEW label \in {"idle", "select", "block", "close"},
               pc' = [pc EXCEPT ![c] = label], onlTbl' = onlTbl, faults' = faults
        PROVE  IdFilled'
    <2>1. \A d \in Client : d # c => pc[d] = "idle"
      BY <1>1, NameAssumption DEF IdInv, ClientInv
    <2> QED
      BY <1>1, <2>1, QuietFilled DEF IdInv, TypeOK
  <1>2. ASSUME NEW c \in Client, NEW t \in Tables, StoreOnlId(c, t)
        PROVE  IdFilled'
    BY <1>1, <1>2 DEF StoreOnlId, Goto
  <1>3. ASSUME NEW c \in Client, SelectOpen(c) \/ ReadBlock(c) \/ UnlockTables(c) \/ Close(c)
        PROVE  IdFilled'
    <2>1. lock = c /\ pc[c] # "insert"
      BY <1>3 DEF SelectOpen, ReadBlock, UnlockTables, Close, IdInv, ClientInv
    <2>2. \/ pc' = [pc EXCEPT ![c] = "block"] \/ pc' = [pc EXCEPT ![c] = "close"]
          \/ pc' = [pc EXCEPT ![c] = "idle"]
      <3>1. pc[c] = "block" => pc = [pc EXCEPT ![c] = "block"]
        BY DEF IdInv, TypeOK
      <3> QED
        BY <1>3, <3>1 DEF SelectOpen, ReadBlock, UnlockTables, Close, EndCall, Goto
    <2>3. onlTbl' = onlTbl /\ faults' = faults
      BY <1>3 DEF SelectOpen, ReadBlock, UnlockTables, Close, EndCall
    <2> QED
      BY <1>1, <2>1, <2>2, <2>3
  <1>4. ASSUME NEW c \in Client, Fail(c)
        PROVE  IdFilled'
    BY <1>4 DEF Fail, IdFilled, IdInv, TypeOK
  <1>5. CASE UNCHANGED vars
    BY <1>5 DEF vars, locals, IdFilled, Owed, At, Covers, LastRow
  <1> QED
    BY <1>2, <1>3, <1>4, <1>5, CloseFilled, InsertFilled DEF Next, Finished

LEMMA IdFilledHolds == Spec => []IdFilled
  <1>1. Init => IdFilled
    BY DEF Init, IdFilled
  <1> QED
    BY <1>1, StepFilled, IdInvHolds, PTL DEF Spec

LEMMA NoGapHolds ==
  ASSUME IdInv, IdFilled
  PROVE  NoGap
  <1>1. lock = Nobody => \A c \in Client : pc[c] # "insert"
    BY NameAssumption DEF IdInv, ClientInv
  <1> QED
    BY <1>1 DEF IdFilled, NoGap, Owed

LEMMA MaxOf ==
  ASSUME NEW S, S \subseteq Int, S # {}, NEW b \in Int, \A s \in S : s <= b
  PROVE  Max(S) \in S /\ \A s \in S : s <= Max(S)
  <1>1. PICK m \in S : \A s \in S : s <= m
    BY Greatest
  <1>2. \A s \in S : m >= s
    BY <1>1
  <1>3. Max(S) \in S /\ \A s \in S : Max(S) >= s
    BY <1>2 DEF Max
  <1> QED
    BY <1>3

LEMMA MinOf ==
  ASSUME NEW S, S \subseteq Int, S # {}, NEW b \in Int, \A s \in S : b <= s
  PROVE  Min(S) \in S /\ \A s \in S : Min(S) <= s
  <1> DEFINE T == {0 - s : s \in S}
  <1>1. T \subseteq Int /\ T # {} /\ 0 - b \in Int /\ \A t \in T : t <= 0 - b
    <2>1. \A s \in S : s \in Int /\ 0 - s \in Int /\ 0 - s <= 0 - b
      OBVIOUS
    <2>2. \A t \in T : \E s \in S : t = 0 - s
      OBVIOUS
    <2>3. T # {}
      OBVIOUS
    <2> HIDE DEF T
    <2> QED
      BY <2>1, <2>2, <2>3
  <1> HIDE DEF T
  <1>2. PICK t \in T : \A u \in T : u <= t
    BY <1>1, Greatest
  <1>3. PICK m \in S : t = 0 - m
    BY <1>2 DEF T
  <1>4. ASSUME NEW s \in S
        PROVE  m <= s
    <2>1. 0 - s \in T /\ s \in Int /\ m \in Int
      BY DEF T
    <2>2. 0 - s <= 0 - m
      BY <1>2, <1>3, <2>1
    <2> QED
      BY <2>1, <2>2
  <1> QED
    BY <1>4 DEF Min

(* Two rows of one Id that are valid at a point, which need not be one of
   Time, begin and end together. *)
LEMMA SameInterval ==
  ASSUME IdInv, NEW q \in onlTbl, NEW r \in onlTbl, q.id = r.id,
         NEW p \in Int, Covers(q, p), Covers(r, p)
  PROVE  q.since = r.since /\ q.till = r.till
  <1>1. CASE q.id = NoId
    BY <1>1 DEF IdInv, OneNullRow
  <1>2. CASE q.id # NoId
    <2>1. /\ q.since \in Time /\ r.since \in Time /\ q.id \in Id
          /\ q.since \in Int /\ r.since \in Int /\ q.till \in Int /\ r.till \in Int
      BY <1>2, TimeAssumption DEF IdInv, TypeOK, OnlRow
    <2>2. \E m \in Time : Covers(q, m) /\ Covers(r, m)
      BY <2>1 DEF Covers
    <2>3. q.since = r.since /\ q.call = r.call
      BY <2>1, <2>2 DEF IdInv, OneBlockPerId, At
    <2>4. q.since < q.till /\ r.since < r.till
      BY <2>1 DEF Covers
    <2> QED
      BY <2>3, <2>4 DEF IdInv, BlocksEndTogether
  <1> QED
    BY <1>1, <1>2

LEMMA ObjectLasts ==
  ASSUME IdInv
  PROVE  IovObjectLasts
  <1> SUFFICES ASSUME NEW description \in {"time", "run-event"},
                      NEW p \in UnixOrigin .. UnixMax - 1, FindOnl(p) # {}
               PROVE  LET object == IovObject(description, p, p)
                          ids    == {r.id : r \in FindOnl(p)}
                      IN  /\ object.since <= p /\ p < object.till
                          /\ \A q \in object.since .. object.till - 1 :
                               FindOnl(p) = {r \in FindOnl(q) : r.id \in ids}
    BY DEF IovObjectLasts
  <1> DEFINE sinces == {r.since : r \in FindOnl(p)}
             tills  == {r.till : r \in FindOnl(p)}
             ids    == {r.id : r \in FindOnl(p)}
             object == IovObject(description, p, p)
  <1>1. /\ UnixOrigin \in Int /\ UnixMax \in Int /\ p \in Int
        /\ UnixOrigin <= p /\ p < UnixMax
    <2>1. UnixOrigin \in Int /\ UnixMax \in Int
      BY TimeAssumption, UnixAssumption
    <2>2. p \in UnixOrigin .. UnixMax - 1
      OBVIOUS
    <2> HIDE DEF sinces, tills, ids, object
    <2> QED
      BY <2>1, <2>2
  <1>2. \A r \in onlTbl : r.since \in Int /\ r.till \in Int
    BY TimeAssumption DEF IdInv, TypeOK, OnlRow
  <1>3. Max(sinces) \in sinces /\ \A s \in sinces : s <= Max(sinces)
    <2>1. sinces \subseteq Int /\ sinces # {} /\ \A s \in sinces : s <= p
      BY <1>1, <1>2 DEF FindOnl, Covers
    <2> QED
      BY <1>1, <2>1, MaxOf
  <1>4. Min(tills) \in tills /\ \A t \in tills : Min(tills) <= t
    <2>1. tills \subseteq Int /\ tills # {} /\ \A t \in tills : p <= t
      BY <1>1, <1>2 DEF FindOnl, Covers
    <2> QED
      BY <1>1, <2>1, MinOf
  <1>5. /\ Max(sinces) \in Int /\ Max(sinces) <= p
        /\ Min(tills) \in Int /\ p < Min(tills)
    BY <1>1, <1>2, <1>3, <1>4 DEF FindOnl, Covers
  <1>6. /\ object.since \in Int /\ Max(sinces) <= object.since /\ object.since <= p
        /\ object.till \in Int /\ object.till <= Min(tills) /\ p < object.till
    <2>1. CASE description = "run-event"
      BY <1>5, <2>1 DEF IovObject
    <2>2. CASE description = "time"
      <3>1. object = [since |-> Max({Max(sinces), UnixOrigin}),
                      till |-> Min({Min(tills), UnixMax})]
        BY <2>2 DEF IovObject
      <3> HIDE DEF object, sinces, tills
      <3>2. /\ Max({Max(sinces), UnixOrigin}) \in {Max(sinces), UnixOrigin}
            /\ Max(sinces) <= Max({Max(sinces), UnixOrigin})
        <4>1. {Max(sinces), UnixOrigin} \subseteq Int /\ \A s \in {Max(sinces), UnixOrigin} : s <= p
          BY <1>1, <1>5
        <4> QED
          BY <1>1, <4>1, MaxOf
      <3>3. /\ Min({Min(tills), UnixMax}) \in {Min(tills), UnixMax}
            /\ Min({Min(tills), UnixMax}) <= Min(tills)
        <4>1. {Min(tills), UnixMax} \subseteq Int /\ \A t \in {Min(tills), UnixMax} : p <= t
          BY <1>1, <1>5
        <4> QED
          BY <1>1, <4>1, MinOf
      <3> QED
        BY <1>1, <1>5, <3>1, <3>2, <3>3
    <2> QED
      BY <2>1, <2>2
  <1>7. ASSUME NEW q \in object.since .. object.till - 1, NEW r \in FindOnl(p)
        PROVE  r \in FindOnl(q)
    <2>1. r.since <= Max(sinces) /\ Min(tills) <= r.till /\ r \in onlTbl
      BY <1>3, <1>4 DEF FindOnl
    <2> HIDE DEF object, sinces, tills
    <2> QED
      BY <1>2, <1>5, <1>6, <1>7, <2>1 DEF FindOnl, Covers
  <1>8. ASSUME NEW q \in object.since .. object.till - 1, NEW r \in FindOnl(q), r.id \in ids
        PROVE  r \in FindOnl(p)
    <2>1. PICK s \in FindOnl(p) : s.id = r.id
      BY <1>8
    <2>2. s \in FindOnl(q)
      BY <1>7
    <2>3. q \in Int
      BY <1>6
    <2>4. r.since = s.since /\ r.till = s.till
      BY <2>1, <2>2, <2>3, SameInterval DEF FindOnl
    <2> QED
      BY <2>1, <2>4 DEF FindOnl, Covers
  <1>9. ASSUME NEW q \in object.since .. object.till - 1
        PROVE  FindOnl(p) = {r \in FindOnl(q) : r.id \in ids}
    BY <1>7, <1>8, <1>9
  <1> QED
    BY <1>6, <1>9

(* As long as nothing fails, an Id that has once had values has some at every
   later point; and an object found for a point is right for all of its
   interval, whether something failed or not: for any clients, tables and
   number of calls. *)
THEOREM NoGapIsLeft == Spec => []IdHasNoGap
  <1>1. IdInv /\ IdFilled => IdHasNoGap
    BY NoGapHolds, ObjectLasts DEF IdHasNoGap
  <1> QED
    BY <1>1, IdInvHolds, IdFilledHolds, PTL
=============================================================================
