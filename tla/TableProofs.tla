----------------------------- MODULE TableProofs ------------------------------
(***************************************************************************)
(* The table in memory, for columns of any types, any values and any       *)
(* number of rows and calls: no column and no vector of times outgrows the *)
(* table, an initialized table has a column of a known type everywhere, a  *)
(* cell reads back as it was filled, and a script is shown the rows that   *)
(* queries put into the table.                                             *)
(***************************************************************************)
EXTENDS PhpTable, TLAPS, SequenceTheorems, WellFoundedInduction

CellValue == Value \cup {NullText}

(* The vectors.  Values are put behind a vector that grows to a length. *)
LEMMA SomeMore ==
  ASSUME NEW S, NEW s \in Seq(S), NEW n \in Nat, NEW v \in S
  PROVE  LET t == s \o [i \in 1 .. n |-> v]
         IN  /\ t \in Seq(S) /\ Len(t) = Len(s) + n
             /\ \A i \in 1 .. Len(s) : t[i] = s[i]
  <1>1. PICK u : u = [i \in 1 .. n |-> v]
    OBVIOUS
  <1>2. u \in Seq(S) /\ Len(u) = n
    BY <1>1
  <1>3. /\ s \o u \in Seq(S) /\ Len(s \o u) = Len(s) + n
        /\ \A i \in 1 .. Len(s) + n : (s \o u)[i] = IF i <= Len(s) THEN s[i] ELSE u[i - Len(s)]
    BY <1>2, ConcatProperties
  <1>4. \A i \in 1 .. Len(s) : (s \o u)[i] = s[i]
    BY <1>2, <1>3
  <1> QED
    BY <1>1, <1>3, <1>4

LEMMA Concatenated ==
  ASSUME NEW S, NEW s \in Seq(S), NEW u \in Seq(S)
  PROVE  LET t == s \o u
         IN  /\ t \in Seq(S) /\ Len(t) = Len(s) + Len(u)
             /\ \A i \in 1 .. Len(s) : t[i] = s[i]
             /\ \A i \in 1 .. Len(u) : t[Len(s) + i] = u[i]
  <1>1. PICK t : t = s \o u
    OBVIOUS
  <1>2. /\ t \in Seq(S) /\ Len(t) = Len(s) + Len(u)
        /\ \A i \in 1 .. Len(s) + Len(u) : t[i] = IF i <= Len(s) THEN s[i] ELSE u[i - Len(s)]
    BY <1>1, ConcatProperties
  <1>3. \A i \in 1 .. Len(s) : t[i] = s[i]
    BY <1>2
  <1>4. ASSUME NEW i \in 1 .. Len(u)
        PROVE  t[Len(s) + i] = u[i]
    <2>1. Len(s) + i \in 1 .. Len(s) + Len(u) /\ ~(Len(s) + i <= Len(s)) /\ Len(s) + i - Len(s) = i
      OBVIOUS
    <2> QED
      BY <1>2, <2>1
  <1> QED
    BY <1>1, <1>2, <1>3, <1>4

LEMMA LastType ==
  ASSUME NEW S, NEW s \in Seq(S), s # <<>>
  PROVE  Len(s) \in Nat \ {0} /\ Last(s) \in S
  <1>1. Len(s) \in Nat /\ Len(s) # 0
    BY EmptySeq
  <1>2. Len(s) \in 1 .. Len(s)
    BY <1>1
  <1> QED
    BY <1>1, <1>2, ElementOfSeq DEF Last

LEMMA OneMore ==
  ASSUME NEW S, NEW s \in Seq(S), NEW v \in S
  PROVE  /\ Append(s, v) \in Seq(S) /\ Len(Append(s, v)) = Len(s) + 1 /\ Append(s, v) # <<>>
         /\ \A i \in 1 .. Len(s) : Append(s, v)[i] = s[i]
         /\ Append(s, v)[Len(s) + 1] = v
  BY AppendProperties

(* What __setCell makes of a column. *)
LEMMA WrittenVector ==
  ASSUME NEW S, NEW s \in Seq(S), s # <<>>, NEW r \in Nat, NEW v \in S
  PROVE  LET t == Written(s, r, v)
         IN  /\ t \in Seq(S) /\ t # <<>> /\ Len(t) \in Nat /\ Len(s) <= Len(t)
             /\ Len(t) <= Len(s) \/ Len(t) <= r + 2
             /\ r + 1 <= Len(s) => /\ r + 2 <= Len(t) /\ t[r + 2] = v
                                   /\ \A i \in 1 .. Len(s) : i # r + 2 => t[i] = s[i]
  <1>1. Len(s) \in Nat \ {0} /\ Last(s) \in S
    BY LastType
  <1>2. CASE Len(s) = r + 1
    <2>1. Written(s, r, v) = Append(s, v)
      BY <1>2 DEF Written
    <2> QED
      BY <1>1, <1>2, <2>1, OneMore
  <1>3. CASE Len(s) < r + 1
    <2>1. r - Len(s) \in Nat
      BY <1>1, <1>3
    <2>2. PICK u : u = Padded(s, r - Len(s))
      OBVIOUS
    <2>3. u \in Seq(S) /\ Len(u) = Len(s) + (r - Len(s))
      BY <1>1, <2>1, <2>2, SomeMore DEF Padded
    <2>4. Written(s, r, v) = Append(u, v)
      BY <1>1, <1>3, <2>2 DEF Written
    <2>5. /\ Append(u, v) \in Seq(S) /\ Len(Append(u, v)) = Len(u) + 1 /\ Append(u, v) # <<>>
      BY <2>3, OneMore
    <2>6. Len(Append(u, v)) = r + 1
      BY <1>1, <2>3, <2>5
    <2> QED
      BY <1>1, <1>3, <2>4, <2>5, <2>6
  <1>4. CASE Len(s) > r + 1
    <2>1. Written(s, r, v) = [s EXCEPT ![r + 2] = v]
      BY <1>1, <1>4 DEF Written
    <2>2. r + 2 \in 1 .. Len(s)
      BY <1>1, <1>4
    <2>3. [s EXCEPT ![r + 2] = v] \in Seq(S) /\ Len([s EXCEPT ![r + 2] = v]) = Len(s)
      BY <2>2
    <2>4. [s EXCEPT ![r + 2] = v] # <<>>
      BY <1>1, <2>3, EmptySeq
    <2>5. /\ [s EXCEPT ![r + 2] = v][r + 2] = v
          /\ \A i \in 1 .. Len(s) : i # r + 2 => [s EXCEPT ![r + 2] = v][i] = s[i]
      BY <2>2
    <2> QED
      BY <1>1, <1>4, <2>1, <2>3, <2>4, <2>5
  <1> QED
    BY <1>1, <1>2, <1>3, <1>4

(* What fits of some values where so many more do. *)
LEMMA FittingValues ==
  ASSUME NEW S, NEW vs \in Seq(S), NEW free \in Nat
  PROVE  LET t == Fitting(vs, free)
         IN  /\ t \in Seq(S) /\ Len(t) \in Nat /\ Len(t) <= free
             /\ Len(vs) <= free => t = vs
             /\ DOMAIN t = 1 .. Len(t)
  <1>1. CASE Len(vs) <= free
    BY <1>1 DEF Fitting
  <1>2. CASE ~(Len(vs) <= free)
    <2>1. Fitting(vs, free) = SubSeq(vs, 1, free)
      BY <1>2 DEF Fitting
    <2>2. \A i \in 1 .. free : vs[i] \in S
      BY <1>2, ElementOfSeq
    <2>3. SubSeq(vs, 1, free) \in Seq(S) /\ Len(SubSeq(vs, 1, free)) = IF 1 <= free THEN free - 1 + 1 ELSE 0
      BY <2>2, SubSeqProperties
    <2>4. Len(SubSeq(vs, 1, free)) <= free
      BY <2>3
    <2> QED
      BY <1>2, <2>1, <2>3, <2>4
  <1> QED
    BY <1>1, <1>2
-----------------------------------------------------------------------------
(* The columns. *)
ColumnRecord == [named : BOOLEAN, type : Type \cup {"none"}, initialized : BOOLEAN,
                 cells : Seq(CellValue)]

(* A column of a table with n rows: it has a null value exactly when it has a
   type, and counts as initialized only if it has. *)
ColumnOK(col, n) ==
  /\ col \in ColumnRecord
  /\ col.type = "none" => ~col.initialized /\ col.cells = <<>>
  /\ col.type # "none" => col.cells # <<>>
  /\ Len(col.cells) <= n + 1

LEMMA MoreRowsOK ==
  ASSUME NEW n \in Nat, NEW m \in Nat, n <= m, NEW col, ColumnOK(col, n)
  PROVE  ColumnOK(col, m)
  <1>1. Len(col.cells) \in Nat
    BY DEF ColumnOK, ColumnRecord
  <1> QED
    BY <1>1 DEF ColumnOK

LEMMA BlankOK ==
  ASSUME NEW n \in Nat
  PROVE  ColumnOK(Blank, n)
  <1>1. <<>> \in Seq(CellValue) /\ Len(<<>>) = 0
    BY EmptySeq
  <1> QED
    BY <1>1 DEF ColumnOK, ColumnRecord, Blank

(* A column whose cells are others. *)
LEMMA NewCells ==
  ASSUME NEW n \in Nat, NEW col, ColumnOK(col, n), col.type # "none",
         NEW t \in Seq(CellValue), t # <<>>, Len(t) <= n + 1
  PROVE  /\ ColumnOK([col EXCEPT !.cells = t], n)
         /\ [col EXCEPT !.cells = t].type = col.type
         /\ [col EXCEPT !.cells = t].cells = t
         /\ [col EXCEPT !.cells = t].initialized = col.initialized
  BY DEF ColumnOK, ColumnRecord

LEMMA NamedOK ==
  ASSUME NEW n \in Nat, NEW col, ColumnOK(col, n)
  PROVE  ColumnOK(Named(col), n) /\ Named(col).type = col.type /\ Named(col).cells = col.cells
  BY DEF ColumnOK, ColumnRecord, Named

LEMMA TypedOK ==
  ASSUME NEW n \in Nat, NEW col, ColumnOK(col, n), NEW t \in Type, NEW flag \in BOOLEAN
  PROVE  ColumnOK(Typed(col, t, flag), n) /\ Typed(col, t, flag).type = t
  <1>1. PICK s : s = <<NullText>>
    OBVIOUS
  <1>2. s \in Seq(CellValue) /\ s # <<>> /\ Len(s) = 1
    BY <1>1 DEF CellValue
  <1>3. Typed(col, t, flag) = [col EXCEPT !.type = t, !.initialized = flag \/ col.named, !.cells = s]
    BY <1>1 DEF Typed
  <1>4. t # "none"
    BY DEF Type
  <1>5. 1 <= n + 1
    OBVIOUS
  <1> QED
    BY <1>2, <1>3, <1>4, <1>5 DEF ColumnOK, ColumnRecord

LEMMA ConvertedType ==
  ASSUME NEW n \in Nat, NEW col, ColumnOK(col, n), col.type # "none", NEW v \in CellValue
  PROVE  Converted(col, v) \in CellValue
  <1>1. col.cells \in Seq(CellValue) /\ col.cells # <<>>
    BY DEF ColumnOK, ColumnRecord
  <1>2. Len(col.cells) \in Nat \ {0}
    BY <1>1, EmptySeq
  <1>3. 1 \in 1 .. Len(col.cells)
    BY <1>2
  <1>4. NullOf(col) \in CellValue
    BY <1>1, <1>3, ElementOfSeq DEF NullOf
  <1> QED
    BY <1>4 DEF Converted

LEMMA WithNullOK ==
  ASSUME NEW n \in Nat, NEW col, ColumnOK(col, n), col.type # "none", NEW v \in Value
  PROVE  LET new == WithNull(col, v)
         IN  /\ ColumnOK(new, n) /\ new.type = col.type /\ new.initialized = col.initialized
             /\ Len(new.cells) = Len(col.cells)
             /\ \A i \in 1 .. Len(col.cells) : i # 1 => new.cells[i] = col.cells[i]
  <1>1. col.cells \in Seq(CellValue) /\ col.cells # <<>> /\ v \in CellValue
    BY DEF ColumnOK, ColumnRecord, CellValue
  <1>2. Len(col.cells) \in Nat \ {0}
    BY <1>1, EmptySeq
  <1>3. 1 \in 1 .. Len(col.cells)
    BY <1>2
  <1>4. PICK s : s = [col.cells EXCEPT ![1] = v]
    OBVIOUS
  <1>5. /\ s \in Seq(CellValue) /\ Len(s) = Len(col.cells)
        /\ \A i \in 1 .. Len(col.cells) : i # 1 => s[i] = col.cells[i]
    BY <1>1, <1>3, <1>4, ExceptSeq
  <1>6. s # <<>>
    BY <1>2, <1>5, EmptySeq
  <1>7. WithNull(col, v) = col \/ WithNull(col, v) = [col EXCEPT !.cells = s]
    BY <1>4 DEF WithNull
  <1>8. /\ ColumnOK([col EXCEPT !.cells = s], n)
        /\ [col EXCEPT !.cells = s].type = col.type
        /\ [col EXCEPT !.cells = s].cells = s
        /\ [col EXCEPT !.cells = s].initialized = col.initialized
    <2>1. Len(s) <= n + 1
      BY <1>5 DEF ColumnOK
    <2> QED
      BY <1>5, <1>6, <2>1, NewCells
  <1> QED
    BY <1>5, <1>7, <1>8

(* setColumndata: the values that fit go behind the rows there are. *)
LEMMA AppendedOK ==
  ASSUME NEW n \in Nat, NEW col, ColumnOK(col, n), col.type # "none", NEW vs \in Seq(CellValue)
  PROVE  LET new == Appended(col, vs, n)
         IN  /\ ColumnOK(new, n) /\ new.type = col.type /\ new.initialized = col.initialized
             /\ Len(col.cells) <= Len(new.cells)
             /\ \A i \in 1 .. Len(col.cells) : new.cells[i] = col.cells[i]
             /\ Len(col.cells) + Len(vs) = n + 1 =>
                  /\ Len(new.cells) = n + 1
                  /\ \A i \in 1 .. Len(vs) :
                       new.cells[Len(col.cells) + i] = Converted(col, vs[i])
  <1>0. PICK s : s = col.cells
    OBVIOUS
  <1>1. s \in Seq(CellValue) /\ s # <<>> /\ Len(s) \in Nat /\ Len(s) <= n + 1
    BY <1>0 DEF ColumnOK, ColumnRecord
  <1>2. PICK free : free = n + 1 - Len(s)
    OBVIOUS
  <1>3. free \in Nat
    BY <1>1, <1>2
  <1>4. PICK taken : taken = Fitting(vs, free)
    OBVIOUS
  <1>5. /\ taken \in Seq(CellValue) /\ Len(taken) \in Nat /\ Len(taken) <= free
        /\ Len(vs) <= free => taken = vs
        /\ DOMAIN taken = 1 .. Len(taken)
    BY <1>3, <1>4, FittingValues
  <1>6. PICK u : u = [i \in 1 .. Len(taken) |-> Converted(col, taken[i])]
    OBVIOUS
  <1>7. u \in Seq(CellValue) /\ Len(u) = Len(taken)
    <2>1. \A i \in 1 .. Len(taken) : Converted(col, taken[i]) \in CellValue
      <3>1. ASSUME NEW i \in 1 .. Len(taken)
            PROVE  Converted(col, taken[i]) \in CellValue
        <4>1. taken[i] \in CellValue
          BY <1>5, ElementOfSeq
        <4> QED
          BY <4>1, ConvertedType
      <3> QED
        BY <3>1
    <2>2. u \in [1 .. Len(taken) -> CellValue]
      BY <1>6, <2>1
    <2> QED
      BY <1>5, <2>2
  <1>8. PICK t : t = s \o u
    OBVIOUS
  <1>9. /\ t \in Seq(CellValue) /\ Len(t) = Len(s) + Len(u)
        /\ \A i \in 1 .. Len(s) + Len(u) : t[i] = IF i <= Len(s) THEN s[i] ELSE u[i - Len(s)]
    BY <1>1, <1>7, <1>8, ConcatProperties
  <1>10. Len(t) <= n + 1 /\ Len(t) \in Nat /\ Len(s) <= Len(t)
    BY <1>1, <1>2, <1>5, <1>7, <1>9
  <1>11. t # <<>>
    <2>1. Len(s) # 0
      BY <1>1, EmptySeq
    <2> QED
      BY <1>1, <1>10, <2>1, EmptySeq
  <1>12. Appended(col, vs, n) = [col EXCEPT !.cells = t]
    BY <1>0, <1>2, <1>4, <1>5, <1>6, <1>8 DEF Appended
  <1>13. /\ ColumnOK([col EXCEPT !.cells = t], n)
         /\ [col EXCEPT !.cells = t].type = col.type
         /\ [col EXCEPT !.cells = t].cells = t
         /\ [col EXCEPT !.cells = t].initialized = col.initialized
    <2>1. t \in Seq(CellValue) /\ t # <<>> /\ Len(t) <= n + 1
      BY <1>9, <1>10, <1>11
    <2> QED
      BY <2>1, NewCells
  <1>14. \A i \in 1 .. Len(s) : t[i] = s[i]
    BY <1>1, <1>7, <1>9, <1>5
  <1>15. ASSUME Len(s) + Len(vs) = n + 1
         PROVE  /\ Len(t) = n + 1
                /\ \A i \in 1 .. Len(vs) : t[Len(s) + i] = Converted(col, vs[i])
    <2>1. Len(vs) \in Nat /\ Len(vs) <= free
      BY <1>1, <1>2, <1>15
    <2>2. taken = vs
      BY <1>5, <2>1
    <2>3. Len(t) = n + 1
      BY <1>7, <1>9, <1>15, <2>2
    <2>4. ASSUME NEW i \in 1 .. Len(vs)
          PROVE  t[Len(s) + i] = Converted(col, vs[i])
      <3>1. Len(s) + i \in 1 .. Len(s) + Len(u) /\ ~(Len(s) + i <= Len(s)) /\ Len(s) + i - Len(s) = i
        BY <1>1, <1>7, <2>1, <2>2
      <3>2. t[Len(s) + i] = u[i]
        BY <1>9, <3>1
      <3> QED
        BY <1>6, <2>2, <3>2
    <2> QED
      BY <2>3, <2>4
  <1> QED
    BY <1>0, <1>10, <1>12, <1>13, <1>14, <1>15
-----------------------------------------------------------------------------
(* The inductive invariant.  A column that was never named may count as
   initialized although no flag says so, but never without a type. *)
ColumnsOK ==
  /\ numRows \in Nat /\ isInitialized \in BOOLEAN /\ inOrder \in BOOLEAN
  /\ \/ cols = <<>> /\ ~isInitialized
     \/ /\ cols \in [Column -> ColumnRecord]
        /\ \A c \in Column : ColumnOK(cols[c], numRows)
        /\ isInitialized => \A c \in Column : cols[c].type # "none"

TimesOK ==
  /\ times \in [End -> Seq(Value)]
  /\ \A e \in End : Len(times[e]) <= numRows

(* A cell that was given a value has it, while no row was skipped. *)
CellsOK ==
  /\ expected \in [Column -> [Row -> CellValue \cup {Unset}]]
  /\ inOrder => \A c \in Column : \A r \in Row : expected[c][r] # Unset =>
       /\ c \in DOMAIN cols /\ r + 2 <= Len(cols[c].cells)
       /\ cols[c].cells[r + 2] = expected[c][r]

(* A table that only queries have filled is full in every column and in both
   times, with what they returned. *)
QueriedRow == [number : Value, cells : [Column -> CellValue]]

QueriedOK ==
  queried # Mixed =>
    /\ queried \in Seq(QueriedRow) /\ Len(queried) = numRows
    /\ ~isInitialized => numRows = 0
    /\ \A c \in DOMAIN cols : cols[c].type # "none" =>
         /\ Len(cols[c].cells) = numRows + 1
         /\ \A r \in 1 .. numRows : cols[c].cells[r + 1] = queried[r].cells[c]
    /\ \A e \in End :
         /\ Len(times[e]) = numRows
         /\ \A r \in 1 .. numRows : times[e][r] = queried[r].number

TableIInv == ColumnsOK /\ TimesOK /\ CellsOK /\ QueriedOK

LEMMA SomeColumn == Len(Schema) \in Nat \ {0} /\ 1 \in Column /\ Column # {}
  <1>1. Len(Schema) \in Nat \ {0}
    BY SchemaAssumption, EmptySeq
  <1> QED
    BY <1>1 DEF Column

LEMMA NoColumns == DOMAIN <<>> = {}
  OBVIOUS

LEMMA ColumnsOfTable ==
  ASSUME ColumnsOK, NEW c \in DOMAIN cols
  PROVE  /\ c \in Column /\ DOMAIN cols = Column /\ cols \in [Column -> ColumnRecord]
         /\ ColumnOK(cols[c], numRows) /\ numRows \in Nat
         /\ isInitialized => cols[c].type # "none"
  <1>1. cols # <<>>
    BY NoColumns
  <1> QED
    BY <1>1 DEF ColumnsOK

LEMMA InitializedColumns ==
  ASSUME ColumnsOK, isInitialized
  PROVE  DOMAIN cols = Column
  BY DEF ColumnsOK

LEMMA SetLengths ==
  ASSUME ColumnsOK, NEW c \in DOMAIN cols
  PROVE  cols[c].cells \in Seq(CellValue) /\ Len(cols[c].cells) \in Nat
  BY ColumnsOfTable DEF ColumnRecord

(* One column is replaced by another. *)
LEMMA OneColumn ==
  ASSUME ColumnsOK, NEW c \in DOMAIN cols, NEW new, ColumnOK(new, numRows),
         cols' = [cols EXCEPT ![c] = new], numRows' = numRows,
         isInitialized' \in BOOLEAN, inOrder' \in BOOLEAN,
         \/ isInitialized' = isInitialized /\ (new.type = "none" => cols[c].type = "none")
         \/ \A d \in DOMAIN cols' : cols'[d].initialized
  PROVE  /\ ColumnsOK' /\ cols'[c] = new /\ DOMAIN cols' = DOMAIN cols
         /\ \A d \in DOMAIN cols : d # c => cols'[d] = cols[d]
  <1>1. /\ c \in Column /\ DOMAIN cols = Column /\ cols \in [Column -> ColumnRecord]
        /\ numRows \in Nat
    BY ColumnsOfTable
  <1>2. new \in ColumnRecord
    BY DEF ColumnOK
  <1>3. /\ cols'[c] = new /\ DOMAIN cols' = DOMAIN cols
        /\ \A d \in DOMAIN cols : d # c => cols'[d] = cols[d]
        /\ cols' \in [Column -> ColumnRecord]
    BY <1>1, <1>2
  <1>4. \A d \in Column : ColumnOK(cols[d], numRows)
    BY <1>1, ColumnsOfTable
  <1>5. \A d \in Column : ColumnOK(cols'[d], numRows)
    BY <1>1, <1>3, <1>4
  <1>6. ASSUME isInitialized', NEW d \in Column
        PROVE  cols'[d].type # "none"
    <2>1. CASE \A e \in DOMAIN cols' : cols'[e].initialized
      BY <1>1, <1>3, <1>5, <2>1 DEF ColumnOK
    <2>2. CASE isInitialized' = isInitialized /\ (new.type = "none" => cols[c].type = "none")
      <3>1. \A e \in Column : cols[e].type # "none"
        BY <1>1, <1>6, <2>2, ColumnsOfTable
      <3> QED
        BY <1>1, <1>3, <2>2, <3>1
    <2> QED
      BY <2>1, <2>2
  <1>7. ColumnsOK'
    BY <1>1, <1>3, <1>5, <1>6 DEF ColumnsOK
  <1> QED
    BY <1>3, <1>7

LEMMA OneColumnCells ==
  ASSUME ColumnsOK, CellsOK, NEW c \in DOMAIN cols, DOMAIN cols' = DOMAIN cols,
         \A d \in DOMAIN cols : d # c => cols'[d] = cols[d],
         Len(cols[c].cells) <= Len(cols'[c].cells), Len(cols'[c].cells) \in Nat,
         \A i \in 1 .. Len(cols[c].cells) : i # 1 => cols'[c].cells[i] = cols[c].cells[i],
         UNCHANGED <<expected, inOrder>>
  PROVE  CellsOK'
  <1>1. ASSUME inOrder, NEW d \in Column, NEW r \in Row, expected[d][r] # Unset
        PROVE  /\ d \in DOMAIN cols' /\ r + 2 <= Len(cols'[d].cells)
               /\ cols'[d].cells[r + 2] = expected[d][r]
    <2>1. /\ d \in DOMAIN cols /\ r + 2 <= Len(cols[d].cells)
          /\ cols[d].cells[r + 2] = expected[d][r]
      BY <1>1 DEF CellsOK
    <2>2. CASE d # c
      BY <2>1, <2>2
    <2>3. CASE d = c
      <3>1. r \in Int /\ 0 <= r /\ Len(cols[c].cells) \in Nat
        BY SetLengths, BoundsAssumption DEF Row
      <3>2. r + 2 \in 1 .. Len(cols[c].cells) /\ r + 2 # 1
        BY <2>1, <2>3, <3>1
      <3>3. r + 2 <= Len(cols'[c].cells)
        BY <2>1, <2>3, <3>1
      <3> QED
        BY <2>1, <2>3, <3>2, <3>3
    <2> QED
      BY <2>2, <2>3
  <1> QED
    BY <1>1 DEF CellsOK

(* The program gives the columns names, types and null values. *)
LEMMA OneColumnQueried ==
  ASSUME ColumnsOK, QueriedOK, NEW c \in DOMAIN cols, DOMAIN cols' = DOMAIN cols,
         \A d \in DOMAIN cols : d # c => cols'[d] = cols[d],
         cols[c].type # "none" => /\ Len(cols'[c].cells) = Len(cols[c].cells)
                                  /\ \A i \in 1 .. Len(cols[c].cells) :
                                       i # 1 => cols'[c].cells[i] = cols[c].cells[i],
         cols[c].type = "none" /\ cols'[c].type # "none" => Len(cols'[c].cells) = 1,
         isInitialized => isInitialized', cols'[c].type = "none" => cols[c].type = "none",
         UNCHANGED <<numRows, times, queried>>
  PROVE  QueriedOK'
  <1>1. CASE queried = Mixed
    <2>1. PICK mixed : mixed = Mixed
      OBVIOUS
    <2> QED
      BY <1>1, <2>1 DEF QueriedOK, Mixed
  <1>2. CASE queried # Mixed
    <2>1. numRows \in Nat /\ (cols[c].type = "none" => ~isInitialized)
      BY ColumnsOfTable
    <2>2. /\ queried \in Seq(QueriedRow) /\ Len(queried) = numRows
          /\ ~isInitialized => numRows = 0
          /\ \A d \in DOMAIN cols : cols[d].type # "none" =>
               /\ Len(cols[d].cells) = numRows + 1
               /\ \A r \in 1 .. numRows : cols[d].cells[r + 1] = queried[r].cells[d]
          /\ \A e \in End :
               /\ Len(times[e]) = numRows
               /\ \A r \in 1 .. numRows : times[e][r] = queried[r].number
      BY <1>2 DEF QueriedOK
    <2>3. ASSUME NEW d \in DOMAIN cols, cols'[d].type # "none"
          PROVE  /\ Len(cols'[d].cells) = numRows + 1
                 /\ \A r \in 1 .. numRows : cols'[d].cells[r + 1] = queried[r].cells[d]
      <3>1. CASE d # c
        BY <2>2, <2>3, <3>1
      <3>2. CASE d = c /\ cols[c].type = "none"
        BY <2>1, <2>2, <2>3, <3>2
      <3>3. CASE d = c /\ cols[c].type # "none"
        <4>1. \A r \in 1 .. numRows : r + 1 \in 1 .. numRows + 1 /\ r + 1 # 1
          BY <2>1
        <4> QED
          BY <2>2, <3>3, <4>1
      <3> QED
        BY <3>1, <3>2, <3>3
    <2>4. ~isInitialized' => ~isInitialized
      OBVIOUS
    <2> QED
      BY <2>2, <2>3, <2>4 DEF QueriedOK, QueriedRow, CellValue
  <1> QED
    BY <1>1, <1>2

LEMMA OthersKeepTimes ==
  ASSUME TimesOK, UNCHANGED <<times, numRows>>
  PROVE  TimesOK'
  BY DEF TimesOK, End

LEMMA InitializeKeeps ==
  ASSUME TableIInv, NEW n \in 0 .. MaxRows, Initialize(n)
  PROVE  TableIInv'
  <1>1. /\ cols = <<>> /\ ~isInitialized /\ cols' = Blanks(Len(Schema))
        /\ numRows' = numRows + n /\ numRows \in Nat /\ n \in Nat
        /\ queried' = IF n > 0 THEN Mixed ELSE queried
        /\ UNCHANGED <<isInitialized, times, expected, inOrder>>
        /\ inOrder \in BOOLEAN
    BY BoundsAssumption DEF Initialize, TableIInv, ColumnsOK
  <1>2. cols' = [c \in Column |-> Blank]
    BY <1>1 DEF Blanks, Column
  <1>3. numRows' \in Nat /\ numRows <= numRows'
    BY <1>1
  <1>4. ColumnOK(Blank, numRows') /\ Blank \in ColumnRecord /\ Blank.type = "none"
    BY <1>3, BlankOK DEF ColumnOK, Blank
  <1>5. ColumnsOK'
    <2>1. cols' \in [Column -> ColumnRecord] /\ \A c \in Column : ColumnOK(cols'[c], numRows')
      BY <1>2, <1>4
    <2>2. isInitialized' \in BOOLEAN /\ ~isInitialized' /\ inOrder' \in BOOLEAN
      BY <1>1 DEF TableIInv, ColumnsOK
    <2> QED
      BY <1>3, <2>1, <2>2 DEF ColumnsOK
  <1>6. TimesOK'
    <2>1. \A e \in End : Len(times[e]) <= numRows /\ Len(times[e]) \in Nat
      BY DEF TableIInv, TimesOK
    <2>2. \A e \in End : Len(times[e]) <= numRows'
      BY <1>1, <1>3, <2>1
    <2> QED
      BY <1>1, <2>2 DEF TableIInv, TimesOK
  <1>7. CellsOK'
    <2>1. inOrder => \A c \in Column : \A r \in Row : expected[c][r] = Unset
      BY <1>1, NoColumns DEF TableIInv, CellsOK
    <2> QED
      BY <1>1, <2>1 DEF TableIInv, CellsOK
  <1>8. QueriedOK'
    <2>1. CASE n > 0
      BY <1>1, <2>1 DEF QueriedOK, Mixed
    <2>2. CASE ~(n > 0)
      <3>1. numRows' = numRows /\ queried' = queried
        BY <1>1, <2>2
      <3>2. \A c \in DOMAIN cols' : cols'[c].type = "none"
        BY <1>2, <1>4
      <3> QED
        BY <1>1, <3>1, <3>2 DEF TableIInv, QueriedOK, Mixed, QueriedRow, CellValue
    <2> QED
      BY <2>1, <2>2
  <1> QED
    BY <1>5, <1>6, <1>7, <1>8 DEF TableIInv

LEMMA SetNameKeeps ==
  ASSUME TableIInv, NEW c \in Column, SetName(c)
  PROVE  TableIInv'
  <1>1. /\ c \in DOMAIN cols /\ ColumnsOK
        /\ UNCHANGED <<numRows, times, expected, inOrder, queried>>
        /\ isInitialized \in BOOLEAN /\ inOrder \in BOOLEAN
    BY DEF SetName, TableIInv, ColumnsOK
  <1>2. PICK new : new = Named(cols[c])
    OBVIOUS
  <1>3. cols' = [cols EXCEPT ![c] = new]
    BY <1>2 DEF SetName
  <1>4. ColumnOK(new, numRows) /\ new.type = cols[c].type /\ new.cells = cols[c].cells
    BY <1>1, <1>2, ColumnsOfTable, NamedOK
  <1>5. /\ isInitialized' \in BOOLEAN
        /\ isInitialized' = isInitialized \/ \A d \in DOMAIN cols' : cols'[d].initialized
        /\ isInitialized => isInitialized'
    BY <1>1 DEF SetName, VerifyInitialization
  <1>6. /\ ColumnsOK' /\ cols'[c] = new /\ DOMAIN cols' = DOMAIN cols
        /\ \A d \in DOMAIN cols : d # c => cols'[d] = cols[d]
    BY <1>1, <1>3, <1>4, <1>5, OneColumn
  <1>7. Len(cols[c].cells) \in Nat
    BY <1>1, SetLengths
  <1>8. CellsOK'
    BY <1>1, <1>4, <1>6, <1>7, OneColumnCells DEF TableIInv
  <1>9. QueriedOK'
    BY <1>1, <1>4, <1>5, <1>6, OneColumnQueried DEF TableIInv
  <1>10. TimesOK'
    BY <1>1, OthersKeepTimes DEF TableIInv
  <1> QED
    BY <1>6, <1>8, <1>9, <1>10 DEF TableIInv

LEMMA SetTypeKeeps ==
  ASSUME TableIInv, NEW c \in Column, NEW t \in Type, SetType(c, t)
  PROVE  TableIInv'
  <1>1. /\ c \in DOMAIN cols /\ ColumnsOK /\ cols[c].type = "none"
        /\ UNCHANGED <<numRows, times, expected, inOrder, queried>>
        /\ isInitialized \in BOOLEAN /\ inOrder \in BOOLEAN
    BY DEF SetType, TableIInv, ColumnsOK
  <1>2. PICK flag \in BOOLEAN : cols' = [cols EXCEPT ![c] = Typed(cols[c], t, flag)]
    BY DEF SetType
  <1>3. PICK new : new = Typed(cols[c], t, flag)
    OBVIOUS
  <1>4. ColumnOK(new, numRows) /\ new.type = t /\ new.type # "none"
    <2>1. ColumnOK(cols[c], numRows) /\ numRows \in Nat
      BY <1>1, ColumnsOfTable
    <2>2. ColumnOK(new, numRows) /\ new.type = t
      BY <1>3, <2>1, TypedOK
    <2>3. t # "none"
      BY DEF Type
    <2> QED
      BY <2>2, <2>3
  <1>5. Len(new.cells) = 1
    <2>1. cols[c] \in ColumnRecord
      BY <1>1, ColumnsOfTable
    <2>2. new.cells = <<NullText>>
      BY <1>3, <2>1 DEF Typed, ColumnRecord
    <2> QED
      BY <2>2
  <1>6. /\ isInitialized' \in BOOLEAN
        /\ isInitialized' = isInitialized \/ \A d \in DOMAIN cols' : cols'[d].initialized
        /\ isInitialized => isInitialized'
    BY <1>1 DEF SetType, VerifyInitialization
  <1>7. /\ ColumnsOK' /\ cols'[c] = new /\ DOMAIN cols' = DOMAIN cols
        /\ \A d \in DOMAIN cols : d # c => cols'[d] = cols[d]
    BY <1>1, <1>2, <1>3, <1>4, <1>6, OneColumn
  <1>8. Len(cols[c].cells) = 0
    BY <1>1, ColumnsOfTable DEF ColumnOK
  <1>9. CellsOK'
    BY <1>1, <1>5, <1>7, <1>8, OneColumnCells DEF TableIInv
  <1>10. QueriedOK'
    BY <1>1, <1>5, <1>6, <1>7, OneColumnQueried DEF TableIInv
  <1>11. TimesOK'
    BY <1>1, OthersKeepTimes DEF TableIInv
  <1> QED
    BY <1>7, <1>9, <1>10, <1>11 DEF TableIInv

LEMMA SetNullKeeps ==
  ASSUME TableIInv, NEW c \in Column, NEW v \in Value, SetNull(c, v)
  PROVE  TableIInv'
  <1>1. /\ isInitialized /\ UNCHANGED <<numRows, isInitialized, times, expected, inOrder, queried>>
        /\ ColumnsOK /\ isInitialized \in BOOLEAN /\ inOrder \in BOOLEAN
    BY DEF SetNull, TableIInv, ColumnsOK
  <1>2. c \in DOMAIN cols
    BY <1>1, InitializedColumns
  <1>3. ColumnOK(cols[c], numRows) /\ cols[c].type # "none" /\ numRows \in Nat
    BY <1>1, <1>2, ColumnsOfTable
  <1>4. PICK new : new = WithNull(cols[c], v)
    OBVIOUS
  <1>5. /\ ColumnOK(new, numRows) /\ new.type = cols[c].type
        /\ Len(new.cells) = Len(cols[c].cells)
        /\ \A i \in 1 .. Len(cols[c].cells) : i # 1 => new.cells[i] = cols[c].cells[i]
    BY <1>3, <1>4, WithNullOK
  <1>6. cols' = [cols EXCEPT ![c] = new]
    BY <1>4 DEF SetNull
  <1>7. /\ ColumnsOK' /\ cols'[c] = new /\ DOMAIN cols' = DOMAIN cols
        /\ \A d \in DOMAIN cols : d # c => cols'[d] = cols[d]
    BY <1>1, <1>2, <1>5, <1>6, OneColumn
  <1>8. Len(cols[c].cells) \in Nat
    BY <1>1, <1>2, SetLengths
  <1>9. CellsOK'
    BY <1>1, <1>2, <1>5, <1>7, <1>8, OneColumnCells DEF TableIInv
  <1>10. QueriedOK'
    BY <1>1, <1>2, <1>3, <1>5, <1>7, OneColumnQueried DEF TableIInv
  <1>11. TimesOK'
    BY <1>1, OthersKeepTimes DEF TableIInv
  <1> QED
    BY <1>7, <1>9, <1>10, <1>11 DEF TableIInv

(* The program fills cells, columns and times. *)
LEMMA MixedIsOK ==
  ASSUME queried' = Mixed
  PROVE  QueriedOK'
  BY DEF QueriedOK, Mixed

LEMMA ResizeKeeps ==
  ASSUME TableIInv, NEW n \in 1 .. MaxRows, Resize(n)
  PROVE  TableIInv'
  <1>1. /\ numRows' = numRows + n /\ queried' = Mixed
        /\ UNCHANGED <<cols, isInitialized, times, expected, inOrder>>
        /\ numRows \in Nat /\ n \in Nat
    BY BoundsAssumption DEF Resize, Grown, TableIInv, ColumnsOK
  <1>2. numRows' \in Nat /\ numRows <= numRows'
    BY <1>1
  <1>3. \A c \in Column : ColumnOK(cols[c], numRows) => ColumnOK(cols[c], numRows')
    BY <1>1, <1>2, MoreRowsOK
  <1>4. ColumnsOK'
    BY <1>1, <1>2, <1>3 DEF TableIInv, ColumnsOK
  <1>5. \A e \in End : Len(times[e]) <= numRows'
    <2>1. \A e \in End : Len(times[e]) <= numRows /\ Len(times[e]) \in Nat
      BY DEF TableIInv, TimesOK
    <2> QED
      BY <1>1, <1>2, <2>1
  <1>6. TimesOK' /\ CellsOK'
    BY <1>1, <1>5 DEF TableIInv, TimesOK, CellsOK
  <1> QED
    BY <1>1, <1>4, <1>6, MixedIsOK DEF TableIInv

LEMMA StoreKeeps ==
  ASSUME TableIInv, isInitialized, NEW c \in Column, NEW r \in Row, NEW v \in CellValue,
         Store(c, r, v)
  PROVE  TableIInv'
  <1>1. /\ r < numRows /\ UNCHANGED <<numRows, isInitialized, times>> /\ queried' = Mixed
        /\ expected' = [expected EXCEPT ![c][r] = v]
        /\ inOrder' = (inOrder /\ Len(cols[c].cells) >= r + 1)
        /\ ColumnsOK /\ isInitialized \in BOOLEAN /\ inOrder \in BOOLEAN /\ numRows \in Nat
    BY DEF Store, TableIInv, ColumnsOK
  <1>2. c \in DOMAIN cols /\ DOMAIN cols = Column
    BY <1>1, InitializedColumns
  <1>3. ColumnOK(cols[c], numRows) /\ cols[c].type # "none"
    BY <1>1, <1>2, ColumnsOfTable
  <1>4. PICK s : s = cols[c].cells
    OBVIOUS
  <1>5. s \in Seq(CellValue) /\ s # <<>> /\ Len(s) \in Nat /\ Len(s) <= numRows + 1
    BY <1>3, <1>4 DEF ColumnOK, ColumnRecord
  <1>6. r \in Nat
    BY BoundsAssumption DEF Row
  <1>7. PICK t : t = Written(s, r, v)
    OBVIOUS
  <1>8. /\ t \in Seq(CellValue) /\ t # <<>> /\ Len(t) \in Nat /\ Len(s) <= Len(t)
        /\ Len(t) <= Len(s) \/ Len(t) <= r + 2
        /\ r + 1 <= Len(s) => /\ r + 2 <= Len(t) /\ t[r + 2] = v
                              /\ \A i \in 1 .. Len(s) : i # r + 2 => t[i] = s[i]
    <2>1. s \in Seq(CellValue) /\ s # <<>> /\ r \in Nat /\ v \in CellValue
      BY <1>5, <1>6
    <2>2. LET u == Written(s, r, v)
          IN  /\ u \in Seq(CellValue) /\ u # <<>> /\ Len(u) \in Nat /\ Len(s) <= Len(u)
              /\ Len(u) <= Len(s) \/ Len(u) <= r + 2
              /\ r + 1 <= Len(s) => /\ r + 2 <= Len(u) /\ u[r + 2] = v
                                    /\ \A i \in 1 .. Len(s) : i # r + 2 => u[i] = s[i]
      BY <2>1, WrittenVector
    <2> QED
      BY <1>7, <2>2
  <1>9. Len(t) <= numRows + 1
    BY <1>1, <1>5, <1>6, <1>8
  <1>10. PICK new : new = [cols[c] EXCEPT !.cells = t]
    OBVIOUS
  <1>11. /\ ColumnOK(new, numRows) /\ new.type = cols[c].type /\ new.cells = t
    BY <1>1, <1>3, <1>8, <1>9, <1>10, NewCells
  <1>12. cols' = [cols EXCEPT ![c] = new]
    BY <1>4, <1>7, <1>10 DEF Store
  <1>13. inOrder' \in BOOLEAN
    BY <1>1
  <1>14. /\ ColumnsOK' /\ cols'[c] = new /\ DOMAIN cols' = DOMAIN cols
         /\ \A d \in DOMAIN cols : d # c => cols'[d] = cols[d]
    BY <1>1, <1>2, <1>11, <1>12, <1>13, OneColumn
  <1>15. expected \in [Column -> [Row -> CellValue \cup {Unset}]]
    BY DEF TableIInv, CellsOK
  <1>16. expected' \in [Column -> [Row -> CellValue \cup {Unset}]]
    BY <1>1, <1>15
  <1>17. ASSUME inOrder', NEW d \in Column, NEW q \in Row, expected'[d][q] # Unset
         PROVE  /\ d \in DOMAIN cols' /\ q + 2 <= Len(cols'[d].cells)
                /\ cols'[d].cells[q + 2] = expected'[d][q]
    <2>1. inOrder /\ r + 1 <= Len(s)
      BY <1>1, <1>4, <1>5, <1>6, <1>17
    <2>2. q \in Nat
      BY BoundsAssumption DEF Row
    <2>3. CASE d = c /\ q = r
      <3>1. expected'[d][q] = v
        BY <1>1, <1>15, <2>3
      <3> QED
        BY <1>2, <1>8, <1>11, <1>14, <2>1, <2>3, <3>1
    <2>4. CASE ~(d = c /\ q = r)
      <3>1. expected'[d][q] = expected[d][q]
        BY <1>1, <1>15, <2>4
      <3>2. /\ q + 2 <= Len(cols[d].cells) /\ cols[d].cells[q + 2] = expected[d][q]
        BY <1>17, <2>1, <3>1 DEF TableIInv, CellsOK
      <3>3. CASE d # c
        BY <1>2, <1>14, <3>1, <3>2, <3>3
      <3>4. CASE d = c
        <4>1. q + 2 \in 1 .. Len(s) /\ q + 2 # r + 2
          BY <1>4, <1>5, <1>6, <2>2, <2>4, <3>2, <3>4
        <4>2. t[q + 2] = s[q + 2] /\ q + 2 <= Len(t)
          BY <1>5, <1>8, <2>1, <4>1
        <4> QED
          BY <1>2, <1>4, <1>11, <1>14, <3>1, <3>2, <3>4, <4>2
      <3> QED
        BY <3>3, <3>4
    <2> QED
      BY <2>3, <2>4
  <1>18. CellsOK'
    BY <1>16, <1>17 DEF CellsOK
  <1>19. TimesOK' /\ QueriedOK'
    BY <1>1, OthersKeepTimes, MixedIsOK DEF TableIInv
  <1> QED
    BY <1>14, <1>18, <1>19 DEF TableIInv

(* The rows of a column that were given values have them. *)
Backed(s, given) ==
  \A r \in Row : given[r] # Unset => r + 2 <= Len(s) /\ s[r + 2] = given[r]

(* What a column's rows are expected to be after values were appended. *)
LEMMA ExpectedAfter ==
  ASSUME expected \in [Column -> [Row -> CellValue \cup {Unset}]], NEW c \in Column,
         NEW s \in Seq(CellValue), NEW t \in Seq(CellValue), Len(s) <= Len(t), s # <<>>,
         \A i \in 1 .. Len(s) : i # 1 => t[i] = s[i]
  PROVE  LET e == NowExpected(s, t, c)
         IN  /\ e \in [Column -> [Row -> CellValue \cup {Unset}]]
             /\ \A d \in Column : d # c => e[d] = expected[d]
             /\ Backed(s, expected[c]) => Backed(t, e[c])
  <1>0. PICK e : e = NowExpected(s, t, c)
    OBVIOUS
  <1>1. Len(s) \in Nat \ {0} /\ Len(t) \in Nat
    BY EmptySeq
  <1> DEFINE In(r) == r \in Len(s) - 1 .. Len(t) - 2
  <1>2. PICK row : row = [r \in Row |-> IF In(r) THEN t[r + 2] ELSE expected[c][r]]
    OBVIOUS
  <1>3. e = [expected EXCEPT ![c] = row]
    BY <1>0, <1>2 DEF NowExpected
  <1>4. ASSUME NEW r \in Row
        PROVE  r \in Nat /\ (In(r) => t[r + 2] \in CellValue /\ r + 2 <= Len(t))
    <2>1. r \in Nat
      BY BoundsAssumption DEF Row
    <2>2. In(r) => r + 2 \in 1 .. Len(t)
      BY <1>1, <2>1
    <2> QED
      BY <1>1, <2>1, <2>2, ElementOfSeq
  <1>5. row \in [Row -> CellValue \cup {Unset}]
    BY <1>2, <1>4
  <1>6. /\ e \in [Column -> [Row -> CellValue \cup {Unset}]] /\ e[c] = row
        /\ \A d \in Column : d # c => e[d] = expected[d]
    BY <1>3, <1>5
  <1>7. ASSUME Backed(s, expected[c]), NEW r \in Row, e[c][r] # Unset
        PROVE  r + 2 <= Len(t) /\ t[r + 2] = e[c][r]
    <2>1. CASE In(r)
      <3>1. e[c][r] = t[r + 2]
        BY <1>2, <1>6, <2>1
      <3> QED
        BY <1>4, <2>1, <3>1
    <2>2. CASE ~In(r)
      <3>1. e[c][r] = expected[c][r]
        BY <1>2, <1>6, <2>2
      <3>2. r + 2 <= Len(s) /\ s[r + 2] = expected[c][r]
        BY <1>7, <3>1 DEF Backed
      <3>3. r + 2 \in 1 .. Len(s) /\ r + 2 # 1 /\ r + 2 <= Len(t)
        BY <1>1, <1>4, <3>2
      <3>4. t[r + 2] = s[r + 2]
        BY <3>3
      <3> QED
        BY <3>1, <3>2, <3>3, <3>4
    <2> QED
      BY <2>1, <2>2
  <1> QED
    BY <1>0, <1>6, <1>7 DEF Backed

LEMMA AppendDataKeeps ==
  ASSUME TableIInv, isInitialized, NEW c \in Column, NEW vs \in Seq(CellValue),
         AppendData(c, vs)
  PROVE  TableIInv'
  <1>1. /\ UNCHANGED <<numRows, isInitialized, times, inOrder>> /\ queried' = Mixed
        /\ ColumnsOK /\ isInitialized \in BOOLEAN /\ inOrder \in BOOLEAN /\ numRows \in Nat
    BY DEF AppendData, TableIInv, ColumnsOK
  <1>2. c \in DOMAIN cols /\ DOMAIN cols = Column
    BY <1>1, InitializedColumns
  <1>3. ColumnOK(cols[c], numRows) /\ cols[c].type # "none"
    BY <1>1, <1>2, ColumnsOfTable
  <1>4. PICK new : new = Appended(cols[c], vs, numRows)
    OBVIOUS
  <1>5. /\ ColumnOK(new, numRows) /\ new.type = cols[c].type
        /\ Len(cols[c].cells) <= Len(new.cells)
        /\ \A i \in 1 .. Len(cols[c].cells) : new.cells[i] = cols[c].cells[i]
    BY <1>1, <1>3, <1>4, AppendedOK
  <1>6. cols' = [cols EXCEPT ![c] = new]
    BY <1>4 DEF AppendData
  <1>7. /\ ColumnsOK' /\ cols'[c] = new /\ DOMAIN cols' = DOMAIN cols
        /\ \A d \in DOMAIN cols : d # c => cols'[d] = cols[d]
    BY <1>1, <1>2, <1>5, <1>6, OneColumn
  <1>8. PICK s, t : s = cols[c].cells /\ t = new.cells
    OBVIOUS
  <1>9. /\ s \in Seq(CellValue) /\ t \in Seq(CellValue) /\ Len(s) <= Len(t) /\ s # <<>>
        /\ \A i \in 1 .. Len(s) : i # 1 => t[i] = s[i]
    BY <1>3, <1>5, <1>8 DEF ColumnOK, ColumnRecord
  <1>10. PICK e : e = expected'
    OBVIOUS
  <1>11. expected \in [Column -> [Row -> CellValue \cup {Unset}]]
    BY DEF TableIInv, CellsOK
  <1>12. /\ e \in [Column -> [Row -> CellValue \cup {Unset}]]
         /\ \A d \in Column : d # c => e[d] = expected[d]
         /\ Backed(s, expected[c]) => Backed(t, e[c])
    <2>1. e = NowExpected(s, t, c)
      BY <1>7, <1>8, <1>10 DEF AppendData
    <2> QED
      BY <1>9, <1>11, <2>1, ExpectedAfter
  <1>13. ASSUME inOrder, NEW d \in Column, NEW r \in Row, expected'[d][r] # Unset
         PROVE  /\ d \in DOMAIN cols' /\ r + 2 <= Len(cols'[d].cells)
                /\ cols'[d].cells[r + 2] = expected'[d][r]
    <2>1. CASE d = c
      <3>1. Backed(s, expected[c])
        BY <1>8, <1>13 DEF TableIInv, CellsOK, Backed
      <3> QED
        BY <1>2, <1>7, <1>8, <1>10, <1>12, <1>13, <2>1, <3>1 DEF Backed
    <2>2. CASE d # c
      BY <1>2, <1>7, <1>10, <1>12, <1>13, <2>2 DEF TableIInv, CellsOK
    <2> QED
      BY <2>1, <2>2
  <1>14. CellsOK'
    BY <1>1, <1>10, <1>12, <1>13 DEF CellsOK
  <1>15. TimesOK' /\ QueriedOK'
    BY <1>1, OthersKeepTimes, MixedIsOK DEF TableIInv
  <1> QED
    BY <1>7, <1>14, <1>15 DEF TableIInv

LEMMA TimesAreChanged ==
  ASSUME TableIInv, NEW e \in End, NEW t \in Seq(Value), Len(t) <= numRows,
         times' = [times EXCEPT ![e] = t], queried' = Mixed,
         UNCHANGED <<cols, numRows, isInitialized, expected, inOrder>>
  PROVE  TableIInv'
  <1>1. ColumnsOK' /\ CellsOK'
    BY DEF TableIInv, ColumnsOK, CellsOK
  <1>2. TimesOK'
    BY DEF TableIInv, TimesOK
  <1> QED
    BY <1>1, <1>2, MixedIsOK DEF TableIInv

LEMMA SetTimeKeeps ==
  ASSUME TableIInv, NEW e \in End, NEW ts \in Seq(Value), SetTime(e, ts)
  PROVE  TableIInv'
  <1>1. PICK s : s = times[e]
    OBVIOUS
  <1>2. s \in Seq(Value) /\ Len(s) \in Nat /\ Len(s) <= numRows /\ numRows \in Nat
    BY <1>1 DEF TableIInv, TimesOK, ColumnsOK
  <1>3. PICK free : free = numRows - Len(s)
    OBVIOUS
  <1>4. free \in Nat /\ Len(s) + free = numRows
    BY <1>2, <1>3
  <1>5. PICK u : u = Fitting(ts, free)
    OBVIOUS
  <1>6. u \in Seq(Value) /\ Len(u) \in Nat /\ Len(u) <= free
    BY <1>4, <1>5, FittingValues
  <1>7. s \o u \in Seq(Value) /\ Len(s \o u) = Len(s) + Len(u)
    BY <1>2, <1>6, ConcatProperties
  <1>8. Len(s \o u) <= numRows
    BY <1>2, <1>4, <1>6, <1>7
  <1>9. /\ times' = [times EXCEPT ![e] = s \o u] /\ queried' = Mixed
        /\ UNCHANGED <<cols, numRows, isInitialized, expected, inOrder>>
    BY <1>1, <1>3, <1>5 DEF SetTime
  <1> QED
    BY <1>7, <1>8, <1>9, TimesAreChanged

(* What changing the time of a row makes of a vector of times. *)
LEMMA ChangedTimes ==
  ASSUME NEW s \in Seq(Value), NEW n \in Nat, Len(s) <= n, NEW r \in Nat, r < n,
         r > 0 => s # <<>>, NEW t \in Value
  PROVE  LET u == IF r >= Len(s) THEN Append(s \o [i \in 1 .. r - Len(s) |-> Last(s)], t)
                                 ELSE [s EXCEPT ![r + 1] = t]
         IN  u \in Seq(Value) /\ Len(u) <= n
  <1>1. Len(s) \in Nat
    OBVIOUS
  <1>2. CASE r >= Len(s)
    <2>1. PICK w : w = s \o [i \in 1 .. r - Len(s) |-> Last(s)]
      OBVIOUS
    <2>2. w \in Seq(Value) /\ Len(w) = r
      <3>1. CASE s # <<>>
        <4>1. Last(s) \in Value /\ r - Len(s) \in Nat
          BY <1>1, <1>2, <3>1, LastType
        <4>2. w \in Seq(Value) /\ Len(w) = Len(s) + (r - Len(s))
          BY <2>1, <4>1, SomeMore
        <4> QED
          BY <1>1, <4>2
      <3>2. CASE s = <<>>
        <4>1. r = 0 /\ Len(s) = 0
          BY <3>2, EmptySeq
        <4>2. PICK z : z = [i \in 1 .. r - Len(s) |-> Last(s)]
          OBVIOUS
        <4>3. 1 .. r - Len(s) = {}
          BY <4>1
        <4>4. z \in [1 .. 0 -> Value]
          BY <4>1, <4>2, <4>3
        <4>5. z \in Seq(Value) /\ Len(z) = 0
          BY <4>4
        <4>6. s \o z \in Seq(Value) /\ Len(s \o z) = Len(s) + Len(z)
          BY <4>5, ConcatProperties
        <4> QED
          BY <2>1, <4>1, <4>2, <4>5, <4>6
      <3> QED
        BY <3>1, <3>2
    <2>3. Append(w, t) \in Seq(Value) /\ Len(Append(w, t)) = r + 1
      BY <2>2, OneMore
    <2>4. Len(Append(w, t)) <= n
      BY <2>3
    <2> QED
      BY <1>2, <2>1, <2>3, <2>4
  <1>3. CASE ~(r >= Len(s))
    <2>1. r + 1 \in 1 .. Len(s)
      BY <1>1, <1>3
    <2>2. [s EXCEPT ![r + 1] = t] \in Seq(Value) /\ Len([s EXCEPT ![r + 1] = t]) = Len(s)
      BY <2>1, ExceptSeq
    <2> QED
      BY <1>3, <2>2
  <1> QED
    BY <1>2, <1>3

LEMMA ChangeTimeKeeps ==
  ASSUME TableIInv, NEW e \in End, NEW r \in Row, NEW t \in Value, ChangeTime(e, r, t)
  PROVE  TableIInv'
  <1>1. PICK s : s = times[e]
    OBVIOUS
  <1>2. /\ s \in Seq(Value) /\ Len(s) <= numRows /\ numRows \in Nat /\ r < numRows
        /\ r > 0 => s # <<>>
    BY <1>1 DEF TableIInv, TimesOK, ColumnsOK, ChangeTime
  <1>3. r \in Nat
    BY BoundsAssumption DEF Row
  <1>4. PICK u : u = IF r >= Len(s) THEN Append(s \o [i \in 1 .. r - Len(s) |-> Last(s)], t)
                                    ELSE [s EXCEPT ![r + 1] = t]
    OBVIOUS
  <1>5. u \in Seq(Value) /\ Len(u) <= numRows
    BY <1>2, <1>3, <1>4, ChangedTimes
  <1>6. /\ times' = [times EXCEPT ![e] = u] /\ queried' = Mixed
        /\ UNCHANGED <<cols, numRows, isInitialized, expected, inOrder>>
    BY <1>1, <1>4 DEF ChangeTime
  <1> QED
    BY <1>5, <1>6, TimesAreChanged

(* The calls of the program that fill cells and columns. *)
LEMMA CellsAreFilled ==
  ASSUME TableIInv, NEW c \in Column, NEW r \in Row, NEW v \in CellValue,
         SetCell(c, r, v) \/ SetArrayCell(c, r, v)
  PROVE  TableIInv'
  <1>1. isInitialized /\ Store(c, r, Converted(cols[c], v))
    BY DEF SetCell, SetArrayCell
  <1>2. ColumnOK(cols[c], numRows) /\ cols[c].type # "none" /\ numRows \in Nat
    BY <1>1, InitializedColumns, ColumnsOfTable DEF TableIInv
  <1>3. PICK w : w = Converted(cols[c], v)
    OBVIOUS
  <1>4. w \in CellValue
    BY <1>2, <1>3, ConvertedType
  <1> QED
    BY <1>1, <1>3, <1>4, StoreKeeps

LEMMA ColumnsAreFilled ==
  ASSUME TableIInv, NEW c \in Column, NEW v \in CellValue, NEW w \in CellValue,
         SetColumndata(c, <<v, w>>) \/ SetArrayColumndata(c, <<v, w>>)
  PROVE  TableIInv'
  <1>1. PICK vs : vs = <<v, w>>
    OBVIOUS
  <1>2. vs \in Seq(CellValue)
    BY <1>1
  <1>3. isInitialized /\ AppendData(c, vs)
    BY <1>1 DEF SetColumndata, SetArrayColumndata
  <1> QED
    BY <1>2, <1>3, AppendDataKeeps
-----------------------------------------------------------------------------
(* A query fills the table: the columns with the types of the schema and the
   null values the caller named, and the values the rows have for them. *)
NullsOf(nullValues) ==
  IF nullValues = {} THEN WithSchema
  ELSE [c \in Column |-> WithNull(WithSchema[c], CHOOSE v \in nullValues : TRUE)]

GivenTo(rows, nullValues) ==
  [c \in Column |-> [i \in DOMAIN rows |->
     IF c \in rows[i].null /\ nullValues # {}
     THEN CHOOSE v \in nullValues : TRUE ELSE CellOf(rows[i], c)]]

(* A column that has a type. *)
HasType(c) == c \in DOMAIN cols /\ cols[c].type # "none"

(* A column as the query finds it: the null value may be another one. *)
KeepsRows(new, c) ==
  IF HasType(c) THEN /\ Len(new.cells) = Len(cols[c].cells)
                     /\ \A i \in 1 .. Len(cols[c].cells) : i # 1 => new.cells[i] = cols[c].cells[i]
  ELSE Len(new.cells) = 1

LEMMA TypeInSchema ==
  ASSUME NEW c \in Column
  PROVE  Schema[c] \in Type
  BY SchemaAssumption, ElementOfSeq DEF Column

LEMMA FlaggedOK ==
  ASSUME NEW n \in Nat, NEW col, ColumnOK(col, n), col.type # "none"
  PROVE  LET new == [col EXCEPT !.initialized = TRUE]
         IN  ColumnOK(new, n) /\ new.type = col.type /\ new.cells = col.cells
  BY DEF ColumnOK, ColumnRecord

LEMMA SchemaColumn ==
  ASSUME ColumnsOK, NEW c \in Column
  PROVE  /\ ColumnOK(WithSchema[c], numRows) /\ WithSchema[c].type # "none"
         /\ KeepsRows(WithSchema[c], c)
  <1>1. numRows \in Nat
    BY DEF ColumnsOK
  <1>2. PICK old : old = IF cols = <<>> THEN Blank ELSE cols[c]
    OBVIOUS
  <1>3. /\ ColumnOK(old, numRows)
        /\ HasType(c) => old = cols[c] /\ old.type # "none"
        /\ ~HasType(c) => old.type = "none"
    <2>1. CASE cols = <<>>
      <3>1. ~HasType(c)
        BY <2>1, NoColumns DEF HasType
      <3>2. ColumnOK(old, numRows) /\ old.type = "none"
        BY <1>1, <1>2, <2>1, BlankOK DEF Blank
      <3> QED
        BY <3>1, <3>2
    <2>2. CASE cols # <<>>
      BY <1>2, <2>2 DEF ColumnsOK, HasType
    <2> QED
      BY <2>1, <2>2
  <1>4. PICK typed : typed = IF old.type = "none" THEN Typed(old, Schema[c], FALSE) ELSE old
    OBVIOUS
  <1>5. /\ ColumnOK(typed, numRows) /\ typed.type # "none"
        /\ HasType(c) => typed.cells = cols[c].cells
        /\ ~HasType(c) => Len(typed.cells) = 1
    <2>1. CASE HasType(c)
      BY <1>3, <1>4, <2>1
    <2>2. CASE ~HasType(c)
      <3>1. typed = Typed(old, Schema[c], FALSE)
        BY <1>3, <1>4, <2>2
      <3>2. ColumnOK(typed, numRows) /\ typed.type = Schema[c]
        <4>1. Schema[c] \in Type /\ FALSE \in BOOLEAN
          BY TypeInSchema
        <4> QED
          BY <1>1, <1>3, <3>1, <4>1, TypedOK
      <3>3. Schema[c] # "none"
        BY TypeInSchema DEF Type
      <3>4. old \in ColumnRecord
        BY <1>3 DEF ColumnOK
      <3>5. typed.cells = <<NullText>>
        BY <3>1, <3>4 DEF Typed, ColumnRecord
      <3> QED
        BY <2>2, <3>2, <3>3, <3>5
    <2> QED
      BY <2>1, <2>2
  <1>6. PICK named : named = Named(typed)
    OBVIOUS
  <1>7. ColumnOK(named, numRows) /\ named.type = typed.type /\ named.cells = typed.cells
    BY <1>1, <1>5, <1>6, NamedOK
  <1>8. WithSchema[c] = [named EXCEPT !.initialized = TRUE]
    BY <1>2, <1>4, <1>6 DEF WithSchema
  <1>9. /\ ColumnOK(WithSchema[c], numRows) /\ WithSchema[c].type = named.type
        /\ WithSchema[c].cells = named.cells
    BY <1>1, <1>5, <1>7, <1>8, FlaggedOK
  <1>10. KeepsRows(WithSchema[c], c)
    BY <1>5, <1>7, <1>9 DEF KeepsRows
  <1> QED
    BY <1>5, <1>7, <1>9, <1>10

LEMMA NullColumn ==
  ASSUME ColumnsOK, NEW c \in Column, NEW nullValues \in SUBSET Value
  PROVE  LET new == NullsOf(nullValues)[c]
         IN  ColumnOK(new, numRows) /\ new.type # "none" /\ KeepsRows(new, c)
  <1>1. numRows \in Nat
    BY DEF ColumnsOK
  <1>2. CASE nullValues = {}
    BY <1>2, SchemaColumn DEF NullsOf
  <1>3. CASE nullValues # {}
    <2>1. PICK v : v = CHOOSE w \in nullValues : TRUE
      OBVIOUS
    <2>2. v \in Value
      BY <1>3, <2>1
    <2>3. PICK col : col = WithSchema[c]
      OBVIOUS
    <2>4. ColumnOK(col, numRows) /\ col.type # "none" /\ KeepsRows(col, c)
      BY <2>3, SchemaColumn
    <2>5. PICK new : new = WithNull(col, v)
      OBVIOUS
    <2>6. /\ ColumnOK(new, numRows) /\ new.type = col.type /\ Len(new.cells) = Len(col.cells)
          /\ \A i \in 1 .. Len(col.cells) : i # 1 => new.cells[i] = col.cells[i]
      BY <1>1, <2>2, <2>4, <2>5, WithNullOK
    <2>7. KeepsRows(new, c)
      BY <2>4, <2>6 DEF KeepsRows
    <2>8. NullsOf(nullValues)[c] = new
      BY <1>3, <2>1, <2>3, <2>5 DEF NullsOf
    <2> QED
      BY <2>4, <2>6, <2>7, <2>8
  <1> QED
    BY <1>2, <1>3

LEMMA GivenValues ==
  ASSUME NEW rows \in Seq(QueryRow), NEW nullValues \in SUBSET Value, NEW c \in Column
  PROVE  LET given == GivenTo(rows, nullValues)[c]
         IN  given \in Seq(CellValue) /\ Len(given) = Len(rows)
  <1>1. PICK given : given = GivenTo(rows, nullValues)[c]
    OBVIOUS
  <1>2. PICK v : v = CHOOSE w \in nullValues : TRUE
    OBVIOUS
  <1>3. nullValues # {} => v \in CellValue
    BY <1>2 DEF CellValue
  <1>4. given = [i \in 1 .. Len(rows) |->
                   IF c \in rows[i].null /\ nullValues # {} THEN v ELSE CellOf(rows[i], c)]
    BY <1>1, <1>2 DEF GivenTo
  <1>5. \A i \in 1 .. Len(rows) : CellOf(rows[i], c) \in CellValue
    <2>1. ASSUME NEW i \in 1 .. Len(rows)
          PROVE  CellOf(rows[i], c) \in CellValue
      <3>1. rows[i] \in QueryRow
        BY ElementOfSeq
      <3> QED
        BY <3>1 DEF QueryRow, CellOf, CellValue
    <2> QED
      BY <2>1
  <1>6. given \in [1 .. Len(rows) -> CellValue]
    BY <1>3, <1>4, <1>5
  <1>7. Len(rows) \in Nat
    OBVIOUS
  <1>8. given \in Seq(CellValue) /\ Len(given) = Len(rows)
    BY <1>6, <1>7
  <1> QED
    BY <1>1, <1>8

LEMMA FilledColumn ==
  ASSUME ColumnsOK, NEW c \in Column, NEW rows \in Seq(QueryRow), NEW nullValues \in SUBSET Value,
         NEW n, n = numRows + Len(rows),
         NEW null, null = NullsOf(nullValues)[c],
         NEW given, given = GivenTo(rows, nullValues)[c],
         NEW new, new = Appended(null, given, n)
  PROVE  /\ ColumnOK(new, n) /\ new.type # "none" /\ Len(null.cells) <= Len(new.cells)
         /\ \A i \in 1 .. Len(null.cells) : new.cells[i] = null.cells[i]
         /\ Len(null.cells) = numRows + 1 =>
              /\ Len(new.cells) = n + 1
              /\ \A i \in 1 .. Len(rows) : new.cells[numRows + 1 + i] = Converted(null, given[i])
         /\ KeepsRows(null, c) /\ ColumnOK(null, n) /\ null.type # "none"
  <1>1. numRows \in Nat /\ Len(rows) \in Nat /\ n \in Nat /\ numRows <= n
    BY DEF ColumnsOK
  <1>2. ColumnOK(null, numRows) /\ null.type # "none" /\ KeepsRows(null, c)
    BY NullColumn
  <1>3. ColumnOK(null, n)
    BY <1>1, <1>2, MoreRowsOK
  <1>4. given \in Seq(CellValue) /\ Len(given) = Len(rows)
    BY GivenValues
  <1>5. /\ ColumnOK(new, n) /\ new.type = null.type
        /\ Len(null.cells) <= Len(new.cells)
        /\ \A i \in 1 .. Len(null.cells) : new.cells[i] = null.cells[i]
        /\ Len(null.cells) + Len(given) = n + 1 =>
             /\ Len(new.cells) = n + 1
             /\ \A i \in 1 .. Len(given) :
                  new.cells[Len(null.cells) + i] = Converted(null, given[i])
    BY <1>1, <1>2, <1>3, <1>4, AppendedOK
  <1>6. ASSUME Len(null.cells) = numRows + 1
        PROVE  /\ Len(new.cells) = n + 1
               /\ \A i \in 1 .. Len(rows) : new.cells[numRows + 1 + i] = Converted(null, given[i])
    <2>1. Len(null.cells) + Len(given) = n + 1
      BY <1>1, <1>4, <1>6
    <2> QED
      BY <1>4, <1>5, <1>6, <2>1
  <1> QED
    BY <1>2, <1>3, <1>5, <1>6

(* The times of the rows a query returns. *)
NumbersOf(rows) == [i \in DOMAIN rows |-> rows[i].number]

LEMMA TimesOfRows ==
  ASSUME TimesOK, NEW e \in End, NEW rows \in Seq(QueryRow), numRows \in Nat,
         NEW n \in Nat, n = numRows + Len(rows)
  PROVE  LET new == times[e] \o Fitting(NumbersOf(rows), n - Len(times[e])) IN
         /\ new \in Seq(Value) /\ Len(new) <= n
         /\ Len(times[e]) = numRows =>
              /\ Len(new) = n
              /\ \A r \in 1 .. numRows : new[r] = times[e][r]
              /\ \A i \in 1 .. Len(rows) : new[numRows + i] = rows[i].number
  <1>1. PICK s : s = times[e]
    OBVIOUS
  <1>2. s \in Seq(Value) /\ Len(s) \in Nat /\ Len(s) <= numRows
    BY <1>1 DEF TimesOK
  <1>3. Len(rows) \in Nat /\ n \in Nat
    OBVIOUS
  <1>0. PICK numbers : numbers = NumbersOf(rows)
    OBVIOUS
  <1>4. /\ numbers \in Seq(Value) /\ Len(numbers) = Len(rows)
        /\ \A i \in 1 .. Len(rows) : numbers[i] = rows[i].number
    <2>1. \A i \in 1 .. Len(rows) : rows[i].number \in Value
      <3>1. ASSUME NEW i \in 1 .. Len(rows)
            PROVE  rows[i].number \in Value
        <4>1. rows[i] \in QueryRow
          BY ElementOfSeq
        <4> QED
          BY <4>1 DEF QueryRow
      <3> QED
        BY <3>1
    <2>2. /\ numbers \in [1 .. Len(rows) -> Value]
          /\ \A i \in 1 .. Len(rows) : numbers[i] = rows[i].number
      BY <1>0, <2>1 DEF NumbersOf
    <2> QED
      BY <1>3, <2>2
  <1>5. PICK free : free = n - Len(s)
    OBVIOUS
  <1>6. free \in Nat /\ Len(rows) <= free /\ Len(s) + Len(rows) <= n
    BY <1>2, <1>3, <1>5
  <1>7. Fitting(numbers, free) = numbers
    BY <1>4, <1>6, FittingValues
  <1>8. PICK t : t = s \o numbers
    OBVIOUS
  <1>9. times[e] \o Fitting(NumbersOf(rows), n - Len(times[e])) = t
    BY <1>0, <1>1, <1>5, <1>7, <1>8
  <1>10. /\ t \in Seq(Value) /\ Len(t) = Len(s) + Len(numbers)
         /\ \A i \in 1 .. Len(s) : t[i] = s[i]
         /\ \A i \in 1 .. Len(numbers) : t[Len(s) + i] = numbers[i]
    <2>1. s \in Seq(Value) /\ numbers \in Seq(Value)
      BY <1>2, <1>4
    <2> QED
      BY <1>8, <2>1, Concatenated
  <1>12. Len(t) <= n
    BY <1>4, <1>6, <1>10
  <1>13. ASSUME Len(s) = numRows
         PROVE  /\ Len(t) = n
                /\ \A r \in 1 .. numRows : t[r] = s[r]
                /\ \A i \in 1 .. Len(rows) : t[numRows + i] = rows[i].number
    BY <1>4, <1>10, <1>13
  <1> QED
    BY <1>1, <1>9, <1>10, <1>12, <1>13

(* What the rows a query returns are in this table. *)
RowsOf(rows, nulls, given) ==
  [i \in DOMAIN rows |-> [number |-> rows[i].number,
                          cells |-> [c \in Column |-> Converted(nulls[c], given[c][i])]]]

LEMMA MakeTableParts ==
  ASSUME NEW rows, NEW nullValues, MakeTable(rows, nullValues)
  PROVE  LET nulls == NullsOf(nullValues)
             given == GivenTo(rows, nullValues)
         IN  /\ numRows' = numRows + Len(rows) /\ isInitialized' = TRUE /\ inOrder' = inOrder
             /\ DOMAIN cols' = Column
             /\ times' = [e \in End |-> times'[e]]
             /\ \A e \in End : times'[e] = times[e] \o Fitting(NumbersOf(rows), numRows' - Len(times[e]))
             /\ expected' = [c \in Column |-> expected'[c]]
             /\ \A c \in Column : expected'[c] = NowExpected(nulls[c].cells, cols'[c].cells, c)[c]
             /\ queried' = IF queried = Mixed THEN Mixed ELSE queried \o RowsOf(rows, nulls, given)
  <1>0. PICK nulls, given : nulls = NullsOf(nullValues) /\ given = GivenTo(rows, nullValues)
    OBVIOUS
  <1>1. /\ numRows' = numRows + Len(rows) /\ isInitialized' = TRUE /\ inOrder' = inOrder
        /\ cols' = [c \in Column |-> Appended(nulls[c], given[c], numRows + Len(rows))]
        /\ times' = [e \in End |-> times[e] \o Fitting([i \in DOMAIN rows |-> rows[i].number],
                                                       numRows' - Len(times[e]))]
        /\ expected' = [c \in Column |-> NowExpected(nulls[c].cells, cols'[c].cells, c)[c]]
        /\ queried' = IF queried = Mixed THEN Mixed
                      ELSE queried \o [i \in DOMAIN rows |->
                             [number |-> rows[i].number,
                              cells |-> [c \in Column |-> Converted(nulls[c], given[c][i])]]]
    BY <1>0 DEF MakeTable, NullsOf, GivenTo, Grown
  <1>2. DOMAIN cols' = Column
    BY <1>1
  <1>3. /\ times' = [e \in End |-> times'[e]]
        /\ \A e \in End : times'[e] = times[e] \o Fitting(NumbersOf(rows), numRows' - Len(times[e]))
    BY <1>1 DEF NumbersOf
  <1>4. /\ expected' = [c \in Column |-> expected'[c]]
        /\ \A c \in Column : expected'[c] = NowExpected(nulls[c].cells, cols'[c].cells, c)[c]
    BY <1>1
  <1>5. queried' = IF queried = Mixed THEN Mixed ELSE queried \o RowsOf(rows, nulls, given)
    BY <1>1 DEF RowsOf
  <1> QED
    BY <1>0, <1>1, <1>2, <1>3, <1>4, <1>5

LEMMA MakeTableColumns ==
  ASSUME NEW rows, NEW nullValues, MakeTable(rows, nullValues)
  PROVE  /\ cols' = [c \in Column |-> cols'[c]]
         /\ \A c \in Column :
              cols'[c] = Appended(NullsOf(nullValues)[c], GivenTo(rows, nullValues)[c],
                                  numRows + Len(rows))
  <1>1. PICK nulls, given : nulls = NullsOf(nullValues) /\ given = GivenTo(rows, nullValues)
    OBVIOUS
  <1>2. cols' = [c \in Column |-> Appended(nulls[c], given[c], numRows + Len(rows))]
    BY <1>1 DEF MakeTable, NullsOf, GivenTo, Grown
  <1>3. /\ cols' = [c \in Column |-> cols'[c]]
        /\ \A c \in Column : cols'[c] = Appended(nulls[c], given[c], numRows + Len(rows))
    BY <1>2
  <1> QED
    BY <1>1, <1>3

LEMMA MakeTableKeepsTimes ==
  ASSUME TableIInv, NEW rows \in Seq(QueryRow), NEW nullValues \in SUBSET Value,
         MakeTable(rows, nullValues)
  PROVE  /\ TimesOK'
         /\ \A e \in End : Len(times[e]) = numRows =>
              /\ Len(times'[e]) = numRows'
              /\ \A r \in 1 .. numRows : times'[e][r] = times[e][r]
              /\ \A i \in 1 .. Len(rows) : times'[e][numRows + i] = rows[i].number
  <1>2. /\ numRows' = numRows + Len(rows) /\ times' = [e \in End |-> times'[e]]
        /\ \A e \in End : times'[e] = times[e] \o Fitting(NumbersOf(rows), numRows' - Len(times[e]))
    BY MakeTableParts
  <1>3. PICK n : n = numRows + Len(rows)
    OBVIOUS
  <1>5. \A e \in End : times'[e] = times[e] \o Fitting(NumbersOf(rows), n - Len(times[e]))
    BY <1>2, <1>3
  <1>6. ASSUME NEW e \in End
        PROVE  /\ times'[e] \in Seq(Value) /\ Len(times'[e]) <= n
               /\ Len(times[e]) = numRows =>
                    /\ Len(times'[e]) = n
                    /\ \A r \in 1 .. numRows : times'[e][r] = times[e][r]
                    /\ \A i \in 1 .. Len(rows) : times'[e][numRows + i] = rows[i].number
    <2>1. PICK new : new = times[e] \o Fitting(NumbersOf(rows), n - Len(times[e]))
      OBVIOUS
    <2>2. numRows \in Nat /\ TimesOK
      BY DEF TableIInv, ColumnsOK
    <2>3. /\ new \in Seq(Value) /\ Len(new) <= n
          /\ Len(times[e]) = numRows =>
               /\ Len(new) = n
               /\ \A r \in 1 .. numRows : new[r] = times[e][r]
               /\ \A i \in 1 .. Len(rows) : new[numRows + i] = rows[i].number
      <3>1. n \in Nat
        BY <1>3, <2>2
      <3>2. LET u == times[e] \o Fitting(NumbersOf(rows), n - Len(times[e]))
            IN  /\ u \in Seq(Value) /\ Len(u) <= n
                /\ Len(times[e]) = numRows =>
                     /\ Len(u) = n
                     /\ \A r \in 1 .. numRows : u[r] = times[e][r]
                     /\ \A i \in 1 .. Len(rows) : u[numRows + i] = rows[i].number
        BY <1>3, <2>2, <3>1, TimesOfRows
      <3> QED
        BY <2>1, <3>2
    <2> QED
      BY <1>5, <2>1, <2>3
  <1>8. TimesOK'
    BY <1>2, <1>3, <1>6 DEF TimesOK
  <1> QED
    BY <1>2, <1>3, <1>6, <1>8

(* The columns of a table a query has filled. *)
Made(rows, nulls, given) ==
  /\ cols' \in [Column -> ColumnRecord]
  /\ \A c \in Column :
       /\ ColumnOK(cols'[c], numRows + Len(rows)) /\ cols'[c].type # "none"
       /\ Len(nulls[c].cells) <= Len(cols'[c].cells)
       /\ \A i \in 1 .. Len(nulls[c].cells) : cols'[c].cells[i] = nulls[c].cells[i]
       /\ Len(nulls[c].cells) = numRows + 1 =>
            /\ Len(cols'[c].cells) = numRows + Len(rows) + 1
            /\ \A i \in 1 .. Len(rows) :
                 cols'[c].cells[numRows + 1 + i] = Converted(nulls[c], given[c][i])
       /\ KeepsRows(nulls[c], c) /\ ColumnOK(nulls[c], numRows + Len(rows))
       /\ nulls[c].type # "none"

LEMMA MakeTableMakes ==
  ASSUME TableIInv, NEW rows \in Seq(QueryRow), NEW nullValues \in SUBSET Value,
         MakeTable(rows, nullValues)
  PROVE  Made(rows, NullsOf(nullValues), GivenTo(rows, nullValues))
  <1>0. PICK nulls, given : nulls = NullsOf(nullValues) /\ given = GivenTo(rows, nullValues)
    OBVIOUS
  <1>1. PICK n : n = numRows + Len(rows)
    OBVIOUS
  <1>2. /\ cols' = [c \in Column |-> cols'[c]]
        /\ \A c \in Column : cols'[c] = Appended(nulls[c], given[c], n)
    <2>1. /\ cols' = [c \in Column |-> cols'[c]]
          /\ \A c \in Column : cols'[c] = Appended(NullsOf(nullValues)[c], GivenTo(rows, nullValues)[c],
                                                  numRows + Len(rows))
      BY MakeTableColumns
    <2> QED
      BY <1>0, <1>1, <2>1
  <1>3. ASSUME NEW c \in Column
        PROVE  /\ ColumnOK(cols'[c], n) /\ cols'[c].type # "none"
               /\ Len(nulls[c].cells) <= Len(cols'[c].cells)
               /\ \A i \in 1 .. Len(nulls[c].cells) : cols'[c].cells[i] = nulls[c].cells[i]
               /\ Len(nulls[c].cells) = numRows + 1 =>
                    /\ Len(cols'[c].cells) = n + 1
                    /\ \A i \in 1 .. Len(rows) :
                         cols'[c].cells[numRows + 1 + i] = Converted(nulls[c], given[c][i])
               /\ KeepsRows(nulls[c], c) /\ ColumnOK(nulls[c], n) /\ nulls[c].type # "none"
    <2>1. PICK null : null = nulls[c]
      OBVIOUS
    <2>2. PICK values : values = given[c]
      OBVIOUS
    <2>3. PICK new : new = Appended(null, values, n)
      OBVIOUS
    <2>4. /\ ColumnOK(new, n) /\ new.type # "none" /\ Len(null.cells) <= Len(new.cells)
          /\ \A i \in 1 .. Len(null.cells) : new.cells[i] = null.cells[i]
          /\ Len(null.cells) = numRows + 1 =>
               /\ Len(new.cells) = n + 1
               /\ \A i \in 1 .. Len(rows) : new.cells[numRows + 1 + i] = Converted(null, values[i])
          /\ KeepsRows(null, c) /\ ColumnOK(null, n) /\ null.type # "none"
      <3>1. null = NullsOf(nullValues)[c] /\ values = GivenTo(rows, nullValues)[c] /\ ColumnsOK
        BY <1>0, <2>1, <2>2 DEF TableIInv
      <3> QED
        BY <1>1, <2>3, <3>1, FilledColumn
    <2>5. cols'[c] = new
      BY <1>2, <2>1, <2>2, <2>3
    <2> QED
      BY <2>1, <2>2, <2>4, <2>5
  <1>4. \A c \in Column : cols'[c] \in ColumnRecord
    BY <1>3 DEF ColumnOK
  <1>5. cols' \in [Column -> ColumnRecord]
    BY <1>2, <1>4
  <1> QED
    BY <1>0, <1>1, <1>3, <1>5 DEF Made

LEMMA MakeTableKeepsCells ==
  ASSUME TableIInv, NEW rows, NEW nullValues, MakeTable(rows, nullValues),
         NEW nulls, nulls = NullsOf(nullValues),
         NEW given, given = GivenTo(rows, nullValues),
         Made(rows, nulls, given)
  PROVE  CellsOK'
  <1>1. expected \in [Column -> [Row -> CellValue \cup {Unset}]]
    BY DEF TableIInv, CellsOK
  <1>2. /\ expected' = [c \in Column |-> expected'[c]]
        /\ \A c \in Column : expected'[c] = NowExpected(nulls[c].cells, cols'[c].cells, c)[c]
        /\ inOrder' = inOrder /\ DOMAIN cols' = Column
    BY MakeTableParts
  <1>3. ASSUME NEW c \in Column
        PROVE  /\ expected'[c] \in [Row -> CellValue \cup {Unset}]
               /\ inOrder => Backed(cols'[c].cells, expected'[c])
    <2>1. PICK s, t : s = nulls[c].cells /\ t = cols'[c].cells
      OBVIOUS
    <2>2. /\ s \in Seq(CellValue) /\ t \in Seq(CellValue) /\ Len(s) <= Len(t) /\ s # <<>>
          /\ \A i \in 1 .. Len(s) : t[i] = s[i]
          /\ KeepsRows(nulls[c], c)
      BY <2>1 DEF Made, ColumnOK, ColumnRecord
    <2>3. PICK e : e = NowExpected(s, t, c)
      OBVIOUS
    <2>4. /\ e \in [Column -> [Row -> CellValue \cup {Unset}]]
          /\ Backed(s, expected[c]) => Backed(t, e[c])
      <3>1. \A i \in 1 .. Len(s) : i # 1 => t[i] = s[i]
        BY <2>2
      <3> QED
        BY <1>1, <2>2, <2>3, <3>1, ExpectedAfter
    <2>5. expected'[c] = e[c]
      BY <1>2, <2>1, <2>3
    <2>6. ASSUME inOrder
          PROVE  Backed(s, expected[c])
      <3>1. ASSUME NEW r \in Row, expected[c][r] # Unset
            PROVE  r + 2 <= Len(s) /\ s[r + 2] = expected[c][r]
        <4>1. /\ c \in DOMAIN cols /\ r + 2 <= Len(cols[c].cells)
              /\ cols[c].cells[r + 2] = expected[c][r]
          BY <2>6, <3>1 DEF TableIInv, CellsOK
        <4>2. r \in Nat /\ Len(cols[c].cells) \in Nat /\ ColumnOK(cols[c], numRows)
          BY <4>1, SetLengths, ColumnsOfTable, BoundsAssumption DEF Row, TableIInv
        <4>3. HasType(c)
          <5>1. CASE cols[c].type = "none"
            <6>1. Len(cols[c].cells) = 0
              BY <4>2, <5>1 DEF ColumnOK
            <6> QED
              BY <4>1, <4>2, <6>1
          <5> QED
            BY <4>1, <5>1 DEF HasType
        <4>4. r + 2 \in 1 .. Len(cols[c].cells) /\ r + 2 # 1
          BY <4>1, <4>2
        <4>5. Len(s) = Len(cols[c].cells) /\ s[r + 2] = cols[c].cells[r + 2]
          BY <2>1, <2>2, <4>3, <4>4 DEF KeepsRows
        <4> QED
          BY <4>1, <4>5
      <3> QED
        BY <3>1 DEF Backed
    <2> QED
      BY <2>1, <2>4, <2>5, <2>6
  <1>5. expected' \in [Column -> [Row -> CellValue \cup {Unset}]]
    BY <1>2, <1>3
  <1>6. inOrder' => \A c \in Column : \A r \in Row : expected'[c][r] # Unset =>
          /\ c \in DOMAIN cols' /\ r + 2 <= Len(cols'[c].cells)
          /\ cols'[c].cells[r + 2] = expected'[c][r]
    BY <1>2, <1>3 DEF Backed
  <1> QED
    BY <1>5, <1>6 DEF CellsOK

LEMMA RowsOfType ==
  ASSUME NEW rows \in Seq(QueryRow), NEW nullValues \in SUBSET Value,
         NEW nulls, NEW given, given = GivenTo(rows, nullValues), NEW n \in Nat,
         \A c \in Column : ColumnOK(nulls[c], n) /\ nulls[c].type # "none"
  PROVE  LET new == RowsOf(rows, nulls, given)
         IN  /\ new \in Seq(QueriedRow) /\ Len(new) = Len(rows)
             /\ \A i \in 1 .. Len(rows) :
                  /\ new[i].number = rows[i].number
                  /\ \A c \in Column : new[i].cells[c] = Converted(nulls[c], given[c][i])
  <1>1. PICK new : new = RowsOf(rows, nulls, given)
    OBVIOUS
  <1>2. ASSUME NEW i \in 1 .. Len(rows)
        PROVE  /\ new[i] \in QueriedRow /\ new[i].number = rows[i].number
               /\ \A c \in Column : new[i].cells[c] = Converted(nulls[c], given[c][i])
    <2>1. PICK cells : cells = [c \in Column |-> Converted(nulls[c], given[c][i])]
      OBVIOUS
    <2>2. new[i] = [number |-> rows[i].number, cells |-> cells]
      BY <1>1, <2>1 DEF RowsOf
    <2>3. rows[i].number \in Value
      <3>1. rows[i] \in QueryRow
        BY ElementOfSeq
      <3> QED
        BY <3>1 DEF QueryRow
    <2>4. ASSUME NEW c \in Column
          PROVE  Converted(nulls[c], given[c][i]) \in CellValue
      <3>1. given[c] \in Seq(CellValue) /\ Len(given[c]) = Len(rows)
        BY GivenValues
      <3>2. given[c][i] \in CellValue
        BY <3>1, ElementOfSeq
      <3> QED
        BY <3>2, ConvertedType
    <2>5. cells \in [Column -> CellValue]
      BY <2>1, <2>4
    <2> QED
      BY <2>1, <2>2, <2>3, <2>5 DEF QueriedRow
  <1>3. DOMAIN new = 1 .. Len(rows) /\ new = [i \in 1 .. Len(rows) |-> new[i]]
    BY <1>1 DEF RowsOf
  <1>4. new \in [1 .. Len(rows) -> QueriedRow]
    BY <1>2, <1>3
  <1>5. Len(rows) \in Nat
    OBVIOUS
  <1>6. new \in Seq(QueriedRow) /\ Len(new) = Len(rows)
    BY <1>4, <1>5
  <1> QED
    BY <1>1, <1>2, <1>6

LEMMA RowsTogether ==
  ASSUME NEW n \in Nat, NEW k \in Nat,
         NEW before \in Seq(QueriedRow), Len(before) = n,
         NEW after \in Seq(QueriedRow), Len(after) = k
  PROVE  /\ \A i \in 1 .. n : (before \o after)[i] = before[i]
         /\ \A i \in 1 .. k : (before \o after)[n + i] = after[i]
  BY Concatenated

(* A column that was full with the rows queries returned is full with them and
   with the rows of this query. *)
LEMMA QueriedColumn ==
  ASSUME NEW n \in Nat, NEW k \in Nat, NEW null, NEW cells, NEW c,
         NEW before \in Seq(QueriedRow), Len(before) = n,
         NEW after \in Seq(QueriedRow), Len(after) = k
  PROVE  /\ \A i \in 1 .. n + 1 : cells[i] = null[i]
         /\ \A r \in 1 .. n : null[r + 1] = before[r].cells[c]
         /\ \A i \in 1 .. k : cells[n + 1 + i] = after[i].cells[c]
         => \A r \in 1 .. n + k : cells[r + 1] = (before \o after)[r].cells[c]
  <1>1. PICK all : all = before \o after
    OBVIOUS
  <1>2. /\ \A i \in 1 .. n : all[i] = before[i]
        /\ \A i \in 1 .. k : all[n + i] = after[i]
    <2>1. /\ \A i \in 1 .. n : (before \o after)[i] = before[i]
          /\ \A i \in 1 .. k : (before \o after)[n + i] = after[i]
      BY RowsTogether
    <2> QED
      BY <1>1, <2>1
  <1> HAVE /\ \A i \in 1 .. n + 1 : cells[i] = null[i]
           /\ \A r \in 1 .. n : null[r + 1] = before[r].cells[c]
           /\ \A i \in 1 .. k : cells[n + 1 + i] = after[i].cells[c]
  <1>3. ASSUME NEW r \in 1 .. n + k
        PROVE  cells[r + 1] = all[r].cells[c]
    <2>1. CASE r <= n
      <3>1. r \in 1 .. n /\ r + 1 \in 1 .. n + 1
        BY <2>1
      <3>2. cells[r + 1] = null[r + 1]
        BY <3>1
      <3>3. null[r + 1] = before[r].cells[c]
        BY <3>1
      <3> QED
        BY <1>2, <3>1, <3>2, <3>3
    <2>2. CASE ~(r <= n)
      <3>1. r - n \in 1 .. k /\ n + 1 + (r - n) = r + 1 /\ n + (r - n) = r
        BY <2>2
      <3>2. PICK i \in 1 .. k : i = r - n
        BY <3>1
      <3>3. cells[n + 1 + i] = after[i].cells[c] /\ all[n + i] = after[i]
        BY <1>2
      <3> QED
        BY <3>1, <3>2, <3>3
    <2> QED
      BY <2>1, <2>2
  <1> QED
    BY <1>1, <1>3

(* The times that are those of some rows. *)
Numbered(ts, rows, n) == \A r \in 1 .. n : ts[r] = rows[r].number

LEMMA QueriedTimes ==
  ASSUME NEW n \in Nat, NEW k \in Nat,
         NEW before \in Seq(QueriedRow), Len(before) = n,
         NEW after \in Seq(QueriedRow), Len(after) = k, NEW new, Numbered(new, before, n)
  PROVE  (\A i \in 1 .. k : new[n + i] = after[i].number) => Numbered(new, before \o after, n + k)
  <1>1. PICK all : all = before \o after
    OBVIOUS
  <1>2. /\ \A i \in 1 .. n : all[i] = before[i]
        /\ \A i \in 1 .. k : all[n + i] = after[i]
    <2>1. /\ \A i \in 1 .. n : (before \o after)[i] = before[i]
          /\ \A i \in 1 .. k : (before \o after)[n + i] = after[i]
      BY RowsTogether
    <2> QED
      BY <1>1, <2>1
  <1> HAVE \A i \in 1 .. k : new[n + i] = after[i].number
  <1>3. ASSUME NEW r \in 1 .. n + k
        PROVE  new[r] = all[r].number
    <2>1. CASE r <= n
      <3>1. r \in 1 .. n
        BY <2>1
      <3> QED
        BY <1>2, <3>1 DEF Numbered
    <2>2. CASE ~(r <= n)
      <3>1. r - n \in 1 .. k /\ n + (r - n) = r
        BY <2>2
      <3>2. PICK i \in 1 .. k : i = r - n
        BY <3>1
      <3>3. new[n + i] = after[i].number /\ all[n + i] = after[i]
        BY <1>2
      <3> QED
        BY <3>1, <3>2, <3>3
    <2> QED
      BY <2>1, <2>2
  <1> QED
    BY <1>1, <1>3 DEF Numbered

LEMMA MakeTableKeepsQueried ==
  ASSUME TableIInv, NEW rows \in Seq(QueryRow), NEW nullValues \in SUBSET Value,
         MakeTable(rows, nullValues)
  PROVE  QueriedOK'
  <1>1. CASE queried = Mixed
    <2>1. queried' = Mixed
      BY <1>1, MakeTableParts
    <2> QED
      BY <2>1, MixedIsOK
  <1>2. CASE queried # Mixed
    <2>1. PICK n, k, before : n = numRows /\ k = Len(rows) /\ before = queried
      OBVIOUS
    <2>2. PICK nulls, given : nulls = NullsOf(nullValues) /\ given = GivenTo(rows, nullValues)
      OBVIOUS
    <2>3. Made(rows, nulls, given)
      BY <2>2, MakeTableMakes
    <2>4. PICK after : after = RowsOf(rows, nulls, given)
      OBVIOUS
    <2>5. /\ numRows' = numRows + Len(rows) /\ isInitialized' = TRUE /\ DOMAIN cols' = Column
          /\ queried' = IF queried = Mixed THEN Mixed
                        ELSE queried \o RowsOf(rows, NullsOf(nullValues), GivenTo(rows, nullValues))
      BY MakeTableParts
    <2>6. /\ numRows' = n + k /\ queried' = before \o after
          /\ isInitialized' /\ DOMAIN cols' = Column
      BY <1>2, <2>1, <2>2, <2>4, <2>5
    <2>7. /\ n \in Nat /\ k \in Nat /\ before \in Seq(QueriedRow) /\ Len(before) = n
          /\ ~isInitialized => n = 0
          /\ \A c \in DOMAIN cols : cols[c].type # "none" =>
               /\ Len(cols[c].cells) = n + 1
               /\ \A r \in 1 .. n : cols[c].cells[r + 1] = before[r].cells[c]
          /\ \A e \in End :
               /\ Len(times[e]) = n
               /\ \A r \in 1 .. n : times[e][r] = before[r].number
      BY <1>2, <2>1 DEF TableIInv, QueriedOK, ColumnsOK
    <2>8. /\ after \in Seq(QueriedRow) /\ Len(after) = k
          /\ \A i \in 1 .. k :
               /\ after[i].number = rows[i].number
               /\ \A c \in Column : after[i].cells[c] = Converted(nulls[c], given[c][i])
      <3>1. numRows + Len(rows) \in Nat
        BY <2>1, <2>7
      <3>2. \A c \in Column : ColumnOK(nulls[c], numRows + Len(rows)) /\ nulls[c].type # "none"
        BY <2>3 DEF Made
      <3> QED
        BY <2>1, <2>2, <2>4, <3>1, <3>2, RowsOfType
    <2>9. before \o after \in Seq(QueriedRow) /\ Len(before \o after) = n + k
      BY <2>7, <2>8, Concatenated
    <2>10. ASSUME NEW c \in Column
           PROVE  /\ Len(cols'[c].cells) = n + k + 1
                  /\ \A r \in 1 .. n + k : cols'[c].cells[r + 1] = (before \o after)[r].cells[c]
      <3>1. PICK null, cells : null = nulls[c].cells /\ cells = cols'[c].cells
        OBVIOUS
      <3>2. /\ Len(null) = n + 1
            /\ \A r \in 1 .. n : null[r + 1] = before[r].cells[c]
        <4>1. KeepsRows(nulls[c], c)
          BY <2>3 DEF Made
        <4>2. CASE HasType(c)
          <5>1. /\ Len(null) = Len(cols[c].cells) /\ Len(cols[c].cells) = n + 1
                /\ \A i \in 1 .. n + 1 : i # 1 => null[i] = cols[c].cells[i]
                /\ \A r \in 1 .. n : cols[c].cells[r + 1] = before[r].cells[c]
            BY <2>7, <3>1, <4>1, <4>2 DEF HasType, KeepsRows
          <5>2. \A r \in 1 .. n : r + 1 \in 1 .. n + 1 /\ r + 1 # 1
            BY <2>7
          <5> QED
            BY <5>1, <5>2
        <4>3. CASE ~HasType(c)
          <5>1. Len(null) = 1
            BY <3>1, <4>1, <4>3 DEF KeepsRows
          <5>2. ~isInitialized
            BY <4>3, InitializedColumns, ColumnsOfTable DEF HasType, TableIInv
          <5>3. n = 0
            BY <2>7, <5>2
          <5> QED
            BY <5>1, <5>3
        <4> QED
          BY <4>2, <4>3
      <3>3. /\ Len(cells) = n + k + 1
            /\ \A i \in 1 .. n + 1 : cells[i] = null[i]
            /\ \A i \in 1 .. k : cells[n + 1 + i] = Converted(nulls[c], given[c][i])
        BY <2>1, <2>3, <3>1, <3>2 DEF Made
      <3>4. \A i \in 1 .. k : cells[n + 1 + i] = after[i].cells[c]
        BY <2>8, <3>3
      <3>5. \A r \in 1 .. n + k : cells[r + 1] = (before \o after)[r].cells[c]
        <4>1. /\ n \in Nat /\ k \in Nat /\ before \in Seq(QueriedRow) /\ Len(before) = n
              /\ after \in Seq(QueriedRow) /\ Len(after) = k
          BY <2>7, <2>8
        <4>2. /\ \A i \in 1 .. n + 1 : cells[i] = null[i]
              /\ \A r \in 1 .. n : null[r + 1] = before[r].cells[c]
          BY <3>2, <3>3
        <4> QED
          BY <3>4, <4>1, <4>2, QueriedColumn
      <3> QED
        BY <3>1, <3>3, <3>5
    <2>11. ASSUME NEW e \in End
           PROVE  /\ Len(times'[e]) = n + k
                  /\ \A r \in 1 .. n + k : times'[e][r] = (before \o after)[r].number
      <3>1. PICK old, new : old = times[e] /\ new = times'[e]
        OBVIOUS
      <3>2. Len(times[e]) = numRows
        BY <2>1, <2>7
      <3>3. /\ Len(new) = n + k
            /\ \A r \in 1 .. n : new[r] = old[r]
            /\ \A i \in 1 .. k : new[n + i] = rows[i].number
        BY <2>1, <2>6, <3>1, <3>2, MakeTableKeepsTimes
      <3>4. /\ \A r \in 1 .. n : new[r] = before[r].number
            /\ \A i \in 1 .. k : new[n + i] = after[i].number
        BY <2>7, <2>8, <3>1, <3>3
      <3>5. \A r \in 1 .. n + k : new[r] = (before \o after)[r].number
        <4>1. /\ n \in Nat /\ k \in Nat /\ before \in Seq(QueriedRow) /\ Len(before) = n
              /\ after \in Seq(QueriedRow) /\ Len(after) = k
          BY <2>7, <2>8
        <4>2. Numbered(new, before, n)
          BY <3>4 DEF Numbered
        <4>3. (\A i \in 1 .. k : new[n + i] = after[i].number) => Numbered(new, before \o after, n + k)
          BY <4>1, <4>2, QueriedTimes
        <4> QED
          BY <3>4, <4>3 DEF Numbered
      <3> QED
        BY <3>1, <3>3, <3>5
    <2>12. PICK all : all = before \o after
      OBVIOUS
    <2>13. /\ queried' = all /\ all \in Seq(QueriedRow) /\ Len(all) = n + k
           /\ numRows' = n + k /\ isInitialized' /\ DOMAIN cols' = Column
           /\ \A c \in Column :
                /\ Len(cols'[c].cells) = n + k + 1
                /\ \A r \in 1 .. n + k : cols'[c].cells[r + 1] = all[r].cells[c]
           /\ \A e \in End :
                /\ Len(times'[e]) = n + k
                /\ \A r \in 1 .. n + k : times'[e][r] = all[r].number
      BY <2>6, <2>9, <2>10, <2>11, <2>12
    <2> QED
      BY <2>13 DEF QueriedOK, QueriedRow, CellValue
  <1> QED
    BY <1>1, <1>2

LEMMA MakeTableKeeps ==
  ASSUME TableIInv, NEW rows \in Seq(QueryRow), NEW nullValues \in SUBSET Value,
         MakeTable(rows, nullValues)
  PROVE  TableIInv'
  <1>1. PICK nulls, given : nulls = NullsOf(nullValues) /\ given = GivenTo(rows, nullValues)
    OBVIOUS
  <1>2. Made(rows, nulls, given)
    BY <1>1, MakeTableMakes
  <1>3. CellsOK'
    BY <1>1, <1>2, MakeTableKeepsCells
  <1>4. numRows' = numRows + Len(rows) /\ isInitialized' = TRUE /\ inOrder' = inOrder
    BY MakeTableParts
  <1>5. ColumnsOK'
    <2>1. numRows \in Nat /\ inOrder \in BOOLEAN /\ Len(rows) \in Nat
      BY DEF TableIInv, ColumnsOK
    <2>2. numRows' \in Nat
      BY <1>4, <2>1
    <2>3. /\ cols' \in [Column -> ColumnRecord]
          /\ \A c \in Column : ColumnOK(cols'[c], numRows') /\ cols'[c].type # "none"
      BY <1>2, <1>4 DEF Made
    <2> QED
      BY <1>4, <2>1, <2>2, <2>3 DEF ColumnsOK
  <1>6. TimesOK'
    BY MakeTableKeepsTimes
  <1>7. QueriedOK'
    BY MakeTableKeepsQueried
  <1> QED
    BY <1>3, <1>5, <1>6, <1>7 DEF TableIInv
-----------------------------------------------------------------------------
(* The invariant is inductive. *)
LEMMA InitTable == Init => TableIInv
  <1> SUFFICES ASSUME Init PROVE TableIInv
    OBVIOUS
  <1>1. /\ cols \in {<<>>, Blanks(Len(Schema))} /\ numRows = 0 /\ isInitialized = FALSE
        /\ times = [e \in End |-> <<>>] /\ inOrder = TRUE /\ queried = <<>>
        /\ expected = [c \in Column |-> [r \in Row |-> Unset]]
    BY DEF Init
  <1>2. ColumnOK(Blank, 0) /\ Blank \in ColumnRecord /\ Blank.type = "none"
    BY BlankOK DEF ColumnOK, Blank
  <1>3. cols # <<>> => cols = [c \in Column |-> Blank]
    BY <1>1 DEF Blanks, Column
  <1>4. ColumnsOK
    BY <1>1, <1>2, <1>3 DEF ColumnsOK
  <1>5. TimesOK
    BY <1>1 DEF TimesOK
  <1>6. CellsOK
    BY <1>1 DEF CellsOK
  <1>7. QueriedOK
    <2>1. queried \in Seq(QueriedRow) /\ Len(queried) = 0
      BY <1>1
    <2>2. \A c \in DOMAIN cols : cols[c].type = "none"
      BY <1>2, <1>3, NoColumns
    <2>3. \A e \in End : Len(times[e]) = 0
      BY <1>1
    <2> QED
      BY <1>1, <2>1, <2>2, <2>3 DEF QueriedOK
  <1> QED
    BY <1>4, <1>5, <1>6, <1>7 DEF TableIInv

LEMMA StutteringTable ==
  ASSUME TableIInv, UNCHANGED vars
  PROVE  TableIInv'
  BY DEF vars, TableIInv, ColumnsOK, TimesOK, CellsOK, QueriedOK

LEMMA NextTable ==
  ASSUME TableIInv, Next
  PROVE  TableIInv'
  <1>1. CASE \E n \in 0 .. MaxRows : Initialize(n)
    BY <1>1, InitializeKeeps
  <1>2. CASE \E n \in 1 .. MaxRows : Resize(n)
    BY <1>2, ResizeKeeps
  <1>3. ASSUME NEW c \in Column,
               \/ SetName(c)
               \/ \E t \in AppType : SetType(c, t)
               \/ \E v \in Value : SetNull(c, v)
        PROVE  TableIInv'
    <2>1. CASE SetName(c)
      BY <2>1, SetNameKeeps
    <2>2. CASE \E t \in AppType : SetType(c, t)
      <3>1. PICK t \in AppType : SetType(c, t)
        BY <2>2
      <3>2. t \in Type
        BY SchemaAssumption
      <3> QED
        BY <3>1, <3>2, SetTypeKeeps
    <2>3. CASE \E v \in Value : SetNull(c, v)
      BY <2>3, SetNullKeeps
    <2> QED
      BY <1>3, <2>1, <2>2, <2>3
  <1>4. ASSUME NEW c \in Column, NEW v \in Value, NEW w \in Value \cup {NullText},
               SetColumndata(c, <<v, w>>) \/ SetArrayColumndata(c, <<v, w>>)
        PROVE  TableIInv'
    <2>1. v \in CellValue /\ w \in CellValue
      BY DEF CellValue
    <2> QED
      BY <1>4, <2>1, ColumnsAreFilled
  <1>5. ASSUME NEW c \in Column, NEW r \in Row, NEW v \in Value \cup {NullText},
               SetCell(c, r, v) \/ SetArrayCell(c, r, v)
        PROVE  TableIInv'
    <2>1. v \in CellValue
      BY DEF CellValue
    <2> QED
      BY <1>5, <2>1, CellsAreFilled
  <1>6. ASSUME NEW e \in End, NEW t \in Value, NEW u \in Value,
               SetTime(e, <<t>>) \/ SetTime(e, <<t, u>>)
        PROVE  TableIInv'
    <2>1. PICK one, two : one = <<t>> /\ two = <<t, u>>
      OBVIOUS
    <2>2. one \in Seq(Value) /\ two \in Seq(Value)
      BY <2>1
    <2>3. SetTime(e, one) \/ SetTime(e, two)
      BY <1>6, <2>1
    <2> QED
      BY <2>2, <2>3, SetTimeKeeps
  <1>7. ASSUME NEW e \in End, NEW r \in Row, NEW t \in Value, ChangeTime(e, r, t)
        PROVE  TableIInv'
    BY <1>7, ChangeTimeKeeps
  <1>8. ASSUME NEW first \in QueryRow, NEW nullValues \in {{}} \cup {{v} : v \in Value},
               MakeTable(<<first>>, nullValues)
        PROVE  TableIInv'
    <2>1. PICK rows : rows = <<first>>
      OBVIOUS
    <2>2. rows \in Seq(QueryRow) /\ nullValues \in SUBSET Value
      BY <2>1
    <2> QED
      BY <1>8, <2>1, <2>2, MakeTableKeeps
  <1>9. ASSUME NEW first \in QueryRow, NEW second \in QueryRow, MakeTable(<<first, second>>, {})
        PROVE  TableIInv'
    <2>1. PICK rows : rows = <<first, second>>
      OBVIOUS
    <2>2. rows \in Seq(QueryRow) /\ {} \in SUBSET Value
      BY <2>1
    <2> QED
      BY <1>9, <2>1, <2>2, MakeTableKeeps
  <1> QED
    BY <1>1, <1>2, <1>3, <1>4, <1>5, <1>6, <1>7, <1>8, <1>9 DEF Next

(* The table stays consistent in all its parts, in whatever order its columns
   are named and typed and its cells, columns, times and queries fill it. *)
THEOREM TableIsConsistent == Spec => []TableIInv
  <1>1. TableIInv /\ [Next]_vars => TableIInv'
    BY NextTable, StutteringTable
  <1> QED
    BY <1>1, InitTable, PTL DEF Spec
-----------------------------------------------------------------------------
(* No vector is longer than the table and every column of an initialized
   table is of the class its accesses cast it to (CondDBTable's vectors),
   although a flag that was never set decides whether it is initialized. *)
THEOREM NoVectorOutgrowsTheTable == Spec => []TableInv
  <1>1. ASSUME TableIInv
        PROVE  TableInv
    <2>1. isInitialized => \A c \in Column : cols[c].type \in Type /\ cols[c].cells # <<>>
      <3> SUFFICES ASSUME isInitialized, NEW c \in Column
                   PROVE  cols[c].type \in Type /\ cols[c].cells # <<>>
        OBVIOUS
      <3>1. ColumnOK(cols[c], numRows) /\ cols[c].type # "none"
        BY <1>1, InitializedColumns, ColumnsOfTable DEF TableIInv
      <3> QED
        BY <3>1 DEF ColumnOK, ColumnRecord
    <2>2. \A c \in DOMAIN cols : Len(cols[c].cells) <= numRows + 1
      BY <1>1, ColumnsOfTable DEF TableIInv, ColumnOK
    <2>3. \A e \in End : Len(times[e]) <= numRows
      BY <1>1 DEF TableIInv, TimesOK
    <2> QED
      BY <2>1, <2>2, <2>3 DEF TableInv
  <1> QED
    BY <1>1, TableIsConsistent, PTL

(* A cell that lies in the vector of its column. *)
LEMMA CellOfRow ==
  ASSUME NEW c, NEW r \in Nat, cols[c].cells \in Seq(CellValue), r + 2 <= Len(cols[c].cells)
  PROVE  GetCell(c, r) = cols[c].cells[r + 2]
  <1>1. PICK s : s = cols[c].cells
    OBVIOUS
  <1>2. Len(s) \in Nat /\ ~(Len(s) <= r) /\ Len(s) # r + 1
    BY <1>1
  <1> QED
    BY <1>1, <1>2 DEF GetCell

(* A cell reads back what it was last given (getCell after setCell,
   setColumndata and the queries of MySqlOnlineMgr), in whatever order single
   cells, whole columns and queries filled the table, while no row is skipped. *)
THEOREM CellsAreReadBack == Spec => []CellsReadBack
  <1>1. ASSUME TableIInv
        PROVE  CellsReadBack
    <2> SUFFICES ASSUME inOrder, NEW c \in Column, NEW r \in Row, expected[c][r] # Unset
                 PROVE  GetCell(c, r) = expected[c][r]
      BY DEF CellsReadBack
    <2>1. /\ c \in DOMAIN cols /\ r + 2 <= Len(cols[c].cells)
          /\ cols[c].cells[r + 2] = expected[c][r]
      BY <1>1 DEF TableIInv, CellsOK
    <2>2. r \in Nat /\ cols[c].cells \in Seq(CellValue)
      BY <1>1, <2>1, SetLengths, BoundsAssumption DEF Row, TableIInv
    <2> QED
      BY <2>1, <2>2, CellOfRow
  <1> QED
    BY <1>1, TableIsConsistent, PTL

(* What queries put into the table comes out of it row by row, with the times
   of the row (MySqlOnlineMgr::makeTable, getRow and getSinceTime). *)
LEMMA QueriedRows ==
  ASSUME TableIInv, queried # Mixed, isInitialized
  PROVE  QueriedRowsComeBack
  <1>1. /\ queried \in Seq(QueriedRow) /\ Len(queried) = numRows /\ numRows \in Nat
        /\ \A c \in DOMAIN cols : cols[c].type # "none" =>
             /\ Len(cols[c].cells) = numRows + 1
             /\ \A r \in 1 .. numRows : cols[c].cells[r + 1] = queried[r].cells[c]
        /\ \A e \in End :
             /\ Len(times[e]) = numRows
             /\ \A r \in 1 .. numRows : times[e][r] = queried[r].number
    BY DEF TableIInv, QueriedOK, ColumnsOK
  <1>2. ASSUME NEW r \in 0 .. numRows - 1
        PROVE  /\ GetRow(r) = queried[r + 1].cells
               /\ \A e \in End : GetTime(e, r) = queried[r + 1].number
    <2>1. r \in Nat /\ r + 1 \in 1 .. numRows /\ r + 2 <= numRows + 1 /\ r < numRows
          /\ r + 1 + 1 = r + 2
      BY <1>1
    <2>2. ASSUME NEW c \in Column
          PROVE  GetCell(c, r) = queried[r + 1].cells[c]
      <3>1. c \in DOMAIN cols /\ cols[c].type # "none" /\ cols[c].cells \in Seq(CellValue)
        BY InitializedColumns, ColumnsOfTable, SetLengths DEF TableIInv
      <3>2. Len(cols[c].cells) = numRows + 1 /\ cols[c].cells[r + 1 + 1] = queried[r + 1].cells[c]
        BY <1>1, <2>1, <3>1
      <3>3. GetCell(c, r) = cols[c].cells[r + 2]
        BY <2>1, <3>1, <3>2, CellOfRow
      <3> QED
        BY <2>1, <3>2, <3>3
    <2>3. PICK row : row = queried[r + 1]
      OBVIOUS
    <2>4. row.cells \in [Column -> CellValue]
      <3>1. row \in QueriedRow
        BY <1>1, <2>1, <2>3, ElementOfSeq
      <3> QED
        BY <3>1 DEF QueriedRow
    <2>5. GetRow(r) = row.cells
      BY <2>2, <2>3, <2>4 DEF GetRow
    <2>6. \A e \in End : GetTime(e, r) = row.number
      BY <1>1, <2>1, <2>3 DEF GetTime
    <2> QED
      BY <2>3, <2>5, <2>6
  <1> QED
    BY <1>1, <1>2 DEF QueriedRowsComeBack

-----------------------------------------------------------------------------
(* How the PHP binding reads the rows.  A set of numbers with the first one and
   with the next one of each has all of them. *)
LEMMA NumbersOneByOne ==
  ASSUME NEW S, 0 \in S, \A n \in Nat : n \in S => n + 1 \in S
  PROVE  Nat \subseteq S
  <1> DEFINE left == Nat \ S
  <1>1. ASSUME left # {}
        PROVE  FALSE
    <2>1. PICK n \in left : \A m \in left : <<m, n>> \notin OpToRel(<, Nat)
      BY <1>1, WFMin, NatLessThanWellFounded
    <2>2. n \in Nat /\ n # 0 /\ n \notin S
      OBVIOUS
    <2>3. n - 1 \in Nat /\ n - 1 < n /\ (n - 1) + 1 = n
      BY <2>2
    <2>4. n - 1 \notin S
      BY <2>2, <2>3
    <2>5. n - 1 \in left
      BY <2>3, <2>4
    <2> HIDE DEF left
    <2> QED
      BY <2>1, <2>2, <2>3, <2>5 DEF OpToRel
  <1> QED
    BY <1>1

(* The texts of the columns one after the other: what FlattenSeq comes to after
   each of them. *)
Flat(flat, seqs, T) ==
  /\ flat \in [1 .. Len(seqs) -> Seq(T)]
  /\ flat[1] = seqs[1]
  /\ \A i \in 2 .. Len(seqs) : flat[i] = flat[i - 1] \o seqs[i]

LEMMA FlattenedByParts ==
  ASSUME NEW T, NEW seqs \in Seq(Seq(T)), Len(seqs) > 0
  PROVE  \E flat : Flat(flat, seqs, T) /\ FlattenSeq(seqs) = flat[Len(seqs)]
  <1> DEFINE N == Len(seqs)
             step(g, i) == IF i = 1 THEN seqs[i] ELSE g[i - 1] \o seqs[i]
             good(n) == \E g \in [1 .. n -> Seq(T)] : \A i \in 1 .. n : g[i] = step(g, i)
             S == {n \in Nat : n + 1 <= N => good(n + 1)}
  <1>1. N \in Nat /\ N > 0 /\ \A i \in 1 .. N : seqs[i] \in Seq(T)
    OBVIOUS
  <1>0. ASSUME NEW g, NEW n \in Nat
        PROVE  step(g, n + 2) = g[n + 1] \o seqs[n + 2]
    <2> DEFINE k == n + 2
               m == n + 1
    <2>1. k # 1 /\ k - 1 = m
      OBVIOUS
    <2> HIDE DEF k, m
    <2>2. step(g, k) = g[m] \o seqs[k]
      BY <2>1
    <2> HIDE DEF step
    <2> QED
      BY <2>2 DEF k, m
  <1> HIDE DEF N
  <1>2. 0 \in S
    <2> DEFINE g == [i \in 1 .. 1 |-> seqs[1]]
    <2>1. g \in [1 .. 1 -> Seq(T)] /\ \A i \in 1 .. 1 : g[i] = step(g, i)
      BY <1>1
    <2>2. good(0 + 1)
      <3> HIDE DEF g, step
      <3> QED
        BY <2>1
    <2> HIDE DEF good
    <2> QED
      BY <2>2
  <1>3. ASSUME NEW n \in Nat, n \in S
        PROVE  n + 1 \in S
    <2> SUFFICES ASSUME n + 2 <= N
                 PROVE  good(n + 2)
      <3> HIDE DEF good
      <3>1. n + 1 + 1 = n + 2 /\ n + 1 \in Nat
        OBVIOUS
      <3> QED
        BY <3>1
    <2>1. good(n + 1)
      <3> HIDE DEF good
      <3> QED
        BY <1>1, <1>3
    <2>2. PICK g \in [1 .. n + 1 -> Seq(T)] : \A i \in 1 .. n + 1 : g[i] = step(g, i)
      BY <2>1
    <2> DEFINE last == step(g, n + 2)
               h == [i \in 1 .. n + 2 |-> IF i = n + 2 THEN last ELSE g[i]]
    <2>3. last \in Seq(T)
      <3>1. g[n + 1] \in Seq(T) /\ seqs[n + 2] \in Seq(T) /\ n + 2 # 1 /\ n + 2 - 1 = n + 1
        BY <1>1
      <3>2. last = g[n + 1] \o seqs[n + 2]
        <4> HIDE DEF step
        <4> QED
          BY <1>0
      <3> HIDE DEF last
      <3> QED
        BY <3>1, <3>2, ConcatProperties
    <2>4. h \in [1 .. n + 2 -> Seq(T)] /\ \A i \in 1 .. n + 1 : h[i] = g[i]
      <3> HIDE DEF last
      <3> QED
        BY <2>3
    <2>5. ASSUME NEW i \in 1 .. n + 2
          PROVE  h[i] = step(h, i)
      <3>1. i # 1 => h[i - 1] = g[i - 1]
        BY <2>4
      <3>2. step(h, i) = step(g, i)
        <4> HIDE DEF h
        <4> QED
          BY <3>1
      <3>3. h[i] = step(g, i)
        <4> HIDE DEF step
        <4> QED
          BY <2>2
      <3> QED
        BY <3>2, <3>3
    <2> HIDE DEF h, step
    <2> QED
      BY <2>4, <2>5
  <1>4. good(N)
    <2>1. N - 1 \in Nat /\ N - 1 + 1 = N
      BY <1>1
    <2>2. N - 1 \in S
      <3> HIDE DEF S
      <3> QED
        BY <1>2, <1>3, <2>1, NumbersOneByOne
    <2> HIDE DEF good
    <2> QED
      BY <1>1, <2>1, <2>2
  <1>5. PICK g \in [1 .. N -> Seq(T)] : \A i \in 1 .. N : g[i] = step(g, i)
    BY <1>4
  <1>6. g = [i \in 1 .. N |-> step(g, i)]
    <2> HIDE DEF step
    <2> QED
      BY <1>5
  <1> DEFINE f == CHOOSE h : h = [i \in 1 .. N |-> step(h, i)]
  <1>7. f = [i \in 1 .. N |-> step(f, i)]
    <2> HIDE DEF step
    <2> QED
      BY <1>6
  <1>8. FlattenSeq(seqs) = f[N]
    BY <1>1 DEF FlattenSeq, N
  <1> HIDE DEF f
  <1>9. \A i \in 1 .. N : f[i] = step(f, i)
    <2> HIDE DEF step
    <2> QED
      BY <1>7
  <1> DEFINE typed == {n \in Nat : n + 1 <= N => f[n + 1] \in Seq(T)}
  <1>10. 0 \in typed
    <2>1. f[1] = seqs[1] /\ seqs[1] \in Seq(T)
      BY <1>1, <1>9
    <2>2. 0 + 1 = 1
      OBVIOUS
    <2> QED
      BY <2>1, <2>2
  <1>11. ASSUME NEW n \in Nat, n \in typed
         PROVE  n + 1 \in typed
    <2> SUFFICES ASSUME n + 2 <= N
                 PROVE  f[n + 2] \in Seq(T)
      <3>1. n + 1 + 1 = n + 2 /\ n + 1 \in Nat
        OBVIOUS
      <3> QED
        BY <3>1
    <2>1. /\ f[n + 1] \in Seq(T) /\ seqs[n + 2] \in Seq(T) /\ n + 2 \in 1 .. N
          /\ n + 2 # 1 /\ n + 2 - 1 = n + 1
      BY <1>1, <1>11
    <2>2. f[n + 2] = step(f, n + 2)
      BY <1>9, <2>1
    <2>3. f[n + 2] = f[n + 1] \o seqs[n + 2]
      <3> HIDE DEF step
      <3> QED
        BY <1>0, <2>2
    <2> QED
      BY <2>1, <2>3, ConcatProperties
  <1>12. ASSUME NEW i \in 1 .. N
         PROVE  f[i] \in Seq(T)
    <2>1. i - 1 \in Nat /\ i - 1 + 1 = i
      OBVIOUS
    <2>2. i - 1 \in typed
      <3> HIDE DEF typed
      <3> QED
        BY <1>10, <1>11, <2>1, NumbersOneByOne
    <2> QED
      BY <1>1, <2>1, <2>2
  <1>13. f \in [1 .. N -> Seq(T)]
    <2> HIDE DEF step
    <2> QED
      BY <1>7, <1>12
  <1>14. f[1] = seqs[1] /\ \A i \in 2 .. N : f[i] = f[i - 1] \o seqs[i]
    <2>1. f[1] = step(f, 1)
      BY <1>1, <1>9
    <2>2. ASSUME NEW i \in 2 .. N
          PROVE  f[i] = f[i - 1] \o seqs[i]
      <3>1. i \in 1 .. N /\ i # 1
        BY <1>1
      <3>2. f[i] = step(f, i)
        BY <1>9, <3>1
      <3> QED
        BY <3>1, <3>2
    <2> QED
      BY <2>1, <2>2
  <1> QED
    BY <1>8, <1>13, <1>14 DEF Flat, N

LEMMA TextsTogether ==
  ASSUME NEW T, NEW s \in Seq(T), NEW t \in Seq(T), NEW k, k = Len(s), NEW l, l = Len(t)
  PROVE  /\ k \in Nat /\ l \in Nat /\ Len(s \o t) = k + l
         /\ \A i \in 1 .. k : (s \o t)[i] = s[i]
         /\ \A i \in 1 .. l : (s \o t)[k + i] = t[i]
  <1>1. k \in Nat
    BY LenProperties
  <1>2. l \in Nat
    BY LenProperties
  <1> DEFINE r == s \o t
  <1>3. /\ Len(r) = k + l
        /\ \A i \in 1 .. k + l : r[i] = IF i <= k THEN s[i] ELSE t[i - k]
    <2>1. /\ Len(r) = Len(s) + Len(t)
          /\ \A i \in 1 .. Len(s) + Len(t) :
               r[i] = IF i <= Len(s) THEN s[i] ELSE t[i - Len(s)]
      BY ConcatProperties
    <2> HIDE DEF r
    <2> QED
      BY <1>1, <1>2, <2>1
  <1> HIDE DEF r
  <1>4. \A i \in 1 .. k : r[i] = s[i]
    BY <1>3
  <1>5. ASSUME NEW i \in 1 .. l
        PROVE  r[k + i] = t[i]
    <2>1. k + i \in 1 .. k + l /\ ~ (k + i <= k) /\ (k + i) - k = i
      OBVIOUS
    <2> QED
      BY <1>3, <2>1
  <1> QED
    BY <1>1, <1>2, <1>3, <1>4, <1>5 DEF r

(* What comes to it later leaves the texts before as they are. *)
LEMMA FlatGrows ==
  ASSUME NEW T, NEW seqs \in Seq(Seq(T)), NEW flat, Flat(flat, seqs, T),
         NEW n \in 1 .. Len(seqs), NEW m \in n .. Len(seqs)
  PROVE  /\ Len(flat[n]) <= Len(flat[m])
         /\ \A i \in 1 .. Len(flat[n]) : flat[m][i] = flat[n][i]
  <1>1. PICK N \in Nat : N = Len(seqs)
    BY LenProperties
  <1>2. PICK L \in Nat : L = Len(flat[n])
    BY LenProperties DEF Flat
  <1> DEFINE kept(k) == \E e \in Nat : /\ Len(flat[k]) = e /\ L <= e
                                      /\ \A i \in 1 .. L : flat[k][i] = flat[n][i]
             S == {d \in Nat : n + d <= N => kept(n + d)}
  <1>3. /\ n \in 1 .. N /\ m \in n .. N
        /\ \A i \in 1 .. N : flat[i] \in Seq(T) /\ seqs[i] \in Seq(T)
        /\ \A i \in 2 .. N : flat[i] = flat[i - 1] \o seqs[i]
    <2>1. seqs \in [1 .. N -> Seq(T)]
      BY <1>1, LenProperties
    <2>2. flat \in [1 .. N -> Seq(T)]
      BY <1>1 DEF Flat
    <2>3. \A i \in 2 .. N : flat[i] = flat[i - 1] \o seqs[i]
      BY <1>1 DEF Flat
    <2>4. n \in 1 .. N /\ m \in n .. N
      BY <1>1
    <2> QED
      BY <2>1, <2>2, <2>3, <2>4
  <1>4. 0 \in S
    <2>1. n + 0 = n
      BY <1>3
    <2>2. kept(n)
      BY <1>2
    <2> HIDE DEF kept
    <2> QED
      BY <2>1, <2>2
  <1>5. ASSUME NEW d \in Nat, d \in S
        PROVE  d + 1 \in S
    <2> SUFFICES ASSUME n + (d + 1) <= N
                 PROVE  kept(n + (d + 1))
      <3> HIDE DEF kept
      <3> QED
        OBVIOUS
    <2>1. PICK k : k = n + d
      OBVIOUS
    <2>2. PICK l : l = n + (d + 1)
      OBVIOUS
    <2>3. k \in 1 .. N /\ l \in 2 .. N /\ l - 1 = k
      BY <1>3, <2>1, <2>2
    <2>4. kept(k)
      <3> HIDE DEF kept
      <3> QED
        BY <1>3, <1>5, <2>1, <2>3
    <2>5. flat[l] = flat[k] \o seqs[l] /\ flat[k] \in Seq(T) /\ seqs[l] \in Seq(T)
      <3>1. l \in 1 .. N
        BY <2>3
      <3> QED
        BY <1>3, <2>3, <3>1
    <2>6. PICK e \in Nat : /\ Len(flat[k]) = e /\ L <= e
                          /\ \A i \in 1 .. L : flat[k][i] = flat[n][i]
      BY <2>4
    <2>7. PICK a \in Nat, b \in Nat :
            /\ Len(flat[k]) = a /\ Len(flat[l]) = a + b
            /\ \A i \in 1 .. a : flat[l][i] = flat[k][i]
      <3>1. PICK x : x = flat[k]
        OBVIOUS
      <3>2. PICK y : y = seqs[l]
        OBVIOUS
      <3>3. PICK z : z = flat[l]
        OBVIOUS
      <3>4. x \in Seq(T) /\ y \in Seq(T) /\ z = x \o y
        BY <2>5, <3>1, <3>2, <3>3
      <3>5. PICK a : a = Len(x)
        OBVIOUS
      <3>6. PICK b : b = Len(y)
        OBVIOUS
      <3>7. /\ a \in Nat /\ b \in Nat /\ Len(x \o y) = a + b
            /\ \A i \in 1 .. a : (x \o y)[i] = x[i]
        BY <3>4, <3>5, <3>6, TextsTogether
      <3>8. \A i \in 1 .. a : flat[l][i] = flat[k][i]
        BY <3>1, <3>3, <3>4, <3>7
      <3> QED
        BY <3>1, <3>3, <3>4, <3>5, <3>7, <3>8
    <2>8. a = e
      BY <2>6, <2>7
    <2>9. ASSUME NEW i \in 1 .. L
          PROVE  flat[l][i] = flat[n][i]
      <3>1. i \in 1 .. a
        BY <2>6, <2>8
      <3> QED
        BY <2>6, <2>7, <3>1
    <2>10. kept(l)
      <3>1. a + b \in Nat /\ L <= a + b
        BY <2>6, <2>8
      <3> QED
        BY <2>7, <2>9, <3>1
    <2> HIDE DEF kept
    <2> QED
      BY <2>2, <2>10
  <1>6. m - n \in Nat /\ n + (m - n) = m /\ m <= N
    BY <1>3
  <1>7. m - n \in S
    <2> HIDE DEF S
    <2> QED
      BY <1>4, <1>5, <1>6, NumbersOneByOne
  <1>8. kept(m)
    <2> HIDE DEF kept
    <2> QED
      BY <1>6, <1>7
  <1> QED
    BY <1>2, <1>8

(* Where the texts of a column end. *)
EndOf(flat, c) == IF c = 0 THEN 0 ELSE Len(flat[c])

(* The texts of a part are behind so many texts. *)
Behind(texts, before, part) == \A i \in 1 .. Len(part) : texts[before + i] = part[i]

LEMMA TextsOfColumn ==
  ASSUME NEW T, NEW seqs \in Seq(Seq(T)), NEW flat, Flat(flat, seqs, T),
         NEW c \in 1 .. Len(seqs)
  PROVE  /\ EndOf(flat, c - 1) \in Nat
         /\ EndOf(flat, c) = EndOf(flat, c - 1) + Len(seqs[c])
         /\ Behind(flat[Len(seqs)], EndOf(flat, c - 1), seqs[c])
  <1> DEFINE N == Len(seqs)
  <1>1. PICK e : e = EndOf(flat, c - 1)
    OBVIOUS
  <1>2. /\ N \in Nat /\ c \in Nat /\ c > 0 /\ c <= N /\ N \in c .. N
        /\ flat[c] \in Seq(T) /\ seqs[c] \in Seq(T)
    BY DEF Flat
  <1>3. Len(seqs[c]) \in Nat
    BY <1>2, LenProperties
  <1>4. /\ e \in Nat /\ Len(flat[c]) = e + Len(seqs[c])
        /\ \A i \in 1 .. Len(seqs[c]) : flat[c][e + i] = seqs[c][i]
    <2>1. CASE c = 1
      <3>1. e = 0 /\ flat[c] = seqs[c]
        BY <1>1, <2>1 DEF EndOf, Flat
      <3> QED
        BY <1>3, <3>1
    <2>2. CASE c # 1
      <3>1. c - 1 \in 1 .. N /\ c \in 2 .. N /\ c - 1 # 0
        BY <1>2, <2>2
      <3>2. e = Len(flat[c - 1])
        BY <1>1, <3>1 DEF EndOf
      <3>3. flat[c - 1] \in Seq(T) /\ flat[c] = flat[c - 1] \o seqs[c]
        BY <3>1 DEF Flat
      <3>4. PICK k \in Nat, l \in Nat :
              /\ Len(flat[c - 1]) = k /\ Len(seqs[c]) = l /\ Len(flat[c]) = k + l
              /\ \A i \in 1 .. l : flat[c][k + i] = seqs[c][i]
        <4>1. PICK x : x = flat[c - 1]
          OBVIOUS
        <4>2. PICK y : y = seqs[c]
          OBVIOUS
        <4>3. PICK z : z = flat[c]
          OBVIOUS
        <4>4. x \in Seq(T) /\ y \in Seq(T) /\ z = x \o y
          BY <1>2, <3>3, <4>1, <4>2, <4>3
        <4>5. PICK k : k = Len(x)
          OBVIOUS
        <4>6. PICK l : l = Len(y)
          OBVIOUS
        <4>7. /\ k \in Nat /\ l \in Nat /\ Len(x \o y) = k + l
              /\ \A i \in 1 .. l : (x \o y)[k + i] = y[i]
          BY <4>4, <4>5, <4>6, TextsTogether
        <4>8. \A i \in 1 .. l : flat[c][k + i] = seqs[c][i]
          BY <4>2, <4>3, <4>4, <4>7
        <4>9. Len(flat[c - 1]) = k /\ Len(seqs[c]) = l /\ Len(flat[c]) = k + l
          BY <4>1, <4>2, <4>3, <4>4, <4>5, <4>6, <4>7
        <4> QED
          BY <4>7, <4>8, <4>9
      <3>5. e = k
        BY <3>2, <3>4
      <3> QED
        BY <3>4, <3>5
    <2> QED
      BY <2>1, <2>2
  <1>5. EndOf(flat, c) = Len(flat[c])
    BY <1>2 DEF EndOf
  <1>6. \A i \in 1 .. Len(flat[c]) : flat[N][i] = flat[c][i]
    BY <1>2, FlatGrows
  <1>7. ASSUME NEW i \in 1 .. Len(seqs[c])
        PROVE  flat[N][e + i] = seqs[c][i]
    <2>1. e + i \in 1 .. Len(flat[c])
      BY <1>3, <1>4
    <2> QED
      BY <1>4, <1>6, <2>1
  <1>8. Behind(flat[N], e, seqs[c])
    BY <1>7 DEF Behind
  <1> QED
    BY <1>1, <1>4, <1>5, <1>8

(* The cells of the columns up to a column. *)
CellsTo(shown, c) == [k \in 1 .. c |-> shown[k]]

(* The text of a cell: an array is its size and then its elements. *)
CellText(shown, c) ==
  IF IsArray(c) THEN <<Len(shown[c])>> \o shown[c] ELSE shown[c]

LEMMA CellTextType ==
  ASSUME NEW T, Nat \subseteq T, NEW shown \in [Column -> Seq(T)], NEW c \in Column
  PROVE  CellText(shown, c) \in Seq(T)
  <1>1. PICK s : s = shown[c]
    OBVIOUS
  <1>2. s \in Seq(T)
    BY <1>1
  <1>3. PICK m \in Nat : m = Len(s)
    BY <1>2, LenProperties
  <1>4. <<m>> \in Seq(T)
    OBVIOUS
  <1>5. <<m>> \o s \in Seq(T)
    BY <1>2, <1>4, ConcatProperties
  <1> QED
    BY <1>1, <1>2, <1>3, <1>5 DEF CellText

LEMMA CellsAreAppended ==
  ASSUME NEW S, NEW shown \in [Column -> S], NEW c \in Column
  PROVE  Append(CellsTo(shown, c - 1), shown[c]) = CellsTo(shown, c)
  <1>1. c \in Nat /\ c - 1 \in Nat /\ c - 1 + 1 = c /\ Len(Schema) \in Nat
    BY SomeColumn DEF Column
  <1>2. ASSUME NEW n \in 0 .. Len(Schema)
        PROVE  CellsTo(shown, n) \in Seq(S) /\ Len(CellsTo(shown, n)) = n
    BY <1>1 DEF CellsTo, Column
  <1> DEFINE a == CellsTo(shown, c - 1)
             b == CellsTo(shown, c)
  <1>3. a \in Seq(S) /\ Len(a) = c - 1 /\ b \in Seq(S) /\ Len(b) = c /\ shown[c] \in S
    <2>1. PICK N \in Nat : N = Len(Schema)
      BY <1>1
    <2>2. c \in 0 .. N /\ c - 1 \in 0 .. N
      BY <1>1, <2>1 DEF Column
    <2> QED
      BY <1>2, <2>1, <2>2
  <1>4. ASSUME NEW i \in 1 .. c
        PROVE  b[i] = IF i = c THEN shown[c] ELSE a[i]
    BY <1>1 DEF CellsTo
  <1> HIDE DEF a, b
  <1>5. PICK d : d = Append(a, shown[c])
    OBVIOUS
  <1>6. d \in Seq(S) /\ Len(d) = c /\ (\A i \in 1 .. c - 1 : d[i] = a[i]) /\ d[c] = shown[c]
    <2>1. PICK x : x = shown[c]
      OBVIOUS
    <2>2. PICK m : m = c - 1
      OBVIOUS
    <2>3. /\ Append(a, x) \in Seq(S) /\ Len(Append(a, x)) = Len(a) + 1
          /\ \A i \in 1 .. Len(a) : Append(a, x)[i] = a[i]
          /\ Append(a, x)[Len(a) + 1] = x
      BY <1>3, <2>1, AppendProperties
    <2>4. Len(a) = m /\ m \in Nat /\ m + 1 = c
      BY <1>1, <1>3, <2>2
    <2>5. /\ Append(a, x) \in Seq(S) /\ Len(Append(a, x)) = c
          /\ \A i \in 1 .. m : Append(a, x)[i] = a[i]
          /\ Append(a, x)[c] = x
      BY <2>3, <2>4
    <2> QED
      BY <1>5, <2>1, <2>2, <2>5
  <1>7. ASSUME NEW i \in 1 .. c
        PROVE  d[i] = b[i]
    <2>1. i # c => i \in 1 .. c - 1
      BY <1>1
    <2> QED
      BY <1>4, <1>6, <2>1
  <1>8. d = b
    BY <1>3, <1>6, <1>7, SeqEqual
  <1> QED
    BY <1>5, <1>8 DEF a, b

(* What is read of a row whose texts up to a column are so many. *)
ReadTo(shown, c, n) == [index |-> n + 1, cells |-> CellsTo(shown, c)]

(* A cell that starts behind so many texts is read as it was, and what is
   behind it starts behind its own. *)
LEMMA CellIsRead ==
  ASSUME NEW T, Nat \subseteq T, NEW shown \in [Column -> Seq(T)],
         \A c \in Column : IsArray(c) \/ Len(shown[c]) = 1,
         NEW c \in Column, NEW texts, NEW before \in Nat, Behind(texts, before, CellText(shown, c))
  PROVE  ReadCell(ReadTo(shown, c - 1, before), texts, c)
           = ReadTo(shown, c, before + Len(CellText(shown, c)))
  <1>10. PICK n \in Nat : n = Len(CellText(shown, c))
    BY CellTextType, LenProperties
  <1>11. \A i \in 1 .. n : texts[before + i] = CellText(shown, c)[i]
    BY <1>10 DEF Behind
  <1> SUFFICES ReadCell(ReadTo(shown, c - 1, before), texts, c) = ReadTo(shown, c, before + n)
    BY <1>10
  <1>1. PICK s : s = shown[c]
    OBVIOUS
  <1>2. s \in Seq(T)
    BY <1>1
  <1>3. PICK m \in Nat : m = Len(s)
    BY <1>2, LenProperties
  <1>4. Append(CellsTo(shown, c - 1), s) = CellsTo(shown, c)
    BY <1>1, CellsAreAppended
  <1>5. CASE IsArray(c)
    <2>1. PICK p : p = <<m>>
      OBVIOUS
    <2>2. p \in Seq(T) /\ 1 = Len(p) /\ p[1] = m
      BY <2>1
    <2>3. PICK q : q = p \o s
      OBVIOUS
    <2>4. CellText(shown, c) = q
      BY <1>1, <1>3, <1>5, <2>1, <2>3 DEF CellText
    <2>5. PICK one : one = 1
      OBVIOUS
    <2>6. /\ Len(q) = one + m
          /\ \A i \in 1 .. one : q[i] = p[i]
          /\ \A i \in 1 .. m : q[one + i] = s[i]
      <3>1. one = Len(p) /\ m = Len(s) /\ p \in Seq(T)
        BY <1>3, <2>2, <2>5
      <3>2. /\ Len(p \o s) = one + m
            /\ \A i \in 1 .. one : (p \o s)[i] = p[i]
            /\ \A i \in 1 .. m : (p \o s)[one + i] = s[i]
        BY <1>2, <3>1, TextsTogether
      <3> QED
        BY <2>3, <3>2
    <2>7. n = 1 + m /\ q[1] = m /\ \A i \in 1 .. m : q[1 + i] = s[i]
      BY <1>10, <2>2, <2>4, <2>5, <2>6
    <2>8. texts[before + 1] = m
      <3>1. 1 \in 1 .. n
        BY <2>7
      <3> QED
        BY <1>11, <2>4, <2>7, <3>1
    <2>9. ASSUME NEW i \in 1 .. m
          PROVE  texts[before + 1 + 1 + i - 1] = s[i]
      <3>1. 1 + i \in 1 .. n /\ before + (1 + i) = before + 1 + 1 + i - 1
        BY <2>7
      <3>2. texts[before + (1 + i)] = q[1 + i]
        BY <1>11, <2>4, <3>1
      <3> QED
        BY <2>7, <3>1, <3>2
    <2>10. SubSeq(texts, before + 1 + 1, before + 1 + m) = s
      <3>1. PICK first \in Int : first = before + 1 + 1
        OBVIOUS
      <3>2. PICK last \in Int : last = before + 1 + m
        OBVIOUS
      <3>3. ASSUME NEW j \in first .. last
            PROVE  texts[j] \in T
        <4>1. j - first + 1 \in 1 .. m /\ before + 1 + 1 + (j - first + 1) - 1 = j
          BY <3>1, <3>2
        <4>2. PICK i \in 1 .. m : i = j - first + 1
          BY <4>1
        <4>3. texts[j] = s[i]
          BY <2>9, <4>1, <4>2
        <4>4. s[i] \in T
          BY <1>2, <1>3, ElementOfSeq
        <4> QED
          BY <4>3, <4>4
      <3>4. PICK u : u = SubSeq(texts, first, last)
        OBVIOUS
      <3>5. /\ u \in Seq(T) /\ Len(u) = (IF first <= last THEN last - first + 1 ELSE 0)
            /\ \A i \in 1 .. last - first + 1 : u[i] = texts[first + i - 1]
        BY <3>3, <3>4, SubSeqProperties
      <3>6. (IF first <= last THEN last - first + 1 ELSE 0) = m /\ last - first + 1 = m
        BY <3>1, <3>2
      <3>7. Len(u) = Len(s)
        BY <1>3, <3>5, <3>6
      <3>8. ASSUME NEW i \in 1 .. Len(s)
            PROVE  u[i] = s[i]
        BY <1>3, <2>9, <3>1, <3>5, <3>6
      <3>9. u = s
        BY <1>2, <3>5, <3>7, <3>8, SeqEqual
      <3> QED
        BY <3>1, <3>2, <3>4, <3>9
    <2>11. before + 1 + 1 + m = before + n + 1
      BY <2>7
    <2> QED
      BY <1>4, <1>5, <2>8, <2>10, <2>11 DEF ReadCell, ReadTo
  <1>6. CASE ~IsArray(c)
    <2>1. CellText(shown, c) = s /\ m = 1 /\ n = 1
      BY <1>1, <1>3, <1>6, <1>10 DEF CellText
    <2>2. texts[before + 1] = s[1]
      <3>1. \A i \in 1 .. 1 : texts[before + i] = s[i]
        BY <1>11, <2>1
      <3>2. 1 \in 1 .. 1
        OBVIOUS
      <3> QED
        BY <3>1, <3>2
    <2>3. <<s[1]>> = s
      <3>1. PICK x : x = s[1]
        OBVIOUS
      <3>2. Len(s) = 1 /\ x \in T
        <4>1. Len(s) = 1
          BY <1>3, <2>1
        <4>2. s \in [1 .. 1 -> T]
          BY <1>2, <4>1, LenProperties
        <4> QED
          BY <3>1, <4>1, <4>2
      <3>3. <<x>> \in Seq(T) /\ Len(<<x>>) = Len(s)
        BY <3>2
      <3>4. ASSUME NEW i \in 1 .. Len(<<x>>)
            PROVE  <<x>>[i] = s[i]
        BY <3>1
      <3>5. <<x>> = s
        BY <1>2, <3>3, <3>4, SeqEqual
      <3> QED
        BY <3>1, <3>5
    <2>4. before + 1 + 1 = before + n + 1
      BY <2>1
    <2> QED
      BY <1>4, <1>6, <2>2, <2>3, <2>4 DEF ReadCell, ReadTo
  <1> QED
    BY <1>5, <1>6

(* The cells read from the texts of a row are the cells of the row, however
   many texts each of them has. *)
LEMMA CellsAreReadBackFromTexts ==
  ASSUME NEW T, Nat \subseteq T, NEW shown \in [Column -> Seq(T)],
         \A c \in Column : IsArray(c) \/ Len(shown[c]) = 1
  PROVE  ZCells(FlattenSeq([c \in Column |-> CellText(shown, c)])) = shown
  <1> DEFINE parts == [c \in Column |-> CellText(shown, c)]
  <1>1. PICK N \in Nat : N = Len(Schema) /\ N # 0
    BY SomeColumn
  <1>2. Column = 1 .. N
    BY <1>1 DEF Column
  <1>3. \A c \in Column : CellText(shown, c) \in Seq(T)
    BY CellTextType
  <1>4. parts \in Seq(Seq(T)) /\ Len(parts) = N
    <2>1. parts \in [1 .. N -> Seq(T)]
      BY <1>2, <1>3
    <2> HIDE DEF parts
    <2> QED
      BY <2>1
  <1>5. PICK flat : Flat(flat, parts, T) /\ FlattenSeq(parts) = flat[N]
    <2>1. PICK q : q = parts
      OBVIOUS
    <2>2. q \in Seq(Seq(T)) /\ Len(q) = N /\ N > 0
      BY <1>1, <1>4, <2>1
    <2>3. \E flat : Flat(flat, q, T) /\ FlattenSeq(q) = flat[Len(q)]
      BY <2>2, FlattenedByParts
    <2> HIDE DEF parts
    <2> QED
      BY <2>1, <2>2, <2>3
  <1> DEFINE texts == flat[N]
             w == [c \in 0 .. N |-> ReadTo(shown, c, EndOf(flat, c))]
             step(g, c) == IF c = 0 THEN [index |-> 1, cells |-> <<>>]
                                    ELSE ReadCell(g[c - 1], texts, c)
  <1>6. ASSUME NEW c \in 1 .. N
        PROVE  ReadCell(w[c - 1], texts, c) = w[c]
    <2>1. PICK q : q = parts
      OBVIOUS
    <2>2. /\ q \in Seq(Seq(T)) /\ Len(q) = N /\ Flat(flat, q, T) /\ q[c] = CellText(shown, c)
          /\ c \in Column
      BY <1>2, <1>4, <1>5, <2>1
    <2>3. c \in 1 .. Len(q)
      BY <2>2
    <2>4. /\ EndOf(flat, c - 1) \in Nat
          /\ EndOf(flat, c) = EndOf(flat, c - 1) + Len(q[c])
          /\ Behind(flat[Len(q)], EndOf(flat, c - 1), q[c])
      <3>1. q \in Seq(Seq(T)) /\ Flat(flat, q, T)
        BY <2>2
      <3> HIDE DEF parts, w, step, texts
      <3> QED
        BY <2>3, <3>1, TextsOfColumn
    <2>5. PICK e \in Nat : e = EndOf(flat, c - 1)
      BY <2>4
    <2>6. /\ EndOf(flat, c) = e + Len(CellText(shown, c))
          /\ Behind(texts, e, CellText(shown, c))
      BY <2>2, <2>4, <2>5
    <2> HIDE DEF texts, w, step, parts
    <2>7. ReadCell(ReadTo(shown, c - 1, e), texts, c)
            = ReadTo(shown, c, e + Len(CellText(shown, c)))
      BY <2>2, <2>6, CellIsRead
    <2>8. c - 1 \in 0 .. N /\ c \in 0 .. N
      OBVIOUS
    <2>9. w[c - 1] = ReadTo(shown, c - 1, e)
      BY <2>5, <2>8 DEF w
    <2>10. w[c] = ReadTo(shown, c, e + Len(CellText(shown, c)))
      BY <2>6, <2>8 DEF w
    <2> QED
      BY <2>7, <2>9, <2>10
  <1>7. w[0] = [index |-> 1, cells |-> <<>>]
    BY <1>1 DEF EndOf, CellsTo, ReadTo
  <1>8. ASSUME NEW c \in 0 .. N
        PROVE  w[c] = step(w, c)
    <2>1. c # 0 => c \in 1 .. N
      OBVIOUS
    <2> HIDE DEF w
    <2> QED
      BY <1>6, <1>7, <2>1
  <1>9. w = [c \in 0 .. N |-> step(w, c)]
    <2>1. w = [c \in 0 .. N |-> w[c]]
      OBVIOUS
    <2> HIDE DEF w, step
    <2> QED
      BY <1>8, <2>1
  <1> DEFINE f == CHOOSE g : g = [c \in 0 .. N |-> step(g, c)]
  <1>10. f = [c \in 0 .. N |-> step(f, c)]
    <2> HIDE DEF step, w
    <2> QED
      BY <1>9
  <1>11. ZCells(texts) = f[N].cells
    BY <1>1 DEF ZCells
  <1> HIDE DEF f
  <1>12. \A c \in 0 .. N : f[c] = step(f, c)
    <2> HIDE DEF step
    <2> QED
      BY <1>10
  <1> DEFINE S == {n \in Nat : n <= N => f[n] = w[n]}
  <1>13. 0 \in S
    <2>1. 0 \in 0 .. N
      OBVIOUS
    <2> HIDE DEF w
    <2>2. f[0] = step(f, 0) /\ w[0] = step(w, 0)
      <3> HIDE DEF step
      <3> QED
        BY <1>8, <1>12, <2>1
    <2>3. step(f, 0) = step(w, 0)
      OBVIOUS
    <2> HIDE DEF step
    <2> QED
      BY <2>2, <2>3
  <1>14. ASSUME NEW n \in Nat, n \in S
         PROVE  n + 1 \in S
    <2> SUFFICES ASSUME n + 1 <= N
                 PROVE  f[n + 1] = w[n + 1]
      OBVIOUS
    <2>1. PICK k : k = n + 1
      OBVIOUS
    <2>2. k \in 0 .. N /\ k # 0 /\ k - 1 = n /\ n <= N
      BY <2>1
    <2> HIDE DEF w
    <2>3. f[n] = w[n]
      BY <1>14, <2>2
    <2>4. f[k] = step(f, k) /\ w[k] = step(w, k)
      <3> HIDE DEF step
      <3> QED
        BY <1>8, <1>12, <2>2
    <2>5. step(f, k) = ReadCell(f[n], texts, k) /\ step(w, k) = ReadCell(w[n], texts, k)
      BY <2>2
    <2> HIDE DEF step, texts
    <2> QED
      BY <2>1, <2>3, <2>4, <2>5
  <1>15. N \in S
    <2> HIDE DEF S
    <2> QED
      BY <1>13, <1>14, NumbersOneByOne
  <1>16. f[N] = w[N]
    BY <1>15
  <1>17. w[N].cells = CellsTo(shown, N)
    BY <1>1 DEF ReadTo
  <1>18. CellsTo(shown, N) = shown
    BY <1>2 DEF CellsTo
  <1> HIDE DEF w, parts
  <1> QED
    BY <1>5, <1>11, <1>16, <1>17, <1>18 DEF parts

(* The row of a script, from the texts of getRow. *)
LEMMA ScriptRow ==
  ASSUME TableIInv, queried # Mixed, isInitialized, NEW content \in Contents,
         NEW r \in 0 .. numRows - 1
  PROVE  /\ ZRow(content, r).number = r
         /\ ZRow(content, r).since = queried[r + 1].number
         /\ ZRow(content, r).till = queried[r + 1].number
         /\ ZRow(content, r).cells = [c \in Column |-> Shown(content, queried[r + 1], c)]
  <1>1. PICK row : row = queried[r + 1]
    OBVIOUS
  <1>2. QueriedRowsComeBack
    BY QueriedRows
  <1>3. GetRow(r) = row.cells /\ \A e \in End : GetTime(e, r) = row.number
    BY <1>1, <1>2 DEF QueriedRowsComeBack
  <1>4. row.cells \in [Column -> CellValue]
    <2>1. /\ queried \in Seq(QueriedRow) /\ Len(queried) = numRows /\ numRows \in Nat
      BY DEF TableIInv, QueriedOK, ColumnsOK
    <2>2. r + 1 \in 1 .. Len(queried)
      BY <2>1
    <2>3. row \in QueriedRow
      BY <1>1, <2>1, <2>2, ElementOfSeq
    <2> QED
      BY <2>3 DEF QueriedRow
  <1>5. \A c \in Column : GetCell(c, r) = row.cells[c]
    BY <1>3 DEF GetRow
  <1> DEFINE T == Nat \cup CellValue \cup UNION {Range(content[v]) : v \in Value}
             shown == [c \in Column |-> Shown(content, row, c)]
  <1>6. ASSUME NEW c \in Column
        PROVE  /\ Shown(content, row, c) \in Seq(T)
               /\ IsArray(c) \/ Len(Shown(content, row, c)) = 1
    <2>1. PICK v : v = row.cells[c]
      OBVIOUS
    <2>2. v \in CellValue
      BY <1>4, <2>1
    <2>3. v \in T
      BY <2>2
    <2>4. <<v>> \in Seq(T) /\ Len(<<v>>) = 1
      <3> HIDE DEF T
      <3> QED
        BY <2>3
    <2>5. CASE IsArray(c)
      <3>1. Shown(content, row, c) = Elements(content, v)
        BY <2>1, <2>5 DEF Shown
      <3>2. CASE v = NullText
        BY <2>4, <2>5, <3>1, <3>2 DEF Elements
      <3>3. CASE v # NullText
        <4>1. v \in Value
          BY <2>2, <3>3 DEF CellValue
        <4>2. PICK s : s = content[v]
          OBVIOUS
        <4>3. s \in Seq(Range(s))
          BY <4>1, <4>2, ContentsAssumption
        <4>4. Range(s) \subseteq T
          BY <4>1, <4>2
        <4>5. s \in Seq(T)
          <5> HIDE DEF T
          <5> QED
            BY <4>3, <4>4, SeqMonotonic
        <4> QED
          BY <2>5, <3>1, <3>3, <4>2, <4>5 DEF Elements
      <3> QED
        BY <3>2, <3>3
    <2>6. CASE ~IsArray(c)
      <3>1. Shown(content, row, c) = <<v>>
        BY <2>1, <2>6 DEF Shown
      <3> QED
        BY <2>4, <3>1
    <2> QED
      BY <2>5, <2>6
  <1>7. ASSUME NEW c \in Column
        PROVE  CellText(shown, c) = LET v == GetCell(c, r)  a == Elements(content, v)
                                    IN  IF IsArray(c) THEN <<Len(a)>> \o a ELSE <<v>>
    BY <1>5 DEF CellText, Shown
  <1>8. RowTexts(content, r) = FlattenSeq([c \in Column |-> CellText(shown, c)])
    <2>1. [c \in Column |-> CellText(shown, c)]
            = [c \in Column |-> LET v == GetCell(c, r)  a == Elements(content, v)
                                IN  IF IsArray(c) THEN <<Len(a)>> \o a ELSE <<v>>]
      <3> HIDE DEF shown
      <3> QED
        BY <1>7
    <2> QED
      BY <2>1 DEF RowTexts
  <1>9. ZCells(RowTexts(content, r)) = shown
    <2>1. shown \in [Column -> Seq(T)] /\ \A c \in Column : IsArray(c) \/ Len(shown[c]) = 1
      <3> HIDE DEF T
      <3> QED
        BY <1>6
    <2>2. Nat \subseteq T
      OBVIOUS
    <2> HIDE DEF shown, T
    <2> QED
      BY <1>8, <2>1, <2>2, CellsAreReadBackFromTexts
  <1>10. ZRow(content, r) = [number |-> r, since |-> row.number, till |-> row.number,
                             cells |-> shown]
    <2>1. GetTime("since", r) = row.number /\ GetTime("till", r) = row.number
      BY <1>3 DEF End
    <2> HIDE DEF shown
    <2> QED
      BY <1>9, <2>1 DEF ZRow
  <1> QED
    BY <1>1, <1>10

(* The rows of a page that lies in the table. *)
LEMMA RowsOfPage ==
  ASSUME numRows \in Nat, NEW content, NEW a \in 0 .. numRows - 1, NEW b \in a .. numRows - 1
  PROVE  LET rows == ZTable(content, <<a, b>>).rows
         IN  /\ Len(rows) = b - a + 1 /\ DOMAIN rows = 1 .. b - a + 1 /\ rows # <<>>
             /\ \A i \in 1 .. b - a + 1 : rows[i] = ZRow(content, a + i - 1)
  <1>1. PICK n \in Nat : n = b - a + 1 /\ n # 0
    OBVIOUS
  <1>2. numRows # 0
    OBVIOUS
  <1> DEFINE rows == [i \in 1 .. n |-> ZRow(content, a + i - 1)]
  <1>3. ZTable(content, <<a, b>>).rows = rows
    BY <1>1, <1>2 DEF ZTable
  <1>4. DOMAIN rows = 1 .. n /\ \A i \in 1 .. n : rows[i] = ZRow(content, a + i - 1)
    OBVIOUS
  <1>5. Len(rows) = n
    BY <1>1
  <1>6. rows # <<>>
    <2>1. 1 \in DOMAIN rows
      BY <1>1
    <2> HIDE DEF rows
    <2> QED
      BY <2>1, NoColumns
  <1> HIDE DEF rows
  <1> QED
    BY <1>1, <1>3, <1>4, <1>5, <1>6

(* A page lies in a table that has rows, and is the page asked for if there is
   one like it. *)
LEMMA IntervalInTable ==
  ASSUME numRows \in Nat, numRows > 0, NEW from \in Int, NEW to \in Int
  PROVE  \E a \in 0 .. numRows - 1 : \E b \in a .. numRows - 1 :
           /\ GetInterval(from, to, numRows) = <<a, b>>
           /\ 0 <= from /\ from <= to /\ to < numRows => a = from /\ b = to
  <1>1. PICK a : a = IF from < 0 \/ from > numRows - 1 THEN 0 ELSE from
    OBVIOUS
  <1>2. PICK b : b = IF a > to \/ to > numRows - 1 THEN numRows - 1 ELSE to
    OBVIOUS
  <1>3. a \in 0 .. numRows - 1
    BY <1>1
  <1>4. b \in a .. numRows - 1
    BY <1>2, <1>3
  <1>5. GetInterval(from, to, numRows) = <<a, b>>
    BY <1>1, <1>2 DEF GetInterval
  <1>6. 0 <= from /\ from <= to /\ to < numRows => a = from /\ b = to
    BY <1>1, <1>2
  <1> QED
    BY <1>3, <1>4, <1>5, <1>6

(* A script is shown the rows of the database that the query returned
   (cond_to_z_table), whatever page it asks for and however long the arrays in
   them are, although the texts of getRow do not say where a cell ends. *)
THEOREM ScriptsSeeQueriedRows == Spec => []ShowsQueriedRows
  <1>1. ASSUME TableIInv
        PROVE  ShowsQueriedRows
    <2> SUFFICES ASSUME queried # Mixed, isInitialized, NEW content \in Contents
                 PROVE  /\ Len(WholeTable(content).rows) = numRows
                        /\ \A from, to \in Argument :
                             PageShown(content, TablePage(content, from, to).rows, from, to)
      BY <1>1, QueriedRows DEF ShowsQueriedRows, PageShown
    <2>1. numRows \in Nat
      BY <1>1 DEF TableIInv, ColumnsOK
    <2>2. Len(WholeTable(content).rows) = numRows
      <3>1. CASE numRows = 0
        <4>1. WholeTable(content).rows = <<>>
          BY <3>1 DEF WholeTable, ZTable
        <4> QED
          BY <3>1, <4>1
      <3>2. CASE numRows # 0
        <4>1. PICK last : last = numRows - 1
          OBVIOUS
        <4>2. 0 \in 0 .. numRows - 1 /\ last \in 0 .. numRows - 1 /\ last - 0 + 1 = numRows
          BY <2>1, <3>2, <4>1
        <4>3. Len(ZTable(content, <<0, last>>).rows) = last - 0 + 1
          BY <2>1, <4>2, RowsOfPage
        <4> QED
          BY <4>1, <4>2, <4>3 DEF WholeTable
      <3> QED
        BY <3>1, <3>2
    <2>3. ASSUME NEW from \in Argument, NEW to \in Argument, NEW rows,
                 rows = TablePage(content, from, to).rows
          PROVE  PageShown(content, rows, from, to)
      <3>1. from \in Int /\ to \in Int
        BY BoundsAssumption DEF Argument
      <3>2. CASE numRows = 0
        <4>1. rows = <<>>
          BY <2>3, <3>2 DEF TablePage, ZTable
        <4>2. DOMAIN rows = {}
          BY <4>1, NoColumns
        <4>3. ~(0 <= from /\ from <= to /\ to < numRows) /\ ~(numRows > 0)
          BY <3>1, <3>2
        <4> QED
          BY <4>2, <4>3 DEF PageShown
      <3>3. CASE numRows # 0
        <4>1. numRows > 0
          BY <2>1, <3>3
        <4>2. PICK a \in 0 .. numRows - 1 : \E b \in a .. numRows - 1 :
                /\ GetInterval(from, to, numRows) = <<a, b>>
                /\ 0 <= from /\ from <= to /\ to < numRows => a = from /\ b = to
          BY <2>1, <3>1, <4>1, IntervalInTable
        <4>3. PICK b \in a .. numRows - 1 :
                /\ GetInterval(from, to, numRows) = <<a, b>>
                /\ 0 <= from /\ from <= to /\ to < numRows => a = from /\ b = to
          BY <4>2
        <4>4. rows = ZTable(content, <<a, b>>).rows
          BY <2>3, <4>3 DEF TablePage
        <4>5. /\ Len(rows) = b - a + 1 /\ DOMAIN rows = 1 .. b - a + 1 /\ rows # <<>>
              /\ \A i \in 1 .. b - a + 1 : rows[i] = ZRow(content, a + i - 1)
          BY <2>1, <4>4, RowsOfPage
        <4>6. ASSUME NEW i \in 1 .. b - a + 1
              PROVE  /\ rows[i].number = a + i - 1
                     /\ rows[i].since = queried[a + i].number
                     /\ rows[i].till = queried[a + i].number
                     /\ rows[i].cells = [c \in Column |-> Shown(content, queried[a + i], c)]
          <5>1. PICK r \in 0 .. numRows - 1 : r = a + i - 1 /\ r + 1 = a + i
            BY <2>1
          <5>2. rows[i] = ZRow(content, r)
            BY <4>5, <5>1
          <5>3. /\ ZRow(content, r).number = r
                /\ ZRow(content, r).since = queried[r + 1].number
                /\ ZRow(content, r).till = queried[r + 1].number
                /\ ZRow(content, r).cells = [c \in Column |-> Shown(content, queried[r + 1], c)]
            BY <1>1, ScriptRow
          <5> QED
            BY <5>1, <5>2, <5>3
        <4>7. rows[1].number = a
          <5>1. 1 \in 1 .. b - a + 1 /\ a + 1 - 1 = a
            BY <2>1
          <5> QED
            BY <4>6, <5>1
        <4>8. ASSUME 0 <= from, from <= to, to < numRows
              PROVE  Len(rows) = to - from + 1 /\ rows[1].number = from
          BY <4>3, <4>5, <4>7, <4>8
        <4>9. ASSUME NEW i \in DOMAIN rows
              PROVE  LET r == rows[i].number  row == queried[r + 1]
                     IN  /\ r = rows[1].number + i - 1
                         /\ <<rows[i].since, rows[i].till>> = <<row.number, row.number>>
                         /\ rows[i].cells = [c \in Column |-> Shown(content, row, c)]
          <5>1. i \in 1 .. b - a + 1
            BY <4>5
          <5>2. PICK r : r = rows[i].number
            OBVIOUS
          <5>3. r = a + i - 1 /\ r + 1 = a + i
            <6>1. rows[i].number = a + i - 1
              BY <4>6, <5>1
            <6>2. r = a + i - 1
              BY <5>2, <6>1
            <6> QED
              BY <5>1, <6>2
          <5>4. r = rows[1].number + i - 1
            BY <4>7, <5>3
          <5>5. /\ rows[i].since = queried[r + 1].number
                /\ rows[i].till = queried[r + 1].number
                /\ rows[i].cells = [c \in Column |-> Shown(content, queried[r + 1], c)]
            BY <4>6, <5>1, <5>3
          <5> QED
            BY <5>2, <5>4, <5>5
        <4> QED
          BY <4>5, <4>8, <4>9 DEF PageShown
      <3> QED
        BY <3>2, <3>3
    <2>4. ASSUME NEW from \in Argument, NEW to \in Argument
          PROVE  PageShown(content, TablePage(content, from, to).rows, from, to)
      <3>1. PICK rows : rows = TablePage(content, from, to).rows
        OBVIOUS
      <3> QED
        BY <2>3, <3>1
    <2> QED
      BY <2>2, <2>4
  <1> QED
    BY <1>1, TableIsConsistent, PTL
=============================================================================
