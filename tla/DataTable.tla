------------------------------ MODULE DataTable ------------------------------
(***************************************************************************)
(* CondDBTable, the table in memory that programs fill and store, and that *)
(* queries fill (MySqlOnlineMgr::makeTable and getSchema).                 *)
(*                                                                         *)
(* A column is a vector whose first element is the column's null value;    *)
(* row r is the element r + 1, and a column may be shorter than the table. *)
(* The twelve data types differ in conversion only; they are taken by kind *)
(* here: numbers, bool (its null value is fixed), string (the text NULL is *)
(* a value), and arrays (a cell is an array; all of it is one value here). *)
(* A call that returns an error code changes nothing and is left out.      *)
(*                                                                         *)
(* Left out because their behaviour is undefined: setNull of a BIGINT      *)
(* column with a text and of an array of doubles with a double, which      *)
(* write through a pointer of the wrong type, and a change of a time in    *)
(* any row but the first while there are no times.                         *)
(***************************************************************************)
EXTENDS Integers, SequencesExt

CONSTANTS
  Schema,      \* the types of the columns of the table in the database
  AppType,     \* the types programs give columns themselves
  Value,       \* the values cells are given
  NullText,    \* the text NULL, and the null value of a new column
  MaxRows,     \* bound: rows of the table
  MaxCalls     \* bound: calls that change data, times or null values

Type == {"number", "bool", "string", "array"}

ASSUME SchemaAssumption == /\ Schema \in Seq(Type) /\ Schema # <<>>
                           /\ AppType \subseteq Type
ASSUME ValueAssumption  == NullText \notin Value
ASSUME BoundsAssumption == MaxRows \in Nat /\ MaxCalls \in Nat

VARIABLES
  cols,        \* conddbtable: the columns
  numRows,     \* the number of rows allocated
  isInitialized,
  times,       \* ti and tf: the times of the rows
  expected,    \* history: what each cell was last given
  inOrder,     \* history: every row was filled after the rows before it
  queried,     \* history: the rows queries returned, while there are no other
  calls        \* calls so far

vars == <<cols, numRows, isInitialized, times, expected, inOrder, queried, calls>>

Blank == [named |-> FALSE, type |-> "none", initialized |-> FALSE, cells |-> <<>>]
Blanks(n) == [c \in 1 .. n |-> Blank]

Column == 1 .. Len(Schema)
Row    == 0 .. MaxRows - 1
Unset  == "unset"
End    == {"since", "till"}
Mixed  == <<[number |-> NullText, cells |-> <<>>]>>

Call == calls < MaxCalls /\ calls' = calls + 1

NullOf(col) == col.cells[1]

(* The text NULL stands for the null value, but in a string column. *)
Converted(col, v) == IF v = NullText /\ col.type # "string" THEN NullOf(col) ELSE v

-----------------------------------------------------------------------------
(* The columns get names and types.  setType makes a new column object; when
   it has no name yet its flag initialized is not set to anything. *)

Init ==
  /\ cols \in {<<>>, Blanks(Len(Schema))}
  /\ numRows = 0
  /\ isInitialized = FALSE
  /\ times = [e \in End |-> <<>>]
  /\ expected = [c \in Column |-> [r \in Row |-> Unset]]
  /\ inOrder = TRUE
  /\ queried = <<>>
  /\ calls = 0

VerifyInitialization(cs) == isInitialized \/ \A c \in DOMAIN cs : cs[c].initialized

Initialize(rows) ==
  /\ cols = <<>> /\ ~isInitialized
  /\ cols' = Blanks(Len(Schema))
  /\ numRows' = numRows + rows
  /\ queried' = IF rows > 0 THEN Mixed ELSE queried
  /\ UNCHANGED <<isInitialized, times, expected, inOrder, calls>>

Named(col) == [col EXCEPT !.named = TRUE, !.initialized = @ \/ col.type # "none"]

SetName(c) ==
  /\ c \in DOMAIN cols /\ ~cols[c].named
  /\ cols' = [cols EXCEPT ![c] = Named(@)]
  /\ isInitialized' = IF cols[c].type # "none" THEN VerifyInitialization(cols')
                                               ELSE isInitialized
  /\ UNCHANGED <<numRows, times, expected, inOrder, queried, calls>>

Typed(col, t, flag) ==
  [col EXCEPT !.type = t, !.initialized = flag \/ col.named, !.cells = <<NullText>>]

SetType(c, t) ==
  /\ c \in DOMAIN cols /\ cols[c].type = "none"
  /\ \E flag \in BOOLEAN : cols' = [cols EXCEPT ![c] = Typed(@, t, flag)]
  /\ isInitialized' = IF cols[c].named THEN VerifyInitialization(cols')
                                       ELSE isInitialized
  /\ UNCHANGED <<numRows, times, expected, inOrder, queried, calls>>

WithNull(col, v) == IF col.type = "bool" THEN col ELSE [col EXCEPT !.cells[1] = v]

SetNull(c, v) ==
  /\ Call
  /\ isInitialized
  /\ cols' = [cols EXCEPT ![c] = WithNull(@, v)]
  /\ UNCHANGED <<numRows, isInitialized, times, expected, inOrder, queried>>

-----------------------------------------------------------------------------
(* Faulty: the new size replaces the old one. *)
GrownReplaced(n) == n

Grown(n) == numRows + n

Resize(n) ==
  /\ Call
  /\ Grown(n) <= MaxRows
  /\ numRows' = Grown(n)
  /\ queried' = Mixed
  /\ UNCHANGED <<cols, isInitialized, times, expected, inOrder>>

Padded(s, n) == s \o [i \in 1 .. n |-> Last(s)]

(* Faulty: the null value at the front is forgotten. *)
WrittenOneOff(s, r, v) ==
  IF Len(s) = r + 1 THEN Append(s, v)
  ELSE IF Len(s) < r + 1 THEN Append(Padded(s, r - Len(s)), v)
  ELSE [s EXCEPT ![r + 1] = v]

(* __setCell.  A row that skips others is padded one element short, so that
   its value lands in the row before it. *)
Written(s, r, v) ==
  IF Len(s) = r + 1 THEN Append(s, v)
  ELSE IF Len(s) < r + 1 THEN Append(Padded(s, r - Len(s)), v)
  ELSE [s EXCEPT ![r + 2] = v]

IsArray(c) == cols[c].type = "array"

Store(c, r, v) ==
  /\ r < numRows
  /\ cols' = [cols EXCEPT ![c].cells = Written(@, r, v)]
  /\ expected' = [expected EXCEPT ![c][r] = v]
  /\ inOrder' = (inOrder /\ Len(cols[c].cells) >= r + 1)
  /\ queried' = Mixed
  /\ UNCHANGED <<numRows, isInitialized, times>>

(* setCell with a value of the column's type or with a text, and with a
   vector for a column of arrays. *)
SetCell(c, r, v) ==
  Call /\ isInitialized /\ ~IsArray(c) /\ Store(c, r, Converted(cols[c], v))

SetArrayCell(c, r, v) ==
  Call /\ isInitialized /\ IsArray(c) /\ Store(c, r, Converted(cols[c], v))

(* Faulty: one value too many. *)
FittingOneMore(vs, free) == IF Len(vs) <= free + 1 THEN vs ELSE SubSeq(vs, 1, free + 1)

(* The values that are taken when so many rows are free. *)
Fitting(vs, free) == IF Len(vs) <= free THEN vs ELSE SubSeq(vs, 1, free)

Appended(col, vs, size) ==
  LET taken == Fitting(vs, size + 1 - Len(col.cells)) IN
  [col EXCEPT !.cells = @ \o [i \in DOMAIN taken |-> Converted(col, taken[i])]]

(* A column's rows before and after values were appended to it. *)
NowExpected(before, after, c) ==
  [expected EXCEPT ![c] = [r \in Row |-> IF r \in Len(before) - 1 .. Len(after) - 2
                                         THEN after[r + 2] ELSE @[r]]]

AppendData(c, vs) ==
  /\ cols' = [cols EXCEPT ![c] = Appended(@, vs, numRows)]
  /\ expected' = NowExpected(cols[c].cells, cols'[c].cells, c)
  /\ queried' = Mixed
  /\ UNCHANGED <<numRows, isInitialized, times, inOrder>>

(* setColumndata with a vector of values or texts, and with a vector of
   vectors; a vector of texts for a column of arrays is refused. *)
SetColumndata(c, vs) ==
  Call /\ isInitialized /\ ~IsArray(c) /\ AppendData(c, vs)

SetArrayColumndata(c, vs) ==
  Call /\ isInitialized /\ IsArray(c) /\ AppendData(c, vs)

-----------------------------------------------------------------------------
(* The times of the rows: ti and tf are handled alike. *)

SetTime(e, ts) ==
  /\ Call
  /\ isInitialized /\ Len(times[e]) < numRows
  /\ times' = [times EXCEPT ![e] = @ \o Fitting(ts, numRows - Len(@))]
  /\ queried' = Mixed
  /\ UNCHANGED <<cols, numRows, isInitialized, expected, inOrder>>

ChangeTime(e, r, t) ==
  /\ Call
  /\ isInitialized /\ r < numRows
  /\ r > 0 => times[e] # <<>>
  /\ times' = [times EXCEPT ![e] = IF r >= Len(@)
                                   THEN Append(@ \o [i \in 1 .. r - Len(@) |-> Last(@)], t)
                                   ELSE [@ EXCEPT ![r + 1] = t]]
  /\ queried' = Mixed
  /\ UNCHANGED <<cols, numRows, isInitialized, expected, inOrder>>

-----------------------------------------------------------------------------
(* getSchema gives the columns that have none their types and names. *)
WithSchema ==
  [c \in Column |->
     LET col == IF cols = <<>> THEN Blank ELSE cols[c] IN
     [Named(IF col.type = "none" THEN Typed(col, Schema[c], FALSE) ELSE col)
        EXCEPT !.initialized = TRUE]]

(* A row a query returns: its number stands for its times and its values, but
   for the columns in which it is NULL. *)
QueryRow == [number : Value, null : SUBSET Column]

CellOf(row, c) == IF c \in row.null THEN NullText ELSE row.number

(* makeTable with the rows of a result; the caller may name a null value for
   every column, which is set and replaces NULL. *)
MakeTable(rows, nullValues) ==
  LET schema  == WithSchema
      nulls   == IF nullValues = {} THEN schema
                 ELSE [c \in Column |-> WithNull(schema[c], CHOOSE v \in nullValues : TRUE)]
      given   == [c \in Column |-> [i \in DOMAIN rows |->
                    IF c \in rows[i].null /\ nullValues # {}
                    THEN CHOOSE v \in nullValues : TRUE ELSE CellOf(rows[i], c)]]
      filled  == [c \in Column |-> Appended(nulls[c], given[c], Grown(Len(rows)))]
      numbers == [i \in DOMAIN rows |-> rows[i].number]
  IN
  /\ Call
  /\ numRows + Len(rows) <= MaxRows
  /\ numRows' = Grown(Len(rows))
  /\ cols' = filled
  /\ isInitialized' = TRUE
  /\ times' = [e \in End |-> times[e] \o Fitting(numbers, numRows' - Len(times[e]))]
  /\ expected' = [c \in Column |->
                    NowExpected(nulls[c].cells, filled[c].cells, c)[c]]
  /\ queried' = IF queried = Mixed THEN Mixed
                ELSE queried \o [i \in DOMAIN rows |->
                       [number |-> rows[i].number,
                        cells |-> [c \in Column |-> Converted(nulls[c], given[c][i])]]]
  /\ UNCHANGED inOrder

Next ==
  \/ \E n \in 0 .. MaxRows : Initialize(n)
  \/ \E n \in 1 .. MaxRows : Resize(n)
  \/ \E c \in Column :
       \/ SetName(c)
       \/ \E t \in AppType : SetType(c, t)
       \/ \E v \in Value : \/ SetNull(c, v)
                           \/ \E w \in Value \cup {NullText} :
                                SetColumndata(c, <<v, w>>) \/ SetArrayColumndata(c, <<v, w>>)
       \/ \E r \in Row, v \in Value \cup {NullText} : SetCell(c, r, v) \/ SetArrayCell(c, r, v)
  \/ \E e \in End : \/ \E t, u \in Value : SetTime(e, <<t>>) \/ SetTime(e, <<t, u>>)
                    \/ \E r \in Row, t \in Value : ChangeTime(e, r, t)
  \/ \E first \in QueryRow :
       \/ \E nullValues \in {{}} \cup {{v} : v \in Value} : MakeTable(<<first>>, nullValues)
       \/ \E second \in QueryRow : MakeTable(<<first, second>>, {})

Spec == Init /\ [][Next]_vars
-----------------------------------------------------------------------------
(* getCell and getSinceTime: what they return, or "undefined" when they read
   behind the end of a vector. *)
GetCell(c, r) ==
  LET s == cols[c].cells IN
  IF Len(s) <= r THEN Last(s) ELSE IF Len(s) = r + 1 THEN "undefined" ELSE s[r + 2]

(* getRow, the texts of which storeOnl, storeOnlId and storeVer store. *)
GetRow(r) == [c \in Column |-> GetCell(c, r)]

GetTime(e, r) == IF r < Len(times[e]) THEN times[e][r + 1] ELSE "undefined"

(* No vector is longer than the table, and once the table counts as
   initialized every column is of the class its accesses cast it to, although
   an uninitialized flag takes part in the decision. *)
TableInv ==
  /\ isInitialized => \A c \in Column : cols[c].type \in Type /\ cols[c].cells # <<>>
  /\ \A c \in DOMAIN cols : Len(cols[c].cells) <= numRows + 1
  /\ \A e \in End : Len(times[e]) <= numRows

(* Whatever the order of single cells, whole columns and queries, a cell has
   the value it was last given, if no call skipped a row. *)
CellsReadBack ==
  inOrder => \A c \in Column, r \in Row :
               expected[c][r] # Unset => GetCell(c, r) = expected[c][r]
=============================================================================
