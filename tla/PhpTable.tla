------------------------------- MODULE PhpTable -------------------------------
(***************************************************************************)
(* How the PHP binding (CondDBPHP.cxx) shows the table of a query: a page  *)
(* of its rows, whose cells it parses from the texts of getRow.            *)
(*                                                                         *)
(* getRow tells nothing of the ends of cells: the text of an array is its  *)
(* size and then its elements, so what is read for a cell depends on what  *)
(* was read for the cells before it.                                       *)
(***************************************************************************)
EXTENDS DataTable

CONSTANTS
  Contents     \* functions that give the elements of the arrays in Value

ASSUME ContentsAssumption ==
  \A content \in Contents :
    DOMAIN content = Value /\ \A v \in Value : content[v] \in Seq(Range(content[v]))

(* The null value of an array is an array with one null element. *)
Elements(content, v) == IF v = NullText THEN <<NullText>> ELSE content[v]

(* The texts of getRow. *)
RowTexts(content, r) ==
  FlattenSeq([c \in Column |->
    LET v == GetCell(c, r)  a == Elements(content, v)
    IN  IF IsArray(c) THEN <<Len(a)>> \o a ELSE <<v>>])

(* Faulty: the index moves over the size of an array only. *)
ReadSizeOnly(z, texts, c) ==
  [index |-> z.index + 1,
   cells |-> Append(z.cells,
     IF IsArray(c) THEN SubSeq(texts, z.index + 1, z.index + texts[z.index])
                   ELSE <<texts[z.index]>>)]

(* A cell is read from the text at the index, an array also from those behind
   it; the index is kept over cells. *)
ReadCell(z, texts, c) ==
  IF IsArray(c)
  THEN [index |-> z.index + 1 + texts[z.index],
        cells |-> Append(z.cells, SubSeq(texts, z.index + 1, z.index + texts[z.index]))]
  ELSE [index |-> z.index + 1, cells |-> Append(z.cells, <<texts[z.index]>>)]

(* The cells put together from the texts, column by column. *)
ZCells(texts) ==
  LET read[c \in 0 .. Len(Schema)] ==
        IF c = 0 THEN [index |-> 1, cells |-> <<>>] ELSE ReadCell(read[c - 1], texts, c)
  IN  read[Len(Schema)].cells

GetInterval(from, to, rows) ==
  LET first == IF from < 0 \/ from > rows - 1 THEN 0 ELSE from
  IN  <<first, IF first > to \/ to > rows - 1 THEN rows - 1 ELSE to>>

ZRow(content, r) ==
  [number |-> r, since |-> GetTime("since", r), till |-> GetTime("till", r),
   cells |-> ZCells(RowTexts(content, r))]

(* cond_to_z_table; page: the first and the last row. *)
ZTable(content, page) ==
  [ncolumns |-> Len(cols), nrows |-> numRows, types |-> [c \in Column |-> cols[c].type],
   rows |-> IF numRows = 0 THEN <<>>
            ELSE [i \in 1 .. page[2] - page[1] + 1 |-> ZRow(content, page[1] + i - 1)]]

Argument == -1 .. MaxRows

(* The calls of cdb_browse_tbl_tag, _point and _history without a page. *)
WholeTable(content) == ZTable(content, <<0, numRows - 1>>)

TablePage(content, from, to) == ZTable(content, GetInterval(from, to, numRows))
-----------------------------------------------------------------------------
Shown(content, row, c) ==
  IF IsArray(c) THEN Elements(content, row.cells[c]) ELSE <<row.cells[c]>>

(* A table that only queries have filled, several of them one after another,
   holds the rows they returned: row r of every column and both its times are
   of one row of the database, and no access to it is undefined. *)
QueriedRowsComeBack ==
  /\ numRows = Len(queried)
  /\ \A r \in 0 .. numRows - 1 :
       /\ GetRow(r) = queried[r + 1].cells
       /\ \A e \in End : GetTime(e, r) = queried[r + 1].number

(* What a script is shown of the page from row from to row to: rows of the
   table one after another, if it has any, with the times and the cells of the
   rows of the database, however long the arrays in them are; it is the page
   asked for if the table has one like it. *)
PageShown(content, rows, from, to) ==
  /\ numRows > 0 => rows # <<>>
  /\ 0 <= from /\ from <= to /\ to < numRows =>
       Len(rows) = to - from + 1 /\ rows[1].number = from
  /\ \A i \in DOMAIN rows :
       LET r == rows[i].number  row == queried[r + 1]
       IN  /\ r = rows[1].number + i - 1
           /\ <<rows[i].since, rows[i].till>> = <<row.number, row.number>>
           /\ rows[i].cells = [c \in Column |-> Shown(content, row, c)]

(* A script is shown the rows that the query returned, whatever page it asks
   for, in a table that only queries have filled. *)
ShowsQueriedRows ==
  queried # Mixed /\ isInitialized =>
    /\ QueriedRowsComeBack
    /\ \A content \in Contents :
         /\ Len(WholeTable(content).rows) = numRows
         /\ \A from, to \in Argument :
              PageShown(content, TablePage(content, from, to).rows, from, to)
=============================================================================
