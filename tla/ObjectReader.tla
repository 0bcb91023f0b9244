----------------------------- MODULE ObjectReader -----------------------------
(***************************************************************************)
(* Reading objects while others store and tag them: the queries of         *)
(* MySqlObjectMgr, the methods of CondDBDataAccess over them, and          *)
(* CondDBDataIterator over a MySqlResult.                                  *)
(*                                                                         *)
(* A query is one SELECT.  It waits while a client holds the locks, and    *)
(* its rows are copied to the reader at once (mysql_store_result), in any  *)
(* order: no query has an ORDER BY.  What the reader does next is done on  *)
(* that copy through two positions: that of the iterator, and that of the  *)
(* result, which fetches its row when a field of it is first asked for.    *)
(***************************************************************************)
EXTENDS TaggedStore, SequencesExt

CONSTANTS
  Default      \* intervals of the objects callers pass to be improved on

ASSUME DefaultAssumption == Default \subseteq Interval

VARIABLES
  asked,       \* what the iterator was opened for
  result,      \* the rows of its MySqlResult, none when there is none
  res,         \* the position of MySqlResult: rpos, MySQL's cursor, row
  currpos,     \* the position of CondDBDataIterator
  out,         \* the row the last object handed out was made from
  synced,      \* history: that object was asked for by a call that seeks, or
               \* by next after such a call
  search,      \* a running findNextValid or findLastValid
  found        \* its parameter oblock: the set of the object it points to

readerVars == <<asked, result, res, currpos, out, synced, search, found>>
systemVars == <<allVars, readerVars>>

-----------------------------------------------------------------------------
(* The queries.  A version is HEAD or a tag.  Each row is joined with its
   object in the key table. *)

Version == {"HEAD"} \cup Tag

Rows(v) == IF v = "HEAD" THEN headTbl ELSE BagToSet(tagRows[v])

Find(v, p) == {r \in Rows(v) : Covers(r, p)}

BrowseTagged(v) == Rows(v)

(* Faulty: objects that only touch the interval are returned. *)
BrowseHistoryClosed(v, i) == {r \in Rows(v) : r.since <= i.till /\ r.till >= i.since}

BrowseHistory(v, i) == {r \in Rows(v) : r.since < i.till /\ r.till > i.since}

BrowseAll == {[obj |-> k.obj, since |-> k.since, till |-> k.till] : k \in keyTbl}

(* BETWEEN includes both ends. *)
BrowseAtPoint(p) == {k \in BrowseAll : k.since <= p /\ p <= k.till}

BrowseInInterval(i) ==
  {k \in BrowseAll : \/ i.since <= k.since /\ k.since <= i.till
                     \/ i.since <= k.till /\ k.till <= i.till}

-----------------------------------------------------------------------------
(* MySqlResult.  Row -1 is the null pointer. *)

NoRow == -1
Opened == [rpos |-> 0, cursor |-> 0, row |-> NoRow]

(* Faulty: the row that was fetched before is kept. *)
SeekKeepRow(k, pos) ==
  IF pos < Len(result) THEN [k EXCEPT !.rpos = pos, !.cursor = pos] ELSE k

Seek(k, pos) ==
  IF pos < Len(result) THEN [rpos |-> pos, cursor |-> pos, row |-> NoRow] ELSE k

(* nextRow moves its own position, and leaves MySQL's where it is. *)
NextResultRow(k) ==
  IF k.rpos < Len(result) - 1 THEN [k EXCEPT !.rpos = @ + 1, !.row = NoRow] ELSE k

(* getField: mysql_fetch_row returns the row at the cursor and moves on. *)
GetField(k) ==
  IF k.row = NoRow THEN [k EXCEPT !.row = k.cursor, !.cursor = @ + 1] ELSE k

-----------------------------------------------------------------------------
(* CondDBDataIterator.  A CondDBObject is made from the row that is current
   in the result. *)

(* Faulty: off by one. *)
HasNextTooFar == currpos < Len(result)

HasNext == currpos < Len(result) - 1

HasPrevious == currpos > 0

HandOut(k) ==
  /\ res' = GetField(k)
  /\ out' = res'.row

Current ==
  /\ HandOut(Seek(res, currpos))
  /\ synced' = TRUE
  /\ UNCHANGED currpos

Previous ==
  /\ HasPrevious
  /\ currpos' = currpos - 1
  /\ HandOut(Seek(res, currpos - 1))
  /\ synced' = TRUE

(* next does not seek: it relies on the call before it. *)
NextObject ==
  /\ HasNext
  /\ currpos' = currpos + 1
  /\ HandOut(NextResultRow(res))
  /\ UNCHANGED synced

GoTo(pos) ==
  /\ currpos' = pos
  /\ res' = Seek(res, pos)
  /\ out' = NoRow
  /\ synced' = FALSE

GoToFirst == GoTo(0)

GoToLast == GoTo(Len(result) - 1)

-----------------------------------------------------------------------------
NoSearch == [dir |-> "none", point |-> 0]
Nothing  == [from |-> "nowhere", points |-> {}]

ReaderInit ==
  /\ TaggingInit
  /\ asked = Nothing /\ result = <<>> /\ res = Opened /\ currpos = 0
  /\ out = NoRow /\ synced = FALSE /\ search = NoSearch /\ found = {}

(* Faulty: the SELECT does not wait. *)
SelectDirty(rows, what) ==
  /\ asked = Nothing
  /\ rows # {}
  /\ asked' = what
  /\ result' \in SetToSeqs(rows)
  /\ res' = Opened /\ currpos' = 0

(* A SELECT; without rows no iterator is made, whether the method then
   throws (browseObjectsInTag) or returns. *)
Select(rows, what) ==
  /\ asked = Nothing
  /\ lock = Nobody
  /\ rows # {}
  /\ asked' = what
  /\ result' \in SetToSeqs(rows)
  /\ res' = Opened /\ currpos' = 0

OpenIterator(rows, what) ==
  /\ Select(rows, what)
  /\ out' = NoRow /\ synced' = FALSE
  /\ UNCHANGED <<allVars, search, found>>

PointsOf(i) == {p \in Time : Covers(i, p)}

BrowseObjectsInTag(v) == OpenIterator(BrowseTagged(v), [from |-> v, points |-> Time])

BrowseObjectsHistory(v, i) ==
  OpenIterator(BrowseHistory(v, i), [from |-> v, points |-> PointsOf(i)])

BrowseAllObjects == OpenIterator(BrowseAll, [from |-> "all", points |-> Time])

BrowseObjectsAtPoint(p) ==
  OpenIterator(BrowseAtPoint(p), [from |-> "all", points |-> {p}])

BrowseObjectsInInterval(i) ==
  OpenIterator(BrowseInInterval(i), [from |-> "all", points |-> PointsOf(i)])

(* The program calls a method of its iterator, in any order. *)
Iterating == asked # Nothing /\ search = NoSearch

CallIterator ==
  /\ Iterating
  /\ Current \/ Previous \/ NextObject \/ GoToFirst \/ GoToLast
  /\ UNCHANGED <<allVars, asked, result, search, found>>

(* The iterator is deleted. *)
Forget ==
  /\ asked' = Nothing /\ result' = <<>> /\ res' = Opened /\ currpos' = 0
  /\ out' = NoRow /\ synced' = FALSE /\ search' = NoSearch /\ found' = {}
  /\ UNCHANGED allVars

DeleteIterator == Iterating /\ Forget

-----------------------------------------------------------------------------
(* findNextValidCondDBObject and findLastValidCondDBObject: the object that
   begins next after a point, or ended last before it, and is better than the
   one the caller has.  They walk through all of the version. *)

(* Faulty: the object found before, or the default, is not compared. *)
ImprovesAnyway(r) ==
  IF search.dir = "next" THEN r.since > search.point ELSE r.till < search.point

Improves(r) ==
  IF search.dir = "next"
  THEN r.since > search.point /\ \A f \in found : r.since < f.since
  ELSE r.till < search.point /\ \A f \in found : r.till > f.till

Keep(r) == found' = IF Improves(r) THEN {r} ELSE found

(* The caller's object must not be valid at the point: what happens
   otherwise depends on a pointer that is no longer valid. *)
Usable(dir, p, i) == IF dir = "next" THEN i.since > p ELSE i.till < p

BeginSearch(dir, p, v) ==
  /\ Select(BrowseTagged(v), [from |-> v, points |-> Time])
  /\ search' = [dir |-> dir, point |-> p]
  /\ \/ found' = {}
     \/ \E i \in Default : /\ Usable(dir, p, i)
                           /\ found' = {[obj |-> 0, since |-> i.since, till |-> i.till]}
  /\ out' = NoRow /\ synced' = FALSE
  /\ UNCHANGED allVars

(* goToFirst and current come first, then next until there is none.  (No
   row is handed out from behind the last: ReaderInv.) *)
SearchOn ==
  /\ search # NoSearch
  /\ IF out = NoRow THEN Current ELSE NextObject
  /\ out' \in 0 .. Len(result) - 1
  /\ Keep(result[out' + 1])
  /\ UNCHANGED <<allVars, asked, result, search>>

EndSearch ==
  /\ search # NoSearch
  /\ out # NoRow /\ ~HasNext
  /\ Forget

ReaderStep ==
  \/ \E v \in Version : \/ BrowseObjectsInTag(v)
                        \/ \E i \in Interval : BrowseObjectsHistory(v, i)
                        \/ \E dir \in {"next", "last"}, p \in Time : BeginSearch(dir, p, v)
  \/ BrowseAllObjects
  \/ \E p \in Time : BrowseObjectsAtPoint(p)
  \/ \E i \in Interval : BrowseObjectsInInterval(i)
  \/ CallIterator \/ DeleteIterator \/ SearchOn \/ EndSearch

ReaderNext ==
  \/ TaggingNext /\ UNCHANGED readerVars
  \/ ReaderStep

ReaderSpec == ReaderInit /\ [][ReaderNext]_systemVars
-----------------------------------------------------------------------------
(* The positions stay inside the result, MySQL is never asked for the row
   after the last one (the pointer it returns for it is used unchecked), and
   the object handed out last is the one at the iterator's position or, when
   next was called without current before it, the one before. *)
ReaderInv ==
  /\ asked # Nothing => /\ currpos \in 0 .. Len(result) - 1
                        /\ res.rpos = currpos
  /\ res.row \in NoRow .. Len(result) - 1
  /\ out # NoRow => out \in {currpos - 1, currpos}

(* After current or previous each next hands out the row that follows, so a
   loop of them meets every row of the result once, although next leaves it
   to the result to have the right row. *)
NextIsSuccessor == synced => out = currpos

(* The loops find the object of the version that begins first after the
   point (ends last before it), or nothing when there is none and nothing
   better than the default; a lost or doubled row would show here. *)
Candidates ==
  {r \in ToSet(result) : IF search.dir = "next" THEN r.since > search.point
                                                ELSE r.till < search.point}

FindsNeighbour ==
  search # NoSearch /\ out # NoRow /\ ~HasNext =>
    /\ found = {} => Candidates = {}
    /\ \A f \in found : /\ f.obj # 0 => f \in Candidates
                        /\ \A r \in Candidates : IF search.dir = "next"
                                                 THEN f.since <= r.since
                                                 ELSE f.till >= r.till

(* Point queries and interval queries agree, though they are different SQL:
   browseHistory returns what findCondDBObject finds at the points of the
   interval and nothing else, and among the objects browseObjectsAtPoint
   returns are all that HEAD or any tag names there. *)
QueriesAgree ==
  lock = Nobody =>
    \A v \in Version :
      /\ \A i \in Interval : BrowseHistory(v, i) = UNION {Find(v, p) : p \in PointsOf(i)}
      /\ \A p \in Time : {r.obj : r \in Find(v, p)} \subseteq {k.obj : k \in BrowseAtPoint(p)}

(* What an iterator over HEAD goes through is one version of the folder, as
   it was after some number of stores, whatever is stored meanwhile.  An
   iterator over HEAD or a tag meets one object at a point, even when clients
   crash and while the tag is being applied. *)
ResultAt(p) == {r.obj : r \in {s \in ToSet(result) : Covers(s, p)}}

SnapshotConsistent ==
  asked.from # "all" =>
    /\ asked.from = "HEAD" /\ faults = 0 =>
         \E n \in 0 .. objSeq : \A p \in asked.points : ResultAt(p) = NewestAt(p, n)
    /\ \A p \in Time : \A a, b \in ResultAt(p) : a = b
=============================================================================
