---------------------------- MODULE VersionQueries ----------------------------
(***************************************************************************)
(* The queries on a folder of type STRUCTTAG: what CondDBDataAccess has    *)
(* MySqlOnlineMgr select from the tables of VersionStore.                  *)
(*                                                                         *)
(* Each is one SELECT, which waits while a client has the tables locked.   *)
(* What it finds is a row for each pair of a piece (a row of HEAD or of a  *)
(* tag, or an object) and a data row of its version.                       *)
(***************************************************************************)
EXTENDS VersionStore

(* What is found for the piece at a place: a row for each data row of the
   version that its object has.  A function gives the pieces, as headTbl. *)
PieceRows(pieces, n) ==
  UNION {{[place |-> n, since |-> pieces[n].since, till |-> pieces[n].till,
           dat |-> d.dat, call |-> d.call, row |-> d.row, layer |-> k.layer] :
            d \in {e \in dataTbl : e.dat = k.dat}} :
           k \in {j \in keyTbl : j.obj = pieces[n].obj}}

(* The join of pieces with the objects and the data, restricted to the pieces
   that a condition holds of. *)
Joined(pieces, Holds(_)) ==
  UNION {PieceRows(pieces, n) : n \in {m \in DOMAIN pieces : Holds(pieces[m])}}

(* The objects as pieces, by their numbers. *)
ObjectPieces == [o \in Objects |-> CHOOSE k \in keyTbl : k.obj = o]

FindTag(pieces, p) == Joined(pieces, LAMBDA r : Covers(r, p))

(* Faulty: > for >= in the third case. *)
TouchesAfter(r, since, till) ==
  \/ r.since < since /\ since < r.till
  \/ r.since < till /\ till < r.till
  \/ r.since > since /\ till >= r.since

Touches(r, since, till) ==
  \/ r.since < since /\ since < r.till
  \/ r.since < till /\ till < r.till
  \/ r.since >= since /\ till >= r.since

BrowseHist(pieces, since, till) == Joined(pieces, LAMBDA r : Touches(r, since, till))

(* BETWEEN takes the end of the validity in. *)
BrowsePoint(p) == Joined(ObjectPieces, LAMBDA r : r.since <= p /\ p <= r.till)

BrowseTag(pieces) == Joined(pieces, LAMBDA r : TRUE)

BrowseAll == Joined(ObjectPieces, LAMBDA r : TRUE)

(* The calls of CondDBDataAccess, without a tag. *)
FindCondDBObject(p)        == FindTag(headTbl, p)
BrowseHistory(since, till) == BrowseHist(headTbl, since, till)
BrowseObjectsAtPoint(p)    == BrowsePoint(p)
BrowseObjectsInTag         == BrowseTag(headTbl)
BrowseAllObjects           == BrowseAll
-----------------------------------------------------------------------------
(* The rows found for one piece are a whole version: all the rows of one
   call, none is missing and none of a call that failed half way or ran at
   the same time is among them. *)
FoundWhole(found) ==
  \A f \in found :
    LET rows == {g \in found : g.place = f.place}
    IN  \E n \in 1 .. MaxRows :
          /\ {[call |-> g.call, row |-> g.row] : g \in rows} = {[call |-> f.call, row |-> m] : m \in 1 .. n}
          /\ \A d \in dataTbl : d.call = f.call => d.row <= n

Contents(found) == {[dat |-> f.dat, row |-> f.row, layer |-> f.layer] : f \in found}

(* Whatever failed and at which statement, all queries return whole versions;
   what is found at a point is among what was ever valid there; the history
   of an interval contains what is found at each of its points, and apart
   from pieces that are no longer than nothing, nothing else. *)
VersionsFound ==
  lock = Nobody =>
    /\ FoundWhole(BrowseAllObjects) /\ FoundWhole(BrowseObjectsInTag)
    /\ \A p \in Time :
         /\ FoundWhole(FindCondDBObject(p))
         /\ Contents(FindCondDBObject(p)) \subseteq Contents(BrowseObjectsAtPoint(p))
    /\ \A i \in Interval :
         LET history == BrowseHistory(i.since, i.till)
             points  == UNION {FindCondDBObject(p) : p \in i.since .. i.till}
         IN  points = {f \in history : f.since < f.till}
    /\ BrowseObjectsInTag = (UNION {FindCondDBObject(p) : p \in Time})
                              \cup {f \in BrowseObjectsInTag : f.since >= f.till}
=============================================================================
