# CondDBMySQL in TLA+

CondDBMySQL is a C++ client library that keeps *conditions data* (data that are
valid for an interval of time) in a MySQL database. This directory holds TLA+
specifications of its core, the TLC configurations that check them, and proofs
checked by TLAPS. The specifications are translated from `src/src`; what the
headers in `src/include/ConditionsDB` promise is what they are compared with.

## 1. The system

There is no server program of its own: every process that uses the library
talks SQL to one MySQL server, and the processes meet only in its tables. The
tables are MyISAM (`boot-sql.h`): a statement is atomic, there are no
transactions, nothing is rolled back when a client dies, and a client that wants
more than one statement to be atomic has to send `LOCK TABLES`.

| component | code | state | operations |
|---|---|---|---|
| BLOB object store | `CondDBDataAccess.cxx`, `MySqlObjectMgr.cxx`, `MySqlDataMgr.cxx` | per folder N: `object_key_tbl_N` (every version ever stored), `object_key_tbl_head_N` (HEAD: the pieces no later version covers), `data_tbl_N_p` | `storeCondDBObject`, `MySqlObjectMgr::store`, `insert` |
| tagging of objects | `CondDBTagMgr.cxx`, `MySqlObjectMgr.cxx`, `MySqlFolderMgr.cxx` | `tag2obj_tbl_N` (a copy of HEAD per tag), `tag2folder_tbl` | `tag`, `untag`, `isTagged` |
| versioned tables (STRUCTTAG) | `MySqlOnlineMgr.cxx` | `data_tbl_tag_N_p`, key and HEAD tables | `storeVer`, `store`, `insert` |
| online tables (STRUCT, STRUCTID) | `MySqlOnlineMgr.cxx` | `data_tbl_onl_N_p`: rows with since and till | `storeOnl`, `storeOnlId` |
| queries | `MySqlObjectMgr.cxx`, `MySqlOnlineMgr.cxx`, `CondDBDataAccess.cxx` | none | `find*`, `browse*`, `findNextValid`, `findLastValid` |
| iterator | `CondDBDataIterator.cxx`, `MySqlResult` | a stored result, a cursor, the current object | `next`, `previous`, `current`, `goToFirst`, `goToLast` |
| folder tree | `CondFolderMgr.cxx`, `MySqlFolderMgr.cxx` | `folders_tbl`, the tables of each folder | create, delete, exist, list |
| tag management | `CondDBTagMgr.cxx`, `MySqlTagMgr.cxx` | `tags_tbl`, `tag2folder_tbl` | create, delete, rename, list, `tag`, `untag`, `isTagged` |
| session | `CondDBInterface.cxx`, `MySqlDBMgr.cxx` | `databases_tbl`, caches of managers per database | `init`, `createCondDB`, `openDatabase` |
| connections and results | `MySqlTypes.h`, `MySqlConnection.cxx` | a handle with a reference count | `open`, `link`, `unlink`, `exec` |
| CondDBTable | `CondDBTable.cxx` | columns, rows, times, null values | set/get cells, columns, times |
| PHP binding | `tools/php_bind/CondDBPHP.cxx` | a connection resource with its session and one iterator | `cdb_*` functions |
| time arithmetic | `SimpleTime*.cxx` | 64-bit nanoseconds, two infinities | conversions, sums, comparisons |

How they interact. `CondDBDataAccess` looks up the folder (folder tree), its
partition and database (session), stores the data and then the object (object
store). `CondDBTagMgr` walks the folder tree and calls the object store and the
folder manager for each folder. All of them send their statements through one
connection per database and process.

What is hard about it:

* *interleaving*: statements of several processes on the same tables; some
  sequences are under a lock (`store`), others are not (`addTag`, `storeTag`,
  `createCondDBFolder`, the data row of an object);
* *failure*: a statement that fails throws past `UNLOCK TABLES`; a client that
  dies leaves the tables as they are; `exec` reconnects silently;
* *long sequences*: HEAD is cut into pieces of objects that were cut before;
* *boundaries*: half-open and closed comparisons, infinities, intervals that
  nobody checks, `0` as a value that is also "not found".

What makes each component correct: HEAD is at every point the last object
stored there, names at most one object whatever happens, and never one whose
data are missing; a tag is HEAD as it was at one moment; a version of a table is
whole; an online table has one value at each point; a folder or tag exists once
and has its tables; an iterator visits each row once in either direction.
`PROJECT.json` lists the hazards with their lines and the properties for them.

## 2. Plan and structure

Each component has a module, and modules that need each other's state extend
each other:

| order | modules | abstract specification or reference | state of the work |
|---|---|---|---|
| 1 | `ObjectStore` | `ObjectTimeline`: HEAD is the last object stored at each point | done, with proofs (`ObjectProofs`) |
| 2 | `TaggedStore` (extends `ObjectStore`) | HEAD at one moment | done, with proofs (`ObjectProofs`) |
| 3 | `ObjectReader` (extends `TaggedStore`) | the first object after a point, sets of points | done, with proofs (`ObjectProofs`) |
| 4 | `VersionStore`, `VersionQueries` (extends it) | newest version in the key table | done, with proofs (`VersionStoreProofs`) |
| 5 | `OnlineIdStore` | | done, with proofs (`OnlineIdStoreProofs`) |
| 6 | `OnlineStore` | `OverwrittenTimeline` | done, with proofs (`OnlineStoreProofs`) |
| 7 | `FolderTree`, `TagTree` (extends it), `CatalogQueries` (extends that) | the tree given by the paths alone | done, with proofs (`CatalogProofs`) |
| 8 | `DataTable`, `PhpTable` (extends it) | what each cell was last given, the rows queried | done, with proofs (`TableProofs`) |
| 9 | `SimpleTime` | an odometer of the Gregorian calendar | done, with proofs (`SimpleTimeProofs`) |
| 10 | `Session`, `PhpBinding` (extends it) | | done, with proofs (`SessionProofs`) |

What is left: a store that goes on after a silent reconnect (section 6);
several partitions of a folder, if the code comes to make them. No module has
RECURSIVE operators: what the code computes by recursion or by a loop is a
recursive function, so that all of it can be proved about.

## 3. What is modelled

In all modules a step is one SQL statement that changes a table or a lock, or a
SELECT whose result later statements use. Statements in which nothing but the
client's locals change are part of the step before them. Two points of time are
told apart when an interval bound lies between them, so `Time` is a small set of
integers; data are the numbers of their rows; folder names, descriptions and
formatting are left out.

### ObjectStore, ObjectTimeline

One folder of type BLOB and its clients. Variables are the tables (`keyTbl`,
`headTbl`, `objSeq` and `datSeq` for the AUTO_INCREMENT columns; the rows of the
data table are `1 .. datSeq`), the lock, and for each client the label of its
next statement and the locals of `store`.

| action | code |
|---|---|
| `StoreData` | `CondDBDataAccess::storeCondDBObject` up to `MySqlDataMgr::store` |
| `LockTables`, `SelectOverlap` | the two first statements of `MySqlObjectMgr::store` |
| `TrimEnd`, `Swallow`, `TrimStart`, `SplitRow`, `InsertTail` | the four cases of the loop, in the source once for the first row and once for the others |
| `InsertKey`, `InsertHead` | `MySqlObjectMgr::insert` |
| `UnlockTables` | `UNLOCK TABLES` |
| `Crash` | a client dies; the server drops its locks |
| `StatementFails`, `Close` | a statement throws under the lock; the client keeps the lock until it disconnects |

`headTbl` is the set of distinct rows: an UPDATE or DELETE names all three
columns, so equal rows have the same fate. The order in which the server returns
the rows of the overlap query is not defined; the loop takes them in any order.

`ObjectTimeline` says what storing means: objects are numbered, and HEAD at a
point is the last object whose validity holds the point. `ObjectStore`
implements it (`ImplementsTimeline`) when nothing fails: the mapping shows HEAD
as readers can see it, who wait while somebody holds the WRITE lock.

### TaggedStore

`ObjectStore` together with processes that apply tags. `addTag` locks nothing:
`TagSelect` reads HEAD, `DeleteOld` removes the rows the tag has, `InsertRow`
copies one row, `RecordFolder` notes the folder. Each of the first three waits
while a client holds the lock. `CopySelect` and `CopyDelete` are `tag` with
`usingTagName`, `UntagObjects`, `UntagFolder` and `UnrecordFolder` are the
three statements of `untag`. `tag2obj_tbl` is a
bag of rows per tag, because duplicates matter; `tag2folder_tbl` is the number of
rows per tag. `TagsOf` says which tags each tagger applies: nothing in the code
keeps two processes from applying the same tag, and the runs say when they do.

### VersionStore

`storeVer` and the `store` and `insert` of `MySqlOnlineMgr`. It is the algorithm
of `MySqlObjectMgr::store` in a copy whose UPDATE and DELETE statements name only
the `obj_id`. They change every piece of the object, equal rows no longer have
the same fate as before (a row inserted by one turn is changed by the next), so
here `headTbl` maps places to rows. The data rows are written under the lock,
numbered with `MAX(dat_id) + 1`. A table has at least one row; the second
`UNLOCK TABLES`, by `storeVer`, does nothing.

### OnlineIdStore

`storeOnlId`: `StoreOnlId` takes the lock, `SelectOpen` reads the times of the
open rows into the map `open`, `ReadBlock` reads the consecutive rows with one Id
and decides whether they are newer than the open rows, `CloseOpen` is the UPDATE
and `InsertRow` one `insertOnl`. The data of a row are the number of the call and
of the row. The map is not read again between the blocks of a table, and an Id
that is not in it counts as stored at time 0, as in the code. Tables have at least
one row. The read behind the last row, whose result the code does not use, is no
step of its own; a process that dies of it is a `Fail`.

The object that `findCondDBObject` makes of the rows of several Ids
(`IovObject`) is valid where all of them are; in a folder whose description says
it is of times the interval is cut to what Unix times can tell (`UnixOrigin`,
`UnixMax`), and when the description says neither, the time now is used instead
of the point asked for.

### OnlineStore, OverwrittenTimeline

`storeOnl` takes and gives up the lock for each row of its table: `StoreOnl`,
then for each row `LockTable`, `UpdateTill`, `InsertOnl`. Taking the lock again
gives it up first (`relock`), so the rows of two tables may alternate. A table
has no row, one, or more, in any order of time. `OverwrittenTimeline` is what
this means to a reader: a value from a time on, in place of all that was known
after it; a failure between UPDATE and INSERT only forgets. `FindOnl` and
`BrowseOnl` are the two queries.

### ObjectReader

A query is one SELECT that waits for the locks; `Find`, `BrowseHistory` and the
others are its WHERE clauses. Its rows are copied at once, in any order, for
none has an ORDER BY. On the copy there are two positions: that of
`CondDBDataIterator` (`currpos`) and that of `MySqlResult` (`res`: its row
number, MySQL's cursor and the row fetched), and they are moved by different
calls: `current`, `previous`, `goToFirst` and `goToLast` seek, `next` does not.
`BeginSearch`, `SearchOn` and `EndSearch` are the loops of
`findNextValidCondDBObject` and `findLastValidCondDBObject`.

What this shows of `next`: the first call after opening or after `goToFirst`
hands out the first row, with the position already at 1; after `current` it
hands out the row that follows. A loop of `goToFirst`, `hasNext` and `next`
misses the last row. The loops of the library and of the PHP binding call
`current` first and see every row. A default object that is already valid at
the point is deleted while the caller's pointer keeps its value
(`CondDBDataAccess.cxx:182-186`): from there on behaviour is undefined and
callers of that kind are left out.

### VersionQueries

The five queries of `MySqlOnlineMgr` for versioned folders as restrictions of
one join. They are checked on HEAD; those on a tag have the same text with the
table of the tag in its place. After the defect shown by `version_split` HEAD
may hold two pieces of a version at a point and pieces whose end is before
their beginning; `VersionsFound` says what queries still promise then.

### FolderTree, TagTree, CatalogQueries

`FolderTree` has the tables of the catalog and, for each client, the call it is
in: `Exist`, `FindParent`, `StoreRow`, `CreateTable` and so on are one statement
each. Missing parents are created by recursion (`stack`). Nothing is locked, and
there are no unique keys. A path is a sequence of separators and names, because
`exist` normalizes it and the other lookups do not (`ValidPath`, `Copied` and
`Normal` are the test, the loop and the end of `normalizePath`). `mark` in a row is no state
of the program: it remembers which rows existed when the caller looked.

`TagTree` adds tags: `createCondDBTag`, `changeTagName`, `deleteCondDBTag`, and
the recursive `tag` with the frames of its loops (`frames`), in which an
exception ends the loop of the set above and is lost (`Swallowed`). `untag` is
the DELETE of the object rows (`UntagObjects`), the SELECT of `isTagged`
(`UntagLook`) and the DELETE of the association (`Unassociate`), and others may come
between any two of them. The test is the wrong way round: `untag` throws if the
association is there, and deletes if it is not; so the DELETE does nothing unless a
call of `tag` has associated the folder since the SELECT, and then it takes the new
row away. `due` is
again history: the folders a call of `tag` has to reach; a folder is taken out when
such a DELETE takes its association away. That rows are copied one by one is in `TaggedStore`; here a
folder's objects are tagged in one step.

`CatalogQueries` are the listings. Those that consist of several SELECTs are
evaluated at one moment, so they say what callers get when nobody changes the
catalog between them. `isTagged`, which asks the children of a set, is a recursive
function over the paths there are; that it finds everything beneath a set is said
without recursion, by the paths above the tagged ones (`AtOrAbove`).

### DataTable, PhpTable

`CondDBTable` in memory: a column is a vector whose first element is its null
value, so row r is element r + 1. The twelve types are taken by kind (number,
bool, string, array): they differ in conversion only. Calls that return an error
code change nothing and are left out. `PhpTable` is `cond_to_z_table` of the PHP
binding and the text of `getRow` it reads: the text does not tell where a cell
ends, so the index is carried over the cells.

### SimpleTime

Conversions to and from calendar, NetLogger and Unix time, intervals and
durations. A clock advances a `SimpleTime` and a Gregorian odometer together by a
day and a nanosecond from 1900 to the end of the type's range in 2192. The
numbers of hours, minutes, seconds and nanoseconds are parameters, so that the
range fits into TLC's integers while the calendar of days stays the real one.

### Session, PhpBinding

`Session` is a `CondDBInterface` with its `MySqlDBMgr`: the name it was asked for
last, the connection's current database, the managers linked to the connection
and its reference count, and the databases at the server. `createDatabase` is
seven statements of which other processes see each. `PhpBinding` adds scripts: a
connection resource with one iterator for all browse calls, and what each call
does on an exception.

### What the models show beside the properties

These follow from the modelled code and disagree with a document, or are easily
taken otherwise. There is no run of their own for each.

* `tag` with `usingTagName` deletes the rows of the tag, throws at
  `MySqlObjectMgr.cxx:585` and hides the exception: the tag is empty
  (`ICondDBTagMgr.h:86-88` promises a copy).
* Two processes that apply one tag at once leave each row twice
  (`MySqlObjectMgr.cxx:579`, against the comment at 577).
* Tagging a folder again adds a second row to `tag2folder_tbl`
  (`MySqlFolderMgr.cxx:313`, against `ICondDBTagMgr.h:93`).
* `untag` leaves the folder's association and throws (`MySqlFolderMgr.cxx:268`,
  against `ICondDBTagMgr.h:115-117`).
* An `untag` that runs while `tag` is applied can delete the association `tag` has
  just made (`MySqlFolderMgr.cxx:268`), and nobody is told.
* The null value of a column outlives the query it was set for: the next query on
  the same `CondDBTable` converts NULL to it (`MySqlOnlineMgr.cxx:263`).
* `browseObjectsInInterval` misses objects that contain the interval, and
  `browseObjectsAtPoint` takes in those that end at the point.
* `setCell` of a row that skips others writes into the row before
  (`CondDBTable.h:170`); reading it back is out of range.
* `setInterval` with a start after the old end keeps the old start.
* `setDuration` with an interval subtracts infinities, and `+=` of a
  `SimpleTime` does not saturate.
* `fromCalendarTime` accepts years to 2484, and those after 2192 wrap; a comment
  (`SimpleTime.cxx:18`) has the end of the range in 2262.
* Every database has the id 1 in its own `databases_tbl`, so a cached manager is
  taken for any database; a client that is connected by another name of the
  server cannot create folders.
* After an open that was refused a session still stores objects in the folders
  of the former database, and cannot create folders there.
* `isCondDBcreated` is true as soon as the database exists, with or without its
  tables, and a creation that stopped half-way cannot be repeated
  (`ICondDBMgr.h` speaks of a successful creation).
* A manager whose `changeDatabase` fails stays linked, and the connection is
  never closed; managers asked for after a failed `init` stay with the lost
  `MySqlDBMgr`.
* `getCondDBFolder` finds folder sets as well; a set stored under a path with a
  final "/" is listed, has no children, and cannot be browsed.

## 4. What the runs check

| run | instance | shows |
|---|---|---|
| `store` | 2 clients, 4 stores, 4 cells, till > since, no faults | HEAD is the newest object at every point; storing implements the timeline |
| `store_faults` | 2 clients, 3 stores, all intervals, 2 faults | the inductive invariant, HEAD single-valued, never back to an older object, never to missing data |
| `tag` | 2 clients, 2 stores, 2 taggers with a tag each, 2 calls, 1 fault, fairness | an applied tag is HEAD at one moment; it is single-valued and names stored data at every moment; storing and tagging end unless a failed client keeps the lock |
| `reader` | 1 client, 2 stores, 1 tagger, 1 fault, 4 points | positions stay in the result, `next` is the successor, searches find the neighbour, the queries agree, an iterator sees one version |
| `version` | 2 clients, 3 stores of 1 or 2 rows, 1 fault | HEAD is within the validity of its objects, queries return whole versions, the newest version is in HEAD |
| `version_split` | 1 client, 3 stores | finding: HEAD of a versioned folder loses pieces of older versions |
| `online_id` | 2 clients, 2 Ids, 3 tables of 1 to 3 rows, 1 fault | one block per Id and point, the row of NULLs ends where an Id begins, no gap, an object lasts as long as it says, history is kept |
| `online` | 2 clients, 3 tables of 0 to 2 rows, 1 fault, fairness | one value per point, implements the overwritten timeline, browsing loses no row, gaps come from failures only, stores end |
| `catalog` | 2 clients, 2 calls, 1 crash, from no database or a populated one, fairness | ids are never reused, duplicates come from races only, paths and parents agree, `tag` reaches every folder, listings agree, calls end |
| `table` | 2 columns (array and string), 3 rows, 3 calls that change data | cells read back what was set, queried rows come back, the PHP array shows them |
| `time` | all days from 1900 to 2193, 8 points for intervals | the calendar is right on every day, intervals stay ordered, distances add up |
| `session` | 2 processes, one of them perhaps a script, 2 databases, 1 fault | what is written goes home, the handle's count, a database is made by one process, scripts print what they browsed |

Bounds and why they are enough. Four cells (`0 .. 4`) let an object lie strictly
inside another one and a third one trim one of the remaining pieces without
covering it, so that an UPDATE that changed the other piece as well would show;
the fourth store then meets pieces of an object that was cut twice. Three cells,
in `store_faults` and `version`, still let a third object meet both pieces. Two
faults let a second client fail in the damage of the first. In `tag` each tagger
has a tag of its own; with two calls there are retagging, copying between the
tags, untagging, and stores between any two of their statements. `online_id` has
the times -infinity, 0, two later ones and +infinity; its tables hold one Id,
two, or one Id in two blocks in either order of time. `online` has tables whose
rows are in order of time, against it, and at the ends of time. In `catalog` one
client builds and deletes, the other tags, and both create and tag the same
names, so that any two calls race; two calls at a time on a populated tree of
four rows reach every pair of statements of two calls. Arrays in `table` are empty
or have two elements, which is what moves the index of the PHP parser
differently. `time` needs no larger radix: the conversions divide by the days
first, and below a day they are plain positional numbers.

Two modules for TLC restrict the interleavings, and say so. `MCObjectReader` lets
clients and taggers wait while an iterator is open: it works on its copy, so its
steps commute with theirs. `MCPhpBinding` lets what a script asks for wait for
the end of the other process's session, and the other way round: it changes
nothing the other one can see. `MCTagTree` starts either from nothing or from a
populated database. Symmetry is used where clients, Ids, values or databases are
not told apart, and in no run with liveness.

One run shows that the code does not do what a document says; it is the finding in
`PROJECT.json`: after one version was stored inside another, HEAD of a versioned
folder loses pieces of older versions (`version_split`).

The definitions marked *Faulty* in the modules are variants of the code with a
plausible mistake. They are part of no specification; each shows that a property
notices the mistake.

### Fairness

`TaggingFairSpec` and the `FairSpec` of `OnlineStore` assume that a call that has
begun goes on: a client runs, and the server queues requests for a table lock and
serves each of them. Other clients may take the lock between two chances of a
waiting one, so this is strong fairness. `Fairness` of `TagTree` is weak: no
statement there waits for anybody, and a process only has to run. Nothing obliges
a client to start a call, to crash, or to close its connection after a failure.
`StoreEndsUnlessLockLeaks` and `StoresEnd` name the price of the last one.

Deadlock is not checked in `table` and `time`, whose bounds end the behaviour.

## 5. What is proved

`ObjectProofs` proves, for any sets of clients, times and intervals (also
with till <= since) and any number of stores and faults:

* `TypeCorrect`: `Spec => []TypeOK`.
* `StoreInvHolds`: `Spec => []StoreInv`, the types and the inductive invariant `HeadInv`.
* `HeadNamesOneObject`: `Spec => []HeadSingleValued`: at no moment, crashes and
  leaked locks included, are there two objects in HEAD at one point.

`HeadSingleValued` alone is not inductive: `InsertHead` keeps it only if HEAD is
empty on the new interval. `HeadInv` says so for a client at that statement
(`RoomIsMade`), and says why: while the loop runs, every row of HEAD that meets
the interval is among the rows still to handle (`TodoMeetsInterval`), and the
tail of a split row is a part of what the row covered (`TailIsFree`). That needs
the query to find every row, so each object in HEAD has a key row
(`HeadHasKeys`, `KeysNumbered`). All of it is about the client that holds the
lock, and there is only one (`OnlyOwnerLocked`): the step of one client leaves
the part of every other one alone (lemma `OthersUnaffected`). The
assumptions used are those of the module on its constants: times are integers,
`Nobody` is not a client, there is an interval.

Its second part, for the same constants, is about what HEAD points to:

* `HeadOnlyMovesOn`: `Spec => HeadNeverGoesBack`. It follows from `HeadInv`: a cut
  row leaves pieces of itself (`RowStepPieces`), a tail and a new object go where
  HEAD holds nothing else.
* `HeadDataAreStored`: `Spec => []HeadNamesStoredData`. The data are stored before
  the lock is taken, so the inductive invariant `DataInv` follows the number of
  the data row through the call: it stays the client's own until its key row is
  inserted (`DataAreOwn`), and the key row is there before the HEAD row
  (`KeyIsNew`).

Its third part has what storing means as long as nothing failed:

* `HeadIsNewest`: `Spec => []HeadIsLatest`. `LatestInv` says what holds within a
  store: outside the interval of the new object HEAD, with the tail that a split
  still owes it, is what it has to be (`LatestOutside`); the loop changes nothing
  there (`RowStepKeepsOutside`), and inside it only the new object is left.
* `StoringImplementsTimeline`: `MaxFaults = 0 /\ Spec => ImplementsTimeline`. By
  `HeadIsNewest` readers see the newest of the committed objects
  (`VisibleIsCommitted`); only `UNLOCK TABLES` changes it, by one whole interval
  (`UnlockShowsObject`). With faults it does not hold, and is not claimed: after
  a crash between two statements HEAD lacks a piece.

Its fourth part is about tagging, for any clients, taggers, tags and number of calls
and faults of either (there is a tag):

* `TagsNameStoredData`: `TaggingSpec => []TaggingInv`. What a tagger has read and
  what it has inserted are pieces of objects with data (`TagRowsWithinKeys`), and
  key rows are never deleted. A tagger may fail while a client is storing, which
  is no step of `ObjectStore`, so the invariants of the first parts are
  put together and carried through that step as well (`FolderInv`).
* `TagsAreVersions`: `OwnTags /\ TaggingSpec => []TagIsSomeHead`, where `OwnTags` says
  that no two processes apply one tag. The rows a tagger has inserted and those
  it has yet to insert are one version together (`TaggerInv`): it read them when
  nobody was storing and HEAD was the newest of all objects (`HeadIsVersion`), and
  objects stored later make no difference to what was newest among the first n
  (`StoringKeepsVersion`). Without `OwnTags` it does not hold.

Its last part is about queries, iterators and searches beside all that, for results of any length and calls in any order:

* `IteratorsStayInside`: `ReaderSpec => []ReaderInv`, and `NextHandsOutSuccessor`:
  `ReaderSpec => []NextIsSuccessor`. `PositionInv` says where the three positions
  can be: MySQL's cursor is behind the row fetched, and `currpos` at it or one
  further, or all are back at one row and none is fetched.
* `SearchesFindNeighbour`: `ReaderSpec => []FindsNeighbour`. `SearchInv` is the loop
  invariant: what was found is at least as near as every row passed. It needs
  `PositionInv`, for the loop advances by `next` after one `current`.
* `PointsAndIntervalsAgree`: `IntervalsOrdered /\ ReaderSpec => []QueriesAgree`.
  `IntervalsOrdered` says that no interval is empty. It is needed: the history of
  an object without a point is a row, and no query of a point has it. Splitting
  and trimming then leave no piece without a point either (`FolderRowsSound`,
  `TagRowsSound`).
* `IteratorsSeeOneVersion`: `OwnTags /\ ReaderSpec => []SnapshotConsistent`. What a
  query returned was one version when it was asked (`SnapshotTaken`) and stays
  one, because the first n objects stay the first n (`StoringKeepsVersionOn`).

The run `reader` satisfies both hypotheses.

`OnlineStoreProofs` proves, for any clients, tables (any sequences of times) and
number of calls and faults:

* `OnlineInvHolds`: `Spec => []OnlineInv`. One value per point is kept by the
  INSERT because nothing in the table reaches past the time of the row
  (`Cleared`), and that stays so because between its UPDATE and its INSERT a
  client owns the lock: no other is at one of the two statements
  (`OnlyOneAtInsert`), although each gives the lock up after every row.
* `QueriesFindAllRows`: `Spec => []QueriesFindRows`. While nothing has failed,
  each point has a row, or the row of the client that is about to insert
  (`Filled`).
* `StoringImplementsTimeline`: `Spec => ImplementsTimeline`. The mapping shows the
  row that a client is about to insert as if it were there (`Pending`), so the
  UPDATE is the step of the timeline, the INSERT a stutter (`InsertTimeline`), and
  a failure between them the step that forgets (`FailTimeline`).

They use the module's assumptions: times are integers between the infinities,
tables are sequences of times, `Nobody` is not a client, the bounds are numbers.

`OnlineIdStoreProofs` proves every property of `OnlineIdStore`, for any clients,
Ids, tables (any nonempty sequences of rows) and number of calls and faults. The
map of open rows and the end of a block are maxima of sets that may be infinite,
so they need a well-founded minimum (`Greatest`).

* `NullsHideNothing`: `Spec => []OnlineIdInv`, and `OneBlockAtATime`:
  `Spec => []OneBlockPerId`. While a client inserts, nothing of its Id and no
  NULLs reach past the time of the block except what it inserted itself
  (`BlockIsClosed`); all rows it inserts have the Id of the last (`BlockRead`).
* `NoGapIsLeft`: `Spec => []IdHasNoGap`. While nothing has failed, an Id has
  values or a client is at the first row of a block of it (`IdFilled`). An object
  lasts because rows of one Id that meet at a point, which need not be one of
  `Time`, have one interval (`SameInterval`), which needs that the UPDATE ends a
  block as a whole (`BlocksEndTogether`) and that there is one row of NULLs.
* `HistoryIsKept`: `Spec => HistoryKept`. A block is stored only if it is later
  than the open rows the map knows of (`BlockRead`), and the map stays true because
  the lock is kept from the SELECT to the end.

`VersionStoreProofs` proves, for any clients, times, intervals (also with
till <= since), numbers of rows, calls and faults:

* `PiecesStayWithin`: `Spec => []VersionInv`. The UPDATE of one piece changes every
  piece of its object; the value it writes lies within the object because a piece
  of that object was selected (`Within`) and met the interval of the new one, and
  because no number is given to two objects (`KeysNumbered`), so the object is the
  same (`UpdatedWithin`). That INSERT finds a free place and SELECT MAX a number
  are lemmas about finite and bounded sets (`FreePlace`, `MaxDat`).
* `NewestWins`: `Spec => []NewestIsInHead`. While the loop runs, of each piece that
  is in the way some piece of the same object is still to handle (`RoomFound`), and
  one statement takes all pieces of the object out of the way (`LoopNewest`). What
  lies outside the new interval is not claimed: there the same statement does
  harm, which is the finding of `version_split`.

Its second part is about the queries:

* `QueriesAgree`: `ForwardIntervals /\ Spec => []VersionsFound`, where
  `ForwardIntervals` says that no interval ends before it begins. An object has a
  whole version (`Whole`), because SELECT MAX gives a number that no row and no
  object has (`SelectMaxDatData`), and the key row comes after the last data row
  (`InsertKeyData`); the rows a failed call leaves have a number of their own, which
  no object gets. The three cases of the WHERE clause are shown to be those in
  which a piece meets a closed interval (`TouchesMeets`).

`CatalogProofs` proves, for any processes, requests with any paths, and any number
of calls and crashes:

* `CatalogIsConsistent`: `Spec => []CatalogInv`. What the property says of rows and
  tables at rest is kept by what a client knows between two statements
  (`TagTreeInv`): which ids it read are still those of the same rows or of none
  (`EntryOK`), which tables it has still to make (`TablesOK`), how long ago it
  looked for children (`DeletionOK`). AUTO_INCREMENT (`RowOK`, `TagRowsOK`) is what
  keeps an id that was read from naming another row.
* `DuplicatesComeFromRaces`: `Spec => []DuplicatesOnlyFromRaces`. The mark of a row
  is the next id at the moment `exist` found no row of the path; it goes with the
  entry on the stack until the row is stored (`EntryOK`, `RowIsStored`).
* `IdsAreNeverUsedAgain`: `Spec => NewIdIsFresh`.
* `TagReachesTree`: `Spec => TagCoversTree`, for trees of any depth. The inductive
  invariant (`CoverInv`) follows a call of `tag` through its loops: a folder that is
  due is associated already, or at or beneath the folder that is visited (`Here`),
  or at or beneath a child that some loop has left (`Ahead`). A visit of a set hands
  what is beneath it on to its children (`BeneathSet`), and a folder is a leaf
  because the row of a parent is a set (`BeneathFolder`, from `RowOK`). A visit looks
  the tag and the folder up by name again: while no name is doubled and no row
  deleted it finds the row the loop meant. That is why no exception is hidden
  that would lose a due folder: the tag and the path are still there (`Found`), and a
  folder with an object has its tables (`FilledOK`). What is associated stays so, except for
  the one row that the unlocked DELETE of an `untag` takes away, with which the folder
  is no longer due (`DueKept`, `UnassociateCovers`): apart from deleted rows of
  `folders_tbl` and `tags_tbl` and doubled names this is the only way for `tag` to
  miss a folder. "Beneath" is stated without
  recursion, as being in every set of ids that contains the children of its members
  (`Closed`).
* `QueriesAgree`: `Spec => []ListingsAgree`. Only the root has no parent: a row on the
  way to be stored has the id of its parent already or is the root
  (`RootRowsOK`, part of the invariant `ListInv`). So a child found by id and one
  found by path are the same row (`BeneathAgrees`), and the associations by tag and
  by folder are read off the same pairs (`TagsAgree`). `isTagged` asks the children
  of a set and they ask theirs; it says yes for the least set of paths that has the
  tagged folders and with a path its parent (`IsTaggedIsAbove`). It is the least one,
  and asking comes to an end, because a child has a larger id than its parent
  (`AskedIsAbove`).

`SessionProofs` proves, for any processes, scripts, databases, servers and number
of failures (the rows of a folder are a finite set):

* `SessionsShareOneConnection`: `PhpSpec => []SessionInv`. The count of the handle is
  the one of the managers linked to it, or larger by those a failed
  `changeDatabase` has lost (`Counted`); the connection is at the database the
  session is for unless that was refused or is being made (`RightDatabase`).
* `DatabasesAreMadeByOne`: `PhpSpec => []MadeByOne`. CREATE DATABASE succeeds for one
  process, and from then on the others' fails; a process that is at one of the
  six statements after it is alone with the database (`DatabaseOK`).
* `ScriptsPrintWhatTheyBrowsed`: `PhpSpec => []PrintsBrowsedRows`. An iterator is kept
  only while its session is open (`ScriptOK`), so the object it belongs to has not
  been deleted.
* `SessionsAreConsistent`: `PhpSpec => []PhpInv`, the invariant of the three.

`TableProofs` proves, for columns of any types, any values, and any number of rows
and calls:

* `TableIsConsistent`: `Spec => []TableIInv`, the inductive invariant. A column has a
  null value exactly when it has a type, and an initialized one has a type
  (`ColumnOK`): so a flag that is unset memory can make the table count as
  initialized only when each column has a type.
* `NoVectorOutgrowsTheTable`: `Spec => []TableInv`.
* `CellsAreReadBack`: `Spec => []CellsReadBack`. `CellsOK` adds that the vector of the
  column reaches the cell: without it `getCell` would read the last element.
* `ScriptsSeeQueriedRows`: `Spec => []ShowsQueriedRows`. While only queries have filled
  the table, it has their rows and times (`QueriedOK`: every column with a type is as
  long as the table; `QueriedRows`). What a script is shown of them is parsed from
  texts put one behind the other: behind the texts of the columns before it, those
  of a column are as they were written (`FlatGrows`, `TextsOfColumn`), so the parser
  that starts there reads the cell and stops where the next one starts
  (`CellIsRead`), and after the last column it has read the row
  (`CellsAreReadBackFromTexts`). Pages lie in the table (`IntervalInTable`).

`SimpleTimeProofs` proves every property of `SimpleTime`, for any length of a day, an
hour, a minute and a second, any width of the type and any points:

* `ClockAgreesWithCalendar`: `Spec => []ClockKeepsCalendar`. The inductive invariant
  (`ClockInv`) says that the odometer shows a date of the calendar and the time is
  the nanoseconds up to it (`Nanos`) as long as the type holds them. A step adds one
  day and one nanosecond to both (`NextDayIsNext`, `NextNanoIsNext`: the year and the
  month carry because months are as long as the table of days before them says,
  `MonthLength`). That `fromCalendarTime` computes these nanoseconds is `FromDate`;
  the way back is `ToDate`. Its hard part is the year: the code divides by a year of
  365.25637 days, takes the leap days of the quotient away, and divides by 365 days,
  once. `CorrectedYear` shows that this one correction is enough for all years the
  conversion takes, 1900 to 2484, leap years and whole centuries included; on some
  days of them the approximation is off by one.
* `IntervalsOrderedDistancesAddUp`: `Spec => []IntervalInv`. A duration is the
  distance of the two points it was last given (`CalculatedInv`); from 1900 on
  the difference of two points does not leave the type (`DistanceTakes`).

Three things are computed step by step over data of any size: the copy of a path by
`normalizePath`, the answer of `isTagged`, and the texts of a row with their parser.
The library's induction theorems take the formula as a parameter, which no
installed prover can instantiate; what is proved here is proved by a least
counterexample: a shortest prefix in `CopiedIsDefined`, a largest id in
`AskedIsAbove`, a least number in `NumbersOneByOne`.

Assumptions. All proofs use only the assumptions the modules state of their
constants. Most say what kind of thing a constant is. `RequestAssumption` and
`TagRequestAssumption` say that a request is one of the calls there are, its path
a sequence, its folder type one that has tables, and that a call of `tag` comes with
a path and a name; `RowAssumption` that a folder
has finitely many rows; `ContentsAssumption` that the content of an array is a
finite sequence; `YearAssumption` that the clock stops before the last year
`fromCalendarTime` takes. `OwnTags`, `ForwardIntervals` and `IntervalsOrdered` are
hypotheses of the theorems that need them, since nothing in the code sees to
them, and `MaxFaults = 0` is one of `StoringImplementsTimeline`.

Only model-checked:

* liveness (`StoreEndsUnlessLockLeaks`, `TaggingEnds`, `StoresEnd`, `CallsEnd`): the
  proof system does not handle fairness and ENABLED.

## 6. What is not modelled

Each component and its status is in `PROJECT.json`. Left out are:

* escaping and formatting of SQL, output and logging, the byte encodings of
  cells. (An array of strings whose first element is the text "NULL" is stored as
  NULL as a whole, `MySqlOnlineMgr.cxx:620`; the models have no such array.)
* the Tcl binding, the browser, migration and backup tools: clients of the
  library or of the database.
* more than one partition per folder: the code makes one with the folder and has
  no call to make another. `deleteTables` drops the data table of that one.
* `browseId` and `tagId` with `CondDBTimePath`: the SELECT of the first names a
  column `t_time` that the tables do not have, and the INSERT of the second has no
  commas between its rows, so both end in an exception.
* the silent reconnect of `exec`. The handle turns `MYSQL_OPT_RECONNECT` on
  (`MySqlTypes.h:174-176`), and `exec` pings before each statement "to enforce
  reconnect, if needed" (257-258), so a connection that is lost and found again in
  the middle of a store leaves the client going on without its lock and with another
  `LAST_INSERT_ID()`. Nothing in the code guards against it. In the models a client
  whose connection is lost does not go on: it is a failed statement or a crash, and
  the properties of stores hold under that restriction only.
* calls whose behaviour is undefined: an interface used or destroyed without
  `init`, a default object that is valid already, null values written through a
  pointer of the wrong type. The modules name them where they leave them out.
* the selection a caller may add to the WHERE clauses of table queries.

The server's lock manager is external: a WRITE lock keeps all other connections
out, and is dropped when its connection ends.
