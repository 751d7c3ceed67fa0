# A TLA+ development of cw_db

cw_db is a small SQL database: typed tables kept in memory and saved to files,
`INDEXED` columns served by a B*+ tree on disk, an HTTP server and a command
line program in front of it. This directory models its storage, its query evaluation
and its server in TLA+, checks the models with TLC on small instances, and proves
what matters most with TLAPS for every value of the constants. Paths below are relative to the
repository (`src/storage/pager.cpp` and so on); `PROJECT.json` lists, for every
definition, the lines it models.

## Inventory of the system

| Component | State | Operations | Hard behaviour | Correct when |
|---|---|---|---|---|
| `Pager` (`src/storage/pager.cpp`) | file, `page_count_`, `lru_`, `cache_`, stream error bits | `open`, `close`, `allocate_page`, `read_page`, `write_page`, `flush`, `set_cache_capacity` | eviction in the middle of reads and writes; errors that stick; no flush on destruction | a caller sees what it last wrote; clean pages are in the file or on their way to it; `flush` leaves nothing to write, unless the stream has failed |
| `DiskBspIndex` (`src/storage/disk_bsp_index.cpp`) | pages, `root_page_`, `first_leaf_page_`, `size_`, superblock | `create_empty`, `bulk_build`, `open`, `close`, `flush`, `insert`, `erase`, `find`, `lower_bound`, `upper_bound`, iteration | splits, borrowing, merges and redistribution chosen by byte counts; exceptions in the middle | it answers like a map from keys to record ids, in key order |
| `Table` (`src/storage/table.cpp`) | `records_`, `order_`, `next_id_`, `indexes_`, `.dat` and `.idx` files | `insert`, `update`, `erase`, `save`, `load`, `index_find`, `index_collect_range` | nothing is undone when an index throws; two kinds of files that must agree | indexes and records agree; constraints hold; ids are never reused |
| Executor (`src/sql/executor.cpp`) | none of its own; the DBMS mutex | one function per statement | row loops that stop half way; index hints instead of scans | a statement does what its WHERE says; the hint never changes the answer |
| `Database`, `Dbms` (`src/storage/database.cpp`, `src/core/dbms.cpp`) | tables, databases, `active_`, directories | create, drop, use, `save_to`, `load_from` | `active_` shared by all clients; files removed and rewritten one by one | what was saved is what is loaded |
| `StringPool` (`src/core/string_pool.cpp`) | interned strings | `intern`, `get` | `get` returns a reference after unlocking | a reference stays valid while it is used |
| Server (`src/net/server.cpp`) | handler threads | `/query`, `/health`, `start`, `stop` | statements of several clients interleave; parsing is outside the mutex | each request gets its own answer |
| `Telemetry`, `AccessLog` | sliding window, counters, log file | `observe`, `snapshot`, `log` | events out of order | counts are exact |
| `bulk_build_guard`, `Value`, parser, programs | little or none | | | |

A statement takes one path through these parts: a handler thread (or `prog`)
parses the text, `execute` takes the DBMS mutex, the statement's function finds
candidate records through an index or a scan, changes the `Table` row by row,
the table changes its indexes, each index reads and writes pages through its
`Pager`, and at the end `Dbms::save_database` saves every table of the
database. Only parsing, interning, logging and telemetry run outside the mutex.

## Modules

| Module | Models | Used by |
|---|---|---|
| `PageStore` | what a page file promises: a store of pages without a cache (abstract) | `Pager` |
| `Pager` | class `Pager` | `MCPager`, `PagerProofs` |
| `PagerProofs` | theorems about `Pager`, among them that it implements `PageStore` | |
| `BspTree` | the pages of the tree and the functions that rewrite them | `BspIndex` |
| `BspIndex` | class `DiskBspIndex`: calls, searches, superblock | `MCBspIndex`, `BspTreeProofs` |
| `BspTreeProofs` | lemmas about `BspTree`: what every function leaves of a tree | `BspIndexProofs` |
| `BspIndexProofs` | theorems about `BspIndex` | |
| `Table` | class `Table` and the INSERT, UPDATE and DELETE statements | `MCTable`, `TableProofs` |
| `TableProofs` | theorems about `Table` | |
| `Where` | WHERE, index hints, row loops and aggregates of the executor | `MCWhere`, `WhereProofs` |
| `WhereProofs` | theorems about `Where` | |
| `Storage` | the files of a database: `Database`, `Dbms` and the save and load of `Table`, with crashes | `MCStorage`, `StorageProofs` |
| `StorageProofs` | theorems about `Storage` | |
| `StringPool` | class `StringPool` | `Server` |
| `Telemetry` | class `Telemetry` | `Server` |
| `Server` | concurrent handlers of `/query`, the mutex and the selected database of `Dbms`, `AccessLog`, the main thread | `MCServer`, `ServerProofs` |
| `ServerProofs` | theorems about `Telemetry`, `StringPool` and `Server` | |
| `DataLemmas` | facts about trees, ordered finite sets and sums | `BspTreeProofs`, `ServerProofs`, `WhereProofs` |

The levels meet in what they assume of each other. `BspIndex` reads and writes
pages atomically, which is what `Pager` is shown to offer between crashes;
`Table` sees an index as a map from keys to ids, which is what `BspIndex` shows
the tree to be, together with the ways in which its calls can throw. `Where`
takes from `Table` that an index has an entry for every row and from `BspIndex`
that a scan yields keys in order. `Storage` takes rows and index of a table as
two sets of keys and looks at what happens to them on the way to the files and
back. `Server` composes `StringPool` and `Telemetry` with the handlers that
share them, and takes a statement on a table as one step under the mutex.

Operators and actions carry the names of the functions they model. Definitions
that are called a *mutant* in their comment are wrong on purpose: put in the
place of the definition that follows them, they make a run fail, which shows
that the property can see that mistake.

### Pager

One action per public function, and one per step of the loops of `evict_one`
and `flush_dirty_pages`, so that the process can die between any two writes
(`Lose`). `pc` says which loop runs, `pend` is the page `put_cache` is about to
insert. The stream is modelled from its use: any operation may fail, a failed
write may leave a torn page, and the error state is sticky until a successful
`open`. It has a buffer of its own, of one page at most (`held`): a write either
stays there or goes to the file, and the next write, read, flush or close brings
it to the file first (`IoSync`). `stream_.flush()` and `stream_.close()` may fail
to, and nobody looks (pager.cpp:184, 126-127): then `flush_done` and `close_done`
end normally with a page that is clean in the cache and not in the file.
`Next` is `Call \/ Step \/ Lose`; a call starts only when none runs,
since the code is entered under the DBMS mutex.

The abstract `PageStore` has what callers see (`pages`), what the file has been
given (`disk`), the page that it may still lose (`loose`), whether it has failed,
and the last answer. `View` is the refinement mapping: the cached copy of a page,
or else that of the stream. Its `Sync` is what a flush promises that returns: the
file has been given everything, and either it has settled everything, or it has
failed and can still lose the page given last.

Left out: contents of pages; that `open` falls back to truncating a file that
exists but cannot be opened (pager.cpp:110); that a sync which stopped half way
and is tried again by `close` might write its rest one page too far; what an
operating system does after it has taken a write (the code has no `fsync`).

### BspTree and BspIndex

A state of the tree goes through the functions of `BspTree` as a record, with
the exception that ended the function (`err`) and the function it ends by
calling (`call`): all recursion of the code is tail calls, so each level is one
step of `BspIndex`, and an exception leaves the pages written before it. The
loops down the tree (`PathFrom`, `leftmost_leaf`) take as many steps as the file
has pages at most, which no tree needs; `bulk_build` cuts a sequence into `Runs`,
one per page.
Overflow and underflow use the code's byte counts over `PageSize` and `KeyLen`;
small values of `PageSize` make small trees split and merge. Keys are integers,
compared as such. `contents` is a history variable: the map that the
successful calls should have produced.

A call that throws ends the run of the model (`failed`): what the index does
after an exception is not modelled. Pages that no search can reach are
forgotten. Numbers of keys stay below 256, so the one-byte count in a page
does not wrap here (see the end of this file).

### Table

Rows are functions from columns to values, an index is a map per column.
`install_into_indexes` and `remove_from_indexes` take the column whose index
throws: the columns before it have been treated, those after it have not. An
index throws because the key is too long or a duplicate, before it has changed
a page, or, when `Faults` is TRUE, for a reason of its own. Then its leaves and
its inner pages may disagree, so that a search misses what a scan still finds:
it is no longer among the maps of `idx` and may answer anything, or throw again,
which lets any row be refused. The properties of indexes speak of those that are
left. (A statement collects the ids it treats from one index or from `order_`;
should an index that has thrown yield an id twice, the set `todo` has it once.)
The `.idx` files change when they are flushed; pages that reach them earlier,
by eviction, matter to a process that ends inside a statement or after one that
failed, and these are in `Storage`. `save_short` is a save on a disk that is
full at the end: nobody looks at a stream, so an index lacks its last page in
its file while the page counts as clean, or a `.dat` file that is cut short takes
the place of the old one. `load` is a restart between statements, of version 3
of the `.dat` file, if that is whole; what is read past the end of one that is
not are values that were never in it, ids twice included, and the model says no
more of such a table.

### Where

A table stands still while a statement looks for its rows: the mutex is held,
and UPDATE and DELETE collect the ids first. `exec_select` and `exec_change`
start a statement with the candidates that `select_candidates` gives; `Row` is
one round of the row loop. Expressions are records like the nodes of `ast.h`;
recursion over them is a recursive function on the set `Wheres`. They are finite
trees, which is what `Depth` says: an operand is less deep than its expression.
`WhereAssumption` adds what `Table` shows of a table, that a value in an indexed
column has the type of the column and is in one row only, and what the parser
makes of a statement: operands are columns or literals. A hint is, for each of `eq`, `lo` and `hi`, a set of at most one limit. A literal
that does not compare with the keys (NULL, or another type) sends the search of
the tree into a leaf that depends on the tree: `first` is any row. Strings are
numbers in their lexicographic order, `Regex` gives the strings that a pattern
matches. Some strings are not UTF-8 (`NotUtf8`), since the lexer takes any byte
into a literal (sql.l:81): `result.dump()` at the end of a SELECT throws when a
row that was found shows one (executor.cpp:493, `DumpThrows`). The answer of an
aggregate has numbers and labels only, which are ASCII, so line 476 never
throws. Two items of a select list under one AS are left out.

The reference is `Truth`: Kleene's logic with 0, 1 and 2, evaluated on every
row. The code differs from it in one place: `tri_and` makes UNKNOWN out of
FALSE AND UNKNOWN. Since the dialect has no NOT, both only mean "not selected",
and `SelectsExactly` shows that nothing else comes of it.

### Storage

One database, its directory, and per table the rows and the index in memory
(`mem`) and in the files (`dat`, `idx`). A statement changes memory and then
goes through `save_to` step by step: `bind`, `sweep` of the files without a
table, and for each table `save_index` and `save_dat`. Each step has its failing
variants: a file operation that fails (bounded by `MaxFaults`), the errors that
the code ignores (`sweep_fails`, `remove_fails`) or does not notice
(`save_dat_short`, and the last sync of a flush in `save_index_short` and
`bulk_build_short`), and `crash`, which may also tear the flush or the build of
an index that runs. A process that ends normally does what a crash between two
statements does, since nothing is flushed on destruction. `evict` lets pages of
an index reach its file at any time. A `.idx` file is a set of keys, `Blank` (it
exists, but nothing that opens was flushed to it) or `Damaged`.

`touched` and `hurt` are history variables and say to whom something may have
happened. `touched`: changed, and not saved since. `hurt`: touched when the
process ended, or left behind by an error that nobody reports or notices. All
properties are about the others: `CrashConfined` says that files of other tables agree at
every moment, `Durable` that what was acknowledged is in the files, `RowsKept`
that only statements on a table change its rows, `OpensUnlessHurt` that a start
or a save fails to open a file only if something was hurt.

What the code does to tables that are hurt, as TLC's traces show it:

* An upgrade of a version 1 or 2 file that is interrupted, or that
  `validate_bulk_build_input` refuses for lack of memory, leaves an empty `.idx`
  file behind; the process then fails at every start.
* A CREATE TABLE that is interrupted leaves an empty `.idx` file. A later CREATE
  of that name fails and keeps the table in memory without an index, and then
  every save of the database fails in `bind`, until the table is dropped or the
  process restarts.
* A DROP TABLE whose save fails in `bind` leaves the files of the table; a table
  created with that name afterwards adopts the old index, and refuses rows that
  it does not have as duplicates.
* A short write replaces the `.dat` file, and loading it reads past its end: the
  values read there are whatever the memory held.
* A `.dat` file without its `.idx` file loads with an empty index.
* A flush whose last sync fails is followed by the `.dat` file as if nothing had
  happened, and the statement is acknowledged: the `.idx` file lacks a page, and
  the next start reads what the file had there before. At the end of `bulk_build`
  the lost page may be the superblock, and then the next start fails.

After such a failure the stream stays failed, and later flushes of that index
fail with an error; in the model each of them is a fault of its own.

### StringPool, Telemetry and Server

A handler goes through `query` (request id), `parse` (outside the mutex; string
literals are interned, in a statement with a later error, too), the execution
under the mutex of the Dbms, `log_request` and `respond` (telemetry, and the
answer). A request that is not UTF-8, or whose error message is not (the lexer
puts the first byte of a character that it refuses into its message), makes the
logger throw (logger.cpp:66, `log_request_throws`): the exception leaves the
handler, Crow answers with 500, and the request is in neither the log nor the
metrics. `NotUtf8` has these statements; the strings are UTF-8 in this module, so
the answers can be written (server.cpp:106 may throw as well while the log is
closed, but only after `observe`, and the request is answered all the same).
An execution is one step, unless it reads a string: then it takes a
reference with `get`, and `use_string` comes later, still under the mutex.
`StringPool` numbers the buffers of its vector; a reference into an old one
dangles, and reading it may do nothing, yield anything, or end the process
(`crash`). `Value::compare` takes two references; the older one decides, so one
is modelled. The main thread reports every now and then, reacts to the signal,
waits for the handlers and closes the log. Crow is external: it accepts requests
until `stop`, each in a thread of its own, and its `run` returns when the
handlers have.

`AnswersRight` is the exact extent of the hazard in `StringPool::get`: answers
are right unless another handler parsed a string that was new to the pool while
the reference was in use. TLC's traces show that this happens; the mutex of the
Dbms does not help, for parsing does not take it. `IdsDenoteStrings` follows the
ids instead of the references: `meant` is a history variable with the string that
was last inserted into each database, and the id in its row has to denote it, as
the id in every statement under way has to denote its literal, whatever is
interned in between; two such ids are equal exactly when their strings are, for
`Value` compares ids. `AllAccounted` counts: the metrics are those of all
requests answered, the log has every request that was logged, and the only ones
missing, in both, are those in `garbled`, which are not UTF-8, and only where
there is a log. `chosen` is a history variable:
the database that a client has selected, forgotten when another client selects
another one or drops it. `SelectionHolds` says that nothing else takes the
selection away; that another client's USE does is how the code is written, with
one `active_` for all.

Times of `Telemetry` are ticks, two to the second, so that the code's cutting of
ages to whole seconds is visible: an event between 600 and 601 seconds old is
counted when it entered the window behind a younger one, and is not counted
otherwise. `SnapshotExact` allows exactly that.

## Runs

| Run | Bounds | Shows |
|---|---|---|
| `pager` (`MCPager.cfg`) | 3 pages, 2 contents, capacities 0, 1, 2 | the invariants of the cache, the file and the stream's buffer |
| `pager_live` (`MCPagerLive.cfg`) | 2 pages, 2 contents, capacities 0, 1, 2 | the refinement of `PageStore`, and that a call that has started ends |
| `index` (`MCBspIndex.cfg`) | 7 keys, pages of 107 bytes, at most 5 pages when a call starts | all sequences of inserts and erases in trees of one and two levels |
| `index_deep` (`MCBspIndexDeep.cfg`) | 7 keys, pages of 50 bytes, at most 9 pages when a call starts, from a bulk-built tree | inner pages split, borrow, merge and are redistributed |
| `index_root_split`, `index_long_keys`, `index_no_sibling` | | three exceptions that the code takes to be impossible, see Findings |
| `table` (`MCTable.cfg`) | 2 indexed columns, 3 values (one too long for an index), 2 records, 1 failure | half-done rows, statements and saves, saves cut short |
| `table_unique` (`MCTableUnique.cfg`) | 2 failures | see Findings |
| `where` (`MCWhere.cfg`) | 4 tables of up to 3 rows with 2 indexed columns, one string that is not UTF-8, 35 clauses, all their conjunctions and disjunctions and some nested ones, 4 select lists | selection, order, errors and aggregates of every such statement |
| `storage` (`MCStorage.cfg`) | 2 tables, 2 keys, the process ends twice, 1 file operation fails | damage is confined, acknowledged statements are in the files |
| `server` (`MCServer.cfg`) | 2 clients, 2 databases, 2 strings, 8 statements, one of them not UTF-8; 3 requests, or 2 and 4 ticks | interleavings of handlers, shutdown, liveness |

Why the bounds are enough: capacity 0, smaller than the file and as large as
the part in use are the three regimes of the cache, and three pages let one be
read while another is evicted and a third is in the stream's buffer. Two
contents are what it takes to tell an old copy of a page from a new one; `pager`
takes them as symmetric, which is sound, since they are only compared. Two pages
are enough for the refinement: it relates one page at a time, and one other
page drives it out of the cache and out of the buffer. A page of 107 bytes holds five entries and one
of 50 bytes two, so with seven keys the two index runs between them reach the
split of leaves and of inner pages, alone and in pairs, the borrowing from the
left and from the right, the merging and the redistribution on both levels, and
the promotion of a root's only child (with eight pages instead of nine an inner
page never borrows from its right). One branch is out of reach at any bound:
`try_redistribute_internal_with_right` and `_left` let an inner page that
overflows take one more child, which cannot make it fit. `MaxPages` only stops
calls from starting, never a call in progress, and it is needed since the code
never reuses a page. `NoInternalFailure` holds up to these bounds only: beyond
them the root splits, and `index_root_split` shows what happens. Two records
and two indexed columns are enough for one record to hold what another wants
and for a row to be known to one index and not to the other.

The clauses of `where` have every operator in both directions, literals of
every type, NULL, unknown columns and bad patterns; two clauses are what it
takes for one to overwrite the limit of the other, and the rows are not in the
order of their keys. In `storage`, two tables are needed for a statement on one
to meet the files of the other, two ends of the process for an upgrade or a
CREATE that is interrupted and the start that suffers from it, and one failing
operation for an error in between; tables and keys are symmetric. In `server`,
two handlers suffice for every race of the list of hazards: one that reads and
one that parses, one that selects and one that drops, one that takes its time
first and enters it second. The first string a request brings finds the vector
full. Four ticks are two windows of ten minutes, of two ticks each. Requests and
ticks share a budget (`RequestCost`, `Budget`), so that long sequences of
requests are explored in one moment and long times with two requests.

Deadlock is checked in all runs but `storage` and `server`: a state where a bound
stops some calls still has others. In `storage` the process stays down when the
bound on its ends is used up, or fails at every start; in `server` it ends.

Fairness is assumed in two places. `Fairness` of `Server` asks that a handler
and the main thread keep running when they can. That is weak fairness per
thread. A `std::mutex` need not be fair, so a handler could wait for ever behind
an endless stream of others: `Progress` is about finitely many requests, which
is what it takes. Nothing obliges clients to send, signals to come or time to
pass. `FairSpec` of `Pager` asks that the code of a
call that has started keeps running, `WF_vars(Step)`. It is sequential code
under a mutex that waits for nobody. Nothing obliges a caller to call.

## Findings

* `index_root_split`: an insert that overflows an inner root throws "Corrupt
  index page": `split_internal` reads the separator from the new page before it
  is written (disk_bsp_index.cpp:1064).
* `index_long_keys`: a leaf is split by the number of its entries, not by their
  bytes; with long keys on one side that half does not fit, `write_page` throws,
  and its entries are gone (disk_bsp_index.cpp:865). This run uses the real page
  size and key limit.
* `index_no_sibling`: `bulk_build` can make an inner page with one child, and an
  erase there throws "Leaf has no sibling for merge" (disk_bsp_index.cpp:1160).
  Indexes are bulk-built when a table file of an older version is loaded.
* `table_unique`: an INSERT that an index refuses because the key is too long
  leaves its record in the table (table.cpp:191); two of them break the
  uniqueness that `INDEXED` implies.

## Proofs

All theorems hold for all values of the constants that satisfy the named
assumptions of the modules (`PagerAssumption`: at least one page, capacities
are naturals, the special contents differ from data; `TableAssumption`: the
columns, values and rows fit together; `StorageAssumption`: the markers (no file,
empty file, damaged, not open) differ from each other and from real contents;
`TelemetryAssumption`: the windows are nested and ten minutes are whole seconds;
`ServerAssumption`: finitely many clients, statements of the kinds the executor
knows; `WhereAssumption`: above). Which strings and requests are not UTF-8 is a
constant of its own in `Where` and `Server`, and any set will do.

**Pager.** The inductive invariant is `TypeOK` and `Safe`, the conjunction of the
invariants about the cache (`CacheShape` and `CacheBounded`, which make up
`CacheSound`, `CleanMatchesFile`, `NoLostPage`, `PendingCurrent`), with
`FlushReachesFile`. None is inductive alone:
`CleanMatchesFile` needs `PendingCurrent` for the page that `insert_slot` adds and
`CacheShape` for the victim that is dropped; `CacheBounded` needs `CacheShape` and
the cardinality of finite sets; `NoLostPage` needs `CleanMatchesFile` when a clean
page is evicted; `PendingCurrent` needs that evicting one page leaves the rest
of the file alone; `FlushReachesFile` needs `CleanMatchesFile` for the pages that
are clean when the last sync comes. Lemmas about the list (`MoveShape`,
`PushShape`, `DropShape`) carry `CacheShape`, lemmas about the stream
(`StreamOfWrite`, `StreamKept`, `InStreamKept`, `StreamOfFailedWrite`) say what file
and buffer hold together after each of its steps. `Refinement` then proves
`Spec => ImplementsPageStore`: one lemma per kind of step shows that `View` takes
it to a step of `PageStore` or to a stuttering one. The interesting cases are
`RefineEvict`, where a clean victim disappears and nobody notices;
`RefineFlushDone` and `RefineCloseDone`, where the file fails and nobody notices,
and no more than the page of the buffer is at risk; and writing at capacity 0,
where `NoCapacity` is needed: without an error nothing is cached then.

**The B*+ tree.** `BspIndexProofs` proves the type invariant, `FindCorrect`,
`ScanCorrect`, `BoundsCorrect`, `SuperblockCurrent` and `TreeShape` for any finite
set of keys of any lengths, any page size and any number of pages. Two
assumptions restrict the lengths (`IndexAssumption`): a leaf with one entry is
below the minimal fill, and an inner page with one child fits. The code
guarantees both by far, with `kMaxIndexKeyBytes` = 512 and pages of 4096 bytes;
the first is needed since a leaf that lends an entry must keep another, and the
code looks at the fill only. Nothing is assumed of which calls succeed: a call
that throws ends the run (`failed`), and until then every answer is right. The
theorems say nothing of an index that has thrown, except for the type invariant.

None of the properties is inductive, as they speak of the moments between calls,
and follow the pages down from the root. The proof describes a tree the other
way round, from its keys: `at[l][k]` is the page of level `l` above key `k`, with
the leaves on level 0 and the root on level `top`. The code has no such thing; it
exists for every tree, and it makes all levels, and all pages of a level,
alike. `Grid` says that the keys below a page are consecutive, that no page is
on two levels and that the keys of a page stay together on the levels above;
`Layer` that the pages are what `at` says: a leaf has the entries of its keys and
the next leaf (`NextOK`), an inner page has as children the row of the pages
below it (`Row`) and between them separators (`Seps`). `Settled` is such a tree
of exactly the entries of `contents`, or the empty leaf.

`TreeInv` is the inductive invariant. `Typed` gives the types of the pages, and
`AtRest` says that between calls the tree is settled and that `size_` and the
superblock are those of the tree. In the middle of a call the file alone is no
tree, for the page that overflows or underflows is still in memory. `InInsert`
says that the file with the node of the pending `split_leaf` or `split_internal`
put in its place is a tree with the new entry (`Waits`); `InErase` the same for
`fix_internal_underflow`, while before `fix_leaf_underflow` the file still has
the erased entry and only the node has lost it (`PendErase`); `InBulk` that the
level built last covers all entries (`BulkWaits`). In each case the path of the
call is the one that leads down to the node.

The argument goes in this order:

* *Dealing out* (`Dealt`, `DealLayers`, `DealFinish`). Splitting one page or two,
  borrowing over a border, merging and redistributing all take the keys of a page,
  or of two neighbours, and deal them out again to two, to three or to one page.
  That this leaves a grid, rows, separators and the chain of leaves is proved
  once, for any cut of the keys and on any level. The parent is then rebuilt, and
  `Rebuilt` shows that `rebuild_internal_keys`, which looks for the least key below
  each child, finds separators.
* *Writes.* Each function of the code is followed write by write (`WriteFacts`,
  `AllocFacts`, `WriteRebuiltFacts`) to the state that it leaves, which has to be
  `Good`: a settled tree, or a tree that waits for the next function, or an
  exception. There is one such theorem per function: `SplitLeafGood`,
  `SplitInternalGood`, `FixLeafGood`, `FixInternalGood`, `PropagateGood`,
  `PromoteEnd`. `FirstNotRight` shows that the code that moves `first_leaf_page_`
  when leaves are merged never has to.
* *Searching* (`WalkDown`, `PathFound`, `SlotFacts`, `Locate`). The search goes from
  page to page above one key of the tree, and comes to a leaf where the key is or
  belongs. With it `InsertGood` and `EraseWorkGood` treat what `insert` and `erase`
  do before they call anything. A key that is not in the tree yet gets the pages
  of the key whose leaf it goes to (`Grafted`).
* *bulk_build.* `RunsFacts`, `LeavesTree` and `LevelRaised`: the entries cut into
  leaves are a level, and a level cut into groups carries another one.
* *What users see.* `FindRight`; then iterators as the entries of keys in order
  (`Ptr`, `AdvanceIs`, `AtOrNextIs`, `ScanIs`), where `operator++` goes to the next
  greater key, in the same leaf or in the next; and `Subtree`, which translates
  `at` back into the pages below a page, for `TreeShape`.

**Table.** The invariant `Inv` says of the table in memory and of what the last
save had to write, whether the file got it whole or not, that they are well-typed,
ordered and without NULLs, and adds the control state, `NoStaleEntry` and
`IndexComplete`. It proves the six invariants of the run, and
that the uniqueness of `INDEXED` columns holds as long as no call has failed
(`UniqueUntilFailure`): the exact complement of the finding.

**Storage.** `Inv` has four parts. `Types` is `TypeOK` with the variables as
functions on the tables. `Control` says what the place in the program tells:
which tables a load or a save has still to treat, that a load touches only the
table it is at, that a save has written the index of the current table before
its rows. `DirInv` relates the directory to what the Dbms knows. `TablesInv`
says of each table how memory and files stand to each other: an index follows
its rows unless the table has been hurt, a table that nobody has touched is as
it was saved (or is still to be loaded), and a name that can be created anew has
no file left. The run's properties look at one moment each and lead nowhere on
their own: `CrashConfined` in the middle of a save needs that what has been
saved already agrees, which needs that memory was sound when the save began,
which needs that the load made it so. The two action properties,
`OpensUnlessHurt` and `RowsKept`, follow from `Inv` action by action.

**Telemetry and Server.** `TelemetryInv` says that the window is a suffix of all
events ever entered, and that every event in front of it is more than ten
minutes old. That is all that pruning from the front of an unordered window
guarantees, and it is enough for `SnapshotExact`: the lemmas count, with
cardinalities, the events of a suffix by their age (`ShiftFacts`), cut ages to
seconds (`BucketFacts`) and compare maxima (`MaxMonotone`). `Inv` of
`ServerProofs` adds the pool (its map is the inverse of its vector), the
handlers (ids of requests are distinct, the id of a literal denotes it, and a
handler whose reference dangles has been raced), the selection, the main thread
and the log. `AnswersRight` needs that the reference of a handler can only come
to dangle in a step of another handler's `parse`; `AllAccounted` needs that
request ids are distinct, so that logging one request does not hide another, that
`garbled` tells exactly the requests that the log refuses (`GarbledInv`), and that
the requests answered are finitely many, so that each adds one to their number.
`IdsDenoteStrings` needs that interning never changes an old id, and that the
string a row should hold is the one its id denotes (`MeantInv`).

**Where.** `eval_where`, `EvalThrows`, `Clauses` and `Truth` are recursive functions
on expressions, and the library's theorems about such functions and about
induction take an operator as a parameter, which the provers cannot instantiate.
`DataLemmas` states what is needed of them for sets and functions:
`TreeDefinition`, that equations which unfold a tree have a solution, and
`TreeInduction`, that a set with every node whose children it has is the whole
tree; both follow from `LeastNatural`. So `WhereProofs` first shows that the
recursive functions satisfy their equations, and then reasons by `ExprInduction`:

* `EvalRight`: where the code's evaluation does not throw it says TRUE exactly
  when SQL's logic does, though `tri_and` differs on FALSE AND UNKNOWN.
* `HintRight`: every limit of the hint comes from a clause that AND joins to the
  whole WHERE, so it is true of every row that is wanted, whichever of several
  clauses overwrote the others.
* `CandidatesRight`: what `select_candidates` returns has every row that is wanted,
  none twice, in the order of the keys or of insertion, for any answer of a
  search with a literal that does not compare.

The properties of the run speak of the end of a statement only (`pc` is "done" or
"error"), so none of them is inductive. `Inv` says what holds in the loop: the rows
found and the candidates left are ordered, the rows found are wanted, every row
wanted is found or a candidate, the accumulators are those of the rows found,
and an error has a reason among the rows of the table. `SumFacts` of `DataLemmas`
relates the accumulators to the sum over a set in `AggregatesExact`.

Only model-checked: `CallsReturn` and `Progress`, since liveness under fairness is
out of the prover's reach, and `NoInternalFailure`, which is true up to the
bounds of its run only. The three properties that runs find violated have no
theorems, of course.

## Not modelled, and what could come next

Left out, and why:

* **The encoding of pages.** A page is its entries, not its bytes. In
  particular the number of separators of an inner page is stored in one byte
  (disk_bsp_index.cpp:274) while (4096 - 16) / 15 = 272 separators of int keys
  fit: from the 256th on the page is read back with too few children. Some tens
  of thousands of inserted rows are enough. A tree of that width is out of TLC's
  reach, and with a smaller modulus than the code's the run would show nothing
  about the code. Leaves are safe, their entries being larger.
* **`Pager::open` that truncates** a file it could not open the first time
  (pager.cpp:110): it depends on the reason why the system refused, of which the
  code keeps no trace.
* **What an index does after it has thrown**, and what the tree makes of pages
  that are partly old: `Storage` and `Table` let such an index answer anything.
* **A table read from a `.dat` file that was cut short.** `Storage` lets its rows
  be anything; `Table` says nothing of it.
* **Widths of sums.** SUM is cast from `long double` to 64 bits
  (executor.cpp:457); the model adds integers.
* **The grammar**, compiled by bison and flex, which keeps no state between
  statements; **formatting**, labels and the text of the JSON (that it refuses
  strings that are not UTF-8 is modelled); the **memory estimate** of
  `bulk_build_guard`, arithmetic on sizes that the models do not have; the
  **command line programs**, input and output around `run_query`.

The theorems about the tree are about pages as `ParsedPage` has them. They hold
in the code as long as a page is read back as it was written, that is with at
most 255 separators in an inner page (first item above). What would be next to
prove: that an insert into a tree whose root is a leaf or has room never throws,
which bounds `NoInternalFailure` from the other side, and that pages are read back
as they were written, once the count of separators has room for them all.
