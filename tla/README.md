# A TLA+ verification of HMSSQL

HMSSQL is an educational relational database (a fork of CMU's BusTub): a shell
and an HTTP daemon, a SQL pipeline (binder, planner, optimizer, executors), a
storage engine (buffer pool, table heaps, B+ tree indexes) and a log with
checkpoints. This directory holds TLA+ models of its components, TLC
configurations that check them on small instances, and TLAPS proofs of the
results that matter for every size. Paths below are relative to the repository
(`src/...` is its source directory, `include/...` its headers).

## The system

| Component | State | Operations | Interacts with |
|---|---|---|---|
| `BufferPoolManagerInstance` | frames, page table, free list, replacer, next page id | NewPage, FetchPage, UnpinPage, FlushPage, FlushAllPages, DeletePage | hash table, replacer, disk manager; called by everything that stores |
| `LRUKReplacer` | two lists, access counts, evictable flags, size | RecordAccess, SetEvictable, Evict, Remove | called by the buffer pool under its latch |
| `ExtendibleHashTable` | directory, buckets, depths | Find, Insert, Remove | is the pool's page table |
| `DiskManager` | database file, log file, `buffer_used` | ReadPage, WritePage, WriteLog | pool, log manager |
| `LogManager` | LSNs, log buffer, flush thread, latch | AppendLogRecord, FlushAllLogs, Run/StopFlushThread | disk manager; called by the instance and the checkpoint manager |
| `CheckpointManager` | in-progress flag, mutex | BeginCheckpoint, EndCheckpoint | log manager, buffer pool |
| `HMSSQL` instance | databases, current catalog, session variables, two locks | SQL statements, `\save`, `\checkpoint`, CREATE DATABASE, USE, destructor | everything; the daemon's HTTP threads share one instance |
| `BPlusTree`, its pages and iterator | pages of keys, root id, root latch, page latches | GetValue, Insert, Remove, iteration | buffer pool |
| `TableHeap`, `TablePage`, `TableIterator` | chain of slotted pages | InsertTuple, MarkDelete, UpdateTuple, GetTuple, iteration | buffer pool |
| `Catalog` | tables, views, indexes by name and oid | CreateTable, CreateView, CreateIndex, lookups | table heap, B+ tree |
| Executors | per-query iterator state | Init, Next of scans, joins, aggregation, sort, DML | catalog, table heap, index |
| Optimizer, planner, binder | plan and scope trees | rewrites and translations | catalog |
| Type system | none | arithmetic, comparison, casts with NULL | executors |

What is hard here: the pool's four structures (page table, frames, free list,
replacer) must agree after every call; `FlushPgImp` takes no latch; a checkpoint
writes pages while clients change them; the log's flush thread, the server's
threads and the checkpoint share four locks; the hash table splits in a loop
that must end; a B+ tree's separators, parent links and leaf chain must survive
every order of splits and merges; table scans walk a page chain that other
threads extend, and release each page before they take the next. The server's
threads share one current database, and a statement reads it three times, once
without a lock; a statement changes rows and indexes one by one while the scan
below it reads them, and nothing is rolled back; a query passes through four
representations (parse tree, bound statement, plan, rewritten plan) that name
columns in three different ways; the same cast and the same comparison are
written once per type and per side. What makes each component correct is listed
with the properties below; `PROJECT.json` lists the hazards at their lines.

## Modules

* `LRUK` - the replacer as a record and its methods as operators on it, so that
  the pool can make several calls in one latched step. `LRUKReplacer` is the
  machine of its own: any client, any order of calls. Two history variables, a
  clock and the times of each frame's accesses since it was last forgotten, play
  the timestamps the header speaks of.
* `PageStore` - what the pool promises: numbered pages, created blank and
  pinned, changed only by a client that has them pinned.
* `BufferPool` - `BufferPoolManagerInstance`. `pages`, `page_table`,
  `free_list`, `replacer`, `next_page_id` are the class's members, `disk` the
  file. A latched method is one action (`NewPg`, `FetchHit`, `FetchMiss`,
  `UnpinPg`, `DeletePg`); `FlushPgImp` is two (`FlushFind`, `FlushWrite`) since it
  takes no latch; `FlushAllPgs` is a loop of `FlushAllStep` under the latch.
  `pinned`, `wrote` and `flushing` are the clients: one client is one
  fetch-to-unpin bracket. `touched` is history. When `Evict` fails the code goes on
  with an uninitialised frame id: the model then takes any frame. `MCBufferPool`
  gives TLC its initial file and the symmetry.
* `Dictionary` - a map. `ExtendibleHashTable` - the table that implements it:
  `Insert` takes the latch, `InsertSplit` is one turn of its loop, `InsertStore`
  the rest. A bucket's list is a set of pairs: no code depends on the order.
* `LogManager` - the log manager, its flush thread and `WriteLog`. `call[t]` is
  the method thread `t` is in. A record's address is a block and a position,
  because `WriteLog` compares addresses. `Checkpoint` composes it with the
  checkpoint manager and the instance's commands, run by server threads.
* `BPlusTree` - the index pages as a function from page ids to nodes. `Insert`
  is `StartNewTree`, `InsertIntoLeaf` or `InsertAndSplit`, then one step per level
  (`InsertIntoParent`, `SplitParent`, `NewRoot`); `Remove` is `RemoveKey`, then one
  `RemoveRebalance` per level. `op` is what the call has still to do. `GetValue`
  and the iterator's walk (`Scan`) are operators. It implements `Dictionary`.
  Calls do not overlap here: root id, keys and links are protected by latches
  that are the subject of `TreeLatch`. Pages that were unlinked are dropped from
  the model; in the code `DeletePage` refuses them, being pinned, and they stay
  in the file unused. The header page's copy of the root id is left out.
* `TreeLatch` - `root_page_id_latch_` and the latch of the root page under
  concurrent `Insert`, `Remove` and `GetValue`, as far as a tree of one page: with
  the code as it is no tree grows beyond that under a second insert that waits.
* `TableHeap` - the page chain, the slots, the latches (`owner` is the inserter
  that has a page), `InsertTuple` in its steps between latches (`ins`), `MarkDelete`
  and the scans (`scan`): `Begin`, the iterator's constructor and `operator++`. A
  row's bytes are its size; `rid` and the part `owed` of a scan are history.
  A slot with size 0 exists only after `ApplyDelete`, which nothing calls.
* `Types` - `Value` and the `Type` singletons: construction, casts (`CastAs` and
  the second set in `ValueFactory`), comparison, arithmetic, Min and Max, each
  with its NULL and range tests. The widths of the integer types are constants;
  every sum and product is computed in the width C++ promotes to and wraps there.
  A text is its character codes, a DECIMAL a rational. Where an integer becomes a
  double (mixed comparison and arithmetic, casts, the limits of a range test,
  `std::stod`) it is rounded to the nearest one of `MantissaBits` bits (`Rounded`).
* `Tuples` - `Schema` offsets and `Tuple` as bytes: a byte knows the word it is
  part of, so a read that does not cover one word as it was written is torn.
  `Values` calls all of this on two values and the row they form.
* `Catalog` - tables, views and indexes by name and oid; inserting and deleting a
  row with its index entries. The heap is a list, which `TableHeap` justifies, and
  refuses a row that fits no page. The tree is an ordered map, which `BPlusTree`
  justifies, with the latch that `TreeLatch` is about: `latched` says that an
  earlier `Insert` or `Remove` of this session found the tree not empty and kept
  `root_page_id_latch_`. The session's next call on that tree throws
  (`std::system_error`, "resource deadlock would occur") after the heap was
  changed; `GetValue` of an empty tree fails its assertion; a write waits for ever
  for a leaf that an iterator of the same statement has latched.
* `Plans` - expressions (with `Evaluate`) and plan nodes. `Executors` - `Init` and
  `Next` of every executor. `Optimizer` - one operator per rewrite rule and the
  two rule lists. `Binder` - from libpg_query's tree to the bound statement.
  `Planner` - from there to a plan.
* `Meaning` - what a bound SELECT means, without plans or executors: the
  reference for the four modules above.
* `Query` - one statement on its way through `HMSSQL::ExecuteSqlStatement`: bind,
  plan, one step per rule, start the executor, one step per `Next`. INSERT, DELETE
  and UPDATE change the catalog row by row while their child reads it (`ModifyStep`
  is one turn of their loop). `meant` is history: what `Meaning` says the bound
  query may answer, computed when it is planned, and empty where the engine is
  known to answer otherwise (`Deviates`) or its plan is broken. A statement
  is done, or has thrown (`THROWS` and the kinds of error), or has ended the process
  (`ABORT`), or waits for itself (`BLOCKED`); what it did stays done.
* `Instance` - several server threads in `ExecuteSqlStatement` on one instance:
  USE, CREATE DATABASE, CREATE TABLE and table statements, `catalog_lock_`, the
  two assignments of `UseDatabase`, and the lookups that take no lock. A lookup
  that races with a writer finds the old or the new contents or kills the
  process (`Race`; `UseDatabase` has two such lookups). `began`, `moved`, `mixed` and
  `made` are history: the database in use when the statement was bound, whether a
  `UseDatabase` has changed `catalog_` since then, whether two of them met, what was
  created. The session's own USE is a statement of its own, over before the next one
  begins: it never sets the `moved` of a statement of its batch. Here a statement is
  only which table it reaches; what it does there is `Query`.
* `LRUKReplacerProofs`, `BufferPoolProofs` (which uses the lemmas of the former),
  `ExtendibleHashTableProofs`, `BPlusTreeProofs`, `TableHeapProofs`,
  `CheckpointProofs`, `InstanceProofs`, `ValuesProofs` - the proofs.

`BufferPool` takes the page table as a map, which the refinement of
`ExtendibleHashTable` justifies; `Checkpoint` takes `FlushAllPages` as one step,
which `FlushAllDurable` of `BufferPool` describes; `Query` runs one statement
of one session alone, since what two of them share is the catalog (`Instance`), the
heap (`TableHeap`) and the tree (`TreeLatch`, where a second session blocks at the
latch that makes the first one's next call throw).

## Runs

| Run | Instance | Shows |
|---|---|---|
| `lruk` | 3 frames, k = 3, at most 8 accesses | `ReplacerConsistent`: the lists partition the tracked frames by access count, the size is the number of evictable frames, `Evict` finds a victim when there is one; `EvictionOrder`: a frame with fewer than k accesses goes first, the one with the earliest access, and a frame with k never while another was not used during its last k accesses |
| `buffer_pool` | 2 frames, 3 pages, 2 clients, 2 contents, k = 2, FlushPage under a pin | the bookkeeping agrees (`PageTableMatchesFrames`, `PinsAreHeld`), `Evict` never fails where its result is ignored, a page unchanged since `FlushAllPages` began is on disk once the loop has passed it, what is written to a page of the file is that page's contents, and the pool implements `PageStore` |
| `hash_table` | 5 keys of 3 hash bits, buckets of 2 | `TableConsistent`: directory entries share a bucket exactly when the bucket's low bits agree, pairs are where they are looked up, the directory stays within the hash's bits; the table is a map and insertion ends |
| `checkpoint` | 2 server threads, 3 database names, the flush thread | `LogOrdered`: LSN order in the log; `CheckpointConsistent`: one checkpoint at a time (so `EndCheckpoint` never throws) and the log flushed before the pages; every command ends unless the flush thread waits for itself |
| `log_loss` | the same | violated: a record is skipped and counted as persistent |
| `flush_thread` | the same | violated: the flush thread blocks on the latch it holds |
| `b_plus_tree` | 6 keys, leaf and internal pages of at most 3 entries | `TreeConsistent`: after each call the tree is balanced, filled and linked and every search ends where the key is; at every step the leaf chain has all keys in order; `ImplementsMap`: it is a map |
| `tree_latch` | 2 threads | violated: `Insert` keeps the root latch, no later call of another thread returns |
| `table_heap` | 2 inserters, 1 scanner, 5 rows of four sizes, one of them refused | inserted rows stay on the chain, a scan returns every row that was there all the time, once and in order, links and RIDs keep their meaning, free space never wraps, every call ends |
| `types` | integers of 3, 4, 8 and 9 bits, doubles of 7, every pair of 49 values of all types | sums, differences, products, quotients and remainders of integers are exact or refused; comparisons, Min and Max of numbers agree with their values from both sides, but for a BIGINT taken for the DECIMAL it is rounded to; a cast keeps the number and NULL, or gives the nearest double, and the factory's cast agrees with it; a stored row reads back, also through a key schema |
| `query` | 96 statements, each on 11 small databases, under both rule lists | names resolve to one column or are refused; the plan, each rewrite of it and the rows polled from the executors mean what the statement means; `DmlMeansStatement`: INSERT and DELETE that end change exactly the rows they say, once; `IndexesKeepStep`: entries agree with their rows, and only the row at which a statement was stopped is out of step; every statement ends, but an INSERT that reads its own table |
| `instance` | 2 threads with up to 2 requests of 2 statements each | `StatementsHitTheirTable`: a statement that no other session's USE falls into runs in the database in use when it began, on the table it names there; `CreatesOnce`: of two creations of one name at most one succeeds; `CurrentNamesCatalog`: the name and the catalog pointer agree; `CatalogsKept`: databases and tables are never lost or renumbered; every batch ends |

Bounds. With 2 frames and 3 pages every eviction, write-back and refetch
happens, with both a free frame and a full pool; 2 clients give shared pins and
a pool with every frame pinned; k = 2 puts frames in both lists. In `lruk` 8
accesses take 2 of the 3 frames past their k-th, in either order of first and last. Three hash bits
and keys that differ only in the last one force two splits in a row and a
directory with buckets of different depths. Three records let the log's vector
grow twice and be reused after a clear. In `b_plus_tree` six keys in leaves of two give three levels, so
splits and merges of internal pages, redistribution in both directions at both
levels, and the collapse of the root all happen; twelve page ids are more than
any tree needs. In `table_heap` the rows that are accepted need at most four
pages, so `MaxPages` = 5 is never reached; two inserters meet at the end of the
chain, and the scanner meets pages that are empty, full of deleted rows, and
appended behind it. In `types` the widths keep
the order and the ratios that matter (the product of two SMALLINTs fits INTEGER, a
double holds every INTEGER but not every BIGINT, and the greatest BIGINT rounds to a
power of two above it), and the sample has the limits of each type, its
NULL pattern, values on both sides of every sum and product that overflows, BIGINTs
that are rounded and the DECIMALs they are rounded to, and DECIMALs at, below and
above the limits of BIGINT. In
`query` the three tables start with at most three rows and an INSERT stops at six
(`MaxRows`, which only one that reads its own table reaches); a page of 56 bytes
(`PageSize`) takes every row but one with the long text. The databases are made by
the operations of `Catalog` themselves, so that their indexes are in the states
earlier statements leave them in: empty, with one entry, latched with a row that has
no entry, with a deleted row whose entry is still there or was taken out, with two
indexes on a table, with NULL keys; and without indexes. What the language leaves open (the value
of a bool that is neither, the order of an `unordered_map`) is the catalog's
field `open`, with both outcomes. In `instance` two requests per thread let each
set up what the other uses, and a switch falls between any two reads of the
other's statement. The access count saturates at k, where
the code stops telling counts apart. The pool model restarts page ids at 0 on
an existing file, as the code does. Client symmetry is used in the runs without
liveness only.

Fairness. `hash_table` assumes that a thread inside `Insert` keeps running; it
holds the only lock it needs. `checkpoint` and `flush_thread` assume that every
thread keeps running and that one which finds a mutex free again and again gets
it (strong fairness): the only competitor that returns forever is the flush
thread, which sleeps 100 ms with the latch free in each turn. `query` assumes that
the one thread keeps running (`Running`, weak fairness with its ENABLED written
out), `instance` the same of every thread: a thread waits only for
`catalog_lock_`, whose holder gives it up in its next steps, and requests are
finitely many. `b_plus_tree` states that a call that has begun goes on; its
properties are safety and do not need it. `table_heap` and `tree_latch` assume that a
thread inside a call keeps running and that a latch which is free again and
again is granted; each holder of a page latch gives it up after finitely many
steps of its own, and there are finitely many rows. Deadlock is not checked in
`Checkpoint`'s runs because the instance may be destroyed, after which nothing
happens, in the table heap's because all rows may be inserted, deleted and
scanned, and in `tree_latch`, where it is the finding. `Query` and `Instance` end
in a step of their own (`Idle`, `Stopped`), so a deadlock before that is one.

## Findings

Three runs end in a violation and are in `PROJECT.json` with the lines they
contradict: the log record dropped by address, the flush thread that locks
twice, and the root latch that `BPlusTree::Insert` and `Remove` keep.

The models also show where the code does something else than one may expect and
no run asserts it, or a property exempts it by name.

Storage.
* `LRUKReplacer` evicts frames with k accesses in the order of their last access.
  The header promises the largest backward k-distance (lru_k_replacer.h:28, 59),
  which is the order of the k-th last access: with k = 2 and accesses f g g f the
  header evicts f and the code g. `EvictionOrder` states what is true of both orders,
  so no run asserts that the code keeps the promise, and it does not.
* `buffer_pool` checks `WritesOwnContents` for callers of `FlushPage` that have the
  page pinned (`PinnedFlush` = TRUE). `FlushPgImp` takes no latch, and without the
  pin the property fails: the frame may get another page between lookup and
  write. No code of the repository calls `FlushPage`.
* `SaveState` begins a checkpoint that nothing ends: every later `\save` or
  `\checkpoint`, and the save in the destructor, is refused.
* `TableHeap::Begin` reads the next page id after it has unpinned the page. With
  `Evicts` = TRUE the frame may hold another page by then and `ScanComplete` fails;
  the run takes `Evicts` = FALSE.
* `Begin` finds a row and the iterator's constructor reads it again: a deletion in
  between makes the scan throw (`Open`).
* B+ tree: `DeletePage` refuses the merged pages, which are still pinned, and pins
  of the way down are never given back.

Server threads (`Instance`).
* One `current_database_` and one `catalog_` serve all sessions. A USE of another
  session that falls between the binding and the execution of a statement (`moved`)
  sends the statement to another database, or ends the process there.
* The binder of a batch keeps the catalog in use when the batch began. After a USE,
  by the batch itself or by others, a SELECT is planned again by name and reads the
  right table, or fails an assertion if only the binder's database has one; an INSERT
  keeps the oid of the binder's database and writes to whatever table has that oid
  in the one in use. `StatementsHitTheirTable` says nothing of that INSERT's table.
* Two overlapping `UseDatabase` calls (`mixed`) may leave the name of one database
  and the catalog of the other.
* `CreateDatabase` and `CREATE TABLE` change maps that `UseDatabase`, the binder and
  the executors read without `catalog_lock_`: `Race` ends the process.

Statements (`Query`; `Deviates`, `KnownUnsound`, `FollowsItself`).
* `RemoveJoin` drops a join with the rows it filters or multiplies, and its columns;
  `ReorderJoinUseIndex` changes the order of columns and makes a LEFT join INNER;
  `RemoveColumn` reads the fourth of fewer aggregates (aborts) or drops the wrong
  column.
* A table with an index takes two rows: the second `Insert` into the tree keeps the
  root latch, so that the session's third row is in the table, not in the index, and
  the statement throws. A deletion from a tree that is not empty keeps the latch as
  well, so a DELETE throws at its second row, marked but still in the index; and an
  index cannot be made over three rows. `IndexesKeepStep` allows for the row at which
  the statement stopped, and only for it.
* `NLJAsIndexJoin` and `OrderByAsIndexScan` lose the filter that was merged into the
  scan they replace. With an index that lacks rows (duplicate keys, or a statement
  that was stopped), they and `MergeFilterIndexScan` miss those rows; with one whose
  latch is held they throw, with an empty one the lookup of a key aborts, and an entry
  with a NULL key answers for every key (`ReadsBadIndex`). `MergeFilterIndexScan` also
  takes NULL and other types as the key.
* `MergeFilterScan`: the scan reads a NULL predicate as a bool, the filter executor
  does not. `FalseFilter` and `MergeFilterNLJ` may throw from a cast.
* A LEFT hash join drops rows with a NULL key, a NULL VARCHAR key aborts, keys of
  different types never meet. The executors refuse RIGHT and FULL joins.
* NULL in GROUP BY aborts (with aggregates) or gives two groups (DISTINCT); NULL
  sort keys are no order. An aggregate of no rows gives a row only if it has one
  column, and DISTINCT of no rows aborts. MIN, MAX and SUM of VARCHAR abort, and so
  do VALUES whose rows differ in their types.
* `+` and `-` in expressions wrap at 32 bits, other than the arithmetic of `Types`;
  the reference takes them as they are.
* INSERT ... SELECT from its own table never ends (from two rows on), or waits for the
  leaf its own index scan has latched (`WalksItself`). A row too long for a page is
  dropped without an error and not counted. UPDATE aborts at
  the first row (`TablePage::UpdateTuple` copies to a null pointer). A statement that
  fails keeps what it has done.
* A VARCHAR column without a length crashes the binder before its own check.
  `SET force_optimizer_starter_rule` only works with the integer 1. Table aliases are
  accepted and ignored, views cannot be queried, CREATE INDEX is refused by the
  binder (indexes come from `Catalog::CreateIndex`), and so is `PRIMARY KEY` in
  CREATE TABLE.

Types (`Confused`, `BecomesNull`, `WrapsText` and the cases `TwoCastsAgree` names).
* A BIGINT and a DECIMAL are compared as doubles: a BIGINT of more than 53 bits is
  equal to the DECIMAL nearest to it, and 2^53 + 1 to 2^53. A cast to DECIMAL gives
  that nearest double.
* The limits of BIGINT are compared as doubles too (decimal_type.cpp:300,
  value_factory.h:146). DECIMAL -2^63 passes and becomes the NULL of BIGINT. DECIMAL
  2^63 is refused by `CastAs`, while `CastAsBigInt` converts it, which is undefined
  (the model takes either limit of the type).
* Text out of range becomes another number when cast to TINYINT or SMALLINT.
  The factory appends a NUL when it casts VARCHAR to VARCHAR; a NULL VARCHAR
  cast throws. A comparison of a number with a VARCHAR depends on the side
  (`ComparisonsAgree` is about numbers). A result one below the least value is
  returned as NULL.

## Proofs

`LRUKReplacerProofs` proves, for every number of frames and every k >= 2, that each
operator of the replacer preserves `ReplacerOK` (the two lists are injective and
hold exactly the frames of their access count, only tracked frames are
evictable, the size is the number of evictable frames), and what each does to
the counts and flags. The facts on erasing from an injective sequence and on the
cardinality of the evictable set are lemmas of their own.
It concludes `ReplacerIsConsistent`, and `EvictsInOrder`: the
class keeps no timestamps, so that what the victim's accesses were depends on the
order of the lists alone. `OrderInv` adds that order: `history_list` is sorted by
first accesses and `cache_list` by last ones, latest in front, and a count is the
number of remembered accesses, saturating at k. An access moves a frame of
`cache_list` to the front and leaves `history_list` alone, which is what makes both
orders inductive; erasing keeps them (`EraseOrdered`). The victim among frames with k
accesses thus has the earliest last access, so that no other can lie before its last
k: what header and code share of the k-distance follows.

`BufferPoolProofs` proves that `BookInv`, the conjunction of `TypeOK`,
`PageTableMatchesFrames`, `FreeOrMapped`, `PinsAreHeld` and `ReplacerTracksPins`,
is inductive. None of its parts is inductive alone: an unpin needs the pin count
to be the number of holders to stay non-negative; the free list must hold
exactly the unmapped frames for a new page not to take a mapped one; the
replacer must track exactly the mapped frames, and may evict exactly the
unpinned ones, for the victim to be unpinned. From `BookInv` follow `TypeCorrect`,
`PageTableCorrect`, `PinsCorrect` and `EvictCannotFail`, for every pool size,
every k >= 2 and any finite set of clients, with or without `PinnedFlush`. The
assumptions are `LRUKAssumption` and `BufferPoolAssumption`, which TLC evaluates.

`TableHeapProofs` proves that `HeapInv` is inductive, for any sets of inserters
and scanners, any rows and any page layout with room for a header and a slot.
Besides the types it says what a latch protects: an inserter inside its loop
owns the page it stands on, and the link it read there is still the page's
link. Without the second fact two inserters could append behind the same page;
without the first it would not survive the other's step. The free space of a
page is shown not to wrap by the room test of `TablePage::InsertTuple`. From
`HeapInv` every step keeps links and rows (`PagesKept`), which gives
`HeapTypeCorrect`, `LinksNeverOverwritten` and `RidsNeverReused`. The assumption
is `HeapAssumption`; these proofs do not depend on `MaxPages` or `Evicts`.
With it `ReachInv` (`HeapInv`, every page but the last is linked to the one
allocated after it, every RID is a slot of a page) gives `RowsStayReachable`: what
`Chain` computes is every page, by induction on its recursive function.
`ScansReturnEverything` needs the place of each scan in addition (`ScanInv`): a
row still owed is at or behind the slot the iterator stands on, or on a later
page, and what it has returned is in order and before it. It assumes `~Evicts`,
the case the run checks; `Findings` says what happens without it.

`BufferPoolProofs` goes on from `BookInv` to the contents. `ContentInv` adds that a
mapped page which is not dirty and not changed under a pin equals the file
(`CleanOnDisk`), that a client between lookup and write of `FlushPgImp` still has its
page in that frame (`FlushesHeld`), and `FlushAllDurable` said of the pages in the
pool. A write-back needs the first, since it skips clean frames, and the flush needs
the second, which only a pin gives: hence `ASSUME PinnedFlush` in
`FlushAllIsDurable`, `WritesAreOwn` and `PoolImplementsStore`. The last one is the
refinement of `PageStore` with `Content` as its state: new, fetched, unpinned and
deleted pages are steps of the store, evictions, flushes and the steps of
`FlushAllPgs` leave `Content` as it is.

`ExtendibleHashTableProofs` proves `TableInv` inductive, for any finite set of keys,
any hash function, width of the hash and bucket size that `HashAssumption` admits:
entries of the directory share a bucket exactly when they agree on the bucket's low
bits, every bucket is in the directory, and every pair is where its hash leads. A
turn of the loop in `Insert` is a doubling (when the depths are equal) and a division
of one bucket; each is shown to keep the invariant on its own. That the directory
never outgrows the hash's bits uses the assumption that fewer keys than a bucket holds
share a hash: two keys of a full bucket differ in some bit. `TableStaysConsistent` and
the refinement of `Dictionary`, `TableImplementsMap`, follow; a split changes neither
the pairs stored nor what `Find` returns.

`CheckpointProofs` proves `CheckpointInv` for any number of threads and database
names. Its log part says what `latch_` protects: between calls the buffer holds the
LSNs from `persistent_lsn` + 1 on, and during the loop of `FlushAllLogs` the records
before `flush_pos` are counted as persistent. The log file is ordered because each
record is above `persistent_lsn` when it is written, even though some are skipped (the
finding of `log_loss`). Its checkpoint part adds which method of the log manager a
command is in, and that there are as many records as databases created, which bounds
the LSNs. Hence `CheckpointsAreConsistent` and `LogIsOrdered`. `LogAssumption` asks
for two blocks, since a vector that grows moves.

`InstanceProofs` proves `InstanceInv` for any number of sessions and any batches: the
writer's lookup stays true until it stores (`LookupHolds`); a statement between its
binding and its execution is `Sound` (`BoundHolds`), that is, until another session
moves it the database in use is the one it began in, its oid is from the binder's
catalog until it is planned, and from then on a SELECT's is from the database in use;
a missing table has a session that may miss it (`MayMiss`); a session between
the two assignments of `UseDatabase` is alone there unless `mixed` (`SwitchAlone`),
and databases only grow. Hence `StatementsCorrect`, `CreatesCorrect`, `CurrentCorrect`
and the action property `CatalogsCorrect`.

`BPlusTreeProofs` proves that `TreeInv` is inductive, for any set of keys, any page
ids, leaves of at least 2 and internal pages of at least 3 entries
(`TreeAssumption`). What `TreeConsistent` says (balanced, half full, linked, every
search and scan right) is not inductive: a split that has not reached the parent yet
breaks most of it, and that a search ends at the right leaf is a statement about whole
paths. `TreeInv` instead gives every page a level and an interval [lo, hi) of keys,
existentially quantified, and says of each page and its children only: the children
are one level lower and their intervals are those between the separators; leaves have
level 0 and the interval's keys in order; the next leaf begins where this one ends; a
child's parent link names the page that points to it. Two pages of a level have
disjoint intervals. Of the sizes, one page may be short by one entry (the page that
`RemoveRebalance` is about to mend), and one split pair, `op.old` and `op.new`, stands
for the one page its parent still sees. Each action has a lemma: an insertion and a
removal change one leaf; `InsertAndSplit` and `SplitParent` cut one interval in two,
`InsertIntoParent` and `NewRoot` enter the cut above; `Coalesce` joins two neighbours,
the redistributions move one boundary, `AdjustRoot` drops a level. Since the split at
`GetMinSize` leaves both sides at least half full, and two siblings are merged
only if they fit one page, the bounds on sizes are kept for odd and even limits alike.
From `TreeInv` follow the parts of `TreeConsistent` (`InvConsistent`): searches follow
the intervals down, by induction on the level; the leaf chain is walked in the order of
`lo`, which is also why `Scan` ends. Hence `TreeStaysConsistent`. In the refinement
`TreeImplementsMap` the keys stored change by the key of the call in the first step of
`Insert` or `Remove`, and by none in the steps that follow. `Pages` may be too few for
a split: the step then waits (`PageLeft`), which the run never meets.

`ValuesProofs` is about the operators of `Types` and `Tuples`, for any widths that
`WidthsAssumption` admits (those of C++ among them) and any values the constructors
make (`SampleAssumption`): the machine is one call, so `CallInv`, that the last call
is one of the API with its result, is all the induction there is. `ArithmeticIsExact`
rests on what a wrapped sum, difference or product looks like when it does not fit:
for products, that dividing the wrapped value by one factor cannot give the other.
`ComparisonsAreOrder` and `CastsAgree` compare the per-type code with one definition.
They and `CastsKeepValues` rest on what rounding to a double does: it keeps a number of
few enough bits, passes no double (`RoundedAdjacent`) and never reverses an order
(`RoundedOrder`), and it takes the limits of BIGINT to powers of two (`BigLimits`). From the second
follows that the two sides of a mixed comparison can only be taken for equal, and
only by `Confused`; from the last, which DECIMALs a cast to BIGINT lets through.
`CastsKeepValues` includes the round trip of every integer through its decimal text,
for texts of any length. `TuplesKeepValues` rests on `RowReads` and `KeyReads`, which
hold for rows of any number of columns and any choice of key columns: a schema's
offsets are running sums, so the fixed parts of two columns never overlap (`SumsGrow`),
the varlen parts begin where the fixed ones end and follow each other in the same way,
and a step of the constructor writes one column's two parts and keeps all other bytes
(`TupleStepWrites`, `InColumnStays`). An offset is a natural number there: that it
fits the 32 bits it is stored in is left to the page size.

The provers have no induction over data. Where a recursive function occurs (`Chain`,
`Pow2`, `Pow10`, `DigitsValue`, `Sums`, the columns of a row, the
levels and the leaf chain of the tree) the proofs take a least counterexample, which the
well-foundedness of the natural numbers gives (`LeastOfNats`), and show that the
function exists (`PrimitiveRecursion`, where it is needed).

Assumptions. Those of the constants are in the modules and TLC evaluates them in the
runs: `LRUKAssumption`, `MaxAccessesAssumption`, `BufferPoolAssumption`,
`HeapAssumption`, `HashAssumption`, `TreeAssumption`,
`LogAssumption`, `CheckpointAssumption`, `InstanceAssumption`, `WidthsAssumption`
(an INTEGER fits a double, a BIGINT does not), `SampleAssumption`, `PageSizeAssumption`. Two theorems' hypotheses are cases of a
constant: `PinnedFlush` and `~Evicts`, both what the runs take.

Only model-checked:

* liveness (`InsertEnds`, `CommandsEnd`, `CallsEnd`, `StatementEnds`, `BatchesEnd`),
  which is outside the prover's reach;
* `Query` (`ColumnsResolveOnce`, `PlanMeansQuery`, `RulesPreserveResult`,
  `AnswerIsRight`, `IndexesKeepStep`, `DmlMeansStatement`): it and most modules below it use RECURSIVE operators (plans, expressions
  and table references are trees), which keeps them from the prover.

## Not modelled

Log recovery, the clock and LRU replacers and the disk hash tables are stubs in
the source. Parsing is a vendored library; the binder's input is its tree.
Formatting, logging, the listings (`\dt`, `\di`, `\dc`) and the web console are
I/O, and so are the bytes of `SaveState`'s file, which nothing reads back
(`LoadState` is declared only). File offsets are left out, with them that
`ReadPage` computes its offset in int and fails beyond 2 GiB.

A page write that overlaps a client's stores is taken as atomic: such a page
counts as changed, and no property promises its contents before the next flush.
`TablePage::UpdateTuple` copies the old row to a null pointer, so no state after it
is defined; `ApplyDelete` and `RollbackDelete` have no callers, and neither have
`BPlusTree::Begin(key)` and `Sqrt` of the types. The header page's copy of the root
ids is only written.

In the pipeline: mock tables with their scan, and `PredicatePushDown`, which only
rewrites filters over them; references to common table expressions; temporary
tables; `TIMESTAMP`, of which no statement makes a value. The names the binder
makes up for subqueries are unique within a list, as far as the statements of the
run tell them apart. Fractions and the results of DECIMAL arithmetic are not rounded to
doubles, integers are. A statement of `Query` runs in a session that has made every
earlier one itself: the latch another session left makes a call wait for ever
(`TreeLatch`) and not throw.

## Plan

Every safety property of the runs outside `Query` is a theorem. What is left:

1. `Catalog` and the DML executors without their plans, as a machine of their own:
   `IndexesKeepStep` depends on neither trees of expressions nor RECURSIVE
   operators and could be proved there.
2. The latches of `TreeLatch` for a tree of more than one page, once `Insert` and
   `Remove` give the root latch back.
