------------------------------ MODULE Catalog ------------------------------
(***************************************************************************)
(* The catalog of a database and what it owns, as the record db:           *)
(*   tables   the sequence of [name, cols, heap], an oid is a position;    *)
(*            heap is the sequence of [row, live], a rid is a position;    *)
(*   indexes  the sequence of [name, table, col, entries, latched];        *)
(*            entries, the [key, rid] of the B+ tree, are in key order;    *)
(*            latched: root_page_id_latch_ was left held by this session;  *)
(*   views    the sequence of [name, query];                               *)
(*   open     the outcome of what the language leaves open (the value of a *)
(*            bool that is neither, the order of an unordered_map).        *)
(* The tree and the heap have modules of their own (BPlusTree, TreeLatch,  *)
(* TableHeap); here they are what those show them to be to a single        *)
(* session: a map that may throw, abort or block, and a list.  The two     *)
(* counters of oids are the lengths of the sequences: nothing is ever      *)
(* dropped.                                                                *)
(***************************************************************************)
EXTENDS Types
LOCAL INSTANCE SequencesExt
LOCAL Rows == INSTANCE Tuples

CONSTANT PageSize       \* BUSTUB_PAGE_SIZE

ASSUME PageSizeAssumption == PageSize \in Nat

NoRid == 0
NoIndex == 0

EmptyCatalog(open) == [tables |-> <<>>, indexes |-> <<>>, views |-> <<>>, open |-> open]

(* The oids of the tables with a name: at most one. *)
GetTable(db, name) == {i \in DOMAIN db.tables : db.tables[i].name = name}

GetView(db, name) == {i \in DOMAIN db.views : db.views[i].name = name}

GetTableIndexes(db, table) == {i \in DOMAIN db.indexes : db.indexes[i].table = table}

(* A name in use is refused: NULL_TABLE_INFO. *)
CanCreateTable(db, name) == GetTable(db, name) = {}
CreateTable(db, name, cols) ==
    IF CanCreateTable(db, name)
    THEN [db EXCEPT !.tables = Append(@, [name |-> name, cols |-> cols, heap |-> <<>>])]
    ELSE db

CreateView(db, view, query) ==
    IF GetView(db, view) = {}
    THEN [db EXCEPT !.views = Append(@, [name |-> view, query |-> query])]
    ELSE db

-----------------------------------------------------------------------------
(* The B+ tree of an index on one INTEGER column.  GenericComparator finds  *)
(* a NULL equal to every key.                                              *)
KeyBefore(k, l) == IntegerCompare("LessThan", k, l, l) = CmpTrue
KeyIndex(entries, key) ==
    1 + Len(SelectSeq(entries, LAMBDA e : KeyBefore(e.key, key)))
FoundAt(entries, key, i) == i <= Len(entries) /\ ~KeyBefore(key, entries[i].key)

(* A call ends with the tree and "ok", with std::system_error from a latch  *)
(* the thread has, or waits for a latch the thread has itself.             *)
Ended(tree, out) == [tree |-> tree, out |-> out]

(* A writer locks root_page_id_latch_, and gives it back only if it finds   *)
(* the tree empty; else it latches the leaf, which an open iterator of the  *)
(* same statement (held) keeps.                                            *)
Write(tree, held, empty, entries) ==
    CASE tree.latched -> Ended(tree, "THROWS")
      [] ~tree.latched /\ tree.entries = <<>> -> Ended([tree EXCEPT !.entries = empty], "ok")
      [] ~tree.latched /\ tree.entries # <<>> ->
            IF held THEN Ended([tree EXCEPT !.latched = TRUE], "BLOCKED")
            ELSE Ended([tree EXCEPT !.latched = TRUE, !.entries = entries], "ok")

(* A key that is found is not inserted again. *)
Inserted(entries, entry, i) ==
    IF FoundAt(entries, entry.key, i) THEN entries ELSE InsertAt(entries, i, entry)
Removed(entries, key, i) ==
    IF FoundAt(entries, key, i) THEN RemoveAt(entries, i) ELSE entries

InsertEntry(tree, key, rid, held) ==
    LET entry == [key |-> key, rid |-> rid]
    IN  Write(tree, held, <<entry>>,
              Inserted(tree.entries, entry, KeyIndex(tree.entries, key)))

DeleteEntry(tree, key, held) ==
    Write(tree, held, <<>>, Removed(tree.entries, key, KeyIndex(tree.entries, key)))

(* GetValue locks the root as a reader, and asserts that there is one. *)
CanScanKey(tree) ==
    CASE tree.latched -> "THROWS"
      [] ~tree.latched /\ tree.entries = <<>> -> "ABORT"
      [] OTHER -> "ok"
ScanKeyAt(entries, key, i) ==
    IF FoundAt(entries, key, i) THEN <<entries[i].rid>> ELSE <<>>
ScanKey(tree, key) == ScanKeyAt(tree.entries, key, KeyIndex(tree.entries, key))

(* Begin and End return without the latch if there is no root. *)
CanIterate(tree) == ~tree.latched \/ tree.entries = <<>>

(* Mutant of NextLive: deleted rows are not skipped. *)
NextLiveAny(heap, i) == IF i > Len(heap) THEN NoRid ELSE i

(* The first live row of a heap from position i on. *)
NextLive(heap, i) ==
    LET live == {j \in i .. Len(heap) : heap[j].live}
    IN  IF live = {} THEN NoRid ELSE CHOOSE j \in live : \A k \in live : j <= k

(* TableHeap::GetTuple of a deleted row fails. *)
GetTuple(db, table, rid) ==
    IF db.tables[table].heap[rid].live THEN db.tables[table].heap[rid].row ELSE <<>>

(* The tree of an index made of a heap's live rows, in heap order: the      *)
(* third row throws, and leaves no index.                                  *)
NewTree == [entries |-> <<>>, latched |-> FALSE]
Populate(heap, col) ==
    FoldLeft(LAMBDA acc, rid : IF acc.out # "ok" THEN acc
                               ELSE InsertEntry(acc.tree, heap[rid].row[col], rid, FALSE),
             Ended(NewTree, "ok"),
             SelectSeq([i \in DOMAIN heap |-> i], LAMBDA i : heap[i].live))

(* A missing table or an index name the table has is refused. *)
CanCreateIndex(db, name, table) ==
    /\ table \in DOMAIN db.tables
    /\ \A i \in GetTableIndexes(db, table) : db.indexes[i].name # name
CreateIndex(db, name, table, col) ==
    LET populated == Populate(db.tables[table].heap, col)
    IN  IF CanCreateIndex(db, name, table) /\ populated.out = "ok"
        THEN [db EXCEPT !.indexes =
                Append(@, [name |-> name, table |-> table, col |-> col,
                           entries |-> populated.tree.entries,
                           latched |-> populated.tree.latched])]
        ELSE db

-----------------------------------------------------------------------------
(* What InsertExecutor and DeleteExecutor do for one row, in the table and  *)
(* then in each of its indexes, as far as none throws.  held are the        *)
(* indexes with an open iterator; the result is [db, out], out "refused" if *)
(* the table says no.                                                      *)
Changed(db, out) == [db |-> db, out |-> out]

(* Mutant of IndexDone: an exception is passed over. *)
IndexDoneBlind(db, i, c) == Changed([db EXCEPT !.indexes[i] = c.tree], "ok")

IndexDone(db, i, c) == Changed([db EXCEPT !.indexes[i] = c.tree], c.out)

OnIndexes(db, table, Change(_)) ==
    LET all == SelectSeq([i \in DOMAIN db.indexes |-> i],
                         LAMBDA i : i \in GetTableIndexes(db, table))
    IN  FoldLeft(LAMBDA acc, i : IF acc.out # "ok" THEN acc
                                 ELSE IndexDone(acc.db, i, Change(i)),
                 Changed(db, "ok"), IF db.open THEN Reverse(all) ELSE all)

(* TableHeap::InsertTuple takes what fits into a page with its header. *)
Fits(db, table, row) ==
    LET cols == db.tables[table].cols
        schema == Rows!Schema([i \in DOMAIN cols |-> cols[i].type])
    IN  Rows!TupleSize(row, schema) + 32 <= PageSize

InsertTuple(db, table, row, held) ==
    LET rid == Len(db.tables[table].heap) + 1
    IN  IF ~Fits(db, table, row) THEN Changed(db, "refused")
        ELSE OnIndexes([db EXCEPT !.tables[table].heap = Append(@, [row |-> row, live |-> TRUE])],
                       table,
                       LAMBDA i : InsertEntry(db.indexes[i], row[db.indexes[i].col], rid, i \in held))

MarkDelete(db, table, rid, held) ==
    LET row == db.tables[table].heap[rid].row
    IN  IF ~db.tables[table].heap[rid].live THEN Changed(db, "refused")
        ELSE OnIndexes([db EXCEPT !.tables[table].heap[rid].live = FALSE], table,
                       LAMBDA i : DeleteEntry(db.indexes[i], row[db.indexes[i].col], i \in held))
=============================================================================
