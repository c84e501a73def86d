------------------------------ MODULE Executors ------------------------------
(***************************************************************************)
(* The executors, in the iterator model: Init prepares an executor and its *)
(* children, Next returns one row.  An executor is a record with its plan, *)
(* the executors of its children and its own fields; both calls return     *)
(* [s, out, row, rid] with the executor after the call and out "ok",       *)
(* "row", "end" or the kind of the exception.                              *)
(* db is the catalog they read (module Catalog).                           *)
(***************************************************************************)
EXTENDS Plans
LOCAL INSTANCE SequencesExt

Ok(s) == [s |-> s, out |-> "ok", row |-> <<>>, rid |-> NoRid]
Emit(s, row, rid) == [s |-> s, out |-> "row", row |-> row, rid |-> rid]
End(s) == [s |-> s, out |-> "end", row |-> <<>>, rid |-> NoRid]
Fail(s, kind) == [s |-> s, out |-> kind, row |-> <<>>, rid |-> NoRid]

FirstError(values) ==
    values[CHOOSE i \in DOMAIN values : /\ IsError(values[i])
                                        /\ \A j \in 1 .. i - 1 : ~IsError(values[j])]

(* The row of a Tuple: one value for each column, else an assert fails; a   *)
(* value of another type than its column is written past its place, which  *)
(* the address sanitizer of the build stops.                               *)
EmitTuple(s, values, schema, rid) ==
    CASE \E i \in DOMAIN values : IsError(values[i]) -> Fail(s, FirstError(values).type)
      [] OTHER -> IF [i \in DOMAIN values |-> values[i].type]
                       = [i \in DOMAIN schema |-> schema[i].type]
                  THEN Emit(s, Evaluated(values), rid) ELSE Fail(s, "ABORT")

-----------------------------------------------------------------------------
RECURSIVE ExecutorInit(_, _), ExecutorNext(_, _), Drain(_, _, _)

(* All rows a child still returns, or the exception it throws. *)
DrainAfter(n, db, rows) ==
    CASE n.out = "row" -> Drain(n.s, db, Append(rows, n.row))
      [] n.out = "end" -> [out |-> "ok", rows |-> rows]
      [] OTHER -> [out |-> n.out, rows |-> rows]
Drain(s, db, rows) == DrainAfter(ExecutorNext(s, db), db, rows)

NextOf(s, k, db) == ExecutorNext(s.kids[k], db)
Advance(s, k, n) == [s EXCEPT !.kids[k] = n.s]

(* What an executor returns that passes on what its child returned. *)
Passed(s, n) == [n EXCEPT !.s = Advance(s, 1, n)]

-----------------------------------------------------------------------------
(* The fields of an executor before Init, and the executor.  A join other   *)
(* than INNER or LEFT is refused by its constructor, and the constructor of *)
(* a scan that walks its index begins to.                                   *)
SeqScanExecutor(plan) == [plan |-> plan, kids |-> <<>>, pos |-> NoRid]
IndexScanExecutor(plan) == [plan |-> plan, kids |-> <<>>, rids |-> <<>>, pos |-> 1]
ValuesExecutor(plan) == [plan |-> plan, kids |-> <<>>, cursor |-> 1]
FilterExecutor(plan, kids) == [plan |-> plan, kids |-> kids]
ProjectionExecutor(plan, kids) == [plan |-> plan, kids |-> kids]
LimitExecutor(plan, kids) == [plan |-> plan, kids |-> kids, count |-> 0]
SortExecutor(plan, kids) == [plan |-> plan, kids |-> kids, rows |-> <<>>]
TopNExecutor(plan, kids) == [plan |-> plan, kids |-> kids, rows |-> <<>>]
AggregationExecutor(plan, kids) == [plan |-> plan, kids |-> kids, ht |-> <<>>]
HashJoinExecutor(plan, kids) == [plan |-> plan, kids |-> kids, rows |-> <<>>]
NestIndexJoinExecutor(plan, kids) == [plan |-> plan, kids |-> kids]
NestedLoopJoinExecutor(plan, kids) ==
    [plan |-> plan, kids |-> kids, left |-> <<>>, rights |-> <<>>, idx |-> 0]
InsertExecutor(plan, kids) == [plan |-> plan, kids |-> kids, count |-> 0]
DeleteExecutor(plan, kids) == [plan |-> plan, kids |-> kids, count |-> 0]
UpdateExecutor(plan, kids) == [plan |-> plan, kids |-> kids, count |-> 0]
CreateViewExecutor(plan) == [plan |-> plan, kids |-> <<>>]

RECURSIVE CreateExecutor(_)
CreateExecutor(plan) ==
    LET kids == Evaluated([i \in DOMAIN plan.kids |-> CreateExecutor(plan.kids[i])])
    IN  CASE plan.t = "SeqScan" -> SeqScanExecutor(plan)
          [] plan.t = "IndexScan" -> IndexScanExecutor(plan)
          [] plan.t = "Values" -> ValuesExecutor(plan)
          [] plan.t = "Filter" -> FilterExecutor(plan, kids)
          [] plan.t = "Projection" -> ProjectionExecutor(plan, kids)
          [] plan.t = "Limit" -> LimitExecutor(plan, kids)
          [] plan.t = "Sort" -> SortExecutor(plan, kids)
          [] plan.t = "TopN" -> TopNExecutor(plan, kids)
          [] plan.t = "Agg" -> AggregationExecutor(plan, kids)
          [] plan.t = "HashJoin" -> HashJoinExecutor(plan, kids)
          [] plan.t = "NestedIndexJoin" -> NestIndexJoinExecutor(plan, kids)
          [] plan.t = "NestedLoopJoin" -> NestedLoopJoinExecutor(plan, kids)
          [] plan.t = "Insert" -> InsertExecutor(plan, kids)
          [] plan.t = "Delete" -> DeleteExecutor(plan, kids)
          [] plan.t = "Update" -> UpdateExecutor(plan, kids)
          [] plan.t = "CreateView" -> CreateViewExecutor(plan)

RECURSIVE CanCreate(_, _)
CanCreate(plan, db) ==
    /\ \A i \in DOMAIN plan.kids : CanCreate(plan.kids[i], db)
    /\ plan.t \in {"HashJoin", "NestedIndexJoin", "NestedLoopJoin"} =>
           plan.join_type \in {"INNER", "LEFT"}
    /\ plan.t = "IndexScan" /\ plan.filter.t = "none" => CanIterate(db.indexes[plan.index])

(* The indexes of which an iterator of the executor has latched a leaf: it  *)
(* keeps the latch when it has reached the end.                            *)
RECURSIVE HeldLeaves(_)
HeldLeaves(s) ==
    UNION {HeldLeaves(s.kids[i]) : i \in DOMAIN s.kids}
    \cup IF s.plan.t = "IndexScan" /\ s.plan.filter.t = "none" /\ s.rids # <<>>
         THEN {s.plan.index} ELSE {}

-----------------------------------------------------------------------------
SeqScanInit(s, db) ==
    Ok([s EXCEPT !.pos = NextLive(db.tables[s.plan.table].heap, 1)])

(* The iterator moves on before the row is tested and returned. *)
Scanned(s, moved, row, verdict, db) ==
    CASE s.plan.filter.t = "none" -> Emit(moved, row, s.pos)
      [] OTHER -> IF IsError(verdict) THEN Fail(s, verdict.type)
                  ELSE IF AsBool(verdict, db.open) THEN Emit(moved, row, s.pos)
                  ELSE ExecutorNext(moved, db)
SeqScanNext(s, db) ==
    LET heap == db.tables[s.plan.table].heap
        row == heap[s.pos].row
    IN  IF s.pos = NoRid THEN End(s)
        ELSE Scanned(s, [s EXCEPT !.pos = NextLive(heap, s.pos + 1)], row,
                     Evaluate(s.plan.filter, row), db)

IndexEntries(plan, db) == db.indexes[plan.index].entries

LooksUp(s, tree, found) == IF CanScanKey(tree) = "ok" THEN found ELSE Fail(s, CanScanKey(tree))

(* A point query looks its constant up, else the scan walks the tree, which *)
(* no step changes before it ends; the key of a point query is a Tuple of   *)
(* the index's column.                                                     *)
IndexScanInit(s, db) ==
    IF s.plan.filter.t = "none"
    THEN Ok([s EXCEPT !.rids = [i \in DOMAIN IndexEntries(s.plan, db) |->
                                  IndexEntries(s.plan, db)[i].rid]])
    ELSE LET key == s.plan.filter.kids[2].val
         IN  IF key.type # "INTEGER" THEN Fail(s, "ABORT")
             ELSE LooksUp(s, db.indexes[s.plan.index],
                          Ok([s EXCEPT !.rids = ScanKey(db.indexes[s.plan.index], key)]))

(* An entry whose row was deleted ends the scan. *)
IndexScanNext(s, db) ==
    LET row == GetTuple(db, db.indexes[s.plan.index].table, s.rids[s.pos])
    IN  IF s.pos > Len(s.rids) \/ row = <<>> THEN End([s EXCEPT !.pos = @ + 1])
        ELSE Emit([s EXCEPT !.pos = @ + 1], row, s.rids[s.pos])

(* Mutant of ValuesNext: the cursor stays. *)
ValuesNextStuck(s, db) ==
    LET exprs == s.plan.values[s.cursor]
    IN  IF s.cursor > Len(s.plan.values) THEN End(s)
        ELSE EmitTuple(s, [i \in DOMAIN exprs |-> Evaluate(exprs[i], <<>>)], s.plan.schema, NoRid)

ValuesNext(s, db) ==
    LET exprs == s.plan.values[s.cursor]
    IN  IF s.cursor > Len(s.plan.values) THEN End(s)
        ELSE EmitTuple([s EXCEPT !.cursor = @ + 1],
                       [i \in DOMAIN exprs |-> Evaluate(exprs[i], <<>>)],
                       s.plan.schema, NoRid)

(* In the executors of one child n is what it returned. *)
FilterTested(s, n, verdict, db) ==
    IF IsError(verdict) THEN Fail(Advance(s, 1, n), verdict.type)
    ELSE IF ~verdict.null /\ AsBool(verdict, db.open) THEN Passed(s, n)
    ELSE ExecutorNext(Advance(s, 1, n), db)
FilterNext(s, n, db) ==
    IF n.out # "row" THEN Passed(s, n)
    ELSE FilterTested(s, n, Evaluate(s.plan.predicate, n.row), db)

ProjectionNext(s, n) ==
    IF n.out # "row" THEN Passed(s, n)
    ELSE EmitTuple(Advance(s, 1, n),
                   [i \in DOMAIN s.plan.exprs |-> Evaluate(s.plan.exprs[i], n.row)],
                   s.plan.schema, n.rid)

LimitNext(s, n) ==
    IF s.count >= s.plan.limit THEN End(s)
    ELSE IF n.out = "row" THEN Passed([s EXCEPT !.count = @ + 1], n)
    ELSE Passed(s, n)

-----------------------------------------------------------------------------
(* The comparator of Sort and TopN: a comparison with NULL counts as true.  *)
Holds(cmp) == cmp # CmpFalse

RECURSIVE SortsBefore(_, _, _)
SortsFirst(order, x, y, rest) ==
    LET first == IF order = "DESC" THEN "GreaterThan" ELSE "LessThan"
        second == IF order = "DESC" THEN "LessThan" ELSE "GreaterThan"
    IN  \/ Holds(Compare(first, x, y))
        \/ ~Holds(Compare(second, x, y)) /\ rest
SortsBefore(order_bys, a, b) ==
    /\ order_bys # <<>>
    /\ LET Key(row) == Evaluate(Head(order_bys).expr, row)
       IN  SortsFirst(Head(order_bys).type, Key(a), Key(b), SortsBefore(Tail(order_bys), a, b))

(* Insertion behind every row that does not come after it.  Rows with a     *)
(* NULL key break the order the library demands: theirs is one of many.     *)
SortInsert(order_bys, rows, row) ==
    LET k == Len(SelectSeq(rows, LAMBDA r : ~SortsBefore(order_bys, row, r)))
    IN  InsertAt(rows, k + 1, row)

SortRows(order_bys, rows) ==
    FoldLeft(LAMBDA sorted, row : SortInsert(order_bys, sorted, row), <<>>, rows)

SortInit(s, all) ==
    IF all.out # "ok" THEN Fail(s, all.out)
    ELSE Ok([s EXCEPT !.rows = SortRows(s.plan.order_bys, all.rows)])

(* The queue keeps the N first rows: a longer one loses its last. *)
TopNCut(longer, n) == IF Len(longer) > n THEN Front(longer) ELSE longer
TopNPush(s, rows, row) == TopNCut(SortInsert(s.plan.order_bys, rows, row), s.plan.n)

TopNInit(s, all) ==
    IF all.out # "ok" THEN Fail(s, all.out)
    ELSE Ok([s EXCEPT !.rows =
               FoldLeft(LAMBDA rows, row : TopNPush(s, rows, row), <<>>, all.rows)])

(* Next of the executors that Init leaves with their result. *)
StoredNext(s) ==
    IF s.rows = <<>> THEN End(s)
    ELSE Emit([s EXCEPT !.rows = Tail(@)], Head(s.rows), NoRid)

SortNext(s) == StoredNext(s)
TopNNext(s) == StoredNext(s)
HashJoinNext(s) == StoredNext(s)

-----------------------------------------------------------------------------
(* Aggregation.  The table is a sequence of [key, val] in insertion order.  *)
AggregateKeyEqual(k, l) ==
    \A i \in DOMAIN k : Compare("Equals", k[i], l[i]) = CmpTrue

GenerateInitialAggregateValue(types) ==
    [i \in DOMAIN types |-> IF types[i] = "CountStar" THEN GetIntegerValue(0)
                                                      ELSE GetNullValueByType("INTEGER")]

Counted(result) == IF result.null THEN GetIntegerValue(0) ELSE result
Summand(type, input) == IF type = "Sum" THEN input ELSE GetIntegerValue(1)
CombineAggregateValue(type, result, input) ==
    CASE IsError(result) -> result
      [] type = "Count" /\ input.null -> Counted(result)
      [] type \in {"Sum", "Min", "Max"} /\ result.null -> input
      [] type \in {"Sum", "Min", "Max"} /\ ~result.null /\ input.null -> result
      [] type = "Min" /\ ~result.null /\ ~input.null -> ValueMin(result, input)
      [] type = "Max" /\ ~result.null /\ ~input.null -> ValueMax(result, input)
      [] OTHER -> Arith("Add", IF type = "Count" THEN Counted(result) ELSE result,
                        Summand(type, input))

CombineAggregateValues(types, result, input) ==
    [i \in DOMAIN types |-> CombineAggregateValue(types[i], result[i], input[i])]

(* A key with a NULL is not equal to itself: ht_[agg_key] adds a second     *)
(* entry, without the values that are combined next.                        *)
Entry(key, val) == [key |-> key, val |-> val]
KeyPlaces(ht, key) == {i \in DOMAIN ht : AggregateKeyEqual(ht[i].key, key)}
CombineAt(types, ht, key, val, places) ==
    IF places = {} THEN Append(ht, Entry(key, [i \in DOMAIN types |-> Aborts]))
    ELSE [ht EXCEPT ![CHOOSE i \in places : TRUE].val = CombineAggregateValues(types, @, val)]
WithKey(types, ht, key) ==
    IF KeyPlaces(ht, key) # {} THEN ht
    ELSE Append(ht, Entry(key, GenerateInitialAggregateValue(types)))
CombineIn(types, ht, key, val) == CombineAt(types, ht, key, val, KeyPlaces(ht, key))
InsertCombine(types, ht, key, val) == CombineIn(types, WithKey(types, ht, key), key, val)

MakeAggregateKey(plan, row) ==
    [i \in DOMAIN plan.group_bys |-> Evaluate(plan.group_bys[i], row)]
MakeAggregateValue(plan, row) ==
    [i \in DOMAIN plan.aggregates |-> Evaluate(plan.aggregates[i], row)]

FailedEntries(ht) ==
    {i \in DOMAIN ht : \E j \in DOMAIN ht[i].val : IsError(ht[i].val[j])}

Aggregated(plan, rows) ==
    FoldLeft(LAMBDA ht, row : InsertCombine(plan.agg_types, ht, MakeAggregateKey(plan, row),
                                            MakeAggregateValue(plan, row)), <<>>, rows)

AggregationTable(s, ht, db) ==
    IF FailedEntries(ht) # {}
    THEN Fail(s, FirstError(ht[CHOOSE i \in FailedEntries(ht) : TRUE].val).type)
    ELSE Ok([s EXCEPT !.ht =
              IF ht = <<>> /\ Len(s.plan.schema) = 1
              THEN <<Entry(<<>>, GenerateInitialAggregateValue(s.plan.agg_types))>>
              ELSE IF db.open THEN Reverse(ht) ELSE ht])

AggregationInit(s, all, db) ==
    IF all.out # "ok" THEN Fail(s, all.out)
    ELSE AggregationTable(s, Aggregated(s.plan, all.rows), db)

AggregationNext(s) ==
    IF s.ht = <<>> THEN End(s)
    ELSE EmitTuple([s EXCEPT !.ht = Tail(@)], Head(s.ht).key \o Head(s.ht).val,
                   s.plan.schema, NoRid)

-----------------------------------------------------------------------------
(* Joins. *)
NullRow(schema) == [i \in DOMAIN schema |-> GetNullValueByType(schema[i].type)]

(* HashValue hashes the stored bytes, a NULL's sentinel too; a NULL VARCHAR *)
(* has none to read.  Different bytes are taken to have different hashes.   *)
HashValue(x) == IF x.type = "VARCHAR" /\ x.null THEN Aborts ELSE x

(* The output of one left row: the rows of its bucket with an equal key,    *)
(* NULLs only when there is no bucket.                                     *)
Bucket(rights, keys, key) == SelectSeq(rights, LAMBDA i : keys[i].v = key.v)
HashJoinBucket(plan, row, rights, keys, key, bucket) ==
    CASE bucket # <<>> ->
           LET equal == SelectSeq(bucket, LAMBDA i : Compare("Equals", keys[i], key) = CmpTrue)
           IN  [i \in DOMAIN equal |-> row \o rights[equal[i]]]
      [] bucket = <<>> -> IF plan.join_type = "LEFT"
                          THEN <<row \o NullRow(plan.kids[2].schema)>> ELSE <<>>
HashJoinRow(plan, row, rights, keys, key) ==
    HashJoinBucket(plan, row, rights, keys, key,
                   Bucket([i \in DOMAIN rights |-> i], keys, key))

HashJoinBuilt(s, output, built) ==
    IF \E i \in DOMAIN built : built[i].out # "row" THEN Fail(s, "ABORT")
    ELSE Ok([s EXCEPT !.rows = output])
HashJoinOutput(s, output) ==
    HashJoinBuilt(s, output,
                  [i \in DOMAIN output |-> EmitTuple(s, output[i], s.plan.schema, NoRid)])

HashJoinKeyed(s, lefts, rights, left_keys, right_keys) ==
    LET hashes == [i \in DOMAIN rights |-> HashValue(right_keys[i])]
                  \o [i \in DOMAIN lefts |-> HashValue(left_keys[i])]
    IN  IF \E i \in DOMAIN hashes : IsError(hashes[i]) THEN Fail(s, FirstError(hashes).type)
        ELSE HashJoinOutput(s, FlattenSeq(Evaluated([i \in DOMAIN lefts |->
               HashJoinRow(s.plan, lefts[i], rights, right_keys, left_keys[i])])))

(* The right child is read first. *)
HashJoinInit(s, lefts, rights) ==
    LET Keys(key, rows) == Evaluated([i \in DOMAIN rows |-> Evaluate(key, rows[i])])
    IN  IF rights.out # "ok" THEN Fail(s, rights.out)
        ELSE IF lefts.out # "ok" THEN Fail(s, lefts.out)
        ELSE HashJoinKeyed(s, lefts.rows, rights.rows, Keys(s.plan.left_key, lefts.rows),
                           Keys(s.plan.right_key, rights.rows))

NestedLoopJoinInit(s, rights) ==
    IF rights.out # "ok" THEN Fail(s, rights.out)
    ELSE Ok([s EXCEPT !.rights = rights.rows])

(* idx is right_tuple_idx_ + 1: 0 before the first right row is tried, else *)
(* the position after the last match.  Only with 0 a left row is fetched;   *)
(* verdicts are those of the right rows from start on.                      *)
NestedLoopJoinFound(s, fetched, i, verdict, db) ==
    CASE i = 0 -> IF fetched /\ s.plan.join_type = "LEFT"
                  THEN EmitTuple(s, s.left \o NullRow(s.plan.kids[2].schema),
                                 s.plan.schema, NoRid)
                  ELSE ExecutorNext([s EXCEPT !.idx = 0], db)
      [] i # 0 -> IF IsError(verdict) THEN Fail(s, verdict.type)
                  ELSE EmitTuple([s EXCEPT !.idx = i + 1], s.left \o s.rights[i],
                                 s.plan.schema, NoRid)
NestedLoopJoinTried(s, fetched, verdicts, db) ==
    LET stops == {i \in DOMAIN verdicts :
                    \/ IsError(verdicts[i])
                    \/ ~verdicts[i].null /\ AsBool(verdicts[i], db.open)}
        first == IF stops = {} THEN 0 ELSE CHOOSE i \in stops : \A j \in stops : i <= j
    IN  NestedLoopJoinFound(s, fetched, first, verdicts[first], db)
NestedLoopJoinFrom(s, start, fetched, db) ==
    NestedLoopJoinTried(s, fetched,
        [i \in start .. Len(s.rights) |-> EvaluateJoin(s.plan.predicate, s.left, s.rights[i])], db)
NestedLoopJoinNext(s, n, db) ==
    CASE s.idx = 0 /\ n.out # "row" -> [Passed(s, n) EXCEPT !.s.left = n.row]
      [] OTHER -> NestedLoopJoinFrom(IF s.idx = 0 THEN [Advance(s, 1, n) EXCEPT !.left = n.row]
                                                  ELSE s,
                                     IF s.idx = 0 THEN 1 ELSE s.idx, s.idx = 0, db)

(* Only the first row the index returns is joined; one that was deleted     *)
(* is an empty Tuple, and reading it fails an assert.                       *)
NestIndexJoinFound(s, n, rids, db) ==
    CASE rids # <<>> ->
           LET right == GetTuple(db, db.indexes[s.plan.index].table, rids[1])
           IN  IF right = <<>> THEN Fail(s, "ABORT")
               ELSE EmitTuple(s, n.row \o right, s.plan.schema, NoRid)
      [] rids = <<>> ->
           IF s.plan.join_type = "LEFT"
           THEN EmitTuple(s, n.row \o NullRow(s.plan.inner_schema), s.plan.schema, NoRid)
           ELSE ExecutorNext(s, db)
NestIndexJoinKey(s, n, key, db) ==
    IF IsError(key) THEN Fail(s, key.type)
    ELSE IF key.type # "INTEGER" THEN Fail(s, "ABORT")
    ELSE LooksUp(s, db.indexes[s.plan.index],
                 NestIndexJoinFound(s, n, ScanKey(db.indexes[s.plan.index], key), db))
NestIndexJoinNext(s, n, db) ==
    IF n.out # "row" THEN Passed(s, n)
    ELSE NestIndexJoinKey(Advance(s, 1, n), n, Evaluate(s.plan.key, n.row), db)

-----------------------------------------------------------------------------
(* The virtual calls.  A child is initialized before its parent's own work. *)
(* all[i] is every row of child i, for the executors that collect them.     *)
OwnInit(s, all, db) ==
    CASE s.plan.t = "SeqScan" -> SeqScanInit(s, db)
      [] s.plan.t = "IndexScan" -> IndexScanInit(s, db)
      [] s.plan.t = "Sort" -> SortInit(s, all[1])
      [] s.plan.t = "TopN" -> TopNInit(s, all[1])
      [] s.plan.t = "Agg" -> AggregationInit(s, all[1], db)
      [] s.plan.t = "HashJoin" -> HashJoinInit(s, all[1], all[2])
      [] s.plan.t = "NestedLoopJoin" -> NestedLoopJoinInit(s, all[2])
      [] OTHER -> Ok(s)
InitAfter(s, inits, db) ==
    LET failed == {i \in DOMAIN inits : inits[i].out # "ok"}
    IN  IF failed # {} THEN [inits[CHOOSE i \in failed : \A j \in failed : i <= j] EXCEPT !.s = s]
        ELSE OwnInit([s EXCEPT !.kids = Evaluated([i \in DOMAIN inits |-> inits[i].s])],
                     Evaluated([i \in DOMAIN inits |-> Drain(inits[i].s, db, <<>>)]), db)
ExecutorInit(s, db) ==
    InitAfter(s, Evaluated([i \in DOMAIN s.kids |-> ExecutorInit(s.kids[i], db)]), db)

(* n is what the first child returns, for the executors that ask it.        *)
OwnNext(s, n, db) ==
    CASE s.plan.t = "SeqScan" -> SeqScanNext(s, db)
      [] s.plan.t = "IndexScan" -> IndexScanNext(s, db)
      [] s.plan.t = "Values" -> ValuesNext(s, db)
      [] s.plan.t = "Filter" -> FilterNext(s, n, db)
      [] s.plan.t = "Projection" -> ProjectionNext(s, n)
      [] s.plan.t = "Limit" -> LimitNext(s, n)
      [] s.plan.t = "Sort" -> SortNext(s)
      [] s.plan.t = "TopN" -> TopNNext(s)
      [] s.plan.t = "Agg" -> AggregationNext(s)
      [] s.plan.t = "HashJoin" -> HashJoinNext(s)
      [] s.plan.t = "NestedIndexJoin" -> NestIndexJoinNext(s, n, db)
      [] s.plan.t = "NestedLoopJoin" -> NestedLoopJoinNext(s, n, db)
ExecutorNext(s, db) == OwnNext(s, NextOf(s, 1, db), db)

(* What a plan without side effects returns: all rows, or the exception.    *)
RunReady(ready, db) ==
    IF ready.out # "ok" THEN [out |-> ready.out, rows |-> <<>>] ELSE Drain(ready.s, db, <<>>)
Run(plan, db) ==
    IF CanCreate(plan, db) THEN RunReady(ExecutorInit(CreateExecutor(plan), db), db)
    ELSE [out |-> "THROWS", rows |-> <<>>]
=============================================================================
