------------------------------- MODULE Query -------------------------------
(***************************************************************************)
(* One statement on its way through HMSSQL::ExecuteSqlStatement: bind,     *)
(* plan, one step for each rule of the optimizer, start the executor and   *)
(* poll it row by row.  INSERT, DELETE and UPDATE change the database      *)
(* while their child reads it; a step is one turn of their loop.  CREATE   *)
(* TABLE and SET are done when they are bound, EXPLAIN when its statement  *)
(* is optimized.  One session runs everything: the latches that its earlier*)
(* statements left held are its own.                                       *)
(***************************************************************************)
EXTENDS Binder, Meaning, Executors, Optimizer
LOCAL INSTANCE SequencesExt

CONSTANTS
    Statements,     \* parse trees, a sequence
    Databases,      \* catalogs the statements run on, a sequence
    MaxRows         \* bound on the rows of a heap

VARIABLES
    stmt,           \* position in Statements
    force,          \* force_optimizer_starter_rule
    before,         \* the catalog at the start
    db,             \* the catalog now
    phase,          \* what was done last
    bound,          \* the bound statement
    plan,           \* the plan, as far as it is optimized
    rules,          \* optimizer rules still to be applied
    exec,           \* the executor
    rows,           \* result_set
    unsound,        \* a rule was applied where it may change the answer
    meant           \* the answer of the bound SELECT, {} if none is promised

vars == <<stmt, force, before, db, phase, bound, plan, rules, exec, rows, unsound, meant>>

NoPlan == Broken("NONE")

Init ==
    /\ stmt \in DOMAIN Statements
    /\ \E d \in DOMAIN Databases, o \in BOOLEAN : before = [Databases[d] EXCEPT !.open = o]
    /\ db = before
    /\ force \in BOOLEAN
    /\ phase = "parsed" /\ bound = Refused /\ plan = NoPlan /\ rules = <<>>
    /\ exec = <<>> /\ rows = <<>> /\ unsound = FALSE /\ meant = {}

LiveRids(heap) == {i \in DOMAIN heap : heap[i].live}
HasNull(table) == \E i \in LiveRids(table.heap), c \in DOMAIN table.cols :
                     table.heap[i].row[c].null
NullsIn(d) == \E t \in DOMAIN d.tables : HasNull(d.tables[t])

(* Statements the engine is known to answer otherwise than SQL does (see    *)
(* the README): NULLs in GROUP BY, DISTINCT and ORDER BY, aggregates of no  *)
(* rows, aggregates of strings, VALUES whose rows differ in their types.    *)
RECURSIVE SelectsIn(_)
SelectsIn(ref) == CASE ref.t = "subquery" -> <<ref.select>> \o SelectsIn(ref.select.table)
                    [] ref.t \in {"cross", "join"} -> SelectsIn(ref.left) \o SelectsIn(ref.right)
                    [] OTHER -> <<>>

StringAggregates(calls, envs) ==
    \E i \in DOMAIN calls :
       /\ calls[i].func \in {"min", "max", "sum"}
       /\ \E k \in DOMAIN envs : Denote(calls[i].args[1], <<envs[k]>>).type = "VARCHAR"

MixedTypes(list) ==
    \E r, q \in DOMAIN list : \E i \in DOMAIN list[r] : list[r][i].type # list[q][i].type

DeviatesOn(select, envs) ==
    \/ NullsIn(before) /\ (select.group_by # <<>> \/ select.distinct \/ select.sort # <<>>)
    \/ (IsAggregation(select) \/ select.distinct) /\ envs = <<>>
    \/ StringAggregates(AggCalls(select.having \o select.select_list), envs)
    \/ select.table.t = "values" /\ MixedTypes(ValueRows(select.table))
Deviates(select) == DeviatesOn(select, Source(select, before))

AnyDeviates(select) ==
    LET all == <<select>> \o SelectsIn(select.table)
    IN  \E i \in DOMAIN all : Deviates(all[i])

(* What the SELECT of a statement means, unless the engine is known to      *)
(* answer otherwise.                                                       *)
MainSelect(b) == CASE b.t = "select" -> {b}
                 [] b.t = "insert" -> {b.select}
                 [] OTHER -> {}
Meanings(b) == {Answer(s, before) : s \in {x \in MainSelect(b) : ~AnyDeviates(x)}}

-----------------------------------------------------------------------------
(* An exception, a failed assert or a wait for a latch of one's own; what   *)
(* the statement did stays done.                                           *)
Failed(kind) == phase' = kind

BindStep ==
    /\ phase = "parsed"
    /\ bound' = BindStatement(Statements[stmt], db)
    /\ phase' = CASE IsRefused(bound') -> "THROWS"
                   [] bound'.t = "crashed" -> "ABORT"
                   [] OTHER -> "bound"
    /\ UNCHANGED <<stmt, force, before, db, plan, rules, exec, rows, unsound, meant>>

(* A table name in use is refused. *)
CreateTableStep ==
    /\ phase = "bound" /\ bound.t = "create"
    /\ db' = CreateTable(db, bound.table, bound.cols)
    /\ IF CanCreateTable(db, bound.table) THEN phase' = "done" ELSE Failed("THROWS")
    /\ UNCHANGED <<stmt, force, before, bound, plan, rules, exec, rows, unsound, meant>>

IsForceStarterRule(text) == LowerCase(text) \in {<<49>>, TrueText, <<121, 101, 115>>}

SetStep ==
    /\ phase = "bound" /\ bound.t = "set"
    /\ force' = IF bound.variable = "force_optimizer_starter_rule"
                THEN IsForceStarterRule(bound.value) ELSE force
    /\ phase' = "done"
    /\ UNCHANGED <<stmt, before, db, bound, plan, rules, exec, rows, unsound, meant>>

(* The statement that is planned: EXPLAIN's own. *)
Planned == IF bound.t = "explain" THEN bound.statement ELSE bound

PlanStep ==
    /\ phase = "bound" /\ bound.t \notin {"create", "set"}
    /\ plan' = PlanQuery(Planned, db)
    /\ IF IsBroken(plan') THEN Failed(plan'.t) ELSE phase' = "planned"
    /\ rules' = IF force THEN StarterRules ELSE CustomRules
    /\ meant' = IF IsBroken(plan') THEN {} ELSE Meanings(bound)
    /\ UNCHANGED <<stmt, force, before, db, bound, exec, rows, unsound>>

-----------------------------------------------------------------------------
(* Where a rule is known not to keep the answer (see the README). *)
RECURSIVE NodesOf(_)
NodesOf(p) == <<p>> \o FlattenSeq([i \in DOMAIN p.kids |-> NodesOf(p.kids[i])])
HasNode(p, Is(_)) == \E i \in DOMAIN NodesOf(p) : Is(NodesOf(p)[i])

(* A live row has no entry. *)
Partial(index, d) ==
    LET heap == d.tables[index.table].heap
    IN  \E i \in LiveRids(heap) : \A e \in DOMAIN index.entries : index.entries[e].rid # i

(* The plan reads an index that lacks rows, or that cannot be read, or in   *)
(* which a NULL answers for every key.                                     *)
ReadsBadIndex(p, d) ==
    \/ /\ p.t \in {"IndexScan", "NestedIndexJoin"}
       /\ Partial(d.indexes[p.index], d)
    \/ /\ p.t = "NestedIndexJoin" \/ (p.t = "IndexScan" /\ p.filter.t # "none")
       /\ \/ CanScanKey(d.indexes[p.index]) # "ok"
          \/ \E e \in DOMAIN d.indexes[p.index].entries : d.indexes[p.index].entries[e].key.null
    \/ /\ p.t = "IndexScan" /\ p.filter.t = "none"
       /\ ~CanIterate(d.indexes[p.index])

KnownUnsound(rule, old, new, d) ==
    /\ old # new
    /\ \/ rule \in {"ReorderJoinUseIndex", "RemoveJoin", "RemoveColumn"}
       \/ rule \in {"MergeFilterIndexScan", "NLJAsIndexJoin", "OrderByAsIndexScan"}
          /\ HasNode(new, LAMBDA p : ReadsBadIndex(p, d))
       \/ rule = "MergeFilterIndexScan"
          /\ HasNode(new, LAMBDA p : /\ p.t = "IndexScan" /\ p.filter.t # "none"
                                     /\ LET key == p.filter.kids[2].val
                                        IN  key.null \/ key.type # "INTEGER")
       \/ rule = "MergeFilterScan" /\ d.open
          /\ HasNode(new, LAMBDA p : /\ p.t = "SeqScan" /\ p.filter.t # "none"
                                     /\ LET heap == d.tables[p.table].heap
                                        IN  \E i \in LiveRids(heap) :
                                              Evaluate(p.filter, heap[i].row).null)
       \/ rule = "FalseFilter" /\ IsBroken(new)
       \/ rule = "MergeFilterNLJ" /\ IsBroken(new)
       \/ rule \in {"NLJAsIndexJoin", "OrderByAsIndexScan"}
          /\ HasNode(old, LAMBDA p : p.t = "SeqScan" /\ p.filter.t # "none")
       \/ rule = "NLJAsIndexJoin"
          /\ \/ NullsIn(d)
             \/ HasNode(new, LAMBDA p : p.t = "NestedIndexJoin" /\ p.key.ret # "INTEGER")
       \/ rule = "NLJAsHashJoin"
          /\ HasNode(new, LAMBDA p :
               /\ p.t = "HashJoin"
               /\ \/ p.left_key.ret # p.right_key.ret
                  \/ NullsIn(d) /\ (p.join_type = "LEFT" \/ p.left_key.ret = "VARCHAR"))

OptimizeStep ==
    /\ phase = "planned" /\ rules # <<>>
    /\ plan' = Rewrite(Head(rules), plan, db)
    /\ rules' = Tail(rules)
    /\ unsound' = (unsound \/ KnownUnsound(Head(rules), plan, plan', db))
    /\ IF IsBroken(plan') THEN Failed(plan'.t) ELSE UNCHANGED phase
    /\ UNCHANGED <<stmt, force, before, db, bound, exec, rows, meant>>

(* EXPLAIN prints the plans and executes none. *)
ExplainStep ==
    /\ phase = "planned" /\ rules = <<>> /\ bound.t = "explain"
    /\ phase' = "done"
    /\ UNCHANGED <<stmt, force, before, db, bound, plan, rules, exec, rows, unsound, meant>>

-----------------------------------------------------------------------------
(* ExecutionEngine::Execute: create and initialize the executor. *)
StartStep ==
    /\ phase = "planned" /\ rules = <<>> /\ bound.t # "explain"
    /\ IF CanCreate(plan, db)
       THEN \E ready \in {ExecutorInit(CreateExecutor(plan), db)} :
              /\ exec' = ready.s
              /\ IF ready.out = "ok" THEN phase' = "running" ELSE Failed(ready.out)
       ELSE Failed("THROWS") /\ UNCHANGED exec
    /\ UNCHANGED <<stmt, force, before, db, bound, plan, rules, rows, unsound, meant>>

(* PollExecutor, for a plan that only reads. *)
PollStep ==
    /\ phase = "running" /\ bound.t = "select"
    /\ \E n \in {ExecutorNext(exec, db)} :
         /\ exec' = n.s
         /\ CASE n.out = "row" -> rows' = Append(rows, n.row) /\ UNCHANGED phase
              [] n.out = "end" -> phase' = "done" /\ UNCHANGED rows
              [] OTHER -> Failed(n.out) /\ UNCHANGED rows
    /\ UNCHANGED <<stmt, force, before, db, bound, plan, rules, unsound, meant>>

(* The child of a modifying executor has no more rows, or fails. *)
ModifyEnds(n) ==
    IF n.out = "end"
    THEN /\ phase' = "done"
         /\ rows' = << <<GetIntegerValue(exec.count)>> >>
    ELSE Failed(n.out) /\ UNCHANGED rows

(* c is what a row of the child did to the database.  A row the table      *)
(* refuses is not counted.                                                 *)
RowChanged(n, c) ==
    /\ db' = c.db
    /\ exec' = [Advance(exec, 1, n) EXCEPT !.count = IF c.out = "ok" THEN @ + 1 ELSE @]
    /\ IF c.out \in {"ok", "refused"} THEN UNCHANGED phase ELSE Failed(c.out)
    /\ UNCHANGED rows

(* The bound on rows stops an INSERT that has more. *)
Full == Len(db.tables[plan.table].heap) = MaxRows
AtBound == /\ phase = "running" /\ bound.t = "insert" /\ Full
           /\ NextOf(exec, 1, db).out = "row"

InsertRow(n) ==
    /\ bound.t = "insert" /\ ~Full
    /\ \E c \in {InsertTuple(db, plan.table, n.row, HeldLeaves(exec))} : RowChanged(n, c)

DeleteRow(n) ==
    /\ bound.t = "delete"
    /\ \E c \in {MarkDelete(db, plan.table, n.rid, HeldLeaves(exec))} : RowChanged(n, c)

(* TablePage::UpdateTuple saves the old row through a null pointer. *)
UpdateRow(n) == bound.t = "update" /\ RowChanged(n, Changed(db, "ABORT"))

(* One turn of the loop of a modifying executor. *)
ModifyStep ==
    /\ phase = "running" /\ bound.t \in {"insert", "delete", "update"}
    /\ \E n \in {NextOf(exec, 1, db)} :
         \/ /\ n.out # "row"
            /\ exec' = Advance(exec, 1, n) /\ ModifyEnds(n) /\ UNCHANGED db
         \/ n.out = "row" /\ (InsertRow(n) \/ DeleteRow(n) \/ UpdateRow(n))
    /\ UNCHANGED <<stmt, force, before, bound, plan, rules, unsound, meant>>

CreateViewStep ==
    /\ phase = "running" /\ bound.t = "view"
    /\ db' = CreateView(db, plan.view, plan.query)
    /\ phase' = "done"
    /\ UNCHANGED <<stmt, force, before, bound, plan, rules, exec, rows, unsound, meant>>

Finished == phase \in {"done", "THROWS", "OUT_OF_RANGE", "DIVIDE_BY_ZERO", "ABORT"}
Stopped == Finished \/ AtBound \/ phase = "BLOCKED"
Idle == Stopped /\ UNCHANGED vars

Next == \/ BindStep \/ PlanStep \/ OptimizeStep \/ StartStep \/ PollStep
        \/ CreateTableStep \/ SetStep \/ ExplainStep
        \/ ModifyStep \/ CreateViewStep \/ Idle

(* The thread of the session keeps running.  This is WF_vars(Next) with its *)
(* ENABLED spelled out: a statement can go on unless it is idle.            *)
Running == []<>Stopped \/ []<><<Next>>_vars
Spec == Init /\ [][Next]_vars /\ Running

-----------------------------------------------------------------------------
(* Every name a column of the scope answers to: the end of its full name,   *)
(* also after the name of the table or subquery it belongs to.              *)
Denotes(name, full) ==
    \/ MatchSuffix(name, full)
    \/ Len(name) > 1 /\ name[1] = full[1] /\ MatchSuffix(Tail(name), full)
NamesFor(full) ==
    LET suffixes == {SubSeq(full, i, Len(full)) : i \in DOMAIN full}
    IN  suffixes \cup {<<full[1]>> \o n : n \in suffixes}

(* A column name the binder accepts stands for one column of the tables in  *)
(* scope and for no other: ResolveColumn never picks one of two columns     *)
(* that both answer to the name (bind_select.cpp:643).                      *)
ColumnsResolveOnce ==
    (phase = "bound" /\ bound.t = "select" /\ bound.table.t \notin {"empty", "values"}) =>
        LET all == ColumnsOf(bound.table)
        IN  \A k \in DOMAIN all : \A name \in NamesFor(all[k]) :
              LET ref == ResolveColumn(bound.table, name)
              IN  ref.t = "colref" =>
                    {i \in DOMAIN all : Denotes(name, all[i])}
                       = {i \in DOMAIN all : all[i] = ref.name}

(* The plan made for a SELECT returns what the statement means: columns are *)
(* read from their positions, aggregates from the right calls, joins and    *)
(* groups are complete (plan_select.cpp:32, plan_aggregation.cpp:48), and   *)
(* it fails where the statement has no meaning.  A RIGHT, FULL or other     *)
(* join no executor can be created for is refused at the start.             *)
PlanMeansQuery ==
    (phase = "planned" /\ bound.t = "select" /\ plan = PlanQuery(bound, db)
       /\ CanCreate(plan, db)) =>
        \A all \in meant, result \in {Run(plan, db)} :
           IF HasError(all) THEN result.out # "ok"
           ELSE result.out = "ok" /\ IsAnswer(bound, all, result.rows)

SameResult(a, b) ==
    /\ a.out = b.out
    /\ a.out = "ok" => SameBag(CanonRows(a.rows), CanonRows(b.rows))

(* A rule of the optimizer keeps the rows a plan returns and the types of   *)
(* its columns, where it is not known to do otherwise.                      *)
RulesPreserveResult ==
    [][(phase = "planned" /\ rules # <<>> /\ bound.t = "select") =>
          \/ KnownUnsound(Head(rules), plan, plan', db)
          \/ /\ SameResult(Run(plan, db), Run(plan', db))
             /\ ColumnTypes(plan'.schema) = ColumnTypes(plan.schema)]_vars

(* What the shell prints for a SELECT is an answer to it: the result of all *)
(* steps together, polled row by row.                                       *)
AnswerIsRight ==
    (phase = "done" /\ bound.t = "select" /\ ~unsound) =>
        \A all \in meant : IsAnswer(bound, all, rows)

-----------------------------------------------------------------------------
(* The rows an index and its heap disagree about: deleted ones with an      *)
(* entry and, if no two rows have a key, live ones without.                *)
UniqueKeys(index, heap) ==
    /\ \A i \in DOMAIN heap : ~heap[i].row[index.col].null
    /\ \A i, j \in DOMAIN heap : i # j => heap[i].row[index.col] # heap[j].row[index.col]

OutOfStep(index, heap) ==
    LET entered == {index.entries[e].rid : e \in DOMAIN index.entries}
        missing == LiveRids(heap) \ entered
    IN  (entered \ LiveRids(heap)) \cup IF UniqueKeys(index, heap) THEN missing ELSE {}

(* Whatever INSERT and DELETE do to a table and its indexes, every entry    *)
(* has the key of its row and keys strictly increase; a row falls out of    *)
(* step with an index only where the statement is stopped between the heap  *)
(* and that index, which is one row, and none if the statement goes on      *)
(* (insert_executor.cpp:42, delete_executor.cpp:47: the latch a tree is     *)
(* left with, b_plus_tree.cpp:118, makes the next call throw).              *)
IndexesKeepStep ==
    \A x \in DOMAIN db.indexes :
      LET index == db.indexes[x]
          heap == db.tables[index.table].heap
          old == before.indexes[x]
          fallen == OutOfStep(index, heap) \ OutOfStep(old, before.tables[old.table].heap)
      IN  /\ \A e \in DOMAIN index.entries :
               heap[index.entries[e].rid].row[index.col] = index.entries[e].key
          /\ \A e \in 2 .. Len(index.entries) :
               KeyBefore(index.entries[e - 1].key, index.entries[e].key)
          /\ phase \notin {"THROWS", "BLOCKED"} => fallen = {}
          /\ \A i, j \in fallen : i = j

(* The rows a DELETE leaves: those its condition is not true for. *)
Spared(s, envs) ==
    LET left == SelectSeq(envs, LAMBDA env : Canon(Denote(s.cond, <<env>>)).v # <<1>>)
        names == ColumnsOf(s.table)
    IN  [i \in DOMAIN left |-> [c \in DOMAIN names |-> left[i][names[c]]]]
Expected(s, d) ==
    IF s.t = "insert"
    THEN {LiveRows(d, s.table.oid) \o SelectSeq(all, LAMBDA row : Fits(d, s.table.oid, row)) :
             all \in meant}
    ELSE {Spared(s, Envs(ColumnsOf(s.table), LiveRows(d, s.table.oid)))}

(* INSERT adds the rows its SELECT means, but for those too long for a page *)
(* which are dropped without a word, and nothing else; DELETE removes the   *)
(* rows its condition is true for and no other; both return how many, and   *)
(* no other table changes.                                                  *)
DmlMeansStatement ==
    (phase = "done" /\ bound.t \in {"insert", "delete"} /\ ~unsound) =>
        \A expected \in Expected(bound, before) :
        LET oid == bound.table.oid
            old == LiveRows(before, oid)
            new == LiveRows(db, oid)
        IN  /\ SameBag(CanonRows(new), CanonRows(expected))
            /\ rows = << <<GetIntegerValue(Magnitude(Len(new) - Len(old)))>> >>
            /\ \A t \in DOMAIN db.tables : t # oid => db.tables[t] = before.tables[t]

(* The scans of a plan that keep no result of their own read the table      *)
(* while the statement inserts into it.                                     *)
RECURSIVE Streams(_, _)
Streams(p, table) ==
    \/ p.t = "SeqScan" /\ p.table = table
    \/ p.t \in {"Filter", "Projection", "Limit"} /\ Streams(p.kids[1], table)
    \/ p.t \in {"NestedLoopJoin", "NestedIndexJoin"} /\ Streams(p.kids[1], table)

FollowsItself == /\ bound.t = "insert" /\ plan.t = "Insert"
                 /\ Streams(plan.kids[1], plan.table)

(* The plan walks an index of the table it inserts into. *)
WalksItself == /\ bound.t = "insert" /\ plan.t = "Insert"
               /\ HasNode(plan, LAMBDA p : /\ p.t = "IndexScan" /\ p.filter.t = "none"
                                           /\ p.index \in GetTableIndexes(db, plan.table))

(* A statement ends, with a result or an error: only an INSERT that reads   *)
(* the table it inserts into may go on for ever (insert_executor.cpp:36),   *)
(* or wait for the leaf its own scan of an index has latched.               *)
StatementEnds == <>(Finished \/ FollowsItself \/ WalksItself)
=============================================================================
