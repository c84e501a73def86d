------------------------------ MODULE Planner ------------------------------
(***************************************************************************)
(* The planner: from a bound statement (module Binder) to a plan.  An      *)
(* expression that cannot be planned is NotSupported, and a plan with one, *)
(* or over a child that failed, is Broken.                                 *)
(*                                                                         *)
(* PlannerContext is the pair of arguments aggs and next of                *)
(* PlanExpression: the columns that stand for the aggregate calls          *)
(* (expr_in_agg_) and the position of the next one to be used.             *)
(***************************************************************************)
EXTENDS Plans
LOCAL INSTANCE SequencesExt
LOCAL INSTANCE TLC

UnnamedColumn == <<"<unnamed>">>
NoAggs == <<>>

Unplanned(exprs) == \E i \in DOMAIN exprs : exprs[i].t = "throws"

(* The node, unless a child or an expression it is made of failed. *)
Node(kids, exprs, node) ==
    LET broken == {i \in DOMAIN kids : IsBroken(kids[i])}
    IN  IF broken # {} THEN kids[CHOOSE i \in broken : \A j \in broken : i <= j]
        ELSE IF Unplanned(exprs) THEN Broken("THROWS") ELSE node

-----------------------------------------------------------------------------
(* Expressions. *)
ComparisonOf(op) == CASE op \in {"=", "=="} -> "Equals"
                      [] op \in {"!=", "<>"} -> "NotEquals"
                      [] op = "<" -> "LessThan"
                      [] op = "<=" -> "LessThanEquals"
                      [] op = ">" -> "GreaterThan"
                      [] op = ">=" -> "GreaterThanEquals"

GetBinaryExpressionFromFactory(op, l, r) ==
    CASE op \in {"=", "==", "!=", "<>", "<", "<=", ">", ">="} ->
            ComparisonExpression(ComparisonOf(op), l, r)
      [] op = "LIKE" -> LikeExpression(l, r)
      [] op = "+" -> ArithmeticExpression("Plus", l, r)
      [] op = "-" -> ArithmeticExpression("Minus", l, r)
      [] op = "and" -> LogicExpression("And", l, r)
      [] op = "or" -> LogicExpression("Or", l, r)
      [] OTHER -> NotSupported

(* Mutant: a column both sides of a join have is taken from the left. *)
PlanColumnRefLeft(name, children) ==
    LET At(k) == {i \in DOMAIN children[k].schema : children[k].schema[i].name = name}
        sides == {k \in DOMAIN children : At(k) # {}}
    IN  IF sides = {} THEN NotSupported
        ELSE LET k == CHOOSE k \in sides : \A j \in sides : k <= j
                 i == CHOOSE i \in At(k) : TRUE
             IN  ColumnValueExpression(0, i, children[k].schema[i].type)

(* One child has the column once; of two children, one has it. *)
PlanColumnRef(name, children) ==
    LET At(k) == {i \in DOMAIN children[k].schema : children[k].schema[i].name = name}
        sides == {k \in DOMAIN children : At(k) # {}}
        k == CHOOSE k \in sides : TRUE
        i == CHOOSE i \in At(k) : \A j \in At(k) : i <= j
    IN  IF \/ Len(children) \notin {1, 2}
           \/ \A side \in DOMAIN children : side \notin sides
           \/ Len(children) = 1 /\ \E x, y \in At(1) : x # y
           \/ Len(children) = 2 /\ sides = {1, 2}
        THEN NotSupported
        ELSE ColumnValueExpression(k - 1, i, children[k].schema[i].type)

PlanConstant(e) == ConstantValueExpression(e.val)

(* AddAggCallToContext: the aggregate calls of an expression, from left to  *)
(* right; other expressions than these fail when they are planned.         *)
RECURSIVE AggCallsOf(_)
AggCallsOf(e) == CASE e.t = "agg" -> <<e>>
                   [] e.t = "binop" -> AggCallsOf(e.l) \o AggCallsOf(e.r)
                   [] e.t = "alias" -> AggCallsOf(e.child)
                   [] OTHER -> <<>>
AggCalls(exprs) == FlattenSeq([i \in DOMAIN exprs |-> AggCallsOf(exprs[i])])

RECURSIVE PlanExpression(_, _, _, _)
BinaryOf(op, l, r) ==
    IF Unplanned(<<l, r>>) THEN NotSupported ELSE GetBinaryExpressionFromFactory(op, l, r)
PlanBinaryOp(e, children, aggs, next) ==
    BinaryOf(e.op, PlanExpression(e.l, children, aggs, next),
             PlanExpression(e.r, children, aggs, next + Len(AggCallsOf(e.l))))

PlanExpression(e, children, aggs, next) ==
    CASE e.t = "agg" -> IF next \in DOMAIN aggs THEN aggs[next] ELSE NotSupported
      [] e.t = "colref" -> PlanColumnRef(e.name, children)
      [] e.t = "binop" -> PlanBinaryOp(e, children, aggs, next)
      [] e.t = "const" -> PlanConstant(e)
      [] e.t = "alias" -> PlanExpression(e.child, children, aggs, next)
      [] OTHER -> NotSupported

(* The name PlanExpression returns with the expression. *)
ColumnName(e) == CASE e.t = "colref" -> e.name
                   [] e.t = "alias" -> <<e.alias>>
                   [] OTHER -> UnnamedColumn

(* The expressions of a list, with the aggregate calls of skip before it. *)
PlanExpressions(list, children, aggs, skip) ==
    Evaluated([i \in DOMAIN list |->
                 PlanExpression(list[i], children, aggs,
                                1 + Len(skip) + Len(AggCalls(SubSeq(list, 1, i - 1))))])

RECURSIVE HasAggregation(_)
HasAggregation(e) == CASE e.t = "agg" -> TRUE
                       [] e.t = "alias" -> HasAggregation(e.child)
                       [] e.t = "binop" -> HasAggregation(e.l) \/ HasAggregation(e.r)
                       [] e.t = "unop" -> HasAggregation(e.arg)
                       [] OTHER -> FALSE

(* A filter by the first of exprs, and a projection to exprs. *)
FilterOver(child, exprs) ==
    Node(<<child>>, exprs, FilterPlan(child.schema, exprs[1], child))
ProjectionOver(child, exprs, names) ==
    Node(<<child>>, exprs,
         ProjectionPlan(RenameSchema(InferProjectionSchema(exprs), names), exprs, child))

-----------------------------------------------------------------------------
(* Aggregation. *)
AggregateNames == [count_star |-> "CountStar", count |-> "Count", sum |-> "Sum",
                   min |-> "Min", max |-> "Max"]

GetAggCallFromFactory(func, args) ==
    IF \/ args = <<>> /\ func = "count_star"
       \/ Len(args) = 1 /\ func \in {"min", "max", "sum", "count"}
    THEN AggregateNames[func] ELSE "none"

(* The input of an aggregate; COUNT( * ) counts a constant.  DISTINCT and   *)
(* calls inside calls are refused.                                          *)
AggInput(call, args) ==
    IF call.distinct \/ Unplanned(args) \/ GetAggCallFromFactory(call.func, args) = "none"
    THEN NotSupported
    ELSE IF args = <<>> THEN ConstantValueExpression(GetIntegerValue(1)) ELSE args[1]
PlanAggCall(call, child) ==
    AggInput(call, PlanExpressions(call.args, <<child>>, NoAggs, <<>>))

(* GROUP BY columns first, then the calls of HAVING and of the select list. *)
AggNode(stmt, child, calls, group_bys, inputs) ==
    LET types == [i \in DOMAIN calls |-> GetAggCallFromFactory(calls[i].func, calls[i].args)]
        names == [i \in DOMAIN stmt.group_by |-> ColumnName(stmt.group_by[i])]
                 \o [i \in DOMAIN calls |-> <<"agg", ToString(i - 1)>>]
    IN  Node(<<child>>, group_bys \o inputs,
             AggregationPlan(RenameSchema(InferAggSchema(group_bys, inputs), names),
                             child, group_bys, inputs, types))
AggHaving(stmt, agg, aggs) ==
    IF stmt.having = <<>> THEN agg
    ELSE FilterOver(agg, PlanExpressions(stmt.having, <<agg>>, aggs, <<>>))
AggList(stmt, kept, aggs) ==
    ProjectionOver(kept, PlanExpressions(stmt.select_list, <<kept>>, aggs, AggCalls(stmt.having)),
                   [i \in DOMAIN stmt.select_list |-> ColumnName(stmt.select_list[i])])
PlanAggregates(stmt, child, calls) ==
    LET aggs == [i \in DOMAIN calls |->
                   ColumnValueExpression(0, Len(stmt.group_by) + i, "INTEGER")]
    IN  AggList(stmt,
                AggHaving(stmt,
                          AggNode(stmt, child, calls,
                                  PlanExpressions(stmt.group_by, <<child>>, NoAggs, <<>>),
                                  Evaluated([i \in DOMAIN calls |-> PlanAggCall(calls[i], child)])),
                          aggs), aggs)
PlanSelectAgg(stmt, child) ==
    PlanAggregates(stmt, child, AggCalls(stmt.having \o stmt.select_list))

-----------------------------------------------------------------------------
(* SELECT. *)
IdentityColumns(schema) ==
    [i \in DOMAIN schema |-> ColumnValueExpression(0, i, schema[i].type)]

(* Columns without a name are numbered. *)
PlanProjection(stmt, child) ==
    LET Name(i) == IF ColumnName(stmt.select_list[i]) = UnnamedColumn
                   THEN <<"__unnamed", ToString(i)>> ELSE ColumnName(stmt.select_list[i])
    IN  ProjectionOver(child, PlanExpressions(stmt.select_list, <<child>>, NoAggs, <<>>),
                       [i \in DOMAIN stmt.select_list |-> Name(i)])

PlanDistinct(child) ==
    Node(<<child>>, <<>>,
         AggregationPlan(child.schema, child, IdentityColumns(child.schema), <<>>, <<>>))

SortOver(sort, child, exprs) ==
    Node(<<child>>, exprs,
         SortPlan(child.schema, child,
                  [i \in DOMAIN sort |-> [type |-> sort[i].type, expr |-> exprs[i]]]))
PlanOrderBy(sort, child) ==
    SortOver(sort, child,
             PlanExpressions([i \in DOMAIN sort |-> sort[i].expr], <<child>>, NoAggs, <<>>))

(* The limit is the payload of an INTEGER constant as a size_t, where a     *)
(* negative number, a NULL's payload too, is no limit; OFFSET is refused.   *)
PlanLimit(limit, offset, child) ==
    LET n == limit[1].val
    IN  Node(<<child>>, <<>>,
             IF offset # <<>> \/ limit[1].t # "const" THEN Broken("THROWS")
             ELSE IF n.type # "INTEGER" THEN Broken("THROWS")
             ELSE LimitPlan(child.schema, child, IF IntOf(n) < 0 THEN Pow2[IntBits] ELSE IntOf(n)))

RECURSIVE PlanTableRef(_, _)

PlanFrom(stmt, db) == IF stmt.table.t = "empty" THEN ValuesPlan(<<>>, << <<>> >>)
                                                ELSE PlanTableRef(stmt.table, db)
PlanWhere(stmt, from) ==
    IF stmt.where = <<>> THEN from
    ELSE FilterOver(from, PlanExpressions(stmt.where, <<from>>, NoAggs, <<>>))

IsAggregation(stmt) ==
    \/ stmt.having # <<>> \/ stmt.group_by # <<>>
    \/ \E i \in DOMAIN stmt.select_list : HasAggregation(stmt.select_list[i])
PlanList(stmt, rows) ==
    IF IsAggregation(stmt) THEN PlanSelectAgg(stmt, rows) ELSE PlanProjection(stmt, rows)
PlanUnique(stmt, list) == IF stmt.distinct THEN PlanDistinct(list) ELSE list
PlanSort(stmt, unique) == IF stmt.sort = <<>> THEN unique ELSE PlanOrderBy(stmt.sort, unique)

PlanSelectOver(stmt, sorted) ==
    IF stmt.limit = <<>> /\ stmt.offset = <<>> THEN sorted
    ELSE PlanLimit(stmt.limit, stmt.offset, sorted)
PlanSelect(stmt, db) ==
    PlanSelectOver(stmt, PlanSort(stmt, PlanUnique(stmt,
                         PlanList(stmt, PlanWhere(stmt, PlanFrom(stmt, db))))))

(* The table is looked up again by its name; its columns are the bound      *)
(* ones.                                                                    *)
PlanBaseTableRef(ref, db) ==
    LET found == GetTable(db, ref.table)
    IN  IF found = {} THEN Broken("ABORT")
        ELSE SeqScanPlan(InferScanSchema(ref.table, ref.cols), CHOOSE i \in found : TRUE, NoExpr)

JoinNode(l, r, cond, type) ==
    Node(<<l, r>>, <<cond>>, NestedLoopJoinPlan(InferJoinSchema(l, r), l, r, cond, type))

PlanCrossProductRef(ref, db) ==
    JoinNode(PlanTableRef(ref.left, db), PlanTableRef(ref.right, db),
             ConstantValueExpression(GetBooleanValue(CmpTrue)), "INNER")

JoinOn(ref, l, r) ==
    JoinNode(l, r, PlanExpression(ref.cond, <<l, r>>, NoAggs, 1), ref.join_type)
PlanJoinRef(ref, db) == JoinOn(ref, PlanTableRef(ref.left, db), PlanTableRef(ref.right, db))

(* The first row gives the columns their types. *)
ValuesNode(rows) ==
    Node(<<>>, FlattenSeq(rows),
         ValuesPlan([i \in DOMAIN rows[1] |->
                       [name |-> <<"__values", ToString(i - 1)>>, type |-> rows[1][i].ret]],
                    rows))
PlanExpressionListRef(ref) ==
    ValuesNode(Evaluated([r \in DOMAIN ref.values |->
                            PlanExpressions(ref.values[r], <<>>, NoAggs, <<>>)]))

(* A projection that only renames the columns. *)
RenamingNode(ref, select) ==
    Node(<<select>>, <<>>,
         ProjectionPlan([i \in DOMAIN select.schema |->
                           [name |-> <<ref.alias>> \o ref.names[i],
                            type |-> select.schema[i].type]],
                        IdentityColumns(select.schema), select))
PlanSubquery(ref, db) == RenamingNode(ref, PlanSelect(ref.select, db))

PlanTableRef(ref, db) == CASE ref.t = "base" -> PlanBaseTableRef(ref, db)
                           [] ref.t = "cross" -> PlanCrossProductRef(ref, db)
                           [] ref.t = "join" -> PlanJoinRef(ref, db)
                           [] ref.t = "values" -> PlanExpressionListRef(ref)
                           [] ref.t = "subquery" -> PlanSubquery(ref, db)

-----------------------------------------------------------------------------
(* The other statements; their result is one row with a count. *)
CountSchema(statement) == << [name |-> <<"__hmssql_internal", statement>>, type |-> "INTEGER"] >>

InsertNode(table, select) ==
    Node(<<select>>, <<>>,
         IF [i \in DOMAIN table.cols |-> table.cols[i].type]
              = [i \in DOMAIN select.schema |-> select.schema[i].type]
         THEN InsertPlan(CountSchema("insert_rows"), select, table.oid)
         ELSE Broken("THROWS"))
PlanInsert(stmt, db) == InsertNode(stmt.table, PlanSelect(stmt.select, db))

PlanCondition(table, cond) ==
    FilterOver(table, <<PlanExpression(cond, <<table>>, NoAggs, 1)>>)

DeleteNode(table, filter) ==
    Node(<<filter>>, <<>>, DeletePlan(CountSchema("delete_rows"), filter, table.oid))
PlanDelete(stmt, db) ==
    DeleteNode(stmt.table, PlanCondition(PlanTableRef(stmt.table, db), stmt.cond))

(* The last assignment to a column counts; a column that was not found is a *)
(* null pointer.                                                            *)
UpdateNode(stmt, filter, sets) ==
    LET targets == stmt.targets
        For(c) == {i \in DOMAIN targets :
                     PlanColumnRef(targets[i].col.name, <<filter>>).col = c}
        exprs == [c \in DOMAIN filter.schema |->
                    IF For(c) = {} THEN IdentityColumns(filter.schema)[c]
                    ELSE sets[CHOOSE i \in For(c) : \A j \in For(c) : j <= i]]
    IN  Node(<<filter>>, sets,
             IF \E i \in DOMAIN targets : targets[i].col.t # "colref" THEN Broken("ABORT")
             ELSE UpdatePlan(CountSchema("update_rows"), filter, stmt.table.oid, exprs))
UpdateOver(stmt, filter) ==
    UpdateNode(stmt, filter, [i \in DOMAIN stmt.targets |->
                                PlanExpression(stmt.targets[i].expr, <<filter>>, NoAggs, 1)])
PlanUpdate(stmt, db) ==
    UpdateOver(stmt, PlanCondition(PlanTableRef(stmt.table, db), stmt.cond))

PlanCreateView(stmt) == CreateViewPlan(stmt.view, stmt.query)

PlanQuery(stmt, db) == CASE stmt.t = "select" -> PlanSelect(stmt, db)
                         [] stmt.t = "insert" -> PlanInsert(stmt, db)
                         [] stmt.t = "delete" -> PlanDelete(stmt, db)
                         [] stmt.t = "update" -> PlanUpdate(stmt, db)
                         [] stmt.t = "view" -> PlanCreateView(stmt)
                         [] OTHER -> Broken("THROWS")
=============================================================================
