------------------------------ MODULE Optimizer ------------------------------
(***************************************************************************)
(* The rewrite rules.  Every rule first rewrites the children of a node    *)
(* and then the node itself, which is the operator of the rule here;       *)
(* Rewrite is the traversal they share.  A rule that throws, or that       *)
(* dereferences what a dynamic_cast did not find, leaves Broken.           *)
(***************************************************************************)
EXTENDS Plans
LOCAL INSTANCE SequencesExt

IsColumn(e) == e.t = "col"
IsConstant(e) == e.t = "const"

(* expr is <column> = <column>. *)
IsColumnEquality(e) ==
    /\ e.t = "cmp" /\ e.op = "Equals"
    /\ IsColumn(e.kids[1]) /\ IsColumn(e.kids[2])

ColumnTypes(schema) == [i \in DOMAIN schema |-> schema[i].type]

(* The first index of a table on one column; 0 if there is none. *)
MatchIndex(db, table, col) ==
    LET found == {i \in DOMAIN db.indexes : db.indexes[i].table = table /\ db.indexes[i].col = col}
    IN  IF found = {} THEN NoIndex ELSE CHOOSE i \in found : \A j \in found : i <= j

-----------------------------------------------------------------------------
(* A projection that repeats the columns of its child is dropped. *)
(* Mutant: the order of the columns is not compared. *)
OptimizeMergeProjectionUnordered(plan) ==
    IF /\ plan.t = "Projection"
       /\ ColumnTypes(plan.schema) = ColumnTypes(plan.kids[1].schema)
       /\ \A i \in DOMAIN plan.exprs : IsColumn(plan.exprs[i])
    THEN [plan.kids[1] EXCEPT !.schema = plan.schema] ELSE plan

OptimizeMergeProjection(plan) ==
    IF /\ plan.t = "Projection"
       /\ ColumnTypes(plan.schema) = ColumnTypes(plan.kids[1].schema)
       /\ \A i \in DOMAIN plan.exprs : /\ IsColumn(plan.exprs[i])
                                       /\ plan.exprs[i].tuple = 0
                                       /\ plan.exprs[i].col = i
    THEN [plan.kids[1] EXCEPT !.schema = plan.schema] ELSE plan

(* A filter <column> = <constant> over a scan looks the constant up in an   *)
(* index on the column.                                                     *)
OptimizeMergeFilterIndexScan(plan, db) ==
    LET e == plan.predicate
        index == MatchIndex(db, plan.kids[1].table, e.kids[1].col)
    IN  IF /\ plan.t = "Filter" /\ plan.kids[1].t = "SeqScan"
           /\ e.t = "cmp" /\ e.op = "Equals"
           /\ IsColumn(e.kids[1]) /\ IsConstant(e.kids[2])
           /\ index # NoIndex
        THEN IndexScanPlan(plan.schema, index, e) ELSE plan

OptimizeMergeFilterScan(plan) ==
    IF /\ plan.t = "Filter" /\ plan.kids[1].t = "SeqScan"
       /\ plan.kids[1].filter.t = "none"
    THEN SeqScanPlan(plan.schema, plan.kids[1].table, plan.predicate) ELSE plan

(* A column of the joined row as a column of the left or the right row. *)
RECURSIVE RewriteExpressionForJoin(_, _, _)
RewriteExpressionForJoin(e, left_column_cnt, right_column_cnt) ==
    CASE IsColumn(e) /\ e.col <= left_column_cnt -> e
      [] IsColumn(e) /\ e.col > left_column_cnt ->
            ColumnValueExpression(1, e.col - left_column_cnt, e.ret)
      [] OTHER ->
            [e EXCEPT !.kids = [i \in DOMAIN e.kids |->
               RewriteExpressionForJoin(e.kids[i], left_column_cnt, right_column_cnt)]]

(* A constant predicate as a BOOLEAN. *)
IsPredicateTrue(e) == IF IsConstant(e) THEN CastAs(e.val, "BOOLEAN") ELSE Value32("BOOLEAN", 0)

(* A filter over a join without a condition becomes its condition; the join *)
(* type stays.                                                              *)
OptimizeMergeFilterNLJ(plan, db) ==
    LET nlj == plan.kids[1]
        true == IsPredicateTrue(nlj.predicate)
    IN  IF plan.t = "Filter" /\ nlj.t = "NestedLoopJoin"
        THEN IF IsError(true) THEN Broken(true.type)
             ELSE IF AsBool(true, db.open)
             THEN NestedLoopJoinPlan(plan.schema, nlj.kids[1], nlj.kids[2],
                                     RewriteExpressionForJoin(plan.predicate, Len(nlj.kids[1].schema),
                                                              Len(nlj.kids[2].schema)),
                                     nlj.join_type)
             ELSE plan
        ELSE plan

(* (L join R1) join R2 with an index on L becomes (R1 join R2) join L.  The *)
(* shape of the outer predicate is taken for granted: an equality of a      *)
(* column of R1 and one of R2.                                             *)
OptimizeReorderJoinUseIndex(plan, db) ==
    LET nlj == plan.kids[1]
        L == nlj.kids[1]
        R1 == nlj.kids[2]
        R2 == plan.kids[2]
        inner == nlj.predicate.kids
        outer == plan.predicate.kids
        inner_pred == ComparisonExpression("Equals",
                         ColumnValueExpression(0, outer[1].col - Len(L.schema), outer[1].ret),
                         ColumnValueExpression(1, outer[2].col, outer[2].ret))
        outer_pred == ComparisonExpression("Equals",
                         ColumnValueExpression(0, inner[2].col, inner[2].ret),
                         ColumnValueExpression(1, inner[1].col, inner[1].ret))
        columns == R1.schema \o R2.schema
    IN  IF /\ plan.t = "NestedLoopJoin" /\ nlj.t = "NestedLoopJoin" /\ R2.t = "SeqScan"
           /\ L.t = "SeqScan" /\ R1.t # "NestedLoopJoin"
           /\ IsColumnEquality(nlj.predicate)
           /\ MatchIndex(db, L.table, inner[1].col) # NoIndex
        THEN IF IsColumnEquality(plan.predicate)
             THEN NestedLoopJoinPlan(columns \o L.schema,
                                     NestedLoopJoinPlan(columns, R1, R2, inner_pred, "INNER"),
                                     L, outer_pred, "INNER")
             ELSE Broken("ABORT")
        ELSE plan

(* <constant> = <constant> with different payloads as INTEGER. *)
IsPredicateFalse(e) ==
    IF /\ e.t = "cmp" /\ e.op = "Equals"
       /\ IsConstant(e.kids[1]) /\ IsConstant(e.kids[2])
    THEN Then(CastAs(e.kids[1].val, "INTEGER"),
              LAMBDA l : Then(CastAs(e.kids[2].val, "INTEGER"),
                              LAMBDA r : Value32("BOOLEAN", IF l.v # r.v THEN 1 ELSE 0)))
    ELSE Value32("BOOLEAN", 0)

OptimizeFalseFilter(plan) ==
    LET false == IsPredicateFalse(plan.predicate)
    IN  IF plan.t = "Filter"
        THEN IF IsError(false) THEN Broken(false.type)
             ELSE IF false.v = <<1>> THEN ValuesPlan(plan.kids[1].schema, <<>>)
             ELSE plan
        ELSE plan

(* A join with nothing on the right becomes its left side. *)
OptimizeRemoveJoin(plan) ==
    IF /\ plan.t = "NestedLoopJoin" /\ plan.kids[2].t = "Values"
       /\ plan.kids[2].values = <<>>
    THEN plan.kids[1] ELSE plan

(* What the "hacking" of RemoveColumn can read of an expression. *)
IsNested(e) == IsColumn(e) \/ (Len(e.kids) = 2 /\ Len(e.kids[1].kids) = 2)

(* A projection of a projected aggregation, taken to be the one query of a  *)
(* benchmark: the last output is recomputed from the first two aggregates   *)
(* kept, of which the second was the fourth.                               *)
OptimizeRemoveColumn(plan) ==
    LET inner == plan.kids[1]
        agg == inner.kids[1]
        n == Len(agg.group_bys)
        Col(i) == ColumnValueExpression(0, i, "INTEGER")
        kept == [i \in DOMAIN plan.exprs |-> inner.exprs[plan.exprs[i].col]]
        last == ArithmeticExpression("Plus", ArithmeticExpression("Plus", Col(2), Col(2)), Col(3))
    IN  IF plan.t = "Projection" /\ inner.t = "Projection" /\ agg.t = "Agg"
        THEN IF /\ Len(plan.exprs) <= Len(inner.exprs)
                /\ \A i \in DOMAIN plan.exprs : IsColumn(plan.exprs[i]) /\ IsNested(inner.exprs[i])
                /\ Len(agg.aggregates) >= 4
             THEN ProjectionPlan([i \in DOMAIN plan.exprs |-> inner.schema[plan.exprs[i].col]],
                                 Append(Front(kept), last),
                                 AggregationPlan(SubSeq(agg.schema, 1, n + 1) \o <<agg.schema[n + 4]>>,
                                                 agg.kids[1], agg.group_bys,
                                                 <<agg.aggregates[1], agg.aggregates[4]>>,
                                                 <<agg.agg_types[1], agg.agg_types[4]>>))
             ELSE Broken("ABORT")
        ELSE plan

-----------------------------------------------------------------------------
(* The two columns of an equality, the left row's first, if it has one of   *)
(* each row; else <<>>.                                                     *)
JoinKeys(e) ==
    LET Col(x) == ColumnValueExpression(0, x.col, x.ret)
        sides == <<e.kids[1].tuple, e.kids[2].tuple>>
    IN  CASE sides = <<0, 1>> -> <<Col(e.kids[1]), Col(e.kids[2])>>
          [] sides = <<1, 0>> -> <<Col(e.kids[2]), Col(e.kids[1])>>
          [] OTHER -> <<>>

(* The filter of the scan on the right is dropped with it. *)
OptimizeNLJAsIndexJoin(plan, db) ==
    LET keys == JoinKeys(plan.predicate)
        right == plan.kids[2]
        index == MatchIndex(db, right.table, keys[2].col)
    IN  IF /\ plan.t = "NestedLoopJoin" /\ IsColumnEquality(plan.predicate)
           /\ right.t = "SeqScan" /\ keys # <<>>
           /\ index # NoIndex
        THEN NestedIndexJoinPlan(plan.schema, plan.kids[1], keys[1], right.table, index,
                                 right.schema, plan.join_type)
        ELSE plan

(* Mutant: the two keys change sides. *)
OptimizeNLJAsHashJoinSwapped(plan) ==
    LET keys == JoinKeys(plan.predicate)
    IN  IF /\ plan.t = "NestedLoopJoin" /\ IsColumnEquality(plan.predicate)
           /\ keys # <<>>
        THEN HashJoinPlan(plan.schema, plan.kids[1], plan.kids[2], keys[2], keys[1], plan.join_type)
        ELSE plan

OptimizeNLJAsHashJoin(plan) ==
    LET keys == JoinKeys(plan.predicate)
    IN  IF /\ plan.t = "NestedLoopJoin" /\ IsColumnEquality(plan.predicate)
           /\ keys # <<>>
        THEN HashJoinPlan(plan.schema, plan.kids[1], plan.kids[2], keys[1], keys[2], plan.join_type)
        ELSE plan

(* A scan sorted by an indexed column, upwards, walks the index; the filter *)
(* of the scan is dropped with it.                                         *)
OptimizeOrderByAsIndexScan(plan, db) ==
    LET order == plan.order_bys[1]
        index == MatchIndex(db, plan.kids[1].table, order.expr.col)
    IN  IF /\ plan.t = "Sort" /\ Len(plan.order_bys) = 1
           /\ order.type \in {"ASC", "DEFAULT"}
           /\ IsColumn(order.expr) /\ plan.kids[1].t = "SeqScan"
           /\ index # NoIndex
        THEN IndexScanPlan(plan.schema, index, NoExpr) ELSE plan

OptimizeSortLimitAsTopN(plan) ==
    IF plan.t = "Limit" /\ plan.kids[1].t = "Sort"
    THEN TopNPlan(plan.schema, plan.kids[1].kids[1], plan.kids[1].order_bys, plan.limit)
    ELSE plan

-----------------------------------------------------------------------------
ApplyRule(rule, plan, db) ==
    CASE rule = "MergeProjection" -> OptimizeMergeProjection(plan)
      [] rule = "MergeFilterIndexScan" -> OptimizeMergeFilterIndexScan(plan, db)
      [] rule = "MergeFilterScan" -> OptimizeMergeFilterScan(plan)
      [] rule = "MergeFilterNLJ" -> OptimizeMergeFilterNLJ(plan, db)
      [] rule = "ReorderJoinUseIndex" -> OptimizeReorderJoinUseIndex(plan, db)
      [] rule = "FalseFilter" -> OptimizeFalseFilter(plan)
      [] rule = "RemoveJoin" -> OptimizeRemoveJoin(plan)
      [] rule = "RemoveColumn" -> OptimizeRemoveColumn(plan)
      [] rule = "NLJAsIndexJoin" -> OptimizeNLJAsIndexJoin(plan, db)
      [] rule = "NLJAsHashJoin" -> OptimizeNLJAsHashJoin(plan)
      [] rule = "OrderByAsIndexScan" -> OptimizeOrderByAsIndexScan(plan, db)
      [] rule = "SortLimitAsTopN" -> OptimizeSortLimitAsTopN(plan)

(* RemoveColumn rewrites its children by RemoveJoin. *)
RECURSIVE Rewrite(_, _, _)
Rewrite(rule, plan, db) ==
    LET below == IF rule = "RemoveColumn" THEN "RemoveJoin" ELSE rule
        kids == Evaluated([i \in DOMAIN plan.kids |-> Rewrite(below, plan.kids[i], db)])
        broken == {i \in DOMAIN kids : IsBroken(kids[i])}
    IN  IF broken # {} THEN kids[CHOOSE i \in broken : \A j \in broken : i <= j]
        ELSE ApplyRule(rule, CloneWithChildren(plan, kids), db)

(* Optimize with force_starter_rule_, and OptimizeCustom without            *)
(* PredicatePushDown, which only concerns mock tables.                      *)
StarterRules == <<"MergeProjection", "MergeFilterNLJ", "NLJAsIndexJoin",
                  "OrderByAsIndexScan", "SortLimitAsTopN">>
CustomRules == <<"MergeProjection", "MergeFilterIndexScan", "MergeFilterScan",
                 "MergeFilterNLJ", "ReorderJoinUseIndex", "FalseFilter",
                 "RemoveJoin", "RemoveColumn", "NLJAsIndexJoin", "NLJAsHashJoin",
                 "OrderByAsIndexScan", "SortLimitAsTopN">>
=============================================================================
