-------------------------------- MODULE Plans --------------------------------
(***************************************************************************)
(* Expressions and plan nodes: what the planner builds, the optimizer      *)
(* rewrites and the executors run.  An expression is a record with its     *)
(* class t, its return type ret and its children kids; a plan node has its *)
(* class, its output schema, its children and the fields of the class.     *)
(* A schema is a sequence of columns [name, type]; a name is the sequence  *)
(* of its parts, <<"t", "a">> for t.a.  Column and row indices start at 1. *)
(***************************************************************************)
EXTENDS Catalog
LOCAL INSTANCE SequencesExt

NoExpr == [t |-> "none", ret |-> "none", kids |-> <<>>]

ConstantValueExpression(x) ==
    [t |-> "const", ret |-> x.type, kids |-> <<>>, val |-> x]

ColumnValueExpression(tuple_idx, col_idx, type) ==
    [t |-> "col", ret |-> type, kids |-> <<>>, tuple |-> tuple_idx, col |-> col_idx]

ComparisonExpression(op, l, r) ==
    [t |-> "cmp", ret |-> "BOOLEAN", kids |-> <<l, r>>, op |-> op]

LikeExpression(l, r) == [t |-> "like", ret |-> "BOOLEAN", kids |-> <<l, r>>]

(* The constructors of the next two throw for operands of another type. *)
NotSupported == [t |-> "throws", ret |-> "none", kids |-> <<>>]

LogicExpression(op, l, r) ==
    IF l.ret = "BOOLEAN" /\ r.ret = "BOOLEAN"
    THEN [t |-> "logic", ret |-> "BOOLEAN", kids |-> <<l, r>>, op |-> op]
    ELSE NotSupported

ArithmeticExpression(op, l, r) ==
    IF l.ret = "INTEGER" /\ r.ret = "INTEGER"
    THEN [t |-> "arith", ret |-> "INTEGER", kids |-> <<l, r>>, op |-> op]
    ELSE NotSupported

-----------------------------------------------------------------------------
(* Evaluation.  A NULL BOOLEAN, and whatever else is neither 0 nor 1, read  *)
(* as a C++ bool gives either outcome; open says which.                     *)
AsBool(x, open) ==
    LET byte == IF x.type = "VARCHAR" THEN 2 ELSE IntOf(x) % Pow2[TinyBits]
    IN  IF byte \in {0, 1} THEN byte = 1 ELSE open

GetBoolAsCmpBool(x) == IF x.null THEN CmpNull ELSE GetCmpBool(IntOf(x) = 1)

(* LogicExpression::PerformComputation. *)
PerformLogic(op, l, r) ==
    LET short == IF op = "And" THEN CmpFalse ELSE CmpTrue
        other == IF op = "And" THEN CmpTrue ELSE CmpFalse
    IN  CASE l = short \/ r = short -> short
          [] l = other /\ r = other -> other
          [] OTHER -> CmpNull

(* ArithmeticExpression::PerformComputation: int32_t, without a check. *)
PerformArithmetic(op, l, r) ==
    IF l.null \/ r.null THEN GetNullValueByType("INTEGER")
    ELSE GetIntegerValue(IF op = "Plus" THEN IntOf(l) + IntOf(r)
                                        ELSE IntOf(l) - IntOf(r))

(* ComparisonExpression::PerformComparison. *)
PerformComparison(op, l, r) == Then(Compare(op, l, r), GetBooleanValue)

(* LikeExpression: NULL is no match. *)
PerformLike(l, r) ==
    LET Text(x) == IF x.type = "VARCHAR" THEN x ELSE StringValue(ValueToString(x))
    IN  Value32("BOOLEAN", IF Like(Text(l), Text(r)) = CmpTrue THEN 1 ELSE 0)

(* EvaluateJoin; Evaluate of one tuple reads it on both sides. *)
RECURSIVE EvaluateJoin(_, _, _)
EvaluateJoin(e, left, right) ==
    LET Operands(Perform(_, _)) ==
          Then(EvaluateJoin(e.kids[1], left, right),
               LAMBDA l : Then(EvaluateJoin(e.kids[2], left, right),
                               LAMBDA r : Perform(l, r)))
    IN  CASE e.t = "const" -> e.val
          [] e.t = "col" -> LET row == IF e.tuple = 0 THEN left ELSE right
                            IN  IF e.col \in DOMAIN row THEN row[e.col] ELSE Aborts
          [] e.t = "cmp" -> Operands(LAMBDA l, r : PerformComparison(e.op, l, r))
          [] e.t = "arith" -> Operands(LAMBDA l, r : PerformArithmetic(e.op, l, r))
          [] e.t = "like" -> Operands(PerformLike)
          [] e.t = "logic" ->
               Operands(LAMBDA l, r : GetBooleanValue(
                          PerformLogic(e.op, GetBoolAsCmpBool(l), GetBoolAsCmpBool(r))))

Evaluate(e, row) == EvaluateJoin(e, row, row)

-----------------------------------------------------------------------------
(* Plan nodes; table and index are object ids. *)
SeqScanPlan(schema, table, filter) ==
    [t |-> "SeqScan", schema |-> schema, kids |-> <<>>, table |-> table, filter |-> filter]

IndexScanPlan(schema, index, filter) ==
    [t |-> "IndexScan", schema |-> schema, kids |-> <<>>, index |-> index, filter |-> filter]

ValuesPlan(schema, values) ==
    [t |-> "Values", schema |-> schema, kids |-> <<>>, values |-> values]

FilterPlan(schema, predicate, child) ==
    [t |-> "Filter", schema |-> schema, kids |-> <<child>>, predicate |-> predicate]

ProjectionPlan(schema, exprs, child) ==
    [t |-> "Projection", schema |-> schema, kids |-> <<child>>, exprs |-> exprs]

AggregationPlan(schema, child, group_bys, aggregates, agg_types) ==
    [t |-> "Agg", schema |-> schema, kids |-> <<child>>, group_bys |-> group_bys,
     aggregates |-> aggregates, agg_types |-> agg_types]

NestedLoopJoinPlan(schema, left, right, predicate, join_type) ==
    [t |-> "NestedLoopJoin", schema |-> schema, kids |-> <<left, right>>,
     predicate |-> predicate, join_type |-> join_type]

NestedIndexJoinPlan(schema, child, key, inner, index, inner_schema, join_type) ==
    [t |-> "NestedIndexJoin", schema |-> schema, kids |-> <<child>>, key |-> key,
     inner |-> inner, index |-> index, inner_schema |-> inner_schema,
     join_type |-> join_type]

HashJoinPlan(schema, left, right, left_key, right_key, join_type) ==
    [t |-> "HashJoin", schema |-> schema, kids |-> <<left, right>>,
     left_key |-> left_key, right_key |-> right_key, join_type |-> join_type]

(* An order by is [type, expr] with type DEFAULT, ASC or DESC. *)
SortPlan(schema, child, order_bys) ==
    [t |-> "Sort", schema |-> schema, kids |-> <<child>>, order_bys |-> order_bys]

TopNPlan(schema, child, order_bys, n) ==
    [t |-> "TopN", schema |-> schema, kids |-> <<child>>, order_bys |-> order_bys, n |-> n]

LimitPlan(schema, child, limit) ==
    [t |-> "Limit", schema |-> schema, kids |-> <<child>>, limit |-> limit]

InsertPlan(schema, child, table) ==
    [t |-> "Insert", schema |-> schema, kids |-> <<child>>, table |-> table]

DeletePlan(schema, child, table) ==
    [t |-> "Delete", schema |-> schema, kids |-> <<child>>, table |-> table]

UpdatePlan(schema, child, table, exprs) ==
    [t |-> "Update", schema |-> schema, kids |-> <<child>>, table |-> table, exprs |-> exprs]

CreateViewPlan(view, query) ==
    [t |-> "CreateView", schema |-> <<>>, kids |-> <<>>, view |-> view, query |-> query]

(* Planning or rewriting ended in an exception or a failed assert. *)
Broken(kind) == [t |-> kind, schema |-> <<>>, kids |-> <<>>]
IsBroken(plan) == plan.t \in {"THROWS", "OUT_OF_RANGE", "ABORT"}

CloneWithChildren(plan, kids) == [plan EXCEPT !.kids = kids]

(* Output schemas. *)
InferScanSchema(table, cols) ==
    [i \in DOMAIN cols |-> [name |-> <<table>> \o cols[i].name, type |-> cols[i].type]]

InferJoinSchema(left, right) == left.schema \o right.schema

InferProjectionSchema(exprs) ==
    [i \in DOMAIN exprs |-> [name |-> <<"<unnamed>">>, type |-> exprs[i].ret]]

RenameSchema(schema, names) ==
    [i \in DOMAIN schema |-> [name |-> names[i], type |-> schema[i].type]]

(* Every aggregate is declared INTEGER. *)
InferAggSchema(group_bys, aggregates) ==
    InferProjectionSchema(group_bys)
      \o [i \in DOMAIN aggregates |-> [name |-> <<"<unnamed>">>, type |-> "INTEGER"]]
=============================================================================
