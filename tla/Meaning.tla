------------------------------ MODULE Meaning ------------------------------
(***************************************************************************)
(* What a bound SELECT means, without plans: the reference the planner and *)
(* the executors are compared with.  A row of a table reference is an      *)
(* environment, a function from full column names to values; a row of the  *)
(* answer is a sequence of values.  Comparisons, AND, OR, + and - are the  *)
(* engine's; names, joins, groups, aggregates and order are defined here.  *)
(* A type is not told from another by its NULL.                            *)
(***************************************************************************)
EXTENDS Planner
LOCAL INSTANCE SequencesExt
LOCAL INSTANCE TLC

AnyNull == NullVarchar

(* An expression that fails makes the whole answer fail. *)
Failure == [n \in {<<"failure">>} |-> Aborts]
Fails(envs) == \E i \in DOMAIN envs : envs[i] = Failure

Canon(x) == IF x.null THEN AnyNull ELSE x
CanonRow(row) == Evaluated([i \in DOMAIN row |-> Canon(row[i])])
CanonRows(rows) == Evaluated([i \in DOMAIN rows |-> CanonRow(rows[i])])
Times(x, seq) == Len(SelectSeq(seq, LAMBDA y : y = x))
SameBag(a, b) == Len(a) = Len(b) /\ \A i \in DOMAIN a : Times(a[i], a) = Times(a[i], b)

Apply(op, l, r) ==
    CASE op = "LIKE" -> PerformLike(l, r)
      [] op = "+" -> PerformArithmetic("Plus", l, r)
      [] op = "-" -> PerformArithmetic("Minus", l, r)
      [] op = "and" -> GetBooleanValue(PerformLogic("And", GetBoolAsCmpBool(l), GetBoolAsCmpBool(r)))
      [] op = "or" -> GetBooleanValue(PerformLogic("Or", GetBoolAsCmpBool(l), GetBoolAsCmpBool(r)))
      [] OTHER -> PerformComparison(ComparisonOf(op), l, r)

(* An aggregate of the values that are not NULL. *)
Aggregate(func, values) ==
    CASE func = "count" -> GetIntegerValue(Len(values))
      [] func # "count" /\ values = <<>> -> AnyNull
      [] func = "sum" /\ values # <<>> ->
            FoldLeft(LAMBDA x, y : GetIntegerValue(IntOf(x) + IntOf(y)), GetIntegerValue(0), values)
      [] func \in {"min", "max"} /\ values # <<>> ->
            LET op == IF func = "min" THEN "LessThanEquals" ELSE "GreaterThanEquals"
                best == {i \in DOMAIN values :
                           \A j \in DOMAIN values : Compare(op, values[i], values[j]) = CmpTrue}
            IN  IF best = {} THEN Aborts ELSE values[CHOOSE i \in best : TRUE]

(* An expression in a group of rows: columns are those of any of them. *)
RECURSIVE Denote(_, _)
Denote(e, group) ==
    LET Inputs == [i \in DOMAIN group |-> Denote(e.args[1], <<group[i]>>)]
    IN  CASE e.t = "const" -> e.val
          [] e.t = "colref" -> IF group = <<>> THEN AnyNull
                               ELSE IF e.name \in DOMAIN group[1] THEN group[1][e.name] ELSE Aborts
          [] e.t = "alias" -> Denote(e.child, group)
          [] e.t = "binop" -> Then(Denote(e.l, group), LAMBDA l :
                                Then(Denote(e.r, group), LAMBDA r : Apply(e.op, l, r)))
          [] e.t = "agg" -> IF e.func = "count_star" THEN GetIntegerValue(Len(group))
                            ELSE Aggregate(e.func, SelectSeq(Inputs, LAMBDA x : ~x.null))

(* The groups for which a condition is true; NULL is not. *)
Places(seq, Is(_)) == SelectSeq([i \in DOMAIN seq |-> i], Is)
Kept(groups, verdicts) ==
    IF \E i \in DOMAIN verdicts : IsError(verdicts[i]) THEN << <<Failure>> >>
    ELSE LET places == Places(groups, LAMBDA i : Canon(verdicts[i]).v = <<1>>)
         IN  [k \in DOMAIN places |-> groups[places[k]]]
Where(cond, groups) ==
    Kept(groups, Evaluated([i \in DOMAIN groups |-> Denote(cond, groups[i])]))

Singletons(envs) == [i \in DOMAIN envs |-> <<envs[i]>>]
Filtered(conds, envs) ==
    IF conds = <<>> THEN envs ELSE FlattenSeq(Where(conds[1], Singletons(envs)))

Env(names, row) ==
    [n \in {names[i] : i \in DOMAIN names} |-> row[CHOOSE i \in DOMAIN names : names[i] = n]]
Pairs(l, rights) == [j \in DOMAIN rights |-> l @@ rights[j]]

(* Rows with equal keys are one group, in the order of their first rows. *)
Firsts(keys) == Places(keys, LAMBDA i : \A j \in 1 .. i - 1 : keys[j] # keys[i])
Key(exprs, env) == Evaluated([i \in DOMAIN exprs |-> Canon(Denote(exprs[i], <<env>>))])
GroupedBy(keys, envs) ==
    LET firsts == Firsts(keys)
    IN  [g \in DOMAIN firsts |->
           LET places == Places(keys, LAMBDA i : keys[i] = keys[firsts[g]])
           IN  [k \in DOMAIN places |-> envs[places[k]]]]
GroupBy(exprs, envs) ==
    GroupedBy(Evaluated([i \in DOMAIN envs |-> Key(exprs, envs[i])]), envs)

Distinct(rows) ==
    LET firsts == Firsts(CanonRows(rows))
    IN  [g \in DOMAIN firsts |-> rows[firsts[g]]]

RECURSIVE RowsOf(_, _), Answer(_, _), ColumnsOf(_)

ColumnsOf(ref) ==
    CASE ref.t = "base" -> [i \in DOMAIN ref.cols |-> <<ref.table>> \o ref.cols[i].name]
      [] ref.t = "subquery" -> [i \in DOMAIN ref.names |-> <<ref.alias>> \o ref.names[i]]
      [] ref.t = "values" -> [i \in DOMAIN ref.values[1] |-> <<"__values", ToString(i - 1)>>]
      [] ref.t \in {"cross", "join"} -> ColumnsOf(ref.left) \o ColumnsOf(ref.right)

(* The rows of a LEFT JOIN that match nothing are filled up with NULLs. *)
Padded(ref, l, matches) ==
    IF matches = <<>> /\ ref.join_type = "LEFT"
    THEN LET columns == ColumnsOf(ref.right)
         IN  <<l @@ [n \in {columns[i] : i \in DOMAIN columns} |-> AnyNull]>>
    ELSE matches
JoinRows(ref, lefts, rights) ==
    FlattenSeq(Evaluated([i \in DOMAIN lefts |->
        Padded(ref, lefts[i], Filtered(<<ref.cond>>, Pairs(lefts[i], rights)))]))
CrossRows(lefts, rights) ==
    FlattenSeq(Evaluated([i \in DOMAIN lefts |-> Pairs(lefts[i], rights)]))

LiveRows(d, table) ==
    LET live == SelectSeq(d.tables[table].heap, LAMBDA r : r.live)
    IN  [i \in DOMAIN live |-> live[i].row]
ValueRows(ref) ==
    [r \in DOMAIN ref.values |-> [i \in DOMAIN ref.values[r] |-> Denote(ref.values[r][i], <<>>)]]

Envs(names, rows) == Evaluated([i \in DOMAIN rows |-> Env(names, rows[i])])
RowsOf(ref, db) ==
    CASE ref.t = "empty" -> << <<>> >>
      [] ref.t = "base" -> Envs(ColumnsOf(ref), LiveRows(db, ref.oid))
      [] ref.t = "values" -> Envs(ColumnsOf(ref), ValueRows(ref))
      [] ref.t = "subquery" -> Envs(ColumnsOf(ref), Answer(ref.select, db))
      [] ref.t = "cross" -> CrossRows(RowsOf(ref.left, db), RowsOf(ref.right, db))
      [] ref.t = "join" -> JoinRows(ref, RowsOf(ref.left, db), RowsOf(ref.right, db))

Source(select, db) == Filtered(select.where, RowsOf(select.table, db))

Grouped(select, envs) ==
    IF ~IsAggregation(select) THEN Singletons(envs)
    ELSE IF select.group_by = <<>> THEN <<envs>> ELSE GroupBy(select.group_by, envs)
Having(conds, groups) == IF conds = <<>> THEN groups ELSE Where(conds[1], groups)

(* The answer before ORDER BY and LIMIT; one row that is an error if it has *)
(* none.                                                                    *)
Listed(list, groups) ==
    IF \E g \in DOMAIN groups : Fails(groups[g]) THEN << <<Aborts>> >>
    ELSE Evaluated([g \in DOMAIN groups |->
           Evaluated([i \in DOMAIN list |-> Denote(list[i], groups[g])])])
Unique(distinct, rows) == IF distinct THEN Distinct(rows) ELSE rows
Answer(select, db) ==
    Unique(select.distinct,
           Listed(select.select_list, Having(select.having, Grouped(select, Source(select, db)))))

-----------------------------------------------------------------------------
(* ORDER BY and LIMIT allow several answers.  An order by is evaluated on   *)
(* the columns of the answer.                                               *)
OutputEnv(select, row) ==
    Env([i \in DOMAIN select.select_list |-> ColumnName(select.select_list[i])], row)
SortKey(select, row) ==
    [i \in DOMAIN select.sort |-> Denote(select.sort[i].expr, <<OutputEnv(select, row)>>)]

SortKeys(select, rows) == Evaluated([i \in DOMAIN rows |-> SortKey(select, rows[i])])

Precedes(sort, ka, kb) ==
    \E i \in DOMAIN ka :
       /\ \A j \in 1 .. i - 1 : Compare("Equals", ka[j], kb[j]) = CmpTrue
       /\ Compare(IF sort[i].type = "DESC" THEN "GreaterThan" ELSE "LessThan",
                  ka[i], kb[i]) = CmpTrue

Limit(select) == IF select.limit = <<>> THEN Pow2[IntBits]
                 ELSE IF IntOf(select.limit[1].val) < 0 THEN Pow2[IntBits]
                 ELSE IntOf(select.limit[1].val)

(* rows are an answer to select: as many of its rows as LIMIT allows, in    *)
(* order, and none left out that precedes one of them.                      *)
InOrder(sort, keys) == \A i, j \in DOMAIN keys : i < j => ~Precedes(sort, keys[j], keys[i])
NoneLeftOut(sort, all, got, keys, gotKeys) ==
    \A k \in DOMAIN all : \A i \in DOMAIN got :
       Precedes(sort, keys[k], gotKeys[i]) => Times(all[k], got) = Times(all[k], all)
IsAnswerAmong(select, all, got, keys, gotKeys) ==
    /\ Len(got) = IF Limit(select) < Len(all) THEN Limit(select) ELSE Len(all)
    /\ \A i \in DOMAIN got : Times(got[i], got) <= Times(got[i], all)
    /\ InOrder(select.sort, gotKeys)
    /\ NoneLeftOut(select.sort, all, got, keys, gotKeys)
IsAnswerOf(select, all, got) ==
    IsAnswerAmong(select, all, got, SortKeys(select, all), SortKeys(select, got))
IsAnswer(select, all, rows) == IsAnswerOf(select, CanonRows(all), CanonRows(rows))

HasError(rows) == \E i \in DOMAIN rows : \E j \in DOMAIN rows[i] : IsError(rows[i][j])
=============================================================================
