------------------------------- MODULE Binder -------------------------------
(***************************************************************************)
(* The binder: from the parse tree of a statement to its bound form, with  *)
(* every column resolved to its full name.  scope is the table reference   *)
(* the columns of an expression are looked up in (scope_).  Whatever       *)
(* throws is Refused.                                                      *)
(*                                                                         *)
(* The parse tree is libpg_query's: records with a tag t.  Optional parts  *)
(* are sequences of length 0 or 1.  The lower-casing of names is left out. *)
(***************************************************************************)
EXTENDS Catalog
LOCAL INSTANCE SequencesExt
LOCAL INSTANCE TLC

Refused == [t |-> "refused"]
IsRefused(x) == x.t = "refused"
AnyRefused(seq) == \E i \in DOMAIN seq : IsRefused(seq[i])
NotFound == [t |-> "notfound"]
Crashed == [t |-> "crashed"]

(* Bound expressions. *)
BoundColumnRef(name) == [t |-> "colref", name |-> name]
BoundConstant(x) == [t |-> "const", val |-> x]
BoundBinaryOp(op, l, r) == [t |-> "binop", op |-> op, l |-> l, r |-> r]
BoundUnaryOp(op, arg) == [t |-> "unop", op |-> op, arg |-> arg]
BoundAggCall(func, distinct, args) ==
    [t |-> "agg", func |-> func, distinct |-> distinct, args |-> args]
BoundAlias(alias, child) == [t |-> "alias", alias |-> alias, child |-> child]
BoundStar == [t |-> "star"]

(* Bound table references. *)
BoundEmptyRef == [t |-> "empty"]
BoundBaseTableRef(oid, table, cols) == [t |-> "base", oid |-> oid, table |-> table, cols |-> cols]
BoundCrossProductRef(l, r) == [t |-> "cross", left |-> l, right |-> r]
BoundJoinRef(type, l, r, cond) ==
    [t |-> "join", join_type |-> type, left |-> l, right |-> r, cond |-> cond]
BoundExpressionListRef(values) == [t |-> "values", values |-> values]
BoundSubqueryRef(select, names, alias) ==
    [t |-> "subquery", select |-> select, names |-> names, alias |-> alias]

-----------------------------------------------------------------------------
(* Columns.  A name is looked up as it is, and without its first part when  *)
(* that is the table's; one match is the column, two are ambiguous.        *)
Prepend(ref, part) == IF ref.t = "colref" THEN BoundColumnRef(<<part>> \o ref.name) ELSE ref

ResolveColumnRefFromSchema(cols, col_name) ==
    LET found == {i \in DOMAIN cols : cols[i].name = col_name}
    IN  CASE Len(col_name) # 1 \/ found = {} -> NotFound
          [] OTHER -> IF \E i, j \in found : i # j THEN Refused ELSE BoundColumnRef(col_name)

(* The two lookups of a name, directly and stripped of the table's name. *)
EitherColumn(direct, stripped) ==
    CASE IsRefused(direct) \/ IsRefused(stripped) -> Refused
      [] direct.t = "colref" /\ stripped.t = "colref" -> Refused
      [] OTHER -> IF stripped.t = "colref" THEN stripped ELSE direct

Stripped(col_name, alias, Resolve(_)) ==
    IF Len(col_name) > 1 /\ col_name[1] = alias THEN Resolve(Tail(col_name)) ELSE NotFound

ResolveColumnRefFromBaseTableRef(ref, col_name) ==
    LET Resolve(n) == Prepend(ResolveColumnRefFromSchema(ref.cols, n), ref.table)
    IN  EitherColumn(Resolve(col_name), Stripped(col_name, ref.table, Resolve))

MatchSuffix(suffix, full_name) ==
    /\ Len(suffix) <= Len(full_name)
    /\ SubSeq(full_name, Len(full_name) - Len(suffix) + 1, Len(full_name)) = suffix

ResolveColumnRefFromSelectList(names, col_name) ==
    LET found == {i \in DOMAIN names : MatchSuffix(col_name, names[i])}
    IN  CASE found = {} -> NotFound
          [] OTHER -> IF \E i, j \in found : i # j THEN Refused
                      ELSE BoundColumnRef(names[CHOOSE i \in found : TRUE])

ResolveColumnRefFromSubqueryRef(ref, col_name) ==
    LET Resolve(n) == Prepend(ResolveColumnRefFromSelectList(ref.names, n), ref.alias)
    IN  EitherColumn(Resolve(col_name), Stripped(col_name, ref.alias, Resolve))

(* Mutant of EitherSide: the left side wins, ambiguous or not. *)
EitherSideLeft(l, r) == IF l.t = "colref" THEN l ELSE r

EitherSide(l, r) == CASE IsRefused(l) \/ IsRefused(r) -> Refused
                      [] l.t = "colref" /\ r.t = "colref" -> Refused
                      [] OTHER -> IF l.t = "colref" THEN l ELSE r

RECURSIVE ResolveColumnInternal(_, _)
ResolveColumnInternal(ref, col_name) ==
    CASE ref.t = "base" -> ResolveColumnRefFromBaseTableRef(ref, col_name)
      [] ref.t = "subquery" -> ResolveColumnRefFromSubqueryRef(ref, col_name)
      [] ref.t \in {"cross", "join"} -> EitherSide(ResolveColumnInternal(ref.left, col_name),
                                                   ResolveColumnInternal(ref.right, col_name))
      [] OTHER -> Refused

Found(ref) == IF ref.t = "notfound" THEN Refused ELSE ref
ResolveColumn(scope, col_name) ==
    IF scope.t = "empty" THEN Refused ELSE Found(ResolveColumnInternal(scope, col_name))

RECURSIVE GetAllColumns(_)
GetAllColumns(scope) ==
    CASE scope.t = "base" ->
            [i \in DOMAIN scope.cols |-> BoundColumnRef(<<scope.table>> \o scope.cols[i].name)]
      [] scope.t = "subquery" ->
            [i \in DOMAIN scope.names |-> BoundColumnRef(<<scope.alias>> \o scope.names[i])]
      [] scope.t \in {"cross", "join"} -> GetAllColumns(scope.left) \o GetAllColumns(scope.right)
      [] OTHER -> <<Refused>>

-----------------------------------------------------------------------------
(* Expressions. *)
BindConstant(e) == CASE e.kind = "Integer" -> BoundConstant(GetIntegerValue(e.data[1]))
                     [] e.kind = "String" -> BoundConstant(StringValue(e.data))
                     [] e.kind = "Null" -> BoundConstant(GetNullValueByType("INTEGER"))
                     [] OTHER -> Refused

(* Operators come with one or two operands; ~~ is LIKE. *)
BindAExpr(op, args) ==
    CASE AnyRefused(args) -> Refused
      [] OTHER -> IF Len(args) = 2
                  THEN BoundBinaryOp(IF op = "~~" THEN "LIKE" ELSE op, args[1], args[2])
                  ELSE BoundUnaryOp(op, args[1])

HasStar(args) == \E i \in DOMAIN args : args[i].t = "star"

BindBoolExpr(op, args) ==
    CASE AnyRefused(args) \/ HasStar(args) -> Refused
      [] OTHER ->
           IF op = "not" THEN BoundUnaryOp(op, args[1])
           ELSE FoldLeft(LAMBDA l, r : BoundBinaryOp(op, l, r), args[1], Tail(args))

BindFuncCall(e, args) ==
    IF AnyRefused(args) \/ e.func \notin {"min", "max", "first", "last", "sum", "count"}
    THEN Refused
    ELSE BoundAggCall(IF e.func = "count" /\ args = <<>> THEN "count_star" ELSE e.func,
                      e.distinct, args)

BindResTarget(e, val) ==
    CASE IsRefused(val) -> Refused
      [] OTHER -> IF e.name = "" THEN val ELSE BoundAlias(e.name, val)

BindColumnRef(e, scope) ==
    IF e.fields = <<"*">> THEN BoundStar ELSE ResolveColumn(scope, e.fields)

RECURSIVE BindExpression(_, _)
BindWith(e, args, scope) ==
    CASE e.t = "ColumnRef" -> BindColumnRef(e, scope)
      [] e.t = "AConst" -> BindConstant(e)
      [] e.t = "ResTarget" -> BindResTarget(e, args[1])
      [] e.t = "FuncCall" -> BindFuncCall(e, args)
      [] e.t = "AExpr" -> BindAExpr(e.op, args)
      [] e.t = "BoolExpr" -> BindBoolExpr(e.op, args)
      [] OTHER -> Refused
BindList(list, scope) == Evaluated([i \in DOMAIN list |-> BindExpression(list[i], scope)])
BindExpression(e, scope) == BindWith(e, BindList(e.args, scope), scope)

WithoutStar(exprs) == IF HasStar(exprs) THEN <<Refused>> ELSE exprs
BindExpressionList(list, scope) == WithoutStar(BindList(list, scope))

(* "*" stands alone. *)
StarExpanded(exprs, scope) ==
    CASE ~HasStar(exprs) -> exprs
      [] HasStar(exprs) -> IF Len(exprs) = 1 THEN GetAllColumns(scope) ELSE <<Refused>>
BindSelectList(list, scope) == StarExpanded(BindList(list, scope), scope)

OrderBy(dir, e) == IF IsRefused(e) THEN Refused ELSE [t |-> "order", type |-> dir, expr |-> e]
BindSort(list, scope) ==
    Evaluated([i \in DOMAIN list |-> OrderBy(list[i].dir, BindExpression(list[i].expr, scope))])

-----------------------------------------------------------------------------
(* Statements.  A table's alias and the names of a WITH clause are not      *)
(* looked up: a name in FROM is that of a table.                            *)
BindBaseTableRef(name, db) ==
    LET found == GetTable(db, name)
    IN  IF found = {} THEN Refused
        ELSE LET i == CHOOSE i \in found : TRUE
             IN  BoundBaseTableRef(i, name, db.tables[i].cols)

BindRangeVar(node, db) == BindBaseTableRef(node.relname, db)

(* The names of a subquery's columns. *)
SelectListName(item, i) == CASE item.t = "colref" -> item.name
                             [] item.t = "alias" -> <<item.alias>>
                             [] OTHER -> <<"__item", ToString(i)>>

ValuesColumn(i) == <<"__values", ToString(i - 1)>>
BindValuesList(rows) ==
    [r \in DOMAIN rows |-> BindExpressionList(rows[r], BoundEmptyRef)]

SelectStatement(table, list, where, group_by, having, limit, offset, sort, ctes, distinct) ==
    [t |-> "select", table |-> table, select_list |-> list, where |-> where,
     group_by |-> group_by, having |-> having, limit |-> limit, offset |-> offset,
     sort |-> sort, ctes |-> ctes, distinct |-> distinct]

RECURSIVE BindSelect(_, _), BindTableRef(_, _)

SubqueryOf(select, alias) ==
    IF IsRefused(select) THEN Refused
    ELSE BoundSubqueryRef(select, [i \in DOMAIN select.select_list |->
                                     SelectListName(select.select_list[i], i)], alias)
BindSubquery(node, alias, db) == SubqueryOf(BindSelect(node, db), alias)

BindRangeSubselect(node, db) ==
    BindSubquery(node.query, IF node.alias = "" THEN "__subquery" ELSE node.alias, db)

BindCTE(with, db) ==
    [i \in DOMAIN with |-> BindSubquery(with[i].query, with[i].name, db)]

JoinRef(type, l, r, cond) == IF IsRefused(cond) THEN Refused ELSE BoundJoinRef(type, l, r, cond)
JoinOf(node, l, r) ==
    IF IsRefused(l) \/ IsRefused(r) THEN Refused
    ELSE JoinRef(node.join_type, l, r, BindExpression(node.quals, BoundCrossProductRef(l, r)))
BindJoin(node, db) == JoinOf(node, BindTableRef(node.larg, db), BindTableRef(node.rarg, db))

BindTableRef(node, db) == CASE node.t = "RangeVar" -> BindRangeVar(node, db)
                            [] node.t = "JoinExpr" -> BindJoin(node, db)
                            [] node.t = "RangeSubselect" -> BindRangeSubselect(node, db)
                            [] OTHER -> Refused

(* FROM a, b, c is (a x b) x c. *)
CrossProduct(refs) ==
    CASE refs = <<>> -> BoundEmptyRef
      [] refs # <<>> -> IF AnyRefused(refs) THEN Refused
                        ELSE FoldLeft(BoundCrossProductRef, refs[1], Tail(refs))
BindFrom(list, db) == CrossProduct(Evaluated([i \in DOMAIN list |-> BindTableRef(list[i], db)]))

(* The statement, unless a part of it was refused. *)
CheckedSelect(stmt) ==
    IF AnyRefused(stmt.select_list \o stmt.where \o stmt.group_by \o stmt.having
                    \o stmt.limit \o stmt.offset \o stmt.sort)
    THEN Refused ELSE stmt

SelectOf(node, table, ctes) ==
    IF AnyRefused(ctes) \/ IsRefused(table) THEN Refused
    ELSE CheckedSelect(
           SelectStatement(table, BindSelectList(node.targets, table),
                           BindExpressionList(node.where, table),
                           BindExpressionList(node.group_by, table),
                           BindExpressionList(node.having, table),
                           BindExpressionList(node.limit, table),
                           BindExpressionList(node.offset, table),
                           BindSort(node.sort, table), ctes, node.distinct))

ValuesOf(rows) ==
    IF \E r \in DOMAIN rows : AnyRefused(rows[r]) THEN Refused
    ELSE SelectStatement(BoundExpressionListRef(rows),
                         [i \in DOMAIN rows[1] |-> BoundColumnRef(ValuesColumn(i))],
                         <<>>, <<>>, <<>>, <<>>, <<>>, <<>>, <<>>, FALSE)

BindSelect(node, db) ==
    IF node.values # <<>> THEN ValuesOf(BindValuesList(node.values))
    ELSE SelectOf(node, BindFrom(node.from, db), BindCTE(node.with, db))

TrueCondition == <<BoundConstant(Value8("BOOLEAN", 1))>>

InsertStatement(table, select) ==
    IF IsRefused(table) \/ IsRefused(select) THEN Refused
    ELSE [t |-> "insert", table |-> table, select |-> select]
BindInsert(node, db) ==
    IF node.cols # <<>> THEN Refused
    ELSE InsertStatement(BindBaseTableRef(node.relation, db), BindSelect(node.select, db))

(* The condition of DELETE and UPDATE. *)
BindCondition(node, table) ==
    IF node.where = <<>> THEN TrueCondition[1] ELSE BindExpression(node.where[1], table)

DeleteStatement(table, cond) ==
    IF IsRefused(table) \/ IsRefused(cond) THEN Refused
    ELSE [t |-> "delete", table |-> table, cond |-> cond]
DeleteFrom(node, table) == DeleteStatement(table, BindCondition(node, table))
BindDelete(node, db) == DeleteFrom(node, BindBaseTableRef(node.relation, db))

UpdateStatement(table, cond, targets) ==
    IF IsRefused(table) \/ IsRefused(cond) \/ \E i \in DOMAIN targets : IsRefused(targets[i].expr)
    THEN Refused
    ELSE [t |-> "update", table |-> table, cond |-> cond, targets |-> targets]
UpdateOf(node, table) ==
    UpdateStatement(table, BindCondition(node, table),
        [i \in DOMAIN node.targets |->
           [col |-> ResolveColumnRefFromBaseTableRef(table, <<node.targets[i].name>>),
            expr |-> BindExpression(node.targets[i].args[1], table)]])
BindUpdate(node, db) == UpdateOf(node, BindBaseTableRef(node.relation, db))

BindCreateView(node) == [t |-> "view", view |-> node.view, query |-> node.query]

(* Only int4 and varchar are known.  A VARCHAR without a length has no list *)
(* of modifiers: a null pointer.                                            *)
OneConstant(exprs) == Len(exprs) = 1 /\ exprs[1].t = "const"
BindColumnDefinition(cdef) ==
    LET Typed(type) == [t |-> "column", name |-> <<cdef.colname>>, type |-> type]
    IN  CASE cdef.type = "int4" -> Typed("INTEGER")
          [] cdef.type = "varchar" ->
               IF cdef.typmods = <<>> THEN Crashed
               ELSE IF OneConstant(BindExpressionList(cdef.typmods, BoundEmptyRef))
               THEN Typed("VARCHAR") ELSE Refused
          [] OTHER -> Refused

(* Constraints, a column's too, are refused; two columns of one name are    *)
(* not.                                                                     *)
Unconstrained(e, col) ==
    IF col.t # "column" \/ e.constraints = <<>> THEN col ELSE Refused
BindElement(e) ==
    IF e.t = "ColumnDef" THEN Unconstrained(e, BindColumnDefinition(e)) ELSE Refused
CreateStatement(table, cols) ==
    LET bad == {i \in DOMAIN cols : cols[i].t # "column"}
    IN  IF bad # {} THEN cols[CHOOSE i \in bad : \A j \in bad : i <= j]
        ELSE IF cols = <<>> THEN Refused
        ELSE [t |-> "create", table |-> table,
              cols |-> [i \in DOMAIN cols |-> [name |-> cols[i].name, type |-> cols[i].type]]]
BindCreate(node) ==
    CreateStatement(node.relation, Evaluated([i \in DOMAIN node.elts |-> BindElement(node.elts[i])]))

(* SET of another variable than search_path, which is USE (module           *)
(* Instance); TO DEFAULT has no list of arguments.                          *)
VariableSetStatement(name, exprs) ==
    IF OneConstant(exprs)
    THEN [t |-> "set", variable |-> name, value |-> ValueToString(exprs[1].val)]
    ELSE Refused
BindVariableSet(node) ==
    IF node.args = <<>> THEN Crashed
    ELSE VariableSetStatement(node.name, BindExpressionList(node.args, BoundEmptyRef))

ExplainStatement(statement) ==
    IF statement.t \in {"refused", "crashed"} THEN statement
    ELSE [t |-> "explain", statement |-> statement]

RECURSIVE BindStatement(_, _)
BindExplain(node, db) == ExplainStatement(BindStatement(node.query, db))

BindStatement(node, db) == CASE node.t = "SelectStmt" -> BindSelect(node, db)
                             [] node.t = "InsertStmt" -> BindInsert(node, db)
                             [] node.t = "DeleteStmt" -> BindDelete(node, db)
                             [] node.t = "UpdateStmt" -> BindUpdate(node, db)
                             [] node.t = "ViewStmt" -> BindCreateView(node)
                             [] node.t = "CreateStmt" -> BindCreate(node)
                             [] node.t = "ExplainStmt" -> BindExplain(node, db)
                             [] node.t = "VariableSetStmt" -> BindVariableSet(node)
                             [] OTHER -> Refused
=============================================================================
