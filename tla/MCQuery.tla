------------------------------ MODULE MCQuery ------------------------------
EXTENDS Query
LOCAL INSTANCE SequencesExt

Col(name) == [t |-> "ColumnRef", fields |-> name, args |-> <<>>]
I(n) == [t |-> "AConst", kind |-> "Integer", data |-> <<n>>, args |-> <<>>]
S(s) == [t |-> "AConst", kind |-> "String", data |-> s, args |-> <<>>]
Null == [t |-> "AConst", kind |-> "Null", data |-> <<>>, args |-> <<>>]
Op(op, l, r) == [t |-> "AExpr", op |-> op, args |-> <<l, r>>]
Bool(op, l, r) == [t |-> "BoolExpr", op |-> op, args |-> <<l, r>>]
Not(e) == [t |-> "BoolExpr", op |-> "not", args |-> <<e>>]
Fn(func, args) == [t |-> "FuncCall", func |-> func, distinct |-> FALSE, args |-> args]
As(name, e) == [t |-> "ResTarget", name |-> name, args |-> <<e>>]
T(name) == [t |-> "RangeVar", relname |-> name]
Join(type, l, r, quals) == [t |-> "JoinExpr", join_type |-> type, larg |-> l, rarg |-> r, quals |-> quals]
Sub(query, alias) == [t |-> "RangeSubselect", query |-> query, alias |-> alias]

Select(targets, from) ==
    [t |-> "SelectStmt", with |-> <<>>, from |-> from, values |-> <<>>, targets |-> targets,
     where |-> <<>>, group_by |-> <<>>, having |-> <<>>, limit |-> <<>>, offset |-> <<>>,
     sort |-> <<>>, distinct |-> FALSE]
Values(list) == [Select(<<>>, <<>>) EXCEPT !.values = list]
Star == <<Col(<<"*">>)>>
a == Col(<<"a">>)
b == Col(<<"b">>)
c == Col(<<"c">>)
d == Col(<<"d">>)
ta == Col(<<"t", "a">>)
ua == Col(<<"u", "a">>)
x == <<120>>
y == <<121>>
Long == <<120, 121, 120, 121, 120>>     \* more than a page has room for
Order(e, dir) == <<[expr |-> e, dir |-> dir]>>

TableRef == <<T("t")>>
From(list, cond) == [Select(list, TableRef) EXCEPT !.where = <<cond>>]

Conditions == << Op("=", a, I(1)), Op("=", I(2), b), Op("<", a, b), Op("=", a, Null),
                 Bool("and", Op(">=", a, I(1)), Op("!=", b, I(2))),
                 Bool("or", Op("=", a, I(2)), Op("=", b, I(2))),
                 Op("=", I(1), I(2)), Op("=", Null, I(1)), Op("=", S(x), S(x)), Op("=", a, S(x)),
                 Op("=", a, S(<<49>>)) >>

Filters == [i \in DOMAIN Conditions |-> From(Star, Conditions[i])]

Lists == << Select(<<a>>, TableRef), Select(<<b, a>>, TableRef), Select(<<a, b>>, TableRef),
            Select(<<As("z", Op("+", a, b)), Op("-", b, I(1))>>, TableRef),
            Select(<<I(1), S(x)>>, <<>>), Select(<<c>>, TableRef), Select(<<Not(a)>>, TableRef),
            Values(<< <<I(1), S(x)>>, <<I(2), S(y)>> >>), Values(<< <<I(1)>>, <<S(x)>> >>) >>

Joins == << Select(Star, <<T("t"), T("u")>>),
            [Select(Star, <<T("t"), T("u")>>) EXCEPT !.where = <<Op("=", ta, ua)>>],
            Select(<<b, c>>, <<Join("INNER", T("t"), T("u"), Op("=", ta, ua))>>),
            Select(<<b, c>>, <<Join("LEFT", T("t"), T("u"), Op("=", ua, ta))>>),
            Select(Star, <<Join("LEFT", T("u"), T("t"), Op("<", ua, b))>>),
            Select(<<a, c>>, <<Join("INNER", T("t"), T("u"), Op("=", ta, ua))>>),
            Select(<<ta, c>>, <<Join("INNER", T("t"), T("u"), Op("=", b, ua))>>),
            [Select(<<b, c>>, <<Join("INNER", T("t"), T("u"), Op("=", b, c))>>)
               EXCEPT !.where = <<Op("=", ta, I(1))>>],
            Select(Star, <<Join("RIGHT", T("t"), T("u"), Op("=", ta, ua))>>),
            Select(Star, <<Join("INNER", Join("INNER", T("t"), T("u"), Op("=", ta, ua)), T("w"),
                                Op("=", ua, d))>>),
            Select(<<d>>, <<Join("INNER", T("w"), Sub(From(Star, Op("=", I(1), I(2))), "s"),
                                 Op("=", d, a))>>),
            Select(Star, <<Join("LEFT", Sub(From(<<a>>, Op("=", b, I(2))), "s"), T("w"), Op("=", a, d))>>),
            [Select(<<c>>, <<T("u")>>) EXCEPT !.where = <<Op("~~", c, S(<<37>>))>>] >>

Aggregates == << Select(<<Fn("count", <<>>)>>, TableRef),
                 Select(<<Fn("count", <<a>>), Fn("sum", <<b>>), Fn("min", <<a>>), Fn("max", <<b>>)>>, TableRef),
                 [Select(<<b, Op("+", Fn("max", <<a>>), Fn("min", <<a>>))>>, TableRef)
                    EXCEPT !.group_by = <<b>>, !.having = <<Op(">", Fn("count", <<>>), I(1))>>],
                 [Select(<<a>>, TableRef) EXCEPT !.group_by = <<b>>],
                 [Select(<<b>>, TableRef) EXCEPT !.distinct = TRUE],
                 [Select(<<Fn("sum", <<a>>), b>>, TableRef) EXCEPT !.group_by = <<b>>, !.sort = Order(b, "DESC")],
                 Select(<<Fn("max", <<c>>)>>, <<T("u")>>), Select(<<Fn("first", <<a>>)>>, TableRef),
                 From(<<Fn("sum", <<a>>)>>, Op("=", Fn("sum", <<a>>), I(1))),
                 Select(<<Col(<<"n">>)>>,
                        <<Sub([Select(<<As("n", Fn("count", <<>>)), b>>, TableRef) EXCEPT !.group_by = <<b>>], "s")>>) >>

Orders == << [Select(Star, TableRef) EXCEPT !.sort = Order(a, "ASC")],
             [From(Star, Op("=", b, I(2))) EXCEPT !.sort = Order(a, "DEFAULT")],
             [Select(<<b, a>>, TableRef) EXCEPT !.sort = Order(a, "DESC"), !.limit = <<I(1)>>],
             [Select(Star, TableRef) EXCEPT !.sort = Order(b, "ASC") \o Order(a, "DESC"), !.limit = <<I(2)>>],
             [Select(Star, TableRef) EXCEPT !.limit = <<I(0)>>],
             [Select(<<a>>, TableRef) EXCEPT !.limit = <<S(x)>>],
             [Select(Star, TableRef) EXCEPT !.limit = <<I(1)>>, !.offset = <<I(1)>>],
             [Select(<<b>>, TableRef) EXCEPT !.sort = Order(a, "ASC")] >>

Names == << Select(Star, <<Sub(Select(<<a, b>>, TableRef), "s")>>),
            Select(<<Col(<<"s", "a">>)>>, <<Sub(Select(<<a>>, TableRef), "s"), T("u")>>),
            Select(<<a>>, <<Sub(Select(<<a>>, TableRef), "s"), T("u")>>),
            Select(<<ta>>, <<Sub(Select(<<a>>, TableRef), "t")>>),
            Select(<<a>>, <<T("t"), T("t")>>), Select(<<ta>>, <<T("t"), T("w"), T("u")>>),
            Select(Star, <<T("none")>>),
            Select(Star, <<Sub(Values(<< <<I(1)>> >>), "v")>>) >>

Insert(table, select) == [t |-> "InsertStmt", relation |-> table, cols |-> <<>>, select |-> select]
Delete(table, where) == [t |-> "DeleteStmt", relation |-> table, where |-> where]
Update(table, col, e, where) ==
    [t |-> "UpdateStmt", relation |-> table, targets |-> <<As(col, e)>>, where |-> where]

Changes == << Insert("t", Values(<< <<I(1), I(5)>>, <<I(4), I(5)>> >>)),
              Insert("t", Values(<< <<Null, I(1)>> >>)), Insert("t", Values(<< <<I(1)>> >>)),
              Insert("t", Select(<<a, I(7)>>, <<T("u")>>)),
              Insert("w", From(<<a>>, Op(">", a, I(1)))),
              Insert("t", Select(Star, TableRef)),
              Insert("t", [Select(Star, TableRef) EXCEPT !.sort = Order(a, "ASC")]),
              Insert("u", Values(<< <<I(2), S(x)>>, <<I(3), I(1)>> >>)),
              Insert("u", Values(<< <<I(4), S(x)>>, <<I(5), S(Long)>>, <<I(6), S(y)>> >>)),
              Insert("u", Select(<<ta, c>>, <<Join("LEFT", T("t"), T("u"), Op("=", ta, ua))>>)),
              Insert("t", Values(<< <<I(6), I(6)>>, <<I(5), I(5)>>, <<I(4), I(4)>> >>)),
              Delete("t", <<>>), Delete("t", <<Op("=", a, I(1))>>), Delete("t", <<Op("<", a, b)>>),
              Delete("t", <<Op("=", b, I(2))>>), Delete("u", <<Op("=", c, S(x))>>),
              Update("t", "a", I(9), <<Op("=", b, I(3))>>), Update("t", "c", I(1), <<>>),
              [t |-> "ViewStmt", view |-> "v", query |-> "q"] >>

ColumnDef(name, type, typmods, constraints) ==
    [t |-> "ColumnDef", colname |-> name, type |-> type, typmods |-> typmods, constraints |-> constraints]
Create(table, elts) == [t |-> "CreateStmt", relation |-> table, elts |-> elts]
Set(name, args) == [t |-> "VariableSetStmt", name |-> name, args |-> args]
Explain(query) == [t |-> "ExplainStmt", query |-> query]
Integer == ColumnDef("a", "int4", <<>>, <<>>)
Force == "force_optimizer_starter_rule"

Commands == << Create("n", <<Integer, ColumnDef("b", "varchar", <<I(8)>>, <<>>)>>),
               Create("t", <<Integer>>), Create("n", <<Integer, Integer>>), Create("n", <<>>),
               Create("n", <<ColumnDef("a", "int4", <<>>, <<"PRIMARY">>)>>),
               Create("n", <<Integer, [t |-> "Constraint"]>>),
               Create("n", <<ColumnDef("a", "varchar", <<>>, <<>>)>>),
               Create("n", <<ColumnDef("a", "float8", <<>>, <<>>)>>),
               Set(Force, <<I(1)>>), Set(Force, <<S(<<121, 101, 115>>)>>), Set("v", <<I(0)>>),
               Set(Force, <<>>), Set(Force, <<I(1), I(1)>>),
               Explain(Filters[1]), Explain(Joins[4]), Explain(Changes[1]), Explain(Select(<<a>>, <<>>)),
               Explain(Create("n", <<Integer>>)) >>

MCStatements == Commands \o Filters \o Lists \o Joins \o Aggregates \o Orders \o Names \o Changes

-----------------------------------------------------------------------------
(* Databases, built by the operations of the catalog. *)
Column(name, type) == [name |-> <<name>>, type |-> type]
Tables == LET with_t == CreateTable(EmptyCatalog(FALSE), "t",
                                    <<Column("a", "INTEGER"), Column("b", "INTEGER")>>)
              with_u == CreateTable(with_t, "u", <<Column("a", "INTEGER"), Column("c", "VARCHAR")>>)
          IN  CreateTable(with_u, "w", <<Column("d", "INTEGER")>>)

Datum(type, codes) ==
    CASE codes = <<>> -> GetNullValueByType(type)
      [] codes # <<>> -> IF type = "VARCHAR" THEN StringValue(codes) ELSE GetIntegerValue(codes[1])
RowOf(cols, data) == [i \in DOMAIN cols |-> Datum(cols[i].type, data[i])]

(* What earlier statements did, whether they were stopped or not.  Values   *)
(* are <<n>> for integers, texts, and <<>> for NULLs.                      *)
Row(table, data) == [do |-> "insert", table |-> table, data |-> data]
Del(table, rid) == [do |-> "delete", table |-> table, rid |-> rid]
Index(name, table, col) == [do |-> "index", name |-> name, table |-> table, col |-> col]
Done(acc, op) ==
    CASE op.do = "insert" -> InsertTuple(acc, op.table, RowOf(acc.tables[op.table].cols, op.data), {}).db
      [] op.do = "delete" -> MarkDelete(acc, op.table, op.rid, {}).db
      [] op.do = "index" -> CreateIndex(acc, op.name, op.table, op.col)
After(ops) == FoldLeft(Done, Tables, ops)

OnA == <<Index("ta", 1, 1), Index("ua", 2, 1)>>
Plain == << Row(1, << <<1>>, <<2>> >>), Row(1, << <<2>>, <<2>> >>), Row(1, << <<1>>, <<3>> >>),
            Row(2, << <<1>>, x >>), Row(2, << <<3>>, y >>), Row(3, << <<3>> >>), Row(3, << <<1>> >>) >>
Nulls == << Row(1, << <<>>, <<1>> >>), Row(1, << <<2>>, <<>> >>), Row(2, << <<>>, x >>),
            Row(2, << <<2>>, <<>> >>), Row(3, << <<>> >>) >>
One == << Row(1, << <<1>>, <<2>> >>), Row(2, << <<1>>, x >>), Row(3, << <<1>> >>), Row(3, << <<2>> >>) >>

(* Trees that are empty, have one entry, are left latched with two entries  *)
(* and a row that has none, with a row deleted, and with no entry; two      *)
(* indexes of a table; NULL keys.                                          *)
MCDatabases ==
  << After(<<>>), After(Plain), After(Nulls),
     After(OnA), After(One \o OnA), After(Plain \o <<Del(2, 2), Index("ua", 2, 1)>>),
     After(OnA \o << Row(1, << <<3>>, <<2>> >>), Row(1, << <<1>>, <<2>> >>), Row(1, << <<2>>, <<1>> >>),
                     Row(2, << <<1>>, x >>), Row(2, << <<2>>, x >>), Row(3, << <<2>> >>) >>),
     After(One \o OnA \o << Del(1, 1), Row(2, << <<2>>, y >>), Del(2, 1) >>),
     After(OnA \o <<Index("tb", 1, 2)>> \o << Row(1, << <<1>>, <<1>> >>), Row(3, << <<1>> >>) >>),
     After(OnA \o <<Row(1, << <<1>>, <<1>> >>), Del(1, 1), Index("tb", 1, 2)>>),
     After(OnA \o << Row(1, << <<>>, <<1>> >>), Row(2, << <<2>>, <<>> >>) >>) >>
=============================================================================
