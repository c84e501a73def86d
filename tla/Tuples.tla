------------------------------- MODULE Tuples -------------------------------
(***************************************************************************)
(* Rows as bytes: Schema, Column and Tuple.  A byte is the word it is a     *)
(* part of, its index there and the length of the word, so that a read     *)
(* that does not cover exactly one word as it was written is Torn.         *)
(***************************************************************************)
EXTENDS Types

Byte(w, i, n) == [w |-> w, i |-> i, n |-> n]
Torn == <<>>
VALUE_NULL == -1                     \* BUSTUB_VALUE_NULL, as a length

Put(mem, off, n, w) ==
    [a \in DOMAIN mem |-> IF a \in off .. off + n - 1 THEN Byte(w, a - off, n)
                                                      ELSE mem[a]]
Get(mem, off, n) ==
    IF \A k \in 0 .. n - 1 : /\ off + k \in DOMAIN mem
                             /\ mem[off + k] = Byte(mem[off].w, k, n)
    THEN mem[off].w ELSE Torn

(* Column::TypeSize: a VARCHAR takes 12 bytes in the fixed part. *)
TypeSize(T) == CASE T \in {"BOOLEAN", "TINYINT"} -> 1
                 [] T = "SMALLINT" -> 2
                 [] T = "INTEGER" -> 4
                 [] T \in {"BIGINT", "DECIMAL"} -> 8
                 [] T = "VARCHAR" -> 12

IsInlined(col) == col.type # "VARCHAR"

(* The total of the first n sizes, at n. *)
Sums(sizes) ==
    LET sum[n \in 0 .. Len(sizes)] == IF n = 0 THEN 0 ELSE sum[n - 1] + sizes[n]
    IN  sum

(* The Schema constructor, from the columns' types: a column begins where   *)
(* the ones before it end.                                                  *)
Schema(types) ==
    LET ends == Sums([i \in DOMAIN types |-> TypeSize(types[i])])
    IN  [cols |-> [i \in DOMAIN types |-> [type |-> types[i], offset |-> ends[i - 1]]],
         length |-> ends[Len(types)]]

(* Schema::CopySchema. *)
CopySchema(schema, attrs) == Schema([k \in DOMAIN attrs |-> schema.cols[attrs[k]].type])

-----------------------------------------------------------------------------
LengthOf(x) == IF x.null THEN 0 ELSE Len(x.v)

(* VarlenType: the length and the characters, a NULL only its length. *)
VarlenSerializeTo(x, mem, off) ==
    IF x.null THEN Put(mem, off, 4, <<VALUE_NULL>>)
    ELSE LET sized == Put(mem, off, 4, <<Len(x.v)>>)
         IN  [a \in DOMAIN mem |-> IF a \in off + 4 .. off + 3 + Len(x.v)
                                   THEN Byte(<<x.v[a - off - 3]>>, 0, 1)
                                   ELSE sized[a]]

VarlenDeserializeFrom(mem, off) ==
    LET len == Get(mem, off, 4)
    IN  CASE len = Torn -> Aborts
          [] len = <<VALUE_NULL>> -> NullVarchar
          [] OTHER -> VarlenValue([k \in 1 .. len[1] |-> Get(mem, off + 3 + k, 1)[1]])

(* Value::SerializeTo and DeserializeFrom. *)
SerializeTo(x, mem, off) ==
    IF x.type = "VARCHAR" THEN VarlenSerializeTo(x, mem, off)
                          ELSE Put(mem, off, TypeSize(x.type), x.v)

DeserializeFrom(mem, off, T) ==
    LET w == Get(mem, off, TypeSize(T))
    IN  CASE T = "VARCHAR" -> VarlenDeserializeFrom(mem, off)
          [] T = "DECIMAL" -> IF w = Torn THEN NullDecimal ELSE DecimalValue(w)
          [] OTHER -> IF w = Torn THEN Aborts ELSE IntValue(T, w[1])

-----------------------------------------------------------------------------
(* The Tuple constructor: the fixed part, then every VARCHAR at the running *)
(* offset that its column's first four bytes hold.                         *)
VarlenSize(col, x) == IF IsInlined(col) THEN 0 ELSE LengthOf(x) + 4

TupleSize(row, schema) ==
    schema.length
        + Sums([i \in DOMAIN row |-> VarlenSize(schema.cols[i], row[i])])[Len(row)]

(* Mutant of TupleStep: the length word is not counted. *)
TupleStepShort(t, col, x) ==
    IF IsInlined(col)
    THEN [t EXCEPT !.data = SerializeTo(x, @, col.offset)]
    ELSE [data |-> SerializeTo(x, Put(t.data, col.offset, 4, <<t.offset>>), t.offset),
          offset |-> t.offset + LengthOf(x)]

TupleStep(t, col, x) ==
    IF IsInlined(col)
    THEN [t EXCEPT !.data = SerializeTo(x, @, col.offset)]
    ELSE [data |-> SerializeTo(x, Put(t.data, col.offset, 4, <<t.offset>>), t.offset),
          offset |-> t.offset + LengthOf(x) + 4]

NewTuple(row, schema) ==
    LET zeroed == [a \in 0 .. TupleSize(row, schema) - 1 |-> Byte(<<0>>, 0, 1)]
        built[n \in 0 .. Len(row)] ==
            IF n = 0 THEN [data |-> zeroed, offset |-> schema.length]
                     ELSE TupleStep(built[n - 1], schema.cols[n], row[n])
    IN  built[Len(row)].data

(* Tuple::GetDataPtr, GetValue and KeyFromTuple. *)
GetDataPtr(data, schema, i) ==
    LET col == schema.cols[i]
    IN  IF IsInlined(col) THEN col.offset ELSE Get(data, col.offset, 4)[1]

GetValue(data, schema, i) ==
    DeserializeFrom(data, GetDataPtr(data, schema, i), schema.cols[i].type)

KeyFromTuple(data, schema, key_schema, attrs) ==
    NewTuple([k \in DOMAIN attrs |-> GetValue(data, schema, attrs[k])], key_schema)

(* Tuple::SerializeTo and DeserializeFrom: the size, then the data. *)
StoreTuple(data) ==
    LET size == Cardinality(DOMAIN data)
        mem == [a \in 0 .. size + 3 |-> IF a < 4 THEN Byte(<<0>>, 0, 1) ELSE data[a - 4]]
    IN  Put(mem, 0, 4, <<size>>)

LoadTuple(mem) == [a \in 0 .. Get(mem, 0, 4)[1] - 1 |-> mem[a + 4]]
=============================================================================
