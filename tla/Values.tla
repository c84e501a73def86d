------------------------------- MODULE Values -------------------------------
(***************************************************************************)
(* The calls the engine makes on two values and on the row they form.      *)
(* left and right are the operands, call and result the last call; data is *)
(* the row <<left, right, left>> as a Tuple, page as it is stored.          *)
(***************************************************************************)
EXTENDS Tuples

CONSTANT Sample                      \* values of every type

(* What a double can hold, of the rationals: no integer of more significant *)
(* bits than a mantissa, and no fraction above those of them it has all.    *)
IsDouble(q) ==
    IF q[1] % q[2] = 0 THEN HasBits(q[1] \div q[2], MantissaBits)
                       ELSE Magnitude(q[1]) <= Pow2[MantissaBits] * q[2]

(* What the constructors of Value make: an integer of its type's width, the *)
(* least one being the NULL; a double; characters.                         *)
IsValue(x) ==
    \/ /\ x.type \in DOMAIN Widths
       /\ IntOf(x) \in NullOf(x.type) .. MaxOf(x.type)
       /\ x = IntField(x.type, IntOf(x))
    \/ x.v \in Int \X (Nat \ {0}) /\ IsDouble(x.v) /\ x = DecimalValue(x.v)
    \/ x.v \in Seq(0 .. 255) /\ x = VarlenValue(x.v)
    \/ x \in {NullDecimal, NullVarchar}

ASSUME SampleAssumption == \A x \in Sample : IsValue(x)

VARIABLES left, right, call, result, data, page
vars == <<left, right, call, result, data, page>>

Idle == <<"idle">>
Nothing == <<>>
Row == <<left, right, left>>
RowSchema == Schema(<<left.type, right.type, left.type>>)

Init == /\ left \in Sample
        /\ right \in Sample
        /\ call = Idle
        /\ result = Error("NONE")
        /\ data = Nothing
        /\ page = Nothing

Call(c, r) == /\ call = Idle
              /\ call' = c
              /\ result' = r
              /\ UNCHANGED <<left, right, data, page>>

DoCompare == \E op \in CompareOps : Call(<<"Compare", op>>, Compare(op, left, right))
DoArith == \E op \in ArithOps : Call(<<"Arith", op>>, Arith(op, left, right))
DoMin == Call(<<"Min">>, ValueMin(left, right))
DoMax == Call(<<"Max">>, ValueMax(left, right))
DoLike == Call(<<"Like">>, Like(left, right))
DoCastAs == \E T \in TypeIds : Call(<<"CastAs", T>>, CastAs(left, T))
DoFactoryCastAs ==
    \E T \in TypeIds, undefined \in UndefinedCasts :
        Call(<<"FactoryCastAs", T>>, FactoryCastAs(left, T, undefined))

MakeTuple == /\ data = Nothing
             /\ call = Idle
             /\ data' = NewTuple(Row, RowSchema)
             /\ UNCHANGED <<left, right, call, result, page>>

WriteTuple == /\ data # Nothing
              /\ page = Nothing
              /\ call = Idle
              /\ page' = StoreTuple(data)
              /\ UNCHANGED <<left, right, call, result, data>>

ReadTuple == /\ page # Nothing
             /\ call = Idle
             /\ data' = LoadTuple(page)
             /\ page' = Nothing
             /\ UNCHANGED <<left, right, call, result>>

Return == /\ call # Idle
          /\ call' = Idle
          /\ result' = Error("NONE")
          /\ UNCHANGED <<left, right, data, page>>

Next == \/ DoCompare \/ DoArith \/ DoMin \/ DoMax \/ DoLike
        \/ DoCastAs \/ DoFactoryCastAs
        \/ MakeTuple \/ WriteTuple \/ ReadTuple \/ Return

Spec == Init /\ [][Next]_vars

-----------------------------------------------------------------------------
AreNumbers == left.type \in NumericTypes /\ right.type \in NumericTypes
AreIntegers == left.type \in IntegerTypes /\ right.type \in IntegerTypes

(* The mathematical result of an integer operation. *)
Exact(op, x, y) == CASE op = "Add" -> x + y
                     [] op = "Subtract" -> x - y
                     [] op = "Multiply" -> x * y
                     [] op = "Divide" -> Quot(x, y)
                     [] op = "Modulo" -> Rem(x, y)

(* Integer arithmetic of any mix of widths never wraps: it returns the exact *)
(* result in the wider type, or throws because the result does not fit or   *)
(* the divisor is zero; the one value below MIN is returned as NULL.        *)
(* (integer_parent_type.h AddValue to ModuloValue)                          *)
ArithmeticExact ==
    (call[1] = "Arith" /\ AreIntegers) =>
        LET op == call[2]
            T == Wider(left.type, right.type)
            zero == op \in {"Divide", "Modulo"} /\ IntOf(right) = 0
        IN  IF left.null \/ right.null THEN result = IntValue(T, NullOf(T))
            ELSE IF zero THEN result = DivideByZero
            ELSE LET n == Exact(op, IntOf(left), IntOf(right))
                 IN  IF n \in NullOf(T) .. MaxOf(T) THEN result = IntValue(T, n)
                                                    ELSE result = OutOfRange

Mirror(op) == CASE op = "LessThan" -> "GreaterThan"
                [] op = "LessThanEquals" -> "GreaterThanEquals"
                [] op = "GreaterThan" -> "LessThan"
                [] op = "GreaterThanEquals" -> "LessThanEquals"
                [] OTHER -> op

(* x is a BIGINT beside a DECIMAL y, which it compares equal to as a double *)
(* though it is another number.                                            *)
TakenFor(x, y) ==
    /\ x.type = "BIGINT" /\ y.type = "DECIMAL"
    /\ ~HasBits(IntOf(x), MantissaBits)
    /\ QEqual(<<Rounded(IntOf(x)), 1>>, y.v)
Confused == TakenFor(left, right) \/ TakenFor(right, left)

(* Two numbers, whatever their types, compare as their values do, or as     *)
(* equal if one is a BIGINT of more bits than a mantissa and the other the  *)
(* DECIMAL nearest to it: no pair is ever ordered the wrong way round.  The *)
(* answer is NULL exactly with a NULL operand, the same comparison from the *)
(* other side agrees, and Min and Max return one of the operands, a least   *)
(* and a greatest one unless the two are taken for equal.                   *)
(* (the COMPARE_FUNC macros, Min and Max)                                   *)
ComparisonsAgree ==
    AreNumbers =>
        /\ call[1] = "Compare" =>
             /\ (result = CmpNull) <=> (left.null \/ right.null)
             /\ result = Compare(Mirror(call[2]), right, left)
             /\ (~left.null /\ ~right.null) =>
                  result = IF Confused THEN GetCmpBool(Relates(call[2], FALSE, TRUE))
                                       ELSE QRelates(call[2], Num(left), Num(right))
        /\ (call[1] \in {"Min", "Max"} /\ ~left.null /\ ~right.null) =>
             /\ result \in {left, right}
             /\ ~Confused => \A x \in {left, right} :
                  IF call[1] = "Min" THEN ~QLess(Num(x), Num(result))
                                     ELSE ~QLess(Num(result), Num(x))

(* Texts that do not fit TINYINT or SMALLINT wrap into it. *)
WrapsText(x, T) ==
    /\ x.type = "VARCHAR" /\ ~x.null /\ T \in {"TINYINT", "SMALLINT"}
    /\ Parsed(x.v) # <<>> /\ ~FitsIn(QTrunc(Parsed(x.v)), T)

(* The DECIMAL below every BIGINT, which the cast to BIGINT lets through. *)
BecomesNull(x, T) ==
    x.type = "DECIMAL" /\ ~x.null /\ T = "BIGINT" /\ QTrunc(x.v) = NullOf(T)

(* From n to k there is no double but k. *)
Adjacent(n, k) == \A m \in (n .. k) \cup (k .. n) : HasBits(m, MantissaBits) <=> m = k

(* A conversion between numbers that succeeds keeps the number; it drops    *)
(* the fraction where the target is an integer, and moves a BIGINT past no  *)
(* double where the target is DECIMAL.  It makes NULL of NULL only, but for *)
(* the DECIMAL just below the least BIGINT, whose integer is the pattern of *)
(* NULL.  A text that is read as an integer without wrapping keeps its      *)
(* number too, and the result of a cast between integers and text survives  *)
(* the way to the other type and back.  (the CastAs methods)                *)
CastKeepsValue ==
    (call[1] = "CastAs" /\ ~IsError(result)) =>
        LET T == call[2]
        IN  /\ result.type = T
            /\ result.null <=> (left.null \/ BecomesNull(left, T))
            /\ (~left.null /\ {left.type, T} \subseteq NumericTypes) =>
                 \/ QEqual(Num(result), Num(left))
                 \/ T \in IntegerTypes /\ IntOf(result) = QTrunc(Num(left))
                 \/ /\ left.type = "BIGINT" /\ T = "DECIMAL"
                    /\ result.v[2] = 1 /\ Adjacent(IntOf(left), result.v[1])
            /\ (~left.null /\ left.type = "VARCHAR" /\ T \in IntegerTypes
                    /\ ~WrapsText(left, T)) =>
                 IntOf(result) = QTrunc(Parsed(left.v))
            /\ (~left.null /\ {left.type, T} \subseteq IntegerTypes \cup {"VARCHAR"}) =>
                 CastAs(CastAs(result, left.type), T) = result

(* The conversion the factory offers beside Type::CastAs gives the same     *)
(* result, except for the DECIMAL just above the greatest BIGINT, which     *)
(* CastAs refuses and whose conversion in the factory is undefined, a       *)
(* VARCHAR cast to itself (the factory appends a NUL) and a NULL that       *)
(* CastAs refuses.  (value_factory.h CastAs*, *_type.cpp CastAs)            *)
TwoCastsAgree ==
    call[1] = "FactoryCastAs" =>
        LET T == call[2]
            other == CastAs(left, T)
        IN  \/ result = other
            \/ /\ left.type = "DECIMAL" /\ T = "BIGINT" /\ other = OutOfRange
               /\ QTrunc(left.v) = MaxOf(T) + 1
            \/ left.type = "VARCHAR" /\ T = "VARCHAR" /\ ~left.null
            \/ left.null /\ other = Throws /\ result = GetNullValueByType(T)

(* Every column read from a row is the value that was put there, NULLs      *)
(* included, as it was built and after it was stored and loaded, and a key  *)
(* made of some columns reads back as those columns.                       *)
(* (tuple.cpp Tuple, GetValue, KeyFromTuple, SerializeTo, DeserializeFrom)  *)
TupleKeepsValues ==
    data # Nothing =>
        /\ \A i \in DOMAIN Row : GetValue(data, RowSchema, i) = Row[i]
        /\ \A attrs \in {<<2>>, <<3, 2>>, <<2, 1, 3>>} :
             LET keys == CopySchema(RowSchema, attrs)
                 key == KeyFromTuple(data, RowSchema, keys, attrs)
             IN  \A k \in DOMAIN attrs : GetValue(key, keys, k) = Row[attrs[k]]
=============================================================================
