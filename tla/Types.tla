------------------------------- MODULE Types -------------------------------
(***************************************************************************)
(* The SQL type system: Value and the Type singletons of src/type and      *)
(* include/type.  A Value is its type id, the null marker kept in          *)
(* size_.len_, and its payload as a tuple of integers:                     *)
(*   BOOLEAN and the integer types   <<n>>, a NULL keeps its sentinel;     *)
(*   DECIMAL                         <<n, d>>, the rational n / d: an       *)
(*                                   integer is rounded where it becomes a *)
(*                                   double, a fraction is not;            *)
(*   VARCHAR                         its character codes, with the NUL the *)
(*                                   std::string constructor appends.      *)
(* An exception is a record of the same shape whose type is its kind, so   *)
(* is a CmpBool (enumerators 0, 1, 2); a failed assert is "ABORT".         *)
(* The integer widths are parameters.  Expressions are evaluated in the    *)
(* width C++ promotes their operands to and wrap there.                    *)
(***************************************************************************)
EXTENDS Integers, Sequences, SequencesExt

CONSTANTS TinyBits, SmallBits, IntBits, BigBits,
          MantissaBits    \* of a double

ASSUME WidthsAssumption ==
    /\ {TinyBits, SmallBits, IntBits, BigBits, MantissaBits} \subseteq Nat
    /\ 1 < TinyBits /\ TinyBits < SmallBits
    /\ 2 * SmallBits <= IntBits
    /\ IntBits <= MantissaBits + 1 /\ MantissaBits + 2 <= BigBits

IntegerTypes == {"TINYINT", "SMALLINT", "INTEGER", "BIGINT"}
NumericTypes == IntegerTypes \cup {"DECIMAL"}
TypeIds == {"BOOLEAN", "VARCHAR"} \cup NumericTypes

Widths == [BOOLEAN |-> TinyBits, TINYINT |-> TinyBits, SMALLINT |-> SmallBits,
           INTEGER |-> IntBits, BIGINT |-> BigBits]
Bits(T) == Widths[T]

(* 1 << n, and the weight of a decimal digit. *)
Pow2[n \in Nat] == IF n = 0 THEN 1 ELSE 2 * Pow2[n - 1]
Pow10[n \in Nat] == IF n = 0 THEN 1 ELSE 10 * Pow10[n - 1]

(* Two's complement of width w. *)
Wrapped(n, half) == ((n + half) % (2 * half)) - half
Wrap(n, w) == Wrapped(n, Pow2[w - 1])

(* limits.h: the least payload of a type is its NULL, MIN is one more. *)
NullOf(T) == -Pow2[Bits(T) - 1]
MinOf(T) == NullOf(T) + 1
MaxOf(T) == Pow2[Bits(T) - 1] - 1
FitsIn(n, T) == n \in MinOf(T) .. MaxOf(T)

(* The same sequence, with its elements evaluated. *)
Evaluated(seq) == SubSeq(seq, 1, Len(seq))

Error(kind) == [type |-> kind, null |-> FALSE, v |-> <<>>]
OutOfRange == Error("OUT_OF_RANGE")
DivideByZero == Error("DIVIDE_BY_ZERO")
Throws == Error("THROWS")
Aborts == Error("ABORT")
IsError(x) == x.type \in {"OUT_OF_RANGE", "DIVIDE_BY_ZERO", "THROWS", "ABORT"}

(* Cont(x), or the exception x already is. *)
Then(x, Cont(_)) == IF IsError(x) THEN x ELSE Cont(x)

CmpBool(i) == [type |-> "CMPBOOL", null |-> FALSE, v |-> <<i>>]
CmpFalse == CmpBool(0)
CmpTrue == CmpBool(1)
CmpNull == CmpBool(2)
GetCmpBool(b) == IF b THEN CmpTrue ELSE CmpFalse

-----------------------------------------------------------------------------
(* Constructors.  Those that take an integer accept every integer type and *)
(* BOOLEAN, convert to the width of the field and compare it with the NULL *)
(* of that width.                                                          *)
IntField(T, p) == [type |-> T, null |-> p = NullOf(T), v |-> <<p>>]
IntValue(T, i) ==
    IF T \in DOMAIN Widths THEN IntField(T, Wrap(i, Bits(T))) ELSE Throws

Value8(T, i) == IntValue(T, Wrap(i, TinyBits))
Value16(T, i) == IntValue(T, Wrap(i, SmallBits))
Value32(T, i) == IntValue(T, Wrap(i, IntBits))
Value64(T, i) == IntValue(T, Wrap(i, BigBits))

DecimalValue(q) == [type |-> "DECIMAL", null |-> FALSE, v |-> q]
StringValue(s) == [type |-> "VARCHAR", null |-> FALSE, v |-> Append(s, 0)]
VarlenValue(data) == [type |-> "VARCHAR", null |-> FALSE, v |-> data]

NullDecimal == [type |-> "DECIMAL", null |-> TRUE, v |-> <<>>]
NullVarchar == [type |-> "VARCHAR", null |-> TRUE, v |-> <<>>]

(* ValueFactory::Get*Value. *)
GetTinyIntValue(i) == Value8("TINYINT", i)
GetSmallIntValue(i) == Value16("SMALLINT", i)
GetIntegerValue(i) == Value32("INTEGER", i)
GetBigIntValue(i) == Value64("BIGINT", i)
GetBooleanValue(c) ==
    Value8("BOOLEAN", IF c = CmpNull THEN NullOf("BOOLEAN") ELSE c.v[1])

GetNullValueByType(T) ==
    CASE T = "DECIMAL" -> NullDecimal
      [] T = "VARCHAR" -> NullVarchar
      [] OTHER -> IntValue(T, NullOf(T))

GetZeroValueByType(T) ==
    CASE T = "DECIMAL" -> DecimalValue(<<0, 1>>)
      [] T = "VARCHAR" -> StringValue(<<48>>)
      [] OTHER -> IntValue(T, 0)

(* Type::GetMinValue, GetMaxValue; the DECIMAL limits are beyond every     *)
(* rational of a model and left out.                                       *)
GetMinValue(T) == CASE T = "BOOLEAN" -> Value32(T, 0)
                    [] T = "VARCHAR" -> StringValue(<<>>)
                    [] T \in IntegerTypes -> IntValue(T, MinOf(T))
GetMaxValue(T) == CASE T = "BOOLEAN" -> Value32(T, 1)
                    [] T = "VARCHAR" -> NullVarchar
                    [] T \in IntegerTypes -> IntValue(T, MaxOf(T))

-----------------------------------------------------------------------------
(* Numbers: C++ division truncates; rationals are <<n, d>> with d > 0.      *)
IntOf(x) == x.v[1]
Magnitude(n) == IF n < 0 THEN -n ELSE n
Quot(x, y) == IF (x < 0) = (y < 0) THEN Magnitude(x) \div Magnitude(y)
                                   ELSE -(Magnitude(x) \div Magnitude(y))
Rem(x, y) == x - y * Quot(x, y)
QLess(p, q) == p[1] * q[2] < q[1] * p[2]
QEqual(p, q) == p[1] * q[2] = q[1] * p[2]
QTrunc(q) == Quot(q[1], q[2])
QNorm(n, d) == IF d < 0 THEN <<-n, -d>> ELSE <<n, d>>
QDivide(p, q) == QNorm(p[1] * q[2], p[2] * q[1])
QSubtract(p, q) == <<p[1] * q[2] - q[1] * p[2], p[2] * q[2]>>

(* static_cast<double> of an integer: the nearest one of that many          *)
(* significant bits, of two equally near ones the one that needs a bit less *)
(* (ties to even).  A BIGINT has more bits than a mantissa, the other types *)
(* have not.                                                               *)
HasBits(n, bits) ==
    \E e \in 0 .. BigBits : n % Pow2[e] = 0 /\ Magnitude(n) <= Pow2[bits + e]
Near(n, d) == {k \in {n - d, n + d} : HasBits(k, MantissaBits)}
Gap(n) == CHOOSE d \in 0 .. Magnitude(n) :
             Near(n, d) # {} /\ \A c \in 0 .. d - 1 : Near(n, c) = {}
Nearest(near) ==
    CHOOSE k \in near : \/ HasBits(k, MantissaBits - 1)
                        \/ \A j \in near : ~HasBits(j, MantissaBits - 1)
Rounded(n) == Nearest(Near(n, Gap(n)))

(* The number a value stands for, and the double it is converted to. *)
Num(x) == IF x.type = "DECIMAL" THEN x.v ELSE <<IntOf(x), 1>>
AsDouble(x) == IF x.type = "DECIMAL" THEN x.v ELSE <<Rounded(IntOf(x)), 1>>

(* ValMod: x - trunc(x / y) * y. *)
ValMod(p, q) ==
    QSubtract(p, <<QTrunc(QDivide(p, q)) * q[1], q[2]>>)

Rational(op, p, q) ==
    CASE op = "Add" -> <<p[1] * q[2] + q[1] * p[2], p[2] * q[2]>>
      [] op = "Subtract" -> QSubtract(p, q)
      [] op = "Multiply" -> <<p[1] * q[1], p[2] * q[2]>>
      [] op = "Divide" -> QDivide(p, q)
      [] op = "Modulo" -> ValMod(p, q)

Relates(op, less, equal) ==
    CASE op = "Equals" -> equal
      [] op = "NotEquals" -> ~equal
      [] op = "LessThan" -> less
      [] op = "LessThanEquals" -> less \/ equal
      [] op = "GreaterThan" -> ~less /\ ~equal
      [] op = "GreaterThanEquals" -> ~less

CompareOps == {"Equals", "NotEquals", "LessThan", "LessThanEquals",
               "GreaterThan", "GreaterThanEquals"}
ArithOps == {"Add", "Subtract", "Multiply", "Divide", "Modulo"}

-----------------------------------------------------------------------------
(* Text.  std::to_string prints an integer in decimal and a double with    *)
(* six digits; stoi, stoll and stod read the longest number a text starts  *)
(* with and throw when there is none or it does not fit.                   *)
NumDigits(n) == CHOOSE k \in 1 .. n + 1 : n < Pow10[k] /\ (k = 1 \/ Pow10[k - 1] <= n)
LastDigits(n, k) == [i \in 1 .. k |-> 48 + ((n \div Pow10[k - i]) % 10)]
Digits(n) == LastDigits(n, NumDigits(n))

Sign(n) == IF n < 0 THEN <<45>> ELSE <<>>
IntText(n) == Sign(n) \o Digits(Magnitude(n))

Million == 1000000
DecimalText(q) ==
    LET n == Magnitude(q[1])
        frac == Million + ((n % q[2]) * Million) \div q[2]
    IN  Sign(q[1]) \o Digits(n \div q[2]) \o <<46>> \o Tail(Digits(frac))

IsDigit(c) == c \in 48 .. 57
DigitsValue(s) == LET value[i \in 0 .. Len(s)] ==
                        IF i = 0 THEN 0 ELSE 10 * value[i - 1] + s[i] - 48
                  IN  value[Len(s)]

(* The digits of s from position i on. *)
DigitsFrom(s, i) ==
    SubSeq(s, i, CHOOSE j \in (i - 1) .. Len(s) :
                    /\ \A k \in i .. j : IsDigit(s[k])
                    /\ j = Len(s) \/ ~IsDigit(s[j + 1]))
FractionFrom(s, i) == IF i <= Len(s) /\ s[i] = 46 THEN DigitsFrom(s, i + 1) ELSE <<>>

(* The number s starts with as <<numerator, power of ten>>, <<>> if there   *)
(* is none.                                                                *)
Number(sign, whole, frac) ==
    IF whole = <<>> THEN <<>> ELSE <<sign * DigitsValue(whole \o frac), Pow10[Len(frac)]>>
ParsedWhole(sign, s, whole) == Number(sign, whole, FractionFrom(s, Len(whole) + 1))
ParsedAbs(sign, s) == ParsedWhole(sign, s, DigitsFrom(s, 1))
ParsedSigned(s, negative) ==
    ParsedAbs(IF negative THEN -1 ELSE 1, IF negative THEN Tail(s) ELSE s)
Parsed(s) == ParsedSigned(s, s # <<>> /\ s[1] = 45)

(* stoi and stoll, into an integer of w bits. *)
IntegerIn(n, w) == IF Wrap(n, w) = n THEN [type |-> "INT", null |-> FALSE, v |-> <<n>>]
                                     ELSE OutOfRange
IntegerOf(p, w) == IF p = <<>> THEN Throws ELSE IntegerIn(QTrunc(p), w)
Stoi(s, w) == IntegerOf(Parsed(s), w)

DoubleOf(p) ==
    CASE p = <<>> -> Throws
      [] p # <<>> /\ p[2] = 1 -> DecimalValue(<<Rounded(p[1]), 1>>)
      [] p # <<>> /\ p[2] # 1 -> DecimalValue(p)
Stod(s) == DoubleOf(Parsed(s))

TrueText == <<116, 114, 117, 101>>
FalseText == <<102, 97, 108, 115, 101>>

(* The first digits of DBL_LOWEST, the payload of a NULL DECIMAL. *)
DblLowestText == <<45, 49, 55, 57>>

(* Value::ToString, which switches on the type itself: it prints a NULL's   *)
(* sentinel and a VARCHAR with its terminating NUL.                         *)
ValueToString(x) ==
    CASE x.type = "BOOLEAN" -> IF IntOf(x) # 0 THEN TrueText ELSE FalseText
      [] x.type \in IntegerTypes -> IntText(IntOf(x))
      [] x.type = "DECIMAL" -> IF x.null THEN DblLowestText ELSE DecimalText(x.v)
      [] x.type = "VARCHAR" -> x.v

-----------------------------------------------------------------------------
(* Conversions.  Type::CastAs of an integer type checks the range of the    *)
(* target, MIN to MAX without the NULL.                                    *)
(* Mutant of ToInteger: the static_cast without the range check. *)
ToIntegerUnchecked(n, T) == IntValue(T, n)

ToInteger(n, T) == IF FitsIn(n, T) THEN IntValue(T, n) ELSE OutOfRange

IntCastAs(x, T) ==
    CASE T \notin NumericTypes \cup {"VARCHAR"} -> Throws
      [] x.null /\ T \in NumericTypes \cup {"VARCHAR"} -> GetNullValueByType(T)
      [] ~x.null /\ T \in IntegerTypes -> ToInteger(IntOf(x), T)
      [] ~x.null /\ T = "DECIMAL" -> DecimalValue(AsDouble(x))
      [] ~x.null /\ T = "VARCHAR" -> StringValue(ValueToString(x))

TinyintCastAs(x, T) == IntCastAs(x, T)
SmallintCastAs(x, T) == IntCastAs(x, T)
IntegerCastAs(x, T) == IntCastAs(x, T)
BigintCastAs(x, T) == IntCastAs(x, T)

(* The limits are compared as doubles.  Those of BIGINT round to powers of  *)
(* two: the upper one, that no BIGINT holds, is refused; the lower one, the *)
(* payload of NULL, is not.                                                *)
BeyondLimits(q, T) ==
    QLess(q, <<Rounded(MinOf(T)), 1>>) \/ QLess(<<Rounded(MaxOf(T)), 1>>, q)

DecimalCastAs(x, T) ==
    CASE T \notin NumericTypes \cup {"VARCHAR"} -> Throws
      [] T = "DECIMAL" -> x
      [] x.null /\ T \in IntegerTypes \cup {"VARCHAR"} -> GetNullValueByType(T)
      [] ~x.null /\ T \in IntegerTypes ->
            IF \/ BeyondLimits(x.v, T)
               \/ T = "BIGINT" /\ QEqual(<<Rounded(MaxOf(T)), 1>>, x.v)
            THEN OutOfRange ELSE IntValue(T, QTrunc(x.v))
      [] ~x.null /\ T = "VARCHAR" -> StringValue(ValueToString(x))

BooleanCastAs(x, T) ==
    CASE T = "BOOLEAN" -> x
      [] T = "VARCHAR" ->
            IF x.null THEN NullVarchar ELSE StringValue(ValueToString(x))
      [] OTHER -> Throws

(* The text of a BOOLEAN, true/1/t or false/0/f without case; ToString's    *)
(* terminating NUL is part of what is compared.                            *)
LowerCase(s) == [i \in DOMAIN s |-> IF s[i] \in 65 .. 90 THEN s[i] + 32 ELSE s[i]]
TextAsBoolean(s) ==
    CASE LowerCase(s) \in {TrueText, <<49>>, <<116>>} -> Value32("BOOLEAN", 1)
      [] LowerCase(s) \in {FalseText, <<48>>, <<102>>} -> Value32("BOOLEAN", 0)
      [] OTHER -> Throws

(* stoi and a conversion to the width of T: only the NULL pattern is        *)
(* refused, other texts out of the range of TINYINT or SMALLINT wrap.       *)
TextAsInteger(s, T) ==
    Then(Stoi(s, IF T = "BIGINT" THEN BigBits ELSE IntBits),
         LAMBDA n : LET i == Wrap(IntOf(n), Bits(T))
                    IN  IF i < MinOf(T) THEN OutOfRange ELSE IntValue(T, i))

(* Value::ToString of a NULL VARCHAR builds a string from a null pointer,   *)
(* which throws.                                                           *)
TextCastAs(s, T) == CASE T = "BOOLEAN" -> TextAsBoolean(s)
                      [] T \in IntegerTypes -> TextAsInteger(s, T)
                      [] T = "DECIMAL" -> Stod(s)
VarlenCastAs(x, T) ==
    CASE T = "VARCHAR" -> x
      [] T # "VARCHAR" /\ x.null -> Throws
      [] T # "VARCHAR" /\ ~x.null -> TextCastAs(ValueToString(x), T)

(* Value::CastAs: the virtual call. *)
CastAs(x, T) == CASE x.type = "BOOLEAN" -> BooleanCastAs(x, T)
                  [] x.type = "TINYINT" -> TinyintCastAs(x, T)
                  [] x.type = "SMALLINT" -> SmallintCastAs(x, T)
                  [] x.type = "INTEGER" -> IntegerCastAs(x, T)
                  [] x.type = "BIGINT" -> BigintCastAs(x, T)
                  [] x.type = "DECIMAL" -> DecimalCastAs(x, T)
                  [] x.type = "VARCHAR" -> VarlenCastAs(x, T)

IsCoercableFrom(T, from) ==
    CASE T \in {"BOOLEAN", "VARCHAR"} -> TRUE
      [] T \in NumericTypes -> from \in NumericTypes \cup {"VARCHAR"}

(* ValueFactory's own conversions. *)
FactoryInt(x, T, Get(_)) ==
    CASE ~IsCoercableFrom(T, x.type) -> Throws
      [] IsCoercableFrom(T, x.type) /\ x.null -> Get(NullOf(T))
      [] x.type \in IntegerTypes /\ ~x.null ->
            IF FitsIn(IntOf(x), T) THEN Get(IntOf(x)) ELSE OutOfRange
      [] x.type = "DECIMAL" /\ ~x.null ->
            IF BeyondLimits(x.v, T) THEN OutOfRange ELSE Get(QTrunc(x.v))
      [] x.type = "VARCHAR" /\ ~x.null -> TextAsInteger(ValueToString(x), T)

(* The upper limit of BIGINT as a double passes here; its static_cast to an *)
(* integer is undefined, and compiles to an instruction that gives the      *)
(* least BIGINT, which is NULL (x86-64), or the greatest (ARM).             *)
UndefinedCasts == {NullOf("BIGINT"), MaxOf("BIGINT")}
GetBigIntOr(n, undefined) == GetBigIntValue(IF n > MaxOf("BIGINT") THEN undefined ELSE n)

CastAsBigInt(x, undefined) ==
    FactoryInt(x, "BIGINT", LAMBDA n : GetBigIntOr(n, undefined))
CastAsInteger(x) == FactoryInt(x, "INTEGER", GetIntegerValue)
CastAsSmallInt(x) == FactoryInt(x, "SMALLINT", GetSmallIntValue)
CastAsTinyInt(x) == FactoryInt(x, "TINYINT", GetTinyIntValue)

CastAsDecimal(x) ==
    CASE ~IsCoercableFrom("DECIMAL", x.type) -> Throws
      [] IsCoercableFrom("DECIMAL", x.type) /\ x.null -> NullDecimal
      [] x.type \in NumericTypes /\ ~x.null -> DecimalValue(AsDouble(x))
      [] x.type = "VARCHAR" /\ ~x.null -> Stod(ValueToString(x))

(* Mutant of CastAsVarchar: a NULL is printed like a value. *)
CastAsVarcharBlind(x) == StringValue(ValueToString(x))

CastAsVarchar(x) == IF x.null THEN NullVarchar ELSE StringValue(ValueToString(x))

CastAsBoolean(x) ==
    CASE x.null -> IntValue("BOOLEAN", NullOf("BOOLEAN"))
      [] ~x.null /\ x.type = "BOOLEAN" -> Value8("BOOLEAN", IntOf(x))
      [] ~x.null /\ x.type = "VARCHAR" -> TextAsBoolean(ValueToString(x))
      [] ~x.null /\ x.type \in NumericTypes -> Throws

FactoryCastAs(x, T, undefined) ==
    CASE T = "BOOLEAN" -> CastAsBoolean(x)
      [] T = "TINYINT" -> CastAsTinyInt(x)
      [] T = "SMALLINT" -> CastAsSmallInt(x)
      [] T = "INTEGER" -> CastAsInteger(x)
      [] T = "BIGINT" -> CastAsBigInt(x, undefined)
      [] T = "DECIMAL" -> CastAsDecimal(x)
      [] T = "VARCHAR" -> CastAsVarchar(x)

-----------------------------------------------------------------------------
CheckInteger(x) == x.type \in IntegerTypes

(* A string compares with anything, a number with numbers and strings. *)
CheckComparable(l, r) ==
    CASE l.type = "BOOLEAN" -> r.type \in {"BOOLEAN", "VARCHAR"}
      [] l.type \in NumericTypes -> r.type \in NumericTypes \cup {"VARCHAR"}
      [] l.type = "VARCHAR" -> TRUE

(* Comparisons.  A number compares with a string by its own type's          *)
(* conversion of the string, and an integer with a DECIMAL as a double.     *)
QRelates(op, p, q) == GetCmpBool(Relates(op, QLess(p, q), QEqual(p, q)))

(* The right operand as the macros read it: a number beside a number as it  *)
(* is, anything else converted to the type on the left.                    *)
Operand(l, r) == IF {l.type, r.type} \subseteq NumericTypes THEN r ELSE CastAs(r, l.type)

IntCompareFunc(op, l, c) ==
    CASE IsError(c) -> c
      [] ~IsError(c) /\ c.type = "DECIMAL" -> QRelates(op, AsDouble(l), c.v)
      [] ~IsError(c) /\ c.type # "DECIMAL" -> QRelates(op, Num(l), Num(c))

TinyintCompareFunc(op, l, c) == IntCompareFunc(op, l, c)
SmallintCompareFunc(op, l, c) == IntCompareFunc(op, l, c)
IntegerCompareFunc(op, l, c) == IntCompareFunc(op, l, c)
BigintCompareFunc(op, l, c) == IntCompareFunc(op, l, c)

DecimalCompareFunc(op, l, c) == IF IsError(c) THEN c ELSE QRelates(op, l.v, AsDouble(c))

BooleanCompareFunc(op, l, c) ==
    IF IsError(c) THEN c
    ELSE GetCmpBool(Relates(op, IntOf(l) < IntOf(c), IntOf(l) = IntOf(c)))

(* TypeUtil::CompareStrings: memcmp of the common length, then the lengths. *)
TextLess(s, t) ==
    \/ Len(s) < Len(t) /\ s = SubSeq(t, 1, Len(s))
    \/ \E i \in DOMAIN s \cap DOMAIN t :
          s[i] < t[i] /\ SubSeq(s, 1, i - 1) = SubSeq(t, 1, i - 1)

CompareStrings(op, s, t) == GetCmpBool(Relates(op, TextLess(s, t), s = t))

(* The right side becomes a string; the last character, a NUL, is left out. *)
VarlenCompareFunc(op, l, c) == CompareStrings(op, Front(l.v), Front(c.v))

(* What every Compare* does before its macro. *)
Comparing(l, r, Func) ==
    CASE ~CheckComparable(l, r) -> Aborts
      [] CheckComparable(l, r) -> IF l.null \/ r.null THEN CmpNull ELSE Func

TinyintCompare(op, l, r, c) == Comparing(l, r, TinyintCompareFunc(op, l, c))
SmallintCompare(op, l, r, c) == Comparing(l, r, SmallintCompareFunc(op, l, c))
IntegerCompare(op, l, r, c) == Comparing(l, r, IntegerCompareFunc(op, l, c))
BigintCompare(op, l, r, c) == Comparing(l, r, BigintCompareFunc(op, l, c))
DecimalCompare(op, l, r, c) == Comparing(l, r, DecimalCompareFunc(op, l, c))
BooleanCompare(op, l, r, c) == Comparing(l, r, BooleanCompareFunc(op, l, c))
VarlenCompare(op, l, r, c) == Comparing(l, r, VarlenCompareFunc(op, l, c))

(* Value::Compare*: the virtual call. *)
CompareWith(op, l, r, c) == CASE l.type = "BOOLEAN" -> BooleanCompare(op, l, r, c)
                              [] l.type = "TINYINT" -> TinyintCompare(op, l, r, c)
                              [] l.type = "SMALLINT" -> SmallintCompare(op, l, r, c)
                              [] l.type = "INTEGER" -> IntegerCompare(op, l, r, c)
                              [] l.type = "BIGINT" -> BigintCompare(op, l, r, c)
                              [] l.type = "DECIMAL" -> DecimalCompare(op, l, r, c)
                              [] l.type = "VARCHAR" -> VarlenCompare(op, l, r, c)
Compare(op, l, r) == CompareWith(op, l, r, Operand(l, r))

(* Value::Like: the pattern with % as .* and _ as ., matched as a whole;    *)
(* the alphabet of a model has no other character special in a regex.      *)
(* Matches(s, p)[i, j] says that s from i on matches p from j on.           *)
Matches(s, p) ==
    LET match[i \in 1 .. Len(s) + 1, j \in 1 .. Len(p) + 1] ==
          CASE j > Len(p) -> i > Len(s)
            [] j <= Len(p) ->
                 IF p[j] = 37
                 THEN match[i, j + 1] \/ (i <= Len(s) /\ match[i + 1, j])
                 ELSE /\ i <= Len(s) /\ p[j] \in {s[i], 95}
                      /\ match[i + 1, j + 1]
    IN  match[1, 1]

Like(l, r) == CASE l.null \/ r.null -> CmpNull
                [] ~l.null /\ ~r.null ->
                     IF l.type = "VARCHAR" /\ r.type = "VARCHAR"
                     THEN GetCmpBool(Matches(Front(l.v), Front(r.v)))
                     ELSE Throws

-----------------------------------------------------------------------------
(* Integer arithmetic in the width both operands are promoted to; the       *)
(* result has the type of the wider one.                                   *)
Wider(T1, T2) == IF Bits(T1) >= Bits(T2) THEN T1 ELSE T2
Promoted(n, w) == Wrap(n, IF w >= IntBits THEN w ELSE IntBits)

(* n was computed in the wider type, promoted: refused when neither         *)
(* static_cast to an operand's type keeps it, or when its narrowing shows   *)
(* an overflow.                                                            *)
Narrowed(T, T1, T2, n, Overflows(_)) ==
    IF \/ Wrap(n, Bits(T1)) # n /\ Wrap(n, Bits(T2)) # n
       \/ Overflows(Wrap(n, Bits(T)))
    THEN OutOfRange ELSE IntValue(T, n)
NarrowedIn(T, T1, T2, n, Overflows(_)) ==
    Narrowed(T, T1, T2, Promoted(n, Bits(T)), Overflows)

(* Mutant of AddValue: the test for a sum kept by neither cast is missing. *)
AddValueWrapping(T1, T2, x, y) ==
    LET sum == Wrap(x + y, Bits(Wider(T1, T2)))
    IN  IF x > 0 /\ y > 0 /\ sum < 0 THEN OutOfRange
                                     ELSE IntValue(Wider(T1, T2), sum)

AddValue(T1, T2, x, y) ==
    NarrowedIn(Wider(T1, T2), T1, T2, x + y, LAMBDA sum :
        (x > 0 /\ y > 0 /\ sum < 0) \/ (x < 0 /\ y < 0 /\ sum > 0))

SubtractValue(T1, T2, x, y) ==
    NarrowedIn(Wider(T1, T2), T1, T2, x - y, LAMBDA diff :
        (x > 0 /\ y < 0 /\ diff < 0) \/ (x < 0 /\ y > 0 /\ diff > 0))

MultiplyValue(T1, T2, x, y) ==
    NarrowedIn(Wider(T1, T2), T1, T2, x * y, LAMBDA prod : y # 0 /\ Quot(prod, y) # x)

DivideValue(T1, T2, x, y) ==
    IF y = 0 THEN DivideByZero ELSE IntValue(Wider(T1, T2), Quot(x, y))

ModuloValue(T1, T2, x, y) ==
    IF y = 0 THEN DivideByZero ELSE IntValue(Wider(T1, T2), Rem(x, y))

IntMethod(op, T1, T2, x, y) ==
    CASE op = "Add" -> AddValue(T1, T2, x, y)
      [] op = "Subtract" -> SubtractValue(T1, T2, x, y)
      [] op = "Multiply" -> MultiplyValue(T1, T2, x, y)
      [] op = "Divide" -> DivideValue(T1, T2, x, y)
      [] op = "Modulo" -> ModuloValue(T1, T2, x, y)

(* An integer with a DECIMAL is a DECIMAL; a string is converted to the     *)
(* type on the left.                                                       *)
IntModifyFunc(op, l, c) ==
    CASE c.type \in IntegerTypes -> IntMethod(op, l.type, c.type, IntOf(l), IntOf(c))
      [] c.type = "DECIMAL" -> DecimalValue(Rational(op, AsDouble(l), c.v))
      [] OTHER -> c

TinyintModifyFunc(op, l, c) == IntModifyFunc(op, l, c)
SmallintModifyFunc(op, l, c) == IntModifyFunc(op, l, c)
IntegerModifyFunc(op, l, c) == IntModifyFunc(op, l, c)
BigintModifyFunc(op, l, c) == IntModifyFunc(op, l, c)

DecimalModifyFunc(op, l, c) ==
    IF c.type \in NumericTypes THEN DecimalValue(Rational(op, l.v, AsDouble(c))) ELSE c

(* OperateNull: the NULL of the wider type; a string operand throws. *)
IntOperateNull(T, r) ==
    CASE r.type \in IntegerTypes -> GetNullValueByType(Wider(T, r.type))
      [] r.type = "DECIMAL" -> NullDecimal
      [] OTHER -> Throws

TinyintOperateNull(l, r) == IntOperateNull("TINYINT", r)
SmallintOperateNull(l, r) == IntOperateNull("SMALLINT", r)
IntegerOperateNull(l, r) == IntOperateNull("INTEGER", r)
BigintOperateNull(l, r) == IntOperateNull("BIGINT", r)
DecimalOperateNull(l, r) == NullDecimal

OperateNull(l, r) == CASE l.type = "TINYINT" -> TinyintOperateNull(l, r)
                       [] l.type = "SMALLINT" -> SmallintOperateNull(l, r)
                       [] l.type = "INTEGER" -> IntegerOperateNull(l, r)
                       [] l.type = "BIGINT" -> BigintOperateNull(l, r)
                       [] l.type = "DECIMAL" -> DecimalOperateNull(l, r)
                       [] OTHER -> Throws

(* What Add to Modulo do before the macro; Divide and Modulo ask            *)
(* right.IsZero(), which a VARCHAR does not implement.                      *)
Computing(op, l, r, Func) ==
    LET divides == op \in {"Divide", "Modulo"}
    IN  CASE ~CheckComparable(l, r) -> Aborts
          [] CheckComparable(l, r) /\ (l.null \/ r.null) -> OperateNull(l, r)
          [] CheckComparable(l, r) /\ ~l.null /\ ~r.null ->
               CASE divides /\ r.type = "VARCHAR" -> Throws
                 [] divides /\ r.type # "VARCHAR" ->
                      IF Num(r)[1] = 0 THEN DivideByZero ELSE Func
                 [] OTHER -> Func

TinyintArith(op, l, r, c) == Computing(op, l, r, TinyintModifyFunc(op, l, c))
SmallintArith(op, l, r, c) == Computing(op, l, r, SmallintModifyFunc(op, l, c))
IntegerArith(op, l, r, c) == Computing(op, l, r, IntegerModifyFunc(op, l, c))
BigintArith(op, l, r, c) == Computing(op, l, r, BigintModifyFunc(op, l, c))
DecimalArith(op, l, r, c) == Computing(op, l, r, DecimalModifyFunc(op, l, c))

(* Type's own Add to Modulo: BOOLEAN and VARCHAR do not implement them. *)
TypeArith(op, l, r) == Throws

(* Value::Add to Value::Modulo. *)
ArithWith(op, l, r, c) == CASE l.type = "TINYINT" -> TinyintArith(op, l, r, c)
                            [] l.type = "SMALLINT" -> SmallintArith(op, l, r, c)
                            [] l.type = "INTEGER" -> IntegerArith(op, l, r, c)
                            [] l.type = "BIGINT" -> BigintArith(op, l, r, c)
                            [] l.type = "DECIMAL" -> DecimalArith(op, l, r, c)
                            [] OTHER -> TypeArith(op, l, r)
Arith(op, l, r) == ArithWith(op, l, r, Operand(l, r))

(* Min and Max return the left operand when the comparison is true. *)
Choosing(op, l, r) ==
    CASE ~CheckComparable(l, r) -> Aborts
      [] CheckComparable(l, r) /\ (l.null \/ r.null) -> OperateNull(l, r)
      [] CheckComparable(l, r) /\ ~l.null /\ ~r.null ->
            Then(Compare(op, l, r), LAMBDA c : IF c = CmpTrue THEN l ELSE r)

(* Mutant of DecimalMax: the comparison of Min. *)
DecimalMaxSwapped(l, r) == Choosing("LessThanEquals", l, r)

IntegerParentMin(l, r) == Choosing("LessThan", l, r)
IntegerParentMax(l, r) == Choosing("GreaterThanEquals", l, r)

DecimalMin(l, r) == Choosing("LessThanEquals", l, r)
DecimalMax(l, r) == Choosing("GreaterThanEquals", l, r)

VarlenMin(l, r) == Choosing("LessThan", l, r)
VarlenMax(l, r) == Choosing("GreaterThan", l, r)

ValueMin(l, r) == CASE l.type \in IntegerTypes -> IntegerParentMin(l, r)
                    [] l.type = "DECIMAL" -> DecimalMin(l, r)
                    [] l.type = "VARCHAR" -> VarlenMin(l, r)
                    [] OTHER -> Throws
ValueMax(l, r) == CASE l.type \in IntegerTypes -> IntegerParentMax(l, r)
                    [] l.type = "DECIMAL" -> DecimalMax(l, r)
                    [] l.type = "VARCHAR" -> VarlenMax(l, r)
                    [] OTHER -> Throws
=============================================================================
