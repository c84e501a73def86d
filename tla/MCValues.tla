------------------------------ MODULE MCValues ------------------------------
(* Integers of 3, 4, 8 and 9 bits and doubles of 7: the limits of every    *)
(* type, values whose sums and products lie on both sides of a limit,      *)
(* BIGINTs that are rounded to the DECIMALs -256, 128 and 256, a DECIMAL   *)
(* beyond every BIGINT, texts that are, start with and are not numbers.    *)
EXTENDS Values

Ints(T, S) == {IntValue(T, i) : i \in S \cup {NullOf(T), MinOf(T), 0, MaxOf(T)}}

MCSample ==
    UNION {Ints("BOOLEAN", {1}) \ {IntValue("BOOLEAN", i) : i \in {MinOf("BOOLEAN"), MaxOf("BOOLEAN")}},
           Ints("TINYINT", {-1, 2}),
           Ints("SMALLINT", {-4, 3}),
           Ints("INTEGER", {-64, -1, 2, 12}),
           Ints("BIGINT", {-128, 16, 129}),
           {DecimalValue(q) : q \in {<<-1, 2>>, <<0, 1>>, <<7, 2>>, <<15, 2>>, <<128, 1>>, <<256, 1>>, <<-256, 1>>, <<-512, 1>>}},
           {StringValue(s) : s \in {<<>>, <<48>>, <<48, 49>>, <<49, 48>>, <<45, 52>>,
                                    <<49, 51, 48>>, <<49, 46, 53>>, <<37, 116>>, <<116>>}},
           {NullDecimal, NullVarchar}}
=============================================================================
