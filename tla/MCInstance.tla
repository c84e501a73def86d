----------------------------- MODULE MCInstance -----------------------------
(* Two server threads with the requests of a client that sets up a database *)
(* and of clients that use tables of the same name in two databases.        *)
EXTENDS Instance

Statement(op, arg) == [op |-> op, arg |-> arg]

Requests == {
    <<Statement("database", "other"), Statement("use", "other")>>,
    <<Statement("use", "missing"), Statement("use", "default"), Statement("select", "u")>>,
    <<Statement("table", "t"), Statement("table", "u")>>,
    <<Statement("table", "u"), Statement("insert", "u")>>,
    <<Statement("insert", "t"), Statement("select", "u")>> }
=============================================================================
