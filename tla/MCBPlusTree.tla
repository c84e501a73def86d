---------------------------- MODULE MCBPlusTree ----------------------------
(* Every key has a RID of its own *)
EXTENDS BPlusTree

MCRid == [k \in Keys |-> k + 10]
=============================================================================
