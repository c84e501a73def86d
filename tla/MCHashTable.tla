---------------------------- MODULE MCHashTable ----------------------------
(* Keys hash to themselves, as page ids do; 0 and 4 part at the last bit   *)
EXTENDS ExtendibleHashTable

MCHash == [k \in Keys |-> k]
=============================================================================
