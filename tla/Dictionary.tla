----------------------------- MODULE Dictionary -----------------------------
(***************************************************************************)
(* What ExtendibleHashTable promises its users (the buffer pool's page      *)
(* table is one): a map from keys to values, None for a key not present.    *)
(***************************************************************************)
CONSTANTS Keys, Values, None

VARIABLE map

Init == map = [k \in Keys |-> None]

Insert(k, v) == map' = [map EXCEPT ![k] = v]

Remove(k) == map' = [map EXCEPT ![k] = None]

Next == \E k \in Keys : Remove(k) \/ \E v \in Values : Insert(k, v)

Spec == Init /\ [][Next]_map
=============================================================================
