---------------------------- MODULE MCTableHeap ----------------------------
(* Row 3 needs a page of its own, row 4 misses the rest of a page by a slot, *)
(* row 5 is too large.                                                       *)
EXTENDS TableHeap

MCRowSize == [r \in Rows |-> CASE r = 3 -> 5 [] r = 4 -> 3 [] r = 5 -> 6 [] OTHER -> 2]
=============================================================================
