---------------------------- MODULE MCBufferPool ----------------------------
(* The buffer pool for TLC: interchangeable clients, and a file that is     *)
(* new or was filled by an earlier process.                                 *)
EXTENDS BufferPool

ClientSymmetry == Permutations(Clients)

MCInit == Init /\ \A p \in PageIds : disk[p] # Zero /\ disk[p] = disk[0]

MCSpec == MCInit /\ [][Next]_vars

(* The same, with clients that never delete a page, so that every page the  *)
(* file is wrong about is a live one.                                       *)
NoDeleteSpec == MCInit /\ [][Next /\ \A p \in PageIds : ~ DeletePg(p)]_vars
=============================================================================
