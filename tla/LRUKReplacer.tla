---------------------------- MODULE LRUKReplacer ----------------------------
(***************************************************************************)
(* LRUKReplacer on its own, driven by arbitrary calls as its interface      *)
(* allows. now and accesses are history: the timestamps the header speaks   *)
(* of, which the class itself does not keep. A frame has those of its       *)
(* accesses since it was last forgotten.                                    *)
(***************************************************************************)
EXTENDS LRUK

CONSTANT MaxAccesses   \* bound on the number of accesses

ASSUME MaxAccessesAssumption == MaxAccesses \in Nat

VARIABLES now, accesses

ReplacerVars == <<replacer, now, accesses>>

ReplacerInit == replacer = NewReplacer /\ now = 0 /\ accesses = [f \in Frames |-> {}]

Record(f) ==
    /\ now < MaxAccesses
    /\ now' = now + 1
    /\ replacer' = RecordAccess(replacer, f)
    /\ accesses' = [accesses EXCEPT ![f] = @ \cup {now'}]

Set(f, set_evictable) ==
    /\ replacer' = SetEvictable(replacer, f, set_evictable)
    /\ UNCHANGED <<now, accesses>>

Evict(f) ==
    /\ CanEvict(replacer)
    /\ IsVictim(replacer, f)
    /\ replacer' = EvictFrame(replacer, f)
    /\ accesses' = [accesses EXCEPT ![f] = {}]
    /\ UNCHANGED now

Drop(f) ==
    /\ ~ RemoveThrows(replacer, f)
    /\ replacer' = RemoveFrame(replacer, f)
    /\ accesses' = [accesses EXCEPT ![f] = {}]
    /\ UNCHANGED now

ReplacerNext ==
    \E f \in Frames :
        \/ Record(f)
        \/ \E b \in BOOLEAN : Set(f, b)
        \/ Evict(f)
        \/ Drop(f)

ReplacerSpec == ReplacerInit /\ [][ReplacerNext]_ReplacerVars

-----------------------------------------------------------------------------

(* The first and the last access of f *)
FirstAccess(f) == Min(accesses[f])
LastAccess(f) == Max(accesses[f])

Cold == {f \in Evictable(replacer) : Cardinality(accesses[f]) < K}
Warm == Evictable(replacer) \ Cold

(* The counts, the two lists and the size stay consistent under every       *)
(* sequence of calls (lru_k_replacer.cpp keeps them in six containers).      *)
ReplacerConsistent == ReplacerOK(replacer)

(* Every one of the last K accesses of f came after the last of g *)
OutlivedBy(g, f) == Cardinality({t \in accesses[f] : t > LastAccess(g)}) >= K

(* The victim of Evict is evictable.  Frames with fewer than k accesses go  *)
(* first, the one with the earliest access of all (lru_k_replacer.h:62-64). *)
(* Among the others the header asks for the largest backward k-distance     *)
(* (:28-30, :59), the earliest k-th last access; the code takes the         *)
(* earliest last access, which is not the same.  What is left of the        *)
(* header's promise: a frame is never evicted while there is one that was   *)
(* not used at all during its last k accesses.                              *)
EvictionOrder ==
    [][\A f \in Frames : Evict(f) =>
         /\ f \in Evictable(replacer)
         /\ Cold # {} => f \in Cold /\ \A g \in Cold : FirstAccess(f) <= FirstAccess(g)
         /\ Cold = {} => \A g \in Warm : ~OutlivedBy(g, f)]_ReplacerVars

=============================================================================
