------------------------------ MODULE TreeLatch ------------------------------
(***************************************************************************)
(* The latches of BPlusTree under concurrent callers: root_page_id_latch_   *)
(* and the latch of the root page, while that page is the only leaf. Deeper *)
(* trees need more inserts than these latches let through (CallsReturn).    *)
(***************************************************************************)
EXTENDS Integers

CONSTANTS Threads, None

VARIABLES
    size,  \* the leaf's entries; 0 is the empty tree, which has no root page
    root,  \* root_page_id_latch_: the writer and the readers that hold it
    leaf,  \* the root page's latch
    pc     \* where each thread is in its call

vars == <<size, root, leaf, pc>>

Idle == <<"none", "idle">>
Free == [writer |-> None, readers |-> {}]

Init ==
    /\ size = 0
    /\ root = Free /\ leaf = Free
    /\ pc = [t \in Threads |-> Idle]

Goto(t, from, to) == pc[t] = from /\ pc' = [pc EXCEPT ![t] = to]

(* std::shared_mutex *)
Acquire(latch, mode) ==
    /\ latch.writer = None
    /\ mode = "w" => latch.readers = {}
Taken(t, latch, mode) ==
    IF mode = "w" THEN [latch EXCEPT !.writer = t] ELSE [latch EXCEPT !.readers = @ \cup {t}]
Released(t, latch, mode) ==
    IF mode = "w" THEN [latch EXCEPT !.writer = None] ELSE [latch EXCEPT !.readers = @ \ {t}]
-----------------------------------------------------------------------------

Call(t) == \E call \in {"insert", "remove", "get"} :
    /\ call = "get" => size > 0   \* FindLeaf asserts a root
    /\ Goto(t, Idle, <<call, "start">>)
    /\ UNCHANGED <<size, root, leaf>>

(* root_page_id_latch_.WLock() *)
LockRoot(t) == \E call \in {"insert", "remove"} :
    /\ Goto(t, <<call, "start">>, <<call, "locked">>)
    /\ Acquire(root, "w")
    /\ root' = Taken(t, root, "w")
    /\ UNCHANGED <<size, leaf>>

(* A thread that holds the latch as its writer gets std::system_error       *)
(* instead of waiting, which ends its call.                                 *)
RelockRoot(t) ==
    /\ \E call \in {"insert", "remove", "get"} : Goto(t, <<call, "start">>, Idle)
    /\ root.writer = t
    /\ UNCHANGED <<size, root, leaf>>

(* Insert and Remove on an empty tree, which release the latch *)
InsertFirst(t) ==
    /\ size = 0
    /\ Goto(t, <<"insert", "locked">>, Idle)
    /\ size' = 1
    /\ root' = Released(t, root, "w")
    /\ UNCHANGED leaf

RemoveFromEmpty(t) ==
    /\ size = 0
    /\ Goto(t, <<"remove", "locked">>, Idle)
    /\ root' = Released(t, root, "w")
    /\ UNCHANGED <<size, leaf>>

(* FindLeaf(INSERT), FindLeaf(DELETE): page->WLatch(), and nothing else *)
FindLeafForWrite(t) == \E call \in {"insert", "remove"} :
    /\ size > 0
    /\ Goto(t, <<call, "locked">>, <<call, "leaf">>)
    /\ Acquire(leaf, "w")
    /\ leaf' = Taken(t, leaf, "w")
    /\ UNCHANGED <<size, root>>

(* InsertIntoLeaf and the rest of Remove unlatch the leaf and return *)
InsertReturns(t) ==
    /\ Goto(t, <<"insert", "leaf">>, Idle)
    /\ \E added \in {0, 1} : size' = size + added
    /\ leaf' = Released(t, leaf, "w")
    /\ UNCHANGED root

RemoveReturns(t) ==
    /\ Goto(t, <<"remove", "leaf">>, Idle)
    /\ \E removed \in {0, 1} : size' = size - removed
    /\ leaf' = Released(t, leaf, "w")
    /\ UNCHANGED root

(* GetValue: RLock, then in FindLeaf the root latch is released before the  *)
(* page is latched.                                                         *)
GetLocks(t) ==
    /\ Goto(t, <<"get", "start">>, <<"get", "locked">>)
    /\ Acquire(root, "r")
    /\ root' = Taken(t, root, "r")
    /\ UNCHANGED <<size, leaf>>

FindLeafForSearch(t) ==
    /\ Goto(t, <<"get", "locked">>, <<"get", "page">>)
    /\ root' = Released(t, root, "r")
    /\ UNCHANGED <<size, leaf>>

GetLatches(t) ==
    /\ Goto(t, <<"get", "page">>, <<"get", "leaf">>)
    /\ Acquire(leaf, "r")
    /\ leaf' = Taken(t, leaf, "r")
    /\ UNCHANGED <<size, root>>

GetReturns(t) ==
    /\ Goto(t, <<"get", "leaf">>, Idle)
    /\ leaf' = Released(t, leaf, "r")
    /\ UNCHANGED <<size, root>>

Step(t) ==
    \/ LockRoot(t) \/ RelockRoot(t)
    \/ InsertFirst(t) \/ RemoveFromEmpty(t) \/ FindLeafForWrite(t)
    \/ InsertReturns(t) \/ RemoveReturns(t)
    \/ GetLocks(t) \/ FindLeafForSearch(t) \/ GetLatches(t) \/ GetReturns(t)

Next == \E t \in Threads : Call(t) \/ Step(t)

(* A thread inside a call is scheduled, and a latch that is free again and  *)
(* again is granted.                                                        *)
Fairness == \A t \in Threads : SF_vars(Step(t))

Spec == Init /\ [][Next]_vars /\ Fairness
-----------------------------------------------------------------------------

(* The tree supports insert and remove and grows and shrinks dynamically    *)
(* (b_plus_tree.h), so a call that waits for a latch gets its turn.         *)
CallsReturn == \A t \in Threads : pc[t] # Idle ~> pc[t] = Idle
=============================================================================
