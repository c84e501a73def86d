----------------------------- MODULE PageStore -----------------------------
(***************************************************************************)
(* What the buffer pool promises its clients: numbered pages with contents. *)
(* A page is created blank and pinned, only a client that has it pinned     *)
(* changes it, and no fetching, unpinning, evicting or flushing ever does.  *)
(***************************************************************************)
EXTENDS Integers

CONSTANTS Clients,   \* fetch-to-unpin brackets that may be open at once
          MaxPages,  \* bound on allocated pages
          Data,      \* page contents
          Zero,      \* the zeroed page
          NoPage     \* a client that holds no pin

PageIds == 0..(MaxPages - 1)

VARIABLES content,    \* contents of every page
          pinned      \* the page each client holds a pin on

vars == <<content, pinned>>

Init ==
    /\ content \in [PageIds -> Data]
    /\ pinned = [c \in Clients |-> NoPage]

(* A page nobody else has pinned, blank *)
Create(c, p) ==
    /\ pinned[c] = NoPage
    /\ \A d \in Clients : pinned[d] # p
    /\ content' = [content EXCEPT ![p] = Zero]
    /\ pinned' = [pinned EXCEPT ![c] = p]

Pin(c, p) ==
    /\ pinned[c] = NoPage
    /\ pinned' = [pinned EXCEPT ![c] = p]
    /\ UNCHANGED content

Write(c, d) ==
    /\ pinned[c] # NoPage
    /\ content' = [content EXCEPT ![pinned[c]] = d]
    /\ UNCHANGED pinned

Unpin(c) ==
    /\ pinned[c] # NoPage
    /\ pinned' = [pinned EXCEPT ![c] = NoPage]
    /\ UNCHANGED content

(* Deleting an unpinned page leaves some contents behind *)
Delete(p) ==
    /\ \A c \in Clients : pinned[c] # p
    /\ \E d \in Data : content' = [content EXCEPT ![p] = d]
    /\ UNCHANGED pinned

Next ==
    \/ \E c \in Clients, p \in PageIds : Create(c, p) \/ Pin(c, p)
    \/ \E c \in Clients, d \in Data : Write(c, d)
    \/ \E c \in Clients : Unpin(c)
    \/ \E p \in PageIds : Delete(p)

Spec == Init /\ [][Next]_vars
=============================================================================
