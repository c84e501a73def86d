--------------------------- MODULE TableHeapProofs ---------------------------
(***************************************************************************)
(* Proofs about TableHeap, for any number of inserters and scanners, any    *)
(* rows and any page layout. Three inductive invariants, each on top of the *)
(* one before: what a latch protects (an inserter between two steps of its  *)
(* call owns the page it stands on, so what it read there is still so), how *)
(* the pages are linked, and where an iterator stands among the rows it has *)
(* returned and those it owes.                                              *)
(***************************************************************************)
EXTENDS TableHeap, FiniteSetTheorems, WellFoundedInduction, TLAPS

Slot == [row : Rows, deleted : BOOLEAN]
Page == [free : Int, slots : Seq(Slot), next : Nat \cup {None}]
Call == [at : {"idle", "wait", "page", "full"},
         row : Rows \cup {None}, page : Nat \cup {None}, next : Nat \cup {None}]
ScanPlaces == {"idle", "begin", "open", "unpinned", "row", "hop", "end", "threw"}

(* The pages are numbered in the order they were allocated *)
PagesNumbered == \E n \in Nat : n >= 1 /\ DOMAIN heap = 1..n

PagesTyped ==
    /\ heap \in [DOMAIN heap -> Page]
    /\ owner \in [DOMAIN heap -> Inserters \cup {None}]
    /\ \A p \in DOMAIN heap : heap[p].next \in DOMAIN heap \cup {None}

RoomTyped ==
    \A p \in DOMAIN heap : heap[p].free \in 0..PageSize /\ GetFreeSpaceRemaining(p) \in Nat

(* An inserter inside its loop owns its page, and remembers its link *)
CallsOwnPages ==
    /\ ins \in [Inserters -> Call]
    /\ \A t \in Inserters :
           /\ ins[t].at # "idle" => ins[t].row \in Rows
           /\ ins[t].at = "wait" => ins[t].page = First
           /\ ins[t].at \in {"page", "full"} =>
                  ins[t].page \in DOMAIN heap /\ owner[ins[t].page] = t
           /\ ins[t].at = "full" => ins[t].next = heap[ins[t].page].next

ScansShaped ==
    /\ scan = [t \in Scanners |-> scan[t]]
    /\ \A t \in Scanners :
           /\ scan[t] = [at |-> scan[t].at, page |-> scan[t].page, slot |-> scan[t].slot,
                         seen |-> scan[t].seen, owed |-> scan[t].owed]
           /\ scan[t].at \in ScanPlaces

HeapInv == PagesNumbered /\ PagesTyped /\ RoomTyped /\ CallsOwnPages /\ ScansShaped
-----------------------------------------------------------------------------

(* Header and slot arithmetic: one more slot takes SlotSize bytes *)
LEMMA OneMoreSlot ==
    ASSUME NEW n \in Nat
    PROVE  SlotSize * (n + 1) = SlotSize * n + SlotSize /\ SlotSize * n \in Nat
BY HeapAssumption, SMT

(* Taking a row's bytes r and a slot's s out of free space that has them,   *)
(* on a page with free space pointer f, header h and k bytes of slots       *)
LEMMA RoomTaken ==
    ASSUME NEW f \in Nat, NEW h \in Nat, NEW k \in Nat, NEW r \in Nat, NEW s \in Nat,
           NEW m \in Nat, f <= m, f - h - k >= r + s
    PROVE  f - r \in 0..m /\ f - r - h - (k + s) \in Nat
BY SMT

(* GetFreeSpaceRemaining as a function of the page's contents *)
RoomOn(page) == page.free - Header - SlotSize * Len(page.slots)

(* The room on every page that exists *)
LEMMA RoomHere ==
    ASSUME RoomTyped
    PROVE  \A q \in DOMAIN heap : heap[q].free \in 0..PageSize /\ RoomOn(heap[q]) \in Nat
BY DEF RoomTyped, GetFreeSpaceRemaining, RoomOn

(* A page that a step leaves as it was still has its room *)
LEMMA RoomPrimed ==
    ASSUME RoomTyped,
           \A q \in DOMAIN heap' :
               \/ q \in DOMAIN heap /\ heap'[q] = heap[q]
               \/ heap'[q].free \in 0..PageSize /\ RoomOn(heap'[q]) \in Nat
    PROVE  RoomTyped'
<1>1. \A q \in DOMAIN heap' : heap'[q].free \in 0..PageSize /\ RoomOn(heap'[q]) \in Nat
  BY RoomHere
<1> QED BY <1>1 DEF RoomTyped, GetFreeSpaceRemaining, RoomOn

(* The page InsertNewPage allocates is not one of the table's *)
LEMMA NewPageIsNew ==
    ASSUME PagesNumbered
    PROVE  /\ Cardinality(DOMAIN heap) + 1 \notin DOMAIN heap
           /\ Cardinality(DOMAIN heap) + 1 \in Nat
           /\ \E n \in Nat : n >= 1 /\ DOMAIN heap \cup {Cardinality(DOMAIN heap) + 1} = 1..n
<1>1. PICK n \in Nat : n >= 1 /\ DOMAIN heap = 1..n
  BY DEF PagesNumbered
<1>2. Cardinality(DOMAIN heap) = n
  <2>1. Cardinality(1..n) = IF 1 > n THEN 0 ELSE n - 1 + 1
    BY FS_Interval
  <2> QED BY <1>1, <2>1, SMT
<1>3. 1..n \cup {n + 1} = 1..(n + 1)
  BY SMT
<1> QED BY <1>1, <1>2, <1>3, SMT

(* TableHeap's constructor establishes the invariant *)
LEMMA HeapInit == Init => HeapInv
<1> SUFFICES ASSUME Init PROVE HeapInv
  OBVIOUS
<1> USE HeapAssumption
<1>1. DOMAIN heap = {1} /\ heap[1] = NewPage /\ heap = [p \in {1} |-> NewPage]
  BY DEF Init, First
<1>2. NewPage \in Page
  BY DEF NewPage, PageOf, Page
<1>3. PagesNumbered
  <2>1. {1} = 1..1
    BY SMT
  <2> QED BY <1>1, <2>1, SMT DEF PagesNumbered
<1>4. PagesTyped
  BY <1>1, <1>2 DEF Init, First, PagesTyped, PageOf, NewPage
<1>5. RoomTyped
  <2>1. Len(<<>>) = 0 /\ SlotSize * 0 = 0
    BY SMT
  <2>2. heap[1].free = PageSize /\ heap[1].slots = <<>>
    BY <1>1 DEF NewPage, PageOf
  <2>3. GetFreeSpaceRemaining(1) = PageSize - Header
    BY <2>1, <2>2, SMT DEF GetFreeSpaceRemaining
  <2> QED BY <1>1, <2>2, <2>3, SMT DEF RoomTyped
<1>6. CallsOwnPages
  BY DEF Init, CallsOwnPages, NotInserting, Inserting, Call
<1>7. ScansShaped
  BY DEF Init, Iterator, ScansShaped, ScanPlaces
<1> QED BY <1>3, <1>4, <1>5, <1>6, <1>7 DEF HeapInv

(* Moving an iterator keeps the others as they are *)
LEMMA MoveOK ==
    ASSUME ScansShaped, NEW t \in Scanners, NEW at \in ScanPlaces, NEW page, NEW slot,
           NEW seen, NEW owed,
           scan' = [scan EXCEPT ![t] = Iterator(at, page, slot, seen, owed)]
    PROVE  ScansShaped'
<1>1. scan'[t] = [at |-> at, page |-> page, slot |-> slot, seen |-> seen, owed |-> owed]
  BY DEF ScansShaped, Iterator
<1>2. \A u \in Scanners : u # t => scan'[u] = scan[u]
  BY DEF ScansShaped
<1>3. scan' = [u \in Scanners |-> scan'[u]]
  BY DEF ScansShaped
<1> QED BY <1>1, <1>2, <1>3 DEF ScansShaped

(* Steps that change neither the pages, nor the latches, nor the calls: the *)
(* steps of scans.                                                          *)
LEMMA PagesUnchanged ==
    ASSUME HeapInv, UNCHANGED <<heap, owner, ins>>, ScansShaped'
    PROVE  HeapInv'
BY DEF HeapInv, PagesNumbered, PagesTyped, RoomTyped, GetFreeSpaceRemaining, CallsOwnPages

(* Begin and the steps of an iterator change the iterator only *)
LEMMA ScanStepOK ==
    ASSUME HeapInv, NEW t \in Scanners, Begin(t) \/ ScanStep(t)
    PROVE  HeapInv' /\ UNCHANGED heap
<1>0. ScansShaped
  BY DEF HeapInv
<1>1. CASE Begin(t)
  <2>1. ScansShaped'
    BY <1>0, <1>1, MoveOK DEF Begin, ScanPlaces
  <2> QED BY <1>1, <2>1, PagesUnchanged DEF Begin
<1>2. ASSUME NEW at \in ScanPlaces, NEW p, NEW slot, NEW seen, Move(t, at, p, slot, seen)
      PROVE  ScansShaped'
  BY <1>0, <1>2, MoveOK DEF Move
<1>3. CASE BeginPage(t)
  <2>1. ScansShaped'
    BY <1>2, <1>3 DEF BeginPage, ScanPlaces
  <2> QED BY <1>3, <2>1, PagesUnchanged DEF BeginPage
<1>4. CASE BeginNext(t)
  <2>1. ScansShaped'
    BY <1>2, <1>4 DEF BeginNext, ScanPlaces
  <2> QED BY <1>4, <2>1, PagesUnchanged DEF BeginNext
<1>5. CASE Open(t)
  <2>1. ScansShaped'
    BY <1>2, <1>5 DEF Open, ScanPlaces
  <2> QED BY <1>5, <2>1, PagesUnchanged DEF Open
<1>6. ASSUME NEW p, NEW after, NEW seen, Arrive(t, p, after, seen)
      PROVE  ScansShaped'
  BY <1>2, <1>6 DEF Arrive, ScanPlaces
<1>7. CASE Advance(t)
  BY <1>6, <1>7, PagesUnchanged DEF Advance
<1>8. CASE Hop(t)
  BY <1>6, <1>8, PagesUnchanged DEF Hop
<1> QED BY <1>1, <1>3, <1>4, <1>5, <1>7, <1>8 DEF ScanStep

(* InsertTuple, the first latch and the reading of the link leave the pages *)
LEMMA InsertStartsOK ==
    ASSUME HeapInv, NEW t \in Inserters,
           (\E r \in Rows : InsertTuple(t, r)) \/ LatchFirst(t) \/ ReadNext(t)
    PROVE  HeapInv' /\ UNCHANGED heap
<1> USE HeapAssumption DEF HeapInv
<1>0. First \in DOMAIN heap
  BY SMT DEF PagesNumbered, First
<1>1. CASE \E r \in Rows : InsertTuple(t, r)
  <2>1. CallsOwnPages'
    BY <1>1 DEF InsertTuple, CallsOwnPages, Call, Inserting, First
  <2> QED BY <1>1, <2>1 DEF InsertTuple, PagesNumbered, PagesTyped, RoomTyped,
                            GetFreeSpaceRemaining, ScansShaped
<1>2. CASE LatchFirst(t)
  <2>1. PagesTyped'
    BY <1>2 DEF LatchFirst, PagesTyped
  <2>2. CallsOwnPages'
    BY <1>0, <1>2 DEF LatchFirst, CallsOwnPages, Call, Inserting, PagesTyped
  <2> QED BY <1>2, <2>1, <2>2 DEF LatchFirst, PagesNumbered, RoomTyped,
                                  GetFreeSpaceRemaining, ScansShaped
<1>3. CASE ReadNext(t)
  <2>1. CallsOwnPages'
    BY <1>3 DEF ReadNext, CallsOwnPages, Call, Inserting, PagesTyped, Page
  <2> QED BY <1>3, <2>1 DEF ReadNext, PagesNumbered, PagesTyped, RoomTyped,
                            GetFreeSpaceRemaining, ScansShaped
<1> QED BY <1>1, <1>2, <1>3 DEF InsertTuple, LatchFirst, ReadNext

(* Moving to the next page, or giving up, leaves the pages *)
LEMMA InsertMovesOK ==
    ASSUME HeapInv, NEW t \in Inserters, InsertNextPage(t) \/ InsertFails(t)
    PROVE  HeapInv' /\ UNCHANGED heap
<1> USE HeapAssumption DEF HeapInv
<1>1. CASE InsertNextPage(t)
  <2>0. ins[t].next \in DOMAIN heap
    BY <1>1 DEF InsertNextPage, CallsOwnPages, PagesTyped
  <2>1. PagesTyped'
    BY <1>1, <2>0 DEF InsertNextPage, PagesTyped, CallsOwnPages
  <2>2. CallsOwnPages'
    BY <1>1, <2>0 DEF InsertNextPage, CallsOwnPages, Call, Inserting, PagesTyped
  <2> QED BY <1>1, <2>1, <2>2 DEF InsertNextPage, PagesNumbered, RoomTyped,
                                  GetFreeSpaceRemaining, ScansShaped
<1>2. CASE InsertFails(t)
  <2>1. PagesTyped'
    BY <1>2 DEF InsertFails, PagesTyped, CallsOwnPages
  <2>2. CallsOwnPages'
    BY <1>2 DEF InsertFails, CallsOwnPages, Call, Inserting, NotInserting, PagesTyped
  <2> QED BY <1>2, <2>1, <2>2 DEF InsertFails, PagesNumbered, RoomTyped,
                                  GetFreeSpaceRemaining, ScansShaped
<1> QED BY <1>1, <1>2 DEF InsertNextPage, InsertFails
-----------------------------------------------------------------------------

(* What a step may do to the pages that exist: links that are set and rows  *)
(* stay, deleted rows stay deleted.                                         *)
PagesKept ==
    \A p \in DOMAIN heap :
        /\ heap[p].next # None => heap'[p].next = heap[p].next
        /\ \A i \in DOMAIN heap[p].slots :
               /\ heap'[p].slots[i].row = heap[p].slots[i].row
               /\ IsDeleted(p, i) => heap'[p].slots[i].deleted

(* A row goes into a slot of its own, and its bytes and the slot were free *)
LEMMA InsertHereOK ==
    ASSUME HeapInv, NEW t \in Inserters, InsertHere(t)
    PROVE  HeapInv' /\ PagesKept
<1> DEFINE p == ins[t].page
           r == ins[t].row
           new == [row |-> r, deleted |-> FALSE]
<1> USE HeapAssumption
<1>1. p \in DOMAIN heap /\ owner[p] = t /\ r \in Rows
  BY DEF InsertHere, HeapInv, CallsOwnPages
<1>2. heap[p] \in Page /\ new \in Slot
  BY <1>1 DEF HeapInv, PagesTyped, Slot
<1>3. heap' = [heap EXCEPT ![p] = PageOf(heap[p].free - RowSize[r],
                                         Append(heap[p].slots, new), heap[p].next)]
  BY DEF InsertHere
<1>4. /\ heap'[p].free = heap[p].free - RowSize[r]
      /\ heap'[p].slots = Append(heap[p].slots, new)
      /\ heap'[p].next = heap[p].next
      /\ heap'[p] \in Page
  <2>1. heap'[p] = PageOf(heap[p].free - RowSize[r], Append(heap[p].slots, new), heap[p].next)
    BY <1>1, <1>3 DEF HeapInv, PagesTyped
  <2>2. heap[p].free - RowSize[r] \in Int /\ Append(heap[p].slots, new) \in Seq(Slot)
    BY <1>1, <1>2 DEF Page
  <2>3. heap[p].next \in Nat \cup {None}
    BY <1>2 DEF Page
  <2> HIDE DEF p, r, new
  <2> QED BY <2>1, <2>2, <2>3 DEF PageOf, Page
<1>5. DOMAIN heap' = DOMAIN heap /\ \A q \in DOMAIN heap : q # p => heap'[q] = heap[q]
  BY <1>3 DEF HeapInv, PagesTyped
<1>6. PagesTyped'
  BY <1>1, <1>4, <1>5, <1>3 DEF InsertHere, HeapInv, PagesTyped
<1>7. RoomTyped'
  <2>1. Len(heap'[p].slots) = Len(heap[p].slots) + 1 /\ Len(heap[p].slots) \in Nat
    BY <1>2, <1>4 DEF Page
  <2>2. SlotSize * Len(heap'[p].slots) = SlotSize * Len(heap[p].slots) + SlotSize
    BY <2>1, OneMoreSlot
  <2>3. heap[p].free - Header - SlotSize * Len(heap[p].slots) >= RowSize[r] + SlotSize
    BY DEF InsertHere, Fits, GetFreeSpaceRemaining
  <2>4. SlotSize * Len(heap[p].slots) \in Nat /\ RowSize[r] \in Nat
    <3>1. SlotSize * Len(heap[p].slots) \in Nat
      BY <2>1, OneMoreSlot
    <3>2. RowSize[r] \in Nat
      BY <1>1
    <3> QED BY <3>1, <3>2
  <2> DEFINE k == SlotSize * Len(heap[p].slots)
  <2>5. heap[p].free \in 0..PageSize
    BY <1>1 DEF HeapInv, RoomTyped
  <2>6. /\ heap[p].free - RowSize[r] \in 0..PageSize
        /\ heap[p].free - RowSize[r] - Header - (k + SlotSize) \in Nat
    <3> HIDE DEF k, r, p
    <3>1. heap[p].free - Header - k >= RowSize[r] + SlotSize /\ k \in Nat
      BY <2>3, <2>4 DEF k
    <3>2. heap[p].free \in Nat /\ heap[p].free <= PageSize
      BY <2>5, SMT
    <3> QED BY <2>4, <3>1, <3>2, RoomTaken
  <2>7. heap'[p].free \in 0..PageSize /\ RoomOn(heap'[p]) \in Nat
    <3> HIDE DEF p, r, new
    <3>1. SlotSize * Len(heap'[p].slots) = k + SlotSize
      BY <2>2 DEF k
    <3> HIDE DEF k
    <3> QED BY <1>4, <2>6, <3>1 DEF RoomOn
  <2> HIDE DEF p, r, new
  <2> QED BY <1>5, <2>7, RoomPrimed DEF HeapInv
<1>8. CallsOwnPages'
  <2>1. ins' = [ins EXCEPT ![t] = NotInserting] /\ owner' = [owner EXCEPT ![p] = None]
    BY DEF InsertHere
  <2>2. ins \in [Inserters -> Call] /\ NotInserting \in Call /\ NotInserting.at = "idle"
    BY DEF HeapInv, CallsOwnPages, NotInserting, Inserting, Call
  <2>3. ASSUME NEW u \in Inserters, u # t
        PROVE  /\ ins'[u] = ins[u]
               /\ ins[u].at \in {"page", "full"} =>
                      /\ ins[u].page # p /\ ins[u].page \in DOMAIN heap'
                      /\ owner'[ins[u].page] = u
                      /\ heap'[ins[u].page] = heap[ins[u].page]
    <3>1. ins'[u] = ins[u]
      BY <2>1, <2>2, <2>3
    <3>2. ASSUME ins[u].at \in {"page", "full"}
          PROVE  ins[u].page \in DOMAIN heap /\ owner[ins[u].page] = u
      BY <3>2 DEF HeapInv, CallsOwnPages
    <3>3. owner \in [DOMAIN heap -> Inserters \cup {None}]
      BY DEF HeapInv, PagesTyped
    <3> HIDE DEF p, r, new
    <3> QED BY <1>1, <1>5, <2>1, <2>3, <3>1, <3>2, <3>3
  <2>4. ins'[t] = NotInserting /\ ins' \in [Inserters -> Call]
    BY <2>1, <2>2
  <2> HIDE DEF p, r, new
  <2> QED BY <2>2, <2>3, <2>4 DEF HeapInv, CallsOwnPages
<1>9. PagesKept
  <2>1. \A i \in DOMAIN heap[p].slots : heap'[p].slots[i] = heap[p].slots[i]
    BY <1>2, <1>4 DEF Page
  <2> QED BY <1>4, <1>5, <2>1 DEF PagesKept, IsDeleted
<1>10. PagesNumbered' /\ ScansShaped'
  BY <1>5 DEF InsertHere, HeapInv, PagesNumbered, ScansShaped
<1> QED BY <1>6, <1>7, <1>8, <1>9, <1>10 DEF HeapInv

(* The page at the end of the chain, latched since its link was read, gets *)
(* its first link.                                                         *)
LEMMA InsertNewPageOK ==
    ASSUME HeapInv, NEW t \in Inserters, InsertNewPage(t)
    PROVE  HeapInv' /\ PagesKept
<1> DEFINE p == ins[t].page
           n == Cardinality(DOMAIN heap) + 1
<1> USE HeapAssumption
<1>1. p \in DOMAIN heap /\ owner[p] = t /\ heap[p].next = None /\ ins[t].row \in Rows
  BY DEF InsertNewPage, HeapInv, CallsOwnPages
<1>2. n \notin DOMAIN heap /\ n \in Nat
  BY NewPageIsNew DEF HeapInv
<1> HIDE DEF n
<1>3. heap' = [q \in DOMAIN heap \cup {n} |->
                  CASE q = n -> NewPage
                    [] q = p -> PageOf(heap[p].free, heap[p].slots, n)
                    [] OTHER -> heap[q]]
  BY DEF InsertNewPage, n
<1>4. /\ DOMAIN heap' = DOMAIN heap \cup {n}
      /\ heap'[n] = NewPage
      /\ heap'[p] = PageOf(heap[p].free, heap[p].slots, n)
      /\ \A q \in DOMAIN heap : q # p => heap'[q] = heap[q]
  BY <1>1, <1>2, <1>3
<1>5. /\ heap[p] \in Page /\ heap'[p] \in Page /\ heap'[n] \in Page
      /\ heap'[p].free = heap[p].free /\ heap'[p].slots = heap[p].slots /\ heap'[p].next = n
  BY <1>1, <1>2, <1>4 DEF HeapInv, PagesTyped, Page, PageOf, NewPage
<1>6. owner' = [q \in DOMAIN owner \cup {n} |->
                   CASE q = n -> t [] q = p -> None [] OTHER -> owner[q]]
  BY DEF InsertNewPage, n
<1>7. /\ DOMAIN owner = DOMAIN heap
      /\ owner'[n] = t /\ owner'[p] = None
      /\ \A q \in DOMAIN heap : q # p => owner'[q] = owner[q]
  BY <1>1, <1>2, <1>6 DEF HeapInv, PagesTyped
<1>8. PagesTyped'
  <2>1. \A q \in DOMAIN heap' : heap'[q] \in Page /\ heap'[q].next \in DOMAIN heap' \cup {None}
    BY <1>4, <1>5 DEF HeapInv, PagesTyped, PageOf, NewPage
  <2>2. \A q \in DOMAIN heap' : owner'[q] \in Inserters \cup {None}
    BY <1>4, <1>7 DEF HeapInv, PagesTyped
  <2> QED BY <1>3, <1>4, <1>6, <1>7, <2>1, <2>2 DEF PagesTyped
<1>9. RoomTyped'
  <2>1. NewPage.free = PageSize /\ NewPage.slots = <<>>
    BY DEF NewPage, PageOf
  <2>2. Len(<<>>) = 0 /\ SlotSize * 0 = 0 /\ PageSize - Header - 0 \in Nat
    BY SMT
  <2>3. heap'[n].free \in 0..PageSize /\ RoomOn(heap'[n]) \in Nat
    BY <1>4, <2>1, <2>2 DEF RoomOn
  <2>4. heap'[p].free \in 0..PageSize /\ RoomOn(heap'[p]) \in Nat
    BY <1>1, <1>5, RoomHere DEF HeapInv, RoomOn
  <2> QED BY <1>4, <2>3, <2>4, RoomPrimed DEF HeapInv
<1>10. CallsOwnPages'
  <2>1. ins' = [ins EXCEPT ![t] = Inserting("page", ins[t].row, n, None)]
    BY DEF InsertNewPage, n
  <2> QED BY <1>1, <1>2, <1>4, <1>5, <1>7, <2>1
          DEF HeapInv, CallsOwnPages, Call, Inserting, PagesTyped
<1>11. PagesNumbered' /\ ScansShaped'
  <2>1. \E m \in Nat : m >= 1 /\ DOMAIN heap \cup {n} = 1..m
    BY NewPageIsNew DEF HeapInv, n
  <2> QED BY <1>4, <2>1 DEF InsertNewPage, HeapInv, PagesNumbered, ScansShaped
<1>12. PagesKept
  BY <1>1, <1>4, <1>5 DEF PagesKept, IsDeleted
<1> QED BY <1>8, <1>9, <1>10, <1>11, <1>12 DEF HeapInv

(* MarkDelete sets one flag on a page nobody has latched *)
LEMMA MarkDeleteOK ==
    ASSUME HeapInv, NEW p \in DOMAIN heap, NEW i \in DOMAIN heap[p].slots, MarkDelete(p, i)
    PROVE  HeapInv' /\ PagesKept
<1> USE HeapAssumption
<1>1. heap[p] \in Page
  BY DEF HeapInv, PagesTyped
<1>2. heap' = [heap EXCEPT ![p].slots[i].deleted = TRUE]
  BY DEF MarkDelete
<1>3. i \in 1..Len(heap[p].slots) /\ heap[p].slots[i] \in Slot
  BY <1>1 DEF Page
<1>4. /\ heap'[p].free = heap[p].free /\ heap'[p].next = heap[p].next
      /\ heap'[p].slots = [heap[p].slots EXCEPT ![i].deleted = TRUE]
      /\ heap'[p] = [heap[p] EXCEPT !.slots = [heap[p].slots EXCEPT ![i].deleted = TRUE]]
  BY <1>1, <1>2 DEF HeapInv, PagesTyped, Page
<1>5. [heap[p].slots[i] EXCEPT !.deleted = TRUE] \in Slot
  BY <1>3 DEF Slot
<1>6. /\ heap'[p].slots \in Seq(Slot) /\ Len(heap'[p].slots) = Len(heap[p].slots)
      /\ heap'[p].slots[i].row = heap[p].slots[i].row /\ heap'[p].slots[i].deleted = TRUE
      /\ \A j \in DOMAIN heap[p].slots : j # i => heap'[p].slots[j] = heap[p].slots[j]
  BY <1>1, <1>3, <1>4, <1>5 DEF Page, Slot
<1>7. heap'[p] \in Page
  BY <1>1, <1>4, <1>6 DEF Page
<1>8. DOMAIN heap' = DOMAIN heap /\ \A q \in DOMAIN heap : q # p => heap'[q] = heap[q]
  BY <1>2 DEF HeapInv, PagesTyped
<1>9. PagesTyped'
  BY <1>2, <1>4, <1>7, <1>8 DEF MarkDelete, HeapInv, PagesTyped
<1>10. RoomTyped'
  BY <1>4, <1>6, <1>8 DEF HeapInv, RoomTyped, GetFreeSpaceRemaining
<1>11. CallsOwnPages'
  BY <1>4, <1>8 DEF MarkDelete, HeapInv, CallsOwnPages
<1>12. PagesNumbered' /\ ScansShaped'
  BY <1>8 DEF MarkDelete, HeapInv, PagesNumbered, ScansShaped, Iterator
<1>13. PagesKept
  BY <1>4, <1>6, <1>8 DEF PagesKept, IsDeleted
<1> QED BY <1>9, <1>10, <1>11, <1>12, <1>13 DEF HeapInv

(* Every step keeps the invariant, the links and the rows *)
LEMMA HeapStep == HeapInv /\ [Next]_vars => HeapInv' /\ PagesKept
<1> SUFFICES ASSUME HeapInv, [Next]_vars PROVE HeapInv' /\ PagesKept
  OBVIOUS
<1>1. ASSUME UNCHANGED heap PROVE PagesKept
  BY <1>1 DEF PagesKept, IsDeleted
<1>2. CASE \E t \in Inserters : InsertStep(t) \/ \E r \in Rows : InsertTuple(t, r)
  <2>1. PICK t \in Inserters : InsertStep(t) \/ \E r \in Rows : InsertTuple(t, r)
    BY <1>2
  <2> QED BY <1>1, <2>1, InsertStartsOK, InsertMovesOK, InsertHereOK, InsertNewPageOK
          DEF InsertStep
<1>3. CASE \E t \in Scanners : Begin(t) \/ ScanStep(t)
  BY <1>1, <1>3, ScanStepOK
<1>4. CASE \E p \in DOMAIN heap : \E i \in DOMAIN heap[p].slots : MarkDelete(p, i)
  BY <1>4, MarkDeleteOK
<1>5. CASE UNCHANGED vars
  <2>1. ScansShaped' /\ UNCHANGED <<heap, owner, ins>>
    BY <1>5 DEF vars, HeapInv, ScansShaped
  <2> QED BY <1>1, <2>1, PagesUnchanged
<1> QED BY <1>2, <1>3, <1>4, <1>5 DEF Next

(* The invariant gives the types, the page's free space among them *)
LEMMA HeapInvTyped == HeapInv => TypeOK
BY DEF HeapInv, PagesTyped, RoomTyped, CallsOwnPages, ScansShaped, ScanPlaces, Call, Page,
       Slot, TypeOK

(* InsertTuple never lets the free space of a page wrap, whatever the sizes *)
(* of rows and pages and however many threads insert.                       *)
THEOREM HeapTypeCorrect == Spec => []TypeOK
<1>1. HeapInv /\ [Next]_vars => HeapInv'
  BY HeapStep
<1> QED BY HeapInit, <1>1, HeapInvTyped, PTL DEF Spec

(* Any number of inserters that reach the end of the chain together append  *)
(* one page after the other and never overwrite a link.                     *)
THEOREM LinksNeverOverwritten == Spec => LinksStay
<1>1. HeapInv /\ [Next]_vars => HeapInv'
  BY HeapStep
<1>2. HeapInv /\ [Next]_vars =>
          [\A p \in DOMAIN heap : heap[p].next # None => heap'[p].next = heap[p].next]_vars
  BY HeapStep DEF PagesKept
<1> QED BY HeapInit, <1>1, <1>2, PTL DEF Spec, LinksStay

(* No step of any thread gives a used slot to another row or brings a       *)
(* deleted row back.                                                        *)
THEOREM RidsNeverReused == Spec => RidNeverReused
<1>1. HeapInv /\ [Next]_vars => HeapInv'
  BY HeapStep
<1>2. HeapInv /\ [Next]_vars =>
          [\A p \in DOMAIN heap : \A i \in DOMAIN heap[p].slots :
               /\ heap'[p].slots[i].row = heap[p].slots[i].row
               /\ IsDeleted(p, i) => heap'[p].slots[i].deleted]_vars
  BY HeapStep DEF PagesKept
<1> QED BY HeapInit, <1>1, <1>2, PTL DEF Spec, RidNeverReused
-----------------------------------------------------------------------------

(* Every page but the last is linked to the one allocated after it *)
PagesLinked ==
    \A p \in DOMAIN heap : heap[p].next = IF p + 1 \in DOMAIN heap THEN p + 1 ELSE None

(* The RID a row was given is a slot of a page *)
RidsPlaced ==
    /\ rid = [r \in Rows |-> rid[r]]
    /\ \A r \in Rows : rid[r] # None =>
           rid[r][1] \in DOMAIN heap /\ rid[r][2] \in DOMAIN heap[rid[r][1]].slots

ReachInv == HeapInv /\ PagesLinked /\ RidsPlaced

(* The row with RID o comes after everything before slot s of page p *)
NotBefore(o, p, s) == o[1] > p \/ (o[1] = p /\ o[2] >= s)

Returned(seen) == {seen[n] : n \in DOMAIN seen}

(* The order of RIDs, as ScanComplete has it *)
InOrder(seen) ==
    \A m, n \in DOMAIN seen : m < n =>
        \/ seen[m][1] < seen[n][1]
        \/ seen[m][1] = seen[n][1] /\ seen[m][2] < seen[n][2]

IsLive(o) == /\ o \in Nat \X Nat
             /\ o[1] \in DOMAIN heap
             /\ o[2] \in Live(o[1])

(* Iterator s: what it returned lies before the place it stands on, what it *)
(* owes and has not returned does not. An iterator of Begin that has left a *)
(* page owes nothing there.                                                 *)
IteratorInv(s) ==
    /\ s.seen \in Seq(Nat \X Nat) /\ InOrder(s.seen)
    /\ \A o \in s.owed : IsLive(o)
    /\ s.at \in {"begin", "unpinned", "open", "row", "hop"} =>
           /\ s.page \in DOMAIN heap /\ s.slot \in Nat
           /\ \A o \in s.owed : o \in Returned(s.seen) \/ NotBefore(o, s.page, s.slot)
           /\ \A o \in Returned(s.seen) : ~ NotBefore(o, s.page, s.slot)
    /\ s.at \in {"begin", "unpinned", "open"} => s.seen = <<>>
    /\ s.at = "hop" => s.slot = 0
    /\ s.at = "unpinned" => \A o \in s.owed : o[1] # s.page
    /\ s.at = "end" => s.owed \subseteq Returned(s.seen)

IteratorsInv == \A t \in Scanners : IteratorInv(scan[t])

ScanInv == ReachInv /\ IteratorsInv

(* A nonempty set of natural numbers has a least element *)
LEMMA LeastOfNats ==
    ASSUME NEW T, T \subseteq Nat, T # {}
    PROVE  \E x \in T : \A y \in T : x <= y
<1>1. PICK x \in T : \A y \in T : ~ (<<y, x>> \in OpToRel(<, Nat))
  BY NatLessThanWellFounded, WFMin
<1>2. \A y \in T : ~ (y < x)
  BY <1>1 DEF OpToRel
<1> QED BY <1>2

(* Chain's recursive function, and what it computes *)
After == CHOOSE f : f = [n \in 1..Cardinality(DOMAIN heap) |->
             IF n = 1 THEN {First}
             ELSE f[n - 1] \cup ({heap[p].next : p \in f[n - 1]} \ {None})]

(* One more link from the first k pages leads to page k + 1 *)
LEMMA OneMoreLink ==
    ASSUME HeapInv, PagesLinked, NEW n \in Nat, DOMAIN heap = 1..n,
           NEW k \in 1..n, k # 1
    PROVE  1..k = 1..(k - 1) \cup ({heap[p].next : p \in 1..(k - 1)} \ {None})
<1>1. \A p \in 1..(k - 1) : heap[p].next = p + 1 /\ p + 1 \in 1..k
  BY SMT DEF PagesLinked
<1>2. k - 1 \in 1..(k - 1) /\ heap[k - 1].next = k /\ k # None
  BY <1>1, HeapAssumption
<1>3. ASSUME NEW x \in 1..k
      PROVE  x \in 1..(k - 1) \cup ({heap[p].next : p \in 1..(k - 1)} \ {None})
  <2>1. CASE x = k
    BY <1>2, <2>1
  <2>2. CASE x # k
    BY <2>2, SMT
  <2> QED BY <2>1, <2>2
<1>4. ASSUME NEW x \in 1..(k - 1) \cup ({heap[p].next : p \in 1..(k - 1)} \ {None})
      PROVE  x \in 1..k
  <2>1. CASE x \in 1..(k - 1)
    BY <2>1, SMT
  <2>2. CASE x \notin 1..(k - 1)
    BY <1>1, <2>2
  <2> QED BY <2>1, <2>2
<1> QED BY <1>3, <1>4

(* Every page of the table is on the chain that a scan follows *)
LEMMA ChainHasAllPages ==
    ASSUME HeapInv, PagesLinked
    PROVE  Chain = DOMAIN heap
<1>1. PICK n \in Nat : n >= 1 /\ DOMAIN heap = 1..n
  BY DEF HeapInv, PagesNumbered
<1>2. Cardinality(DOMAIN heap) = n
  <2>1. Cardinality(1..n) = IF 1 > n THEN 0 ELSE n - 1 + 1
    BY FS_Interval
  <2> QED BY <1>1, <2>1, SMT
<1> DEFINE Step(f) == [k \in 1..n |->
                          IF k = 1 THEN {First}
                          ELSE f[k - 1] \cup ({heap[p].next : p \in f[k - 1]} \ {None})]
           all == [k \in 1..n |-> 1..k]
<1>3. all = Step(all)
  <2>1. ASSUME NEW k \in 1..n
        PROVE  all[k] = Step(all)[k]
    <3>1. CASE k = 1
      <4>1. 1..1 = {1}
        BY SMT
      <4> QED BY <3>1, <4>1 DEF First
    <3>2. CASE k # 1
      <4>1. k - 1 \in 1..n
        BY <3>2, SMT
      <4>2. all[k - 1] = 1..(k - 1)
        BY <4>1
      <4>3. Step(all)[k] = 1..(k - 1) \cup ({heap[p].next : p \in 1..(k - 1)} \ {None})
        BY <3>2, <4>2
      <4> QED BY <1>1, <3>2, <4>3, OneMoreLink
    <3> QED BY <3>1, <3>2
  <2>2. all = [k \in 1..n |-> all[k]] /\ Step(all) = [k \in 1..n |-> Step(all)[k]]
    OBVIOUS
  <2> HIDE DEF all, Step
  <2>3. [k \in 1..n |-> all[k]] = [k \in 1..n |-> Step(all)[k]]
    BY <2>1
  <2> QED BY <2>2, <2>3
<1>4. After = Step(After)
  <2>1. \E f : f = Step(f)
    BY <1>3
  <2>2. After = CHOOSE f : f = Step(f)
    BY <1>2 DEF After
  <2> HIDE DEF Step
  <2> QED BY <2>1, <2>2
<1>5. ASSUME NEW k \in 1..n
      PROVE  After[k] = IF k = 1 THEN {First}
                        ELSE After[k - 1] \cup ({heap[p].next : p \in After[k - 1]} \ {None})
  <2> DEFINE a == After
  <2>1. a = Step(a)
    BY <1>4
  <2> HIDE DEF a
  <2>2. a[k] = Step(a)[k]
    BY <2>1
  <2>3. Step(a)[k] = IF k = 1 THEN {First}
                     ELSE a[k - 1] \cup ({heap[p].next : p \in a[k - 1]} \ {None})
    OBVIOUS
  <2> HIDE DEF Step
  <2>4. a[k] = IF k = 1 THEN {First}
               ELSE a[k - 1] \cup ({heap[p].next : p \in a[k - 1]} \ {None})
    BY <2>2, <2>3
  <2> QED BY <2>4 DEF a
<1>6. \A k \in 1..n : After[k] = 1..k
  <2> DEFINE bad == {k \in 1..n : After[k] # 1..k}
  <2>1. SUFFICES ASSUME bad # {} PROVE FALSE
    OBVIOUS
  <2>a. bad \subseteq Nat
    BY SMT
  <2>2. PICK k \in bad : \A j \in bad : k <= j
    <3> HIDE DEF bad
    <3> QED BY <2>1, <2>a, LeastOfNats
  <2>3. CASE k = 1
    <3>1. After[1] = {1}
      BY <1>5, <2>3 DEF First
    <3>2. 1..1 = {1}
      BY SMT
    <3> QED BY <2>3, <3>1, <3>2
  <2>4. CASE k # 1
    <3>1. k - 1 \in 1..n /\ k - 1 \notin bad
      BY <2>2, <2>4, SMT
    <3>2. After[k - 1] = 1..(k - 1)
      BY <3>1
    <3>3. After[k] = 1..(k - 1) \cup ({heap[p].next : p \in 1..(k - 1)} \ {None})
      BY <1>5, <2>4, <3>2
    <3> QED BY <1>1, <2>4, <3>3, OneMoreLink
  <2> QED BY <2>3, <2>4
<1>7. Chain = After[n]
  BY <1>2 DEF Chain, After
<1> QED BY <1>1, <1>6, <1>7

(* TablePage::InsertTuple adds a slot to one page and keeps the rest *)
LEMMA InsertHereChanges ==
    ASSUME HeapInv, NEW t \in Inserters, InsertHere(t)
    PROVE  /\ DOMAIN heap' = DOMAIN heap
           /\ ins[t].page \in DOMAIN heap /\ ins[t].row \in Rows
           /\ Len(heap[ins[t].page].slots) + 1 \in DOMAIN heap'[ins[t].page].slots
           /\ \A q \in DOMAIN heap :
                  /\ heap'[q].next = heap[q].next
                  /\ \A i \in DOMAIN heap[q].slots :
                         i \in DOMAIN heap'[q].slots /\ heap'[q].slots[i] = heap[q].slots[i]
<1>1. PICK p : p = ins[t].page
  OBVIOUS
<1>2. PICK new : new = [row |-> ins[t].row, deleted |-> FALSE]
  OBVIOUS
<1>3. PICK free : free = heap[p].free - RowSize[ins[t].row]
  OBVIOUS
<1>4. p \in DOMAIN heap /\ ins[t].row \in Rows
  BY <1>1 DEF InsertHere, HeapInv, CallsOwnPages
<1>5. heap[p] \in Page
  BY <1>4 DEF HeapInv, PagesTyped
<1>6. heap' = [heap EXCEPT ![p] = PageOf(free, Append(heap[p].slots, new), heap[p].next)]
  BY <1>1, <1>2, <1>3 DEF InsertHere
<1>7. /\ DOMAIN heap' = DOMAIN heap
      /\ heap'[p] = PageOf(free, Append(heap[p].slots, new), heap[p].next)
      /\ \A q \in DOMAIN heap : q # p => heap'[q] = heap[q]
  BY <1>4, <1>6 DEF HeapInv, PagesTyped
<1>8. heap'[p].slots = Append(heap[p].slots, new) /\ heap'[p].next = heap[p].next
  BY <1>7 DEF PageOf
<1>9. new \in Slot
  BY <1>2, <1>4 DEF Slot
<1>10. /\ Len(heap[p].slots) + 1 \in DOMAIN heap'[p].slots
       /\ \A i \in DOMAIN heap[p].slots :
              i \in DOMAIN heap'[p].slots /\ heap'[p].slots[i] = heap[p].slots[i]
  BY <1>5, <1>8, <1>9 DEF Page
<1> QED BY <1>1, <1>4, <1>7, <1>8, <1>10

(* The new page comes after the last one, which gets the link to it *)
LEMMA InsertNewPageChanges ==
    ASSUME HeapInv, PagesLinked, NEW t \in Inserters, InsertNewPage(t)
    PROVE  /\ DOMAIN heap \subseteq DOMAIN heap'
           /\ PagesLinked'
           /\ \A q \in DOMAIN heap : heap'[q].slots = heap[q].slots
<1>1. PICK n \in Nat : n >= 1 /\ DOMAIN heap = 1..n
  BY DEF HeapInv, PagesNumbered
<1>2. Cardinality(DOMAIN heap) = n
  <2>1. Cardinality(1..n) = IF 1 > n THEN 0 ELSE n - 1 + 1
    BY FS_Interval
  <2> QED BY <1>1, <2>1, SMT
<1>3. PICK p : p = ins[t].page
  OBVIOUS
<1>4. p \in DOMAIN heap /\ heap[p].next = None
  BY <1>3 DEF InsertNewPage, HeapInv, CallsOwnPages
<1>5. p = n
  BY <1>1, <1>4, HeapAssumption, SMT DEF PagesLinked
<1>6. heap' = [q \in DOMAIN heap \cup {n + 1} |->
                  CASE q = n + 1 -> NewPage
                    [] q = p -> PageOf(heap[p].free, heap[p].slots, n + 1)
                    [] OTHER -> heap[q]]
  BY <1>2, <1>3 DEF InsertNewPage
<1>7. 1..n \cup {n + 1} = 1..(n + 1) /\ n + 1 \notin 1..n /\ n \in 1..n
  BY <1>1, SMT
<1>8. /\ DOMAIN heap' = 1..(n + 1)
      /\ heap'[n + 1] = NewPage
      /\ heap'[n] = PageOf(heap[n].free, heap[n].slots, n + 1)
      /\ \A q \in 1..n : q # n => heap'[q] = heap[q]
  BY <1>1, <1>5, <1>6, <1>7
<1>9. heap'[n + 1].next = None /\ heap'[n].next = n + 1 /\ heap'[n].slots = heap[n].slots
  BY <1>8 DEF NewPage, PageOf
<1>10. ASSUME NEW q \in 1..(n + 1)
       PROVE  heap'[q].next = IF q + 1 \in 1..(n + 1) THEN q + 1 ELSE None
  <2>1. CASE q = n + 1
    BY <1>9, <2>1
  <2>2. CASE q = n
    BY <1>1, <1>9, <2>2
  <2>3. CASE q # n /\ q # n + 1
    <3>1. q \in 1..n /\ q + 1 \in 1..n /\ q + 1 \in 1..(n + 1)
      BY <2>3, SMT
    <3> QED BY <1>1, <1>8, <2>3, <3>1 DEF PagesLinked
  <2> QED BY <2>1, <2>2, <2>3
<1>11. PagesLinked'
  BY <1>8, <1>10 DEF PagesLinked
<1> QED BY <1>1, <1>7, <1>8, <1>9, <1>11

(* MarkDelete changes one flag *)
LEMMA MarkDeleteChanges ==
    ASSUME HeapInv, NEW p \in DOMAIN heap, NEW i \in DOMAIN heap[p].slots, MarkDelete(p, i)
    PROVE  /\ DOMAIN heap' = DOMAIN heap
           /\ \A q \in DOMAIN heap :
                  /\ heap'[q].next = heap[q].next
                  /\ DOMAIN heap'[q].slots = DOMAIN heap[q].slots
                  /\ \A j \in DOMAIN heap[q].slots :
                         <<q, j>> # <<p, i>> => heap'[q].slots[j] = heap[q].slots[j]
<1>1. heap[p] \in Page
  BY DEF HeapInv, PagesTyped
<1>2. heap' = [heap EXCEPT ![p].slots[i].deleted = TRUE]
  BY DEF MarkDelete
<1>3. /\ heap'[p].next = heap[p].next
      /\ heap'[p].slots = [heap[p].slots EXCEPT ![i].deleted = TRUE]
      /\ DOMAIN heap' = DOMAIN heap
      /\ \A q \in DOMAIN heap : q # p => heap'[q] = heap[q]
  BY <1>1, <1>2 DEF HeapInv, PagesTyped, Page
<1>4. /\ DOMAIN heap'[p].slots = DOMAIN heap[p].slots
      /\ \A j \in DOMAIN heap[p].slots : j # i => heap'[p].slots[j] = heap[p].slots[j]
  BY <1>1, <1>3 DEF Page
<1> QED BY <1>3, <1>4

(* Slots are never taken away, so a RID stays the RID of a slot *)
LEMMA RidsStayPlaced ==
    ASSUME RidsPlaced, UNCHANGED rid,
           \A q \in DOMAIN heap :
               q \in DOMAIN heap' /\ DOMAIN heap[q].slots \subseteq DOMAIN heap'[q].slots
    PROVE  RidsPlaced'
BY DEF RidsPlaced

(* A step that leaves the pages and the RIDs *)
LEMMA ReachUnchanged ==
    ASSUME PagesLinked, RidsPlaced, UNCHANGED <<heap, rid>>
    PROVE  PagesLinked' /\ RidsPlaced'
BY DEF PagesLinked, RidsPlaced

(* Every step keeps the chain complete and the RIDs in it *)
LEMMA ReachStep == ReachInv /\ [Next]_vars => ReachInv'
<1> SUFFICES ASSUME ReachInv, [Next]_vars PROVE ReachInv'
  OBVIOUS
<1>0. HeapInv /\ PagesLinked /\ RidsPlaced
  BY DEF ReachInv
<1>1. HeapInv'
  BY <1>0, HeapStep
<1>2. SUFFICES PagesLinked' /\ RidsPlaced'
  BY <1>1 DEF ReachInv
<1>3. ASSUME NEW t \in Inserters, InsertStep(t) \/ \E r \in Rows : InsertTuple(t, r)
      PROVE  PagesLinked' /\ RidsPlaced'
  <2>1. CASE InsertHere(t)
    <3> HIDE DEF ReachInv
    <3>1. PagesLinked'
      BY <1>0, <2>1, InsertHereChanges DEF PagesLinked
    <3>2. PICK r, p, i : r = ins[t].row /\ p = ins[t].page /\ i = Len(heap[p].slots) + 1
      OBVIOUS
    <3>3. rid' = [rid EXCEPT ![r] = <<p, i>>]
      BY <2>1, <3>2 DEF InsertHere
    <3>4. r \in Rows /\ p \in DOMAIN heap' /\ i \in DOMAIN heap'[p].slots
      BY <1>0, <2>1, <3>2, InsertHereChanges
    <3>5. rid'[r] = <<p, i>> /\ \A u \in Rows : u # r => rid'[u] = rid[u]
      BY <1>0, <3>3, <3>4 DEF RidsPlaced
    <3>6. rid' = [u \in Rows |-> rid'[u]]
      BY <1>0, <3>3 DEF RidsPlaced
    <3>7. \A q \in DOMAIN heap :
              q \in DOMAIN heap' /\ DOMAIN heap[q].slots \subseteq DOMAIN heap'[q].slots
      BY <1>0, <2>1, InsertHereChanges
    <3>8. ASSUME NEW u \in Rows, rid'[u] # None
          PROVE  rid'[u][1] \in DOMAIN heap' /\ rid'[u][2] \in DOMAIN heap'[rid'[u][1]].slots
      <4>1. CASE u = r
        BY <3>4, <3>5, <4>1
      <4>2. CASE u # r
        BY <1>0, <3>5, <3>7, <3>8, <4>2 DEF RidsPlaced
      <4> QED BY <4>1, <4>2
    <3> QED BY <3>1, <3>6, <3>8 DEF RidsPlaced
  <2>2. CASE InsertNewPage(t)
    <3>1. UNCHANGED rid
      BY <2>2 DEF InsertNewPage
    <3> QED BY <1>0, <2>2, <3>1, InsertNewPageChanges, RidsStayPlaced
  <2>3. CASE \/ \E r \in Rows : InsertTuple(t, r)
             \/ LatchFirst(t) \/ ReadNext(t) \/ InsertNextPage(t) \/ InsertFails(t)
    <3>1. UNCHANGED <<heap, rid>>
      BY <2>3 DEF InsertTuple, LatchFirst, ReadNext, InsertNextPage, InsertFails
    <3> QED BY <1>0, <3>1, ReachUnchanged
  <2> QED BY <1>3, <2>1, <2>2, <2>3 DEF InsertStep
<1>4. ASSUME NEW t \in Scanners, Begin(t) \/ ScanStep(t)
      PROVE  PagesLinked' /\ RidsPlaced'
  <2>1. UNCHANGED <<heap, rid>>
    BY <1>4 DEF Begin, ScanStep, BeginPage, BeginNext, Open, Advance, Hop
  <2> QED BY <1>0, <2>1, ReachUnchanged
<1>5. ASSUME NEW p \in DOMAIN heap, NEW i \in DOMAIN heap[p].slots, MarkDelete(p, i)
      PROVE  PagesLinked' /\ RidsPlaced'
  <2>1. UNCHANGED rid
    BY <1>5 DEF MarkDelete
  <2>2. PagesLinked'
    BY <1>0, <1>5, MarkDeleteChanges DEF PagesLinked
  <2>3. RidsPlaced'
    BY <1>0, <1>5, <2>1, MarkDeleteChanges, RidsStayPlaced
  <2> QED BY <2>2, <2>3
<1>6. CASE UNCHANGED vars
  BY <1>0, <1>6, ReachUnchanged DEF vars
<1> QED BY <1>3, <1>4, <1>5, <1>6 DEF Next

(* A new table has one page and no rows *)
LEMMA ReachInit == Init => ReachInv
<1> SUFFICES ASSUME Init PROVE ReachInv
  OBVIOUS
<1>1. DOMAIN heap = {1} /\ heap[1].next = None
  BY DEF Init, First, NewPage, PageOf
<1>2. PagesLinked
  BY <1>1 DEF PagesLinked
<1>3. RidsPlaced
  BY DEF Init, RidsPlaced
<1> QED BY <1>2, <1>3, HeapInit DEF ReachInv

(* A row whose InsertTuple returned its RID is on the chain of pages from   *)
(* the first one, for any number of threads, rows and pages: no row is lost *)
(* on a page that no scan reaches.                                          *)
THEOREM RowsStayReachable == Spec => []InsertedRowsReachable
<1>1. ReachInv => InsertedRowsReachable
  BY ChainHasAllPages DEF ReachInv, RidsPlaced, InsertedRowsReachable
<1> QED BY ReachInit, ReachStep, <1>1, PTL DEF Spec
-----------------------------------------------------------------------------

(* GetFirstTupleRid and GetNextTupleRid return the first live slot *)
LEMMA SmallestIsLeast ==
    ASSUME NEW S, S \subseteq Nat, S # {}
    PROVE  Smallest(S) \in S /\ \A j \in S : Smallest(S) <= j
BY LeastOfNats DEF Smallest

(* Slots are numbered from 1 *)
LEMMA LiveSlots ==
    ASSUME HeapInv, NEW p \in DOMAIN heap
    PROVE  p \in Nat /\ Live(p) \subseteq Nat \ {0}
<1>1. heap[p].slots \in Seq(Slot)
  BY DEF HeapInv, PagesTyped, Page
<1>2. DOMAIN heap[p].slots \subseteq Nat \ {0}
  BY <1>1
<1>3. p \in Nat
  BY DEF HeapInv, PagesNumbered
<1> QED BY <1>2, <1>3 DEF Live

(* A row that comes after all rows returned so far keeps the order *)
LEMMA AppendInOrder ==
    ASSUME NEW seen \in Seq(Nat \X Nat), InOrder(seen), NEW p \in Nat, NEW i \in Nat,
           \A o \in Returned(seen) : ~ NotBefore(o, p, i)
    PROVE  /\ Append(seen, <<p, i>>) \in Seq(Nat \X Nat)
           /\ InOrder(Append(seen, <<p, i>>))
           /\ Returned(Append(seen, <<p, i>>)) = Returned(seen) \cup {<<p, i>>}
<1> DEFINE new == Append(seen, <<p, i>>)
<1>1. new \in Seq(Nat \X Nat) /\ DOMAIN new = 1..(Len(seen) + 1) /\ DOMAIN seen = 1..Len(seen)
  OBVIOUS
<1>2. new[Len(seen) + 1] = <<p, i>> /\ \A n \in DOMAIN seen : new[n] = seen[n]
  OBVIOUS
<1>3. Len(seen) \in Nat
  OBVIOUS
<1> HIDE DEF new
<1>4. \A n \in DOMAIN new : n \in DOMAIN seen \/ n = Len(seen) + 1
  BY <1>1, <1>3
<1>5. ASSUME NEW m \in DOMAIN new, NEW n \in DOMAIN new, m < n
      PROVE  \/ new[m][1] < new[n][1]
             \/ new[m][1] = new[n][1] /\ new[m][2] < new[n][2]
  <2>a. PICK k \in Nat : k = Len(seen)
    BY <1>3
  <2>b. m \in 1..(k + 1) /\ n \in 1..(k + 1) /\ DOMAIN seen = 1..k
    BY <1>1, <2>a
  <2>1. m \in DOMAIN seen /\ m \in Nat /\ n \in Nat
    BY <1>5, <2>b
  <2>2. CASE n \in DOMAIN seen
    <3>1. seen[m][1] < seen[n][1] \/ (seen[m][1] = seen[n][1] /\ seen[m][2] < seen[n][2])
      BY <1>5, <2>1, <2>2 DEF InOrder
    <3> QED BY <1>2, <2>1, <2>2, <3>1
  <2>3. CASE n = Len(seen) + 1
    <3>1. seen[m] \in Nat \X Nat /\ seen[m] \in Returned(seen)
      BY <2>1 DEF Returned
    <3>2. ~ NotBefore(seen[m], p, i)
      BY <3>1
    <3> QED BY <1>2, <2>1, <2>3, <3>1, <3>2 DEF NotBefore
  <2> QED BY <1>4, <2>2, <2>3
<1>6. InOrder(new)
  BY <1>5 DEF InOrder
<1>7. Returned(new) = Returned(seen) \cup {<<p, i>>}
  <2>1. ASSUME NEW o \in Returned(new) PROVE o \in Returned(seen) \cup {<<p, i>>}
    BY <1>2, <1>4 DEF Returned
  <2>2. ASSUME NEW o \in Returned(seen) \cup {<<p, i>>} PROVE o \in Returned(new)
    <3>1. Len(seen) + 1 \in DOMAIN new /\ DOMAIN seen \subseteq DOMAIN new
      BY <1>1, <1>3
    <3> QED BY <1>2, <3>1 DEF Returned
  <2> QED BY <2>1, <2>2
<1> QED BY <1>1, <1>6, <1>7 DEF new

(* Nothing has been returned yet *)
LEMMA NothingReturned ==
    <<>> \in Seq(Nat \X Nat) /\ InOrder(<<>>) /\ Returned(<<>>) = {}
BY DEF InOrder, Returned

(* Where a moved iterator is *)
LEMMA MovedTo ==
    ASSUME ScansShaped, NEW t \in Scanners, NEW at, NEW page, NEW slot, NEW seen,
           Move(t, at, page, slot, seen)
    PROVE  /\ scan'[t].at = at /\ scan'[t].page = page /\ scan'[t].slot = slot
           /\ scan'[t].seen = seen /\ scan'[t].owed = scan[t].owed
           /\ \A u \in Scanners : u # t => scan'[u] = scan[u]
BY DEF ScansShaped, Move, Iterator

(* A live row is live while the heap stays as it is *)
LEMMA LiveStays ==
    ASSUME UNCHANGED heap, NEW o, IsLive(o)
    PROVE  IsLive(o)'
BY DEF IsLive, Live, IsDeleted

(* An iterator that stands still while pages are only added to *)
LEMMA IteratorStays ==
    ASSUME NEW t \in Scanners, IteratorInv(scan[t]), DOMAIN heap \subseteq DOMAIN heap',
           scan'[t].at = scan[t].at, scan'[t].page = scan[t].page,
           scan'[t].slot = scan[t].slot, scan'[t].seen = scan[t].seen,
           scan'[t].owed \subseteq scan[t].owed,
           \A o \in scan'[t].owed : IsLive(o)'
    PROVE  IteratorInv(scan[t])'
BY DEF IteratorInv

(* The row the iterator stands on next is the first one it still owes, and  *)
(* at the end of the chain it owes none.                                    *)
LEMMA ArriveOK ==
    ASSUME ReachInv, NEW t \in Scanners, IteratorInv(scan[t]), UNCHANGED heap,
           NEW p \in DOMAIN heap, NEW after \in Nat,
           NEW seen \in Seq(Nat \X Nat), InOrder(seen),
           \A o \in scan[t].owed : o \in Returned(seen) \/ NotBefore(o, p, after + 1),
           \A o \in Returned(seen) : ~ NotBefore(o, p, after + 1),
           Arrive(t, p, after, seen)
    PROVE  IteratorInv(scan[t])'
<1>0. ScansShaped /\ HeapInv /\ PagesLinked
  BY DEF ReachInv, HeapInv
<1>1. p \in Nat /\ Live(p) \subseteq Nat \ {0}
  BY <1>0, LiveSlots
<1>2. \A o \in scan[t].owed : IsLive(o) /\ IsLive(o)'
  BY LiveStays DEF IteratorInv
<1>3. LiveAfter(p, after) \subseteq Nat \ {0}
  BY <1>1 DEF LiveAfter
<1>4. ASSUME NEW o \in scan[t].owed, o \notin Returned(seen), o[1] <= p
      PROVE  o[1] = p /\ o[2] \in LiveAfter(p, after)
  <2>1. o \in Nat \X Nat /\ o[2] \in Live(o[1])
    BY <1>2 DEF IsLive
  <2>a. o[1] \in Nat /\ o[2] \in Nat /\ NotBefore(o, p, after + 1)
    BY <1>4, <2>1
  <2>2. o[1] = p /\ o[2] >= after + 1
    BY <1>1, <1>4, <2>a DEF NotBefore
  <2> QED BY <2>1, <2>2 DEF LiveAfter
<1>5. Returned(seen) \subseteq Nat \X Nat
  BY DEF Returned
<1>6. CASE LiveAfter(p, after) # {}
  <2>1. PICK i : i = Smallest(LiveAfter(p, after))
    OBVIOUS
  <2>2. i \in LiveAfter(p, after) /\ \A j \in LiveAfter(p, after) : i <= j
    BY <1>3, <1>6, <2>1, SmallestIsLeast
  <2>3. i \in Nat /\ i >= after + 1
    BY <1>3, <2>2 DEF LiveAfter
  <2>4. Move(t, "row", p, i, seen)
    BY <1>6, <2>1 DEF Arrive
  <2>5. /\ scan'[t].at = "row" /\ scan'[t].page = p /\ scan'[t].slot = i
        /\ scan'[t].seen = seen /\ scan'[t].owed = scan[t].owed
    BY <1>0, <2>4, MovedTo
  <2>6. \A o \in scan[t].owed : o \in Returned(seen) \/ NotBefore(o, p, i)
    <3>1. SUFFICES ASSUME NEW o \in scan[t].owed, o \notin Returned(seen)
                   PROVE  NotBefore(o, p, i)
      OBVIOUS
    <3>2. o[1] \in Nat
      BY <1>2 DEF IsLive
    <3>3. CASE o[1] <= p
      BY <1>3, <1>4, <2>2, <2>3, <3>1, <3>3 DEF NotBefore
    <3> QED BY <1>1, <3>2, <3>3 DEF NotBefore
  <2>7. \A o \in Returned(seen) : ~ NotBefore(o, p, i)
    <3>1. SUFFICES ASSUME NEW o \in Returned(seen), NotBefore(o, p, i)
                   PROVE  NotBefore(o, p, after + 1)
      OBVIOUS
    <3>2. o[1] \in Nat /\ o[2] \in Nat
      BY <1>5
    <3> QED BY <2>3, <3>1, <3>2 DEF NotBefore
  <2> QED BY <1>2, <2>3, <2>5, <2>6, <2>7 DEF IteratorInv
<1>7. CASE LiveAfter(p, after) = {} /\ heap[p].next # None
  <2>1. heap[p].next = p + 1 /\ p + 1 \in DOMAIN heap
    BY <1>0, <1>7 DEF PagesLinked
  <2>2. Move(t, "hop", p + 1, 0, seen)
    BY <1>7, <2>1 DEF Arrive
  <2>3. /\ scan'[t].at = "hop" /\ scan'[t].page = p + 1 /\ scan'[t].slot = 0
        /\ scan'[t].seen = seen /\ scan'[t].owed = scan[t].owed
    BY <1>0, <2>2, MovedTo
  <2>4. \A o \in scan[t].owed : o \in Returned(seen) \/ NotBefore(o, p + 1, 0)
    <3>1. SUFFICES ASSUME NEW o \in scan[t].owed, o \notin Returned(seen)
                   PROVE  NotBefore(o, p + 1, 0)
      OBVIOUS
    <3>2. o[1] \in Nat /\ o[2] \in Nat
      BY <1>2 DEF IsLive
    <3>3. o[1] > p
      BY <1>1, <1>4, <1>7, <3>1, <3>2
    <3> QED BY <1>1, <3>2, <3>3 DEF NotBefore
  <2>5. \A o \in Returned(seen) : ~ NotBefore(o, p + 1, 0)
    <3>1. SUFFICES ASSUME NEW o \in Returned(seen), NotBefore(o, p + 1, 0)
                   PROVE  NotBefore(o, p, after + 1)
      OBVIOUS
    <3>2. o[1] \in Nat /\ o[2] \in Nat
      BY <1>5
    <3> QED BY <1>1, <3>1, <3>2 DEF NotBefore
  <2> QED BY <1>2, <2>1, <2>3, <2>4, <2>5 DEF IteratorInv
<1>8. CASE LiveAfter(p, after) = {} /\ heap[p].next = None
  <2>1. Move(t, "end", None, 0, seen)
    BY <1>8 DEF Arrive
  <2>2. /\ scan'[t].at = "end" /\ scan'[t].seen = seen /\ scan'[t].owed = scan[t].owed
    BY <1>0, <2>1, MovedTo
  <2>3. \A o \in scan[t].owed : o \in Returned(seen)
    <3>1. SUFFICES ASSUME NEW o \in scan[t].owed, o \notin Returned(seen) PROVE FALSE
      OBVIOUS
    <3>2. o[1] \in Nat /\ o[1] \in DOMAIN heap
      BY <1>2 DEF IsLive
    <3>3. o[1] <= p
      <4>1. p + 1 \notin DOMAIN heap
        BY <1>0, <1>1, <1>8, HeapAssumption DEF PagesLinked
      <4>2. PICK n \in Nat : DOMAIN heap = 1..n
        BY <1>0 DEF HeapInv, PagesNumbered
      <4> QED BY <1>1, <3>2, <4>1, <4>2
    <3> QED BY <1>4, <1>8, <3>1, <3>3
  <2> QED BY <1>2, <2>2, <2>3 DEF IteratorInv
<1> QED BY <1>6, <1>7, <1>8

(* Begin looks for the first live row from the first page on *)
LEMMA BeginsOK ==
    ASSUME ~ Evicts, ReachInv, NEW t \in Scanners, IteratorInv(scan[t]),
           Begin(t) \/ BeginPage(t) \/ BeginNext(t)
    PROVE  IteratorInv(scan[t])' /\ \A u \in Scanners : u # t => scan'[u] = scan[u]
<1>0. ScansShaped /\ HeapInv /\ PagesLinked
  BY DEF ReachInv, HeapInv
<1>1. UNCHANGED heap
  BY DEF Begin, BeginPage, BeginNext
<1>2. \A o \in scan[t].owed : IsLive(o) /\ IsLive(o)'
  BY <1>1, LiveStays DEF IteratorInv
<1>3. CASE Begin(t)
  <2>1. PICK rows : rows = UNION {{p} \X Live(p) : p \in DOMAIN heap}
    OBVIOUS
  <2>2. scan' = [scan EXCEPT ![t] = Iterator("begin", First, 0, <<>>, rows)]
    BY <1>3, <2>1 DEF Begin
  <2>3. /\ scan'[t].at = "begin" /\ scan'[t].page = First /\ scan'[t].slot = 0
        /\ scan'[t].seen = <<>> /\ scan'[t].owed = rows
        /\ \A u \in Scanners : u # t => scan'[u] = scan[u]
    BY <1>0, <2>2 DEF ScansShaped, Iterator
  <2>4. ASSUME NEW o \in rows
        PROVE  IsLive(o)' /\ NotBefore(o, First, 0)
    <3>1. PICK p \in DOMAIN heap : o \in {p} \X Live(p)
      BY <2>1
    <3>2. PICK i \in Live(p) : o = <<p, i>>
      BY <3>1
    <3>3. p \in Nat /\ i \in Nat /\ p >= 1
      BY <1>0, LiveSlots DEF HeapInv, PagesNumbered
    <3>4. IsLive(o)
      BY <3>2, <3>3 DEF IsLive
    <3>5. NotBefore(o, First, 0)
      BY <3>2, <3>3 DEF NotBefore, First
    <3> QED BY <1>1, <3>4, <3>5, LiveStays
  <2>5. First \in DOMAIN heap
    BY <1>0 DEF HeapInv, PagesNumbered, First
  <2> QED BY <1>1, <2>3, <2>4, <2>5, NothingReturned DEF IteratorInv
<1>4. CASE BeginPage(t)
  <2>1. PICK p : p = scan[t].page
    OBVIOUS
  <2>2. /\ p \in DOMAIN heap /\ p \in Nat /\ Live(p) \subseteq Nat \ {0}
        /\ scan[t].slot \in Nat
        /\ \A o \in scan[t].owed : NotBefore(o, p, scan[t].slot)
    BY <1>0, <1>4, <2>1, LiveSlots, NothingReturned DEF BeginPage, IteratorInv
  <2>3. \A o \in scan[t].owed : o \in Nat \X Nat /\ o[2] \in Live(o[1])
    BY <1>2 DEF IsLive
  <2>4. \A o \in scan[t].owed : o[1] \in Nat /\ o[2] \in Nat /\ o[1] >= p
    BY <2>2, <2>3 DEF NotBefore
  <2>5. CASE Live(p) # {}
    <3>1. PICK i : i = Smallest(Live(p))
      OBVIOUS
    <3>2. i \in Live(p) /\ \A j \in Live(p) : i <= j
      BY <2>2, <2>5, <3>1, SmallestIsLeast
    <3>3. Move(t, "open", p, i, <<>>)
      BY <1>4, <2>1, <2>5, <3>1 DEF BeginPage
    <3>4. /\ scan'[t].at = "open" /\ scan'[t].page = p /\ scan'[t].slot = i
          /\ scan'[t].seen = <<>> /\ scan'[t].owed = scan[t].owed
          /\ \A u \in Scanners : u # t => scan'[u] = scan[u]
      BY <1>0, <3>3, MovedTo
    <3>5. \A o \in scan[t].owed : NotBefore(o, p, i)
      BY <2>2, <2>3, <2>4, <3>2 DEF NotBefore
    <3> QED BY <1>1, <1>2, <2>2, <3>2, <3>4, <3>5, NothingReturned DEF IteratorInv
  <2>6. CASE Live(p) = {}
    <3>1. Move(t, "unpinned", p, 0, <<>>)
      BY <1>4, <2>1, <2>6 DEF BeginPage
    <3>2. /\ scan'[t].at = "unpinned" /\ scan'[t].page = p /\ scan'[t].slot = 0
          /\ scan'[t].seen = <<>> /\ scan'[t].owed = scan[t].owed
          /\ \A u \in Scanners : u # t => scan'[u] = scan[u]
      BY <1>0, <3>1, MovedTo
    <3>3. \A o \in scan[t].owed : NotBefore(o, p, 0) /\ o[1] # p
      BY <2>2, <2>3, <2>4, <2>6 DEF NotBefore
    <3> QED BY <1>1, <1>2, <2>2, <3>2, <3>3, NothingReturned DEF IteratorInv
  <2> QED BY <2>5, <2>6
<1>5. CASE BeginNext(t)
  <2>1. PICK p : p = scan[t].page
    OBVIOUS
  <2>2. /\ p \in DOMAIN heap /\ p \in Nat /\ scan[t].slot \in Nat
        /\ \A o \in scan[t].owed : NotBefore(o, p, scan[t].slot) /\ o[1] # p
    BY <1>0, <1>5, <2>1, LiveSlots, NothingReturned DEF BeginNext, IteratorInv
  <2>3. \A o \in scan[t].owed : o[1] \in Nat /\ o[2] \in Nat /\ o[1] \in DOMAIN heap
    BY <1>2 DEF IsLive
  <2>4. \A o \in scan[t].owed : o[1] >= p + 1
    BY <2>2, <2>3 DEF NotBefore
  <2>5. Move(t, IF heap[p].next = None THEN "end" ELSE "begin", heap[p].next, 0, <<>>)
    BY <1>5, <2>1 DEF BeginNext, NextRead
  <2>6. CASE heap[p].next # None
    <3>1. heap[p].next = p + 1 /\ p + 1 \in DOMAIN heap
      BY <1>0, <2>2, <2>6 DEF PagesLinked
    <3>2. Move(t, "begin", p + 1, 0, <<>>)
      BY <2>5, <2>6, <3>1
    <3>3. /\ scan'[t].at = "begin" /\ scan'[t].page = p + 1 /\ scan'[t].slot = 0
          /\ scan'[t].seen = <<>> /\ scan'[t].owed = scan[t].owed
          /\ \A u \in Scanners : u # t => scan'[u] = scan[u]
      BY <1>0, <3>2, MovedTo
    <3>4. \A o \in scan[t].owed : NotBefore(o, p + 1, 0)
      BY <2>2, <2>3, <2>4 DEF NotBefore
    <3> QED BY <1>1, <1>2, <3>1, <3>3, <3>4, NothingReturned DEF IteratorInv
  <2>7. CASE heap[p].next = None
    <3>1. Move(t, "end", None, 0, <<>>)
      BY <2>5, <2>7
    <3>2. /\ scan'[t].at = "end" /\ scan'[t].seen = <<>> /\ scan'[t].owed = scan[t].owed
          /\ \A u \in Scanners : u # t => scan'[u] = scan[u]
      BY <1>0, <3>1, MovedTo
    <3>3. p + 1 \notin DOMAIN heap
      BY <1>0, <2>2, <2>7, HeapAssumption DEF PagesLinked
    <3>4. PICK n \in Nat : DOMAIN heap = 1..n
      BY <1>0 DEF HeapInv, PagesNumbered
    <3>5. \A o \in scan[t].owed : FALSE
      BY <2>2, <2>3, <2>4, <3>3, <3>4
    <3>6. scan[t].owed = {}
      BY <3>5
    <3> QED BY <3>2, <3>6, NothingReturned DEF IteratorInv
  <2> QED BY <2>6, <2>7
<1> QED BY <1>3, <1>4, <1>5

(* The iterator opens the row Begin found, then returns row after row *)
LEMMA ReadsOK ==
    ASSUME ReachInv, NEW t \in Scanners, IteratorInv(scan[t]),
           Open(t) \/ Advance(t) \/ Hop(t)
    PROVE  IteratorInv(scan[t])' /\ \A u \in Scanners : u # t => scan'[u] = scan[u]
<1>0. ScansShaped /\ HeapInv /\ PagesLinked
  BY DEF ReachInv, HeapInv
<1>1. UNCHANGED heap
  BY DEF Open, Advance, Hop
<1>2. \A o \in scan[t].owed : IsLive(o) /\ IsLive(o)'
  BY <1>1, LiveStays DEF IteratorInv
<1>3. PICK p, i, old : p = scan[t].page /\ i = scan[t].slot /\ old = scan[t].seen
  OBVIOUS
<1>4. scan[t].at \in {"open", "row", "hop"}
  BY DEF Open, Advance, Hop
<1>5. /\ p \in DOMAIN heap /\ p \in Nat /\ i \in Nat
      /\ old \in Seq(Nat \X Nat) /\ InOrder(old)
      /\ \A o \in scan[t].owed : o \in Returned(old) \/ NotBefore(o, p, i)
      /\ \A o \in Returned(old) : ~ NotBefore(o, p, i)
  BY <1>0, <1>3, <1>4, LiveSlots DEF IteratorInv
<1>6. ASSUME NEW after, NEW seen, Arrive(t, p, after, seen)
      PROVE  \A u \in Scanners : u # t => scan'[u] = scan[u]
  BY <1>0, <1>6, MovedTo DEF Arrive
<1>7. CASE Open(t)
  <2>0. old = <<>>
    BY <1>3, <1>7 DEF Open, IteratorInv
  <2>1. PICK at \in {"threw", "row"} : Move(t, at, p, i, <<>>)
    BY <1>3, <1>7 DEF Open
  <2>2. /\ scan'[t].at = at /\ scan'[t].page = p /\ scan'[t].slot = i
        /\ scan'[t].seen = <<>> /\ scan'[t].owed = scan[t].owed
        /\ \A u \in Scanners : u # t => scan'[u] = scan[u]
    BY <1>0, <2>1, MovedTo
  <2> QED BY <1>1, <1>2, <1>5, <2>0, <2>1, <2>2, NothingReturned DEF IteratorInv
<1>8. CASE Advance(t)
  <2>1. PICK seen : seen = Append(old, <<p, i>>)
    OBVIOUS
  <2>2. Arrive(t, p, i, seen)
    BY <1>3, <1>8, <2>1 DEF Advance
  <2>3. /\ seen \in Seq(Nat \X Nat) /\ InOrder(seen)
        /\ Returned(seen) = Returned(old) \cup {<<p, i>>}
    BY <1>5, <2>1, AppendInOrder
  <2>4. ASSUME NEW o \in scan[t].owed
        PROVE  o \in Returned(seen) \/ NotBefore(o, p, i + 1)
    <3>1. o \in Nat \X Nat
      BY <1>2 DEF IsLive
    <3>2. PICK q \in Nat, j \in Nat : o = <<q, j>>
      BY <3>1
    <3>3. o \in Returned(old) \/ q > p \/ (q = p /\ j >= i)
      BY <1>5, <3>2 DEF NotBefore
    <3>4. o \in Returned(old) \/ q > p \/ (q = p /\ j >= i + 1) \/ (q = p /\ j = i)
      BY <1>5, <3>3
    <3> QED BY <2>3, <3>2, <3>4 DEF NotBefore
  <2>5. ASSUME NEW o \in Returned(seen) PROVE ~ NotBefore(o, p, i + 1)
    <3>1. CASE o = <<p, i>>
      BY <1>5, <3>1 DEF NotBefore
    <3>2. CASE o \in Returned(old)
      <4>1. o[1] \in Nat /\ o[2] \in Nat
        BY <1>5, <3>2 DEF Returned
      <4>2. ~ NotBefore(o, p, i)
        BY <1>5, <3>2
      <4> QED BY <1>5, <4>1, <4>2 DEF NotBefore
    <3> QED BY <2>3, <3>1, <3>2
  <2>6. IteratorInv(scan[t])'
    BY <1>1, <1>5, <2>2, <2>3, <2>4, <2>5, ArriveOK
  <2> QED BY <1>6, <2>2, <2>6
<1>9. CASE Hop(t)
  <2>1. Arrive(t, p, 0, old)
    BY <1>3, <1>9 DEF Hop
  <2>2. ASSUME NEW o \in scan[t].owed
        PROVE  o \in Returned(old) \/ NotBefore(o, p, 0 + 1)
    <3>1. o[1] \in Nat /\ o[1] \in DOMAIN heap /\ o[2] \in Live(o[1])
      BY <1>2 DEF IsLive
    <3>2. o[2] \in Nat \ {0}
      BY <1>0, <3>1, LiveSlots
    <3> QED BY <1>5, <3>1, <3>2 DEF NotBefore
  <2>3. ASSUME NEW o \in Returned(old) PROVE ~ NotBefore(o, p, 0 + 1)
    <3>1. o[1] \in Nat /\ o[2] \in Nat
      BY <1>5, <2>3 DEF Returned
    <3>2. ~ NotBefore(o, p, i)
      BY <1>5
    <3>3. i = 0
      BY <1>3, <1>9 DEF Hop, IteratorInv
    <3> QED BY <1>5, <3>1, <3>2, <3>3 DEF NotBefore
  <2>4. IteratorInv(scan[t])'
    BY <1>1, <1>5, <2>1, <2>2, <2>3, ArriveOK
  <2> QED BY <1>6, <2>1, <2>4
<1> QED BY <1>7, <1>8, <1>9

(* Every step keeps what the iterators owe ahead of them *)
LEMMA IteratorsStep ==
    ASSUME ~ Evicts
    PROVE  ScanInv /\ [Next]_vars => ScanInv'
<1> SUFFICES ASSUME ScanInv, [Next]_vars PROVE ScanInv'
  OBVIOUS
<1>0. ReachInv /\ HeapInv /\ PagesLinked /\ ScansShaped /\ IteratorsInv
  BY DEF ScanInv, ReachInv, HeapInv
<1>1. ReachInv'
  BY <1>0, ReachStep
<1>2. SUFFICES \A u \in Scanners : IteratorInv(scan[u])'
  BY <1>1 DEF ScanInv, IteratorsInv
<1>3. \A u \in Scanners : IteratorInv(scan[u])
  BY <1>0 DEF IteratorsInv
<1>4. ASSUME UNCHANGED heap, NEW u \in Scanners, scan'[u] = scan[u]
      PROVE  IteratorInv(scan[u])'
  <2>1. \A o \in scan[u].owed : IsLive(o)'
    BY <1>3, <1>4, LiveStays DEF IteratorInv
  <2> QED BY <1>3, <1>4, <2>1, IteratorStays
<1>5. ASSUME NEW t \in Inserters, InsertStep(t) \/ \E r \in Rows : InsertTuple(t, r)
      PROVE  \A u \in Scanners : IteratorInv(scan[u])'
  <2>0. UNCHANGED scan
    BY <1>5 DEF InsertStep, InsertTuple, LatchFirst, InsertHere, ReadNext, InsertNextPage,
                InsertNewPage, InsertFails
  <2>1. ASSUME DOMAIN heap \subseteq DOMAIN heap', NEW u \in Scanners,
               \A q \in DOMAIN heap : \A i \in DOMAIN heap[q].slots :
                   i \in DOMAIN heap'[q].slots /\ heap'[q].slots[i] = heap[q].slots[i]
        PROVE  IteratorInv(scan[u])'
    <3>1. ASSUME NEW o \in scan[u].owed PROVE IsLive(o)'
      <4>1. IsLive(o)
        BY <1>3 DEF IteratorInv
      <4> QED BY <2>1, <4>1 DEF IsLive, Live, IsDeleted
    <3> QED BY <1>3, <2>0, <2>1, <3>1, IteratorStays
  <2>2. CASE InsertHere(t)
    BY <1>0, <2>1, <2>2, InsertHereChanges
  <2>3. CASE InsertNewPage(t)
    BY <1>0, <2>1, <2>3, InsertNewPageChanges
  <2>4. CASE \/ \E r \in Rows : InsertTuple(t, r)
             \/ LatchFirst(t) \/ ReadNext(t) \/ InsertNextPage(t) \/ InsertFails(t)
    <3>1. UNCHANGED heap
      BY <2>4 DEF InsertTuple, LatchFirst, ReadNext, InsertNextPage, InsertFails
    <3> QED BY <1>4, <2>0, <3>1
  <2> QED BY <1>5, <2>2, <2>3, <2>4 DEF InsertStep
<1>6. ASSUME NEW t \in Scanners, Begin(t) \/ ScanStep(t)
      PROVE  \A u \in Scanners : IteratorInv(scan[u])'
  <2>1. UNCHANGED heap
    BY <1>6 DEF Begin, ScanStep, BeginPage, BeginNext, Open, Advance, Hop
  <2>2. IteratorInv(scan[t])' /\ \A u \in Scanners : u # t => scan'[u] = scan[u]
    BY <1>0, <1>3, <1>6, BeginsOK, ReadsOK DEF ScanStep
  <2> QED BY <1>4, <2>1, <2>2
<1>7. ASSUME NEW p \in DOMAIN heap, NEW i \in DOMAIN heap[p].slots, MarkDelete(p, i)
      PROVE  \A u \in Scanners : IteratorInv(scan[u])'
  <2>1. /\ DOMAIN heap' = DOMAIN heap
        /\ \A q \in DOMAIN heap :
               /\ DOMAIN heap'[q].slots = DOMAIN heap[q].slots
               /\ \A j \in DOMAIN heap[q].slots :
                      <<q, j>> # <<p, i>> => heap'[q].slots[j] = heap[q].slots[j]
    BY <1>0, <1>7, MarkDeleteChanges
  <2>2. ASSUME NEW u \in Scanners
        PROVE  /\ scan'[u].at = scan[u].at /\ scan'[u].page = scan[u].page
               /\ scan'[u].slot = scan[u].slot /\ scan'[u].seen = scan[u].seen
               /\ scan'[u].owed = scan[u].owed \ {<<p, i>>}
    BY <1>7 DEF MarkDelete, Iterator
  <2>3. ASSUME NEW u \in Scanners, NEW o \in scan[u].owed, o # <<p, i>>
        PROVE  IsLive(o)'
    <3>1. IsLive(o)
      BY <1>3 DEF IteratorInv
    <3>2. o = <<o[1], o[2]>>
      BY <3>1 DEF IsLive
    <3> QED BY <2>1, <2>3, <3>1, <3>2 DEF IsLive, Live, IsDeleted
  <2> QED BY <1>3, <2>1, <2>2, <2>3, IteratorStays
<1>8. CASE UNCHANGED vars
  BY <1>4, <1>8 DEF vars
<1> QED BY <1>5, <1>6, <1>7, <1>8 DEF Next

(* A scan returns every row that is in the table from its beginning to its  *)
(* end, once and in chain order, whatever other threads insert and delete   *)
(* meanwhile, provided Begin reads the link of a page that is still in its  *)
(* frame: ~ Evicts is what TableHeap::Begin relies on when it reads the     *)
(* link after it has unpinned the page.                                     *)
THEOREM ScansReturnEverything ==
    ASSUME ~ Evicts
    PROVE  Spec => []ScanComplete
<1>1. Init => ScanInv
  <2> SUFFICES ASSUME Init PROVE IteratorsInv
    BY ReachInit DEF ScanInv
  <2> QED BY NothingReturned DEF Init, Iterator, IteratorsInv, IteratorInv
<1>2. ScanInv => ScanComplete
  <2> SUFFICES ASSUME ScanInv, NEW t \in Scanners
               PROVE  /\ scan[t].at = "end" => scan[t].owed \subseteq Returned(scan[t].seen)
                      /\ InOrder(scan[t].seen)
    BY DEF ScanComplete, InOrder, Returned
  <2> QED BY DEF ScanInv, IteratorsInv, IteratorInv
<1> QED BY <1>1, <1>2, IteratorsStep, PTL DEF Spec
=============================================================================
