------------------------------ MODULE TableHeap ------------------------------
(***************************************************************************)
(* TableHeap, TablePage and TableIterator: a table's rows in a chain of     *)
(* slotted pages, under concurrent InsertTuple, MarkDelete and sequential   *)
(* scans, each page guarded by its latch. A step is what a thread does      *)
(* between taking a latch and releasing it; only InsertTuple keeps one      *)
(* while it waits for another, so owner names the inserter that has a page. *)
(*                                                                         *)
(* ApplyDelete has no caller: a slot once used is never empty again, and    *)
(* the search for an empty slot in TablePage::InsertTuple never finds one.  *)
(* UpdateTuple is left out: it copies the old row to a null pointer.        *)
(***************************************************************************)
EXTENDS Integers, Sequences, FiniteSets

CONSTANTS Inserters, Scanners,
          Rows, RowSize,  \* what is inserted, and the bytes each needs
          PageSize,       \* BUSTUB_PAGE_SIZE
          Header,         \* SIZE_TABLE_PAGE_HEADER
          SlotSize,       \* SIZE_TUPLE
          MaxPages,       \* bound: pages the heap may grow to
          Evicts,         \* a frame that is not pinned may get another page
          None            \* INVALID_PAGE_ID, no thread, or no RID

ASSUME HeapAssumption ==
    /\ RowSize \in [Rows -> Nat \ {0}]
    /\ PageSize \in Nat /\ Header \in Nat /\ SlotSize \in Nat \ {0}
    /\ Header + SlotSize < PageSize
    /\ MaxPages \in Nat /\ Evicts \in BOOLEAN
    /\ None \notin Nat /\ None \notin Inserters

VARIABLES
    heap,   \* the pages: free space pointer, slots, next page
    owner,  \* the inserter that has each page latched
    ins,    \* the InsertTuple call of each inserter
    rid,    \* the RID each row was inserted under
    scan    \* the iterator of each scanner, what it returned and what it owes

vars == <<heap, owner, ins, rid, scan>>

First == 1

PageOf(free, slots, next) == [free |-> free, slots |-> slots, next |-> next]
NewPage == PageOf(PageSize, <<>>, None)
Inserting(at, row, page, next) == [at |-> at, row |-> row, page |-> page, next |-> next]
NotInserting == Inserting("idle", None, None, None)
Iterator(at, page, slot, seen, owed) ==
    [at |-> at, page |-> page, slot |-> slot, seen |-> seen, owed |-> owed]

Init ==
    /\ heap = [p \in {First} |-> NewPage]
    /\ owner = [p \in {First} |-> None]
    /\ ins = [t \in Inserters |-> NotInserting]
    /\ rid = [r \in Rows |-> None]
    /\ scan = [t \in Scanners |-> Iterator("idle", None, 0, <<>>, {})]

GetFreeSpaceRemaining(p) == heap[p].free - Header - SlotSize * Len(heap[p].slots)

(* Mutant: the new slot's own bytes are forgotten *)
FitsWithoutSlot(p, r) == GetFreeSpaceRemaining(p) >= RowSize[r]

Fits(p, r) == GetFreeSpaceRemaining(p) >= RowSize[r] + SlotSize

IsDeleted(p, i) == heap[p].slots[i].deleted
-----------------------------------------------------------------------------

(* tuple.size_ + 32 > BUSTUB_PAGE_SIZE: 32 is a header and a slot *)
TooLarge(r) == RowSize[r] + Header + SlotSize > PageSize

(* InsertTuple; a row that is too large is refused at once *)
InsertTuple(t, r) ==
    /\ ins[t].at = "idle"
    /\ rid[r] = None
    /\ \A u \in Inserters : ins[u].row # r   \* a row stands for one call
    /\ ~ TooLarge(r)
    /\ ins' = [ins EXCEPT ![t] = Inserting("wait", r, First, None)]
    /\ UNCHANGED <<heap, owner, rid, scan>>

(* Mutant: the latch does not keep other inserters out *)
LatchFirstShared(t) ==
    /\ ins[t].at = "wait"
    /\ owner' = [owner EXCEPT ![First] = t]
    /\ ins' = [ins EXCEPT ![t] = Inserting("page", ins[t].row, First, None)]
    /\ UNCHANGED <<heap, rid, scan>>

LatchFirst(t) ==
    /\ ins[t].at = "wait"
    /\ owner[First] = None
    /\ owner' = [owner EXCEPT ![First] = t]
    /\ ins' = [ins EXCEPT ![t] = Inserting("page", ins[t].row, First, None)]
    /\ UNCHANGED <<heap, rid, scan>>

(* Mutant: a slot that is only marked deleted is used again *)
InsertHereReuses(t) ==
    LET p == ins[t].page
        r == ins[t].row
        gone == {i \in DOMAIN heap[p].slots : IsDeleted(p, i)}
        i == IF gone = {} THEN Len(heap[p].slots) + 1 ELSE CHOOSE j \in gone : TRUE
    IN  /\ ins[t].at = "page"
        /\ Fits(p, r)
        /\ heap' = [heap EXCEPT
               ![p].free = @ - RowSize[r],
               ![p].slots = [j \in 1..(IF gone = {} THEN i ELSE Len(@)) |->
                                IF j = i THEN [row |-> r, deleted |-> FALSE] ELSE @[j]]]
        /\ rid' = [rid EXCEPT ![r] = <<p, i>>]
        /\ owner' = [owner EXCEPT ![p] = None]
        /\ ins' = [ins EXCEPT ![t] = NotInserting]
        /\ UNCHANGED scan

(* TablePage::InsertTuple finds room, and the heap's loop ends *)
InsertHere(t) ==
    LET p == ins[t].page
        r == ins[t].row
    IN  /\ ins[t].at = "page"
        /\ Fits(p, r)
        /\ heap' = [heap EXCEPT ![p] = PageOf(@.free - RowSize[r],
                                              Append(@.slots, [row |-> r, deleted |-> FALSE]),
                                              @.next)]
        /\ rid' = [rid EXCEPT ![r] = <<p, Len(heap[p].slots) + 1>>]
        /\ owner' = [owner EXCEPT ![p] = None]
        /\ ins' = [ins EXCEPT ![t] = NotInserting]
        /\ UNCHANGED scan

(* No room: the id of the next page is read, still under the latch *)
ReadNext(t) ==
    LET p == ins[t].page IN
    /\ ins[t].at = "page"
    /\ ~ Fits(p, ins[t].row)
    /\ ins' = [ins EXCEPT ![t] = Inserting("full", ins[t].row, p, heap[p].next)]
    /\ UNCHANGED <<heap, owner, rid, scan>>

(* Mutant: the page that was full stays latched *)
InsertNextPageKeeps(t) ==
    LET n == ins[t].next IN
    /\ ins[t].at = "full"
    /\ n # None
    /\ owner[n] = None
    /\ owner' = [owner EXCEPT ![n] = t]
    /\ ins' = [ins EXCEPT ![t] = Inserting("page", ins[t].row, n, None)]
    /\ UNCHANGED <<heap, rid, scan>>

(* The next page is latched before this one is unlatched *)
InsertNextPage(t) ==
    LET n == ins[t].next IN
    /\ ins[t].at = "full"
    /\ n # None
    /\ owner[n] = None
    /\ owner' = [owner EXCEPT ![n] = t, ![ins[t].page] = None]
    /\ ins' = [ins EXCEPT ![t] = Inserting("page", ins[t].row, n, None)]
    /\ UNCHANGED <<heap, rid, scan>>

(* Mutant: the new page is not linked *)
InsertNewPageUnlinked(t) ==
    LET p == ins[t].page
        n == Cardinality(DOMAIN heap) + 1
    IN  /\ ins[t].at = "full"
        /\ ins[t].next = None
        /\ n <= MaxPages
        /\ heap' = [q \in DOMAIN heap \cup {n} |->
                       IF q = n THEN NewPage ELSE heap[q]]
        /\ owner' = [q \in DOMAIN owner \cup {n} |->
                       CASE q = n -> t [] q = p -> None [] OTHER -> owner[q]]
        /\ ins' = [ins EXCEPT ![t] = Inserting("page", ins[t].row, n, None)]
        /\ UNCHANGED <<rid, scan>>

(* A new page is latched, linked after this one and initialised *)
InsertNewPage(t) ==
    LET p == ins[t].page
        n == Cardinality(DOMAIN heap) + 1
    IN  /\ ins[t].at = "full"
        /\ ins[t].next = None
        /\ n <= MaxPages
        /\ heap' = [q \in DOMAIN heap \cup {n} |->
                       CASE q = n -> NewPage
                         [] q = p -> PageOf(heap[p].free, heap[p].slots, n)
                         [] OTHER -> heap[q]]
        /\ owner' = [q \in DOMAIN owner \cup {n} |->
                       CASE q = n -> t [] q = p -> None [] OTHER -> owner[q]]
        /\ ins' = [ins EXCEPT ![t] = Inserting("page", ins[t].row, n, None)]
        /\ UNCHANGED <<rid, scan>>

(* NewPage found every frame pinned: the call returns false *)
InsertFails(t) ==
    /\ ins[t].at = "full"
    /\ ins[t].next = None
    /\ owner' = [owner EXCEPT ![ins[t].page] = None]
    /\ ins' = [ins EXCEPT ![t] = NotInserting]
    /\ UNCHANGED <<heap, rid, scan>>

(* MarkDelete, by a thread that read the RID in a scan of its own; a scan   *)
(* that is under way need not return the row any more.                      *)
MarkDelete(p, i) ==
    /\ owner[p] = None
    /\ ~ IsDeleted(p, i)
    /\ heap' = [heap EXCEPT ![p].slots[i].deleted = TRUE]
    /\ scan' = [t \in Scanners |->
                   Iterator(scan[t].at, scan[t].page, scan[t].slot, scan[t].seen,
                            scan[t].owed \ {<<p, i>>})]
    /\ UNCHANGED <<owner, ins, rid>>
-----------------------------------------------------------------------------

Live(p) == {i \in DOMAIN heap[p].slots : ~ IsDeleted(p, i)}

(* GetFirstTupleRid (after slot 0) and GetNextTupleRid *)
LiveAfter(p, slot) == {i \in Live(p) : i > slot}
Smallest(S) == CHOOSE i \in S : \A j \in S : i <= j

(* Iterator t at another place, with the rows it has returned so far *)
Move(t, at, page, slot, seen) ==
    scan' = [scan EXCEPT ![t] = Iterator(at, page, slot, seen, scan[t].owed)]

(* SeqScanExecutor::Init calls TableHeap::Begin *)
Begin(t) ==
    /\ scan[t].at = "idle"
    /\ LET rows == UNION {{p} \X Live(p) : p \in DOMAIN heap}
       IN  scan' = [scan EXCEPT ![t] = Iterator("begin", First, 0, <<>>, rows)]
    /\ UNCHANGED <<heap, owner, ins, rid>>

(* One page of Begin's loop, under its latch *)
BeginPage(t) ==
    LET p == scan[t].page IN
    /\ scan[t].at = "begin"
    /\ owner[p] = None
    /\ IF Live(p) # {} THEN Move(t, "open", p, Smallest(Live(p)), <<>>)
                       ELSE Move(t, "unpinned", p, 0, <<>>)
    /\ UNCHANGED <<heap, owner, ins, rid>>

(* The next page id is read after the page was unpinned: the frame may have *)
(* got another page by then, here another one of the table.                 *)
NextRead(p) == IF Evicts THEN {heap[q].next : q \in DOMAIN heap} ELSE {heap[p].next}

BeginNext(t) ==
    /\ scan[t].at = "unpinned"
    /\ \E n \in NextRead(scan[t].page) :
           Move(t, IF n = None THEN "end" ELSE "begin", n, 0, <<>>)
    /\ UNCHANGED <<heap, owner, ins, rid>>

(* TableIterator's constructor reads the row again and throws if it is gone *)
Open(t) ==
    LET p == scan[t].page IN
    /\ scan[t].at = "open"
    /\ owner[p] = None
    /\ Move(t, IF IsDeleted(p, scan[t].slot) THEN "threw" ELSE "row", p, scan[t].slot, <<>>)
    /\ UNCHANGED <<heap, owner, ins, rid>>

(* Mutant: a page with no live row ends the scan *)
ArriveStops(t, p, after, seen) ==
    IF LiveAfter(p, after) # {} THEN Move(t, "row", p, Smallest(LiveAfter(p, after)), seen)
    ELSE IF heap[p].next # None /\ after # 0 THEN Move(t, "hop", heap[p].next, 0, seen)
    ELSE Move(t, "end", None, 0, seen)

(* The row the iterator stands on next: in this page, or the loop goes on   *)
(* to the next page, or there is none.                                      *)
Arrive(t, p, after, seen) ==
    IF LiveAfter(p, after) # {} THEN Move(t, "row", p, Smallest(LiveAfter(p, after)), seen)
    ELSE IF heap[p].next # None THEN Move(t, "hop", heap[p].next, 0, seen)
    ELSE Move(t, "end", None, 0, seen)

(* SeqScanExecutor::Next returns the row and advances the iterator *)
Advance(t) ==
    LET p == scan[t].page IN
    /\ scan[t].at = "row"
    /\ owner[p] = None
    /\ Arrive(t, p, scan[t].slot, Append(scan[t].seen, <<p, scan[t].slot>>))
    /\ UNCHANGED <<heap, owner, ins, rid>>

(* operator++ has unlatched the page before it latches the next *)
Hop(t) ==
    /\ scan[t].at = "hop"
    /\ owner[scan[t].page] = None
    /\ Arrive(t, scan[t].page, 0, scan[t].seen)
    /\ UNCHANGED <<heap, owner, ins, rid>>

InsertStep(t) ==
    \/ LatchFirst(t) \/ InsertHere(t) \/ ReadNext(t)
    \/ InsertNextPage(t) \/ InsertNewPage(t) \/ InsertFails(t)
ScanStep(t) == BeginPage(t) \/ BeginNext(t) \/ Open(t) \/ Advance(t) \/ Hop(t)

Next ==
    \/ \E t \in Inserters : InsertStep(t) \/ \E r \in Rows : InsertTuple(t, r)
    \/ \E t \in Scanners : Begin(t) \/ ScanStep(t)
    \/ \E p \in DOMAIN heap : \E i \in DOMAIN heap[p].slots : MarkDelete(p, i)

(* A thread inside a call keeps running, and a latch that is free again and *)
(* again is granted in the end.                                             *)
Fairness == /\ \A t \in Inserters : SF_vars(InsertStep(t))
            /\ \A t \in Scanners : SF_vars(ScanStep(t))

Spec == Init /\ [][Next]_vars /\ Fairness
-----------------------------------------------------------------------------

(* The unsigned free space of a page never wraps *)
TypeOK ==
    /\ DOMAIN owner = DOMAIN heap
    /\ \A p \in DOMAIN heap :
           /\ heap[p].free \in 0..PageSize /\ GetFreeSpaceRemaining(p) \in Nat
           /\ heap[p].next \in DOMAIN heap \cup {None}
           /\ heap[p].slots \in Seq([row : Rows, deleted : BOOLEAN])
           /\ owner[p] \in Inserters \cup {None}
    /\ \A t \in Inserters : ins[t].at \in {"idle", "wait", "page", "full"}
    /\ \A t \in Scanners :
           scan[t].at \in {"idle", "begin", "open", "unpinned", "row", "hop", "end", "threw"}

(* The pages that following next from the first one reaches *)
Chain ==
    LET after[n \in 1..Cardinality(DOMAIN heap)] ==
            IF n = 1 THEN {First}
            ELSE after[n - 1] \cup ({heap[p].next : p \in after[n - 1]} \ {None})
    IN  after[Cardinality(DOMAIN heap)]

(* A row whose InsertTuple has returned has its slot on a page of the       *)
(* chain, where every later scan finds it.                                  *)
InsertedRowsReachable ==
    \A r \in Rows : rid[r] # None =>
        rid[r][1] \in Chain /\ rid[r][2] \in DOMAIN heap[rid[r][1]].slots

(* A scan that ends has returned every row that was in the table from its   *)
(* beginning to its end, each row once and in chain order, however many     *)
(* rows were inserted or deleted meanwhile.                                 *)
ScanComplete ==
    \A t \in Scanners :
        /\ scan[t].at = "end" =>
               \A r \in scan[t].owed : \E n \in DOMAIN scan[t].seen : scan[t].seen[n] = r
        /\ \A m, n \in DOMAIN scan[t].seen : m < n =>
               \/ scan[t].seen[m][1] < scan[t].seen[n][1]
               \/ /\ scan[t].seen[m][1] = scan[t].seen[n][1]
                  /\ scan[t].seen[m][2] < scan[t].seen[n][2]

(* Two inserters that reach the end of the chain together do not both       *)
(* append: a link, once set, is never overwritten, which would lose the     *)
(* page it led to and all pages after that.                                 *)
LinksStay ==
    [][\A p \in DOMAIN heap : heap[p].next # None => heap'[p].next = heap[p].next]_vars

(* A RID never comes to mean another row, so one read before a latch was    *)
(* released, or kept in an index, can only find its own row or none.        *)
RidNeverReused ==
    [][\A p \in DOMAIN heap : \A i \in DOMAIN heap[p].slots :
           /\ heap'[p].slots[i].row = heap[p].slots[i].row
           /\ IsDeleted(p, i) => heap'[p].slots[i].deleted]_vars

(* Taking latches hand over hand along the chain cannot deadlock:           *)
(* InsertTuple returns and every scan ends.                                 *)
CallsEnd ==
    /\ \A t \in Inserters : ins[t].at # "idle" ~> ins[t].at = "idle"
    /\ \A t \in Scanners : scan[t].at # "idle" ~> scan[t].at \in {"end", "threw"}
=============================================================================
