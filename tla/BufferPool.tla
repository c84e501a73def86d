----------------------------- MODULE BufferPool -----------------------------
(***************************************************************************)
(* BufferPoolManagerInstance over its page table, its LRU-K replacer and    *)
(* the database file. A method that holds latch_ is one step; FlushPgImp    *)
(* takes no latch, so its lookup and its write are two steps; FlushAllPgs   *)
(* holds latch_ for a loop of page writes, during which clients go on       *)
(* changing the pages they have pinned.                                      *)
(*                                                                         *)
(* A client is one NewPage/FetchPage ... UnpinPage bracket: a thread that   *)
(* holds several pins is several clients. As every caller in src does, a    *)
(* client that changed a page, or created it, unpins it dirty.              *)
(***************************************************************************)
EXTENDS LRUK

CONSTANTS Clients, MaxPages, Data, Zero, NoPage,
          NoFrame,       \* a page that is not in the page table
          Absent,        \* a page never written to the file
          PinnedFlush    \* callers of FlushPage hold a pin on the page

ASSUME BufferPoolAssumption ==
    /\ IsFiniteSet(Clients)
    /\ MaxPages \in Nat
    /\ Zero \in Data
    /\ Absent \notin Data
    /\ NoFrame \notin Frames
    /\ NoPage \notin 0..(MaxPages - 1)
    /\ PinnedFlush \in BOOLEAN

PageIds == 0..(MaxPages - 1)
INVALID_PAGE_ID == -1

VARIABLES
    pages,         \* pages_: the frames
    page_table,    \* page_table_, a map (ExtendibleHashTable implements it)
    free_list,     \* free_list_, front first
    next_page_id,  \* next_page_id_
    disk,          \* the database file
    flush_cursor,  \* next frame of a running FlushAllPgs, PoolSize if none runs
    pinned,        \* the page each client holds a pin on
    wrote,         \* whether the client changed that page
    flushing,      \* the <<page, frame>> of a client between Find and WritePage
    touched        \* history: pages changed since the last FlushAllPgs began

vars == <<pages, page_table, free_list, replacer, next_page_id, disk,
          flush_cursor, pinned, wrote, flushing, touched>>

NoFlush == <<>>

FrameType == [page_id : PageIds \cup {INVALID_PAGE_ID}, pin_count : 0..Cardinality(Clients),
              is_dirty : BOOLEAN, data : Data]

TypeOK ==
    /\ pages \in [Frames -> FrameType]
    /\ page_table \in [PageIds -> Frames \cup {NoFrame}]
    /\ free_list \in Seq(Frames)
    /\ replacer \in ReplacerType
    /\ next_page_id \in 0..MaxPages
    /\ disk \in [PageIds -> Data \cup {Absent}]
    /\ flush_cursor \in 0..PoolSize
    /\ pinned \in [Clients -> PageIds \cup {NoPage}]
    /\ wrote \in [Clients -> BOOLEAN]
    /\ flushing \in [Clients -> (PageIds \X Frames) \cup {NoFlush}]
    /\ touched \subseteq PageIds

(* The constructor; the file may be left over from an earlier process *)
Init ==
    /\ pages = [f \in Frames |-> [page_id |-> INVALID_PAGE_ID, pin_count |-> 0,
                                  is_dirty |-> FALSE, data |-> Zero]]
    /\ page_table = [p \in PageIds |-> NoFrame]
    /\ free_list = [i \in 1..PoolSize |-> i - 1]
    /\ replacer = NewReplacer
    /\ next_page_id = 0
    /\ disk \in [PageIds -> Data \cup {Absent}]
    /\ flush_cursor = PoolSize
    /\ pinned = [c \in Clients |-> NoPage]
    /\ wrote = [c \in Clients |-> FALSE]
    /\ flushing = [c \in Clients |-> NoFlush]
    /\ touched = {}

LatchFree == flush_cursor = PoolSize
Idle(c) == pinned[c] = NoPage /\ flushing[c] = NoFlush
Holds(c) == pinned[c] # NoPage /\ flushing[c] = NoFlush
-----------------------------------------------------------------------------

(* DiskManager::ReadPage into a buffer holding old: past the end of the     *)
(* file it leaves the buffer alone.                                         *)
ReadPage(d, p, old) == IF d[p] = Absent THEN old ELSE d[p]

(* The scan for pin_count_ == 0 that decides between a frame and nullptr *)
AnyUnpinned == \E f \in Frames : pages[f].pin_count = 0

(* Where the frame for a page comes from: the front of the free list, or    *)
(* the replacer's victim. Evict's result is not tested: when it fails,      *)
(* frame_id is uninitialised and may be anything.                           *)
FromFreeList(f) == free_list # <<>> /\ f = Head(free_list)
FromReplacer(f) == free_list = <<>> /\ (CanEvict(replacer) => IsVictim(replacer, f))

(* Mutant: the victim's contents are dropped *)
NoWriteBack(f) == disk

(* The frame's old page leaves: written back if dirty, then unmapped.       *)
WriteBack(f) ==
    IF free_list = <<>> /\ pages[f].is_dirty
    THEN [disk EXCEPT ![pages[f].page_id] = pages[f].data]
    ELSE disk

Unmap(f) ==
    IF free_list = <<>> THEN [page_table EXCEPT ![pages[f].page_id] = NoFrame] ELSE page_table

(* ResetMemory, done for an evicted frame only *)
Blank(f) == IF free_list = <<>> THEN Zero ELSE pages[f].data

(* The replacer after Evict (if it was called), RecordAccess, SetEvictable  *)
PinNew(f) ==
    LET r == IF free_list = <<>> /\ CanEvict(replacer) THEN EvictFrame(replacer, f) ELSE replacer
    IN  SetEvictable(RecordAccess(r, f), f, FALSE)

(* Frame f takes page p with contents d, pinned once by client c *)
Install(c, f, p, d) ==
    /\ pages' = [pages EXCEPT ![f] = [page_id |-> p, pin_count |-> 1, data |-> d,
                   is_dirty |-> IF free_list = <<>> THEN FALSE ELSE pages[f].is_dirty]]
    /\ page_table' = [Unmap(f) EXCEPT ![p] = f]
    /\ free_list' = IF free_list = <<>> THEN <<>> ELSE Tail(free_list)
    /\ replacer' = PinNew(f)
    /\ disk' = WriteBack(f)
    /\ pinned' = [pinned EXCEPT ![c] = p]

NewPg(c, f) ==
    /\ LatchFree /\ Idle(c)
    /\ AnyUnpinned
    /\ next_page_id < MaxPages
    /\ FromFreeList(f) \/ FromReplacer(f)
    /\ next_page_id' = next_page_id + 1
    /\ Install(c, f, next_page_id, Blank(f))
    /\ wrote' = [wrote EXCEPT ![c] = TRUE]
    /\ touched' = touched \cup {next_page_id}
    /\ UNCHANGED <<flush_cursor, flushing>>

(* Mutant: a hit does not take a pin *)
FetchHitNoPin(c, p) ==
    /\ LatchFree /\ Idle(c)
    /\ page_table[p] # NoFrame
    /\ replacer' = SetEvictable(RecordAccess(replacer, page_table[p]), page_table[p], FALSE)
    /\ pinned' = [pinned EXCEPT ![c] = p]
    /\ UNCHANGED <<pages, page_table, free_list, next_page_id, disk, flush_cursor, wrote,
                   flushing, touched>>

(* Mutant: a hit leaves the frame evictable *)
FetchHitStaysEvictable(c, p) ==
    /\ LatchFree /\ Idle(c)
    /\ page_table[p] # NoFrame
    /\ pages' = [pages EXCEPT ![page_table[p]].pin_count = @ + 1]
    /\ replacer' = RecordAccess(replacer, page_table[p])
    /\ pinned' = [pinned EXCEPT ![c] = p]
    /\ UNCHANGED <<page_table, free_list, next_page_id, disk, flush_cursor, wrote,
                   flushing, touched>>

FetchHit(c, p) ==
    LET f == page_table[p] IN
    /\ LatchFree /\ Idle(c)
    /\ f # NoFrame
    /\ pages' = [pages EXCEPT ![f].pin_count = @ + 1]
    /\ replacer' = SetEvictable(RecordAccess(replacer, f), f, FALSE)
    /\ pinned' = [pinned EXCEPT ![c] = p]
    /\ UNCHANGED <<page_table, free_list, next_page_id, disk, flush_cursor, wrote, flushing,
                   touched>>

FetchMiss(c, p, f) ==
    /\ LatchFree /\ Idle(c)
    /\ p < next_page_id
    /\ page_table[p] = NoFrame
    /\ AnyUnpinned
    /\ FromFreeList(f) \/ FromReplacer(f)
    /\ Install(c, f, p, ReadPage(WriteBack(f), p, Blank(f)))
    /\ UNCHANGED <<next_page_id, flush_cursor, wrote, flushing, touched>>

(* The client's own stores into GetData() *)
ClientWrite(c, d) ==
    /\ Holds(c)
    /\ pages' = [pages EXCEPT ![page_table[pinned[c]]].data = d]
    /\ wrote' = [wrote EXCEPT ![c] = TRUE]
    /\ touched' = touched \cup {pinned[c]}
    /\ UNCHANGED <<page_table, free_list, replacer, next_page_id, disk,
                   flush_cursor, pinned, flushing>>

(* Mutant: the pin is not given back *)
UnpinKeepsPin(c) ==
    /\ LatchFree /\ Holds(c)
    /\ pages' = [pages EXCEPT ![page_table[pinned[c]]].is_dirty = @ \/ wrote[c]]
    /\ pinned' = [pinned EXCEPT ![c] = NoPage]
    /\ wrote' = [wrote EXCEPT ![c] = FALSE]
    /\ UNCHANGED <<page_table, free_list, replacer, next_page_id, disk, flush_cursor,
                   flushing, touched>>

(* Mutant: the last unpin does not make the frame evictable *)
UnpinNotEvictable(c) ==
    LET f == page_table[pinned[c]] IN
    /\ LatchFree /\ Holds(c)
    /\ pages' = [pages EXCEPT ![f].pin_count = @ - 1, ![f].is_dirty = @ \/ wrote[c]]
    /\ pinned' = [pinned EXCEPT ![c] = NoPage]
    /\ wrote' = [wrote EXCEPT ![c] = FALSE]
    /\ UNCHANGED <<page_table, free_list, replacer, next_page_id, disk, flush_cursor,
                   flushing, touched>>

UnpinPg(c) ==
    LET f == page_table[pinned[c]] IN
    /\ LatchFree /\ Holds(c)
    /\ f # NoFrame
    /\ pages[f].pin_count > 0
    /\ pages' = [pages EXCEPT ![f].pin_count = @ - 1, ![f].is_dirty = @ \/ wrote[c]]
    /\ replacer' = IF pages[f].pin_count = 1 THEN SetEvictable(replacer, f, TRUE) ELSE replacer
    /\ pinned' = [pinned EXCEPT ![c] = NoPage]
    /\ wrote' = [wrote EXCEPT ![c] = FALSE]
    /\ UNCHANGED <<page_table, free_list, next_page_id, disk, flush_cursor, flushing,
                   touched>>

(* FlushPgImp, which takes no latch: page_table_->Find ... *)
FlushFind(c, p) ==
    /\ flushing[c] = NoFlush
    /\ PinnedFlush => pinned[c] = p
    /\ page_table[p] # NoFrame
    /\ flushing' = [flushing EXCEPT ![c] = <<p, page_table[p]>>]
    /\ UNCHANGED <<pages, page_table, free_list, replacer, next_page_id, disk,
                   flush_cursor, pinned, wrote, touched>>

(* ... then disk_manager_->WritePage; the dirty flag is left as it was *)
FlushWrite(c) ==
    /\ flushing[c] # NoFlush
    /\ disk' = [disk EXCEPT ![flushing[c][1]] = pages[flushing[c][2]].data]
    /\ flushing' = [flushing EXCEPT ![c] = NoFlush]
    /\ UNCHANGED <<pages, page_table, free_list, replacer, next_page_id,
                   flush_cursor, pinned, wrote, touched>>

FlushAllPgs ==
    /\ LatchFree
    /\ flush_cursor' = 0
    /\ touched' = {}
    /\ UNCHANGED <<pages, page_table, free_list, replacer, next_page_id, disk,
                   pinned, wrote, flushing>>

(* Mutant: pages whose dirty flag is not set are skipped *)
FlushAllStepDirty ==
    LET p == pages[flush_cursor].page_id IN
    /\ flush_cursor < PoolSize
    /\ disk' = IF p # INVALID_PAGE_ID /\ pages[flush_cursor].is_dirty
               THEN [disk EXCEPT ![p] = pages[flush_cursor].data] ELSE disk
    /\ flush_cursor' = flush_cursor + 1
    /\ UNCHANGED <<pages, page_table, free_list, replacer, next_page_id,
                   pinned, wrote, flushing, touched>>

FlushAllStep ==
    LET p == pages[flush_cursor].page_id IN
    /\ flush_cursor < PoolSize
    /\ disk' = IF p # INVALID_PAGE_ID /\ page_table[p] # NoFrame
               THEN [disk EXCEPT ![p] = pages[page_table[p]].data] ELSE disk
    /\ flush_cursor' = flush_cursor + 1
    /\ UNCHANGED <<pages, page_table, free_list, replacer, next_page_id,
                   pinned, wrote, flushing, touched>>

(* Mutant: the page table keeps the deleted page *)
DeletePgKeepsEntry(p) ==
    LET f == page_table[p] IN
    /\ LatchFree
    /\ f # NoFrame
    /\ pages[f].pin_count <= 0
    /\ replacer' = RemoveFrame(replacer, f)
    /\ pages' = [pages EXCEPT ![f] = [page_id |-> INVALID_PAGE_ID, pin_count |-> 0,
                                      is_dirty |-> FALSE, data |-> Zero]]
    /\ free_list' = Append(free_list, f)
    /\ UNCHANGED <<page_table, next_page_id, disk, flush_cursor, pinned, wrote, flushing, touched>>

DeletePg(p) ==
    LET f == page_table[p] IN
    /\ LatchFree
    /\ f # NoFrame
    /\ pages[f].pin_count <= 0
    /\ ~ RemoveThrows(replacer, f)
    /\ replacer' = RemoveFrame(replacer, f)
    /\ pages' = [pages EXCEPT ![f] = [page_id |-> INVALID_PAGE_ID, pin_count |-> 0,
                                      is_dirty |-> FALSE, data |-> Zero]]
    /\ page_table' = [page_table EXCEPT ![p] = NoFrame]
    /\ free_list' = Append(free_list, f)
    /\ UNCHANGED <<next_page_id, disk, flush_cursor, pinned, wrote, flushing, touched>>

Next ==
    \/ \E c \in Clients, f \in Frames : NewPg(c, f)
    \/ \E c \in Clients, p \in PageIds : FetchHit(c, p)
    \/ \E c \in Clients, p \in PageIds, f \in Frames : FetchMiss(c, p, f)
    \/ \E c \in Clients, d \in Data : ClientWrite(c, d)
    \/ \E c \in Clients : UnpinPg(c)
    \/ \E c \in Clients, p \in PageIds : FlushFind(c, p)
    \/ \E c \in Clients : FlushWrite(c)
    \/ FlushAllPgs
    \/ FlushAllStep
    \/ \E p \in PageIds : DeletePg(p)

Spec == Init /\ [][Next]_vars
-----------------------------------------------------------------------------

Mapped == {f \in Frames : pages[f].page_id # INVALID_PAGE_ID}
Holders(p) == {c \in Clients : pinned[c] = p}

(* What the file holds for a page, and what a client that pins it sees *)
Stored(p) == IF disk[p] = Absent THEN Zero ELSE disk[p]
Content == [p \in PageIds |-> IF page_table[p] # NoFrame
                              THEN pages[page_table[p]].data ELSE Stored(p)]

(* The page table and the frames' own page ids name the same pages: no page *)
(* in two frames, no frame reachable under a page it no longer holds.       *)
PageTableMatchesFrames ==
    \A p \in PageIds, f \in Frames : page_table[p] = f <=> pages[f].page_id = p

(* Every frame is either on the free list, once, blank and unknown to the   *)
(* replacer, or holds an allocated page.                                    *)
FreeOrMapped ==
    /\ IsInjective(free_list)
    /\ ToSet(free_list) = Frames \ Mapped
    /\ \A f \in Frames \ Mapped : pages[f] = [page_id |-> INVALID_PAGE_ID, pin_count |-> 0,
                                              is_dirty |-> FALSE, data |-> Zero]
    /\ \A f \in Mapped : pages[f].page_id < next_page_id

(* A page with an open bracket stays in the pool, and its pin count is the  *)
(* number of open brackets on it.                                           *)
PinsAreHeld ==
    /\ \A c \in Clients : pinned[c] # NoPage => page_table[pinned[c]] # NoFrame
    /\ \A f \in Mapped : pages[f].pin_count = Cardinality(Holders(pages[f].page_id))

(* The replacer tracks exactly the mapped frames and may evict exactly the  *)
(* unpinned ones, so DeletePg's Remove never throws.                        *)
ReplacerTracksPins ==
    /\ ReplacerOK(replacer)
    /\ \A f \in Frames : replacer.access_count[f] # 0 <=> f \in Mapped
    /\ \A f \in Mapped : replacer.is_evictable[f] <=> pages[f].pin_count = 0

(* NewPgImp and FetchPgImp ignore Evict's result (their assertion on it is  *)
(* commented out): it never fails once some frame has pin count 0.          *)
EvictNeverFails == AnyUnpinned /\ free_list = <<>> => CanEvict(replacer)

(* A page not changed since the last FlushAllPgs began is in the file as    *)
(* soon as that loop has passed its frame, whatever clients do meanwhile:   *)
(* what a checkpoint relies on.                                             *)
FlushAllDurable ==
    \A p \in PageIds \ touched :
        page_table[p] = NoFrame \/ page_table[p] < flush_cursor => Stored(p) = Content[p]

(* Contents survive eviction, flushing and refetching: the buffer pool      *)
(* implements the page store of its clients.                                *)
Store == INSTANCE PageStore WITH content <- Content
ImplementsPageStore == Store!Spec

(* Whatever is written to a page of the file is that page's own current     *)
(* contents ("Flush the target page to disk",                               *)
(* buffer_pool_manager_instance.h:110).                                     *)
WritesOwnContents ==
    [][\A p \in PageIds : disk'[p] # disk[p] => disk'[p] = Content[p]]_vars
=============================================================================
