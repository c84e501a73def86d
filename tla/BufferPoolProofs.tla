-------------------------- MODULE BufferPoolProofs --------------------------
(****************************************************************************)
(* The buffer pool's bookkeeping, for every pool size, k, number of pages   *)
(* and number of clients. The invariant is the conjunction of the type and  *)
(* the four bookkeeping invariants of BufferPool: none of them is inductive *)
(* alone, because a frame is taken from the free list or the replacer, is   *)
(* found through the page table and is protected by its pin count.          *)
(*                                                                          *)
(* The second part adds what the frames and the file hold. For callers of   *)
(* FlushPage that have the page pinned (src has no caller of it), the pool  *)
(* implements PageStore and writes only a page's own contents.              *)
(****************************************************************************)
EXTENDS BufferPool, LRUKReplacerProofs

BookInv ==
    /\ TypeOK
    /\ PageTableMatchesFrames
    /\ FreeOrMapped
    /\ PinsAreHeld
    /\ ReplacerTracksPins

(* The clients that hold a page are finitely many, so a pin count can equal their number *)
LEMMA HoldersFinite ==
    ASSUME NEW p
    PROVE  /\ IsFiniteSet(Holders(p))
           /\ Cardinality(Holders(p)) \in 0..Cardinality(Clients)
           /\ Cardinality(Clients) \in Nat
<1>1. IsFiniteSet(Clients) /\ Cardinality(Clients) \in Nat
  BY BufferPoolAssumption, FS_CardinalityType
<1>2. IsFiniteSet(Holders(p)) /\ Cardinality(Holders(p)) <= Cardinality(Clients)
  BY <1>1, FS_Subset DEF Holders
<1> QED BY <1>1, <1>2, FS_CardinalityType

(* An unpinned frame outside the free list is one Evict can find *)
LEMMA BookImpliesEvict == BookInv => EvictNeverFails
<1> SUFFICES ASSUME BookInv, AnyUnpinned, free_list = <<>> PROVE CanEvict(replacer)
  BY DEF EvictNeverFails
<1>1. PICK f \in Frames : pages[f].pin_count = 0
  BY DEF AnyUnpinned
<1>2. f \in Mapped
  BY DEF BookInv, FreeOrMapped, ToSet, Mapped
<1>3. replacer.is_evictable[f]
  BY <1>1, <1>2 DEF BookInv, ReplacerTracksPins
<1> QED BY <1>3, EvictableMeansCanEvict DEF BookInv, TypeOK, ReplacerTracksPins

(* What NewPgImp and FetchPgImp know of the frame they take *)
LEMMA TakenFrame ==
    ASSUME BookInv, AnyUnpinned, NEW f \in Frames, FromFreeList(f) \/ FromReplacer(f)
    PROVE  /\ pages[f].pin_count = 0
           /\ free_list # <<>> => /\ f \notin Mapped
                                  /\ free_list = <<f>> \o Tail(free_list)
           /\ free_list = <<>> => /\ f \in Mapped
                                  /\ replacer.is_evictable[f]
                                  /\ CanEvict(replacer)
                                  /\ pages[f].page_id \in PageIds
                                  /\ page_table[pages[f].page_id] = f
                                  /\ Holders(pages[f].page_id) = {}
<1>1. CASE free_list # <<>>
  <2>1. f = Head(free_list) /\ free_list \in Seq(Frames)
    BY <1>1 DEF FromFreeList, FromReplacer, BookInv, TypeOK
  <2>2. f \in ToSet(free_list) /\ free_list = <<f>> \o Tail(free_list)
    BY <1>1, <2>1 DEF ToSet
  <2>3. f \notin Mapped /\ pages[f].pin_count = 0
    BY <2>2 DEF BookInv, FreeOrMapped
  <2> QED BY <1>1, <2>2, <2>3
<1>2. CASE free_list = <<>>
  <2>1. CanEvict(replacer) /\ IsVictim(replacer, f)
    BY <1>2, BookImpliesEvict DEF EvictNeverFails, FromFreeList, FromReplacer
  <2>2. replacer.is_evictable[f]
    BY <2>1, VictimEvictable
  <2>3. f \in Mapped
    BY <2>2 DEF BookInv, ReplacerTracksPins, ReplacerOK, SizeOK
  <2>4. pages[f].pin_count = 0
    BY <2>2, <2>3 DEF BookInv, ReplacerTracksPins
  <2>5. pages[f].page_id \in PageIds /\ page_table[pages[f].page_id] = f
    BY <2>3 DEF BookInv, TypeOK, FrameType, Mapped, PageTableMatchesFrames
  <2>6. Cardinality(Holders(pages[f].page_id)) = 0
    BY <2>3, <2>4 DEF BookInv, PinsAreHeld
  <2>7. Holders(pages[f].page_id) = {}
    BY <2>6, HoldersFinite, FS_EmptySet
  <2> QED BY <1>2, <2>1, <2>2, <2>3, <2>4, <2>5, <2>7
<1> QED BY <1>1, <1>2

(* The replacer after the frame was taken *)
LEMMA PinNewOK ==
    ASSUME BookInv, AnyUnpinned, NEW f \in Frames, FromFreeList(f) \/ FromReplacer(f)
    PROVE  /\ PinNew(f) \in ReplacerType
           /\ ReplacerOK(PinNew(f))
           /\ PinNew(f).access_count[f] # 0
           /\ PinNew(f).is_evictable[f] = FALSE
           /\ \A g \in Frames \ {f} :
                 /\ PinNew(f).access_count[g] = replacer.access_count[g]
                 /\ PinNew(f).is_evictable[g] = replacer.is_evictable[g]
<1> DEFINE r == IF free_list = <<>> /\ CanEvict(replacer)
                THEN EvictFrame(replacer, f) ELSE replacer
           s == RecordAccess(r, f)
           t == SetEvictable(s, f, FALSE)
<1>1. replacer \in ReplacerType /\ ReplacerOK(replacer)
  BY DEF BookInv, TypeOK, ReplacerTracksPins
<1>2. /\ r \in ReplacerType /\ ReplacerOK(r)
      /\ \A g \in Frames \ {f} : /\ r.access_count[g] = replacer.access_count[g]
                                 /\ r.is_evictable[g] = replacer.is_evictable[g]
  <2>1. CASE free_list = <<>>
    <3>1. r = Forget(replacer, f)
      BY <2>1, TakenFrame DEF EvictFrame
    <3>2. replacer.is_evictable[f]
      BY <2>1, TakenFrame
    <3>3. /\ r \in ReplacerType /\ ReplacerOK(r)
          /\ r.access_count = [replacer.access_count EXCEPT ![f] = 0]
          /\ r.is_evictable = [replacer.is_evictable EXCEPT ![f] = FALSE]
      BY <1>1, <3>1, <3>2, ForgetOK
    <3> QED BY <1>1, <3>3 DEF ReplacerType
  <2>2. CASE free_list # <<>>
    BY <1>1, <2>2
  <2> QED BY <2>1, <2>2
<1> HIDE DEF r
<1>3. /\ s \in ReplacerType /\ ReplacerOK(s)
      /\ s.is_evictable = r.is_evictable
      /\ s.access_count[f] # 0
      /\ \A g \in Frames \ {f} : s.access_count[g] = r.access_count[g]
  BY <1>2, RecordAccessOK
<1> HIDE DEF s
<1>4. /\ t \in ReplacerType /\ ReplacerOK(t)
      /\ t.access_count = s.access_count
      /\ t.is_evictable = [s.is_evictable EXCEPT ![f] = FALSE]
  BY <1>3, SetEvictableOK
<1> HIDE DEF t
<1>5. PinNew(f) = t
  BY DEF PinNew, t, s, r
<1>6. s.is_evictable \in [Frames -> BOOLEAN]
  BY <1>3 DEF ReplacerType
<1> QED BY <1>2, <1>3, <1>4, <1>5, <1>6

(* NewPgImp and FetchPgImp put a page that is not in the pool into a frame  *)
LEMMA InstallOK ==
    ASSUME BookInv, AnyUnpinned, NEW c \in Clients, pinned[c] = NoPage,
           NEW f \in Frames, FromFreeList(f) \/ FromReplacer(f),
           NEW p \in PageIds, page_table[p] = NoFrame, NEW d \in Data,
           Install(c, f, p, d),
           next_page_id' \in 0..MaxPages, next_page_id <= next_page_id', p < next_page_id',
           wrote' \in [Clients -> BOOLEAN], touched' \subseteq PageIds,
           UNCHANGED <<flush_cursor, flushing>>
    PROVE  BookInv'
<1> DEFINE old == pages[f].page_id
<1>1. /\ TypeOK /\ PageTableMatchesFrames /\ FreeOrMapped /\ PinsAreHeld
      /\ ReplacerTracksPins
  BY DEF BookInv
<1>2. /\ pages[f].pin_count = 0
      /\ free_list # <<>> => f \notin Mapped /\ free_list = <<f>> \o Tail(free_list)
      /\ free_list = <<>> => /\ f \in Mapped
                             /\ old \in PageIds
                             /\ page_table[old] = f
                             /\ Holders(old) = {}
  BY TakenFrame
<1>3. p # old /\ f # NoFrame /\ p # NoPage /\ p # INVALID_PAGE_ID
  <2>1. p # old
    BY <1>1, <1>2, BufferPoolAssumption DEF PageTableMatchesFrames
  <2> QED BY <2>1, BufferPoolAssumption DEF PageIds, INVALID_PAGE_ID
<1>4. Holders(p) = {}
  BY <1>1, <1>3 DEF PinsAreHeld, Holders
<1>5. pinned' = [pinned EXCEPT ![c] = p]
  BY DEF Install
<1>6. \A q \in PageIds :
        {e \in Clients : pinned'[e] = q} = IF q = p THEN {c} ELSE Holders(q)
  <2> SUFFICES ASSUME NEW q \in PageIds
               PROVE  {e \in Clients : pinned'[e] = q} = IF q = p THEN {c} ELSE Holders(q)
    OBVIOUS
  <2>1. \A e \in Clients : pinned'[e] = IF e = c THEN p ELSE pinned[e]
    BY <1>1, <1>5 DEF TypeOK
  <2>2. \A e \in Clients : pinned[e] # p
    BY <1>4 DEF Holders
  <2>3. q # NoPage
    BY BufferPoolAssumption DEF PageIds
  <2>4. CASE q = p
    BY <2>1, <2>2, <2>4
  <2>5. CASE q # p
    BY <2>1, <2>3, <2>5 DEF Holders
  <2> QED BY <2>4, <2>5
<1>7. /\ \A g \in Frames \ {f} : pages'[g] = pages[g]
      /\ pages'[f].page_id = p /\ pages'[f].pin_count = 1 /\ pages'[f].data = d
      /\ pages'[f].is_dirty \in BOOLEAN
      /\ pages' \in [Frames -> FrameType]
  <2>1. 1 \in 0..Cardinality(Clients)
    <3>1. Cardinality({c}) = 1 /\ Cardinality({c}) <= Cardinality(Clients)
      BY FS_Singleton, FS_Subset, BufferPoolAssumption
    <3> QED BY <3>1, HoldersFinite
  <2>2. pages[f].is_dirty \in BOOLEAN
    BY <1>1 DEF TypeOK, FrameType
  <2> QED BY <1>1, <2>1, <2>2 DEF Install, TypeOK, FrameType
<1>8. \A q \in PageIds : page_table'[q] = IF q = p THEN f
                                         ELSE IF free_list = <<>> /\ q = old THEN NoFrame
                                         ELSE page_table[q]
  BY <1>1, <1>2, <1>3 DEF Install, Unmap, TypeOK
<1>9. page_table' \in [PageIds -> Frames \cup {NoFrame}]
  BY <1>1, <1>2 DEF Install, Unmap, TypeOK
<1>10. TypeOK'
  <2>1. free_list' \in Seq(Frames)
    BY <1>1 DEF Install, TypeOK
  <2>2. replacer' \in ReplacerType
    BY PinNewOK DEF Install
  <2>3. disk' \in [PageIds -> Data \cup {Absent}]
    BY <1>1 DEF Install, WriteBack, TypeOK, FrameType
  <2>4. pinned' \in [Clients -> PageIds \cup {NoPage}]
    BY <1>1, <1>5 DEF TypeOK
  <2> QED BY <1>1, <1>7, <1>9, <2>1, <2>2, <2>3, <2>4 DEF TypeOK
<1>11. PageTableMatchesFrames'
  <2> SUFFICES ASSUME NEW q \in PageIds, NEW g \in Frames
               PROVE  page_table'[q] = g <=> pages'[g].page_id = q
    BY DEF PageTableMatchesFrames
  <2>1. page_table[q] = g <=> pages[g].page_id = q
    BY <1>1 DEF PageTableMatchesFrames
  <2>2. CASE g = f
    <3>1. CASE q = p
      BY <1>7, <1>8, <2>2, <3>1
    <3>2. CASE q # p
      <4>1. page_table'[q] # f
        <5>1. CASE free_list = <<>>
          BY <1>2, <1>3, <1>8, <2>1, <2>2, <3>2, <5>1
        <5>2. CASE free_list # <<>>
          BY <1>2, <1>8, <2>1, <2>2, <3>2, <5>2 DEF Mapped, PageIds, INVALID_PAGE_ID
        <5> QED BY <5>1, <5>2
      <4> QED BY <1>7, <2>2, <3>2, <4>1
    <3> QED BY <3>1, <3>2
  <2>3. CASE g # f
    <3>1. CASE q = p
      BY <1>3, <1>7, <1>8, <2>1, <2>3, <3>1, BufferPoolAssumption
    <3>2. CASE q # p
      BY <1>2, <1>3, <1>7, <1>8, <2>1, <2>3, <3>2, BufferPoolAssumption
    <3> QED BY <3>1, <3>2
  <2> QED BY <2>2, <2>3
<1>12. Mapped' = Mapped \cup {f}
  BY <1>3, <1>7 DEF Mapped
<1>13. FreeOrMapped'
  <2>1. IsInjective(free_list') /\ ToSet(free_list') = ToSet(free_list) \ {f}
    <3>1. CASE free_list = <<>>
      BY <1>1, <3>1 DEF Install, FreeOrMapped, ToSet
    <3>2. CASE free_list # <<>>
      <4>1. free_list' = Tail(free_list) /\ free_list \in Seq(Frames) /\ IsInjective(free_list)
        BY <1>1, <3>2 DEF Install, TypeOK, FreeOrMapped
      <4>2. /\ Len(free_list) >= 1
            /\ free_list[1] = f
            /\ DOMAIN free_list = 1..Len(free_list)
            /\ DOMAIN free_list' = 1..(Len(free_list) - 1)
            /\ \A j \in 1..(Len(free_list) - 1) : free_list'[j] = free_list[j + 1]
        <5>1. f = Head(free_list)
          BY <3>2 DEF FromFreeList, FromReplacer
        <5> QED BY <3>2, <4>1, <5>1
      <4>3. IsInjective(free_list')
        BY <4>1, <4>2 DEF IsInjective
      <4>4. ASSUME NEW x PROVE x \in ToSet(free_list') <=> x \in ToSet(free_list) \ {f}
        <5>1. ASSUME x \in ToSet(free_list') PROVE x \in ToSet(free_list) \ {f}
          <6>1. PICK j \in 1..(Len(free_list) - 1) : free_list'[j] = x
            BY <4>2, <5>1 DEF ToSet
          <6>2. j + 1 \in DOMAIN free_list /\ 1 \in DOMAIN free_list /\ free_list[j + 1] = x
            BY <4>1, <4>2, <6>1
          <6>3. x # f
            BY <4>1, <4>2, <6>2 DEF IsInjective
          <6> QED BY <6>2, <6>3 DEF ToSet
        <5>2. ASSUME x \in ToSet(free_list) \ {f} PROVE x \in ToSet(free_list')
          <6>1. PICK j \in 1..Len(free_list) : free_list[j] = x
            BY <4>2, <5>2 DEF ToSet
          <6>2. j - 1 \in 1..(Len(free_list) - 1) /\ free_list'[j - 1] = x
            BY <4>1, <4>2, <5>2, <6>1
          <6> QED BY <4>2, <6>2 DEF ToSet
        <5> QED BY <5>1, <5>2
      <4> QED BY <4>3, <4>4
    <3> QED BY <3>1, <3>2
  <2>2. ToSet(free_list') = Frames \ Mapped'
    BY <1>1, <1>12, <2>1 DEF FreeOrMapped
  <2>3. \A g \in Frames \ Mapped' :
          pages'[g] = [page_id |-> INVALID_PAGE_ID, pin_count |-> 0,
                       is_dirty |-> FALSE, data |-> Zero]
    BY <1>1, <1>7, <1>12 DEF FreeOrMapped
  <2>4. \A g \in Mapped' : pages'[g].page_id < next_page_id'
    BY <1>1, <1>7, <1>12 DEF FreeOrMapped, TypeOK, FrameType, Mapped, PageIds
  <2> QED BY <2>1, <2>2, <2>3, <2>4 DEF FreeOrMapped
<1>14. PinsAreHeld'
  <2>1. ASSUME NEW e \in Clients, pinned'[e] # NoPage PROVE page_table'[pinned'[e]] # NoFrame
    <3>1. CASE e = c
      BY <1>1, <1>3, <1>5, <1>8, <3>1 DEF TypeOK
    <3>2. CASE e # c
      <4>1. pinned'[e] = pinned[e] /\ pinned[e] \in PageIds
        BY <1>1, <1>5, <2>1, <3>2 DEF TypeOK
      <4>2. free_list = <<>> => pinned[e] # old
        BY <1>2 DEF Holders
      <4> QED BY <1>1, <1>3, <1>8, <2>1, <4>1, <4>2 DEF PinsAreHeld
    <3> QED BY <3>1, <3>2
  <2>2. ASSUME NEW g \in Mapped'
        PROVE  pages'[g].pin_count =
                 Cardinality({e \in Clients : pinned'[e] = pages'[g].page_id})
    <3>1. CASE g = f
      BY <1>6, <1>7, <3>1, FS_Singleton, ZenonT(40)
    <3>2. CASE g # f
      <4>1. g \in Mapped /\ pages'[g] = pages[g] /\ pages[g].page_id \in PageIds
        BY <1>1, <1>7, <1>12, <2>2, <3>2 DEF Mapped, TypeOK, FrameType
      <4>2. pages[g].page_id # p
        BY <1>1, <4>1, BufferPoolAssumption DEF PageTableMatchesFrames, Mapped
      <4> QED BY <1>1, <1>6, <4>1, <4>2, ZenonT(40) DEF PinsAreHeld
    <3> QED BY <3>1, <3>2
  <2> QED BY <2>1, <2>2 DEF PinsAreHeld, Holders
<1>15. ReplacerTracksPins'
  <2>1. /\ ReplacerOK(replacer')
        /\ replacer'.access_count[f] # 0
        /\ replacer'.is_evictable[f] = FALSE
        /\ \A g \in Frames \ {f} : /\ replacer'.access_count[g] = replacer.access_count[g]
                                   /\ replacer'.is_evictable[g] = replacer.is_evictable[g]
    BY PinNewOK DEF Install
  <2>2. \A g \in Frames : replacer'.access_count[g] # 0 <=> g \in Mapped'
    BY <1>1, <1>12, <2>1 DEF ReplacerTracksPins
  <2>3. \A g \in Mapped' : replacer'.is_evictable[g] <=> pages'[g].pin_count = 0
    <3> SUFFICES ASSUME NEW g \in Mapped'
                 PROVE  replacer'.is_evictable[g] <=> pages'[g].pin_count = 0
      OBVIOUS
    <3>1. CASE g = f
      BY <1>7, <2>1, <3>1
    <3>2. CASE g # f
      BY <1>1, <1>7, <1>12, <2>1, <3>2 DEF ReplacerTracksPins, Mapped
    <3> QED BY <3>1, <3>2
  <2> QED BY <2>1, <2>2, <2>3 DEF ReplacerTracksPins
<1> QED BY <1>10, <1>11, <1>13, <1>14, <1>15 DEF BookInv

(* The constructor of BufferPoolManagerInstance establishes the bookkeeping *)
LEMMA BookInit == Init => BookInv
<1> SUFFICES ASSUME Init PROVE BookInv
  OBVIOUS
<1> USE DEF Init
<1>1. Mapped = {}
  BY DEF Mapped
<1>2. TypeOK
  <2>1. 0 \in 0..Cardinality(Clients)
    BY HoldersFinite
  <2>2. free_list \in Seq(Frames)
    BY LRUKAssumption DEF Frames
  <2> QED BY <2>1, <2>2, NewReplacerOK, BufferPoolAssumption, LRUKAssumption
      DEF TypeOK, FrameType, NoFlush
<1>3. PageTableMatchesFrames
  BY BufferPoolAssumption DEF PageTableMatchesFrames, PageIds, INVALID_PAGE_ID
<1>4. FreeOrMapped
  <2>1. IsInjective(free_list)
    BY LRUKAssumption DEF IsInjective
  <2>2. ToSet(free_list) = Frames
    <3>1. ASSUME NEW f \in Frames PROVE f \in ToSet(free_list)
      <4>1. f + 1 \in DOMAIN free_list /\ free_list[f + 1] = f
        BY LRUKAssumption DEF Frames
      <4> QED BY <4>1 DEF ToSet
    <3>2. ASSUME NEW f \in ToSet(free_list) PROVE f \in Frames
      BY LRUKAssumption DEF ToSet, Frames
    <3> QED BY <3>1, <3>2
  <2> QED BY <1>1, <2>1, <2>2 DEF FreeOrMapped
<1>5. PinsAreHeld
  BY <1>1 DEF PinsAreHeld
<1>6. ReplacerTracksPins
  BY <1>1, NewReplacerOK DEF ReplacerTracksPins, NewReplacer
<1> QED BY <1>2, <1>3, <1>4, <1>5, <1>6 DEF BookInv

(* The pinned page's frame, for the steps of a client that holds a pin *)
LEMMA HeldFrame ==
    ASSUME BookInv, NEW c \in Clients, pinned[c] # NoPage
    PROVE  /\ pinned[c] \in PageIds
           /\ page_table[pinned[c]] \in Mapped
           /\ pages[page_table[pinned[c]]].page_id = pinned[c]
           /\ c \in Holders(pinned[c])
BY BufferPoolAssumption
   DEF BookInv, TypeOK, PinsAreHeld, PageTableMatchesFrames, Mapped, Holders, PageIds,
       INVALID_PAGE_ID

(* FetchPgImp on a page in the pool keeps the bookkeeping: one more pin, not evictable *)
LEMMA FetchHitOK ==
    ASSUME BookInv, NEW c \in Clients, NEW p \in PageIds, FetchHit(c, p) PROVE BookInv'
<1> DEFINE f == page_table[p]
<1>1. /\ TypeOK /\ PageTableMatchesFrames /\ FreeOrMapped /\ PinsAreHeld
      /\ ReplacerTracksPins
  BY DEF BookInv
<1>2. f \in Frames /\ pages[f].page_id = p /\ f \in Mapped
  BY <1>1 DEF FetchHit, TypeOK, PageTableMatchesFrames, Mapped, PageIds, INVALID_PAGE_ID
<1>3. \A e \in Clients : pinned'[e] = IF e = c THEN p ELSE pinned[e]
  BY <1>1 DEF FetchHit, TypeOK
<1>4. pinned[c] = NoPage /\ p # NoPage
  BY BufferPoolAssumption DEF FetchHit, Idle, PageIds
<1>5. /\ {e \in Clients : pinned'[e] = p} = Holders(p) \cup {c}
      /\ c \notin Holders(p)
      /\ \A q \in PageIds \ {p} : {e \in Clients : pinned'[e] = q} = Holders(q)
  <2>1. ASSUME NEW q \in PageIds \ {p} PROVE {e \in Clients : pinned'[e] = q} = Holders(q)
    <3>1. q # NoPage
      BY BufferPoolAssumption DEF PageIds
    <3> QED BY <1>3, <1>4, <3>1 DEF Holders
  <2> QED BY <1>3, <1>4, <2>1 DEF Holders
<1>6. /\ Cardinality({e \in Clients : pinned'[e] = p}) = Cardinality(Holders(p)) + 1
      /\ Cardinality(Holders(p)) + 1 \in 0..Cardinality(Clients)
  <2>1. Cardinality({e \in Clients : pinned'[e] = p}) = Cardinality(Holders(p)) + 1
    BY <1>5, HoldersFinite, FS_AddElement
  <2>2. Cardinality({e \in Clients : pinned'[e] = p}) <= Cardinality(Clients)
    BY FS_Subset, BufferPoolAssumption
  <2> QED BY <2>1, <2>2, HoldersFinite
<1>7. pages[f].pin_count = Cardinality(Holders(p))
  BY <1>1, <1>2 DEF PinsAreHeld
<1>8. /\ pages' = [pages EXCEPT ![f].pin_count = @ + 1]
      /\ \A g \in Frames \ {f} : pages'[g] = pages[g]
      /\ pages'[f].pin_count = pages[f].pin_count + 1
      /\ pages'[f].page_id = p
      /\ pages' \in [Frames -> FrameType]
  BY <1>1, <1>2, <1>6, <1>7, ZenonT(40) DEF FetchHit, TypeOK, FrameType
<1>9. Mapped' = Mapped
  BY <1>2, <1>8 DEF Mapped
<1>10. /\ replacer' \in ReplacerType /\ ReplacerOK(replacer')
       /\ replacer'.access_count[f] # 0
       /\ replacer'.is_evictable[f] = FALSE
       /\ \A g \in Frames \ {f} : /\ replacer'.access_count[g] = replacer.access_count[g]
                                  /\ replacer'.is_evictable[g] = replacer.is_evictable[g]
  <2> DEFINE s == RecordAccess(replacer, f)
  <2>1. replacer \in ReplacerType /\ ReplacerOK(replacer)
    BY <1>1 DEF TypeOK, ReplacerTracksPins
  <2>2. /\ s \in ReplacerType /\ ReplacerOK(s)
        /\ s.is_evictable = replacer.is_evictable
        /\ s.access_count[f] # 0
        /\ \A g \in Frames \ {f} : s.access_count[g] = replacer.access_count[g]
    BY <1>2, <2>1, RecordAccessOK
  <2>3. replacer' = SetEvictable(s, f, FALSE)
    BY DEF FetchHit
  <2> HIDE DEF s
  <2>4. /\ replacer' \in ReplacerType /\ ReplacerOK(replacer')
        /\ replacer'.access_count = s.access_count
        /\ replacer'.is_evictable = [s.is_evictable EXCEPT ![f] = FALSE]
    BY <1>2, <2>2, <2>3, SetEvictableOK
  <2>5. s.is_evictable \in [Frames -> BOOLEAN]
    BY <2>2 DEF ReplacerType
  <2> QED BY <1>2, <2>2, <2>4, <2>5
<1>11. UNCHANGED <<page_table, free_list, next_page_id, disk, flush_cursor, wrote, flushing,
                   touched>>
  BY DEF FetchHit
<1> HIDE DEF f
<1>12. TypeOK'
  BY <1>1, <1>8, <1>10, <1>11 DEF TypeOK, FetchHit
<1>13. PageTableMatchesFrames'
  BY <1>1, <1>2, <1>8, <1>11 DEF PageTableMatchesFrames
<1>14. FreeOrMapped'
  <2>1. \A g \in Frames \ Mapped : pages'[g] = pages[g]
    BY <1>2, <1>8
  <2>2. \A g \in Mapped : pages'[g].page_id = pages[g].page_id
    BY <1>2, <1>8 DEF Mapped
  <2> QED BY <1>1, <1>9, <1>11, <2>1, <2>2 DEF FreeOrMapped
<1>15. PinsAreHeld'
  <2>1. ASSUME NEW e \in Clients, pinned'[e] # NoPage PROVE page_table'[pinned'[e]] # NoFrame
    BY <1>1, <1>2, <1>3, <1>11, <2>1, BufferPoolAssumption DEF PinsAreHeld, f
  <2>2. ASSUME NEW g \in Mapped
        PROVE  pages'[g].pin_count =
                 Cardinality({e \in Clients : pinned'[e] = pages'[g].page_id})
    <3>1. CASE g = f
      BY <1>6, <1>7, <1>8, <3>1
    <3>2. CASE g # f
      <4>1. pages'[g] = pages[g] /\ pages[g].page_id \in PageIds /\ pages[g].page_id # p
        BY <1>1, <1>2, <1>8, <2>2, <3>2 DEF Mapped, TypeOK, FrameType, PageTableMatchesFrames, f
      <4> QED BY <1>1, <1>5, <2>2, <4>1 DEF PinsAreHeld
    <3> QED BY <3>1, <3>2
  <2> QED BY <1>9, <2>1, <2>2 DEF PinsAreHeld, Holders
<1>16. ReplacerTracksPins'
  <2>1. \A g \in Frames : replacer'.access_count[g] # 0 <=> g \in Mapped
    BY <1>1, <1>2, <1>10 DEF ReplacerTracksPins
  <2>2. ASSUME NEW g \in Mapped PROVE replacer'.is_evictable[g] <=> pages'[g].pin_count = 0
    <3>1. CASE g = f
      BY <1>6, <1>7, <1>8, <1>10, <3>1, HoldersFinite
    <3>2. CASE g # f
      BY <1>1, <1>8, <1>10, <2>2, <3>2 DEF ReplacerTracksPins, Mapped
    <3> QED BY <3>1, <3>2
  <2> QED BY <1>9, <1>10, <2>1, <2>2 DEF ReplacerTracksPins
<1> QED BY <1>12, <1>13, <1>14, <1>15, <1>16 DEF BookInv

(* UnpinPgImp keeps the bookkeeping: one pin less, evictable at zero *)
LEMMA UnpinOK ==
    ASSUME BookInv, NEW c \in Clients, UnpinPg(c) PROVE BookInv'
<1> DEFINE p == pinned[c]
           f == page_table[p]
<1>1. /\ TypeOK /\ PageTableMatchesFrames /\ FreeOrMapped /\ PinsAreHeld
      /\ ReplacerTracksPins
  BY DEF BookInv
<1>2. /\ p \in PageIds /\ f \in Frames /\ pages[f].page_id = p /\ f \in Mapped
      /\ c \in Holders(p) /\ p # NoPage
  BY HeldFrame DEF UnpinPg, Holds, Mapped
<1>3. \A e \in Clients : pinned'[e] = IF e = c THEN NoPage ELSE pinned[e]
  BY <1>1 DEF UnpinPg, TypeOK
<1>4. /\ {e \in Clients : pinned'[e] = p} = Holders(p) \ {c}
      /\ \A q \in PageIds \ {p} : {e \in Clients : pinned'[e] = q} = Holders(q)
  <2>1. ASSUME NEW q \in PageIds \ {p} PROVE {e \in Clients : pinned'[e] = q} = Holders(q)
    <3>1. q # NoPage
      BY BufferPoolAssumption DEF PageIds
    <3> QED BY <1>3, <3>1 DEF Holders
  <2> QED BY <1>2, <1>3, <2>1 DEF Holders
<1>5. /\ Cardinality({e \in Clients : pinned'[e] = p}) = Cardinality(Holders(p)) - 1
      /\ Cardinality(Holders(p)) - 1 \in 0..Cardinality(Clients)
  <2>1. Cardinality({e \in Clients : pinned'[e] = p}) = Cardinality(Holders(p)) - 1
    BY <1>2, <1>4, HoldersFinite, FS_RemoveElement
  <2>2. Cardinality({e \in Clients : pinned'[e] = p}) \in Nat
    BY FS_Subset, FS_CardinalityType, BufferPoolAssumption
  <2> QED BY <2>1, <2>2, HoldersFinite
<1>6. pages[f].pin_count = Cardinality(Holders(p))
  BY <1>1, <1>2 DEF PinsAreHeld
<1>7. /\ \A g \in Frames \ {f} : pages'[g] = pages[g]
      /\ pages'[f].pin_count = pages[f].pin_count - 1
      /\ pages'[f].page_id = p
      /\ pages' \in [Frames -> FrameType]
  <2>1. pages \in [Frames -> FrameType] /\ wrote[c] \in BOOLEAN
    BY <1>1 DEF TypeOK
  <2>2. /\ pages' = [pages EXCEPT ![f].pin_count = @ - 1, ![f].is_dirty = @ \/ wrote[c]]
        /\ pages[f].pin_count - 1 \in 0..Cardinality(Clients)
        /\ pages[f].is_dirty \in BOOLEAN
    BY <1>2, <1>5, <1>6, <2>1 DEF UnpinPg, FrameType
  <2>3. (pages[f].is_dirty \/ wrote[c]) \in BOOLEAN
    BY <2>1, <2>2
  <2> HIDE DEF f, p
  <2>4. /\ \A g \in Frames \ {f} : pages'[g] = pages[g]
        /\ pages'[f] = [pages[f] EXCEPT !.pin_count = @ - 1, !.is_dirty = @ \/ wrote[c]]
        /\ pages' \in [Frames -> {pages'[g] : g \in Frames}]
    BY <1>2, <2>1, <2>2 DEF FrameType
  <2>5. /\ pages'[f] \in FrameType
        /\ pages'[f].pin_count = pages[f].pin_count - 1
        /\ pages'[f].page_id = pages[f].page_id
    <3>1. /\ pages[f].page_id \in PageIds \cup {INVALID_PAGE_ID} /\ pages[f].data \in Data
          /\ pages[f] = [page_id |-> pages[f].page_id, pin_count |-> pages[f].pin_count,
                         is_dirty |-> pages[f].is_dirty, data |-> pages[f].data]
      BY <1>2, <2>1 DEF FrameType
    <3>2. pages'[f] = [page_id |-> pages[f].page_id, pin_count |-> pages[f].pin_count - 1,
                       is_dirty |-> pages[f].is_dirty \/ wrote[c], data |-> pages[f].data]
      BY <2>4, <3>1
    <3>3. PICK b \in BOOLEAN : b = (pages[f].is_dirty \/ wrote[c])
      BY <2>3
    <3>4. pages'[f] = [page_id |-> pages[f].page_id, pin_count |-> pages[f].pin_count - 1,
                       is_dirty |-> b, data |-> pages[f].data]
      BY <3>2, <3>3, Zenon
    <3> QED BY <2>2, <3>1, <3>4 DEF FrameType
  <2> QED BY <1>2, <2>1, <2>4, <2>5
<1>8. Mapped' = Mapped
  BY <1>2, <1>7 DEF Mapped
<1>9. /\ replacer' \in ReplacerType /\ ReplacerOK(replacer')
      /\ replacer'.access_count = replacer.access_count
      /\ replacer'.is_evictable[f] <=> pages[f].pin_count = 1
      /\ \A g \in Frames \ {f} : replacer'.is_evictable[g] = replacer.is_evictable[g]
  <2>1. /\ replacer \in ReplacerType /\ ReplacerOK(replacer)
        /\ replacer.access_count[f] # 0
        /\ replacer.is_evictable \in [Frames -> BOOLEAN]
    BY <1>1, <1>2 DEF TypeOK, ReplacerTracksPins, ReplacerType
  <2>2. CASE pages[f].pin_count = 1
    <3>1. replacer' = SetEvictable(replacer, f, TRUE)
      BY <2>2 DEF UnpinPg
    <3>2. /\ replacer' \in ReplacerType /\ ReplacerOK(replacer')
          /\ replacer'.access_count = replacer.access_count
          /\ replacer'.is_evictable = [replacer.is_evictable EXCEPT ![f] = TRUE]
      BY <1>2, <2>1, <3>1, SetEvictableOK
    <3> QED BY <1>2, <2>1, <2>2, <3>2
  <2>3. CASE pages[f].pin_count # 1
    <3>1. replacer' = replacer
      BY <2>3 DEF UnpinPg
    <3>2. pages[f].pin_count # 0
      BY <1>5, <1>6, HoldersFinite
    <3> QED BY <1>1, <1>2, <2>1, <2>3, <3>1, <3>2 DEF ReplacerTracksPins
  <2> QED BY <2>2, <2>3
<1>10. UNCHANGED <<page_table, free_list, next_page_id, disk, flush_cursor, flushing, touched>>
  BY DEF UnpinPg
<1>11. TypeOK'
  <2>1. wrote' \in [Clients -> BOOLEAN] /\ pinned' \in [Clients -> PageIds \cup {NoPage}]
    BY <1>1 DEF TypeOK, UnpinPg
  <2> QED BY <1>1, <1>7, <1>9, <1>10, <2>1 DEF TypeOK
<1> HIDE DEF f, p
<1>12. PageTableMatchesFrames'
  BY <1>1, <1>2, <1>7, <1>10 DEF PageTableMatchesFrames
<1>13. FreeOrMapped'
  <2>1. \A g \in Frames \ Mapped : pages'[g] = pages[g]
    BY <1>2, <1>7
  <2>2. \A g \in Mapped : pages'[g].page_id = pages[g].page_id
    BY <1>2, <1>7 DEF Mapped
  <2> QED BY <1>1, <1>8, <1>10, <2>1, <2>2 DEF FreeOrMapped
<1>14. PinsAreHeld'
  <2>1. ASSUME NEW e \in Clients, pinned'[e] # NoPage PROVE page_table'[pinned'[e]] # NoFrame
    BY <1>1, <1>3, <1>10, <2>1 DEF PinsAreHeld
  <2>2. ASSUME NEW g \in Mapped
        PROVE  pages'[g].pin_count =
                 Cardinality({e \in Clients : pinned'[e] = pages'[g].page_id})
    <3>1. CASE g = f
      BY <1>5, <1>6, <1>7, <3>1
    <3>2. CASE g # f
      <4>1. pages'[g] = pages[g] /\ pages[g].page_id \in PageIds /\ pages[g].page_id # p
        BY <1>1, <1>2, <1>7, <2>2, <3>2 DEF Mapped, TypeOK, FrameType, PageTableMatchesFrames, f
      <4> QED BY <1>1, <1>4, <2>2, <4>1 DEF PinsAreHeld
    <3> QED BY <3>1, <3>2
  <2> QED BY <1>8, <2>1, <2>2 DEF PinsAreHeld, Holders
<1>15. ReplacerTracksPins'
  <2>1. ASSUME NEW g \in Mapped PROVE replacer'.is_evictable[g] <=> pages'[g].pin_count = 0
    <3>1. CASE g = f
      BY <1>5, <1>6, <1>7, <1>9, <3>1, HoldersFinite
    <3>2. CASE g # f
      BY <1>1, <1>7, <1>9, <2>1, <3>2 DEF ReplacerTracksPins, Mapped
    <3> QED BY <3>1, <3>2
  <2> QED BY <1>1, <1>8, <1>9, <2>1 DEF ReplacerTracksPins
<1> QED BY <1>11, <1>12, <1>13, <1>14, <1>15 DEF BookInv

(* A client's write to a page it holds leaves the bookkeeping alone *)
LEMMA ClientWriteOK ==
    ASSUME BookInv, NEW c \in Clients, NEW d \in Data, ClientWrite(c, d) PROVE BookInv'
<1> DEFINE f == page_table[pinned[c]]
<1>1. f \in Mapped /\ f \in Frames /\ pinned[c] \in PageIds
  BY HeldFrame DEF ClientWrite, Holds, Mapped
<1>2. /\ pages' \in [Frames -> FrameType]
      /\ \A g \in Frames : /\ pages'[g].page_id = pages[g].page_id
                           /\ pages'[g].pin_count = pages[g].pin_count
      /\ \A g \in Frames \ Mapped : pages'[g] = pages[g]
  BY <1>1, ZenonT(40) DEF ClientWrite, BookInv, TypeOK, FrameType
<1>3. UNCHANGED <<page_table, free_list, replacer, next_page_id, disk, flush_cursor, pinned,
                  flushing>>
  BY DEF ClientWrite
<1>4. TypeOK'
  BY <1>1, <1>2, <1>3 DEF ClientWrite, BookInv, TypeOK
<1>5. Mapped' = Mapped
  BY <1>2 DEF Mapped
<1>6. PageTableMatchesFrames'
  BY <1>2, <1>3 DEF BookInv, PageTableMatchesFrames
<1>7. FreeOrMapped'
  BY <1>2, <1>3, <1>5 DEF BookInv, FreeOrMapped, Mapped
<1>8. PinsAreHeld'
  BY <1>2, <1>3, <1>5 DEF BookInv, PinsAreHeld, Mapped, Holders
<1>9. ReplacerTracksPins'
  BY <1>2, <1>3, <1>5 DEF BookInv, ReplacerTracksPins, Mapped
<1> QED BY <1>4, <1>6, <1>7, <1>8, <1>9 DEF BookInv

(* Steps that leave the bookkeeping alone *)
LEMMA BookUnchanged ==
    ASSUME BookInv, UNCHANGED <<pages, page_table, free_list, replacer, next_page_id, pinned>>,
           TypeOK'
    PROVE  BookInv'
<1>1. Mapped' = Mapped
  BY DEF Mapped
<1>2. PageTableMatchesFrames' /\ FreeOrMapped'
  BY <1>1 DEF BookInv, PageTableMatchesFrames, FreeOrMapped
<1>3. PinsAreHeld' /\ ReplacerTracksPins'
  BY <1>1 DEF BookInv, PinsAreHeld, ReplacerTracksPins, Holders
<1> QED BY <1>2, <1>3 DEF BookInv

(* DeletePgImp keeps the bookkeeping: the frame returns to the free list untracked *)
LEMMA DeleteOK ==
    ASSUME BookInv, NEW p \in PageIds, DeletePg(p) PROVE BookInv'
<1> DEFINE f == page_table[p]
           blank == [page_id |-> INVALID_PAGE_ID, pin_count |-> 0,
                     is_dirty |-> FALSE, data |-> Zero]
<1>1. /\ TypeOK /\ PageTableMatchesFrames /\ FreeOrMapped /\ PinsAreHeld
      /\ ReplacerTracksPins
  BY DEF BookInv
<1>2. f \in Frames /\ pages[f].page_id = p /\ f \in Mapped
  BY <1>1 DEF DeletePg, TypeOK, PageTableMatchesFrames, Mapped, PageIds, INVALID_PAGE_ID
<1>3. pages[f].pin_count = 0
  BY <1>1, <1>2, HoldersFinite DEF DeletePg, TypeOK, FrameType
<1>4. Holders(p) = {}
  <2>1. Cardinality(Holders(p)) = 0
    BY <1>1, <1>2, <1>3 DEF PinsAreHeld
  <2> QED BY <2>1, HoldersFinite, FS_EmptySet
<1>5. /\ \A g \in Frames \ {f} : pages'[g] = pages[g]
      /\ pages'[f] = blank
      /\ pages' \in [Frames -> FrameType]
  <2>1. blank \in FrameType
    BY HoldersFinite, BufferPoolAssumption DEF FrameType
  <2>2. pages' = [pages EXCEPT ![f] = blank]
    BY DEF DeletePg
  <2> HIDE DEF blank
  <2> QED BY <1>1, <1>2, <2>1, <2>2 DEF TypeOK
<1>6. Mapped' = Mapped \ {f}
  BY <1>5 DEF Mapped
<1>7. /\ replacer' \in ReplacerType /\ ReplacerOK(replacer')
      /\ replacer'.access_count = [replacer.access_count EXCEPT ![f] = 0]
      /\ replacer'.is_evictable = [replacer.is_evictable EXCEPT ![f] = FALSE]
      /\ replacer.access_count \in [Frames -> 0..K]
      /\ replacer.is_evictable \in [Frames -> BOOLEAN]
  <2>1. /\ replacer \in ReplacerType /\ ReplacerOK(replacer)
        /\ replacer.access_count[f] # 0 /\ replacer.is_evictable[f]
    BY <1>1, <1>2, <1>3 DEF TypeOK, ReplacerTracksPins
  <2>2. replacer' = Forget(replacer, f)
    BY <2>1 DEF DeletePg, RemoveFrame
  <2>3. replacer.access_count \in [Frames -> 0..K] /\ replacer.is_evictable \in [Frames -> BOOLEAN]
    BY <2>1 DEF ReplacerType
  <2> QED BY <1>2, <2>1, <2>2, <2>3, ForgetOK
<1>8. /\ \A q \in PageIds : page_table'[q] = IF q = p THEN NoFrame ELSE page_table[q]
      /\ page_table' \in [PageIds -> Frames \cup {NoFrame}]
  BY <1>1 DEF DeletePg, TypeOK
<1>9. UNCHANGED <<next_page_id, disk, flush_cursor, pinned, wrote, flushing, touched>>
  BY DEF DeletePg
<1>10. /\ free_list' \in Seq(Frames)
       /\ Len(free_list') = Len(free_list) + 1
       /\ free_list'[Len(free_list) + 1] = f
       /\ \A j \in 1..Len(free_list) : free_list'[j] = free_list[j]
       /\ free_list \in Seq(Frames)
  BY <1>1, <1>2 DEF DeletePg, TypeOK
<1> HIDE DEF f, blank
<1>11. TypeOK'
  BY <1>1, <1>5, <1>7, <1>8, <1>9, <1>10 DEF TypeOK
<1>12. PageTableMatchesFrames'
  <2> SUFFICES ASSUME NEW q \in PageIds, NEW g \in Frames
               PROVE  page_table'[q] = g <=> pages'[g].page_id = q
    BY DEF PageTableMatchesFrames
  <2>1. page_table[q] = g <=> pages[g].page_id = q
    BY <1>1 DEF PageTableMatchesFrames
  <2>2. CASE g = f
    <3>1. pages'[g].page_id # q
      BY <1>5, <2>2 DEF blank, PageIds, INVALID_PAGE_ID
    <3>2. page_table'[q] # g
      BY <1>2, <1>8, <2>1, <2>2, BufferPoolAssumption
    <3> QED BY <3>1, <3>2
  <2>3. CASE g # f
    BY <1>5, <1>8, <2>1, <2>3, BufferPoolAssumption DEF f
  <2> QED BY <2>2, <2>3
<1>13. FreeOrMapped'
  <2>1. f \notin ToSet(free_list) /\ IsInjective(free_list)
    BY <1>1, <1>2 DEF FreeOrMapped
  <2>2. IsInjective(free_list')
    BY <1>10, <2>1 DEF IsInjective, ToSet
  <2>3. ToSet(free_list') = ToSet(free_list) \cup {f}
    <3>1. ASSUME NEW x \in ToSet(free_list') PROVE x \in ToSet(free_list) \cup {f}
      BY <1>10 DEF ToSet
    <3>2. ASSUME NEW x \in ToSet(free_list) PROVE x \in ToSet(free_list')
      <4>1. PICK j \in 1..Len(free_list) : free_list[j] = x
        BY <1>10 DEF ToSet
      <4> QED BY <1>10, <4>1 DEF ToSet
    <3>3. f \in ToSet(free_list')
      BY <1>10 DEF ToSet
    <3> QED BY <3>1, <3>2, <3>3
  <2>4. ToSet(free_list') = Frames \ Mapped'
    BY <1>1, <1>2, <1>6, <2>3 DEF FreeOrMapped
  <2>5. \A g \in Frames \ Mapped' : pages'[g] = blank
    BY <1>1, <1>5, <1>6 DEF FreeOrMapped, blank
  <2>6. \A g \in Mapped' : pages'[g].page_id < next_page_id'
    BY <1>1, <1>5, <1>6, <1>9 DEF FreeOrMapped, Mapped
  <2> QED BY <2>2, <2>4, <2>5, <2>6 DEF FreeOrMapped, blank
<1>14. PinsAreHeld'
  <2>1. ASSUME NEW e \in Clients, pinned'[e] # NoPage PROVE page_table'[pinned'[e]] # NoFrame
    <3>1. pinned'[e] = pinned[e] /\ pinned[e] \in PageIds /\ pinned[e] # p
      BY <1>1, <1>4, <1>9, <2>1 DEF TypeOK, Holders
    <3> QED BY <1>1, <1>8, <2>1, <3>1 DEF PinsAreHeld
  <2>2. ASSUME NEW g \in Mapped'
        PROVE  pages'[g].pin_count =
                 Cardinality({e \in Clients : pinned'[e] = pages'[g].page_id})
    <3>1. g \in Mapped /\ pages'[g] = pages[g]
      BY <1>5, <1>6, <2>2 DEF Mapped
    <3> QED BY <1>1, <1>9, <3>1 DEF PinsAreHeld, Holders
  <2> QED BY <2>1, <2>2 DEF PinsAreHeld, Holders
<1>15. ReplacerTracksPins'
  <2>1. \A g \in Frames : replacer'.access_count[g] # 0 <=> g \in Mapped'
    BY <1>1, <1>2, <1>6, <1>7 DEF ReplacerTracksPins
  <2>2. ASSUME NEW g \in Mapped' PROVE replacer'.is_evictable[g] <=> pages'[g].pin_count = 0
    BY <1>1, <1>5, <1>6, <1>7, <2>2 DEF ReplacerTracksPins, Mapped
  <2> QED BY <1>7, <2>1, <2>2 DEF ReplacerTracksPins
<1> QED BY <1>11, <1>12, <1>13, <1>14, <1>15 DEF BookInv

(* Every call on the buffer pool keeps the bookkeeping *)
LEMMA BookStep == BookInv /\ [Next]_vars => BookInv'
<1> SUFFICES ASSUME BookInv, [Next]_vars PROVE BookInv'
  OBVIOUS
<1>1. TypeOK
  BY DEF BookInv
<1>2. ASSUME NEW c \in Clients, NEW f \in Frames, NewPg(c, f) PROVE BookInv'
  <2>1. next_page_id \in PageIds /\ next_page_id' = next_page_id + 1
    BY <1>1, <1>2, BufferPoolAssumption DEF NewPg, TypeOK, PageIds
  <2>2. page_table[next_page_id] = NoFrame
    <3> SUFFICES ASSUME page_table[next_page_id] # NoFrame PROVE FALSE
      OBVIOUS
    <3>1. PICK g \in Frames : page_table[next_page_id] = g
      BY <1>1, <2>1 DEF TypeOK
    <3>2. pages[g].page_id = next_page_id
      BY <2>1, <3>1 DEF BookInv, PageTableMatchesFrames
    <3>3. g \in Mapped
      BY <2>1, <3>2 DEF Mapped, PageIds, INVALID_PAGE_ID
    <3>4. next_page_id < next_page_id
      BY <3>2, <3>3 DEF BookInv, FreeOrMapped
    <3> QED BY <2>1, <3>4 DEF PageIds
  <2>3. Blank(f) \in Data
    BY <1>1, BufferPoolAssumption DEF Blank, TypeOK, FrameType
  <2>4. next_page_id' \in 0..MaxPages
    BY <1>1, <1>2, BufferPoolAssumption DEF NewPg, TypeOK
  <2>5. wrote' \in [Clients -> BOOLEAN] /\ touched' \subseteq PageIds
    BY <1>1, <1>2, <2>1 DEF NewPg, TypeOK
  <2>6. /\ AnyUnpinned /\ pinned[c] = NoPage /\ (FromFreeList(f) \/ FromReplacer(f))
        /\ Install(c, f, next_page_id, Blank(f)) /\ UNCHANGED <<flush_cursor, flushing>>
    BY <1>2 DEF NewPg, Idle
  <2>7. next_page_id <= next_page_id' /\ next_page_id < next_page_id'
    BY <2>1 DEF PageIds
  <2> QED BY <2>1, <2>2, <2>3, <2>4, <2>5, <2>6, <2>7, InstallOK
<1>3. ASSUME NEW c \in Clients, NEW p \in PageIds, NEW f \in Frames, FetchMiss(c, p, f)
      PROVE  BookInv'
  <2> DEFINE d == ReadPage(WriteBack(f), p, Blank(f))
  <2>1. WriteBack(f)[p] \in Data \cup {Absent} /\ Blank(f) \in Data
    BY <1>1, BufferPoolAssumption DEF WriteBack, Blank, TypeOK, FrameType
  <2>2. d \in Data
    BY <2>1 DEF ReadPage
  <2>3. /\ next_page_id' \in 0..MaxPages /\ next_page_id <= next_page_id'
        /\ p < next_page_id'
        /\ wrote' \in [Clients -> BOOLEAN] /\ touched' \subseteq PageIds
    BY <1>1, <1>3 DEF FetchMiss, TypeOK
  <2>4. /\ AnyUnpinned /\ pinned[c] = NoPage /\ (FromFreeList(f) \/ FromReplacer(f))
        /\ page_table[p] = NoFrame
        /\ Install(c, f, p, d) /\ UNCHANGED <<flush_cursor, flushing>>
    BY <1>3 DEF FetchMiss, Idle
  <2> HIDE DEF d
  <2> QED BY <2>2, <2>3, <2>4, InstallOK
<1>4. ASSUME NEW c \in Clients, NEW p \in PageIds, FlushFind(c, p) PROVE BookInv'
  <2>1. TypeOK'
    BY <1>1, <1>4 DEF FlushFind, TypeOK
  <2> QED BY <1>4, <2>1, BookUnchanged DEF FlushFind
<1>5. ASSUME NEW c \in Clients, FlushWrite(c) PROVE BookInv'
  <2>1. flushing[c] \in PageIds \X Frames
    BY <1>1, <1>5 DEF FlushWrite, TypeOK
  <2>2. pages[flushing[c][2]].data \in Data
    BY <1>1, <2>1 DEF TypeOK, FrameType
  <2>3. TypeOK'
    BY <1>1, <1>5, <2>1, <2>2 DEF FlushWrite, TypeOK
  <2> QED BY <1>5, <2>3, BookUnchanged DEF FlushWrite
<1>6. ASSUME FlushAllPgs PROVE BookInv'
  <2>1. TypeOK'
    BY <1>1, <1>6, LRUKAssumption DEF FlushAllPgs, TypeOK
  <2> QED BY <1>6, <2>1, BookUnchanged DEF FlushAllPgs
<1>7. ASSUME FlushAllStep PROVE BookInv'
  <2>1. flush_cursor \in Frames /\ flush_cursor' \in 0..PoolSize
    BY <1>1, <1>7, LRUKAssumption DEF FlushAllStep, TypeOK, Frames
  <2>2. disk' \in [PageIds -> Data \cup {Absent}]
    BY <1>1, <1>7, <2>1 DEF FlushAllStep, TypeOK, FrameType
  <2>3. TypeOK'
    BY <1>1, <1>7, <2>1, <2>2 DEF FlushAllStep, TypeOK
  <2> QED BY <1>7, <2>3, BookUnchanged DEF FlushAllStep
<1>8. CASE UNCHANGED vars
  <2>1. TypeOK'
    BY <1>1, <1>8 DEF vars, TypeOK
  <2> QED BY <1>8, <2>1, BookUnchanged DEF vars
<1> QED BY <1>2, <1>3, <1>4, <1>5, <1>6, <1>7, <1>8, FetchHitOK, ClientWriteOK, UnpinOK, DeleteOK
    DEF Next

(* The bookkeeping holds after any sequence of calls *)
LEMMA BookInductive == Spec => []BookInv
BY BookInit, BookStep, PTL DEF Spec

(* Types, among them that a pin count is never negative nor above the       *)
(* number of clients (the int pin_count_ of Page).                           *)
THEOREM TypeCorrect == Spec => []TypeOK
<1>1. BookInv => TypeOK
  BY DEF BookInv
<1> QED BY <1>1, BookInductive, PTL

(* page_table_ and the frames' page_id_ agree after every call.              *)
THEOREM PageTableCorrect == Spec => []PageTableMatchesFrames
<1>1. BookInv => PageTableMatchesFrames
  BY DEF BookInv
<1> QED BY <1>1, BookInductive, PTL

(* A page with an open NewPage/FetchPage bracket is never evicted, and its   *)
(* pin_count_ is the number of open brackets.                                *)
THEOREM PinsCorrect == Spec => []PinsAreHeld
<1>1. BookInv => PinsAreHeld
  BY DEF BookInv
<1> QED BY <1>1, BookInductive, PTL

(* The unchecked replacer_->Evict of NewPgImp and FetchPgImp always finds a  *)
(* frame, so frame_id is never used uninitialised.                           *)
THEOREM EvictCannotFail == Spec => []EvictNeverFails
BY BookInductive, BookImpliesEvict, PTL
-----------------------------------------------------------------------------
(* A page in the pool that is not marked dirty, and that no client has      *)
(* changed under its pin, is in the file as it is                           *)
CleanOnDisk ==
    \A p \in PageIds :
       /\ page_table[p] # NoFrame
       /\ ~ pages[page_table[p]].is_dirty
       /\ \A c \in Clients : pinned[c] = p => ~ wrote[c]
       => Stored(p) = pages[page_table[p]].data

(* A client between Find and WritePage still has its page in that frame *)
FlushesHeld ==
    \A c \in Clients : flushing[c] # NoFlush =>
       pinned[c] # NoPage /\ flushing[c] = <<pinned[c], page_table[pinned[c]]>>

(* FlushAllDurable, said of the pages in the pool *)
FlushedInFile ==
    \A p \in PageIds \ touched :
       page_table[p] # NoFrame /\ page_table[p] < flush_cursor
       => Stored(p) = pages[page_table[p]].data

ContentInv == BookInv /\ CleanOnDisk /\ FlushesHeld /\ FlushedInFile

(* Every write to the file is of the page's own contents *)
OwnWrites == \A q \in PageIds : disk'[q] # disk[q] => disk'[q] = Content[q]

(* Content, page by page *)
LEMMA ContentAt ==
    /\ Content = [p \in PageIds |-> Content[p]]
    /\ \A p \in PageIds : page_table[p] # NoFrame => Content[p] = pages[page_table[p]].data
    /\ \A p \in PageIds : page_table[p] = NoFrame => Content[p] = Stored(p)
BY DEF Content

(* The same after a step *)
LEMMA ContentNext ==
    /\ Content' = [p \in PageIds |-> Content'[p]]
    /\ \A p \in PageIds : page_table'[p] # NoFrame => Content'[p] = pages'[page_table'[p]].data
    /\ \A p \in PageIds : page_table'[p] = NoFrame => Content'[p] = Stored(p)'
BY DEF Content

(* A page written to the file is what the file then stores *)
LEMMA StoredIs ==
    ASSUME NEW p \in PageIds, NEW d \in Data, disk'[p] = d
    PROVE  Stored(p)' = d
BY BufferPoolAssumption DEF Stored

(* Contents have the type the page store gives them *)
LEMMA ContentTyped == TypeOK => Content \in [PageIds -> Data]
BY BufferPoolAssumption DEF TypeOK, FrameType, Content, Stored

(* What NewPgImp and FetchPgImp do to the contents of pages: page p appears *)
(* with contents d, the evicted page is in the file as it was, and nothing  *)
(* else changes                                                             *)
LEMMA Installed ==
    ASSUME ContentInv, AnyUnpinned, NEW c \in Clients, pinned[c] = NoPage,
           NEW f \in Frames, FromFreeList(f) \/ FromReplacer(f),
           NEW p \in PageIds, page_table[p] = NoFrame, NEW d \in Data, Install(c, f, p, d)
    PROVE  /\ page_table'[p] = f /\ pages'[f].data = d /\ ~ pages'[f].is_dirty
           /\ \A g \in Frames \ {f} : pages'[g] = pages[g]
           /\ disk'[p] = disk[p] /\ Stored(p)' = Stored(p)
           /\ \A q \in PageIds \ {p} : page_table[q] # f =>
                 page_table'[q] = page_table[q] /\ disk'[q] = disk[q] /\ Stored(q)' = Stored(q)
           /\ \A q \in PageIds \ {p} : page_table[q] = f =>
                 page_table'[q] = NoFrame /\ Stored(q)' = Content[q]
           /\ OwnWrites
           /\ Content' = [Content EXCEPT ![p] = d]
           /\ Blank(f) = Zero
           /\ ReadPage(WriteBack(f), p, Blank(f)) = Stored(p)
<1> DEFINE old == pages[f].page_id
<1>1. TypeOK /\ PageTableMatchesFrames /\ FreeOrMapped /\ BookInv
  BY DEF ContentInv, BookInv
<1>2. /\ free_list # <<>> => f \notin Mapped
      /\ free_list = <<>> => /\ old \in PageIds /\ page_table[old] = f /\ Holders(old) = {}
  BY <1>1, TakenFrame
<1>3. free_list # <<>> => ~ pages[f].is_dirty /\ pages[f].data = Zero /\ old = INVALID_PAGE_ID
  BY <1>1, <1>2 DEF FreeOrMapped
<1>4. /\ page_table'[p] = f /\ pages'[f].data = d /\ ~ pages'[f].is_dirty
      /\ \A g \in Frames \ {f} : pages'[g] = pages[g]
  <2>1. page_table'[p] = f
    BY <1>1 DEF Install, Unmap, TypeOK
  <2> QED BY <1>1, <1>3, <2>1 DEF Install, TypeOK
<1>5. f # NoFrame /\ (free_list = <<>> => old # p)
  BY <1>1, <1>2, BufferPoolAssumption
<1>6. \A q \in PageIds : disk'[q] = IF free_list = <<>> /\ pages[f].is_dirty /\ q = old
                                   THEN pages[f].data ELSE disk[q]
  BY <1>1, <1>2 DEF Install, WriteBack, TypeOK
<1>7. \A q \in PageIds : page_table[q] = f => free_list = <<>> /\ q = old
  <2>1. \A q \in PageIds : page_table[q] = f => q = old
    BY <1>1 DEF PageTableMatchesFrames
  <2> QED BY <1>3, <2>1 DEF PageIds, INVALID_PAGE_ID
<1>8. disk'[p] = disk[p] /\ Stored(p)' = Stored(p)
  BY <1>5, <1>6 DEF Stored
<1>9. ASSUME NEW q \in PageIds \ {p}, page_table[q] # f
      PROVE  page_table'[q] = page_table[q] /\ disk'[q] = disk[q] /\ Stored(q)' = Stored(q)
  <2>1. free_list = <<>> => q # old
    BY <1>2, <1>9
  <2>2. disk'[q] = disk[q]
    BY <1>6, <2>1
  <2>3. page_table'[q] = page_table[q]
    BY <1>1, <1>2, <2>1 DEF Install, Unmap, TypeOK
  <2> QED BY <2>2, <2>3 DEF Stored
<1>10. ASSUME NEW q \in PageIds \ {p}, page_table[q] = f
       PROVE  /\ page_table'[q] = NoFrame /\ Stored(q)' = Content[q]
              /\ disk'[q] # disk[q] => disk'[q] = Content[q]
  <2>1. free_list = <<>> /\ q = old
    BY <1>7, <1>10
  <2>2. page_table'[q] = NoFrame
    BY <1>1, <2>1 DEF Install, Unmap, TypeOK
  <2>3. Content[q] = pages[f].data /\ pages[f].data \in Data
    BY <1>1, <1>5, <1>10, ContentAt DEF TypeOK, FrameType
  <2>4. CASE pages[f].is_dirty
    BY <1>6, <2>1, <2>2, <2>3, <2>4, StoredIs
  <2>5. CASE ~ pages[f].is_dirty
    <3>1. disk'[q] = disk[q]
      BY <1>6, <2>5
    <3>2. Stored(q) = pages[f].data
      BY <1>2, <1>5, <1>10, <2>1, <2>5 DEF ContentInv, CleanOnDisk, Holders
    <3> QED BY <2>2, <2>3, <3>1, <3>2 DEF Stored
  <2> QED BY <2>4, <2>5
<1>11. OwnWrites
  BY <1>8, <1>9, <1>10 DEF OwnWrites
<1>12. Content' = [Content EXCEPT ![p] = d]
  <2>1. Content'[p] = d
    BY <1>4, <1>5, ContentNext
  <2>2. ASSUME NEW q \in PageIds \ {p} PROVE Content'[q] = Content[q]
    <3>1. CASE page_table[q] = f
      BY <1>10, <3>1, ContentNext
    <3>2. CASE page_table[q] # f /\ page_table[q] # NoFrame
      <4>1. page_table[q] \in Frames \ {f}
        BY <1>1, <3>2 DEF TypeOK
      <4> QED BY <1>4, <1>9, <3>2, <4>1, ContentAt, ContentNext
    <3>3. CASE page_table[q] = NoFrame
      BY <1>5, <1>9, <3>3, ContentAt, ContentNext
    <3> QED BY <3>1, <3>2, <3>3
  <2> QED BY <2>1, <2>2, ContentAt, ContentNext
<1>13. Blank(f) = Zero
  BY <1>3 DEF Blank
<1>14. ReadPage(WriteBack(f), p, Blank(f)) = Stored(p)
  <2>1. WriteBack(f)[p] = disk[p]
    BY <1>8 DEF Install
  <2> QED BY <1>13, <2>1 DEF ReadPage, Stored
<1> QED BY <1>4, <1>8, <1>9, <1>10, <1>11, <1>12, <1>13, <1>14

(* A client that flushes keeps its pin and its frame *)
LEMMA FlushesKept ==
    ASSUME BookInv, FlushesHeld, flushing' = flushing,
           \A e \in Clients : flushing[e] # NoFlush =>
              pinned'[e] = pinned[e] /\ page_table'[pinned[e]] = page_table[pinned[e]]
    PROVE  FlushesHeld'
BY DEF FlushesHeld

(* What a step that takes a frame keeps of the contents invariant *)
LEMMA InstalledKeeps ==
    ASSUME ContentInv, AnyUnpinned, NEW c \in Clients, Idle(c),
           NEW f \in Frames, FromFreeList(f) \/ FromReplacer(f),
           NEW p \in PageIds, page_table[p] = NoFrame, NEW d \in Data, Install(c, f, p, d),
           d = Stored(p) \/ (wrote'[c] /\ p \in touched'),
           \A e \in Clients \ {c} : wrote'[e] = wrote[e],
           touched \subseteq touched', UNCHANGED <<flush_cursor, flushing>>
    PROVE  CleanOnDisk' /\ FlushesHeld' /\ FlushedInFile'
<1>1. /\ page_table'[p] = f /\ pages'[f].data = d /\ ~ pages'[f].is_dirty
      /\ \A g \in Frames \ {f} : pages'[g] = pages[g]
      /\ Stored(p)' = Stored(p)
      /\ \A q \in PageIds \ {p} : page_table[q] # f =>
            page_table'[q] = page_table[q] /\ Stored(q)' = Stored(q)
      /\ \A q \in PageIds \ {p} : page_table[q] = f => page_table'[q] = NoFrame
  BY Installed DEF Idle
<1>2. TypeOK /\ pinned' = [pinned EXCEPT ![c] = p] /\ BookInv
  BY DEF ContentInv, BookInv, Install
<1>3. \A e \in Clients : pinned'[e] = IF e = c THEN p ELSE pinned[e]
  BY <1>2 DEF TypeOK
<1>4. \A q \in PageIds \ {p} : page_table'[q] # NoFrame =>
         /\ page_table[q] # f /\ page_table[q] \in Frames
         /\ page_table'[q] = page_table[q]
         /\ pages'[page_table[q]] = pages[page_table[q]] /\ Stored(q)' = Stored(q)
  BY <1>1, <1>2 DEF TypeOK
<1>5. CleanOnDisk'
  <2> SUFFICES ASSUME NEW q \in PageIds, page_table'[q] # NoFrame,
                      ~ pages'[page_table'[q]].is_dirty,
                      \A e \in Clients : pinned'[e] = q => ~ wrote'[e]
               PROVE  Stored(q)' = pages'[page_table'[q]].data
    BY DEF CleanOnDisk
  <2>1. CASE q = p
    BY <1>1, <1>3, <2>1
  <2>2. CASE q # p
    <3>1. \A e \in Clients : pinned[e] = q => e # c /\ ~ wrote[e]
      BY <1>3, BufferPoolAssumption DEF Idle, PageIds
    <3> QED BY <1>4, <2>2, <3>1 DEF ContentInv, CleanOnDisk
  <2> QED BY <2>1, <2>2
<1>6. FlushesHeld'
  <2>1. ASSUME NEW e \in Clients, flushing[e] # NoFlush
        PROVE  pinned'[e] = pinned[e] /\ page_table'[pinned[e]] = page_table[pinned[e]]
    <3>1. pinned[e] \in PageIds /\ page_table[pinned[e]] # NoFrame /\ e # c
      BY <1>2, <2>1 DEF ContentInv, FlushesHeld, Idle, BookInv, PinsAreHeld, TypeOK
    <3>2. pinned[e] # p
      BY <3>1
    <3>3. page_table[pinned[e]] # f
      <4>1. CASE free_list # <<>>
        <5>1. f \notin Mapped
          BY <1>2, <4>1, TakenFrame
        <5> QED BY <1>2, <3>1, <5>1, HeldFrame, BufferPoolAssumption DEF PageIds
      <4>2. CASE free_list = <<>>
        <5>1. Holders(pages[f].page_id) = {}
          BY <1>2, <4>2, TakenFrame
        <5>2. pages[page_table[pinned[e]]].page_id = pinned[e] /\ e \in Holders(pinned[e])
          BY <1>2, <3>1, HeldFrame, BufferPoolAssumption DEF PageIds
        <5> QED BY <5>1, <5>2
      <4> QED BY <4>1, <4>2
    <3> QED BY <1>1, <1>3, <3>1, <3>2, <3>3
  <2> QED BY <1>2, <2>1, FlushesKept DEF ContentInv
<1>7. FlushedInFile'
  <2> SUFFICES ASSUME NEW q \in PageIds \ touched', page_table'[q] # NoFrame,
                      page_table'[q] < flush_cursor'
               PROVE  Stored(q)' = pages'[page_table'[q]].data
    BY DEF FlushedInFile
  <2>1. CASE q = p
    BY <1>1, <2>1
  <2>2. CASE q # p
    BY <1>4, <2>2 DEF ContentInv, FlushedInFile
  <2> QED BY <2>1, <2>2
<1> QED BY <1>5, <1>6, <1>7

(* What a call means to the page store's client, and to the file *)
Faithful == ([Store!Next]_<<Content, pinned>>) /\ OwnWrites

(* NewPage creates a blank page *)
LEMMA NewPgFaithful ==
    ASSUME ContentInv, NEW c \in Clients, NEW f \in Frames, NewPg(c, f)
    PROVE  CleanOnDisk' /\ FlushesHeld' /\ FlushedInFile' /\ Faithful
<1> DEFINE p == next_page_id
<1>1. TypeOK /\ BookInv
  BY DEF ContentInv, BookInv
<1>2. p \in PageIds
  BY <1>1, BufferPoolAssumption DEF NewPg, TypeOK, PageIds
<1>3. page_table[p] = NoFrame
  BY <1>1, <1>2 DEF BookInv, TypeOK, PageTableMatchesFrames, FreeOrMapped, Mapped, PageIds,
     INVALID_PAGE_ID
<1>4. Blank(f) \in Data
  BY <1>1, BufferPoolAssumption DEF Blank, TypeOK, FrameType
<1>5. /\ AnyUnpinned /\ Idle(c) /\ (FromFreeList(f) \/ FromReplacer(f))
      /\ Install(c, f, p, Blank(f)) /\ UNCHANGED <<flush_cursor, flushing>>
      /\ wrote' = [wrote EXCEPT ![c] = TRUE] /\ touched' = touched \cup {p}
  BY DEF NewPg
<1> HIDE DEF p
<1>6. wrote'[c] /\ (\A e \in Clients \ {c} : wrote'[e] = wrote[e]) /\ p \in touched'
  BY <1>1, <1>5 DEF TypeOK
<1>7. CleanOnDisk' /\ FlushesHeld' /\ FlushedInFile'
  BY <1>2, <1>3, <1>4, <1>5, <1>6, InstalledKeeps
<1>8. OwnWrites /\ Content' = [Content EXCEPT ![p] = Zero]
  BY <1>2, <1>3, <1>4, <1>5, Installed DEF Idle
<1>9. Store!Create(c, p)
  <2>1. \A e \in Clients : pinned[e] # p
    BY <1>1, <1>2, <1>3, BufferPoolAssumption DEF BookInv, PinsAreHeld, PageIds
  <2> QED BY <1>5, <1>8, <2>1 DEF Store!Create, Idle, Install
<1>10. p \in Store!PageIds
  BY <1>2 DEF PageIds, Store!PageIds
<1> QED BY <1>7, <1>8, <1>9, <1>10 DEF Faithful, Store!Next

(* FetchPage of a page in the file pins it and changes no contents *)
LEMMA FetchMissFaithful ==
    ASSUME ContentInv, NEW c \in Clients, NEW p \in PageIds, NEW f \in Frames, FetchMiss(c, p, f)
    PROVE  CleanOnDisk' /\ FlushesHeld' /\ FlushedInFile' /\ Faithful
<1> DEFINE d == ReadPage(WriteBack(f), p, Blank(f))
<1>1. TypeOK
  BY DEF ContentInv, BookInv
<1>2. d \in Data
  <2>1. WriteBack(f)[p] \in Data \cup {Absent} /\ Blank(f) \in Data
    BY <1>1, BufferPoolAssumption DEF WriteBack, Blank, TypeOK, FrameType
  <2> QED BY <2>1 DEF ReadPage
<1>3. /\ AnyUnpinned /\ Idle(c) /\ (FromFreeList(f) \/ FromReplacer(f))
      /\ Install(c, f, p, d) /\ page_table[p] = NoFrame
      /\ UNCHANGED <<next_page_id, flush_cursor, wrote, flushing, touched>>
  BY DEF FetchMiss
<1> HIDE DEF d
<1>4. OwnWrites /\ Content' = [Content EXCEPT ![p] = d]
      /\ ReadPage(WriteBack(f), p, Blank(f)) = Stored(p)
  BY <1>2, <1>3, Installed DEF Idle
<1>5. d = Stored(p)
  BY <1>4 DEF d
<1>6. CleanOnDisk' /\ FlushesHeld' /\ FlushedInFile'
  BY <1>2, <1>3, <1>5, InstalledKeeps
<1>7. Content' = Content
  BY <1>3, <1>4, <1>5, ContentAt
<1>8. Store!Pin(c, p) /\ p \in Store!PageIds
  BY <1>3, <1>7 DEF Store!Pin, Idle, Install, PageIds, Store!PageIds
<1> QED BY <1>4, <1>6, <1>8 DEF Faithful, Store!Next

(* FetchPage of a page in the pool pins it *)
LEMMA FetchHitFaithful ==
    ASSUME ContentInv, NEW c \in Clients, NEW p \in PageIds, FetchHit(c, p)
    PROVE  CleanOnDisk' /\ FlushesHeld' /\ FlushedInFile' /\ Faithful
<1> DEFINE f == page_table[p]
<1>1. TypeOK /\ BookInv /\ f \in Frames
  BY DEF ContentInv, BookInv, FetchHit, TypeOK
<1>2. /\ Idle(c) /\ pages' = [pages EXCEPT ![f].pin_count = @ + 1]
      /\ pinned' = [pinned EXCEPT ![c] = p]
      /\ UNCHANGED <<page_table, disk, flush_cursor, wrote, flushing, touched>>
  BY DEF FetchHit
<1> HIDE DEF f
<1>3. \A g \in Frames : pages'[g].data = pages[g].data /\ pages'[g].is_dirty = pages[g].is_dirty
  BY <1>1, <1>2 DEF TypeOK, FrameType
<1>4. \A e \in Clients : pinned'[e] = IF e = c THEN p ELSE pinned[e]
  BY <1>1, <1>2 DEF TypeOK
<1>5. \A q \in PageIds : /\ Stored(q)' = Stored(q)
                         /\ page_table[q] # NoFrame => page_table[q] \in Frames
  BY <1>1, <1>2 DEF Stored, TypeOK
<1>6. CleanOnDisk'
  <2> SUFFICES ASSUME NEW q \in PageIds, page_table[q] # NoFrame, ~ pages'[page_table[q]].is_dirty,
                      \A e \in Clients : pinned'[e] = q => ~ wrote[e]
               PROVE  Stored(q) = pages'[page_table[q]].data
    BY <1>2, <1>5 DEF CleanOnDisk
  <2>1. \A e \in Clients : pinned[e] = q => ~ wrote[e]
    BY <1>2, <1>4, BufferPoolAssumption DEF Idle, PageIds
  <2> QED BY <1>3, <1>5, <2>1 DEF ContentInv, CleanOnDisk
<1>7. FlushesHeld'
  <2>1. \A e \in Clients : flushing[e] # NoFlush =>
           pinned'[e] = pinned[e] /\ page_table'[pinned[e]] = page_table[pinned[e]]
    BY <1>2, <1>4 DEF Idle
  <2> QED BY <1>1, <1>2, <2>1, FlushesKept DEF ContentInv
<1>8. FlushedInFile'
  BY <1>2, <1>3, <1>5 DEF ContentInv, FlushedInFile
<1>9. Content' = Content
  <2>1. \A q \in PageIds : Content'[q] = Content[q]
    BY <1>2, <1>3, <1>5, ContentAt, ContentNext
  <2> QED BY <2>1, ContentAt, ContentNext
<1>10. Store!Pin(c, p) /\ p \in Store!PageIds
  BY <1>2, <1>9 DEF Store!Pin, Idle, PageIds, Store!PageIds
<1>11. OwnWrites
  BY <1>2 DEF OwnWrites
<1> QED BY <1>6, <1>7, <1>8, <1>10, <1>11 DEF Faithful, Store!Next

(* A client's store changes the page it has pinned *)
LEMMA ClientWriteFaithful ==
    ASSUME ContentInv, NEW c \in Clients, NEW d \in Data, ClientWrite(c, d)
    PROVE  CleanOnDisk' /\ FlushesHeld' /\ FlushedInFile' /\ Faithful
<1> DEFINE p == pinned[c] f == page_table[p]
<1>1. TypeOK /\ BookInv /\ PageTableMatchesFrames
  BY DEF ContentInv, BookInv
<1>2. p \in PageIds /\ f \in Frames /\ f # NoFrame /\ p # NoPage
  BY <1>1, HeldFrame, BufferPoolAssumption DEF ClientWrite, Holds, Mapped
<1>3. /\ pages' = [pages EXCEPT ![f].data = d]
      /\ wrote' = [wrote EXCEPT ![c] = TRUE] /\ touched' = touched \cup {p}
      /\ UNCHANGED <<page_table, disk, flush_cursor, pinned, flushing>>
  BY DEF ClientWrite
<1>4. /\ \A g \in Frames \ {f} : pages'[g] = pages[g]
      /\ pages'[f].data = d
  BY <1>1, <1>2, <1>3 DEF TypeOK, FrameType
<1>5. \A e \in Clients : wrote'[e] = IF e = c THEN TRUE ELSE wrote[e]
  BY <1>1, <1>3 DEF TypeOK
<1>6. \A q \in PageIds \ {p} : page_table[q] # NoFrame =>
         page_table[q] \in Frames /\ pages'[page_table[q]] = pages[page_table[q]]
  <2>1. \A q \in PageIds \ {p} : page_table[q] # f
    BY <1>1, <1>2 DEF PageTableMatchesFrames
  <2> QED BY <1>1, <1>4, <2>1 DEF TypeOK
<1>7. \A q \in PageIds : Stored(q)' = Stored(q)
  BY <1>3 DEF Stored
<1> HIDE DEF f
<1>8. CleanOnDisk'
  BY <1>2, <1>3, <1>5, <1>6, <1>7, ZenonT(40) DEF ContentInv, CleanOnDisk
<1>9. FlushesHeld'
  BY <1>3 DEF ContentInv, FlushesHeld
<1>10. FlushedInFile'
  BY <1>3, <1>6, <1>7 DEF ContentInv, FlushedInFile
<1>11. Content' = [Content EXCEPT ![p] = d]
  <2>1. Content'[p] = d
    BY <1>2, <1>3, <1>4, ContentNext DEF f
  <2>2. ASSUME NEW q \in PageIds \ {p} PROVE Content'[q] = Content[q]
    <3>1. CASE page_table[q] = NoFrame
      BY <1>3, <1>7, <3>1, ContentAt, ContentNext
    <3>2. CASE page_table[q] # NoFrame
      <4>1. /\ page_table'[q] = page_table[q]
            /\ pages'[page_table[q]].data = pages[page_table[q]].data
        BY <1>3, <1>6, <3>2
      <4>2. Content[q] = pages[page_table[q]].data
        BY <3>2, ContentAt
      <4>3. Content'[q] = pages'[page_table'[q]].data
        BY <3>2, <4>1, ContentNext
      <4> QED BY <4>1, <4>2, <4>3
    <3> QED BY <3>1, <3>2
  <2> QED BY <1>2, <2>1, <2>2, ContentAt, ContentNext
<1>12. Store!Write(c, d)
  BY <1>2, <1>3, <1>11 DEF Store!Write
<1>13. OwnWrites
  BY <1>3 DEF OwnWrites
<1> QED BY <1>8, <1>9, <1>10, <1>12, <1>13 DEF Faithful, Store!Next

(* UnpinPage marks the page dirty if its client changed it *)
LEMMA UnpinFaithful ==
    ASSUME ContentInv, NEW c \in Clients, UnpinPg(c)
    PROVE  CleanOnDisk' /\ FlushesHeld' /\ FlushedInFile' /\ Faithful
<1> DEFINE p == pinned[c] f == page_table[p]
<1>1. TypeOK /\ BookInv /\ PageTableMatchesFrames
  BY DEF ContentInv, BookInv
<1>2. p \in PageIds /\ f \in Frames /\ f # NoFrame /\ p # NoPage /\ flushing[c] = NoFlush
  BY <1>1, HeldFrame, BufferPoolAssumption DEF UnpinPg, Holds, Mapped
<1>3. /\ pages' = [pages EXCEPT ![f].pin_count = @ - 1, ![f].is_dirty = @ \/ wrote[c]]
      /\ pinned' = [pinned EXCEPT ![c] = NoPage]
      /\ wrote' = [wrote EXCEPT ![c] = FALSE]
      /\ UNCHANGED <<page_table, disk, flush_cursor, flushing, touched>>
  BY DEF UnpinPg
<1>4. /\ \A g \in Frames : pages'[g].data = pages[g].data
      /\ \A g \in Frames \ {f} : pages'[g].is_dirty = pages[g].is_dirty
      /\ pages'[f].is_dirty = (pages[f].is_dirty \/ wrote[c])
  BY <1>1, <1>2, <1>3 DEF TypeOK, FrameType
<1>5. \A e \in Clients : /\ pinned'[e] = IF e = c THEN NoPage ELSE pinned[e]
                         /\ wrote'[e] = IF e = c THEN FALSE ELSE wrote[e]
  BY <1>1, <1>3 DEF TypeOK
<1>6. \A q \in PageIds : /\ Stored(q)' = Stored(q)
                         /\ page_table[q] # NoFrame => page_table[q] \in Frames
                         /\ q # p => page_table[q] # f
  BY <1>1, <1>2, <1>3 DEF Stored, TypeOK, PageTableMatchesFrames
<1>7. CleanOnDisk'
  <2> SUFFICES ASSUME NEW q \in PageIds, page_table[q] # NoFrame, ~ pages'[page_table[q]].is_dirty,
                      \A e \in Clients : pinned'[e] = q => ~ wrote'[e]
               PROVE  Stored(q) = pages'[page_table[q]].data
    BY <1>3, <1>6 DEF CleanOnDisk
  <2>1. ~ pages[page_table[q]].is_dirty /\ (q = p => ~ wrote[c])
    BY <1>4, <1>6
  <2>2. \A e \in Clients : pinned[e] = q => ~ wrote[e]
    BY <1>5, <2>1
  <2> QED BY <1>4, <1>6, <2>1, <2>2 DEF ContentInv, CleanOnDisk
<1>8. FlushesHeld'
  <2>1. \A e \in Clients : flushing[e] # NoFlush =>
           pinned'[e] = pinned[e] /\ page_table'[pinned[e]] = page_table[pinned[e]]
    BY <1>2, <1>3, <1>5
  <2> QED BY <1>1, <1>3, <2>1, FlushesKept DEF ContentInv
<1>9. FlushedInFile'
  BY <1>3, <1>4, <1>6 DEF ContentInv, FlushedInFile
<1>10. Content' = Content
  <2>1. ASSUME NEW q \in PageIds PROVE Content'[q] = Content[q]
    <3>1. CASE page_table[q] = NoFrame
      BY <1>3, <1>6, <3>1, ContentAt, ContentNext
    <3>2. CASE page_table[q] # NoFrame
      <4>1. page_table[q] \in Frames
        BY <1>6, <3>2
      <4> QED BY <1>3, <1>4, <3>2, <4>1, ContentAt, ContentNext
    <3> QED BY <3>1, <3>2
  <2> QED BY <2>1, ContentAt, ContentNext
<1>11. Store!Unpin(c)
  BY <1>2, <1>3, <1>10 DEF Store!Unpin
<1>12. OwnWrites
  BY <1>3 DEF OwnWrites
<1> QED BY <1>7, <1>8, <1>9, <1>11, <1>12 DEF Faithful, Store!Next

(* A write of page p's own contents from its frame to the file, by          *)
(* FlushPage, or by FlushAllPages when it moves its cursor past that frame  *)
LEMMA WriteOutFaithful ==
    ASSUME ContentInv, NEW p \in PageIds, page_table[p] # NoFrame,
           disk' = [disk EXCEPT ![p] = pages[page_table[p]].data],
           UNCHANGED <<pages, page_table, pinned, wrote, touched>>,
           \A q \in PageIds \ {p} :
              page_table[q] # NoFrame /\ page_table[q] < flush_cursor'
              => page_table[q] < flush_cursor
    PROVE  CleanOnDisk' /\ FlushedInFile' /\ Faithful
<1>1. TypeOK /\ page_table[p] \in Frames /\ pages[page_table[p]].data \in Data
  BY DEF ContentInv, BookInv, TypeOK, FrameType
<1>2. /\ disk'[p] = pages[page_table[p]].data
      /\ \A q \in PageIds \ {p} : disk'[q] = disk[q] /\ Stored(q)' = Stored(q)
  BY <1>1 DEF TypeOK, Stored
<1>3. Stored(p)' = pages[page_table[p]].data
  BY <1>1, <1>2, StoredIs
<1>4. CleanOnDisk'
  BY <1>2, <1>3 DEF ContentInv, CleanOnDisk
<1>5. FlushedInFile'
  BY <1>2, <1>3 DEF ContentInv, FlushedInFile
<1>6. Content' = Content
  <2>1. \A q \in PageIds : Content'[q] = Content[q]
    BY <1>2, <1>3, ContentAt, ContentNext
  <2> QED BY <2>1, ContentAt, ContentNext
<1>7. OwnWrites
  BY <1>2, ContentAt DEF OwnWrites
<1> QED BY <1>4, <1>5, <1>6, <1>7 DEF Faithful

(* FlushPage writes the page its caller has pinned *)
LEMMA FlushWriteFaithful ==
    ASSUME ContentInv, NEW c \in Clients, FlushWrite(c)
    PROVE  CleanOnDisk' /\ FlushesHeld' /\ FlushedInFile' /\ Faithful
<1> DEFINE p == pinned[c]
<1>1. BookInv /\ TypeOK
  BY DEF ContentInv, BookInv
<1>2. p # NoPage /\ flushing[c] = <<p, page_table[p]>>
  BY DEF ContentInv, FlushesHeld, FlushWrite
<1>3. p \in PageIds /\ page_table[p] # NoFrame
  BY <1>1, <1>2, HeldFrame, BufferPoolAssumption DEF Mapped
<1>4. disk' = [disk EXCEPT ![p] = pages[page_table[p]].data]
  BY <1>2 DEF FlushWrite
<1>5. /\ UNCHANGED <<pages, page_table, pinned, wrote, touched, flush_cursor>>
      /\ flushing' = [flushing EXCEPT ![c] = NoFlush]
  BY DEF FlushWrite
<1> HIDE DEF p
<1>6. FlushesHeld'
  BY <1>1, <1>5 DEF ContentInv, FlushesHeld, TypeOK
<1> QED BY <1>3, <1>4, <1>5, <1>6, WriteOutFaithful

(* A step that changes neither pages nor file nor pins *)
LEMMA QuietFaithful ==
    ASSUME ContentInv, UNCHANGED <<pages, page_table, disk, pinned, wrote>>,
           \A q \in PageIds \ touched' : page_table[q] # NoFrame /\ page_table[q] < flush_cursor'
                                         => q \notin touched /\ page_table[q] < flush_cursor
    PROVE  CleanOnDisk' /\ FlushedInFile' /\ Faithful
<1>1. \A q \in PageIds : Stored(q)' = Stored(q)
  BY DEF Stored
<1>2. CleanOnDisk' /\ FlushedInFile'
  BY <1>1 DEF ContentInv, CleanOnDisk, FlushedInFile
<1>3. Content' = Content
  BY <1>1 DEF Content
<1> QED BY <1>2, <1>3 DEF Faithful, OwnWrites

(* FlushAllPages passes one frame *)
LEMMA FlushAllStepFaithful ==
    ASSUME ContentInv, FlushAllStep
    PROVE  CleanOnDisk' /\ FlushesHeld' /\ FlushedInFile' /\ Faithful
<1> DEFINE f == flush_cursor p == pages[f].page_id
<1>1. TypeOK /\ PageTableMatchesFrames /\ f \in Frames
  BY LRUKAssumption DEF ContentInv, BookInv, FlushAllStep, TypeOK, Frames
<1>2. /\ UNCHANGED <<pages, page_table, pinned, wrote, flushing, touched>>
      /\ flush_cursor' = f + 1
  BY DEF FlushAllStep
<1>3. FlushesHeld'
  BY <1>2 DEF ContentInv, FlushesHeld
<1>4. \A q \in PageIds : page_table[q] # NoFrame => page_table[q] \in Frames
  BY <1>1 DEF TypeOK
<1>5. \A g \in Frames : g < f + 1 /\ g # f => g < f
  BY <1>1, LRUKAssumption DEF Frames
<1>6. CASE p = INVALID_PAGE_ID
  <2>1. \A q \in PageIds : page_table[q] # f
    BY <1>1, <1>6 DEF PageTableMatchesFrames, PageIds, INVALID_PAGE_ID
  <2>2. disk' = disk
    BY <1>6 DEF FlushAllStep
  <2> QED BY <1>2, <1>3, <1>4, <1>5, <2>1, <2>2, QuietFaithful
<1>7. CASE p # INVALID_PAGE_ID
  <2>1. p \in PageIds /\ page_table[p] = f
    BY <1>1, <1>7 DEF TypeOK, FrameType, PageTableMatchesFrames
  <2>2. page_table[p] # NoFrame
    BY <1>1, <2>1, BufferPoolAssumption
  <2>3. disk' = [disk EXCEPT ![p] = pages[page_table[p]].data]
    BY <1>7, <2>2 DEF FlushAllStep
  <2>4. \A q \in PageIds \ {p} : page_table[q] # f
    BY <1>1 DEF PageTableMatchesFrames
  <2>5. \A q \in PageIds \ {p} : page_table[q] # NoFrame /\ page_table[q] < flush_cursor'
                                 => page_table[q] < flush_cursor
    BY <1>2, <1>4, <1>5, <2>4
  <2> HIDE DEF f, p
  <2> QED BY <1>2, <1>3, <2>1, <2>2, <2>3, <2>5, WriteOutFaithful
<1> QED BY <1>6, <1>7

(* DeletePage forgets the contents of a page nobody has pinned *)
LEMMA DeleteFaithful ==
    ASSUME ContentInv, NEW p \in PageIds, DeletePg(p)
    PROVE  CleanOnDisk' /\ FlushesHeld' /\ FlushedInFile' /\ Faithful
<1> DEFINE f == page_table[p]
<1>1. TypeOK /\ PageTableMatchesFrames /\ PinsAreHeld /\ BookInv
  BY DEF ContentInv, BookInv
<1>2. f \in Frames /\ pages[f].page_id = p /\ f \in Mapped
  BY <1>1 DEF DeletePg, TypeOK, PageTableMatchesFrames, Mapped, PageIds, INVALID_PAGE_ID
<1>3. pages[f].pin_count = 0
  BY <1>1, <1>2, HoldersFinite DEF DeletePg, TypeOK, FrameType
<1>4. \A e \in Clients : pinned[e] # p
  <2>1. Cardinality(Holders(p)) = 0
    BY <1>1, <1>2, <1>3 DEF PinsAreHeld
  <2>2. Holders(p) = {}
    BY <2>1, HoldersFinite, FS_EmptySet
  <2> QED BY <2>2 DEF Holders
<1>5. /\ \A g \in Frames \ {f} : pages'[g] = pages[g]
      /\ \A q \in PageIds : page_table'[q] = IF q = p THEN NoFrame ELSE page_table[q]
      /\ UNCHANGED <<disk, flush_cursor, pinned, wrote, flushing, touched>>
  BY <1>1, <1>2 DEF DeletePg, TypeOK
<1>6. \A q \in PageIds \ {p} : page_table[q] # NoFrame =>
         page_table[q] \in Frames /\ pages'[page_table[q]] = pages[page_table[q]]
  <2>1. \A q \in PageIds \ {p} : page_table[q] # f
    BY <1>1, <1>2 DEF PageTableMatchesFrames
  <2> QED BY <1>1, <1>5, <2>1 DEF TypeOK
<1>7. \A q \in PageIds : Stored(q)' = Stored(q)
  BY <1>5 DEF Stored
<1> HIDE DEF f
<1>8. CleanOnDisk'
  BY <1>5, <1>6, <1>7 DEF ContentInv, CleanOnDisk
<1>9. FlushedInFile'
  BY <1>5, <1>6, <1>7 DEF ContentInv, FlushedInFile
<1>10. FlushesHeld'
  <2>1. \A e \in Clients : flushing[e] # NoFlush =>
           pinned'[e] = pinned[e] /\ page_table'[pinned[e]] = page_table[pinned[e]]
    BY <1>1, <1>4, <1>5 DEF ContentInv, FlushesHeld, TypeOK
  <2> QED BY <1>1, <1>5, <2>1, FlushesKept DEF ContentInv
<1>11. Content' = [Content EXCEPT ![p] = Stored(p)]
  <2>1. Content'[p] = Stored(p)
    BY <1>5, <1>7, ContentNext
  <2>2. \A q \in PageIds \ {p} : Content'[q] = Content[q]
    BY <1>5, <1>6, <1>7, ContentAt, ContentNext
  <2> QED BY <2>1, <2>2, ContentAt, ContentNext
<1>12. Stored(p) \in Data
  BY <1>1, BufferPoolAssumption DEF Stored, TypeOK
<1>13. Store!Delete(p) /\ p \in Store!PageIds
  BY <1>4, <1>5, <1>11, <1>12 DEF Store!Delete, PageIds, Store!PageIds
<1>14. OwnWrites
  BY <1>5 DEF OwnWrites
<1> QED BY <1>8, <1>9, <1>10, <1>13, <1>14 DEF Faithful, Store!Next

(* The contents invariant is inductive, and every step is faithful, if      *)
(* every caller of FlushPage has the page pinned                            *)
LEMMA ContentStep ==
    ASSUME PinnedFlush, ContentInv, [Next]_vars
    PROVE  ContentInv' /\ Faithful
<1>1. BookInv'
  BY BookStep DEF ContentInv
<1>2. TypeOK
  BY DEF ContentInv, BookInv
<1>3. ASSUME NEW c \in Clients, NEW p \in PageIds, FlushFind(c, p)
      PROVE  CleanOnDisk' /\ FlushesHeld' /\ FlushedInFile' /\ Faithful
  <2>1. FlushesHeld'
    BY <1>2, <1>3, BufferPoolAssumption DEF ContentInv, FlushesHeld, FlushFind, TypeOK, PageIds
  <2> QED BY <1>3, <2>1, QuietFaithful DEF FlushFind
<1>4. CASE FlushAllPgs
  <2>1. \A q \in PageIds : page_table[q] # NoFrame => ~ (page_table[q] < 0)
    BY <1>2, LRUKAssumption DEF TypeOK, Frames
  <2> QED BY <1>1, <1>4, <2>1, QuietFaithful DEF FlushAllPgs, ContentInv, FlushesHeld
<1>5. CASE UNCHANGED vars
  BY <1>1, <1>5, QuietFaithful DEF vars, ContentInv, FlushesHeld
<1> QED BY <1>1, <1>3, <1>4, <1>5, NewPgFaithful, FetchHitFaithful, FetchMissFaithful,
        ClientWriteFaithful, UnpinFaithful, FlushWriteFaithful, FlushAllStepFaithful,
        DeleteFaithful DEF Next, ContentInv

(* An empty pool over whatever file an earlier process left *)
LEMMA ContentInit == Init => ContentInv /\ Store!Init
<1> SUFFICES ASSUME Init PROVE ContentInv /\ Store!Init
  OBVIOUS
<1>1. BookInv
  BY BookInit
<1>2. CleanOnDisk /\ FlushesHeld /\ FlushedInFile
  BY DEF Init, CleanOnDisk, FlushesHeld, FlushedInFile
<1>3. Content \in [PageIds -> Data]
  BY <1>1, ContentTyped DEF BookInv
<1> QED BY <1>1, <1>2, <1>3 DEF ContentInv, Store!Init, Init, PageIds, Store!PageIds

(* The contents invariant holds after any sequence of calls whose callers   *)
(* of FlushPage have the page pinned                                        *)
LEMMA ContentInductive == ASSUME PinnedFlush PROVE Spec => []ContentInv
<1>1. Init => ContentInv
  BY ContentInit
<1>2. ContentInv /\ [Next]_vars => ContentInv'
  BY ContentStep
<1> QED BY <1>1, <1>2, PTL DEF Spec

(* When FlushAllPages has passed a page that nobody changed meanwhile, the  *)
(* page is in the file, for every pool and any interleaving.                *)
THEOREM FlushAllIsDurable == ASSUME PinnedFlush PROVE Spec => []FlushAllDurable
<1>1. ContentInv => FlushAllDurable
  BY ContentAt DEF ContentInv, FlushedInFile, FlushAllDurable
<1> QED BY <1>1, ContentInductive, PTL

(* What any step writes to a page of the file is that page's contents.      *)
THEOREM WritesAreOwn == ASSUME PinnedFlush PROVE Spec => WritesOwnContents
<1>1. ContentInv /\ [Next]_vars
      => [\A p \in PageIds : disk'[p] # disk[p] => disk'[p] = Content[p]]_vars
  BY ContentStep DEF Faithful, OwnWrites
<1> QED BY <1>1, ContentInductive, PTL DEF Spec, WritesOwnContents

(* The buffer pool implements the page store: no fetch, unpin, eviction or  *)
(* flush, in any order and by any number of clients, changes the contents   *)
(* of a page.                                                               *)
THEOREM PoolImplementsStore == ASSUME PinnedFlush PROVE Spec => ImplementsPageStore
<1>1. Init => Store!Init
  BY ContentInit
<1>2. ContentInv /\ [Next]_vars => [Store!Next]_(Store!vars)
  BY ContentStep DEF Faithful, Store!vars
<1> QED BY <1>1, <1>2, ContentInductive, PTL DEF Spec, ImplementsPageStore, Store!Spec
=============================================================================
