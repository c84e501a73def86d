--------------------------- MODULE BPlusTreeProofs ---------------------------
(***************************************************************************)
(* The B+ tree, for every set of keys and pages, every leaf size from 2 and *)
(* every internal size from 3 on.                                           *)
(*                                                                          *)
(* The invariant gives each page what its place in the tree says of it: its *)
(* level above the leaves, and the interval [lo, hi) of the keys a search   *)
(* takes through it (hi = 0: no upper end). The pages of a level have       *)
(* disjoint intervals, so each fact is about a page and its children or     *)
(* about two pages, and no step needs an induction over the tree. While a   *)
(* page old has been split and its right half new is not yet linked, the    *)
(* pair <<old, new>> stands for the page; both are 0 otherwise.             *)
(***************************************************************************)
EXTENDS BPlusTree, SequenceTheorems, FiniteSetTheorems, WellFoundedInduction, TLAPS

(* Bounds of intervals *)
Below(k, h) == h = 0 \/ k < h
Apart(lo, hi, p, q) == \/ hi[p] # 0 /\ hi[p] <= lo[q]
                       \/ hi[q] # 0 /\ hi[q] <= lo[p]
Top(hi, old, new, c) == IF c = old THEN hi[new] ELSE hi[c]

(* The interval of the i-th child of a page with these entries *)
LowAt(items, low, i) == IF i = 1 THEN low ELSE items[i][1]
HighAt(items, high, i) == IF i = Len(items) THEN high ELSE items[i + 1][1]

Entries == Seq(Nat \X Nat)
PageType == [leaf : BOOLEAN, items : Entries, next : Nat \cup {None}, parent : Nat \cup {None}]

(* The entries of a leaf and of an internal page whose interval is [low, high) *)
LeafItems(items, low, high) ==
    /\ \A i \in 1..Len(items) : /\ items[i][1] \in Keys /\ items[i][2] = Rid[items[i][1]]
                                /\ low <= items[i][1] /\ Below(items[i][1], high)
    /\ \A i, j \in 1..Len(items) : i < j => items[i][1] < items[j][1]

InnerItems(items, low, high) ==
    /\ Len(items) >= 1
    /\ \A i \in 1..Len(items) : items[i][1] \in Keys \cup {0}
    /\ \A i \in 2..Len(items) : /\ items[i][1] \in Keys
                                /\ low < items[i][1] /\ Below(items[i][1], high)
    /\ \A i, j \in 2..Len(items) : i < j => items[i][1] < items[j][1]

(* The children these entries point to have the intervals between the keys *)
Kids(D, level, lo, hi, old, new, items, low, high, lev) ==
    \A i \in 1..Len(items) :
        /\ items[i][2] \in D
        /\ level[items[i][2]] + 1 = lev
        /\ lo[items[i][2]] = LowAt(items, low, i)
        /\ Top(hi, old, new, items[i][2]) = HighAt(items, high, i)

(* One page *)
PlaceOK(nd, rt, level, lo, hi, p) ==
    /\ nd[p].leaf <=> level[p] = 0
    /\ Below(lo[p], hi[p])
    /\ level[p] <= level[rt]

LeafOK(nd, lo, hi, p) ==
    nd[p].leaf => /\ LeafItems(nd[p].items, lo[p], hi[p])
                  /\ IF nd[p].next = None THEN hi[p] = 0
                     ELSE /\ nd[p].next \in DOMAIN nd /\ nd[nd[p].next].leaf
                          /\ hi[p] # 0 /\ lo[nd[p].next] = hi[p]

InnerOK(nd, level, lo, hi, old, new, p) ==
    ~ nd[p].leaf =>
        /\ nd[p].next = None
        /\ InnerItems(nd[p].items, lo[p], hi[p])
        /\ Kids(DOMAIN nd, level, lo, hi, old, new, nd[p].items, lo[p], hi[p], level[p])
        /\ \A i \in 1..Len(nd[p].items) : nd[nd[p].items[i][2]].parent = p

LinkOK(nd, rt, new, p) ==
    (p # rt /\ p # new) =>
        /\ nd[p].parent \in DOMAIN nd
        /\ ~ nd[nd[p].parent].leaf
        /\ \E i \in 1..Len(nd[nd[p].parent].items) : nd[nd[p].parent].items[i][2] = p

(* The pages together *)
TypesOK(nd, level, lo, hi) ==
    /\ DOMAIN nd \subseteq Pages
    /\ nd \in [DOMAIN nd -> PageType]
    /\ level \in [Nat -> Nat] /\ lo \in [Nat -> Nat] /\ hi \in [Nat -> Nat]

RootOK(nd, rt, lo, hi, old, new) ==
    rt \in DOMAIN nd /\ nd[rt].parent = None /\ lo[rt] = 0 /\ Top(hi, old, new, rt) = 0

PendingOK(nd, level, lo, hi, old, new) ==
    \/ old = 0 /\ new = 0
    \/ /\ old \in DOMAIN nd /\ new \in DOMAIN nd /\ old # new
       /\ level[old] = level[new] /\ nd[old].parent = nd[new].parent
       /\ hi[old] = lo[new] /\ lo[new] \in Keys

Disjoint(D, level, lo, hi) ==
    \A p, q \in D : (p # q /\ level[p] = level[q]) => Apart(lo, hi, p, q)

Structure(nd, rt, old, new, level, lo, hi) ==
    /\ TypesOK(nd, level, lo, hi)
    /\ RootOK(nd, rt, lo, hi, old, new)
    /\ PendingOK(nd, level, lo, hi, old, new)
    /\ Disjoint(DOMAIN nd, level, lo, hi)
    /\ \A p \in DOMAIN nd : /\ PlaceOK(nd, rt, level, lo, hi, p)
                            /\ LeafOK(nd, lo, hi, p)
                            /\ InnerOK(nd, level, lo, hi, old, new, p)
                            /\ LinkOK(nd, rt, new, p)

(* The number of entries; weak is a page that has just lost one *)
MaxOf(nd, p) == IF nd[p].leaf THEN LeafMax - 1 ELSE InternalMax
HalfOf(nd, p) == IF nd[p].leaf THEN LeafMax \div 2 ELSE (InternalMax + 1) \div 2
Missing(weak, p) == IF p = weak THEN 1 ELSE 0
SizeOK(nd, rt, weak, p) ==
    /\ Len(nd[p].items) <= MaxOf(nd, p)
    /\ Len(nd[p].items) + Missing(weak, p) >= IF nd[p].leaf THEN 1 ELSE 2
    /\ p # rt => Len(nd[p].items) + Missing(weak, p) >= HalfOf(nd, p)
(* Only the root may be less than half full, and not when it was just split *)
Exempt(rt, old) == IF old = rt THEN 0 ELSE rt
Sizes(nd, rt, weak) == \A p \in DOMAIN nd : SizeOK(nd, rt, weak, p)

(* What the running call still has to do *)
OpOK(o, D, old, new, weak, lo) ==
    \/ o = Idle /\ old = 0 /\ new = 0 /\ weak = 0
    \/ old # 0 /\ o = Parent(old, lo[new], new) /\ weak = 0
    \/ weak \in D /\ o = Rebalance(weak) /\ old = 0 /\ new = 0

(* The pages are finitely many, and so are the starts of their intervals *)
Bounded(D, lo, bound) == IsFiniteSet(D) /\ bound \in Nat /\ \A p \in D : lo[p] <= bound

TreeOK(nd, rt, o) ==
    \/ rt = None /\ DOMAIN nd = {} /\ o = Idle
    \/ /\ rt # None
       /\ \E level, lo, hi, old, new, weak, bound :
              /\ Structure(nd, rt, old, new, level, lo, hi)
              /\ Sizes(nd, Exempt(rt, old), weak)
              /\ OpOK(o, DOMAIN nd, old, new, weak, lo)
              /\ Bounded(DOMAIN nd, lo, bound)

TreeInv == TreeOK(node, root, op)

(* The keys in the leaves *)
HasIn(items, k) == \E i \in 1..Len(items) : items[i][1] = k
Stored(nd) == {k \in Keys : \E p \in DOMAIN nd : nd[p].leaf /\ HasIn(nd[p].items, k)}
-----------------------------------------------------------------------------
(* A nonempty set of natural numbers has a least element *)
LEMMA LeastOfNats ==
    ASSUME NEW T, T \subseteq Nat, T # {}
    PROVE  \E x \in T : \A y \in T : x <= y
<1>1. PICK x \in T : \A y \in T : ~ (<<y, x>> \in OpToRel(<, Nat))
  BY NatLessThanWellFounded, WFMin
<1>2. \A y \in T : ~ (y < x)
  BY <1>1 DEF OpToRel
<1> QED BY <1>2

(* and one with an upper bound a greatest *)
LEMMA GreatestOfNats ==
    ASSUME NEW T, NEW n \in Nat, T \subseteq 0..n, T # {}
    PROVE  \E x \in T : \A y \in T : y <= x
<1> DEFINE U == {n - x : x \in T}
<1>1. U \subseteq Nat /\ U # {}
  <2>1. PICK x \in T : TRUE
    OBVIOUS
  <2>2. n - x \in U
    BY <2>1
  <2>3. \A y \in T : n - y \in Nat
    OBVIOUS
  <2> QED BY <2>2, <2>3
<1>2. PICK u \in U : \A v \in U : u <= v
  <2> HIDE DEF U
  <2> QED BY <1>1, LeastOfNats
<1>3. PICK x \in T : u = n - x
  OBVIOUS
<1>4. \A y \in T : n - y \in U
  OBVIOUS
<1> HIDE DEF U
<1> QED BY <1>2, <1>3, <1>4

(* Entries I with entry e put after the j-th *)
Inserted(I, J, j, e) ==
    /\ J \in Entries /\ Len(J) = Len(I) + 1 /\ J[j + 1] = e
    /\ \A i \in 1..j : J[i] = I[i]
    /\ \A i \in (j + 1)..Len(I) : J[i + 1] = I[i]

LEMMA InsertAtInserts ==
    ASSUME NEW I \in Entries, NEW j \in 0..Len(I), NEW e, e \in Nat \X Nat, NEW J, J = InsertAt(I, j + 1, e)
    PROVE  Inserted(I, J, j, e)
<1>1. PICK S : S = Nat \X Nat
  OBVIOUS
<1>2. PICK a : a = SubSeq(I, 1, j)
  OBVIOUS
<1>3. PICK b : b = SubSeq(I, j + 1, Len(I))
  OBVIOUS
<1>4. I \in Seq(S) /\ Len(I) \in Nat /\ e \in S /\ j \in Nat /\ j <= Len(I)
  BY <1>1 DEF Entries
<1>5. a \in Seq(S) /\ Len(a) = j /\ \A i \in 1..j : a[i] = I[i]
  BY ONLY <1>2, <1>4
<1>6. b \in Seq(S) /\ Len(b) = Len(I) - j /\ \A i \in 1..(Len(I) - j) : b[i] = I[i + j]
  BY ONLY <1>3, <1>4
<1>7. J = (a \o <<e>>) \o b
  <2>1. PICK w : w = j + 1
    OBVIOUS
  <2>2. w - 1 = j
    BY ONLY <1>4, <2>1
  <2>3. InsertAt(I, w, e) = (SubSeq(I, 1, w - 1) \o <<e>>) \o SubSeq(I, w, Len(I))
    BY DEF InsertAt
  <2> QED BY <1>2, <1>3, <2>1, <2>2, <2>3, Zenon
<1>8. PICK c : c = a \o <<e>>
  OBVIOUS
<1>9. c \in Seq(S) /\ Len(c) = j + 1 /\ c[j + 1] = e /\ \A i \in 1..j : c[i] = I[i]
  BY ONLY <1>4, <1>5, <1>8, SMTT(40)
<1>10. J \in Seq(S) /\ Len(J) = Len(I) + 1
  <2>1. c \o b \in Seq(S) /\ Len(c \o b) = Len(c) + Len(b)
    BY ONLY <1>6, <1>9, ConcatProperties
  <2>2. J = c \o b
    BY ONLY <1>7, <1>8
  <2>3. Len(c) + Len(b) = Len(I) + 1
    BY ONLY <1>4, <1>6, <1>9
  <2> QED BY ONLY <2>1, <2>2, <2>3
<1>11. \A i \in 1..(j + 1) : J[i] = c[i]
  BY ONLY <1>4, <1>6, <1>7, <1>8, <1>9
<1>12. ASSUME NEW i \in (j + 1)..Len(I) PROVE J[i + 1] = I[i]
  <2>1. J[i + 1] = b[i - j] /\ i - j \in 1..(Len(I) - j) /\ (i - j) + j = i
    BY ONLY <1>4, <1>6, <1>7, <1>8, <1>9, <1>12
  <2> QED BY ONLY <1>6, <2>1
<1>13. \A i \in 1..j : i \in 1..(j + 1)
  BY ONLY <1>4
<1>14. j + 1 \in 1..(j + 1)
  BY ONLY <1>4
<1> QED BY ONLY <1>1, <1>9, <1>10, <1>11, <1>12, <1>13, <1>14 DEF Inserted, Entries

LEMMA RemoveAtIs ==
    ASSUME NEW S, NEW s \in Seq(S), NEW i \in 1..Len(s)
    PROVE  /\ RemoveAt(s, i) \in Seq(S) /\ Len(RemoveAt(s, i)) = Len(s) - 1
           /\ \A j \in 1..(Len(s) - 1) : RemoveAt(s, i)[j] = IF j < i THEN s[j] ELSE s[j + 1]
<1> DEFINE a == SubSeq(s, 1, i - 1)
           b == SubSeq(s, i + 1, Len(s))
<1>1. a \in Seq(S) /\ Len(a) = i - 1 /\ \A j \in 1..(i - 1) : a[j] = s[j]
  OBVIOUS
<1>2. b \in Seq(S) /\ Len(b) = Len(s) - i /\ \A j \in 1..(Len(s) - i) : b[j] = s[i + j]
  OBVIOUS
<1>3. RemoveAt(s, i) = a \o b
  BY DEF RemoveAt
<1> HIDE DEF a, b
<1>4. a \o b \in Seq(S) /\ Len(a \o b) = Len(s) - 1
  <2>1. a \o b \in Seq(S) /\ Len(a \o b) = Len(a) + Len(b)
    BY <1>1, <1>2, ConcatProperties
  <2>2. Len(a) = i - 1 /\ Len(b) = Len(s) - i
    BY <1>1, <1>2
  <2> QED BY <2>1, <2>2
<1>5. ASSUME NEW j \in 1..(Len(s) - 1) PROVE (a \o b)[j] = IF j < i THEN s[j] ELSE s[j + 1]
  <2>1. CASE j < i
    BY <1>1, <1>2, <2>1
  <2>2. CASE ~ (j < i)
    <3>1. (a \o b)[j] = b[j - (i - 1)] /\ j - (i - 1) \in 1..(Len(s) - i)
      BY <1>1, <1>2, <2>2
    <3> QED BY <1>2, <2>2, <3>1
  <2> QED BY <2>1, <2>2
<1> QED BY <1>3, <1>4, <1>5

LEMMA CutIs ==
    ASSUME NEW S, NEW s \in Seq(S), NEW m \in 0..Len(s)
    PROVE  /\ SubSeq(s, 1, m) \in Seq(S) /\ Len(SubSeq(s, 1, m)) = m
           /\ \A j \in 1..m : SubSeq(s, 1, m)[j] = s[j]
           /\ SubSeq(s, m + 1, Len(s)) \in Seq(S) /\ Len(SubSeq(s, m + 1, Len(s))) = Len(s) - m
           /\ \A j \in 1..(Len(s) - m) : SubSeq(s, m + 1, Len(s))[j] = s[j + m]
OBVIOUS
-----------------------------------------------------------------------------
(* The pages with new entries in page p *)
LEMMA ItemsChange ==
    ASSUME NEW nd, nd \in [DOMAIN nd -> PageType], NEW p \in DOMAIN nd, NEW items \in Entries,
           NEW nd2, nd2 = [nd EXCEPT ![p].items = items]
    PROVE  /\ DOMAIN nd2 = DOMAIN nd /\ nd2 \in [DOMAIN nd -> PageType]
           /\ nd2[p].items = items
           /\ \A q \in DOMAIN nd : /\ nd2[q].leaf = nd[q].leaf /\ nd2[q].next = nd[q].next
                                   /\ nd2[q].parent = nd[q].parent
                                   /\ q # p => nd2[q].items = nd[q].items
BY DEF PageType

(* A leaf may get any entries of its interval *)
LEMMA LeafChange ==
    ASSUME NEW nd, NEW rt, NEW old, NEW new, NEW level, NEW lo, NEW hi,
           Structure(nd, rt, old, new, level, lo, hi),
           NEW p \in DOMAIN nd, nd[p].leaf, NEW items \in Entries, LeafItems(items, lo[p], hi[p]),
           NEW nd2, nd2 = [nd EXCEPT ![p].items = items]
    PROVE  Structure(nd2, rt, old, new, level, lo, hi)
<1> DEFINE D == DOMAIN nd
<1>1. nd \in [D -> PageType]
  BY DEF Structure, TypesOK
<1>2. /\ DOMAIN nd2 = D /\ nd2 \in [D -> PageType] /\ nd2[p].items = items
      /\ \A q \in D : /\ nd2[q].leaf = nd[q].leaf /\ nd2[q].next = nd[q].next
                      /\ nd2[q].parent = nd[q].parent
                      /\ q # p => nd2[q].items = nd[q].items
  BY <1>1, ItemsChange
<1>3. TypesOK(nd2, level, lo, hi)
  BY <1>2 DEF Structure, TypesOK
<1>4. RootOK(nd2, rt, lo, hi, old, new)
  BY <1>2 DEF Structure, RootOK
<1>5. PendingOK(nd2, level, lo, hi, old, new)
  BY <1>2 DEF Structure, PendingOK
<1>6. Disjoint(DOMAIN nd2, level, lo, hi)
  BY <1>2 DEF Structure
<1>7. ASSUME NEW q \in D
      PROVE  /\ PlaceOK(nd2, rt, level, lo, hi, q)
             /\ LeafOK(nd2, lo, hi, q)
             /\ InnerOK(nd2, level, lo, hi, old, new, q)
             /\ LinkOK(nd2, rt, new, q)
  <2>1. /\ PlaceOK(nd, rt, level, lo, hi, q)
        /\ LeafOK(nd, lo, hi, q)
        /\ InnerOK(nd, level, lo, hi, old, new, q)
        /\ LinkOK(nd, rt, new, q)
    BY DEF Structure
  <2>2. PlaceOK(nd2, rt, level, lo, hi, q)
    BY <1>2, <2>1 DEF PlaceOK
  <2>3. LeafOK(nd2, lo, hi, q)
    BY <1>2, <2>1 DEF LeafOK
  <2>4. InnerOK(nd2, level, lo, hi, old, new, q)
    <3>1. SUFFICES ASSUME ~ nd2[q].leaf PROVE InnerOK(nd2, level, lo, hi, old, new, q)
      BY DEF InnerOK
    <3>2. q # p /\ nd2[q].items = nd[q].items /\ ~ nd[q].leaf
      BY <1>2, <3>1
    <3> QED BY <1>2, <2>1, <3>2 DEF InnerOK, Kids
  <2>5. LinkOK(nd2, rt, new, q)
    BY <1>2, <2>1 DEF LinkOK
  <2> QED BY <2>2, <2>3, <2>4, <2>5
<1> QED BY <1>2, <1>3, <1>4, <1>5, <1>6, <1>7 DEF Structure
-----------------------------------------------------------------------------
(* What the structure says of a page's number *)
LEMMA PageIds ==
    ASSUME NEW nd, NEW level, NEW lo, NEW hi, TypesOK(nd, level, lo, hi), NEW p \in DOMAIN nd
    PROVE  /\ p \in Nat /\ p # 0 /\ p # None /\ p \in Pages
           /\ level[p] \in Nat /\ lo[p] \in Nat /\ hi[p] \in Nat
           /\ nd[p].leaf \in BOOLEAN /\ nd[p].items \in Entries
           /\ nd[p].next \in Nat \cup {None} /\ nd[p].parent \in Nat \cup {None}
           /\ Len(nd[p].items) \in Nat
<1>1. p \in Nat /\ p # 0 /\ p # None /\ p \in Pages
  BY TreeAssumption DEF TypesOK
<1>2. nd[p] \in PageType /\ level[p] \in Nat /\ lo[p] \in Nat /\ hi[p] \in Nat
  BY <1>1 DEF TypesOK
<1> QED BY <1>1, <1>2 DEF PageType, Entries

(* Two pages of a level have no key in common, nor an end *)
LEMMA SamePlace ==
    ASSUME NEW nd, NEW rt, NEW old, NEW new, NEW level, NEW lo, NEW hi,
           Structure(nd, rt, old, new, level, lo, hi),
           NEW p \in DOMAIN nd, NEW q \in DOMAIN nd, level[p] = level[q]
    PROVE  /\ \A k \in Nat : (/\ lo[p] <= k /\ Below(k, hi[p])
                              /\ lo[q] <= k /\ Below(k, hi[q])) => p = q
           /\ lo[p] = lo[q] => p = q
           /\ hi[p] = hi[q] => p = q
<1>1. /\ lo[p] \in Nat /\ hi[p] \in Nat /\ Below(lo[p], hi[p])
      /\ lo[q] \in Nat /\ hi[q] \in Nat /\ Below(lo[q], hi[q])
  BY PageIds DEF Structure, PlaceOK
<1>2. p # q => Apart(lo, hi, p, q)
  BY DEF Structure, Disjoint
<1> QED BY <1>1, <1>2 DEF Apart, Below

(* A child of an internal page *)
LEMMA KidFacts ==
    ASSUME NEW nd, NEW rt, NEW old, NEW new, NEW level, NEW lo, NEW hi,
           Structure(nd, rt, old, new, level, lo, hi),
           NEW p \in DOMAIN nd, ~ nd[p].leaf,
           NEW i \in 1..Len(nd[p].items), NEW c, c = nd[p].items[i][2]
    PROVE  /\ c \in DOMAIN nd /\ c # p /\ c # rt /\ level[c] + 1 = level[p] /\ nd[c].parent = p
           /\ lo[c] = LowAt(nd[p].items, lo[p], i)
           /\ Top(hi, old, new, c) = HighAt(nd[p].items, hi[p], i)
<1>1. TypesOK(nd, level, lo, hi) /\ RootOK(nd, rt, lo, hi, old, new)
  BY DEF Structure
<1>2. InnerOK(nd, level, lo, hi, old, new, p)
  BY DEF Structure
<1>3. /\ c \in DOMAIN nd /\ level[c] + 1 = level[p] /\ nd[c].parent = p
      /\ lo[c] = LowAt(nd[p].items, lo[p], i)
      /\ Top(hi, old, new, c) = HighAt(nd[p].items, hi[p], i)
  BY <1>2 DEF InnerOK, Kids
<1>4. level[c] \in Nat /\ level[p] \in Nat /\ p # None
  BY <1>1, <1>3, PageIds
<1>5. c # p
  BY <1>3, <1>4
<1>6. c # rt
  BY <1>1, <1>3, <1>4 DEF RootOK
<1> QED BY <1>3, <1>5, <1>6

(* is there once only *)
LEMMA KidsDistinct ==
    ASSUME NEW nd, NEW rt, NEW old, NEW new, NEW level, NEW lo, NEW hi,
           Structure(nd, rt, old, new, level, lo, hi),
           NEW p \in DOMAIN nd, ~ nd[p].leaf,
           NEW i \in 1..Len(nd[p].items), NEW j \in 1..Len(nd[p].items), i # j
    PROVE  nd[p].items[i][2] # nd[p].items[j][2]
<1>1. ASSUME NEW a \in 1..Len(nd[p].items), NEW b \in 1..Len(nd[p].items), a < b
      PROVE  nd[p].items[a][2] # nd[p].items[b][2]
  <2>1. Len(nd[p].items) \in Nat /\ lo[p] \in Nat /\ nd[p].items \in Entries
    BY PageIds DEF Structure
  <2>2. InnerItems(nd[p].items, lo[p], hi[p])
    BY DEF Structure, InnerOK
  <2>3. b \in 2..Len(nd[p].items)
    BY <1>1, <2>1
  <2>4. LowAt(nd[p].items, lo[p], a) < LowAt(nd[p].items, lo[p], b)
    <3>1. CASE a = 1
      BY <2>2, <2>3, <3>1 DEF InnerItems, LowAt
    <3>2. CASE a # 1
      <4>1. a \in 2..Len(nd[p].items)
        BY <2>1, <3>2
      <4> QED BY <1>1, <2>2, <2>3, <3>2, <4>1 DEF InnerItems, LowAt
    <3> QED BY <3>1, <3>2
  <2>5. /\ lo[nd[p].items[a][2]] = LowAt(nd[p].items, lo[p], a)
        /\ lo[nd[p].items[b][2]] = LowAt(nd[p].items, lo[p], b)
        /\ lo[nd[p].items[a][2]] \in Nat
    <3>1. nd[p].items[a][2] \in DOMAIN nd
      BY KidFacts
    <3>2. lo[nd[p].items[a][2]] \in Nat
      BY <3>1, PageIds DEF Structure
    <3> QED BY <3>2, KidFacts
  <2> QED BY <2>4, <2>5
<1>2. i < j \/ j < i
  <2>1. Len(nd[p].items) \in Nat
    BY PageIds DEF Structure
  <2> QED BY <2>1
<1> QED BY <1>1, <1>2

(* The pages a sequence of entries points to *)
KidSet(items) == {items[i][2] : i \in 1..Len(items)}

(* A page whose entries, place, successor and children have not changed *)
LEMMA SameLeaf ==
    ASSUME NEW nd, NEW lo, NEW hi, NEW q, LeafOK(nd, lo, hi, q), NEW nd2, NEW lo2, NEW hi2,
           nd2[q].leaf = nd[q].leaf, nd2[q].items = nd[q].items, nd2[q].next = nd[q].next,
           lo2[q] = lo[q], hi2[q] = hi[q],
           (nd[q].leaf /\ nd[q].next # None) =>
               nd[q].next \in DOMAIN nd2 /\ nd2[nd[q].next].leaf /\ lo2[nd[q].next] = lo[nd[q].next]
    PROVE  LeafOK(nd2, lo2, hi2, q)
BY DEF LeafOK

SameKids(nd, level, lo, hi, old, new, nd2, level2, lo2, hi2, old2, new2, q) ==
    \A i \in 1..Len(nd[q].items) :
        /\ nd[q].items[i][2] \in DOMAIN nd2 /\ nd2[nd[q].items[i][2]].parent = q
        /\ level2[nd[q].items[i][2]] = level[nd[q].items[i][2]]
        /\ lo2[nd[q].items[i][2]] = lo[nd[q].items[i][2]]
        /\ Top(hi2, old2, new2, nd[q].items[i][2]) = Top(hi, old, new, nd[q].items[i][2])

LEMMA SameInner ==
    ASSUME NEW nd, NEW level, NEW lo, NEW hi, NEW old, NEW new, NEW q,
           InnerOK(nd, level, lo, hi, old, new, q), ~ nd[q].leaf,
           NEW nd2, NEW level2, NEW lo2, NEW hi2, NEW old2, NEW new2,
           ~ nd2[q].leaf, nd2[q].items = nd[q].items, nd2[q].next = nd[q].next,
           level2[q] = level[q], lo2[q] = lo[q], hi2[q] = hi[q],
           SameKids(nd, level, lo, hi, old, new, nd2, level2, lo2, hi2, old2, new2, q)
    PROVE  InnerOK(nd2, level2, lo2, hi2, old2, new2, q)
<1>1. Kids(DOMAIN nd, level, lo, hi, old, new, nd[q].items, lo[q], hi[q], level[q])
  BY DEF InnerOK
<1>2. Kids(DOMAIN nd2, level2, lo2, hi2, old2, new2, nd[q].items, lo[q], hi[q], level[q])
  BY <1>1 DEF Kids, SameKids
<1> QED BY <1>2 DEF InnerOK, SameKids
-----------------------------------------------------------------------------
(* Split: page p keeps its first m entries, the others go to a new page n *)
SplitAt(nd, nd2, p, n, m) ==
    /\ n \in Pages \ DOMAIN nd /\ p \in DOMAIN nd
    /\ DOMAIN nd2 = DOMAIN nd \cup {n}
    /\ nd2 \in [DOMAIN nd2 -> PageType]
    /\ nd2[n].leaf = nd[p].leaf /\ nd2[n].parent = nd[p].parent
    /\ IF nd[p].leaf THEN nd2[p].next = n /\ nd2[n].next = nd[p].next
                     ELSE nd2[p].next = None /\ nd2[n].next = None
    /\ Len(nd2[p].items) = m /\ Len(nd2[n].items) = Len(nd[p].items) - m
    /\ \A i \in 1..m : nd2[p].items[i] = nd[p].items[i]
    /\ \A i \in 1..(Len(nd[p].items) - m) : nd2[n].items[i] = nd[p].items[i + m]
    /\ \A q \in DOMAIN nd :
           /\ nd2[q].leaf = nd[q].leaf
           /\ q # p => nd2[q].items = nd[q].items /\ nd2[q].next = nd[q].next
           /\ nd2[q].parent = IF ~ nd[p].leaf /\ q \in KidSet(nd2[n].items) THEN n
                                                                           ELSE nd[q].parent

LEMMA SplitOK ==
    ASSUME NEW nd, NEW rt, NEW level, NEW lo, NEW hi, NEW nd2, NEW p, NEW n, NEW m, NEW key,
           Structure(nd, rt, 0, 0, level, lo, hi), SplitAt(nd, nd2, p, n, m),
           m \in Nat, 1 <= m, m < Len(nd[p].items), key = nd[p].items[m + 1][1],
           NEW level2, level2 = [level EXCEPT ![n] = level[p]],
           NEW lo2, lo2 = [lo EXCEPT ![n] = key],
           NEW hi2, hi2 = [[hi EXCEPT ![p] = key] EXCEPT ![n] = hi[p]]
    PROVE  Structure(nd2, rt, p, n, level2, lo2, hi2)
<1> DEFINE D == DOMAIN nd
           all == nd[p].items
           A == nd2[p].items
           B == nd2[n].items
<1>1. TypesOK(nd, level, lo, hi) /\ RootOK(nd, rt, lo, hi, 0, 0) /\ Disjoint(D, level, lo, hi)
  BY DEF Structure
<1>2. /\ n \in Pages \ D /\ p \in D /\ DOMAIN nd2 = D \cup {n} /\ nd2 \in [DOMAIN nd2 -> PageType]
      /\ nd2[n].leaf = nd[p].leaf /\ nd2[n].parent = nd[p].parent
      /\ \A q \in D :
           /\ nd2[q].leaf = nd[q].leaf
           /\ q # p => nd2[q].items = nd[q].items /\ nd2[q].next = nd[q].next
           /\ nd2[q].parent = IF ~ nd[p].leaf /\ q \in KidSet(B) THEN n ELSE nd[q].parent
  BY DEF SplitAt
<1>3. /\ Len(A) = m /\ Len(B) = Len(all) - m
      /\ \A i \in 1..m : A[i] = all[i]
      /\ \A i \in 1..(Len(all) - m) : B[i] = all[i + m]
  BY DEF SplitAt
<1>4. /\ p \in Nat /\ p # 0 /\ p # n /\ n \in Nat /\ n # 0
      /\ all \in Entries /\ Len(all) \in Nat /\ lo[p] \in Nat /\ hi[p] \in Nat
      /\ nd[p].leaf \in BOOLEAN
  BY <1>1, <1>2, PageIds, TreeAssumption
<1>5. /\ \A q \in D : q # n /\ q \in Nat /\ q # 0 /\ lo[q] \in Nat /\ hi[q] \in Nat /\ level[q] \in Nat
  BY <1>1, <1>2, PageIds
<1>6. key \in Keys /\ lo[p] < key /\ Below(key, hi[p]) /\ key \in Nat /\ key # 0
  <2>1. m + 1 \in 2..Len(all) /\ m + 1 \in 1..Len(all) /\ m \in 1..Len(all)
    BY <1>4
  <2>2. CASE nd[p].leaf
    <3>1. LeafItems(all, lo[p], hi[p])
      BY <1>2, <2>2 DEF Structure, LeafOK
    <3>2. all[m + 1][1] \in Keys /\ Below(all[m + 1][1], hi[p]) /\ all[m][1] \in Keys
          /\ lo[p] <= all[m][1] /\ all[m][1] < all[m + 1][1]
      BY <2>1, <3>1 DEF LeafItems
    <3>3. all[m + 1][1] \in Nat \ {0} /\ all[m][1] \in Nat
      BY <3>2, TreeAssumption
    <3> QED BY <3>2, <3>3, <1>4
  <2>3. CASE ~ nd[p].leaf
    <3>1. InnerItems(all, lo[p], hi[p])
      BY <1>2, <2>3 DEF Structure, InnerOK
    <3> QED BY <2>1, <3>1, <1>4, TreeAssumption DEF InnerItems
  <2> QED BY <2>2, <2>3
<1>7. /\ level2 \in [Nat -> Nat] /\ lo2 \in [Nat -> Nat] /\ hi2 \in [Nat -> Nat]
      /\ level2[n] = level[p] /\ lo2[n] = key /\ hi2[n] = hi[p] /\ hi2[p] = key
      /\ \A q \in D : level2[q] = level[q] /\ lo2[q] = lo[q]
      /\ \A q \in D : q # p => hi2[q] = hi[q]
  BY <1>1, <1>2, <1>4, <1>5, <1>6 DEF TypesOK
<1>8. ~ nd[p].leaf => \A i \in 1..Len(all) : /\ all[i][2] \in D /\ all[i][2] # p /\ all[i][2] # rt
                                             /\ nd[all[i][2]].parent = p
  BY <1>2, KidFacts
<1>9. ~ nd[p].leaf => \A c \in KidSet(B) : c \in D /\ c # p /\ c # rt /\ nd[c].parent = p
  <2>1. \A i \in 1..Len(B) : B[i] = all[i + m] /\ i + m \in 1..Len(all)
    BY <1>3, <1>4
  <2> QED BY <1>8, <2>1, ZenonT(40) DEF KidSet
<1>10. ~ nd[p].leaf => \A i \in 1..m : all[i][2] \notin KidSet(B)
  <2>1. SUFFICES ASSUME ~ nd[p].leaf, NEW i \in 1..m, NEW j \in 1..Len(B), all[i][2] = B[j][2]
                 PROVE  FALSE
    BY DEF KidSet
  <2>2. B[j] = all[j + m] /\ j + m \in 1..Len(all) /\ i \in 1..Len(all) /\ i # j + m
    BY <1>3, <1>4
  <2> QED BY <1>2, <2>1, <2>2, KidsDistinct
<1>11. TypesOK(nd2, level2, lo2, hi2)
  BY <1>1, <1>2, <1>7 DEF TypesOK
<1>12. RootOK(nd2, rt, lo2, hi2, p, n)
  <2>1. rt \in D /\ nd[rt].parent = None /\ lo[rt] = 0 /\ hi[rt] = 0
    BY <1>1, <1>5 DEF RootOK, Top
  <2>2. nd2[rt].parent = None
    BY <1>2, <1>9, <2>1
  <2> QED BY <1>2, <1>7, <2>1, <2>2 DEF RootOK, Top
<1>13. PendingOK(nd2, level2, lo2, hi2, p, n)
  BY <1>2, <1>4, <1>6, <1>7, <1>9 DEF PendingOK
<1>14. Disjoint(DOMAIN nd2, level2, lo2, hi2)
  <2>1. \A q \in D : (q # p /\ level[q] = level[p]) =>
           Apart(lo2, hi2, p, q) /\ Apart(lo2, hi2, n, q) /\ Apart(lo2, hi2, q, p) /\ Apart(lo2, hi2, q, n)
    <3>1. SUFFICES ASSUME NEW q \in D, q # p, level[q] = level[p]
                   PROVE  Apart(lo2, hi2, p, q) /\ Apart(lo2, hi2, n, q)
      BY DEF Apart
    <3>2. (hi[p] # 0 /\ hi[p] <= lo[q]) \/ (hi[q] # 0 /\ hi[q] <= lo[p])
      BY <1>1, <1>2, <3>1 DEF Disjoint, Apart
    <3>3. hi2[q] = hi[q] /\ lo2[q] = lo[q] /\ lo2[p] = lo[p] /\ hi2[n] = hi[p] /\ hi2[p] = key /\ lo2[n] = key
          /\ lo[q] \in Nat /\ hi[q] \in Nat
      BY <1>2, <1>5, <1>7, <3>1
    <3> QED BY <3>2, <3>3, <1>4, <1>6, SMTT(40) DEF Apart, Below
  <2>2. Apart(lo2, hi2, p, n) /\ Apart(lo2, hi2, n, p)
    BY <1>6, <1>7 DEF Apart
  <2>3. \A q, r \in D : (q # r /\ q # p /\ r # p /\ level[q] = level[r]) => Apart(lo2, hi2, q, r)
    <3>1. SUFFICES ASSUME NEW q \in D, NEW r \in D, q # r, q # p, r # p, level[q] = level[r]
                   PROVE  Apart(lo2, hi2, q, r)
      OBVIOUS
    <3>2. Apart(lo, hi, q, r)
      BY <1>1, <3>1 DEF Disjoint
    <3>3. lo2[q] = lo[q] /\ hi2[q] = hi[q] /\ lo2[r] = lo[r] /\ hi2[r] = hi[r]
      BY <1>7, <3>1
    <3> QED BY <3>2, <3>3 DEF Apart
  <2>4. SUFFICES ASSUME NEW q \in D \cup {n}, NEW r \in D \cup {n}, q # r, level2[q] = level2[r]
                 PROVE  Apart(lo2, hi2, q, r)
    BY <1>2 DEF Disjoint
  <2>5. (q \in D => level2[q] = level[q]) /\ (r \in D => level2[r] = level[r]) /\ level2[n] = level[p]
    BY <1>7
  <2>6. CASE q \in {p, n} /\ r \in {p, n}
    BY <2>2, <2>4, <2>6
  <2>7. CASE q \in {p, n} /\ r \notin {p, n}
    BY <2>1, <2>4, <2>5, <2>7, <1>2
  <2>8. CASE q \notin {p, n} /\ r \in {p, n}
    BY <2>1, <2>4, <2>5, <2>8, <1>2
  <2>9. CASE q \notin {p, n} /\ r \notin {p, n}
    BY <2>3, <2>4, <2>5, <2>9
  <2> QED BY <2>6, <2>7, <2>8, <2>9
<1>15. ASSUME NEW q \in D \cup {n} PROVE PlaceOK(nd2, rt, level2, lo2, hi2, q)
  <2>1. rt \in D /\ \A r \in D : PlaceOK(nd, rt, level, lo, hi, r)
    BY DEF Structure, RootOK
  <2>2. level2[rt] = level[rt]
    BY <1>7, <2>1
  <2>3. CASE q = n
    BY <1>2, <1>7, <1>6, <2>1, <2>2, <2>3 DEF PlaceOK
  <2>4. CASE q = p
    BY <1>2, <1>7, <1>6, <1>4, <2>1, <2>2, <2>4, SMTT(40) DEF PlaceOK, Below
  <2>5. CASE q \in D /\ q # p
    <3>1. nd2[q].leaf = nd[q].leaf /\ level2[q] = level[q] /\ lo2[q] = lo[q] /\ hi2[q] = hi[q]
      BY <1>2, <1>7, <2>5
    <3> QED BY <2>1, <2>2, <2>5, <3>1 DEF PlaceOK
  <2> QED BY <2>3, <2>4, <2>5
<1>16. ASSUME NEW q \in D \cup {n} PROVE LeafOK(nd2, lo2, hi2, q)
  <2>1. \A r \in D : LeafOK(nd, lo, hi, r)
    BY DEF Structure
  <2>2. CASE q \in D /\ q # p
    <3>1. /\ nd2[q].leaf = nd[q].leaf /\ nd2[q].items = nd[q].items /\ nd2[q].next = nd[q].next
          /\ lo2[q] = lo[q] /\ hi2[q] = hi[q] /\ LeafOK(nd, lo, hi, q)
      BY <1>2, <1>7, <2>1, <2>2
    <3>2. (nd[q].leaf /\ nd[q].next # None) =>
              nd[q].next \in DOMAIN nd2 /\ nd2[nd[q].next].leaf /\ lo2[nd[q].next] = lo[nd[q].next]
      BY <1>2, <1>7, <3>1 DEF LeafOK
    <3> QED BY <3>1, <3>2, SameLeaf
  <2>3. CASE q \in {p, n} /\ ~ nd[p].leaf
    BY <1>2, <2>3 DEF LeafOK
  <2>4. CASE q \in {p, n} /\ nd[p].leaf
    <3>1. nd2[p].next = n /\ nd2[n].next = nd[p].next
      BY <2>4 DEF SplitAt
    <3>2. LeafItems(all, lo[p], hi[p])
      BY <1>2, <2>1, <2>4 DEF LeafOK
    <3>3. LeafItems(A, lo[p], key)
      <4>1. \A i \in 1..m : i \in 1..Len(all) /\ A[i] = all[i] /\ all[i][1] < key
        <5>1. \A i \in 1..m : i \in 1..Len(all) /\ m + 1 \in 1..Len(all) /\ i < m + 1
          BY <1>4
        <5> QED BY <1>3, <3>2, <5>1 DEF LeafItems
      <4> QED BY <1>3, <3>2, <4>1 DEF LeafItems, Below
    <3>4. LeafItems(B, key, hi[p])
      <4>1. \A i \in 1..Len(B) : i + m \in 1..Len(all) /\ B[i] = all[i + m]
        BY <1>3, <1>4
      <4>2. \A i, j \in 1..Len(B) : i < j => i + m < j + m
        BY <1>3, <1>4
      <4>3. \A i \in 1..Len(B) : key <= B[i][1]
        <5>1. SUFFICES ASSUME NEW i \in 1..Len(B) PROVE key <= all[i + m][1]
          BY <4>1
        <5>2. i + m = m + 1 \/ (m + 1 < i + m /\ m + 1 \in 1..Len(all))
          BY <1>3, <1>4
        <5>3. i + m \in 1..Len(all)
          BY <4>1
        <5>4. CASE i + m = m + 1
          <6>1. all[i + m][1] = key
            BY <5>4
          <6> QED BY <1>6, <6>1
        <5>5. CASE m + 1 < i + m /\ m + 1 \in 1..Len(all)
          <6>1. all[m + 1][1] < all[i + m][1] /\ all[i + m][1] \in Keys
            BY <3>2, <5>3, <5>5 DEF LeafItems
          <6>2. all[i + m][1] \in Nat
            BY <6>1, TreeAssumption
          <6> QED BY <1>6, <6>1, <6>2
        <5> QED BY <5>2, <5>4, <5>5
      <4> QED BY <3>2, <4>1, <4>2, <4>3 DEF LeafItems
    <3>5. LeafOK(nd, lo, hi, p)
      BY <1>2, <2>1
    <3>6. LeafOK(nd2, lo2, hi2, p)
      <4>1. n # None
        BY <1>4, TreeAssumption
      <4>2. lo2[p] = lo[p] /\ hi2[p] = key /\ lo2[n] = key /\ n \in DOMAIN nd2 /\ nd2[n].leaf
        BY <1>2, <1>7, <2>4
      <4> QED BY <1>6, <3>1, <3>3, <4>1, <4>2 DEF LeafOK
    <3>7. LeafOK(nd2, lo2, hi2, n)
      BY <1>2, <1>7, <2>4, <3>1, <3>4, <3>5 DEF LeafOK
    <3> QED BY <2>4, <3>6, <3>7
  <2> QED BY <2>2, <2>3, <2>4
<1>17. ASSUME NEW q \in D \cup {n} PROVE InnerOK(nd2, level2, lo2, hi2, p, n, q)
  <2> SUFFICES ASSUME ~ nd2[q].leaf PROVE InnerOK(nd2, level2, lo2, hi2, p, n, q)
    BY DEF InnerOK
  <2>1. \A r \in D : InnerOK(nd, level, lo, hi, 0, 0, r)
    BY DEF Structure
  <2>2. CASE q \in D /\ q # p
    <3>1. /\ nd2[q].items = nd[q].items /\ nd2[q].next = nd[q].next /\ ~ nd[q].leaf
          /\ lo2[q] = lo[q] /\ hi2[q] = hi[q] /\ level2[q] = level[q]
      BY <1>2, <1>7, <2>2
    <3>2. InnerOK(nd, level, lo, hi, 0, 0, q)
      BY <2>1, <2>2
    <3>3. \A c \in D : Top(hi2, p, n, c) = Top(hi, 0, 0, c) /\ lo2[c] = lo[c] /\ level2[c] = level[c]
                       /\ c \in DOMAIN nd2
      BY <1>2, <1>5, <1>7, SMTT(40) DEF Top
    <3>4. \A i \in 1..Len(nd[q].items) : nd[q].items[i][2] \in D
      BY <2>2, <3>1, KidFacts
    <3>5. \A i \in 1..Len(nd[q].items) : nd2[nd[q].items[i][2]].parent = q
      <4>1. SUFFICES ASSUME NEW i \in 1..Len(nd[q].items), NEW c, c = nd[q].items[i][2]
                     PROVE  nd2[c].parent = q
        OBVIOUS
      <4>2. c \in D /\ nd[c].parent = q
        BY <2>2, <3>1, <4>1, KidFacts
      <4>3. ~ nd[p].leaf => c \notin KidSet(B)
        BY <1>9, <2>2, <4>2
      <4> QED BY <1>2, <4>2, <4>3
    <3>6. nd2[q].leaf = nd[q].leaf
      BY <1>2, <2>2
    <3>7. SameKids(nd, level, lo, hi, 0, 0, nd2, level2, lo2, hi2, p, n, q)
      BY <3>3, <3>4, <3>5 DEF SameKids
    <3> QED BY ONLY <3>1, <3>2, <3>6, <3>7, SameInner
  <2>3. CASE q \in {p, n}
    <3>1. ~ nd[p].leaf /\ nd2[p].next = None /\ nd2[n].next = None
      BY <1>2, <2>3 DEF SplitAt
    <3>2. InnerOK(nd, level, lo, hi, 0, 0, p)
      BY <1>2, <2>1
    <3>3. InnerItems(all, lo[p], hi[p])
      BY <3>1, <3>2 DEF InnerOK
    <3>4. InnerItems(A, lo[p], key)
      <4>1. \A i \in 2..m : i \in 2..Len(all) /\ i \in 1..m /\ A[i] = all[i] /\ all[i][1] < key
        <5>1. \A i \in 2..m : i \in 2..Len(all) /\ i \in 1..m /\ m + 1 \in 2..Len(all) /\ i < m + 1
          BY <1>4
        <5> QED BY <1>3, <3>3, <5>1 DEF InnerItems
      <4>2. \A i \in 1..m : i \in 1..Len(all)
        BY <1>4
      <4> QED BY <1>3, <3>3, <4>1, <4>2 DEF InnerItems, Below
    <3>5. InnerItems(B, key, hi[p])
      <4>1. \A i \in 1..Len(B) : i + m \in 1..Len(all) /\ B[i] = all[i + m]
        BY <1>3, <1>4
      <4>2. \A i, j \in 2..Len(B) : i < j => i + m < j + m
        BY <1>3, <1>4
      <4>3. \A i \in 2..Len(B) : i \in 1..Len(B) /\ i + m \in 2..Len(all) /\ m + 1 < i + m /\ m + 1 \in 2..Len(all)
        BY <1>3, <1>4
      <4>4. \A i \in 2..Len(B) : key < B[i][1] /\ B[i][1] \in Keys /\ Below(B[i][1], hi[p])
        BY <3>3, <4>1, <4>3 DEF InnerItems
      <4>5. Len(B) >= 1
        BY <1>3, <1>4
      <4> QED BY <3>3, <4>1, <4>2, <4>3, <4>4, <4>5 DEF InnerItems
    <3>6. \A i \in 1..Len(all) : LET c == all[i][2] IN
            /\ c \in D /\ c \in DOMAIN nd2 /\ level2[c] + 1 = level[p]
            /\ lo2[c] = LowAt(all, lo[p], i) /\ Top(hi2, p, n, c) = HighAt(all, hi[p], i)
      <4>1. SUFFICES ASSUME NEW i \in 1..Len(all), NEW c, c = all[i][2]
                     PROVE  /\ c \in D /\ c \in DOMAIN nd2 /\ level2[c] + 1 = level[p]
                            /\ lo2[c] = LowAt(all, lo[p], i) /\ Top(hi2, p, n, c) = HighAt(all, hi[p], i)
        OBVIOUS
      <4>2. /\ c \in D /\ c # p /\ level[c] + 1 = level[p]
            /\ lo[c] = LowAt(all, lo[p], i) /\ Top(hi, 0, 0, c) = HighAt(all, hi[p], i)
        BY <1>2, <3>1, <4>1, KidFacts
      <4> QED BY <1>2, <1>5, <1>7, <4>2 DEF Top
    <3>7. CASE q = p
      <4>1. \A i \in 1..m : /\ i \in 1..Len(all) /\ A[i] = all[i]
                            /\ LowAt(A, lo[p], i) = LowAt(all, lo[p], i)
                            /\ HighAt(A, key, i) = HighAt(all, hi[p], i)
        <5>1. SUFFICES ASSUME NEW i \in 1..m
                       PROVE  /\ i \in 1..Len(all) /\ A[i] = all[i]
                              /\ LowAt(A, lo[p], i) = LowAt(all, lo[p], i)
                              /\ HighAt(A, key, i) = HighAt(all, hi[p], i)
          OBVIOUS
        <5>2. i \in 1..Len(all) /\ i # Len(all) /\ (i = m \/ i + 1 \in 1..m)
          BY <1>4
        <5> QED BY <1>3, <5>2 DEF LowAt, HighAt
      <4>2. Kids(DOMAIN nd2, level2, lo2, hi2, p, n, A, lo2[p], hi2[p], level2[p])
        <5>1. lo2[p] = lo[p] /\ hi2[p] = key /\ level2[p] = level[p]
          BY <1>2, <1>7
        <5> QED BY <1>3, <3>6, <4>1, <5>1, ZenonT(40) DEF Kids
      <4>3. \A i \in 1..m : nd2[A[i][2]].parent = p
        <5>1. SUFFICES ASSUME NEW i \in 1..m PROVE nd2[all[i][2]].parent = p
          BY <4>1
        <5>2. all[i][2] \in D /\ nd[all[i][2]].parent = p /\ all[i][2] \notin KidSet(B)
          BY <1>8, <1>10, <3>1, <4>1, <5>1
        <5> QED BY <1>2, <5>2
      <4>4. lo2[p] = lo[p] /\ hi2[p] = key
        BY <1>2, <1>7
      <4> QED BY <1>3, <3>1, <3>4, <3>7, <4>2, <4>3, <4>4 DEF InnerOK
    <3>8. CASE q = n
      <4>1. \A i \in 1..Len(B) : /\ i + m \in 1..Len(all) /\ B[i] = all[i + m]
                                 /\ LowAt(B, key, i) = LowAt(all, lo[p], i + m)
                                 /\ HighAt(B, hi[p], i) = HighAt(all, hi[p], i + m)
        <5>1. SUFFICES ASSUME NEW i \in 1..Len(B)
                       PROVE  /\ i + m \in 1..Len(all) /\ B[i] = all[i + m]
                              /\ LowAt(B, key, i) = LowAt(all, lo[p], i + m)
                              /\ HighAt(B, hi[p], i) = HighAt(all, hi[p], i + m)
          OBVIOUS
        <5>2. i + m \in 1..Len(all) /\ i + m # 1 /\ (i = 1 => i + m = m + 1)
          BY <1>3, <1>4
        <5>3. \/ i = Len(B) /\ i + m = Len(all)
              \/ /\ i # Len(B) /\ i + m # Len(all) /\ i + 1 \in 1..Len(B)
                 /\ (i + 1) + m = (i + m) + 1
          <6>1. PICK b \in Nat : b = Len(B)
            BY <1>3, <1>4
          <6>2. PICK a \in Nat : a = Len(all)
            BY <1>4
          <6>3. b = a - m /\ i \in 1..b
            BY <1>3, <6>1, <6>2
          <6> QED BY <6>1, <6>2, <6>3
        <5>4. B[i] = all[i + m] /\ (i # Len(B) => B[i + 1] = all[(i + m) + 1])
          BY <1>3, <5>1, <5>3
        <5> QED BY <5>2, <5>3, <5>4 DEF LowAt, HighAt
      <4>2. Kids(DOMAIN nd2, level2, lo2, hi2, p, n, B, lo2[n], hi2[n], level2[n])
        <5>1. lo2[n] = key /\ hi2[n] = hi[p] /\ level2[n] = level[p]
          BY <1>7
        <5> QED BY <3>6, <4>1, <5>1 DEF Kids
      <4>3. \A i \in 1..Len(B) : nd2[B[i][2]].parent = n
        <5>1. \A i \in 1..Len(B) : B[i][2] \in KidSet(B)
          BY DEF KidSet
        <5> QED BY <1>2, <1>9, <3>1, <5>1
      <4> QED BY <1>2, <1>7, <3>1, <3>5, <3>8, <4>2, <4>3 DEF InnerOK
    <3> QED BY <2>3, <3>7, <3>8
  <2> QED BY <2>2, <2>3
<1>18. ASSUME NEW q \in D \cup {n} PROVE LinkOK(nd2, rt, n, q)
  <2> SUFFICES ASSUME q # rt, q # n PROVE LinkOK(nd2, rt, n, q)
    BY DEF LinkOK
  <2>1. q \in D /\ LinkOK(nd, rt, 0, q) /\ q # 0
    BY <1>5 DEF Structure
  <2>2. PICK par : par = nd[q].parent
    OBVIOUS
  <2>3. par \in D /\ ~ nd[par].leaf /\ \E i \in 1..Len(nd[par].items) : nd[par].items[i][2] = q
    BY <2>1, <2>2 DEF LinkOK
  <2>4. CASE ~ nd[p].leaf /\ q \in KidSet(B)
    <3>1. nd2[q].parent = n /\ ~ nd2[n].leaf
      BY <1>2, <2>1, <2>4
    <3> QED BY <1>2, <2>4, <3>1 DEF LinkOK, KidSet
  <2>5. CASE ~ (~ nd[p].leaf /\ q \in KidSet(B))
    <3>1. nd2[q].parent = par /\ par \in DOMAIN nd2 /\ ~ nd2[par].leaf
      BY <1>2, <2>1, <2>2, <2>3, <2>5
    <3>2. CASE par # p
      <4>1. nd2[par].items = nd[par].items
        BY <1>2, <2>3, <3>2
      <4> QED BY <2>3, <3>1, <4>1 DEF LinkOK
    <3>3. CASE par = p
      <4>1. PICK i \in 1..Len(all) : all[i][2] = q
        BY <2>3, <3>3
      <4>2. i \in 1..m
        <5>1. SUFFICES ASSUME i > m PROVE FALSE
          BY <1>4
        <5>2. i - m \in 1..Len(B) /\ i - m + m = i
          BY <1>3, <1>4, <5>1
        <5>3. B[i - m] = all[i]
          BY <1>3, <5>2
        <5>4. q \in KidSet(B)
          BY <4>1, <5>2, <5>3 DEF KidSet
        <5> QED BY <2>3, <2>5, <3>3, <5>4
      <4>3. A[i][2] = q /\ i \in 1..Len(A)
        BY <1>3, <4>1, <4>2
      <4> QED BY <3>1, <3>3, <4>3 DEF LinkOK
    <3> QED BY <3>2, <3>3
  <2> QED BY <2>4, <2>5
<1> QED BY <1>2, <1>11, <1>12, <1>13, <1>14, <1>15, <1>16, <1>17, <1>18 DEF Structure
-----------------------------------------------------------------------------
InsertedAt(I, J, j) ==
    /\ j \in 1..Len(J) /\ j + 1 \in 1..Len(J)
    /\ \A i \in 1..Len(J) : i \in 1..j \/ i = j + 1 \/ (i - 1 \in (j + 1)..Len(I) /\ i = (i - 1) + 1)
    /\ \A i \in 1..j : i \in 1..Len(I) /\ i \in 1..Len(J) /\ J[i] = I[i]
    /\ \A i \in (j + 1)..Len(I) : i \in 1..Len(I) /\ i + 1 \in 1..Len(J) /\ J[i + 1] = I[i]

InsertedEnds(I, J, j, key, low, high) ==
    /\ \A i \in 1..j : LowAt(J, low, i) = LowAt(I, low, i)
    /\ LowAt(J, low, j + 1) = key
    /\ \A i \in (j + 1)..Len(I) : LowAt(J, low, i + 1) = LowAt(I, low, i)
    /\ \A i \in 1..j : i # j => HighAt(J, high, i) = HighAt(I, high, i)
    /\ HighAt(J, high, j) = key
    /\ HighAt(J, high, j + 1) = HighAt(I, high, j)
    /\ \A i \in (j + 1)..Len(I) : HighAt(J, high, i + 1) = HighAt(I, high, i)

LEMMA InsertedPlaces ==
    ASSUME NEW I, NEW J, NEW j, NEW e, Len(I) \in Nat, j \in 1..Len(I), Inserted(I, J, j, e), NEW low, NEW high
    PROVE  InsertedAt(I, J, j) /\ InsertedEnds(I, J, j, e[1], low, high)
<1>1. PICK n : n = Len(I)
  OBVIOUS
<1>2. /\ n \in Nat /\ j \in 1..n /\ Len(J) = n + 1 /\ J[j + 1] = e
      /\ \A i \in 1..j : J[i] = I[i]
      /\ \A i \in (j + 1)..n : J[i + 1] = I[i]
  BY <1>1 DEF Inserted
<1>3. \A i \in 1..(n + 1) : i \in 1..j \/ i = j + 1 \/ (i - 1 \in (j + 1)..n /\ i = (i - 1) + 1)
  BY <1>2
<1>4. /\ \A i \in 1..j : i \in 1..n /\ i \in 1..(n + 1) /\ J[i] = I[i]
      /\ \A i \in (j + 1)..n : i \in 1..n /\ i + 1 \in 1..(n + 1) /\ J[i + 1] = I[i]
      /\ j \in 1..(n + 1) /\ j + 1 \in 1..(n + 1)
  BY <1>2
<1>5. /\ \A i \in 1..j : LowAt(J, low, i) = LowAt(I, low, i)
      /\ LowAt(J, low, j + 1) = e[1]
      /\ \A i \in (j + 1)..n : LowAt(J, low, i + 1) = LowAt(I, low, i)
  <2>1. j + 1 # 1 /\ \A i \in (j + 1)..n : i # 1 /\ i + 1 # 1
    BY <1>2
  <2> QED BY <1>2, <2>1 DEF LowAt
<1>6. \A i \in 1..j : i # j => HighAt(J, high, i) = HighAt(I, high, i)
  <2>1. \A i \in 1..j : i # j => i # n /\ i # n + 1 /\ i + 1 \in 1..j
    BY <1>2
  <2> QED BY <1>1, <1>2, <2>1 DEF HighAt
<1>7. HighAt(J, high, j) = e[1]
  BY <1>2 DEF HighAt
<1>8. HighAt(J, high, j + 1) = HighAt(I, high, j)
  <2>1. CASE j = n
    BY <1>1, <1>2, <2>1 DEF HighAt
  <2>2. CASE j # n
    <3>1. j + 1 \in (j + 1)..n /\ j + 1 # n + 1
      BY <1>2, <2>2
    <3> QED BY <1>1, <1>2, <2>2, <3>1 DEF HighAt
  <2> QED BY <2>1, <2>2
<1>9. ASSUME NEW i \in (j + 1)..n PROVE HighAt(J, high, i + 1) = HighAt(I, high, i)
  <2>1. CASE i = n
    BY <1>1, <1>2, <2>1 DEF HighAt
  <2>2. CASE i # n
    <3>1. i + 1 \in (j + 1)..n /\ i + 1 # n + 1
      BY <1>2, <2>2
    <3> QED BY <1>1, <1>2, <2>2, <3>1 DEF HighAt
  <2> QED BY <2>1, <2>2
<1> QED BY <1>1, <1>2, <1>3, <1>4, <1>5, <1>6, <1>7, <1>8, <1>9 DEF InsertedAt, InsertedEnds

(* A separator between the interval's ends keeps the entries in order *)
LEMMA InsertedItems ==
    ASSUME NEW I \in Entries, NEW J, NEW j \in 1..Len(I), NEW key \in Keys, NEW c,
           Inserted(I, J, j, <<key, c>>), NEW low \in Nat, NEW high \in Nat, InnerItems(I, low, high),
           LowAt(I, low, j) < key, Below(key, HighAt(I, high, j))
    PROVE  InnerItems(J, low, high)
<1>1. PICK n : n = Len(I)
  OBVIOUS
<1>2. /\ n \in Nat /\ j \in 1..n /\ Len(J) = n + 1 /\ J[j + 1] = <<key, c>>
      /\ \A i \in 1..j : J[i] = I[i]
      /\ \A i \in (j + 1)..n : J[i + 1] = I[i]
  BY <1>1 DEF Inserted, Entries
<1>3. /\ \A i \in 1..n : I[i][1] \in Keys \cup {0}
      /\ \A i \in 2..n : I[i][1] \in Keys /\ low < I[i][1] /\ Below(I[i][1], high)
      /\ \A a, b \in 2..n : a < b => I[a][1] < I[b][1]
  BY <1>1 DEF InnerItems
<1>4. key \in Nat /\ key # 0 /\ \A i \in 2..n : I[i][1] \in Nat /\ I[i][1] # 0
  BY <1>3, TreeAssumption
<1>5. ASSUME NEW i \in 2..j PROVE I[i][1] < key /\ i \in 2..n
  <2>1. i \in 2..n /\ j \in 2..n /\ (i = j \/ i < j) /\ j # 1
    BY <1>2
  <2>2. I[j][1] < key
    BY <2>1 DEF LowAt
  <2> QED BY <1>3, <1>4, <2>1, <2>2
<1>6. ASSUME NEW i \in (j + 1)..n PROVE key < I[i][1] /\ i \in 2..n
  <2>1. i \in 2..n /\ j + 1 \in 2..n /\ j # n /\ (i = j + 1 \/ j + 1 < i)
    BY <1>2
  <2>2. key < I[j + 1][1]
    BY <1>1, <1>4, <2>1 DEF HighAt, Below
  <2> QED BY <1>3, <1>4, <2>1, <2>2
<1>7. low < key /\ Below(key, high)
  <2>1. low < key
    <3>1. CASE j = 1
      BY <3>1 DEF LowAt
    <3>2. CASE j # 1
      <4>1. j \in 2..n /\ j \in 2..j
        BY <1>2, <3>2
      <4> QED BY <1>3, <1>4, <1>5, <4>1
    <3> QED BY <3>1, <3>2
  <2>2. Below(key, high)
    <3>1. CASE j = n
      BY <1>1, <3>1 DEF HighAt
    <3>2. CASE j # n
      <4>1. j + 1 \in (j + 1)..n
        BY <1>2, <3>2
      <4> QED BY <1>3, <1>4, <1>6, <4>1 DEF Below
    <3> QED BY <3>1, <3>2
  <2> QED BY <2>1, <2>2
<1>8. ASSUME NEW i \in 1..(n + 1)
      PROVE  /\ J[i][1] \in Keys \cup {0}
             /\ i # 1 => J[i][1] \in Keys /\ low < J[i][1] /\ Below(J[i][1], high)
  <2>1. CASE i \in 1..j
    <3>1. i \in 1..n /\ (i # 1 => i \in 2..n) /\ J[i] = I[i]
      BY <1>2, <2>1
    <3> QED BY <1>3, <3>1
  <2>2. CASE i = j + 1
    BY <1>2, <1>7, <2>2
  <2>3. CASE i \in (j + 2)..(n + 1)
    <3>1. i - 1 \in (j + 1)..n /\ i - 1 \in 1..n /\ i - 1 \in 2..n /\ i = (i - 1) + 1
      BY <1>2, <2>3
    <3>2. J[i] = I[i - 1]
      BY <1>2, <3>1
    <3> QED BY <1>3, <3>1, <3>2
  <2> QED BY <1>2, <2>1, <2>2, <2>3
<1>9. ASSUME NEW a \in 2..(n + 1), NEW b \in 2..(n + 1), a < b PROVE J[a][1] < J[b][1]
  <2>1. CASE b \in 2..j
    <3>1. a \in 2..j /\ J[a] = I[a] /\ J[b] = I[b]
      BY <1>2, <1>9, <2>1
    <3> QED BY <1>3, <1>5, <1>9, <2>1, <3>1
  <2>2. CASE b = j + 1
    <3>1. a \in 2..j /\ J[a] = I[a] /\ J[b][1] = key
      BY <1>2, <1>9, <2>2
    <3> QED BY <1>5, <3>1
  <2>3. CASE b \in (j + 2)..(n + 1)
    <3>1. b - 1 \in (j + 1)..n /\ b = (b - 1) + 1
      BY <1>2, <2>3
    <3>2. J[b] = I[b - 1] /\ b - 1 \in 2..n /\ key < I[b - 1][1]
      BY <1>2, <1>6, <3>1
    <3>3. CASE a \in 2..j
      <4>1. J[a] = I[a] /\ a \in 2..n /\ a < b - 1
        BY <1>2, <1>5, <2>3, <3>3
      <4> QED BY <1>3, <3>2, <4>1
    <3>4. CASE a = j + 1
      BY <1>2, <3>2, <3>4
    <3>5. CASE a \in (j + 2)..(n + 1)
      <4>1. a - 1 \in (j + 1)..n /\ a = (a - 1) + 1 /\ a - 1 < b - 1
        BY <1>2, <1>9, <3>5
      <4>2. J[a] = I[a - 1] /\ a - 1 \in 2..n
        BY <1>2, <1>6, <4>1
      <4> QED BY <1>3, <3>2, <4>1, <4>2
    <3> QED BY <1>2, <3>3, <3>4, <3>5
  <2> QED BY <1>2, <2>1, <2>2, <2>3
<1>10. \A i \in 2..(n + 1) : i \in 1..(n + 1) /\ i # 1
  BY <1>2
<1> QED BY <1>2, <1>8, <1>9, <1>10 DEF InnerItems

(* InsertNodeAfter: the new page gets its entry after the one of the old page *)
LEMMA LinkNew ==
    ASSUME NEW nd, NEW rt, NEW level, NEW lo, NEW hi, NEW old, NEW new, NEW par, NEW j,
           Structure(nd, rt, old, new, level, lo, hi), old # 0,
           par = nd[old].parent, par # None, NEW I, I = nd[par].items,
           j \in 1..Len(I), I[j][2] = old, NEW key, key = lo[new],
           NEW J, Inserted(I, J, j, <<key, new>>),
           NEW nd2, nd2 = [nd EXCEPT ![par].items = J]
    PROVE  Structure(nd2, rt, 0, 0, level, lo, hi)
<1> DEFINE D == DOMAIN nd
<1>1. /\ TypesOK(nd, level, lo, hi) /\ RootOK(nd, rt, lo, hi, old, new) /\ Disjoint(D, level, lo, hi)
      /\ PendingOK(nd, level, lo, hi, old, new)
  BY DEF Structure
<1>2. /\ old \in D /\ new \in D /\ old # new /\ level[old] = level[new] /\ nd[new].parent = par
      /\ hi[old] = key /\ key \in Keys
  BY <1>1 DEF PendingOK
<1>3. rt \in D /\ nd[rt].parent = None /\ old # rt /\ hi[rt] = 0 /\ lo[rt] = 0
  BY <1>1 DEF RootOK, Top
<1>4. par \in D /\ ~ nd[par].leaf
  BY <1>2, <1>3 DEF Structure, LinkOK
<1>5. \A q \in D : /\ q \in Nat /\ q # 0 /\ lo[q] \in Nat /\ hi[q] \in Nat /\ level[q] \in Nat
  BY <1>1, PageIds
<1>6. I \in Entries /\ Len(I) \in Nat /\ key \in Nat /\ key # 0
  BY <1>1, <1>2, <1>4, PageIds, TreeAssumption
<1>7. J \in Entries
  BY DEF Inserted
<1>8. /\ DOMAIN nd2 = D /\ nd2 \in [D -> PageType] /\ nd2[par].items = J
      /\ \A q \in D : /\ nd2[q].leaf = nd[q].leaf /\ nd2[q].next = nd[q].next
                      /\ nd2[q].parent = nd[q].parent
                      /\ q # par => nd2[q].items = nd[q].items
  <2>1. nd \in [D -> PageType]
    BY <1>1 DEF TypesOK
  <2> QED BY <1>4, <1>7, <2>1, ItemsChange
<1>9. /\ level[old] + 1 = level[par] /\ lo[old] = LowAt(I, lo[par], j)
      /\ hi[new] = HighAt(I, hi[par], j)
  BY <1>4, KidFacts DEF Top
<1>10. InnerItems(I, lo[par], hi[par]) /\ nd[par].next = None
  BY <1>4 DEF Structure, InnerOK
<1>11. Below(lo[old], hi[old]) /\ Below(lo[new], hi[new])
  BY <1>2 DEF Structure, PlaceOK
<1>12. lo[old] < key /\ Below(key, HighAt(I, hi[par], j))
  BY <1>2, <1>6, <1>9, <1>11 DEF Below
<1>13. InnerItems(J, lo[par], hi[par])
  <2>1. LowAt(I, lo[par], j) < key /\ lo[par] \in Nat /\ hi[par] \in Nat
    BY <1>4, <1>5, <1>9, <1>12
  <2> QED BY <1>2, <1>6, <1>10, <1>12, <2>1, InsertedItems
<1>14. /\ j \in 1..Len(J) /\ j + 1 \in 1..Len(J)
       /\ \A i \in 1..Len(J) : i \in 1..j \/ i = j + 1 \/ (i - 1 \in (j + 1)..Len(I) /\ i = (i - 1) + 1)
       /\ \A i \in 1..j : i \in 1..Len(I) /\ i \in 1..Len(J) /\ J[i] = I[i]
       /\ \A i \in (j + 1)..Len(I) : i \in 1..Len(I) /\ i + 1 \in 1..Len(J) /\ J[i + 1] = I[i]
  <2>1. InsertedAt(I, J, j)
    BY <1>6, InsertedPlaces
  <2> QED BY <2>1 DEF InsertedAt
<1>15. /\ \A i \in 1..j : LowAt(J, lo[par], i) = LowAt(I, lo[par], i)
       /\ LowAt(J, lo[par], j + 1) = key
       /\ \A i \in (j + 1)..Len(I) : LowAt(J, lo[par], i + 1) = LowAt(I, lo[par], i)
       /\ \A i \in 1..j : i # j => HighAt(J, hi[par], i) = HighAt(I, hi[par], i)
       /\ HighAt(J, hi[par], j) = key
       /\ HighAt(J, hi[par], j + 1) = HighAt(I, hi[par], j)
       /\ \A i \in (j + 1)..Len(I) : HighAt(J, hi[par], i + 1) = HighAt(I, hi[par], i)
  <2>1. InsertedEnds(I, J, j, <<key, new>>[1], lo[par], hi[par])
    BY <1>6, InsertedPlaces
  <2>2. <<key, new>>[1] = key
    OBVIOUS
  <2> QED BY ONLY <2>1, <2>2 DEF InsertedEnds
<1>16. J[j + 1] = <<key, new>>
  BY DEF Inserted
<1>17. ASSUME NEW i \in 1..Len(I), NEW c, c = I[i][2]
       PROVE  /\ c \in D /\ c # 0 /\ level[c] + 1 = level[par] /\ nd[c].parent = par
              /\ lo[c] = LowAt(I, lo[par], i)
              /\ i # j => Top(hi, 0, 0, c) = HighAt(I, hi[par], i)
  <2>1. /\ c \in D /\ level[c] + 1 = level[par] /\ nd[c].parent = par
        /\ lo[c] = LowAt(I, lo[par], i) /\ Top(hi, old, new, c) = HighAt(I, hi[par], i)
    BY <1>4, <1>17, KidFacts
  <2>2. i # j => c # old
    BY <1>4, <1>17, KidsDistinct
  <2> QED BY <1>5, <2>1, <2>2 DEF Top
<1>18. ASSUME NEW i \in 1..Len(J), NEW c, c = J[i][2]
       PROVE  /\ c \in D /\ level[c] + 1 = level[par] /\ nd[c].parent = par
              /\ lo[c] = LowAt(J, lo[par], i) /\ Top(hi, 0, 0, c) = HighAt(J, hi[par], i)
  <2>1. CASE i \in 1..j
    <3>1. i \in 1..Len(I) /\ c = I[i][2]
      BY <1>14, <1>18, <2>1
    <3>2. /\ c \in D /\ c # 0 /\ level[c] + 1 = level[par] /\ nd[c].parent = par
          /\ lo[c] = LowAt(J, lo[par], i)
          /\ i # j => Top(hi, 0, 0, c) = HighAt(J, hi[par], i)
      BY <1>15, <1>17, <2>1, <3>1, ZenonT(40)
    <3>3. i = j => Top(hi, 0, 0, c) = HighAt(J, hi[par], i)
      BY <1>2, <1>15, <3>1, <3>2 DEF Top
    <3> QED BY <3>2, <3>3
  <2>2. CASE i = j + 1
    <3>1. c = new
      BY <1>16, <1>18, <2>2
    <3>2. c # 0 /\ level[c] + 1 = level[par]
      BY <1>2, <1>5, <1>9, <3>1
    <3> QED BY <1>2, <1>9, <1>15, <2>2, <3>1, <3>2 DEF Top
  <2>3. CASE i - 1 \in (j + 1)..Len(I) /\ i = (i - 1) + 1
    <3>1. PICK a \in (j + 1)..Len(I) : a = i - 1 /\ i = a + 1
      BY <2>3
    <3>2. a \in 1..Len(I) /\ c = I[a][2] /\ a # j
      BY <1>6, <1>14, <1>18, <3>1
    <3>3. LowAt(J, lo[par], i) = LowAt(I, lo[par], a) /\ HighAt(J, hi[par], i) = HighAt(I, hi[par], a)
      BY <1>15, <3>1
    <3> QED BY <1>17, <3>2, <3>3
  <2> QED BY <1>14, <2>1, <2>2, <2>3
<1>19. Kids(D, level, lo, hi, 0, 0, J, lo[par], hi[par], level[par])
  BY <1>18 DEF Kids
<1>20. TypesOK(nd2, level, lo, hi)
  BY <1>1, <1>8 DEF TypesOK
<1>21. RootOK(nd2, rt, lo, hi, 0, 0)
  BY <1>3, <1>8 DEF RootOK, Top
<1>22. PendingOK(nd2, level, lo, hi, 0, 0)
  BY DEF PendingOK
<1>23. Disjoint(DOMAIN nd2, level, lo, hi)
  BY <1>1, <1>8
<1>24. ASSUME NEW q \in D PROVE PlaceOK(nd2, rt, level, lo, hi, q) /\ LeafOK(nd2, lo, hi, q)
  <2>1. PlaceOK(nd, rt, level, lo, hi, q) /\ LeafOK(nd, lo, hi, q)
    BY DEF Structure
  <2>2. PlaceOK(nd2, rt, level, lo, hi, q)
    BY <1>8, <2>1 DEF PlaceOK
  <2>3. LeafOK(nd2, lo, hi, q)
    BY <1>4, <1>8, <2>1 DEF LeafOK
  <2> QED BY <2>2, <2>3
<1>25. ASSUME NEW q \in D PROVE InnerOK(nd2, level, lo, hi, 0, 0, q)
  <2> SUFFICES ASSUME ~ nd2[q].leaf PROVE InnerOK(nd2, level, lo, hi, 0, 0, q)
    BY DEF InnerOK
  <2>1. CASE q # par
    <3>1. InnerOK(nd, level, lo, hi, old, new, q) /\ ~ nd[q].leaf
      BY <1>8 DEF Structure
    <3>2. nd2[q].items = nd[q].items /\ nd2[q].next = nd[q].next
      BY <1>8, <2>1
    <3>3. SameKids(nd, level, lo, hi, old, new, nd2, level, lo, hi, 0, 0, q)
      <4>1. SUFFICES ASSUME NEW i \in 1..Len(nd[q].items), NEW c, c = nd[q].items[i][2]
                     PROVE  /\ c \in DOMAIN nd2 /\ nd2[c].parent = q
                            /\ Top(hi, 0, 0, c) = Top(hi, old, new, c)
        BY DEF SameKids
      <4>2. c \in D /\ nd[c].parent = q
        BY <3>1, <4>1, KidFacts
      <4>3. c # old /\ c # 0
        BY <1>5, <2>1, <4>2
      <4> QED BY <1>8, <4>2, <4>3 DEF Top
    <3>4. ~ nd2[q].leaf
      OBVIOUS
    <3> QED BY ONLY <3>1, <3>2, <3>3, <3>4, SameInner
  <2>2. CASE q = par
    <3>1. nd2[q].items = J /\ nd2[q].next = None
      BY <1>4, <1>8, <1>10, <2>2
    <3>2. \A i \in 1..Len(J) : nd2[J[i][2]].parent = par
      BY <1>8, <1>18
    <3> QED BY <1>8, <1>13, <1>19, <2>2, <3>1, <3>2 DEF InnerOK
  <2> QED BY <2>1, <2>2
<1>26. ASSUME NEW q \in D PROVE LinkOK(nd2, rt, 0, q)
  <2> SUFFICES ASSUME q # rt PROVE LinkOK(nd2, rt, 0, q)
    BY DEF LinkOK
  <2>1. CASE q = new
    <3>1. nd2[q].parent = par /\ par \in DOMAIN nd2 /\ ~ nd2[par].leaf
      BY <1>2, <1>4, <1>8, <2>1
    <3>2. j + 1 \in 1..Len(J) /\ J[j + 1][2] = q
      BY <1>14, <1>16, <2>1
    <3> QED BY <1>8, <3>1, <3>2 DEF LinkOK
  <2>2. CASE q # new
    <3>1. LinkOK(nd, rt, new, q)
      BY DEF Structure
    <3>2. PICK r : r = nd[q].parent
      OBVIOUS
    <3>3. r \in D /\ ~ nd[r].leaf /\ \E i \in 1..Len(nd[r].items) : nd[r].items[i][2] = q
      BY <2>2, <3>1, <3>2 DEF LinkOK
    <3>4. nd2[q].parent = r /\ r \in DOMAIN nd2 /\ ~ nd2[r].leaf
      BY <1>8, <3>2, <3>3
    <3>5. CASE r # par
      <4>1. nd2[r].items = nd[r].items
        BY <1>8, <3>3, <3>5
      <4> QED BY <3>3, <3>4, <4>1 DEF LinkOK
    <3>6. CASE r = par
      <4>1. PICK i \in 1..Len(I) : I[i][2] = q
        BY <3>3, <3>6
      <4>2. i \in 1..j \/ i \in (j + 1)..Len(I)
        BY <1>6
      <4>3. \E a \in 1..Len(J) : J[a] = I[i]
        BY <1>14, <4>2
      <4>4. nd2[r].items = J
        BY <1>8, <3>6
      <4> QED BY <3>4, <4>1, <4>3, <4>4 DEF LinkOK
    <3> QED BY <3>5, <3>6
  <2> QED BY <2>1, <2>2
<1> QED BY <1>8, <1>20, <1>21, <1>22, <1>23, <1>24, <1>25, <1>26 DEF Structure
-----------------------------------------------------------------------------
(* A root that was split gets a root above it *)
RootAdded(nd, nd2, f, old, new, key) ==
    /\ f \in Pages \ DOMAIN nd
    /\ DOMAIN nd2 = DOMAIN nd \cup {f}
    /\ nd2 \in [DOMAIN nd2 -> PageType]
    /\ ~ nd2[f].leaf /\ nd2[f].parent = None /\ nd2[f].next = None
    /\ nd2[f].items = << <<0, old>>, <<key, new>> >>
    /\ \A q \in DOMAIN nd :
           /\ nd2[q].leaf = nd[q].leaf /\ nd2[q].items = nd[q].items /\ nd2[q].next = nd[q].next
           /\ nd2[q].parent = IF q \in {old, new} THEN f ELSE nd[q].parent

LEMMA NewRootOK ==
    ASSUME NEW nd, NEW rt, NEW level, NEW lo, NEW hi, NEW old, NEW new, NEW key,
           Structure(nd, rt, old, new, level, lo, hi), old # 0, nd[old].parent = None, key = lo[new],
           NEW nd2, NEW f, RootAdded(nd, nd2, f, old, new, key),
           NEW level2, level2 = [level EXCEPT ![f] = level[rt] + 1],
           NEW lo2, lo2 = [lo EXCEPT ![f] = 0], NEW hi2, hi2 = [hi EXCEPT ![f] = 0]
    PROVE  Structure(nd2, f, 0, 0, level2, lo2, hi2)
<1> DEFINE D == DOMAIN nd
<1>1. /\ TypesOK(nd, level, lo, hi) /\ RootOK(nd, rt, lo, hi, old, new) /\ Disjoint(D, level, lo, hi)
      /\ PendingOK(nd, level, lo, hi, old, new)
  BY DEF Structure
<1>2. /\ old \in D /\ new \in D /\ old # new /\ level[old] = level[new] /\ nd[new].parent = None
      /\ hi[old] = key /\ key \in Keys
  BY <1>1 DEF PendingOK
<1>3. \A q \in D : /\ q \in Nat /\ q # 0 /\ q # None /\ lo[q] \in Nat /\ hi[q] \in Nat /\ level[q] \in Nat
  BY <1>1, PageIds
<1>4. old = rt
  <2>1. SUFFICES ASSUME old # rt PROVE FALSE
    OBVIOUS
  <2>2. LinkOK(nd, rt, new, old)
    BY <1>2 DEF Structure
  <2> QED BY <1>2, <1>3, <2>1, <2>2 DEF LinkOK
<1>5. lo[old] = 0 /\ hi[new] = 0
  BY <1>1, <1>4 DEF RootOK, Top
<1>6. /\ f \in Nat /\ f # 0 /\ f \notin D /\ f \in Pages /\ key \in Nat /\ key # 0
      /\ DOMAIN nd2 = D \cup {f} /\ nd2 \in [DOMAIN nd2 -> PageType]
      /\ ~ nd2[f].leaf /\ nd2[f].parent = None /\ nd2[f].next = None
      /\ nd2[f].items = << <<0, old>>, <<key, new>> >>
  BY <1>2, TreeAssumption DEF RootAdded
<1>7. \A q \in D : /\ nd2[q].leaf = nd[q].leaf /\ nd2[q].items = nd[q].items /\ nd2[q].next = nd[q].next
                   /\ nd2[q].parent = IF q \in {old, new} THEN f ELSE nd[q].parent
  BY DEF RootAdded
<1>8. /\ level2 \in [Nat -> Nat] /\ lo2 \in [Nat -> Nat] /\ hi2 \in [Nat -> Nat]
      /\ level2[f] = level[old] + 1 /\ lo2[f] = 0 /\ hi2[f] = 0
      /\ \A q \in D : level2[q] = level[q] /\ lo2[q] = lo[q] /\ hi2[q] = hi[q]
  BY <1>1, <1>2, <1>3, <1>4, <1>6 DEF TypesOK
<1>9. \A q \in D : PlaceOK(nd, rt, level, lo, hi, q)
  BY DEF Structure
<1>10. TypesOK(nd2, level2, lo2, hi2)
  BY <1>1, <1>6, <1>8 DEF TypesOK
<1>11. RootOK(nd2, f, lo2, hi2, 0, 0)
  BY <1>6, <1>8 DEF RootOK, Top
<1>12. PendingOK(nd2, level2, lo2, hi2, 0, 0)
  BY DEF PendingOK
<1>13. \A q \in D : level[q] <= level[old]
  BY <1>4, <1>9 DEF PlaceOK
<1>14. Disjoint(DOMAIN nd2, level2, lo2, hi2)
  <2>1. SUFFICES ASSUME NEW p \in D \cup {f}, NEW q \in D \cup {f}, p # q, level2[p] = level2[q]
                 PROVE  Apart(lo2, hi2, p, q)
    BY <1>6 DEF Disjoint
  <2>2. p \in D /\ q \in D
    BY <1>2, <1>3, <1>8, <1>13, <2>1
  <2>3. Apart(lo, hi, p, q)
    BY <1>1, <1>8, <2>1, <2>2 DEF Disjoint
  <2>4. lo2[p] = lo[p] /\ hi2[p] = hi[p] /\ lo2[q] = lo[q] /\ hi2[q] = hi[q]
    BY <1>8, <2>2
  <2> QED BY <2>3, <2>4 DEF Apart
<1>15. ASSUME NEW q \in D \cup {f} PROVE PlaceOK(nd2, f, level2, lo2, hi2, q)
  <2>1. CASE q \in D
    <3>1. /\ nd2[q].leaf = nd[q].leaf /\ level2[q] = level[q] /\ lo2[q] = lo[q] /\ hi2[q] = hi[q]
          /\ level[q] <= level2[f]
      BY <1>2, <1>3, <1>7, <1>8, <1>13, <2>1
    <3> QED BY <1>9, <2>1, <3>1 DEF PlaceOK
  <2>2. CASE q = f
    <3>1. level2[f] \in Nat /\ level2[f] # 0
      BY <1>2, <1>3, <1>8
    <3> QED BY <1>6, <1>8, <2>2, <3>1 DEF PlaceOK, Below
  <2> QED BY <2>1, <2>2
<1>16. ASSUME NEW q \in D \cup {f} PROVE LeafOK(nd2, lo2, hi2, q)
  <2>1. CASE q \in D
    <3>1. LeafOK(nd, lo, hi, q)
      BY <2>1 DEF Structure
    <3>2. /\ nd2[q].leaf = nd[q].leaf /\ nd2[q].items = nd[q].items /\ nd2[q].next = nd[q].next
          /\ lo2[q] = lo[q] /\ hi2[q] = hi[q]
      BY <1>7, <1>8, <2>1
    <3>3. (nd[q].leaf /\ nd[q].next # None) =>
              nd[q].next \in DOMAIN nd2 /\ nd2[nd[q].next].leaf /\ lo2[nd[q].next] = lo[nd[q].next]
      BY <1>6, <1>7, <1>8, <3>1 DEF LeafOK
    <3> QED BY ONLY <3>1, <3>2, <3>3, SameLeaf
  <2>2. CASE q = f
    BY <1>6, <2>2 DEF LeafOK
  <2> QED BY <2>1, <2>2
<1>17. ASSUME NEW q \in D \cup {f} PROVE InnerOK(nd2, level2, lo2, hi2, 0, 0, q)
  <2> SUFFICES ASSUME ~ nd2[q].leaf PROVE InnerOK(nd2, level2, lo2, hi2, 0, 0, q)
    BY DEF InnerOK
  <2>1. CASE q \in D
    <3>1. InnerOK(nd, level, lo, hi, old, new, q) /\ ~ nd[q].leaf
      BY <1>7, <2>1 DEF Structure
    <3>2. /\ nd2[q].items = nd[q].items /\ nd2[q].next = nd[q].next
          /\ level2[q] = level[q] /\ lo2[q] = lo[q] /\ hi2[q] = hi[q]
      BY <1>7, <1>8, <2>1
    <3>3. SameKids(nd, level, lo, hi, old, new, nd2, level2, lo2, hi2, 0, 0, q)
      <4>1. SUFFICES ASSUME NEW i \in 1..Len(nd[q].items), NEW c, c = nd[q].items[i][2]
                     PROVE  /\ c \in DOMAIN nd2 /\ nd2[c].parent = q
                            /\ level2[c] = level[c] /\ lo2[c] = lo[c]
                            /\ Top(hi2, 0, 0, c) = Top(hi, old, new, c)
        BY DEF SameKids
      <4>2. c \in D /\ nd[c].parent = q
        BY <2>1, <3>1, <4>1, KidFacts
      <4>3. c # old /\ c # new /\ c # 0
        BY <1>2, <1>3, <2>1, <4>2
      <4> QED BY <1>6, <1>7, <1>8, <4>2, <4>3 DEF Top
    <3>4. ~ nd2[q].leaf
      OBVIOUS
    <3> QED BY ONLY <3>1, <3>2, <3>3, <3>4, SameInner
  <2>2. CASE q = f
    <3>1. PICK J : J = nd2[f].items
      OBVIOUS
    <3>2. Len(J) = 2 /\ J[1][1] = 0 /\ J[1][2] = old /\ J[2][1] = key /\ J[2][2] = new
      BY <1>6, <3>1
    <3>3. InnerItems(J, 0, 0)
      <4>1. \A i \in 1..Len(J) : J[i][1] \in Keys \cup {0}
        BY <1>2, <3>2
      <4>2. \A i \in 2..Len(J) : i = 2
        BY <3>2
      <4> QED BY <1>2, <1>6, <3>2, <4>1, <4>2 DEF InnerItems, Below
    <3>4. ASSUME NEW i \in 1..Len(J), NEW c, c = J[i][2]
          PROVE  /\ c \in D /\ c \in {old, new} /\ level2[c] + 1 = level2[f]
                 /\ lo2[c] = LowAt(J, 0, i) /\ Top(hi2, 0, 0, c) = HighAt(J, 0, i)
      <4>1. CASE i = 1
        <5>1. c = old
          BY <3>2, <3>4, <4>1
        <5> QED BY <1>2, <1>5, <1>8, <3>2, <4>1, <5>1 DEF LowAt, HighAt, Top
      <4>2. CASE i = 2
        <5>1. c = new
          BY <3>2, <3>4, <4>2
        <5>2. level2[c] = level[old] /\ lo2[c] = key /\ hi2[c] = 0 /\ c # 0
          BY <1>2, <1>3, <1>5, <1>8, <5>1
        <5> QED BY <1>2, <1>8, <3>2, <4>2, <5>1, <5>2 DEF LowAt, HighAt, Top
      <4> QED BY <3>2, <4>1, <4>2
    <3>5. Kids(DOMAIN nd2, level2, lo2, hi2, 0, 0, J, 0, 0, level2[f])
      BY <1>6, <3>4 DEF Kids
    <3>6. \A i \in 1..Len(J) : nd2[J[i][2]].parent = f
      BY <1>7, <3>4
    <3> QED BY <1>6, <1>8, <2>2, <3>1, <3>3, <3>5, <3>6 DEF InnerOK
  <2> QED BY <2>1, <2>2
<1>18. ASSUME NEW q \in D \cup {f} PROVE LinkOK(nd2, f, 0, q)
  <2> SUFFICES ASSUME q # f PROVE LinkOK(nd2, f, 0, q)
    BY DEF LinkOK
  <2>1. CASE q \in {old, new}
    <3>1. nd2[q].parent = f /\ f \in DOMAIN nd2
      BY <1>6, <1>7, <2>1
    <3>2. \E i \in 1..Len(nd2[f].items) : nd2[f].items[i][2] = q
      <4>1. PICK J : J = nd2[f].items
        OBVIOUS
      <4>2. Len(J) = 2 /\ J[1][2] = old /\ J[2][2] = new /\ 1 \in 1..2 /\ 2 \in 1..2
        BY <1>6, <4>1
      <4> QED BY <2>1, <4>1, <4>2
    <3> QED BY <1>6, <3>1, <3>2 DEF LinkOK
  <2>2. CASE q \notin {old, new}
    <3>1. LinkOK(nd, rt, new, q) /\ q \in D
      BY DEF Structure
    <3>2. PICK r : r = nd[q].parent
      OBVIOUS
    <3>3. r \in D /\ ~ nd[r].leaf /\ \E i \in 1..Len(nd[r].items) : nd[r].items[i][2] = q
      BY <1>4, <2>2, <3>1, <3>2 DEF LinkOK
    <3>4. nd2[q].parent = r /\ r \in DOMAIN nd2 /\ ~ nd2[r].leaf /\ nd2[r].items = nd[r].items
      BY <1>6, <1>7, <2>2, <3>1, <3>2, <3>3
    <3> QED BY <3>3, <3>4 DEF LinkOK
  <2> QED BY <2>1, <2>2
<1> QED BY <1>6, <1>10, <1>11, <1>12, <1>14, <1>15, <1>16, <1>17, <1>18 DEF Structure
-----------------------------------------------------------------------------
(* The page without a parent is the root, and no other page is on its level *)
LEMMA OnlyRoot ==
    ASSUME NEW nd, NEW rt, NEW level, NEW lo, NEW hi, Structure(nd, rt, 0, 0, level, lo, hi)
    PROVE  /\ \A p \in DOMAIN nd : nd[p].parent = None => p = rt
           /\ \A p \in DOMAIN nd : p # rt => level[p] < level[rt]
<1>1. \A q \in DOMAIN nd : q # 0 /\ q # None /\ lo[q] \in Nat /\ hi[q] \in Nat /\ level[q] \in Nat
  BY PageIds DEF Structure
<1>2. rt \in DOMAIN nd /\ lo[rt] = 0 /\ hi[rt] = 0
  BY <1>1 DEF Structure, RootOK, Top
<1>3. ASSUME NEW p \in DOMAIN nd, nd[p].parent = None, p # rt PROVE FALSE
  <2>1. LinkOK(nd, rt, 0, p)
    BY DEF Structure
  <2> QED BY <1>1, <1>3, <2>1 DEF LinkOK
<1>4. ASSUME NEW p \in DOMAIN nd, p # rt PROVE level[p] < level[rt]
  <2>1. level[p] <= level[rt] /\ Below(lo[p], hi[p])
    BY DEF Structure, PlaceOK
  <2>2. ASSUME level[p] = level[rt] PROVE FALSE
    <3>1. Apart(lo, hi, p, rt)
      BY <1>2, <1>4, <2>2 DEF Structure, Disjoint
    <3> QED BY <1>1, <1>2, <2>1, <3>1 DEF Apart, Below
  <2> QED BY <1>1, <1>2, <2>1, <2>2
<1> QED BY <1>3, <1>4

(* AdjustRoot: an internal root with one child gives way to it *)
RootDropped(nd, nd2, p, c) ==
    /\ p \in DOMAIN nd /\ ~ nd[p].leaf /\ Len(nd[p].items) = 1 /\ c = nd[p].items[1][2]
    /\ DOMAIN nd2 = DOMAIN nd \ {p}
    /\ nd2 \in [DOMAIN nd2 -> PageType]
    /\ \A q \in DOMAIN nd2 :
           /\ nd2[q].leaf = nd[q].leaf /\ nd2[q].items = nd[q].items /\ nd2[q].next = nd[q].next
           /\ nd2[q].parent = IF q = c THEN None ELSE nd[q].parent

LEMMA DropRootOK ==
    ASSUME NEW nd, NEW rt, NEW level, NEW lo, NEW hi, Structure(nd, rt, 0, 0, level, lo, hi),
           NEW nd2, NEW c, RootDropped(nd, nd2, rt, c)
    PROVE  Structure(nd2, c, 0, 0, level, lo, hi)
<1> DEFINE D == DOMAIN nd
           D2 == D \ {rt}
<1>1. /\ TypesOK(nd, level, lo, hi) /\ RootOK(nd, rt, lo, hi, 0, 0) /\ Disjoint(D, level, lo, hi)
  BY DEF Structure
<1>2. \A q \in D : /\ q \in Nat /\ q # 0 /\ q # None /\ lo[q] \in Nat /\ hi[q] \in Nat /\ level[q] \in Nat
  BY <1>1, PageIds
<1>3. /\ rt \in D /\ ~ nd[rt].leaf /\ Len(nd[rt].items) = 1 /\ c = nd[rt].items[1][2] /\ 1 \in 1..1
      /\ DOMAIN nd2 = D2 /\ nd2 \in [DOMAIN nd2 -> PageType]
  BY DEF RootDropped
<1>4. \A q \in D2 : /\ nd2[q].leaf = nd[q].leaf /\ nd2[q].items = nd[q].items /\ nd2[q].next = nd[q].next
                    /\ nd2[q].parent = IF q = c THEN None ELSE nd[q].parent
  BY <1>3 DEF RootDropped
<1>5. lo[rt] = 0 /\ hi[rt] = 0
  BY <1>1 DEF RootOK, Top
<1>6. c \in D2 /\ level[c] + 1 = level[rt] /\ nd[c].parent = rt /\ lo[c] = 0 /\ hi[c] = 0
  <2>1. /\ c \in D /\ c # rt /\ level[c] + 1 = level[rt] /\ nd[c].parent = rt
        /\ lo[c] = LowAt(nd[rt].items, lo[rt], 1)
        /\ Top(hi, 0, 0, c) = HighAt(nd[rt].items, hi[rt], 1)
    BY <1>3, KidFacts
  <2> QED BY <1>2, <1>3, <1>5, <2>1 DEF LowAt, HighAt, Top
<1>7. \A q \in D2 : level[q] <= level[c]
  <2>1. \A q \in D2 : level[q] < level[rt]
    BY OnlyRoot
  <2> QED BY <1>2, <1>3, <1>6, <2>1
<1>8. TypesOK(nd2, level, lo, hi)
  BY <1>1, <1>3 DEF TypesOK
<1>9. RootOK(nd2, c, lo, hi, 0, 0)
  BY <1>3, <1>4, <1>6 DEF RootOK, Top
<1>10. PendingOK(nd2, level, lo, hi, 0, 0)
  BY DEF PendingOK
<1>11. Disjoint(DOMAIN nd2, level, lo, hi)
  BY <1>1, <1>3 DEF Disjoint
<1>12. ASSUME NEW q \in D2
       PROVE  PlaceOK(nd2, c, level, lo, hi, q) /\ LeafOK(nd2, lo, hi, q)
  <2>1. PlaceOK(nd, rt, level, lo, hi, q) /\ LeafOK(nd, lo, hi, q)
    BY DEF Structure
  <2>2. PlaceOK(nd2, c, level, lo, hi, q)
    BY <1>4, <1>7, <2>1 DEF PlaceOK
  <2>3. LeafOK(nd2, lo, hi, q)
    <3>1. nd2[q].leaf = nd[q].leaf /\ nd2[q].items = nd[q].items /\ nd2[q].next = nd[q].next
      BY <1>4
    <3>2. (nd[q].leaf /\ nd[q].next # None) => nd[q].next \in DOMAIN nd2 /\ nd2[nd[q].next].leaf
      BY <1>3, <1>4, <2>1 DEF LeafOK
    <3> QED BY <2>1, <3>1, <3>2, SameLeaf
  <2> QED BY <2>2, <2>3
<1>13. ASSUME NEW q \in D2 PROVE InnerOK(nd2, level, lo, hi, 0, 0, q)
  <2> SUFFICES ASSUME ~ nd2[q].leaf PROVE InnerOK(nd2, level, lo, hi, 0, 0, q)
    BY DEF InnerOK
  <2>1. InnerOK(nd, level, lo, hi, 0, 0, q) /\ ~ nd[q].leaf /\ ~ nd2[q].leaf
    BY <1>4 DEF Structure
  <2>2. nd2[q].items = nd[q].items /\ nd2[q].next = nd[q].next
    BY <1>4
  <2>3. SameKids(nd, level, lo, hi, 0, 0, nd2, level, lo, hi, 0, 0, q)
    <3>1. SUFFICES ASSUME NEW i \in 1..Len(nd[q].items), NEW e, e = nd[q].items[i][2]
                   PROVE  e \in DOMAIN nd2 /\ nd2[e].parent = q
      BY DEF SameKids
    <3>2. e \in D2 /\ nd[e].parent = q
      BY <2>1, <3>1, KidFacts
    <3>3. e # c
      BY <1>6, <3>2
    <3> QED BY <1>3, <1>4, <3>2, <3>3
  <2> QED BY ONLY <2>1, <2>2, <2>3, SameInner
<1>14. ASSUME NEW q \in D2 PROVE LinkOK(nd2, c, 0, q)
  <2> SUFFICES ASSUME q # c PROVE LinkOK(nd2, c, 0, q)
    BY DEF LinkOK
  <2>1. LinkOK(nd, rt, 0, q) /\ q # 0 /\ q # rt
    BY <1>2 DEF Structure
  <2>2. PICK r : r = nd[q].parent
    OBVIOUS
  <2>3. r \in D /\ ~ nd[r].leaf /\ \E i \in 1..Len(nd[r].items) : nd[r].items[i][2] = q
    BY <2>1, <2>2 DEF LinkOK
  <2>4. r # rt
    BY <1>3, <2>3
  <2>5. nd2[q].parent = r /\ r \in DOMAIN nd2 /\ ~ nd2[r].leaf /\ nd2[r].items = nd[r].items
    BY <1>3, <1>4, <2>2, <2>3, <2>4
  <2> QED BY <2>3, <2>5 DEF LinkOK
<1> QED BY <1>3, <1>8, <1>9, <1>10, <1>11, <1>12, <1>13, <1>14 DEF Structure

(* An empty leaf that is the root is the only page *)
LEMMA LeafRootAlone ==
    ASSUME NEW nd, NEW rt, NEW level, NEW lo, NEW hi, Structure(nd, rt, 0, 0, level, lo, hi), nd[rt].leaf
    PROVE  DOMAIN nd = {rt}
<1>1. \A q \in DOMAIN nd : level[q] \in Nat
  BY PageIds DEF Structure
<1>2. rt \in DOMAIN nd
  BY DEF Structure, RootOK
<1>3. level[rt] = 0
  BY <1>2 DEF Structure, PlaceOK
<1>4. \A p \in DOMAIN nd : p # rt => level[p] < level[rt]
  BY OnlyRoot
<1> QED BY <1>1, <1>2, <1>3, <1>4
-----------------------------------------------------------------------------
(* Entries I with the i-th key replaced *)
Replaced(I, P, i, key) ==
    /\ P \in Entries /\ Len(P) = Len(I) /\ P[i][1] = key /\ P[i][2] = I[i][2]
    /\ \A j \in 1..Len(I) : j # i => P[j] = I[j]

ReplacedEnds(I, P, i, key, low, high) ==
    /\ LowAt(P, low, i) = key /\ HighAt(P, high, i - 1) = key
    /\ \A j \in 1..Len(I) : j # i => LowAt(P, low, j) = LowAt(I, low, j)
    /\ \A j \in 1..Len(I) : j # i - 1 => HighAt(P, high, j) = HighAt(I, high, j)
    /\ \A j \in 1..Len(I) : P[j][2] = I[j][2]

LEMMA ReplacedPlaces ==
    ASSUME NEW I, NEW P, Len(I) \in Nat, NEW i, i \in 2..Len(I), NEW key, Replaced(I, P, i, key), NEW low, NEW high
    PROVE  ReplacedEnds(I, P, i, key, low, high)
<1>1. PICK n : n = Len(I)
  OBVIOUS
<1>2. /\ n \in Nat /\ i \in 2..n /\ Len(P) = n /\ P[i][1] = key /\ P[i][2] = I[i][2]
      /\ \A j \in 1..n : j # i => P[j] = I[j]
  BY <1>1 DEF Replaced
<1>3. LowAt(P, low, i) = key /\ HighAt(P, high, i - 1) = key
  <2>1. i # 1 /\ i - 1 # n /\ i - 1 + 1 = i
    BY <1>2
  <2>2. P[i - 1 + 1][1] = key
    BY <1>2, <2>1
  <2> QED BY <1>2, <2>1, <2>2 DEF LowAt, HighAt
<1>4. \A j \in 1..n : j # i => LowAt(P, low, j) = LowAt(I, low, j)
  BY <1>2 DEF LowAt
<1>5. ASSUME NEW j \in 1..n, j # i - 1 PROVE HighAt(P, high, j) = HighAt(I, high, j)
  <2>1. CASE j = n
    BY <1>1, <1>2, <2>1 DEF HighAt
  <2>2. CASE j # n
    <3>1. j + 1 \in 1..n /\ j + 1 # i
      BY <1>2, <1>5, <2>2
    <3> QED BY <1>1, <1>2, <2>2, <3>1 DEF HighAt
  <2> QED BY <2>1, <2>2
<1>6. \A j \in 1..n : P[j][2] = I[j][2]
  BY <1>2
<1> QED BY <1>1, <1>3, <1>4, <1>5, <1>6 DEF ReplacedEnds

LEMMA ReplacedItems ==
    ASSUME NEW I \in Entries, NEW P, NEW i \in 2..Len(I), NEW key \in Keys, Replaced(I, P, i, key),
           NEW low \in Nat, NEW high \in Nat, InnerItems(I, low, high),
           LowAt(I, low, i - 1) < key, Below(key, HighAt(I, high, i))
    PROVE  InnerItems(P, low, high)
<1>1. PICK n : n = Len(I)
  OBVIOUS
<1>2. /\ n \in Nat /\ i \in 2..n /\ Len(P) = n /\ P[i][1] = key
      /\ \A j \in 1..n : j # i => P[j] = I[j]
  BY <1>1 DEF Replaced, Entries
<1>3. /\ \A j \in 1..n : I[j][1] \in Keys \cup {0}
      /\ \A j \in 2..n : I[j][1] \in Keys /\ low < I[j][1] /\ Below(I[j][1], high)
      /\ \A a, b \in 2..n : a < b => I[a][1] < I[b][1]
  BY <1>1 DEF InnerItems
<1>4. key \in Nat /\ key # 0 /\ \A j \in 2..n : I[j][1] \in Nat /\ I[j][1] # 0
  BY <1>3, TreeAssumption
<1>5. ASSUME NEW j \in 2..n, j < i PROVE I[j][1] < key
  <2>1. i - 1 \in 2..n /\ i - 1 # 1 /\ (j = i - 1 \/ j < i - 1)
    BY <1>2, <1>5
  <2>2. I[i - 1][1] < key
    BY <2>1 DEF LowAt
  <2> QED BY <1>3, <1>4, <2>1, <2>2
<1>6. ASSUME NEW j \in 2..n, i < j PROVE key < I[j][1]
  <2>1. i # n /\ i + 1 \in 2..n /\ (j = i + 1 \/ i + 1 < j)
    BY <1>2, <1>6
  <2>2. key < I[i + 1][1]
    BY <1>1, <1>4, <2>1 DEF HighAt, Below
  <2> QED BY <1>3, <1>4, <2>1, <2>2
<1>7. low < key /\ Below(key, high)
  <2>1. low < key
    <3>1. CASE i = 2
      BY <3>1 DEF LowAt
    <3>2. CASE i # 2
      <4>1. i - 1 \in 2..n /\ i - 1 < i
        BY <1>2, <3>2
      <4> QED BY <1>3, <1>4, <1>5, <4>1
    <3> QED BY <3>1, <3>2
  <2>2. Below(key, high)
    <3>1. CASE i = n
      BY <1>1, <3>1 DEF HighAt
    <3>2. CASE i # n
      <4>1. i + 1 \in 2..n /\ i < i + 1
        BY <1>2, <3>2
      <4> QED BY <1>3, <1>4, <1>6, <4>1 DEF Below
    <3> QED BY <3>1, <3>2
  <2> QED BY <2>1, <2>2
<1>8. ASSUME NEW j \in 1..n
      PROVE  /\ P[j][1] \in Keys \cup {0}
             /\ j # 1 => P[j][1] \in Keys /\ low < P[j][1] /\ Below(P[j][1], high)
  <2>1. j # 1 => j \in 2..n
    BY <1>2
  <2> QED BY <1>2, <1>3, <1>7, <2>1
<1>9. ASSUME NEW a \in 2..n, NEW b \in 2..n, a < b PROVE P[a][1] < P[b][1]
  <2>1. a \in 1..n /\ b \in 1..n
    BY <1>2
  <2>2. CASE a = i
    <3>1. b # i /\ P[b] = I[b] /\ i < b
      BY <1>2, <1>9, <2>1, <2>2
    <3> QED BY <1>2, <1>6, <2>2, <3>1
  <2>3. CASE b = i
    <3>1. a # i /\ P[a] = I[a] /\ a < i
      BY <1>2, <1>9, <2>1, <2>3
    <3> QED BY <1>2, <1>5, <2>3, <3>1
  <2>4. CASE a # i /\ b # i
    BY <1>2, <1>3, <1>9, <2>1, <2>4
  <2> QED BY <2>2, <2>3, <2>4
<1>10. \A j \in 2..n : j \in 1..n /\ j # 1
  BY <1>2
<1>11. n >= 1
  BY <1>2
<1> QED BY <1>2, <1>8, <1>9, <1>10, <1>11 DEF InnerItems

(* Redistribute: neighbours a and b exchange entries, and the separator      *)
(* between them becomes key.                                                *)
Shifted(nd, nd2, par, i, a, b, key) ==
    /\ par \in DOMAIN nd /\ ~ nd[par].leaf
    /\ i \in 2..Len(nd[par].items) /\ a = nd[par].items[i - 1][2] /\ b = nd[par].items[i][2]
    /\ DOMAIN nd2 = DOMAIN nd /\ nd2 \in [DOMAIN nd -> PageType]
    /\ Replaced(nd[par].items, nd2[par].items, i, key)
    /\ ~ nd[a].leaf => /\ \A c \in KidSet(nd[a].items) \cup KidSet(nd[b].items) :
                              c \in KidSet(nd2[a].items) \cup KidSet(nd2[b].items)
                       /\ \A c \in KidSet(nd2[a].items) :
                              c \in KidSet(nd[a].items) \cup KidSet(nd[b].items) /\ nd2[c].parent = a
                       /\ \A c \in KidSet(nd2[b].items) :
                              c \in KidSet(nd[a].items) \cup KidSet(nd[b].items) /\ nd2[c].parent = b
    /\ \A q \in DOMAIN nd :
           /\ nd2[q].leaf = nd[q].leaf /\ nd2[q].next = nd[q].next
           /\ q \notin {a, b, par} => nd2[q].items = nd[q].items
           /\ (nd[a].leaf \/ q \notin KidSet(nd[a].items) \cup KidSet(nd[b].items)) =>
                  nd2[q].parent = nd[q].parent

(* Their entries fit in the new intervals *)
ShiftFits(nd2, level, lo, hi, a, b, key) ==
    IF nd2[a].leaf
    THEN LeafItems(nd2[a].items, lo[a], key) /\ LeafItems(nd2[b].items, key, hi[b])
    ELSE /\ InnerItems(nd2[a].items, lo[a], key) /\ InnerItems(nd2[b].items, key, hi[b])
         /\ Kids(DOMAIN nd2, level, lo, hi, 0, 0, nd2[a].items, lo[a], key, level[a])
         /\ Kids(DOMAIN nd2, level, lo, hi, 0, 0, nd2[b].items, key, hi[b], level[b])

LEMMA ShiftOK ==
    ASSUME NEW nd, NEW rt, NEW level, NEW lo, NEW hi, Structure(nd, rt, 0, 0, level, lo, hi),
           NEW nd2, NEW par, NEW i, NEW a, NEW b, NEW key,
           Shifted(nd, nd2, par, i, a, b, key), ShiftFits(nd2, level, lo, hi, a, b, key),
           key \in Keys, lo[a] < key, Below(key, hi[b]),
           NEW lo2, lo2 = [lo EXCEPT ![b] = key], NEW hi2, hi2 = [hi EXCEPT ![a] = key]
    PROVE  Structure(nd2, rt, 0, 0, level, lo2, hi2)
<1> DEFINE D == DOMAIN nd
           old == KidSet(nd[a].items) \cup KidSet(nd[b].items)
<1>1. /\ TypesOK(nd, level, lo, hi) /\ RootOK(nd, rt, lo, hi, 0, 0) /\ Disjoint(D, level, lo, hi)
  BY DEF Structure
<1>2. \A q \in D : /\ q \in Nat /\ q # 0 /\ q # None /\ lo[q] \in Nat /\ hi[q] \in Nat /\ level[q] \in Nat
                   /\ nd[q].leaf \in BOOLEAN
  BY <1>1, PageIds
<1>3. PICK I : I = nd[par].items
  OBVIOUS
<1>4. PICK P : P = nd2[par].items
  OBVIOUS
<1>5. /\ par \in D /\ ~ nd[par].leaf /\ i \in 2..Len(I) /\ a = I[i - 1][2] /\ b = I[i][2]
      /\ DOMAIN nd2 = D /\ nd2 \in [D -> PageType] /\ Replaced(I, P, i, key)
  BY <1>3, <1>4 DEF Shifted
<1>6. \A q \in D : /\ nd2[q].leaf = nd[q].leaf /\ nd2[q].next = nd[q].next
                   /\ q \notin {a, b, par} => nd2[q].items = nd[q].items
                   /\ (nd[a].leaf \/ q \notin old) => nd2[q].parent = nd[q].parent
  BY DEF Shifted
<1>7. ~ nd[a].leaf => /\ \A c \in old : c \in KidSet(nd2[a].items) \cup KidSet(nd2[b].items)
                      /\ \A c \in KidSet(nd2[a].items) : c \in old /\ nd2[c].parent = a
                      /\ \A c \in KidSet(nd2[b].items) : c \in old /\ nd2[c].parent = b
  BY DEF Shifted
<1>8. I \in Entries /\ Len(I) \in Nat /\ i - 1 \in 1..Len(I) /\ i \in 1..Len(I) /\ i # 1 /\ i - 1 # i
  <2>1. I \in Entries /\ Len(I) \in Nat
    BY <1>1, <1>3, <1>5, PageIds
  <2> QED BY <1>5, <2>1
<1>9. ReplacedEnds(I, P, i, key, lo[par], hi[par])
  BY <1>5, <1>8, ReplacedPlaces
<1>10. \A j \in 1..Len(I) : /\ I[j][2] \in D /\ I[j][2] # par /\ I[j][2] # rt
                            /\ level[I[j][2]] + 1 = level[par] /\ nd[I[j][2]].parent = par
                            /\ lo[I[j][2]] = LowAt(I, lo[par], j)
                            /\ hi[I[j][2]] = HighAt(I, hi[par], j)
  <2>1. SUFFICES ASSUME NEW j \in 1..Len(I), NEW c, c = I[j][2]
                 PROVE  /\ c \in D /\ c # par /\ c # rt /\ level[c] + 1 = level[par] /\ nd[c].parent = par
                        /\ lo[c] = LowAt(I, lo[par], j) /\ hi[c] = HighAt(I, hi[par], j)
    OBVIOUS
  <2>2. /\ c \in D /\ c # par /\ c # rt /\ level[c] + 1 = level[par] /\ nd[c].parent = par
        /\ lo[c] = LowAt(I, lo[par], j) /\ Top(hi, 0, 0, c) = HighAt(I, hi[par], j)
    <3>1. Structure(nd, rt, 0, 0, level, lo, hi)
      OBVIOUS
    <3>2. par \in DOMAIN nd /\ ~ nd[par].leaf /\ j \in 1..Len(nd[par].items) /\ c = nd[par].items[j][2]
      BY <1>3, <1>5, <2>1
    <3>3. /\ c \in DOMAIN nd /\ c # par /\ c # rt /\ level[c] + 1 = level[par] /\ nd[c].parent = par
          /\ lo[c] = LowAt(nd[par].items, lo[par], j)
          /\ Top(hi, 0, 0, c) = HighAt(nd[par].items, hi[par], j)
      BY ONLY <3>1, <3>2, KidFacts
    <3> QED BY <1>3, <3>3
  <2> QED BY <1>2, <2>2 DEF Top
<1>11. \A j \in 1..Len(I) : /\ j # i => I[j][2] # b
                            /\ j # i - 1 => I[j][2] # a
  BY <1>3, <1>5, <1>8, KidsDistinct
<1>12. InnerItems(I, lo[par], hi[par]) /\ nd[par].next = None
  BY <1>3, <1>5 DEF Structure, InnerOK
<1>13. /\ a \in D /\ b \in D /\ a # par /\ b # par /\ a # b /\ a # rt /\ b # rt /\ level[a] = level[b]
       /\ nd[a].parent = par /\ nd[b].parent = par /\ hi[a] = lo[b] /\ hi[a] # 0
       /\ lo[a] = LowAt(I, lo[par], i - 1) /\ hi[b] = HighAt(I, hi[par], i)
  <2>1. /\ a \in D /\ b \in D /\ a # par /\ b # par /\ a # b /\ a # rt /\ b # rt
        /\ nd[a].parent = par /\ nd[b].parent = par
        /\ lo[a] = LowAt(I, lo[par], i - 1) /\ hi[b] = HighAt(I, hi[par], i)
        /\ level[a] + 1 = level[par] /\ level[b] + 1 = level[par]
    BY <1>5, <1>8, <1>10, <1>11
  <2>2. lo[b] = I[i][1]
    BY <1>5, <1>8, <1>10 DEF LowAt
  <2>3. hi[a] = I[i][1]
    <3>1. hi[a] = HighAt(I, hi[par], i - 1) /\ i - 1 # Len(I) /\ i - 1 + 1 = i
      BY <1>5, <1>8, <1>10
    <3> QED BY <3>1 DEF HighAt
  <2>4. I[i][1] # 0
    BY <1>5, <1>12, TreeAssumption DEF InnerItems
  <2>5. level[a] = level[b]
    <3>1. level[a] \in Nat /\ level[b] \in Nat
      BY <1>2, <2>1
    <3> QED BY ONLY <2>1, <3>1
  <2> QED BY <2>1, <2>2, <2>3, <2>4, <2>5
<1>14. nd[a].leaf = nd[b].leaf /\ Below(lo[a], hi[a]) /\ Below(lo[b], hi[b])
  BY <1>2, <1>13 DEF Structure, PlaceOK
<1>15. key \in Nat /\ key # 0
  BY TreeAssumption
<1>16. /\ lo2 \in [Nat -> Nat] /\ hi2 \in [Nat -> Nat] /\ lo2[b] = key /\ hi2[a] = key
       /\ \A q \in D : q # b => lo2[q] = lo[q]
       /\ \A q \in D : q # a => hi2[q] = hi[q]
  BY <1>1, <1>2, <1>13, <1>15 DEF TypesOK
<1>17. ~ nd[a].leaf => \A c \in old : /\ c \in D /\ c # rt /\ c # a /\ c # b /\ c # par
                                      /\ nd[c].parent \in {a, b}
  <2>1. SUFFICES ASSUME ~ nd[a].leaf, NEW d \in {a, b}, NEW j \in 1..Len(nd[d].items), NEW c, c = nd[d].items[j][2]
                 PROVE  c \in D /\ c # rt /\ c # a /\ c # b /\ c # par /\ nd[c].parent = d
    BY DEF KidSet
  <2>2. c \in D /\ c # rt /\ level[c] + 1 = level[d] /\ nd[c].parent = d
    BY <1>13, <1>14, <2>1, KidFacts
  <2>3. level[d] + 1 = level[par]
    BY <1>5, <1>8, <1>10, <2>1
  <2>4. level[c] \in Nat /\ level[d] \in Nat /\ level[d] = level[a] /\ level[d] = level[b]
    BY <1>2, <1>13, <2>1, <2>2
  <2>5. level[c] # level[a] /\ level[c] # level[b] /\ level[c] # level[par]
    BY ONLY <2>2, <2>3, <2>4
  <2> QED BY <2>2, <2>5
<1> HIDE DEF old
<1>18. TypesOK(nd2, level, lo2, hi2)
  BY <1>1, <1>5, <1>16 DEF TypesOK
<1>19. RootOK(nd2, rt, lo2, hi2, 0, 0)
  <2>1. rt \in D /\ nd[rt].parent = None /\ lo[rt] = 0 /\ hi[rt] = 0
    BY <1>1 DEF RootOK, Top
  <2>2. nd2[rt].parent = nd[rt].parent
    BY <1>6, <1>17, <2>1
  <2> QED BY <1>5, <1>13, <1>16, <2>1, <2>2 DEF RootOK, Top
<1>20. PendingOK(nd2, level, lo2, hi2, 0, 0)
  BY DEF PendingOK
<1>21. Disjoint(DOMAIN nd2, level, lo2, hi2)
  <2>1. ASSUME NEW q \in D, q # a, q # b, level[q] = level[a]
        PROVE  Apart(lo2, hi2, a, q) /\ Apart(lo2, hi2, b, q) /\ Apart(lo2, hi2, q, a) /\ Apart(lo2, hi2, q, b)
    <3>1. Apart(lo, hi, a, q) /\ Apart(lo, hi, b, q)
      BY <1>1, <1>13, <2>1 DEF Disjoint
    <3>2. Below(lo[q], hi[q])
      BY DEF Structure, PlaceOK
    <3>3. lo2[q] = lo[q] /\ hi2[q] = hi[q] /\ lo2[a] = lo[a] /\ hi2[b] = hi[b] /\ lo2[b] = key /\ hi2[a] = key
      BY <1>13, <1>16, <2>1
    <3>4. lo[q] \in Nat /\ hi[q] \in Nat /\ lo[a] \in Nat /\ hi[a] \in Nat /\ lo[b] \in Nat /\ hi[b] \in Nat
      BY <1>2, <1>13
    <3>5. (hi[q] # 0 /\ hi[q] <= lo[a]) \/ (hi[b] # 0 /\ hi[b] <= lo[q])
      BY <1>13, <1>14, <3>1, <3>2, <3>4 DEF Apart, Below
    <3> QED BY <1>15, <3>3, <3>4, <3>5 DEF Apart, Below
  <2>2. Apart(lo2, hi2, a, b) /\ Apart(lo2, hi2, b, a)
    BY <1>15, <1>16 DEF Apart
  <2>3. SUFFICES ASSUME NEW p \in D, NEW q \in D, p # q, level[p] = level[q]
                 PROVE  Apart(lo2, hi2, p, q)
    BY <1>5 DEF Disjoint
  <2>4. CASE p \in {a, b} /\ q \in {a, b}
    BY <2>2, <2>3, <2>4
  <2>5. CASE p \in {a, b} /\ q \notin {a, b}
    BY <1>13, <2>1, <2>3, <2>5
  <2>6. CASE p \notin {a, b} /\ q \in {a, b}
    BY <1>13, <2>1, <2>3, <2>6
  <2>7. CASE p \notin {a, b} /\ q \notin {a, b}
    <3>1. Apart(lo, hi, p, q)
      BY <1>1, <2>3 DEF Disjoint
    <3>2. lo2[p] = lo[p] /\ hi2[p] = hi[p] /\ lo2[q] = lo[q] /\ hi2[q] = hi[q]
      BY <1>16, <2>7
    <3> QED BY <3>1, <3>2 DEF Apart
  <2> QED BY <2>4, <2>5, <2>6, <2>7
<1>22. ASSUME NEW q \in D PROVE PlaceOK(nd2, rt, level, lo2, hi2, q)
  <2>1. PlaceOK(nd, rt, level, lo, hi, q) /\ nd2[q].leaf = nd[q].leaf
    BY <1>6 DEF Structure
  <2>2. Below(lo2[q], hi2[q])
    BY <1>13, <1>16, <2>1 DEF PlaceOK, Below
  <2> QED BY <2>1, <2>2 DEF PlaceOK
<1>23. ASSUME NEW q \in D PROVE LeafOK(nd2, lo2, hi2, q)
  <2> SUFFICES ASSUME nd2[q].leaf PROVE LeafOK(nd2, lo2, hi2, q)
    BY DEF LeafOK
  <2>1. LeafOK(nd, lo, hi, q) /\ nd[q].leaf /\ level[q] = 0
    BY <1>6 DEF Structure, PlaceOK
  <2>2. nd[q].next # None => /\ nd[q].next \in D /\ nd[nd[q].next].leaf /\ nd2[nd[q].next].leaf
                             /\ lo[nd[q].next] = hi[q] /\ hi[q] # 0
                             /\ level[nd[q].next] = 0
    <3>1. nd[q].next # None => nd[q].next \in D /\ nd[nd[q].next].leaf /\ lo[nd[q].next] = hi[q] /\ hi[q] # 0
      BY <2>1 DEF LeafOK
    <3> QED BY <1>6, <3>1 DEF Structure, PlaceOK
  <2>3. CASE q \notin {a, b}
    <3>1. nd[q].next # b
      <4>1. SUFFICES ASSUME nd[q].next = b PROVE FALSE
        OBVIOUS
      <4>2. b # None /\ level[q] = level[a] /\ hi[q] = hi[a]
        BY <1>2, <1>13, <2>1, <2>2, <4>1
      <4> QED BY <1>13, <2>3, <4>2, SamePlace
    <3>2. /\ nd2[q].items = nd[q].items /\ nd2[q].next = nd[q].next /\ nd2[q].leaf = nd[q].leaf
          /\ lo2[q] = lo[q] /\ hi2[q] = hi[q]
      BY <1>5, <1>6, <1>16, <2>1, <2>3
    <3>3. (nd[q].leaf /\ nd[q].next # None) =>
              nd[q].next \in DOMAIN nd2 /\ nd2[nd[q].next].leaf /\ lo2[nd[q].next] = lo[nd[q].next]
      BY <1>5, <1>16, <2>2, <3>1
    <3> QED BY ONLY <2>1, <3>2, <3>3, SameLeaf
  <2>4. CASE q = a
    <3>1. LeafItems(nd2[a].items, lo[a], key)
      BY <2>4 DEF ShiftFits
    <3>2. nd[a].next # None
      BY <1>13, <2>1, <2>4 DEF LeafOK
    <3>3. nd[a].next = b
      BY <1>13, <2>1, <2>2, <2>4, <3>2, SamePlace
    <3> QED BY <1>5, <1>6, <1>13, <1>15, <1>16, <2>2, <2>4, <3>1, <3>2, <3>3 DEF LeafOK
  <2>5. CASE q = b
    <3>1. LeafItems(nd2[b].items, key, hi[b])
      BY <1>6, <1>13, <1>14, <2>1, <2>5 DEF ShiftFits
    <3>2. nd[b].next # None => nd[b].next # b
      BY <1>2, <1>13, <1>14, <2>2, <2>5 DEF Below
    <3>3. nd[b].next = None => hi[b] = 0
      BY <2>1, <2>5 DEF LeafOK
    <3>4. nd2[b].next = nd[b].next /\ lo2[b] = key /\ hi2[b] = hi[b]
      BY <1>6, <1>13, <1>16
    <3>5. nd[b].next # None => /\ nd[b].next \in DOMAIN nd2 /\ nd2[nd[b].next].leaf
                               /\ lo2[nd[b].next] = hi[b] /\ hi[b] # 0
      BY <1>5, <1>16, <2>2, <2>5, <3>2
    <3> QED BY <2>5, <3>1, <3>3, <3>4, <3>5 DEF LeafOK
  <2> QED BY <2>3, <2>4, <2>5
<1>24. ASSUME NEW q \in D PROVE InnerOK(nd2, level, lo2, hi2, 0, 0, q)
  <2> SUFFICES ASSUME ~ nd2[q].leaf PROVE InnerOK(nd2, level, lo2, hi2, 0, 0, q)
    BY DEF InnerOK
  <2>1. InnerOK(nd, level, lo, hi, 0, 0, q) /\ ~ nd[q].leaf /\ ~ nd2[q].leaf
    BY <1>6 DEF Structure
  <2>2. nd2[q].next = nd[q].next /\ nd[q].next = None
    BY <1>6, <2>1 DEF InnerOK
  <2>3. CASE q \notin {a, b, par}
    <3>1. nd2[q].items = nd[q].items /\ level[q] = level[q] /\ lo2[q] = lo[q] /\ hi2[q] = hi[q]
      BY <1>6, <1>16, <2>3
    <3>2. SameKids(nd, level, lo, hi, 0, 0, nd2, level, lo2, hi2, 0, 0, q)
      <4>1. SUFFICES ASSUME NEW j \in 1..Len(nd[q].items), NEW c, c = nd[q].items[j][2]
                     PROVE  /\ c \in DOMAIN nd2 /\ nd2[c].parent = q /\ lo2[c] = lo[c]
                            /\ Top(hi2, 0, 0, c) = Top(hi, 0, 0, c)
        BY DEF SameKids
      <4>2. c \in D /\ nd[c].parent = q
        BY <2>1, <4>1, KidFacts
      <4>3. c # a /\ c # b /\ (nd[a].leaf \/ c \notin old)
        BY <1>13, <1>17, <2>3, <4>2
      <4> QED BY <1>5, <1>6, <1>16, <4>2, <4>3 DEF Top
    <3> QED BY ONLY <2>1, <2>2, <3>1, <3>2, SameInner
  <2>4. CASE q = par
    <3>1. InnerItems(P, lo[par], hi[par])
      <4>1. LowAt(I, lo[par], i - 1) < key /\ Below(key, HighAt(I, hi[par], i))
        BY <1>13
      <4>2. lo[par] \in Nat /\ hi[par] \in Nat
        BY <1>2, <1>5
      <4> QED BY <1>5, <1>8, <1>12, <4>1, <4>2, ReplacedItems
    <3>2. Len(P) = Len(I)
      BY <1>5 DEF Replaced
    <3>3. ASSUME NEW j \in 1..Len(I), NEW c, c = P[j][2]
          PROVE  /\ c \in D /\ level[c] + 1 = level[par] /\ nd2[c].parent = par
                 /\ lo2[c] = LowAt(P, lo[par], j) /\ Top(hi2, 0, 0, c) = HighAt(P, hi[par], j)
      <4>1. c = I[j][2]
        BY <1>9, <3>3 DEF ReplacedEnds
      <4>2. /\ c \in D /\ level[c] + 1 = level[par] /\ nd[c].parent = par
            /\ lo[c] = LowAt(I, lo[par], j) /\ hi[c] = HighAt(I, hi[par], j)
            /\ (j # i => c # b) /\ (j # i - 1 => c # a)
        BY <1>10, <1>11, <4>1
      <4>3. nd2[c].parent = par
        BY <1>6, <1>13, <1>17, <4>2
      <4>4. lo2[c] = LowAt(P, lo[par], j)
        BY <1>5, <1>9, <1>16, <4>1, <4>2 DEF ReplacedEnds
      <4>5. hi2[c] = HighAt(P, hi[par], j)
        BY <1>5, <1>9, <1>16, <4>1, <4>2 DEF ReplacedEnds
      <4> QED BY <1>2, <4>2, <4>3, <4>4, <4>5 DEF Top
    <3>4. Kids(DOMAIN nd2, level, lo2, hi2, 0, 0, P, lo[par], hi[par], level[par])
      BY <1>5, <3>2, <3>3 DEF Kids
    <3>5. lo2[par] = lo[par] /\ hi2[par] = hi[par]
      BY <1>5, <1>13, <1>16
    <3> QED BY <1>4, <2>2, <2>4, <3>1, <3>2, <3>3, <3>4, <3>5 DEF InnerOK
  <2>5. CASE q \in {a, b}
    <3>1. ~ nd[a].leaf /\ ~ nd2[a].leaf
      BY <1>6, <1>13, <1>14, <2>1, <2>5
    <3>2. /\ InnerItems(nd2[a].items, lo[a], key) /\ InnerItems(nd2[b].items, key, hi[b])
          /\ Kids(D, level, lo, hi, 0, 0, nd2[a].items, lo[a], key, level[a])
          /\ Kids(D, level, lo, hi, 0, 0, nd2[b].items, key, hi[b], level[b])
      BY <1>5, <3>1 DEF ShiftFits
    <3>3. lo2[a] = lo[a] /\ hi2[a] = key /\ lo2[b] = key /\ hi2[b] = hi[b]
      BY <1>13, <1>16
    <3>4. \A d \in {a, b} : \A j \in 1..Len(nd2[d].items) : nd2[d].items[j][2] \in KidSet(nd2[d].items)
      BY DEF KidSet
    <3>5. \A d \in {a, b} : \A j \in 1..Len(nd2[d].items) :
             nd2[d].items[j][2] \in old /\ nd2[nd2[d].items[j][2]].parent = d
      BY <1>7, <3>1, <3>4
    <3>6. \A c \in old : lo2[c] = lo[c] /\ Top(hi2, 0, 0, c) = Top(hi, 0, 0, c)
      BY <1>16, <1>17, <3>1 DEF Top
    <3>7. Kids(D, level, lo2, hi2, 0, 0, nd2[a].items, lo[a], key, level[a])
      BY <3>2, <3>5, <3>6 DEF Kids
    <3>8. Kids(D, level, lo2, hi2, 0, 0, nd2[b].items, key, hi[b], level[b])
      BY <3>2, <3>5, <3>6 DEF Kids
    <3> QED BY <1>5, <2>2, <2>5, <3>2, <3>3, <3>5, <3>7, <3>8 DEF InnerOK
  <2> QED BY <2>3, <2>4, <2>5
<1>25. ASSUME NEW q \in D PROVE LinkOK(nd2, rt, 0, q)
  <2> SUFFICES ASSUME q # rt PROVE LinkOK(nd2, rt, 0, q)
    BY DEF LinkOK
  <2>1. CASE ~ nd[a].leaf /\ q \in old
    <3>1. PICK d \in {a, b} : q \in KidSet(nd2[d].items)
      BY <1>7, <2>1
    <3>2. nd2[q].parent = d /\ d \in DOMAIN nd2 /\ ~ nd2[d].leaf
      BY <1>5, <1>6, <1>7, <1>13, <1>14, <2>1, <3>1
    <3> QED BY <3>1, <3>2 DEF LinkOK, KidSet
  <2>2. CASE nd[a].leaf \/ q \notin old
    <3>1. LinkOK(nd, rt, 0, q) /\ q # 0
      BY <1>2 DEF Structure
    <3>2. PICK r : r = nd[q].parent
      OBVIOUS
    <3>3. r \in D /\ ~ nd[r].leaf /\ \E j \in 1..Len(nd[r].items) : nd[r].items[j][2] = q
      BY <3>1, <3>2 DEF LinkOK
    <3>4. r \notin {a, b}
      BY <1>13, <1>14, <2>2, <3>3 DEF old, KidSet
    <3>5. nd2[q].parent = r /\ r \in DOMAIN nd2 /\ ~ nd2[r].leaf
      BY <1>5, <1>6, <2>2, <3>2, <3>3
    <3>6. CASE r # par
      BY <1>6, <3>3, <3>4, <3>5, <3>6 DEF LinkOK
    <3>7. CASE r = par
      <4>1. PICK j \in 1..Len(I) : I[j][2] = q
        BY <1>3, <3>3, <3>7
      <4>2. P[j][2] = q /\ Len(P) = Len(I)
        BY <1>5, <1>9, <4>1 DEF ReplacedEnds, Replaced
      <4> QED BY <1>4, <3>5, <3>7, <4>1, <4>2 DEF LinkOK
    <3> QED BY <3>6, <3>7
  <2> QED BY <2>1, <2>2
<1> QED BY <1>5, <1>18, <1>19, <1>20, <1>21, <1>22, <1>23, <1>24, <1>25 DEF Structure
-----------------------------------------------------------------------------
(* Entries I without the i-th *)
Removed(I, R, i) ==
    /\ R \in Entries /\ Len(R) = Len(I) - 1
    /\ \A j \in 1..(i - 1) : R[j] = I[j]
    /\ \A j \in i..(Len(I) - 1) : R[j] = I[j + 1]

LEMMA RemoveAtRemoves ==
    ASSUME NEW I \in Entries, NEW i \in 1..Len(I), NEW R, R = RemoveAt(I, i)
    PROVE  Removed(I, R, i)
<1>1. PICK S : S = Nat \X Nat
  OBVIOUS
<1>2. I \in Seq(S) /\ Len(I) \in Nat
  BY <1>1 DEF Entries
<1>3. /\ R \in Seq(S) /\ Len(R) = Len(I) - 1
      /\ \A j \in 1..(Len(I) - 1) : R[j] = IF j < i THEN I[j] ELSE I[j + 1]
  BY <1>2, RemoveAtIs
<1>4. \A j \in 1..(i - 1) : j \in 1..(Len(I) - 1) /\ j < i
  BY <1>2
<1>5. \A j \in i..(Len(I) - 1) : j \in 1..(Len(I) - 1) /\ ~ (j < i)
  BY <1>2
<1>6. \A j \in 1..(i - 1) : R[j] = I[j]
  BY ONLY <1>3, <1>4
<1>7. \A j \in i..(Len(I) - 1) : R[j] = I[j + 1]
  BY ONLY <1>3, <1>5
<1> QED BY ONLY <1>1, <1>3, <1>6, <1>7 DEF Removed, Entries

RemovedEnds(I, R, i, low, high) ==
    /\ \A j \in 1..Len(R) : j \in 1..(i - 1) \/ j \in i..(Len(I) - 1)
    /\ \A j \in 1..(i - 1) : /\ j \in 1..Len(R) /\ j \in 1..Len(I) /\ j # i /\ R[j] = I[j]
                             /\ LowAt(R, low, j) = LowAt(I, low, j)
                             /\ j # i - 1 => HighAt(R, high, j) = HighAt(I, high, j)
    /\ HighAt(R, high, i - 1) = HighAt(I, high, i)
    /\ \A j \in i..(Len(I) - 1) : /\ j \in 1..Len(R) /\ j + 1 \in 1..Len(I) /\ j + 1 # i /\ j + 1 # i - 1
                                  /\ R[j] = I[j + 1]
                                  /\ LowAt(R, low, j) = LowAt(I, low, j + 1)
                                  /\ HighAt(R, high, j) = HighAt(I, high, j + 1)

LEMMA RemovedPlaces ==
    ASSUME NEW I, NEW R, Len(I) \in Nat, NEW i, i \in 2..Len(I), Removed(I, R, i), NEW low, NEW high
    PROVE  RemovedEnds(I, R, i, low, high)
<1>1. PICK n : n = Len(I)
  OBVIOUS
<1>2. PICK m : m = n - 1
  OBVIOUS
<1>3. /\ n \in Nat /\ m \in Nat /\ m = n - 1 /\ i \in 2..n /\ Len(R) = m
      /\ \A j \in 1..(i - 1) : R[j] = I[j]
      /\ \A j \in i..m : R[j] = I[j + 1]
  BY <1>1, <1>2 DEF Removed
<1>4. /\ \A j \in 1..m : j \in 1..(i - 1) \/ j \in i..m
      /\ \A j \in 1..(i - 1) : j \in 1..m /\ j \in 1..n /\ j # i
      /\ \A j \in i..m : j \in 1..m /\ j + 1 \in 1..n /\ j + 1 # i /\ j + 1 # i - 1 /\ j # 1 /\ j + 1 # 1
  BY <1>3
<1>5. \A j \in 1..(i - 1) : LowAt(R, low, j) = LowAt(I, low, j)
  BY <1>3 DEF LowAt
<1>6. \A j \in i..m : LowAt(R, low, j) = LowAt(I, low, j + 1)
  BY <1>3, <1>4 DEF LowAt
<1>7. ASSUME NEW j \in 1..(i - 1), j # i - 1 PROVE HighAt(R, high, j) = HighAt(I, high, j)
  <2>1. j # n /\ j # m /\ j + 1 \in 1..(i - 1)
    BY <1>3, <1>7
  <2> QED BY <1>1, <1>3, <2>1 DEF HighAt
<1>8. HighAt(R, high, i - 1) = HighAt(I, high, i)
  <2>1. CASE i = n
    BY <1>1, <1>3, <2>1 DEF HighAt
  <2>2. CASE i # n
    <3>1. i - 1 # m /\ i \in i..m /\ i - 1 + 1 = i
      BY <1>3, <2>2
    <3>2. R[i - 1 + 1] = I[i + 1]
      BY <1>3, <3>1
    <3> QED BY <1>1, <1>3, <2>2, <3>1, <3>2 DEF HighAt
  <2> QED BY <2>1, <2>2
<1>9. ASSUME NEW j \in i..m PROVE HighAt(R, high, j) = HighAt(I, high, j + 1)
  <2>1. CASE j = m
    <3>1. j + 1 = n
      BY <1>3, <2>1
    <3> QED BY <1>1, <1>3, <2>1, <3>1 DEF HighAt
  <2>2. CASE j # m
    <3>1. j + 1 # n /\ j + 1 \in i..m
      BY <1>3, <2>2
    <3>2. R[j + 1] = I[j + 1 + 1]
      BY <1>3, <3>1
    <3> QED BY <1>1, <1>3, <2>2, <3>1, <3>2 DEF HighAt
  <2> QED BY <2>1, <2>2
<1> QED BY <1>1, <1>2, <1>3, <1>4, <1>5, <1>6, <1>7, <1>8, <1>9 DEF RemovedEnds

LEMMA RemovedItems ==
    ASSUME NEW I, NEW R, Len(I) \in Nat, NEW i, i \in 2..Len(I), Removed(I, R, i), NEW low, NEW high,
           InnerItems(I, low, high)
    PROVE  InnerItems(R, low, high)
<1>1. PICK n : n = Len(I)
  OBVIOUS
<1>2. PICK m : m = n - 1
  OBVIOUS
<1>3. /\ n \in Nat /\ m \in Nat /\ m = n - 1 /\ i \in 2..n /\ Len(R) = m
      /\ \A j \in 1..(i - 1) : R[j] = I[j]
      /\ \A j \in i..m : R[j] = I[j + 1]
  BY <1>1, <1>2 DEF Removed
<1>4. /\ \A j \in 1..n : I[j][1] \in Keys \cup {0}
      /\ \A j \in 2..n : I[j][1] \in Keys /\ low < I[j][1] /\ Below(I[j][1], high)
      /\ \A a, b \in 2..n : a < b => I[a][1] < I[b][1]
  BY <1>1 DEF InnerItems
<1>5. /\ \A j \in 1..m : j \in 1..(i - 1) \/ j \in i..m
      /\ \A j \in 2..m : j \in 1..m
      /\ \A j \in 1..(i - 1) : j \in 1..n /\ (j # 1 => j \in 2..n)
      /\ \A j \in i..m : j + 1 \in 1..n /\ j + 1 \in 2..n
      /\ \A a, b \in 2..m : a < b => /\ a # 1 /\ b # 1 /\ a + 1 < b + 1 /\ a < b + 1
                                     /\ a \in i..m => b \in i..m
      /\ \A j \in 2..m : j # 1
      /\ m >= 1
  BY <1>3
<1>6. \A j \in 1..m : R[j][1] \in Keys \cup {0}
  BY <1>3, <1>4, <1>5
<1>7. \A j \in 2..m : R[j][1] \in Keys /\ low < R[j][1] /\ Below(R[j][1], high)
  BY <1>3, <1>4, <1>5
<1>8. ASSUME NEW a \in 2..m, NEW b \in 2..m, a < b PROVE R[a][1] < R[b][1]
  <2>1. CASE a \in i..m
    <3>1. b \in i..m /\ a + 1 < b + 1
      BY <1>5, <1>8, <2>1
    <3>2. R[a] = I[a + 1] /\ R[b] = I[b + 1] /\ a + 1 \in 2..n /\ b + 1 \in 2..n
      BY <1>3, <1>5, <2>1, <3>1
    <3> QED BY <1>4, <3>1, <3>2
  <2>2. CASE a \in 1..(i - 1) /\ b \in 1..(i - 1)
    BY <1>3, <1>4, <1>5, <1>8, <2>2
  <2>3. CASE a \in 1..(i - 1) /\ b \in i..m
    BY <1>3, <1>4, <1>5, <1>8, <2>3
  <2> QED BY <1>5, <2>1, <2>2, <2>3
<1> QED BY <1>3, <1>5, <1>6, <1>7, <1>8 DEF InnerItems

(* Coalesce: page b is emptied into its left neighbour a and unlinked *)
Merged(nd, nd2, par, i, a, b) ==
    /\ par \in DOMAIN nd /\ ~ nd[par].leaf
    /\ i \in 2..Len(nd[par].items) /\ a = nd[par].items[i - 1][2] /\ b = nd[par].items[i][2]
    /\ DOMAIN nd2 = DOMAIN nd \ {b} /\ nd2 \in [DOMAIN nd2 -> PageType]
    /\ Removed(nd[par].items, nd2[par].items, i)
    /\ nd2[a].next = nd[b].next
    /\ ~ nd[a].leaf => /\ \A c \in KidSet(nd[a].items) \cup KidSet(nd[b].items) :
                              c \in KidSet(nd2[a].items) /\ nd2[c].parent = a
                       /\ \A c \in KidSet(nd2[a].items) : c \in KidSet(nd[a].items) \cup KidSet(nd[b].items)
    /\ \A q \in DOMAIN nd2 :
           /\ nd2[q].leaf = nd[q].leaf
           /\ q # a => nd2[q].next = nd[q].next
           /\ q \notin {a, par} => nd2[q].items = nd[q].items
           /\ (nd[a].leaf \/ q \notin KidSet(nd[a].items) \cup KidSet(nd[b].items)) =>
                  nd2[q].parent = nd[q].parent

MergeFits(nd, nd2, level, lo, hi, a, b) ==
    IF nd[a].leaf
    THEN LeafItems(nd2[a].items, lo[a], hi[b])
    ELSE /\ InnerItems(nd2[a].items, lo[a], hi[b])
         /\ Kids(DOMAIN nd, level, lo, hi, 0, 0, nd2[a].items, lo[a], hi[b], level[a])

LEMMA MergeOK ==
    ASSUME NEW nd, NEW rt, NEW level, NEW lo, NEW hi, Structure(nd, rt, 0, 0, level, lo, hi),
           NEW nd2, NEW par, NEW i, NEW a, NEW b,
           Merged(nd, nd2, par, i, a, b), MergeFits(nd, nd2, level, lo, hi, a, b),
           NEW hi2, hi2 = [hi EXCEPT ![a] = hi[b]]
    PROVE  Structure(nd2, rt, 0, 0, level, lo, hi2)
<1> DEFINE D == DOMAIN nd
           D2 == D \ {b}
           old == KidSet(nd[a].items) \cup KidSet(nd[b].items)
<1>1. /\ TypesOK(nd, level, lo, hi) /\ RootOK(nd, rt, lo, hi, 0, 0) /\ Disjoint(D, level, lo, hi)
  BY DEF Structure
<1>2. \A q \in D : /\ q \in Nat /\ q # 0 /\ q # None /\ lo[q] \in Nat /\ hi[q] \in Nat /\ level[q] \in Nat
                   /\ nd[q].leaf \in BOOLEAN
  BY <1>1, PageIds
<1>3. PICK I : I = nd[par].items
  OBVIOUS
<1>4. PICK R : R = nd2[par].items
  OBVIOUS
<1>5. /\ par \in D /\ ~ nd[par].leaf /\ i \in 2..Len(I) /\ a = I[i - 1][2] /\ b = I[i][2]
      /\ DOMAIN nd2 = D2 /\ nd2 \in [D2 -> PageType] /\ Removed(I, R, i)
      /\ nd2[a].next = nd[b].next
  BY <1>3, <1>4 DEF Merged
<1>6. \A q \in D2 : /\ nd2[q].leaf = nd[q].leaf
                    /\ q # a => nd2[q].next = nd[q].next
                    /\ q \notin {a, par} => nd2[q].items = nd[q].items
                    /\ (nd[a].leaf \/ q \notin old) => nd2[q].parent = nd[q].parent
  BY <1>5 DEF Merged
<1>7. ~ nd[a].leaf => /\ \A c \in old : c \in KidSet(nd2[a].items) /\ nd2[c].parent = a
                      /\ \A c \in KidSet(nd2[a].items) : c \in old
  BY DEF Merged
<1>8. I \in Entries /\ Len(I) \in Nat /\ i - 1 \in 1..Len(I) /\ i \in 1..Len(I) /\ i # 1 /\ i - 1 # i
  <2>1. I \in Entries /\ Len(I) \in Nat
    BY <1>1, <1>3, <1>5, PageIds
  <2> QED BY <1>5, <2>1
<1>9. RemovedEnds(I, R, i, lo[par], hi[par])
  BY <1>5, <1>8, RemovedPlaces
<1>10. \A j \in 1..Len(I) : /\ I[j][2] \in D /\ I[j][2] # par /\ I[j][2] # rt
                            /\ level[I[j][2]] + 1 = level[par] /\ nd[I[j][2]].parent = par
                            /\ lo[I[j][2]] = LowAt(I, lo[par], j)
                            /\ hi[I[j][2]] = HighAt(I, hi[par], j)
  <2>1. SUFFICES ASSUME NEW j \in 1..Len(I), NEW c, c = I[j][2]
                 PROVE  /\ c \in D /\ c # par /\ c # rt /\ level[c] + 1 = level[par] /\ nd[c].parent = par
                        /\ lo[c] = LowAt(I, lo[par], j) /\ hi[c] = HighAt(I, hi[par], j)
    OBVIOUS
  <2>2. /\ c \in D /\ c # par /\ c # rt /\ level[c] + 1 = level[par] /\ nd[c].parent = par
        /\ lo[c] = LowAt(I, lo[par], j) /\ Top(hi, 0, 0, c) = HighAt(I, hi[par], j)
    <3>1. Structure(nd, rt, 0, 0, level, lo, hi)
      OBVIOUS
    <3>2. par \in DOMAIN nd /\ ~ nd[par].leaf /\ j \in 1..Len(nd[par].items) /\ c = nd[par].items[j][2]
      BY <1>3, <1>5, <2>1
    <3>3. /\ c \in DOMAIN nd /\ c # par /\ c # rt /\ level[c] + 1 = level[par] /\ nd[c].parent = par
          /\ lo[c] = LowAt(nd[par].items, lo[par], j)
          /\ Top(hi, 0, 0, c) = HighAt(nd[par].items, hi[par], j)
      BY ONLY <3>1, <3>2, KidFacts
    <3> QED BY <1>3, <3>3
  <2> QED BY <1>2, <2>2 DEF Top
<1>11. \A j \in 1..Len(I) : /\ j # i => I[j][2] # b
                            /\ j # i - 1 => I[j][2] # a
  BY <1>3, <1>5, <1>8, KidsDistinct
<1>12. InnerItems(I, lo[par], hi[par]) /\ nd[par].next = None
  BY <1>3, <1>5 DEF Structure, InnerOK
<1>13. /\ a \in D /\ b \in D /\ a # par /\ b # par /\ a # b /\ a # rt /\ b # rt /\ level[a] = level[b]
       /\ nd[a].parent = par /\ nd[b].parent = par /\ hi[a] = lo[b] /\ hi[a] # 0
       /\ lo[a] = LowAt(I, lo[par], i - 1) /\ hi[b] = HighAt(I, hi[par], i)
  <2>1. /\ a \in D /\ b \in D /\ a # par /\ b # par /\ a # b /\ a # rt /\ b # rt
        /\ nd[a].parent = par /\ nd[b].parent = par
        /\ lo[a] = LowAt(I, lo[par], i - 1) /\ hi[b] = HighAt(I, hi[par], i)
        /\ level[a] + 1 = level[par] /\ level[b] + 1 = level[par]
    BY <1>5, <1>8, <1>10, <1>11
  <2>2. lo[b] = I[i][1]
    BY <1>5, <1>8, <1>10 DEF LowAt
  <2>3. hi[a] = I[i][1]
    <3>1. hi[a] = HighAt(I, hi[par], i - 1) /\ i - 1 # Len(I) /\ i - 1 + 1 = i
      BY <1>5, <1>8, <1>10
    <3> QED BY <3>1 DEF HighAt
  <2>4. I[i][1] # 0
    BY <1>5, <1>12, TreeAssumption DEF InnerItems
  <2>5. level[a] = level[b]
    <3>1. level[a] \in Nat /\ level[b] \in Nat
      BY <1>2, <2>1
    <3> QED BY ONLY <2>1, <3>1
  <2> QED BY <2>1, <2>2, <2>3, <2>4, <2>5
<1>14. nd[a].leaf = nd[b].leaf /\ Below(lo[a], hi[a]) /\ Below(lo[b], hi[b])
  BY <1>2, <1>13 DEF Structure, PlaceOK
<1>15. /\ hi2 \in [Nat -> Nat] /\ hi2[a] = hi[b]
       /\ \A q \in D : q # a => hi2[q] = hi[q]
  BY <1>1, <1>2, <1>13 DEF TypesOK
<1>16. lo[a] < lo[b] /\ Below(lo[a], hi[b]) /\ lo[a] \in Nat /\ hi[a] \in Nat /\ lo[b] \in Nat /\ hi[b] \in Nat
  <2>1. lo[a] \in Nat /\ hi[a] \in Nat /\ lo[b] \in Nat /\ hi[b] \in Nat
    BY <1>2, <1>13
  <2> QED BY <1>13, <1>14, <2>1 DEF Below
<1>17. ~ nd[a].leaf => \A c \in old : /\ c \in D2 /\ c # rt /\ c # a /\ c # b /\ c # par
                                      /\ nd[c].parent \in {a, b}
  <2>1. SUFFICES ASSUME ~ nd[a].leaf, NEW d \in {a, b}, NEW j \in 1..Len(nd[d].items), NEW c, c = nd[d].items[j][2]
                 PROVE  c \in D /\ c # rt /\ c # a /\ c # b /\ c # par /\ nd[c].parent = d
    BY DEF KidSet
  <2>2. c \in D /\ c # rt /\ level[c] + 1 = level[d] /\ nd[c].parent = d
    BY <1>13, <1>14, <2>1, KidFacts
  <2>3. level[d] + 1 = level[par]
    BY <1>5, <1>8, <1>10, <2>1
  <2>4. level[c] \in Nat /\ level[d] \in Nat /\ level[d] = level[a] /\ level[d] = level[b]
    BY <1>2, <1>13, <2>1, <2>2
  <2>5. level[c] # level[a] /\ level[c] # level[b] /\ level[c] # level[par]
    BY ONLY <2>2, <2>3, <2>4
  <2> QED BY <2>2, <2>5
<1> HIDE DEF old
<1>18. TypesOK(nd2, level, lo, hi2)
  BY <1>1, <1>5, <1>15 DEF TypesOK
<1>19. RootOK(nd2, rt, lo, hi2, 0, 0)
  <2>1. rt \in D2 /\ nd[rt].parent = None /\ lo[rt] = 0 /\ hi[rt] = 0
    BY <1>1, <1>13 DEF RootOK, Top
  <2>2. nd2[rt].parent = nd[rt].parent
    BY <1>6, <1>17, <2>1
  <2> QED BY <1>5, <1>13, <1>15, <2>1, <2>2 DEF RootOK, Top
<1>20. PendingOK(nd2, level, lo, hi2, 0, 0)
  BY DEF PendingOK
<1>21. Disjoint(DOMAIN nd2, level, lo, hi2)
  <2>1. ASSUME NEW q \in D2, q # a, level[q] = level[a]
        PROVE  Apart(lo, hi2, a, q) /\ Apart(lo, hi2, q, a)
    <3>1. Apart(lo, hi, a, q) /\ Apart(lo, hi, b, q)
      BY <1>1, <1>13, <2>1 DEF Disjoint
    <3>2. Below(lo[q], hi[q])
      BY DEF Structure, PlaceOK
    <3>3. hi2[q] = hi[q] /\ hi2[a] = hi[b]
      BY <1>15, <2>1
    <3>4. lo[q] \in Nat /\ hi[q] \in Nat
      BY <1>2
    <3>5. (hi[q] # 0 /\ hi[q] <= lo[a]) \/ (hi[b] # 0 /\ hi[b] <= lo[q])
      BY <1>13, <1>14, <1>16, <3>1, <3>2, <3>4 DEF Apart, Below
    <3> QED BY <3>3, <3>5 DEF Apart
  <2>3. SUFFICES ASSUME NEW p \in D2, NEW q \in D2, p # q, level[p] = level[q]
                 PROVE  Apart(lo, hi2, p, q)
    BY <1>5 DEF Disjoint
  <2>4. CASE p = a \/ q = a
    BY <2>1, <2>3, <2>4
  <2>5. CASE p # a /\ q # a
    <3>1. Apart(lo, hi, p, q)
      BY <1>1, <2>3 DEF Disjoint
    <3>2. hi2[p] = hi[p] /\ hi2[q] = hi[q]
      BY <1>15, <2>5
    <3> QED BY <3>1, <3>2 DEF Apart
  <2> QED BY <2>4, <2>5
<1>22. ASSUME NEW q \in D2 PROVE PlaceOK(nd2, rt, level, lo, hi2, q)
  <2>1. PlaceOK(nd, rt, level, lo, hi, q) /\ nd2[q].leaf = nd[q].leaf
    BY <1>6 DEF Structure
  <2>2. Below(lo[q], hi2[q])
    BY <1>15, <1>16, <2>1 DEF PlaceOK
  <2> QED BY <2>1, <2>2 DEF PlaceOK
<1>23. ASSUME NEW q \in D2 PROVE LeafOK(nd2, lo, hi2, q)
  <2> SUFFICES ASSUME nd2[q].leaf PROVE LeafOK(nd2, lo, hi2, q)
    BY DEF LeafOK
  <2>1. LeafOK(nd, lo, hi, q) /\ nd[q].leaf /\ level[q] = 0
    BY <1>6 DEF Structure, PlaceOK
  <2>2. CASE q # a
    <3>1. nd[q].next # b
      <4>1. SUFFICES ASSUME nd[q].next = b PROVE FALSE
        OBVIOUS
      <4>2. b # None /\ nd[b].leaf /\ hi[q] = lo[b]
        BY <1>2, <1>13, <2>1, <4>1 DEF LeafOK
      <4>3. level[b] = 0
        BY <1>13, <4>2 DEF Structure, PlaceOK
      <4>4. level[q] = level[a] /\ hi[q] = hi[a]
        BY <1>13, <2>1, <4>2, <4>3
      <4> QED BY <1>13, <2>2, <4>4, SamePlace
    <3>2. /\ nd2[q].items = nd[q].items /\ nd2[q].next = nd[q].next /\ nd2[q].leaf = nd[q].leaf
          /\ hi2[q] = hi[q]
      BY <1>5, <1>6, <1>15, <2>1, <2>2
    <3>3. (nd[q].leaf /\ nd[q].next # None) => nd[q].next \in DOMAIN nd2 /\ nd2[nd[q].next].leaf
      BY <1>5, <1>6, <2>1, <3>1 DEF LeafOK
    <3> QED BY ONLY <2>1, <3>2, <3>3, SameLeaf
  <2>3. CASE q = a
    <3>1. LeafItems(nd2[a].items, lo[a], hi[b])
      BY <2>1, <2>3 DEF MergeFits
    <3>2. LeafOK(nd, lo, hi, b) /\ nd[b].leaf
      BY <1>13, <1>14, <2>1, <2>3 DEF Structure
    <3>3. nd[b].next # None => nd[b].next # b
      BY <1>14, <1>16, <3>2 DEF LeafOK, Below
    <3>4. nd[b].next # None => nd[b].next \in DOMAIN nd2 /\ nd2[nd[b].next].leaf
      BY <1>5, <1>6, <3>2, <3>3 DEF LeafOK
    <3>5. nd2[a].next = nd[b].next /\ hi2[a] = hi[b]
      BY <1>5, <1>15
    <3>6. IF nd[b].next = None THEN hi[b] = 0 ELSE hi[b] # 0 /\ lo[nd[b].next] = hi[b]
      BY <3>2 DEF LeafOK
    <3>7. LeafOK(nd2, lo, hi2, a)
      BY ONLY <3>1, <3>4, <3>5, <3>6 DEF LeafOK
    <3> QED BY ONLY <2>3, <3>7
  <2> QED BY <2>2, <2>3
<1>24. ASSUME NEW q \in D2 PROVE InnerOK(nd2, level, lo, hi2, 0, 0, q)
  <2> SUFFICES ASSUME ~ nd2[q].leaf PROVE InnerOK(nd2, level, lo, hi2, 0, 0, q)
    BY DEF InnerOK
  <2>1. InnerOK(nd, level, lo, hi, 0, 0, q) /\ ~ nd[q].leaf /\ ~ nd2[q].leaf /\ nd[q].next = None
    BY <1>6 DEF Structure, InnerOK
  <2>2. nd2[q].next = nd[q].next
    <3>1. CASE q = a
      BY <1>5, <1>13, <1>14, <2>1, <3>1 DEF Structure, InnerOK
    <3>2. CASE q # a
      BY <1>6, <3>2
    <3> QED BY <3>1, <3>2
  <2>3. CASE q \notin {a, par}
    <3>1. nd2[q].items = nd[q].items /\ hi2[q] = hi[q]
      BY <1>6, <1>15, <2>3
    <3>2. SameKids(nd, level, lo, hi, 0, 0, nd2, level, lo, hi2, 0, 0, q)
      <4>1. SUFFICES ASSUME NEW j \in 1..Len(nd[q].items), NEW c, c = nd[q].items[j][2]
                     PROVE  /\ c \in DOMAIN nd2 /\ nd2[c].parent = q
                            /\ Top(hi2, 0, 0, c) = Top(hi, 0, 0, c)
        BY DEF SameKids
      <4>2. c \in D /\ nd[c].parent = q
        BY <2>1, <4>1, KidFacts
      <4>3. c # a /\ c # b /\ (nd[a].leaf \/ c \notin old)
        BY <1>13, <1>17, <2>3, <4>2
      <4> QED BY <1>5, <1>6, <1>15, <4>2, <4>3 DEF Top
    <3> QED BY ONLY <2>1, <2>2, <3>1, <3>2, SameInner
  <2>4. CASE q = par
    <3>1. InnerItems(R, lo[par], hi[par])
      BY <1>5, <1>8, <1>12, RemovedItems
    <3>2. ASSUME NEW j \in 1..Len(I), j # i
          PROVE  /\ I[j][2] \in D2 /\ level[I[j][2]] + 1 = level[par] /\ nd2[I[j][2]].parent = par
                 /\ lo[I[j][2]] = LowAt(I, lo[par], j)
                 /\ j # i - 1 => Top(hi2, 0, 0, I[j][2]) = HighAt(I, hi[par], j)
                 /\ j = i - 1 => Top(hi2, 0, 0, I[j][2]) = HighAt(I, hi[par], i)
      <4>1. PICK c : c = I[j][2]
        OBVIOUS
      <4>2. /\ c \in D2 /\ level[c] + 1 = level[par] /\ nd[c].parent = par
            /\ lo[c] = LowAt(I, lo[par], j) /\ hi[c] = HighAt(I, hi[par], j)
            /\ (j # i - 1 => c # a)
        BY <1>10, <1>11, <3>2, <4>1
      <4>3. nd2[c].parent = par
        BY <1>6, <1>13, <1>17, <4>2
      <4>4. c # 0 /\ (j = i - 1 => c = a)
        BY <1>2, <1>5, <4>1, <4>2
      <4>5. (j # i - 1 => hi2[c] = HighAt(I, hi[par], j)) /\ (j = i - 1 => hi2[c] = HighAt(I, hi[par], i))
        BY <1>13, <1>15, <4>2, <4>4
      <4>6. Top(hi2, 0, 0, c) = hi2[c]
        BY <4>4 DEF Top
      <4> QED BY <4>1, <4>2, <4>3, <4>5, <4>6
    <3>3. ASSUME NEW j \in 1..Len(R), NEW c, c = R[j][2]
          PROVE  /\ c \in D2 /\ level[c] + 1 = level[par] /\ nd2[c].parent = par
                 /\ lo[c] = LowAt(R, lo[par], j) /\ Top(hi2, 0, 0, c) = HighAt(R, hi[par], j)
      <4>1. CASE j \in 1..(i - 1)
        <5>1. /\ j \in 1..Len(I) /\ j # i /\ c = I[j][2] /\ LowAt(R, lo[par], j) = LowAt(I, lo[par], j)
              /\ (j # i - 1 => HighAt(R, hi[par], j) = HighAt(I, hi[par], j))
              /\ (j = i - 1 => HighAt(R, hi[par], j) = HighAt(I, hi[par], i))
          BY <1>9, <3>3, <4>1 DEF RemovedEnds
        <5> QED BY <3>2, <5>1
      <4>2. CASE j \in i..(Len(I) - 1)
        <5>1. PICK k : k = j + 1
          OBVIOUS
        <5>2. /\ k \in 1..Len(I) /\ k # i /\ k # i - 1 /\ c = I[k][2]
              /\ LowAt(R, lo[par], j) = LowAt(I, lo[par], k)
              /\ HighAt(R, hi[par], j) = HighAt(I, hi[par], k)
          BY <1>9, <3>3, <4>2, <5>1 DEF RemovedEnds
        <5> QED BY <3>2, <5>2
      <4> QED BY <1>9, <4>1, <4>2 DEF RemovedEnds
    <3>4. Kids(DOMAIN nd2, level, lo, hi2, 0, 0, R, lo[par], hi[par], level[par])
      BY <1>5, <3>3 DEF Kids
    <3>5. hi2[par] = hi[par]
      BY <1>5, <1>13, <1>15
    <3> QED BY <1>4, <2>1, <2>2, <2>4, <3>1, <3>3, <3>4, <3>5 DEF InnerOK
  <2>5. CASE q = a
    <3>1. ~ nd[a].leaf
      BY <2>1, <2>5
    <3>2. /\ InnerItems(nd2[a].items, lo[a], hi[b])
          /\ Kids(D, level, lo, hi, 0, 0, nd2[a].items, lo[a], hi[b], level[a])
      BY <3>1 DEF MergeFits
    <3>3. \A j \in 1..Len(nd2[a].items) : nd2[a].items[j][2] \in KidSet(nd2[a].items)
      BY DEF KidSet
    <3>4. \A j \in 1..Len(nd2[a].items) : nd2[a].items[j][2] \in old /\ nd2[nd2[a].items[j][2]].parent = a
      BY <1>7, <3>1, <3>3
    <3>5. \A c \in old : c \in D2 /\ Top(hi2, 0, 0, c) = Top(hi, 0, 0, c)
      BY <1>15, <1>17, <3>1 DEF Top
    <3>6. Kids(D2, level, lo, hi2, 0, 0, nd2[a].items, lo[a], hi[b], level[a])
      BY <3>2, <3>4, <3>5 DEF Kids
    <3> QED BY <1>5, <1>15, <2>1, <2>2, <2>5, <3>2, <3>4, <3>6 DEF InnerOK
  <2> QED BY <2>3, <2>4, <2>5
<1>25. ASSUME NEW q \in D2 PROVE LinkOK(nd2, rt, 0, q)
  <2> SUFFICES ASSUME q # rt PROVE LinkOK(nd2, rt, 0, q)
    BY DEF LinkOK
  <2>1. CASE ~ nd[a].leaf /\ q \in old
    <3>1. q \in KidSet(nd2[a].items) /\ nd2[q].parent = a
      BY <1>7, <2>1
    <3>2. a \in DOMAIN nd2 /\ ~ nd2[a].leaf
      BY <1>5, <1>6, <1>13, <2>1
    <3> QED BY <3>1, <3>2 DEF LinkOK, KidSet
  <2>2. CASE nd[a].leaf \/ q \notin old
    <3>1. LinkOK(nd, rt, 0, q) /\ q # 0
      BY <1>2 DEF Structure
    <3>2. PICK r : r = nd[q].parent
      OBVIOUS
    <3>3. r \in D /\ ~ nd[r].leaf /\ \E j \in 1..Len(nd[r].items) : nd[r].items[j][2] = q
      BY <3>1, <3>2 DEF LinkOK
    <3>4. r \notin {a, b}
      BY <1>13, <1>14, <2>2, <3>3 DEF old, KidSet
    <3>5. nd2[q].parent = r /\ r \in DOMAIN nd2 /\ ~ nd2[r].leaf
      BY <1>5, <1>6, <2>2, <3>2, <3>3, <3>4
    <3>6. CASE r # par
      BY <1>6, <3>3, <3>4, <3>5, <3>6 DEF LinkOK
    <3>7. CASE r = par
      <4>1. PICK j \in 1..Len(I) : I[j][2] = q
        BY <1>3, <3>3, <3>7
      <4>2. j # i
        BY <1>5, <4>1
      <4>3. \E k \in 1..Len(R) : R[k] = I[j]
        <5>1. CASE j < i
          <6>1. j \in 1..(i - 1)
            BY <1>8, <5>1
          <6> QED BY <1>9, <6>1 DEF RemovedEnds
        <5>2. CASE j > i
          <6>1. PICK k : k = j - 1
            OBVIOUS
          <6>2. k \in i..(Len(I) - 1) /\ k + 1 = j
            BY <1>8, <5>2, <6>1
          <6>3. k \in 1..Len(R) /\ R[k] = I[k + 1]
            BY <1>9, <6>2 DEF RemovedEnds
          <6> QED BY <6>2, <6>3
        <5> QED BY <1>8, <4>2, <5>1, <5>2
      <4> QED BY <1>4, <3>5, <3>7, <4>1, <4>3 DEF LinkOK
    <3> QED BY <3>6, <3>7
  <2> QED BY <2>1, <2>2
<1> QED BY <1>5, <1>18, <1>19, <1>20, <1>21, <1>22, <1>23, <1>24, <1>25 DEF Structure
-----------------------------------------------------------------------------
(* KeyIndex: the entries of a leaf with smaller keys are the first ones *)
IndexIs(items, k, m) ==
    /\ m \in 0..Len(items)
    /\ \A i \in 1..m : items[i][1] < k
    /\ \A i \in (m + 1)..Len(items) : k <= items[i][1]

LEMMA KeyIndexIs ==
    ASSUME NEW p, NEW k \in Nat, NEW low, NEW high, node[p].items \in Entries,
           LeafItems(node[p].items, low, high)
    PROVE  IndexIs(node[p].items, k, KeyIndex(p, k))
<1>1. PICK I : I = node[p].items
  OBVIOUS
<1>2. PICK n : n = Len(I)
  OBVIOUS
<1>3. I \in Entries /\ n \in Nat /\ DOMAIN I = 1..n
  BY <1>1, <1>2 DEF Entries
<1>4. (\A i \in 1..n : I[i][1] \in Nat) /\ \A i, j \in 1..n : i < j => I[i][1] < I[j][1]
  BY <1>1, <1>2, TreeAssumption DEF LeafItems
<1> DEFINE T == {i \in 0..n : \A j \in 1..i : I[j][1] < k}
<1>5. T \subseteq 0..n /\ 0 \in T
  BY <1>3
<1>6. PICK m \in T : \A x \in T : x <= m
  <2> HIDE DEF T
  <2> QED BY <1>3, <1>5, GreatestOfNats
<1>7. m \in 0..n /\ \A j \in 1..m : I[j][1] < k
  OBVIOUS
<1>8. ASSUME NEW i \in 1..n, I[i][1] < k PROVE i <= m
  <2>1. i \in T
    <3>1. \A j \in 1..i : j \in 1..n /\ (j = i \/ j < i)
      BY <1>3
    <3>2. \A j \in 1..i : I[j][1] < k
      BY <1>4, <1>8, <3>1
    <3> QED BY <1>3, <3>2
  <2> QED BY <1>6, <2>1
<1> HIDE DEF T
<1>9. \A i \in (m + 1)..n : k <= I[i][1]
  <2>1. \A i \in (m + 1)..n : i \in 1..n /\ ~ (i <= m)
    BY <1>3, <1>7
  <2>2. SUFFICES ASSUME NEW i \in (m + 1)..n PROVE k <= I[i][1]
    OBVIOUS
  <2>3. ~ (I[i][1] < k) /\ I[i][1] \in Nat
    BY <1>4, <1>8, <2>1
  <2> QED BY <2>3
<1>10. {i \in DOMAIN I : I[i][1] < k} = 1..m
  <2>1. \A i \in 1..m : i \in 1..n
    BY <1>3, <1>7
  <2>2. \A i \in 1..n : i <= m => i \in 1..m
    BY <1>3, <1>7
  <2> QED BY <1>3, <1>7, <1>8, <2>1, <2>2
<1>11. Cardinality(1..m) = m
  <2>1. 1 \in Int /\ m \in Int /\ m - 1 + 1 = m /\ (1 > m => m = 0)
    BY <1>3, <1>7
  <2> QED BY <1>7, <2>1, FS_Interval
<1>12. KeyIndex(p, k) = m
  BY <1>1, <1>10, <1>11 DEF KeyIndex, KeyAt
<1> QED BY <1>1, <1>2, <1>7, <1>9, <1>12 DEF IndexIs

(* InternalLookup takes a search to the child whose interval has the key *)
LEMMA LookupIs ==
    ASSUME NEW level, NEW lo, NEW hi, NEW old, NEW new,
           Structure(node, root, old, new, level, lo, hi),
           NEW p \in DOMAIN node, ~ node[p].leaf, NEW k \in Nat, NEW c, c = InternalLookup(p, k)
    PROVE  /\ c \in DOMAIN node /\ level[c] + 1 = level[p]
           /\ (lo[p] <= k /\ Below(k, hi[p])) => lo[c] <= k /\ Below(k, Top(hi, old, new, c))
<1>1. PICK I : I = node[p].items
  OBVIOUS
<1>2. PICK n : n = Len(I)
  OBVIOUS
<1>3. I \in Entries /\ n \in Nat
  BY <1>1, <1>2, PageIds DEF Structure
<1>4. InnerItems(I, lo[p], hi[p])
  BY <1>1 DEF Structure, InnerOK
<1>5. /\ n >= 1 /\ \A i \in 2..n : I[i][1] \in Nat /\ I[i][1] # 0
  BY <1>2, <1>4, TreeAssumption DEF InnerItems
<1> DEFINE T == {1} \cup {i \in 2..n : I[i][1] <= k}
<1>6. T \subseteq 0..n /\ 1 \in T
  BY <1>3, <1>5
<1>7. PICK m \in T : \A x \in T : x <= m
  <2> HIDE DEF T
  <2> QED BY <1>3, <1>6, GreatestOfNats
<1>8. Max(T) = m
  <2>1. \A x \in T : x \in Nat
    BY <1>6
  <2>2. \A x \in T : m >= x
    BY <1>7, <2>1
  <2>3. \A x \in T : (\A y \in T : x >= y) => x = m
    BY <1>7, <2>1
  <2> HIDE DEF T
  <2> QED BY <1>7, <2>2, <2>3 DEF Max
<1>9. c = I[m][2]
  BY <1>1, <1>2, <1>8 DEF InternalLookup, ValueAt, KeyAt, Size
<1>10. m \in 1..n /\ (m # 1 => I[m][1] <= k)
  BY <1>3, <1>5
<1>11. /\ c \in DOMAIN node /\ level[c] + 1 = level[p]
       /\ lo[c] = LowAt(I, lo[p], m) /\ Top(hi, old, new, c) = HighAt(I, hi[p], m)
  BY <1>1, <1>2, <1>9, <1>10, KidFacts
<1>12. ASSUME lo[p] <= k, Below(k, hi[p]) PROVE lo[c] <= k /\ Below(k, HighAt(I, hi[p], m))
  <2>1. lo[c] <= k
    BY <1>10, <1>11, <1>12 DEF LowAt
  <2>2. CASE m = n
    BY <1>2, <1>12, <2>1, <2>2 DEF HighAt
  <2>3. CASE m # n
    <3>1. m + 1 \in 2..n /\ ~ (m + 1 <= m)
      BY <1>3, <1>10, <2>3
    <3>2. m + 1 \notin T
      BY <1>7, <3>1
    <3>3. ~ (I[m + 1][1] <= k)
      BY <3>1, <3>2
    <3>4. k < I[m + 1][1]
      BY <1>5, <3>1, <3>3
    <3> QED BY <1>2, <2>1, <2>3, <3>4 DEF HighAt, Below
  <2> QED BY <2>2, <2>3
<1> QED BY <1>11, <1>12
-----------------------------------------------------------------------------
(* A walk along nx whose measure falls at each step ends: the recursive     *)
(* functions of the descents and of the scan exist.                         *)
Walk(D, stop, nx, f) == f = [p \in D |-> IF p \in stop THEN p ELSE f[nx[p]]]

LEMMA WalkExists ==
    ASSUME NEW D, NEW stop, NEW nx, NEW rank, NEW top \in Nat,
           \A p \in D : rank[p] \in 0..top,
           \A p \in D : p \notin stop => nx[p] \in D /\ rank[nx[p]] < rank[p]
    PROVE  \E f : Walk(D, stop, nx, f)
<1> DEFINE Upto(n, f) == /\ f = [p \in D |-> f[p]]
                         /\ \A p \in D : rank[p] < n => f[p] = IF p \in stop THEN p ELSE f[nx[p]]
           bad == {n \in Nat : ~ \E f : Upto(n, f)}
<1>1. bad = {}
  <2>1. SUFFICES ASSUME bad # {} PROVE FALSE
    OBVIOUS
  <2>2. PICK n \in bad : \A m \in bad : n <= m
    <3>1. bad \subseteq Nat
      OBVIOUS
    <3> HIDE DEF bad
    <3> QED BY <2>1, <3>1, LeastOfNats
  <2>3. n \in Nat /\ ~ \E f : Upto(n, f)
    OBVIOUS
  <2>4. n # 0
    <3>1. SUFFICES ASSUME n = 0 PROVE FALSE
      OBVIOUS
    <3>2. PICK f : f = [p \in D |-> p]
      OBVIOUS
    <3>3. f = [p \in D |-> f[p]]
      BY <3>2
    <3>4. \A p \in D : ~ (rank[p] < n)
      BY <3>1
    <3>5. Upto(n, f)
      BY <3>3, <3>4
    <3> QED BY <2>3, <3>5
  <2>5. PICK m : m \in Nat /\ n = m + 1
    <3>1. n - 1 \in Nat /\ n = (n - 1) + 1
      BY <2>3, <2>4
    <3> HIDE DEF bad
    <3> QED BY <3>1
  <2>6. m \notin bad
    <3>1. ~ (n <= m)
      BY <2>5
    <3> HIDE DEF bad
    <3> QED BY <2>2, <3>1
  <2>7. PICK f : Upto(m, f)
    BY <2>5, <2>6
  <2>8. PICK g : g = [p \in D |-> IF rank[p] = m THEN IF p \in stop THEN p ELSE f[nx[p]] ELSE f[p]]
    OBVIOUS
  <2>9. ASSUME NEW p \in D, rank[p] < n PROVE g[p] = IF p \in stop THEN p ELSE g[nx[p]]
    <3>1. g[p] = IF p \in stop THEN p ELSE f[nx[p]]
      <4>1. rank[p] = m \/ (rank[p] # m /\ rank[p] < m)
        BY <2>5, <2>9
      <4> QED BY <2>7, <2>8, <4>1
    <3>2. p \notin stop => nx[p] \in D /\ rank[nx[p]] # m
      <4>1. p \notin stop => nx[p] \in D /\ rank[nx[p]] < rank[p]
        OBVIOUS
      <4>2. p \notin stop => rank[nx[p]] \in Nat /\ rank[p] \in Nat
        BY <4>1
      <4> QED BY <2>5, <2>9, <4>1, <4>2
    <3> QED BY <2>8, <3>1, <3>2
  <2>10. g = [p \in D |-> g[p]]
    BY <2>8
  <2>11. Upto(n, g)
    BY <2>9, <2>10
  <2> QED BY <2>3, <2>11
<1>2. top + 1 \notin bad /\ top + 1 \in Nat
  BY <1>1
<1>3. PICK f : Upto(top + 1, f)
  BY <1>2
<1>4. \A p \in D : rank[p] < top + 1
  OBVIOUS
<1>5. \A p \in D : f[p] = IF p \in stop THEN p ELSE f[nx[p]]
  BY <1>3, <1>4
<1>6. f = [p \in D |-> f[p]]
  BY <1>3
<1>7. f = [p \in D |-> IF p \in stop THEN p ELSE f[nx[p]]]
  BY <1>5, <1>6
<1> QED BY <1>7 DEF Walk

(* What each step of a walk keeps holds at its end *)
LEMMA WalkEnds ==
    ASSUME NEW D, NEW stop, NEW nx, NEW f, Walk(D, stop, nx, f), NEW rank, NEW good,
           \A p \in D : rank[p] \in Nat,
           \A p \in D : (p \in good /\ p \notin stop) =>
               nx[p] \in D /\ nx[p] \in good /\ rank[nx[p]] < rank[p],
           NEW q \in D, q \in good
    PROVE  f[q] \in D /\ f[q] \in good /\ f[q] \in stop
<1> DEFINE Ends(p) == f[p] \in D /\ f[p] \in good /\ f[p] \in stop
           bad == {n \in Nat : \E p \in D : p \in good /\ rank[p] = n /\ ~ Ends(p)}
<1>1. bad = {}
  <2>1. SUFFICES ASSUME bad # {} PROVE FALSE
    OBVIOUS
  <2>2. PICK n \in bad : \A m \in bad : n <= m
    <3>1. bad \subseteq Nat
      OBVIOUS
    <3> HIDE DEF bad
    <3> QED BY <2>1, <3>1, LeastOfNats
  <2>3. PICK p \in D : p \in good /\ rank[p] = n /\ ~ Ends(p)
    OBVIOUS
  <2>4. f[p] = IF p \in stop THEN p ELSE f[nx[p]]
    BY DEF Walk
  <2>5. p \notin stop
    BY <2>3, <2>4
  <2>6. nx[p] \in D /\ nx[p] \in good /\ rank[nx[p]] < n /\ rank[nx[p]] \in Nat /\ n \in Nat
    BY <2>3, <2>5
  <2>7. ~ Ends(nx[p])
    BY <2>3, <2>4, <2>5
  <2>8. rank[nx[p]] \in bad
    BY <2>6, <2>7
  <2> HIDE DEF bad
  <2> QED BY <2>2, <2>6, <2>8
<1>2. rank[q] \notin bad /\ rank[q] \in Nat
  BY <1>1
<1> QED BY <1>2

(* FindLeaf ends at the leaf whose interval has the key *)
LEMMA FindLeafIs ==
    ASSUME NEW level, NEW lo, NEW hi, Structure(node, root, 0, 0, level, lo, hi),
           NEW k \in Nat, NEW leaf, leaf = FindLeaf(k)
    PROVE  leaf \in DOMAIN node /\ node[leaf].leaf /\ lo[leaf] <= k /\ Below(k, hi[leaf])
<1> DEFINE Eq(f) == f = [p \in DOMAIN node |-> IF node[p].leaf THEN p ELSE f[InternalLookup(p, k)]]
<1>1. PICK D : D = DOMAIN node
  OBVIOUS
<1>2. PICK stop : stop = {p \in D : node[p].leaf}
  OBVIOUS
<1>3. PICK nx : nx = [p \in D |-> InternalLookup(p, k)]
  OBVIOUS
<1>4. PICK good : good = {p \in D : lo[p] <= k /\ Below(k, hi[p])}
  OBVIOUS
<1>5. \A p \in D : p # 0 /\ lo[p] \in Nat /\ hi[p] \in Nat /\ level[p] \in Nat /\ level[p] <= level[root]
  BY <1>1, PageIds DEF Structure, PlaceOK
<1>6. root \in D /\ lo[root] = 0 /\ hi[root] = 0
  BY <1>1, <1>5 DEF Structure, RootOK, Top
<1>7. ASSUME NEW p \in D, p \notin stop
      PROVE  /\ nx[p] \in D /\ level[nx[p]] < level[p]
             /\ p \in good => nx[p] \in good
  <2>1. ~ node[p].leaf /\ p \in DOMAIN node
    BY <1>1, <1>2, <1>7
  <2>2. PICK c : c = InternalLookup(p, k)
    OBVIOUS
  <2>3. /\ c \in DOMAIN node /\ level[c] + 1 = level[p]
        /\ (lo[p] <= k /\ Below(k, hi[p])) => lo[c] <= k /\ Below(k, Top(hi, 0, 0, c))
    BY <2>1, <2>2, LookupIs
  <2>4. c \in D /\ level[c] \in Nat /\ Top(hi, 0, 0, c) = hi[c]
    BY <1>1, <1>5, <2>3 DEF Top
  <2>5. nx[p] = c
    BY <1>3, <2>2
  <2> QED BY <1>4, <2>3, <2>4, <2>5
<1>8. \E f : Walk(D, stop, nx, f)
  <2>1. level[root] \in Nat /\ \A p \in D : level[p] \in 0..level[root]
    BY <1>5, <1>6
  <2> QED BY <1>7, <2>1, WalkExists
<1>9. \A f : Walk(D, stop, nx, f) <=> Eq(f)
  <2>1. ASSUME NEW f
        PROVE  [p \in D |-> IF p \in stop THEN p ELSE f[nx[p]]]
                   = [p \in DOMAIN node |-> IF node[p].leaf THEN p ELSE f[InternalLookup(p, k)]]
    BY <1>1, <1>2, <1>3
  <2> QED BY <2>1 DEF Walk
<1>10. PICK g : g = CHOOSE f : Eq(f)
  OBVIOUS
<1>11. Walk(D, stop, nx, g)
  <2> HIDE DEF Eq
  <2> QED BY <1>8, <1>9, <1>10
<1>12. leaf = g[root]
  BY <1>10, Zenon DEF FindLeaf
<1>13. g[root] \in D /\ g[root] \in good /\ g[root] \in stop
  <2>1. root \in good
    BY <1>4, <1>6 DEF Below
  <2>2. \A p \in D : level[p] \in Nat
    BY <1>5
  <2>3. \A p \in D : (p \in good /\ p \notin stop) => nx[p] \in D /\ nx[p] \in good /\ level[nx[p]] < level[p]
    BY <1>7
  <2> QED BY ONLY <1>6, <1>11, <2>1, <2>2, <2>3, WalkEnds
<1> QED BY <1>1, <1>2, <1>4, <1>12, <1>13

(* FindLeftmost ends at the leaf whose interval has no lower end *)
LEMMA FindLeftmostIs ==
    ASSUME NEW level, NEW lo, NEW hi, NEW old, NEW new, Structure(node, root, old, new, level, lo, hi)
    PROVE  FindLeftmost \in DOMAIN node /\ node[FindLeftmost].leaf /\ lo[FindLeftmost] = 0
<1> DEFINE Eq(f) == f = [p \in DOMAIN node |-> IF node[p].leaf THEN p ELSE f[ValueAt(p, 1)]]
<1>1. PICK D : D = DOMAIN node
  OBVIOUS
<1>2. PICK stop : stop = {p \in D : node[p].leaf}
  OBVIOUS
<1>3. PICK nx : nx = [p \in D |-> ValueAt(p, 1)]
  OBVIOUS
<1>4. PICK good : good = {p \in D : lo[p] = 0}
  OBVIOUS
<1>5. \A p \in D : p # 0 /\ lo[p] \in Nat /\ hi[p] \in Nat /\ level[p] \in Nat /\ level[p] <= level[root]
  BY <1>1, PageIds DEF Structure, PlaceOK
<1>6. root \in D /\ lo[root] = 0
  BY <1>1, <1>5 DEF Structure, RootOK
<1>7. ASSUME NEW p \in D, p \notin stop
      PROVE  /\ nx[p] \in D /\ level[nx[p]] < level[p]
             /\ p \in good => nx[p] \in good
  <2>1. ~ node[p].leaf /\ p \in DOMAIN node
    BY <1>1, <1>2, <1>7
  <2>2. PICK c : c = node[p].items[1][2]
    OBVIOUS
  <2>3. 1 \in 1..Len(node[p].items)
    <3>1. InnerItems(node[p].items, lo[p], hi[p]) /\ Len(node[p].items) \in Nat
      BY <2>1, PageIds DEF Structure, InnerOK
    <3> QED BY <3>1 DEF InnerItems
  <2>4. c \in DOMAIN node /\ level[c] + 1 = level[p] /\ lo[c] = LowAt(node[p].items, lo[p], 1)
    BY <2>1, <2>2, <2>3, KidFacts
  <2>5. c \in D /\ level[c] \in Nat /\ lo[c] = lo[p]
    BY <1>1, <1>5, <2>4 DEF LowAt
  <2>6. nx[p] = c
    BY <1>3, <2>2 DEF ValueAt
  <2> QED BY <1>4, <2>4, <2>5, <2>6
<1>8. \E f : Walk(D, stop, nx, f)
  <2>1. level[root] \in Nat /\ \A p \in D : level[p] \in 0..level[root]
    BY <1>5, <1>6
  <2> QED BY <1>7, <2>1, WalkExists
<1>9. \A f : Walk(D, stop, nx, f) <=> Eq(f)
  <2>1. ASSUME NEW f
        PROVE  [p \in D |-> IF p \in stop THEN p ELSE f[nx[p]]]
                   = [p \in DOMAIN node |-> IF node[p].leaf THEN p ELSE f[ValueAt(p, 1)]]
    BY <1>1, <1>2, <1>3
  <2> QED BY <2>1 DEF Walk
<1>10. PICK g : g = CHOOSE f : Eq(f)
  OBVIOUS
<1>11. Walk(D, stop, nx, g)
  <2> HIDE DEF Eq
  <2> QED BY <1>8, <1>9, <1>10
<1>12. FindLeftmost = g[root]
  BY <1>10, Zenon DEF FindLeftmost
<1>13. g[root] \in D /\ g[root] \in good /\ g[root] \in stop
  <2>1. root \in good
    BY <1>4, <1>6
  <2>2. \A p \in D : level[p] \in Nat
    BY <1>5
  <2>3. \A p \in D : (p \in good /\ p \notin stop) => nx[p] \in D /\ nx[p] \in good /\ level[nx[p]] < level[p]
    BY <1>7
  <2> QED BY ONLY <1>6, <1>11, <2>1, <2>2, <2>3, WalkEnds
<1> QED BY <1>1, <1>2, <1>4, <1>12, <1>13
-----------------------------------------------------------------------------
(* The iterator's walk *)
Chain(D, stop, nx, it, f) == f = [p \in D |-> it[p] \o IF p \in stop THEN <<>> ELSE f[nx[p]]]

LEMMA ChainExists ==
    ASSUME NEW D, NEW stop, NEW nx, NEW it, NEW rank, NEW top \in Nat,
           \A p \in D : rank[p] \in 0..top,
           \A p \in D : p \notin stop => nx[p] \in D /\ rank[nx[p]] < rank[p]
    PROVE  \E f : Chain(D, stop, nx, it, f)
<1> DEFINE Upto(n, f) == /\ f = [p \in D |-> f[p]]
                         /\ \A p \in D : rank[p] < n => f[p] = it[p] \o IF p \in stop THEN <<>> ELSE f[nx[p]]
           bad == {n \in Nat : ~ \E f : Upto(n, f)}
<1>1. bad = {}
  <2>1. SUFFICES ASSUME bad # {} PROVE FALSE
    OBVIOUS
  <2>2. PICK n \in bad : \A m \in bad : n <= m
    <3>1. bad \subseteq Nat
      OBVIOUS
    <3> HIDE DEF bad
    <3> QED BY <2>1, <3>1, LeastOfNats
  <2>3. n \in Nat /\ ~ \E f : Upto(n, f)
    OBVIOUS
  <2>4. n # 0
    <3>1. SUFFICES ASSUME n = 0 PROVE FALSE
      OBVIOUS
    <3>2. PICK f : f = [p \in D |-> p]
      OBVIOUS
    <3>3. f = [p \in D |-> f[p]]
      BY <3>2
    <3>4. \A p \in D : ~ (rank[p] < n)
      BY <3>1
    <3>5. Upto(n, f)
      BY <3>3, <3>4
    <3> QED BY <2>3, <3>5
  <2>5. PICK m : m \in Nat /\ n = m + 1
    <3>1. n - 1 \in Nat /\ n = (n - 1) + 1
      BY <2>3, <2>4
    <3> HIDE DEF bad
    <3> QED BY <3>1
  <2>6. m \notin bad
    <3>1. ~ (n <= m)
      BY <2>5
    <3> HIDE DEF bad
    <3> QED BY <2>2, <3>1
  <2>7. PICK f : Upto(m, f)
    BY <2>5, <2>6
  <2>8. PICK g : g = [p \in D |-> IF rank[p] = m THEN it[p] \o (IF p \in stop THEN <<>> ELSE f[nx[p]]) ELSE f[p]]
    OBVIOUS
  <2>9. ASSUME NEW p \in D, rank[p] < n PROVE g[p] = it[p] \o IF p \in stop THEN <<>> ELSE g[nx[p]]
    <3>1. g[p] = it[p] \o IF p \in stop THEN <<>> ELSE f[nx[p]]
      <4>1. rank[p] = m \/ (rank[p] # m /\ rank[p] < m)
        BY <2>5, <2>9
      <4> QED BY <2>7, <2>8, <4>1
    <3>2. p \notin stop => nx[p] \in D /\ rank[nx[p]] # m
      <4>1. p \notin stop => nx[p] \in D /\ rank[nx[p]] < rank[p]
        OBVIOUS
      <4>2. p \notin stop => rank[nx[p]] \in Nat /\ rank[p] \in Nat
        BY <4>1
      <4> QED BY <2>5, <2>9, <4>1, <4>2
    <3> QED BY <2>8, <3>1, <3>2
  <2>10. g = [p \in D |-> g[p]]
    BY <2>8
  <2>11. Upto(n, g)
    BY <2>9, <2>10
  <2> QED BY <2>3, <2>11
<1>2. top + 1 \notin bad /\ top + 1 \in Nat
  <2>1. top + 1 \in Nat
    OBVIOUS
  <2> HIDE DEF bad
  <2> QED BY <1>1, <2>1
<1>3. PICK f : Upto(top + 1, f)
  BY <1>2
<1>4. \A p \in D : rank[p] < top + 1
  OBVIOUS
<1>5. \A p \in D : f[p] = it[p] \o IF p \in stop THEN <<>> ELSE f[nx[p]]
  BY <1>3, <1>4
<1>6. f = [p \in D |-> f[p]]
  BY <1>3
<1>7. f = [p \in D |-> it[p] \o IF p \in stop THEN <<>> ELSE f[nx[p]]]
  BY <1>5, <1>6
<1> QED BY <1>7 DEF Chain

(* What the walk from leaf p passes: the entries of the leaves from p on *)
ScanFrom(p, s, lo) ==
    /\ s \in Entries
    /\ \A i, j \in 1..Len(s) : i < j => s[i][1] < s[j][1]
    /\ \A i \in 1..Len(s) : lo[p] <= s[i][1]
    /\ \A i \in 1..Len(s) : \E q \in DOMAIN node : /\ node[q].leaf
                                                   /\ \E j \in 1..Len(node[q].items) : node[q].items[j] = s[i]
    /\ \A q \in DOMAIN node : (node[q].leaf /\ lo[p] <= lo[q]) =>
           \A j \in 1..Len(node[q].items) : \E i \in 1..Len(s) : s[i] = node[q].items[j]

(* One leaf in front of such a walk *)
LEMMA ScanStep ==
    ASSUME NEW level, NEW lo, NEW hi, NEW old, NEW new, Structure(node, root, old, new, level, lo, hi),
           NEW p \in DOMAIN node, node[p].leaf,
           NEW t, IF node[p].next = None THEN t = <<>> ELSE ScanFrom(node[p].next, t, lo),
           NEW s, s = node[p].items \o t
    PROVE  ScanFrom(p, s, lo)
<1>1. PICK I : I = node[p].items
  OBVIOUS
<1>2. PICK x : x = node[p].next
  OBVIOUS
<1>3. \A q \in DOMAIN node : lo[q] \in Nat /\ hi[q] \in Nat /\ node[q].items \in Entries /\ Below(lo[q], hi[q])
  BY PageIds DEF Structure, PlaceOK
<1>4. \A q \in DOMAIN node : node[q].leaf <=> level[q] = 0
  BY DEF Structure, PlaceOK
<1>5. LeafOK(node, lo, hi, p)
  BY DEF Structure
<1>6. LeafItems(I, lo[p], hi[p])
  BY <1>1, <1>5 DEF LeafOK
<1>7. t \in Entries /\ (x = None => Len(t) = 0)
  <2>1. CASE x = None
    <3>1. t = <<>>
      BY <1>2, <2>1
    <3> QED BY <3>1 DEF Entries
  <2>2. CASE x # None
    BY <1>2, <2>2 DEF ScanFrom
  <2> QED BY <2>1, <2>2
<1>8. PICK a \in Nat : a = Len(I)
  BY <1>1, <1>3 DEF Entries
<1>9. PICK b \in Nat : b = Len(t)
  BY <1>7 DEF Entries
<1>10. /\ s \in Entries /\ Len(s) = a + b
       /\ \A i \in 1..a : s[i] = I[i]
       /\ \A i \in 1..b : s[a + i] = t[i]
  <2>1. PICK S : S = Nat \X Nat
    OBVIOUS
  <2>2. I \in Seq(S) /\ t \in Seq(S) /\ s = I \o t
    BY <1>1, <1>3, <1>7, <2>1 DEF Entries
  <2>3. s \in Seq(S) /\ Len(s) = Len(I) + Len(t)
    BY ONLY <2>2, ConcatProperties
  <2>4. \A i \in 1..(Len(I) + Len(t)) : s[i] = IF i <= Len(I) THEN I[i] ELSE t[i - Len(I)]
    BY ONLY <2>2, ConcatProperties
  <2>5. \A i \in 1..a : s[i] = I[i]
    <3>1. \A i \in 1..a : i \in 1..(Len(I) + Len(t)) /\ i <= Len(I)
      BY <1>8, <1>9
    <3> QED BY ONLY <2>4, <3>1
  <2>6. ASSUME NEW i \in 1..b PROVE s[a + i] = t[i]
    <3>1. a + i \in 1..(Len(I) + Len(t)) /\ ~ (a + i <= Len(I)) /\ a + i - Len(I) = i
      BY <1>8, <1>9
    <3>2. s[a + i] = t[a + i - Len(I)]
      BY ONLY <2>4, <3>1
    <3> QED BY ONLY <3>1, <3>2
  <2> QED BY <1>8, <1>9, <2>1, <2>3, <2>5, <2>6 DEF Entries
<1>11. \A i \in 1..(a + b) : i \in 1..a \/ (i - a \in 1..b /\ i = a + (i - a))
  OBVIOUS
<1>12. /\ \A i \in 1..a : I[i][1] \in Nat /\ lo[p] <= I[i][1] /\ Below(I[i][1], hi[p])
       /\ \A i, j \in 1..a : i < j => I[i][1] < I[j][1]
  BY <1>6, <1>8, TreeAssumption DEF LeafItems
<1>13. b # 0 => x # None
  BY <1>7, <1>9
<1>14. x # None => /\ x \in DOMAIN node /\ node[x].leaf /\ hi[p] # 0 /\ lo[x] = hi[p] /\ ScanFrom(x, t, lo)
  BY <1>2, <1>5 DEF LeafOK
<1>15. x = None => hi[p] = 0
  BY <1>2, <1>5 DEF LeafOK
<1>16. \A i \in 1..b : /\ t[i][1] \in Nat /\ hi[p] <= t[i][1] /\ hi[p] # 0
                       /\ \A j \in 1..b : i < j => t[i][1] < t[j][1]
  <2>1. \A i \in 1..b : b # 0
    OBVIOUS
  <2>2. \A i \in 1..b : t[i][1] \in Nat
    BY <1>7, <1>9 DEF Entries
  <2> QED BY <1>9, <1>13, <1>14, <2>1, <2>2 DEF ScanFrom
<1>17. \A i \in 1..Len(s) : lo[p] <= s[i][1]
  <2>1. lo[p] \in Nat /\ hi[p] \in Nat /\ Below(lo[p], hi[p])
    BY <1>3
  <2>2. SUFFICES ASSUME NEW i \in 1..(a + b) PROVE lo[p] <= s[i][1]
    BY <1>10
  <2>3. CASE i \in 1..a
    BY <1>10, <1>12, <2>3
  <2>4. CASE i - a \in 1..b /\ i = a + (i - a)
    <3>1. PICK j \in 1..b : j = i - a /\ i = a + j
      BY <2>4
    <3>2. s[i] = t[j]
      BY <1>10, <3>1
    <3> QED BY <1>16, <2>1, <3>2 DEF Below
  <2> QED BY <1>11, <2>3, <2>4
<1>18. ASSUME NEW i \in 1..(a + b), NEW j \in 1..(a + b), i < j PROVE s[i][1] < s[j][1]
  <2>1. CASE j \in 1..a
    <3>1. i \in 1..a
      BY <1>18, <2>1
    <3> QED BY <1>10, <1>12, <1>18, <2>1, <3>1
  <2>2. CASE j - a \in 1..b /\ j = a + (j - a)
    <3>1. PICK m \in 1..b : m = j - a /\ j = a + m
      BY <2>2
    <3>2. s[j] = t[m]
      BY <1>10, <3>1
    <3>3. CASE i \in 1..a
      <4>1. s[i] = I[i] /\ I[i][1] \in Nat /\ Below(I[i][1], hi[p])
        BY <1>10, <1>12, <3>3
      <4>2. t[m][1] \in Nat /\ hi[p] <= t[m][1] /\ hi[p] # 0 /\ hi[p] \in Nat
        BY <1>3, <1>16
      <4> QED BY <3>2, <4>1, <4>2 DEF Below
    <3>4. CASE i - a \in 1..b /\ i = a + (i - a)
      <4>1. PICK e \in 1..b : e = i - a /\ i = a + e
        BY <3>4
      <4>2. e < m
        BY <1>18, <3>1, <4>1
      <4>3. s[i] = t[e]
        BY <1>10, <4>1
      <4> QED BY <1>16, <3>2, <4>2, <4>3
    <3> QED BY <1>11, <3>3, <3>4
  <2> QED BY <1>11, <2>1, <2>2
<1>19. ASSUME NEW i \in 1..(a + b)
       PROVE  \E q \in DOMAIN node : node[q].leaf /\ \E j \in 1..Len(node[q].items) : node[q].items[j] = s[i]
  <2>1. CASE i \in 1..a
    BY <1>1, <1>8, <1>10, <2>1
  <2>2. CASE i - a \in 1..b /\ i = a + (i - a)
    <3>1. PICK m \in 1..b : m = i - a /\ i = a + m
      BY <2>2
    <3>2. s[i] = t[m] /\ b # 0
      <4>1. s[a + m] = t[m]
        BY ONLY <1>10, <3>1
      <4>2. b # 0
        BY ONLY <1>9, <3>1
      <4> QED BY ONLY <3>1, <4>1, <4>2
    <3>3. ScanFrom(x, t, lo) /\ m \in 1..Len(t)
      BY <1>9, <1>13, <1>14, <3>2
    <3>4. \E q \in DOMAIN node : node[q].leaf /\ \E j \in 1..Len(node[q].items) : node[q].items[j] = t[m]
      BY ONLY <3>3 DEF ScanFrom
    <3> QED BY ONLY <3>2, <3>4
  <2> QED BY <1>11, <2>1, <2>2
<1>20. ASSUME NEW q \in DOMAIN node, node[q].leaf, lo[p] <= lo[q], NEW j \in 1..Len(node[q].items)
       PROVE  \E i \in 1..(a + b) : s[i] = node[q].items[j]
  <2>1. CASE q = p
    <3>1. j \in 1..a /\ j \in 1..(a + b)
      BY <1>1, <1>8, <1>20, <2>1
    <3> QED BY <1>1, <1>10, <2>1, <3>1
  <2>2. CASE q # p
    <3>1. Apart(lo, hi, p, q)
      <4>1. level[p] = level[q]
        BY <1>4, <1>20
      <4> QED BY <2>2, <4>1 DEF Structure, Disjoint
    <3>2. hi[p] # 0 /\ hi[p] <= lo[q]
      BY <1>3, <1>20, <3>1 DEF Apart, Below
    <3>3. x # None
      BY <1>15, <3>2
    <3>4. PICK i \in 1..b : t[i] = node[q].items[j]
      BY <1>9, <1>14, <1>20, <3>2, <3>3 DEF ScanFrom
    <3>5. a + i \in 1..(a + b)
      OBVIOUS
    <3>6. s[a + i] = t[i]
      BY <1>10
    <3> QED BY <3>4, <3>5, <3>6
  <2> QED BY <2>1, <2>2
<1>21. s \in Entries /\ Len(s) = a + b
  BY <1>10
<1> QED BY ONLY <1>17, <1>18, <1>19, <1>20, <1>21 DEF ScanFrom

(* The iterator passes every entry of every leaf, in the order of the keys *)
LEMMA ScanIs ==
    ASSUME NEW level, NEW lo, NEW hi, NEW old, NEW new, Structure(node, root, old, new, level, lo, hi),
           NEW bound, Bounded(DOMAIN node, lo, bound), root # None
    PROVE  ScanFrom(FindLeftmost, Scan, lo)
<1> DEFINE Eq(f) == f = [p \in DOMAIN node |->
                            node[p].items \o IF node[p].next = None THEN <<>> ELSE f[node[p].next]]
<1>1. PICK D : D = DOMAIN node
  OBVIOUS
<1>2. PICK stop : stop = {p \in D : node[p].next = None}
  OBVIOUS
<1>3. PICK nx : nx = [p \in D |-> node[p].next]
  OBVIOUS
<1>4. PICK it : it = [p \in D |-> node[p].items]
  OBVIOUS
<1>5. PICK rank : rank = [p \in D |-> IF node[p].leaf THEN bound - lo[p] ELSE 0]
  OBVIOUS
<1>6. bound \in Nat /\ \A p \in D : lo[p] \in Nat /\ hi[p] \in Nat /\ lo[p] <= bound /\ Below(lo[p], hi[p])
  BY <1>1, PageIds DEF Structure, PlaceOK, Bounded
<1>7. \A p \in D : rank[p] \in 0..bound
  BY <1>5, <1>6
<1>8. ASSUME NEW p \in D, p \notin stop
      PROVE  nx[p] \in D /\ node[p].leaf /\ node[nx[p]].leaf /\ rank[nx[p]] < rank[p]
  <2>1. p \in DOMAIN node /\ node[p].next # None /\ nx[p] = node[p].next
    BY <1>1, <1>2, <1>3, <1>8
  <2>2. InnerOK(node, level, lo, hi, old, new, p) /\ LeafOK(node, lo, hi, p)
    BY <2>1 DEF Structure
  <2>3. node[p].leaf
    BY <2>1, <2>2 DEF InnerOK
  <2>4. nx[p] \in D /\ node[nx[p]].leaf /\ hi[p] # 0 /\ lo[nx[p]] = hi[p]
    BY <1>1, <2>1, <2>2, <2>3 DEF LeafOK
  <2>5. lo[p] < lo[nx[p]]
    BY <1>6, <2>4 DEF Below
  <2>6. rank[p] = bound - lo[p] /\ rank[nx[p]] = bound - lo[nx[p]]
    BY <1>5, <2>3, <2>4
  <2> QED BY <1>6, <2>3, <2>4, <2>5, <2>6
<1>9. \E f : Chain(D, stop, nx, it, f)
  BY <1>6, <1>7, <1>8, ChainExists
<1>10. \A f : Chain(D, stop, nx, it, f) <=> Eq(f)
  <2>1. ASSUME NEW f
        PROVE  [p \in D |-> it[p] \o IF p \in stop THEN <<>> ELSE f[nx[p]]]
                   = [p \in DOMAIN node |->
                         node[p].items \o IF node[p].next = None THEN <<>> ELSE f[node[p].next]]
    BY <1>1, <1>2, <1>3, <1>4
  <2> QED BY <2>1 DEF Chain
<1>11. PICK g : g = CHOOSE f : Eq(f)
  OBVIOUS
<1>12. Chain(D, stop, nx, it, g)
  <2> HIDE DEF Eq
  <2> QED BY <1>9, <1>10, <1>11
<1>13. Scan = g[FindLeftmost]
  BY <1>11, Zenon DEF Scan
<1> DEFINE bad == {n \in Nat : \E p \in D : node[p].leaf /\ rank[p] = n /\ ~ ScanFrom(p, g[p], lo)}
<1>14. bad = {}
  <2>1. SUFFICES ASSUME bad # {} PROVE FALSE
    OBVIOUS
  <2>2. PICK n \in bad : \A m \in bad : n <= m
    <3>1. bad \subseteq Nat
      OBVIOUS
    <3> HIDE DEF bad
    <3> QED BY <2>1, <3>1, LeastOfNats
  <2>3. PICK p \in D : node[p].leaf /\ rank[p] = n /\ ~ ScanFrom(p, g[p], lo)
    OBVIOUS
  <2>4. n \in Nat
    OBVIOUS
  <2> HIDE DEF bad, Eq
  <2>5. g[p] = it[p] \o IF p \in stop THEN <<>> ELSE g[nx[p]]
    BY <1>12 DEF Chain
  <2>6. p \notin stop => ScanFrom(nx[p], g[nx[p]], lo)
    <3>1. SUFFICES ASSUME p \notin stop, ~ ScanFrom(nx[p], g[nx[p]], lo) PROVE FALSE
      OBVIOUS
    <3>2. nx[p] \in D /\ node[nx[p]].leaf /\ rank[nx[p]] < n /\ rank[nx[p]] \in Nat
      BY <1>7, <1>8, <2>3, <3>1
    <3>3. rank[nx[p]] \in bad
      BY <3>1, <3>2 DEF bad
    <3> QED BY <2>2, <2>4, <3>2, <3>3
  <2>7. PICK t : t = IF p \in stop THEN <<>> ELSE g[nx[p]]
    OBVIOUS
  <2>8. IF node[p].next = None THEN t = <<>> ELSE ScanFrom(node[p].next, t, lo)
    BY <1>2, <1>3, <2>6, <2>7
  <2>9. g[p] = node[p].items \o t /\ p \in DOMAIN node /\ node[p].leaf
    BY <1>1, <1>4, <2>3, <2>5, <2>7
  <2>10. ScanFrom(p, g[p], lo)
    BY <2>8, <2>9, ScanStep
  <2> QED BY <2>3, <2>10
<1>15. FindLeftmost \in D /\ node[FindLeftmost].leaf
  BY <1>1, FindLeftmostIs
<1>16. rank[FindLeftmost] \in Nat /\ rank[FindLeftmost] \notin bad
  BY <1>7, <1>14, <1>15
<1>17. ScanFrom(FindLeftmost, g[FindLeftmost], lo)
  BY <1>15, <1>16
<1> QED BY <1>13, <1>17

(* The keys in the leaves *)
LEMMA ContentsIs ==
    ASSUME NEW level, NEW lo, NEW hi, NEW old, NEW new, Structure(node, root, old, new, level, lo, hi),
           NEW k \in Keys
    PROVE  /\ (Contents[k] # None) <=> \E p \in DOMAIN node : node[p].leaf /\ HasKey(p, k)
           /\ Contents[k] # None => Contents[k] = Rid[k]
<1>1. Rid[k] # None
  BY TreeAssumption
<1> QED BY <1>1 DEF Contents

LEMMA ScanSortedOK ==
    ASSUME NEW level, NEW lo, NEW hi, NEW old, NEW new, Structure(node, root, old, new, level, lo, hi),
           NEW bound, Bounded(DOMAIN node, lo, bound), root # None
    PROVE  ScanSorted
<1>1. PICK s : s = Scan
  OBVIOUS
<1>2. PICK f : f = FindLeftmost
  OBVIOUS
<1>3. ScanFrom(f, s, lo) /\ lo[f] = 0
  BY <1>1, <1>2, ScanIs, FindLeftmostIs
<1>4. s \in Entries /\ Len(s) \in Nat /\ DOMAIN s = 1..Len(s)
  BY <1>3 DEF ScanFrom, Entries
<1>5. \A q \in DOMAIN node : /\ lo[q] \in Nat /\ node[q].items \in Entries
                             /\ DOMAIN node[q].items = 1..Len(node[q].items)
                             /\ node[q].leaf => LeafItems(node[q].items, lo[q], hi[q])
  BY PageIds DEF Structure, LeafOK, Entries
<1>6. \A i, j \in DOMAIN s : i < j => s[i][1] < s[j][1]
  BY <1>3, <1>4 DEF ScanFrom
<1>7. ASSUME NEW i \in 1..Len(s)
      PROVE  \E k \in Keys : Contents[k] # None /\ s[i] = <<k, Contents[k]>>
  <2>1. PICK q \in DOMAIN node : node[q].leaf /\ \E j \in 1..Len(node[q].items) : node[q].items[j] = s[i]
    BY <1>3, <1>7 DEF ScanFrom
  <2>2. PICK j \in 1..Len(node[q].items) : node[q].items[j] = s[i]
    BY <2>1
  <2>3. PICK k : k = node[q].items[j][1]
    OBVIOUS
  <2>4. k \in Keys /\ node[q].items[j][2] = Rid[k]
    BY <1>5, <2>1, <2>3 DEF LeafItems
  <2>5. node[q].items[j] \in Nat \X Nat
    BY <1>5 DEF Entries
  <2>6. s[i] = <<k, Rid[k]>>
    BY <2>2, <2>3, <2>4, <2>5
  <2>7. HasKey(q, k)
    BY <1>5, <2>3 DEF HasKey, KeyAt
  <2>8. Contents[k] # None /\ Contents[k] = Rid[k]
    BY <2>1, <2>4, <2>7, ContentsIs
  <2> QED BY <2>4, <2>6, <2>8
<1>8. ASSUME NEW k \in Keys, Contents[k] # None
      PROVE  \E i \in 1..Len(s) : s[i] = <<k, Contents[k]>>
  <2>1. PICK q \in DOMAIN node : node[q].leaf /\ HasKey(q, k)
    BY <1>8, ContentsIs
  <2>2. PICK j \in 1..Len(node[q].items) : node[q].items[j][1] = k
    BY <1>5, <2>1 DEF HasKey, KeyAt
  <2>3. node[q].items[j][2] = Rid[k] /\ node[q].items[j] \in Nat \X Nat
    <3>1. node[q].items[j][2] = Rid[node[q].items[j][1]]
      BY <1>5, <2>1 DEF LeafItems
    <3>2. node[q].items[j] \in Nat \X Nat
      BY <1>5 DEF Entries
    <3> QED BY <2>2, <3>1, <3>2
  <2>4. node[q].items[j] = <<k, Rid[k]>>
    BY <2>2, <2>3
  <2>5. Contents[k] = Rid[k]
    BY <1>8, ContentsIs
  <2>6. lo[f] <= lo[q]
    BY <1>3, <1>5
  <2>7. \E i \in 1..Len(s) : s[i] = node[q].items[j]
    BY <1>3, <2>1, <2>6 DEF ScanFrom
  <2> QED BY <2>4, <2>5, <2>7
<1>9. Range(s) = {s[i] : i \in 1..Len(s)}
  BY <1>4 DEF Range
<1>10. Range(s) = {<<k, Contents[k]>> : k \in {j \in Keys : Contents[j] # None}}
  <2>1. PICK C : C = {j \in Keys : Contents[j] # None}
    OBVIOUS
  <2>2. ASSUME NEW x \in Range(s) PROVE x \in {<<k, Contents[k]>> : k \in C}
    <3>1. PICK i \in 1..Len(s) : x = s[i]
      BY ONLY <1>9, <2>2
    <3>2. PICK k \in Keys : Contents[k] # None /\ s[i] = <<k, Contents[k]>>
      BY <1>7
    <3>3. k \in C
      BY ONLY <2>1, <3>2
    <3> QED BY ONLY <3>1, <3>2, <3>3
  <2>3. ASSUME NEW k \in C PROVE <<k, Contents[k]>> \in Range(s)
    <3>1. k \in Keys /\ Contents[k] # None
      BY ONLY <2>1, <2>3
    <3>2. PICK i \in 1..Len(s) : s[i] = <<k, Contents[k]>>
      BY <1>8, <3>1
    <3> QED BY ONLY <1>9, <3>2
  <2>4. Range(s) = {<<k, Contents[k]>> : k \in C}
    BY ONLY <2>2, <2>3
  <2> QED BY ONLY <2>1, <2>4
<1> QED BY <1>1, <1>6, <1>10 DEF ScanSorted

(* A search finds what the leaves hold *)
LEMMA SearchFindsOK ==
    ASSUME NEW level, NEW lo, NEW hi, Structure(node, root, 0, 0, level, lo, hi), NEW k \in Keys
    PROVE  GetValue(k) = Contents[k]
<1>1. k \in Nat
  BY TreeAssumption
<1>2. PICK p : p = FindLeaf(k)
  OBVIOUS
<1>3. p \in DOMAIN node /\ node[p].leaf /\ lo[p] <= k /\ Below(k, hi[p])
  BY <1>1, <1>2, FindLeafIs
<1>4. /\ \A q \in DOMAIN node : /\ node[q].items \in Entries /\ Len(node[q].items) \in Nat
                                /\ DOMAIN node[q].items = 1..Len(node[q].items)
                                /\ node[q].leaf <=> level[q] = 0
                                /\ node[q].leaf => LeafItems(node[q].items, lo[q], hi[q])
  BY PageIds DEF Structure, LeafOK, PlaceOK, Entries
<1>5. ASSUME NEW q \in DOMAIN node, node[q].leaf, HasKey(q, k) PROVE q = p
  <2>1. PICK j \in 1..Len(node[q].items) : node[q].items[j][1] = k
    BY <1>4, <1>5 DEF HasKey, KeyAt
  <2>2. lo[q] <= k /\ Below(k, hi[q])
    BY <1>4, <1>5, <2>1 DEF LeafItems
  <2>3. level[p] = level[q]
    BY <1>3, <1>4, <1>5
  <2> QED BY <1>1, <1>3, <2>2, <2>3, SamePlace
<1>6. CASE ~ HasKey(p, k)
  <2>1. Contents[k] = None
    BY <1>5, <1>6, ContentsIs
  <2> QED BY <1>2, <1>6, <2>1 DEF GetValue
<1>7. CASE HasKey(p, k)
  <2>1. Contents[k] = Rid[k]
    BY <1>3, <1>7, ContentsIs
  <2>2. PICK m : m = KeyIndex(p, k)
    OBVIOUS
  <2>3. PICK I : I = node[p].items
    OBVIOUS
  <2>4. IndexIs(I, k, m) /\ LeafItems(I, lo[p], hi[p]) /\ Len(I) \in Nat
    BY <1>1, <1>3, <1>4, <2>2, <2>3, KeyIndexIs
  <2>5. PICK j \in 1..Len(I) : I[j][1] = k
    BY <1>3, <1>4, <1>7, <2>3 DEF HasKey, KeyAt
  <2>6. m + 1 \in 1..Len(I) /\ I[m + 1][1] = k
    <3>1. m \in Nat /\ ~ (j \in 1..m)
      BY <2>4, <2>5, <1>1 DEF IndexIs
    <3>2. m + 1 \in 1..Len(I) /\ m + 1 \in (m + 1)..Len(I) /\ (j = m + 1 \/ m + 1 < j)
      BY <2>4, <3>1
    <3>3. k <= I[m + 1][1]
      BY <2>4, <3>2 DEF IndexIs
    <3>4. m + 1 < j => I[m + 1][1] < I[j][1]
      BY <2>4, <3>2 DEF LeafItems
    <3>5. I[m + 1][1] \in Nat
      BY <2>4, <3>2, TreeAssumption DEF LeafItems
    <3> QED BY <1>1, <2>5, <3>2, <3>3, <3>4, <3>5
  <2>7. I[m + 1][2] = Rid[k]
    BY <2>4, <2>6 DEF LeafItems
  <2> QED BY <1>2, <1>7, <2>1, <2>2, <2>3, <2>7 DEF GetValue, ValueAt
<1> QED BY <1>6, <1>7
-----------------------------------------------------------------------------
(* Each level from the leaves to the root has a page, so there are at least *)
(* as many pages as levels.                                                 *)
LEMMA LevelsFit ==
    ASSUME NEW nd, NEW rt, NEW level, NEW lo, NEW hi, Structure(nd, rt, 0, 0, level, lo, hi),
           IsFiniteSet(DOMAIN nd)
    PROVE  Cardinality(DOMAIN nd) \in Nat /\ level[rt] < Cardinality(DOMAIN nd)
<1>1. PICK D : D = DOMAIN nd
  OBVIOUS
<1>2. PICK H : H = level[rt]
  OBVIOUS
<1>3. /\ rt \in D /\ H \in Nat
      /\ \A p \in D : level[p] \in Nat /\ level[p] <= H /\ Len(nd[p].items) \in Nat
      /\ \A p \in D : nd[p].leaf <=> level[p] = 0
  BY <1>1, <1>2, PageIds DEF Structure, RootOK, PlaceOK
<1> DEFINE empty == {n \in 0..H : \A p \in D : level[p] # n}
<1>4. empty = {}
  <2>1. SUFFICES ASSUME empty # {} PROVE FALSE
    OBVIOUS
  <2>2. PICK n \in empty : \A m \in empty : m <= n
    <3>1. empty \subseteq 0..H
      OBVIOUS
    <3> HIDE DEF empty
    <3> QED BY <1>3, <2>1, <3>1, GreatestOfNats
  <2>3. n \in 0..H /\ \A p \in D : level[p] # n
    OBVIOUS
  <2>4. n + 1 \in 0..H /\ n + 1 # 0 /\ ~ (n + 1 <= n)
    BY <1>2, <1>3, <2>3
  <2>5. n + 1 \notin empty
    <3> HIDE DEF empty
    <3> QED BY <2>2, <2>4
  <2>6. PICK p \in D : level[p] = n + 1
    BY <2>4, <2>5
  <2>7. ~ nd[p].leaf /\ p \in DOMAIN nd
    BY <1>1, <1>3, <2>4, <2>6
  <2>8. 1 \in 1..Len(nd[p].items)
    <3>1. InnerItems(nd[p].items, lo[p], hi[p])
      BY <2>7 DEF Structure, InnerOK
    <3> QED BY <1>3, <3>1 DEF InnerItems
  <2>9. PICK c : c = nd[p].items[1][2]
    OBVIOUS
  <2>10. c \in DOMAIN nd /\ level[c] + 1 = level[p]
    BY <2>7, <2>8, <2>9, KidFacts
  <2>11. level[c] = n
    BY <1>1, <1>3, <2>3, <2>6, <2>10
  <2> QED BY <1>1, <2>3, <2>10, <2>11
<1>5. PICK f : f = [p \in D |-> level[p]]
  OBVIOUS
<1>6. f \in Surjection(D, 0..H)
  <2>1. \A n \in 0..H : \E p \in D : f[p] = n
    BY <1>4, <1>5
  <2>2. f \in [D -> 0..H]
    BY <1>3, <1>5
  <2> QED BY <2>1, <2>2 DEF Surjection
<1>7. Cardinality(0..H) = H + 1
  <2>1. 0 \in Int /\ H \in Int /\ ~ (0 > H) /\ H - 0 + 1 = H + 1
    BY <1>3
  <2> QED BY <2>1, FS_Interval
<1>8. Cardinality(0..H) <= Cardinality(D) /\ Cardinality(D) \in Nat
  BY <1>1, <1>6, FS_Surjection, FS_CardinalityType
<1> QED BY <1>1, <1>2, <1>3, <1>7, <1>8

(* Level[n] is the level n below the root's *)
LEMMA LevelIs ==
    ASSUME NEW level, NEW lo, NEW hi, Structure(node, root, 0, 0, level, lo, hi),
           Cardinality(DOMAIN node) \in Nat
    PROVE  \A n \in 0..Cardinality(DOMAIN node) :
               Level[n] = {p \in DOMAIN node : level[p] + n = level[root]}
<1>1. PICK D : D = DOMAIN node
  OBVIOUS
<1>2. PICK N : N = Cardinality(DOMAIN node)
  OBVIOUS
<1>3. /\ root \in D /\ N \in Nat
      /\ \A p \in D : level[p] \in Nat /\ level[p] <= level[root] /\ Len(node[p].items) \in Nat
      /\ \A p \in D : (level[p] = level[root]) <=> (p = root)
  <2>1. /\ root \in D /\ N \in Nat
        /\ \A p \in D : level[p] \in Nat /\ level[p] <= level[root] /\ Len(node[p].items) \in Nat
    BY <1>1, <1>2, PageIds DEF Structure, RootOK, PlaceOK
  <2>2. \A p \in D : p # root => level[p] < level[root]
    BY <1>1, OnlyRoot
  <2> QED BY <2>1, <2>2
<1>4. PICK w : w = [n \in 0..N |-> {p \in D : level[p] + n = level[root]}]
  OBVIOUS
<1>5. w[0] = {root} /\ 0 \in 0..N
  BY <1>3, <1>4
<1>6. ASSUME NEW n \in 0..N, n # 0 PROVE n - 1 \in 0..N /\ w[n] = UNION {Children(p) : p \in w[n - 1]}
  <2>1. n - 1 \in 0..N
    BY <1>3, <1>6
  <2>2. w[n] = {p \in D : level[p] + n = level[root]} /\ w[n - 1] = {p \in D : level[p] + (n - 1) = level[root]}
    BY <1>4, <2>1
  <2>3. ASSUME NEW q \in D, level[q] + n = level[root]
        PROVE  \E p \in D : level[p] + (n - 1) = level[root] /\ q \in Children(p)
    <3>1. q # root /\ q # 0 /\ q \in DOMAIN node
      BY <1>1, <1>3, <1>6, <2>3, PageIds DEF Structure
    <3>2. LinkOK(node, root, 0, q)
      BY <3>1 DEF Structure
    <3>3. PICK p : p = node[q].parent
      OBVIOUS
    <3>4. p \in DOMAIN node /\ ~ node[p].leaf /\ \E i \in 1..Len(node[p].items) : node[p].items[i][2] = q
      BY <3>1, <3>2, <3>3 DEF LinkOK
    <3>5. PICK i \in 1..Len(node[p].items) : node[p].items[i][2] = q
      BY <3>4
    <3>6. level[q] + 1 = level[p]
      BY <3>4, <3>5, KidFacts
    <3>7. q \in Children(p)
      BY <3>4, <3>5 DEF Children, ValueAt, Size
    <3>8. level[p] + (n - 1) = level[root]
      <4>1. level[p] \in Nat /\ level[q] \in Nat /\ level[root] \in Nat /\ n \in Nat
        BY <1>1, <1>3, <3>4
      <4> QED BY ONLY <2>3, <3>6, <4>1
    <3> QED BY <1>1, <3>4, <3>7, <3>8
  <2>4. ASSUME NEW p \in D, level[p] + (n - 1) = level[root], NEW q \in Children(p)
        PROVE  q \in D /\ level[q] + n = level[root]
    <3>1. ~ node[p].leaf /\ \E i \in 1..Len(node[p].items) : q = node[p].items[i][2]
      BY <2>4 DEF Children, ValueAt, Size
    <3>2. PICK i \in 1..Len(node[p].items) : q = node[p].items[i][2]
      BY <3>1
    <3>3. p \in DOMAIN node
      BY <1>1
    <3>4. q \in DOMAIN node /\ level[q] + 1 = level[p]
      BY <3>1, <3>2, <3>3, KidFacts
    <3> QED BY <1>1, <1>3, <2>4, <3>4
  <2>5. w[n] \subseteq UNION {Children(p) : p \in w[n - 1]}
    BY <2>2, <2>3
  <2>6. UNION {Children(p) : p \in w[n - 1]} \subseteq w[n]
    BY <2>2, <2>4
  <2> QED BY <2>1, <2>5, <2>6
<1> DEFINE Eq(f) == f = [n \in 0..N |-> IF n = 0 THEN {root} ELSE UNION {Children(p) : p \in f[n - 1]}]
<1>7. Eq(w)
  <2>1. \A n \in 0..N : w[n] = IF n = 0 THEN {root} ELSE UNION {Children(p) : p \in w[n - 1]}
    BY <1>5, <1>6
  <2>2. w = [n \in 0..N |-> w[n]]
    BY <1>4
  <2> QED BY <2>1, <2>2
<1>8. PICK g : g = CHOOSE f : Eq(f)
  OBVIOUS
<1>9. Eq(g)
  <2> HIDE DEF Eq
  <2> QED BY <1>7, <1>8
<1>10. Level = g
  BY <1>2, <1>8, Zenon DEF Level
<1>11. \A n \in 0..N : g[n] = IF n = 0 THEN {root} ELSE UNION {Children(p) : p \in g[n - 1]}
  BY <1>9
<1> DEFINE bad == {n \in 0..N : g[n] # w[n]}
<1>12. bad = {}
  <2>1. SUFFICES ASSUME bad # {} PROVE FALSE
    OBVIOUS
  <2>2. PICK n \in bad : \A m \in bad : n <= m
    <3>1. bad \subseteq Nat
      BY <1>3
    <3> HIDE DEF bad
    <3> QED BY <2>1, <3>1, LeastOfNats
  <2>3. n \in 0..N /\ g[n] # w[n]
    OBVIOUS
  <2>4. n # 0
    BY <1>5, <1>11, <2>3
  <2>5. n - 1 \in 0..N /\ ~ (n <= n - 1)
    BY <1>3, <2>3, <2>4
  <2>6. n - 1 \notin bad
    <3> HIDE DEF bad
    <3> QED BY <2>2, <2>5
  <2>7. g[n - 1] = w[n - 1]
    BY <2>5, <2>6
  <2> HIDE DEF bad, Eq
  <2> QED BY <1>6, <1>11, <2>3, <2>4, <2>7
<1>13. \A n \in 0..N : g[n] = w[n]
  BY <1>12
<1>14. \A n \in 0..N : g[n] = {p \in D : level[p] + n = level[root]}
  BY <1>4, <1>13
<1> QED BY ONLY <1>1, <1>2, <1>10, <1>14

(* The shape of the tree after a call *)
LEMMA TreeShapeOK ==
    ASSUME NEW level, NEW lo, NEW hi, Structure(node, root, 0, 0, level, lo, hi), root # None,
           Sizes(node, root, 0), NEW bound, Bounded(DOMAIN node, lo, bound)
    PROVE  TreeShape
<1>1. PICK D : D = DOMAIN node
  OBVIOUS
<1>2. PICK N : N = Cardinality(DOMAIN node)
  OBVIOUS
<1>3. N \in Nat /\ level[root] < N
  BY <1>2, LevelsFit DEF Bounded
<1>4. \A n \in 0..N : Level[n] = {p \in D : level[p] + n = level[root]}
  BY <1>1, <1>2, <1>3, LevelIs
<1>5. /\ root \in D /\ node[root].parent = None
      /\ \A p \in D : level[p] \in Nat /\ level[p] <= level[root] /\ (node[p].leaf <=> level[p] = 0)
      /\ \A p \in D : p # 0 /\ Len(node[p].items) \in Nat /\ node[p].leaf \in BOOLEAN
  BY <1>1, PageIds DEF Structure, RootOK, PlaceOK
<1>6. D = UNION {Level[n] : n \in 0..N}
  <2>1. ASSUME NEW p \in D PROVE \E n \in 0..N : p \in Level[n]
    <3>1. PICK n : n = level[root] - level[p]
      OBVIOUS
    <3>2. n \in 0..N /\ level[p] + n = level[root]
      BY <1>3, <1>5, <3>1
    <3> QED BY <1>4, <3>2
  <2>2. \A n \in 0..N : Level[n] \subseteq D
    BY <1>4
  <2> QED BY <2>1, <2>2
<1>7. \A n \in 0..N : \A p, q \in Level[n] : node[p].leaf = node[q].leaf
  <2>1. SUFFICES ASSUME NEW n \in 0..N, NEW p \in Level[n], NEW q \in Level[n]
                 PROVE  node[p].leaf = node[q].leaf
    OBVIOUS
  <2>2. p \in D /\ q \in D /\ level[p] + n = level[root] /\ level[q] + n = level[root]
    BY <1>4
  <2>3. level[p] = level[q]
    BY <1>3, <1>5, <2>2
  <2> QED BY <1>5, <2>2, <2>3
<1>8. ASSUME NEW p \in D
      PROVE  /\ p = root \/ Size(p) >= GetMinSize(p)
             /\ Size(p) <= IF node[p].leaf THEN LeafMax - 1 ELSE InternalMax
             /\ Size(p) > 0
             /\ ~ node[p].leaf =>
                    Size(p) >= 2 /\ \A i \in 1..Size(p) : node[ValueAt(p, i)].parent = p
  <2>1. p \in DOMAIN node /\ Missing(0, p) = 0
    BY <1>1, <1>5 DEF Missing
  <2>2. /\ Len(node[p].items) <= MaxOf(node, p)
        /\ Len(node[p].items) >= IF node[p].leaf THEN 1 ELSE 2
        /\ p # root => Len(node[p].items) >= HalfOf(node, p)
    BY <1>5, <2>1 DEF Sizes, SizeOK
  <2>3. ~ node[p].leaf => \A i \in 1..Len(node[p].items) : node[node[p].items[i][2]].parent = p
    BY <2>1 DEF Structure, InnerOK
  <2> QED BY <1>5, <2>2, <2>3 DEF Size, GetMinSize, ValueAt, MaxOf, HalfOf
<1> QED BY <1>1, <1>2, <1>5, <1>6, <1>7, <1>8 DEF TreeShape

LEMMA InItem ==
    ASSUME NEW e, NEW K, NEW V, e = <<e[1], e[2]>>, e[1] \in K, e[2] \in V PROVE e \in Item(K, V)
<1>1. PICK k \in K : k = e[1]
  OBVIOUS
<1>2. PICK v \in V : v = e[2]
  OBVIOUS
<1>3. e = <<k, v>>
  BY <1>1, <1>2
<1> QED BY ONLY <1>3 DEF Item

LEMMA TypeOKFits ==
    ASSUME NEW level, NEW lo, NEW hi, NEW old, NEW new, NEW weak,
           Structure(node, root, old, new, level, lo, hi),
           OpOK(op, DOMAIN node, old, new, weak, lo)
    PROVE  TypeOK
<1>1. op.do \in {"nothing", "parent", "rebalance"}
  BY DEF OpOK, Idle, Parent, Rebalance
<1>2. /\ TypesOK(node, level, lo, hi) /\ root \in DOMAIN node
      /\ PendingOK(node, level, lo, hi, old, new)
  BY DEF Structure, RootOK
<1>3. DOMAIN node \subseteq Pages
  BY <1>2 DEF TypesOK
<1>4. ASSUME NEW p \in DOMAIN node
      PROVE  /\ node[p].leaf \in BOOLEAN
             /\ node[p].parent \in DOMAIN node \cup {None}
             /\ node[p].next \in DOMAIN node \cup {None}
             /\ Range(node[p].items) \subseteq
                    IF node[p].leaf THEN Item(Keys, Range(Rid)) ELSE Item(Keys \cup {0}, DOMAIN node)
  <2>1. /\ node[p].leaf \in BOOLEAN /\ node[p].items \in Entries /\ Len(node[p].items) \in Nat
        /\ p \in Nat /\ p # 0
    BY <1>2, PageIds
  <2>2. /\ LeafOK(node, lo, hi, p) /\ InnerOK(node, level, lo, hi, old, new, p)
        /\ \A q \in DOMAIN node : LinkOK(node, root, new, q)
    BY DEF Structure
  <2>3. node[p].parent \in DOMAIN node \cup {None}
    <3>1. CASE p = root
      BY <3>1 DEF Structure, RootOK
    <3>2. CASE p # root /\ p # new
      BY <2>2, <3>2 DEF LinkOK
    <3>3. CASE p # root /\ p = new
      <4>1. old \in DOMAIN node /\ old # new /\ node[old].parent = node[new].parent
        BY <1>2, <2>1, <3>3 DEF PendingOK
      <4>2. old = root => node[old].parent = None
        BY DEF Structure, RootOK
      <4>3. old # root => node[old].parent \in DOMAIN node
        BY <2>2, <4>1 DEF LinkOK
      <4> QED BY <3>3, <4>1, <4>2, <4>3
    <3> QED BY <3>1, <3>2, <3>3
  <2>4. node[p].next \in DOMAIN node \cup {None}
    BY <2>2 DEF LeafOK, InnerOK
  <2>5. PICK I : I = node[p].items
    OBVIOUS
  <2>6. DOMAIN I = 1..Len(I) /\ \A i \in 1..Len(I) : I[i] \in Nat \X Nat
    BY <2>1, <2>5 DEF Entries
  <2>7. \A i \in 1..Len(I) : I[i] = <<I[i][1], I[i][2]>>
    BY <2>6
  <2>8. Range(I) = {I[i] : i \in 1..Len(I)}
    BY <2>6 DEF Range
  <2>9. CASE node[p].leaf
    <3>1. LeafItems(I, lo[p], hi[p])
      BY <2>2, <2>5, <2>9 DEF LeafOK
    <3>2. DOMAIN Rid = Keys
      BY TreeAssumption
    <3>3. \A i \in 1..Len(I) : I[i][1] \in Keys /\ I[i][2] \in Range(Rid)
      BY <3>1, <3>2 DEF LeafItems, Range
    <3>4. Range(I) \subseteq Item(Keys, Range(Rid))
      BY ONLY <2>7, <2>8, <3>3, InItem
    <3> QED BY <2>1, <2>3, <2>4, <2>5, <2>9, <3>4
  <2>10. CASE ~ node[p].leaf
    <3>1. InnerItems(I, lo[p], hi[p]) /\ \A i \in 1..Len(I) : I[i][2] \in DOMAIN node
      BY <2>2, <2>5, <2>10 DEF InnerOK, Kids
    <3>2. \A i \in 1..Len(I) : I[i][1] \in Keys \cup {0}
      BY <3>1 DEF InnerItems
    <3>3. Range(I) \subseteq Item(Keys \cup {0}, DOMAIN node)
      BY ONLY <2>7, <2>8, <3>1, <3>2, InItem
    <3> QED BY <2>1, <2>3, <2>4, <2>5, <2>10, <3>3
  <2> QED BY <2>9, <2>10
<1> QED BY <1>1, <1>2, <1>3, <1>4 DEF TypeOK

(* The invariant says what the run checks *)
LEMMA InvConsistent == TreeInv => TreeConsistent
<1>1. SUFFICES ASSUME TreeInv PROVE TreeConsistent
  OBVIOUS
<1>2. CASE root = None
  <2>1. DOMAIN node = {} /\ op = Idle
    BY <1>1, <1>2 DEF TreeInv, TreeOK
  <2>2. TypeOK
    BY <1>2, <2>1 DEF TypeOK, Idle
  <2>3. TreeShape
    BY <1>2, <2>1 DEF TreeShape
  <2>4. SearchFinds
    BY <1>2 DEF SearchFinds
  <2>5. Scan = <<>>
    BY <1>2, Zenon DEF Scan
  <2>6. Contents = [k \in Keys |-> None]
    BY <2>1 DEF Contents
  <2>7. DOMAIN Scan = {} /\ Range(Scan) = {}
    <3>1. DOMAIN <<>> = {}
      OBVIOUS
    <3> QED BY <2>5, <3>1 DEF Range
  <2>8. {j \in Keys : Contents[j] # None} = {}
    BY <2>6
  <2>9. ScanSorted
    BY <2>7, <2>8 DEF ScanSorted
  <2> QED BY <2>2, <2>3, <2>4, <2>9 DEF TreeConsistent
<1>3. CASE root # None
  <2>1. PICK level, lo, hi, old, new, weak, bound :
              /\ Structure(node, root, old, new, level, lo, hi)
              /\ Sizes(node, Exempt(root, old), weak)
              /\ OpOK(op, DOMAIN node, old, new, weak, lo)
              /\ Bounded(DOMAIN node, lo, bound)
    BY <1>1, <1>3 DEF TreeInv, TreeOK
  <2>2. TypeOK
    BY <2>1, TypeOKFits
  <2>3. ScanSorted
    BY <1>3, <2>1, ScanSortedOK
  <2>4. op = Idle => old = 0 /\ new = 0 /\ weak = 0
    BY <2>1 DEF OpOK, Idle, Parent, Rebalance
  <2>5. TreeShape
    <3>1. CASE op = Idle
      <4>1. root # 0
        BY <2>1, PageIds DEF Structure, RootOK
      <4>2. Exempt(root, old) = root
        BY <2>4, <3>1, <4>1 DEF Exempt
      <4> QED BY <1>3, <2>1, <2>4, <3>1, <4>2, TreeShapeOK
    <3>2. CASE op # Idle
      BY <3>2 DEF TreeShape
    <3> QED BY <3>1, <3>2
  <2>6. SearchFinds
    <3>1. ASSUME op = Idle, NEW k \in Keys PROVE GetValue(k) = Contents[k]
      BY <2>1, <2>4, <3>1, SearchFindsOK
    <3> QED BY <3>1 DEF SearchFinds
  <2> QED BY <2>2, <2>3, <2>5, <2>6 DEF TreeConsistent
<1> QED BY <1>2, <1>3
-----------------------------------------------------------------------------
(* What the invariant says between two calls, *)
LEMMA IdleFacts ==
    ASSUME TreeInv, op = Idle, root # None
    PROVE  \E level, lo, hi, bound : /\ Structure(node, root, 0, 0, level, lo, hi)
                                     /\ Sizes(node, root, 0) /\ Bounded(DOMAIN node, lo, bound)
<1>1. PICK level, lo, hi, old, new, weak, bound :
          /\ Structure(node, root, old, new, level, lo, hi)
          /\ Sizes(node, Exempt(root, old), weak)
          /\ OpOK(op, DOMAIN node, old, new, weak, lo)
          /\ Bounded(DOMAIN node, lo, bound)
  BY DEF TreeInv, TreeOK
<1>2. old = 0 /\ new = 0 /\ weak = 0
  BY <1>1 DEF OpOK, Idle, Parent, Rebalance
<1>3. root # 0
  BY <1>1, PageIds DEF Structure, RootOK
<1>4. Exempt(root, old) = root
  BY <1>2, <1>3 DEF Exempt
<1> QED BY <1>1, <1>2, <1>4

(* before a page is linked to its parent, *)
LEMMA ParentFacts ==
    ASSUME TreeInv, op.do = "parent"
    PROVE  /\ root # None
           /\ \E level, lo, hi, bound : /\ Structure(node, root, op.old, op.new, level, lo, hi)
                                        /\ op.old # 0 /\ op.key = lo[op.new]
                                        /\ Sizes(node, Exempt(root, op.old), 0)
                                        /\ Bounded(DOMAIN node, lo, bound)
BY DEF TreeInv, TreeOK, OpOK, Idle, Parent, Rebalance

(* and when a page has lost an entry *)
LEMMA RebalanceFacts ==
    ASSUME TreeInv, op.do = "rebalance"
    PROVE  /\ root # None
           /\ \E level, lo, hi, bound : /\ Structure(node, root, 0, 0, level, lo, hi)
                                        /\ op.page \in DOMAIN node
                                        /\ Sizes(node, root, op.page) /\ Bounded(DOMAIN node, lo, bound)
<1>1. root # None
  BY DEF TreeInv, TreeOK, Idle
<1>2. PICK level, lo, hi, old, new, weak, bound :
          /\ Structure(node, root, old, new, level, lo, hi)
          /\ Sizes(node, Exempt(root, old), weak)
          /\ OpOK(op, DOMAIN node, old, new, weak, lo)
          /\ Bounded(DOMAIN node, lo, bound)
  BY <1>1 DEF TreeInv, TreeOK
<1>3. old = 0 /\ new = 0 /\ weak = op.page /\ weak \in DOMAIN node
  BY <1>2 DEF OpOK, Idle, Parent, Rebalance
<1>4. root # 0
  BY <1>2, PageIds DEF Structure, RootOK
<1>5. Exempt(root, old) = root
  BY <1>3, <1>4 DEF Exempt
<1> QED BY <1>1, <1>2, <1>3, <1>5

LEMMA Builds ==
    ASSUME NEW nd, NEW rt, NEW o, NEW level, NEW lo, NEW hi, NEW old, NEW new, NEW weak, NEW bound,
           Structure(nd, rt, old, new, level, lo, hi), Sizes(nd, Exempt(rt, old), weak),
           OpOK(o, DOMAIN nd, old, new, weak, lo), Bounded(DOMAIN nd, lo, bound)
    PROVE  TreeOK(nd, rt, o)
<1>1. rt # None
  BY PageIds DEF Structure, RootOK
<1> QED BY <1>1 DEF TreeOK

(* the same when no page waits to be linked *)
LEMMA BuildsWhole ==
    ASSUME NEW nd, NEW rt, NEW o, NEW level, NEW lo, NEW hi, NEW weak, NEW bound,
           Structure(nd, rt, 0, 0, level, lo, hi), Sizes(nd, rt, weak),
           OpOK(o, DOMAIN nd, 0, 0, weak, lo), Bounded(DOMAIN nd, lo, bound)
    PROVE  TreeOK(nd, rt, o)
<1>1. rt # 0
  BY PageIds DEF Structure, RootOK
<1>2. Exempt(rt, 0) = rt
  BY <1>1 DEF Exempt
<1> QED BY <1>2, Builds

LEMMA NewPageIs ==
    ASSUME PageLeft PROVE NewPage \in Pages \ DOMAIN node
<1>1. PICK T : T = Pages \ DOMAIN node
  OBVIOUS
<1>2. T \subseteq Nat /\ T # {}
  BY <1>1, TreeAssumption DEF PageLeft
<1>3. \E x \in T : \A y \in T : x <= y
  BY <1>2, LeastOfNats
<1>4. Min(T) \in T
  BY <1>3 DEF Min
<1> QED BY <1>1, <1>4 DEF NewPage

LEMMA ContentsStored ==
    TreeInv => Contents = [k \in Keys |-> IF k \in Stored(node) THEN Rid[k] ELSE None]
<1> SUFFICES ASSUME TreeInv PROVE Contents = [k \in Keys |-> IF k \in Stored(node) THEN Rid[k] ELSE None]
  OBVIOUS
<1>1. \A p \in DOMAIN node : node[p].items \in Entries
  BY PageIds DEF TreeInv, TreeOK, Structure
<1>2. \A p \in DOMAIN node : DOMAIN node[p].items = 1..Len(node[p].items)
  BY <1>1 DEF Entries
<1> QED BY <1>2 DEF Contents, Stored, HasIn, HasKey, KeyAt
-----------------------------------------------------------------------------
(* The first key of an empty tree *)
LEMMA StartNewTreeOK ==
    ASSUME TreeInv, NEW k \in Keys, StartNewTree(k)
    PROVE  TreeInv' /\ Stored(node') = Stored(node) \cup {k}
<1>1. DOMAIN node = {} /\ op' = Idle
  <2>1. root = None
    BY DEF StartNewTree
  <2> QED BY <2>1 DEF TreeInv, TreeOK, StartNewTree
<1>2. PICK n : n = NewPage
  OBVIOUS
<1>3. PICK J : J = << <<k, Rid[k]>> >>
  OBVIOUS
<1>4. PICK nd2 : nd2 = [p \in {n} |-> Leaf(J, None, None)]
  OBVIOUS
<1>5. node' = nd2 /\ root' = n
  BY <1>2, <1>3, <1>4 DEF StartNewTree
<1>6. n \in Pages /\ n \in Nat /\ n # 0
  BY <1>2, NewPageIs, TreeAssumption DEF StartNewTree
<1>7. k \in Nat /\ Rid[k] \in Nat
  BY TreeAssumption
<1>8. J \in Entries /\ Len(J) = 1 /\ J[1] = <<k, Rid[k]>>
  BY ONLY <1>3, <1>7 DEF Entries
<1>9. DOMAIN nd2 = {n} /\ nd2[n].leaf /\ nd2[n].leaf \in BOOLEAN /\ nd2[n].items = J /\ nd2[n].next = None
      /\ nd2[n].parent = None /\ nd2[n] \in PageType
  BY <1>4, <1>8 DEF Leaf, PageType
<1>10. PICK zero : zero = [x \in Nat |-> 0]
  OBVIOUS
<1>11. zero \in [Nat -> Nat] /\ zero[n] = 0
  BY <1>6, <1>10
<1>12. Structure(nd2, n, 0, 0, zero, zero, zero)
  <2>1. TypesOK(nd2, zero, zero, zero)
    <3>1. nd2 = [p \in DOMAIN nd2 |-> nd2[p]]
      BY <1>4
    <3>2. nd2 \in [DOMAIN nd2 -> PageType]
      BY <1>9, <3>1
    <3> QED BY <1>6, <1>9, <1>11, <3>2 DEF TypesOK
  <2>2. RootOK(nd2, n, zero, zero, 0, 0)
    BY <1>6, <1>9, <1>11 DEF RootOK, Top
  <2>3. PendingOK(nd2, zero, zero, zero, 0, 0)
    BY DEF PendingOK
  <2>4. Disjoint(DOMAIN nd2, zero, zero, zero)
    BY <1>9 DEF Disjoint
  <2>5. PlaceOK(nd2, n, zero, zero, zero, n)
    BY <1>9, <1>11 DEF PlaceOK, Below
  <2>6. LeafOK(nd2, zero, zero, n)
    <3>1. LeafItems(J, 0, 0)
      <4>1. \A i \in 1..Len(J) : i = 1
        BY <1>8
      <4>2. J[1][1] = k /\ J[1][2] = Rid[k]
        BY <1>8
      <4> QED BY <1>7, <4>1, <4>2 DEF LeafItems, Below
    <3> QED BY <1>9, <1>11, <3>1 DEF LeafOK
  <2>7. InnerOK(nd2, zero, zero, zero, 0, 0, n)
    BY <1>9 DEF InnerOK
  <2>8. LinkOK(nd2, n, 0, n)
    BY DEF LinkOK
  <2> QED BY <1>9, <2>1, <2>2, <2>3, <2>4, <2>5, <2>6, <2>7, <2>8 DEF Structure
<1>13. Sizes(nd2, n, 0)
  <2>1. Missing(0, n) = 0 /\ 1 <= LeafMax - 1
    BY <1>6, TreeAssumption DEF Missing
  <2>2. MaxOf(nd2, n) = LeafMax - 1 /\ Len(nd2[n].items) = 1
    BY <1>8, <1>9 DEF MaxOf
  <2>3. Len(nd2[n].items) <= MaxOf(nd2, n)
    BY <2>1, <2>2
  <2>4. Len(nd2[n].items) + Missing(0, n) >= IF nd2[n].leaf THEN 1 ELSE 2
    BY <1>9, <2>1, <2>2
  <2> QED BY ONLY <1>9, <2>3, <2>4 DEF Sizes, SizeOK
<1>14. Bounded(DOMAIN nd2, zero, 0)
  <2>1. IsFiniteSet({n})
    BY FS_Singleton
  <2> QED BY <1>9, <1>11, <2>1 DEF Bounded
<1>15. OpOK(op', DOMAIN nd2, 0, 0, 0, zero)
  BY <1>1 DEF OpOK
<1>16. TreeOK(nd2, n, op')
  BY <1>12, <1>13, <1>14, <1>15, BuildsWhole
<1>17. Stored(node) = {} /\ Stored(nd2) = {k}
  <2>1. Stored(node) = {}
    BY <1>1 DEF Stored
  <2>2. \A i \in 1..Len(J) : i = 1
    BY <1>8
  <2>3. J[1][1] = k /\ 1 \in 1..Len(J)
    BY <1>8
  <2> QED BY <1>9, <2>1, <2>2, <2>3 DEF Stored, HasIn
<1> QED BY <1>5, <1>16, <1>17 DEF TreeInv
-----------------------------------------------------------------------------
(* A leaf with one more entry, in its place *)
LEMMA LeafInserted ==
    ASSUME NEW I, I \in Entries, NEW k \in Keys, NEW m, IndexIs(I, k, m), NEW low, NEW high,
           LeafItems(I, low, high), ~ HasIn(I, k), low <= k, Below(k, high),
           NEW J, Inserted(I, J, m, <<k, Rid[k]>>)
    PROVE  LeafItems(J, low, high) /\ \A x : HasIn(J, x) <=> x = k \/ HasIn(I, x)
<1>1. PICK n \in Nat : n = Len(I)
  BY DEF Entries
<1>2. /\ m \in 0..n /\ (\A i \in 1..m : I[i][1] < k) /\ \A i \in (m + 1)..n : k <= I[i][1]
  BY <1>1 DEF IndexIs
<1>3. /\ Len(J) = n + 1 /\ J[m + 1] = <<k, Rid[k]>>
      /\ \A i \in 1..m : J[i] = I[i]
      /\ \A i \in (m + 1)..n : J[i + 1] = I[i]
  BY <1>1 DEF Inserted
<1>4. k \in Nat /\ \A i \in 1..n : /\ I[i][1] \in Keys /\ I[i][1] \in Nat /\ I[i][1] # k /\ I[i][2] = Rid[I[i][1]]
                                   /\ low <= I[i][1] /\ Below(I[i][1], high)
  BY <1>1, TreeAssumption DEF LeafItems, HasIn
<1>5. \A i, j \in 1..n : i < j => I[i][1] < I[j][1]
  BY <1>1 DEF LeafItems
<1>6. J[m + 1][1] = k /\ J[m + 1][2] = Rid[k]
  BY <1>3
<1>7. ASSUME NEW i \in 1..(n + 1)
      PROVE  i \in 1..m \/ i = m + 1 \/ \E j \in (m + 1)..n : i = j + 1
  <2>1. i \in 1..m \/ i = m + 1 \/ (i - 1 \in (m + 1)..n /\ i = (i - 1) + 1)
    BY <1>2
  <2> QED BY <2>1
<1>8. \A i \in 1..m : i \in 1..n /\ i \in 1..(n + 1)
  BY <1>2
<1>9. \A i \in (m + 1)..n : i \in 1..n /\ i + 1 \in 1..(n + 1)
  BY <1>2
<1>10. m + 1 \in 1..(n + 1)
  BY <1>2
<1>11. ASSUME NEW i \in 1..(n + 1)
       PROVE  /\ J[i][1] \in Keys /\ J[i][2] = Rid[J[i][1]] /\ low <= J[i][1] /\ Below(J[i][1], high)
  <2>1. CASE i \in 1..m
    BY <1>3, <1>4, <1>8, <2>1
  <2>2. CASE i = m + 1
    BY <1>6, <2>2
  <2>3. CASE \E j \in (m + 1)..n : i = j + 1
    BY <1>3, <1>4, <1>9, <2>3
  <2> QED BY <1>7, <2>1, <2>2, <2>3
<1>12. ASSUME NEW i \in 1..(n + 1), NEW j \in 1..(n + 1), i < j PROVE J[i][1] < J[j][1]
  <2>1. CASE j \in 1..m
    <3>1. i \in 1..m
      BY <1>2, <1>12, <2>1
    <3> QED BY <1>3, <1>5, <1>8, <1>12, <2>1, <3>1
  <2>2. CASE j = m + 1
    <3>1. i \in 1..m
      BY <1>2, <1>12, <2>2
    <3> QED BY <1>2, <1>3, <1>6, <2>2, <3>1
  <2>3. CASE \E e \in (m + 1)..n : j = e + 1
    <3>1. PICK e \in (m + 1)..n : j = e + 1
      BY <2>3
    <3>2. J[j] = I[e] /\ k < I[e][1] /\ e \in 1..n
      <4>1. J[j] = I[e] /\ e \in 1..n /\ k <= I[e][1]
        BY <1>2, <1>3, <1>9, <3>1
      <4> QED BY <1>4, <4>1
    <3>3. CASE i \in 1..m
      <4>1. I[i][1] < k /\ J[i] = I[i] /\ i \in 1..n
        BY <1>2, <1>3, <1>8, <3>3
      <4> QED BY <1>4, <3>2, <4>1
    <3>4. CASE i = m + 1
      BY <1>6, <3>2, <3>4
    <3>5. CASE \E d \in (m + 1)..n : i = d + 1
      <4>1. PICK d \in (m + 1)..n : i = d + 1
        BY <3>5
      <4>2. d < e /\ d \in 1..n /\ J[i] = I[d]
        BY <1>3, <1>9, <1>12, <3>1, <4>1
      <4> QED BY <1>5, <3>2, <4>2
    <3> QED BY <1>7, <3>3, <3>4, <3>5
  <2> QED BY <1>7, <2>1, <2>2, <2>3
<1>13. LeafItems(J, low, high)
  BY <1>3, <1>11, <1>12 DEF LeafItems
<1>14. ASSUME NEW x PROVE HasIn(J, x) <=> x = k \/ HasIn(I, x)
  <2>1. ASSUME HasIn(J, x), x # k PROVE HasIn(I, x)
    <3>1. PICK i \in 1..(n + 1) : J[i][1] = x
      BY <1>3, <2>1 DEF HasIn
    <3>2. CASE i \in 1..m
      BY <1>1, <1>3, <1>8, <3>1, <3>2 DEF HasIn
    <3>3. CASE i = m + 1
      BY <1>6, <2>1, <3>1, <3>3
    <3>4. CASE \E j \in (m + 1)..n : i = j + 1
      BY <1>1, <1>3, <1>9, <3>1, <3>4 DEF HasIn
    <3> QED BY <1>7, <3>2, <3>3, <3>4
  <2>2. ASSUME x = k PROVE HasIn(J, x)
    BY <1>3, <1>6, <1>10, <2>2 DEF HasIn
  <2>3. ASSUME HasIn(I, x) PROVE HasIn(J, x)
    <3>1. PICK i \in 1..n : I[i][1] = x
      BY <1>1, <2>3 DEF HasIn
    <3>2. i \in 1..m \/ i \in (m + 1)..n
      BY <1>2
    <3>3. CASE i \in 1..m
      BY <1>3, <1>8, <3>1, <3>3 DEF HasIn
    <3>4. CASE i \in (m + 1)..n
      <4>1. J[i + 1][1] = x /\ i + 1 \in 1..(n + 1)
        BY <1>3, <1>9, <3>1, <3>4
      <4> QED BY <1>3, <4>1 DEF HasIn
    <3> QED BY <3>2, <3>3, <3>4
  <2> QED BY <2>1, <2>2, <2>3
<1> QED BY <1>13, <1>14

(* A leaf without one of its entries *)
LEMMA LeafRemoved ==
    ASSUME NEW I, I \in Entries, NEW m, m \in 1..Len(I), NEW low, NEW high, LeafItems(I, low, high),
           NEW R, Removed(I, R, m)
    PROVE  LeafItems(R, low, high) /\ \A x : HasIn(R, x) <=> HasIn(I, x) /\ x # I[m][1]
<1>1. PICK n \in Nat : n = Len(I)
  BY DEF Entries
<1>2. PICK w : w = n - 1
  OBVIOUS
<1>3. /\ Len(R) = w /\ m \in 1..n
      /\ \A i \in 1..(m - 1) : R[i] = I[i]
      /\ \A i \in m..w : R[i] = I[i + 1]
  BY <1>1, <1>2 DEF Removed
<1>4. \A i \in 1..n : /\ I[i][1] \in Keys /\ I[i][1] \in Nat /\ I[i][2] = Rid[I[i][1]]
                      /\ low <= I[i][1] /\ Below(I[i][1], high)
  BY <1>1, TreeAssumption DEF LeafItems
<1>5. \A i, j \in 1..n : i < j => I[i][1] < I[j][1]
  BY <1>1 DEF LeafItems
<1>6. \A i \in 1..w : i \in 1..(m - 1) \/ i \in m..w
  BY <1>2, <1>3
<1>7. \A i \in 1..(m - 1) : i \in 1..n /\ i \in 1..w /\ i < m
  BY <1>2, <1>3
<1>8. \A i \in m..w : i + 1 \in 1..n /\ i \in 1..w /\ m < i + 1
  BY <1>2, <1>3
<1>9. PICK f : f = [i \in 1..w |-> IF i < m THEN i ELSE i + 1]
  OBVIOUS
<1>10. \A i \in 1..w : f[i] \in 1..n /\ f[i] # m /\ R[i] = I[f[i]]
  <2>1. SUFFICES ASSUME NEW i \in 1..w PROVE f[i] \in 1..n /\ f[i] # m /\ R[i] = I[f[i]]
    OBVIOUS
  <2>2. CASE i \in 1..(m - 1)
    BY <1>3, <1>7, <1>9, <2>2
  <2>3. CASE i \in m..w
    <3>1. ~ (i < m) /\ m \in Nat
      BY <1>3, <2>3
    <3>2. f[i] = i + 1
      BY <1>9, <3>1
    <3> QED BY <1>3, <1>8, <2>3, <3>1, <3>2
  <2> QED BY <1>6, <2>2, <2>3
<1>11. \A i, j \in 1..w : i < j => f[i] < f[j]
  <2>1. m \in Nat /\ w \in Int
    BY <1>1, <1>2, <1>3
  <2> QED BY ONLY <1>9, <2>1
<1>12. LeafItems(R, low, high)
  <2>1. \A i \in 1..w : /\ R[i][1] \in Keys /\ R[i][2] = Rid[R[i][1]]
                        /\ low <= R[i][1] /\ Below(R[i][1], high)
    BY <1>4, <1>10
  <2>2. \A i, j \in 1..w : i < j => R[i][1] < R[j][1]
    BY <1>5, <1>10, <1>11
  <2> QED BY <1>3, <2>1, <2>2 DEF LeafItems
<1>13. \A i \in 1..n : i # m => I[i][1] # I[m][1]
  BY <1>3, <1>4, <1>5
<1>14. ASSUME NEW i \in 1..n, i # m PROVE \E j \in 1..w : R[j] = I[i]
  <2>1. CASE i < m
    <3>1. i \in 1..(m - 1)
      BY <1>3, <2>1
    <3> QED BY <1>3, <1>7, <3>1
  <2>2. CASE ~ (i < m)
    <3>1. i - 1 \in m..w /\ (i - 1) + 1 = i
      BY <1>2, <1>3, <1>14, <2>2
    <3> QED BY <1>3, <1>8, <3>1
  <2> QED BY <2>1, <2>2
<1>15. ASSUME NEW x PROVE HasIn(R, x) <=> HasIn(I, x) /\ x # I[m][1]
  <2>1. ASSUME HasIn(R, x) PROVE HasIn(I, x) /\ x # I[m][1]
    <3>1. PICK i \in 1..w : R[i][1] = x
      BY <1>3, <2>1 DEF HasIn
    <3> QED BY <1>1, <1>10, <1>13, <3>1 DEF HasIn
  <2>2. ASSUME HasIn(I, x), x # I[m][1] PROVE HasIn(R, x)
    <3>1. PICK i \in 1..n : I[i][1] = x /\ i # m
      BY <1>1, <2>2 DEF HasIn
    <3>2. PICK j \in 1..w : R[j] = I[i]
      BY <1>14, <3>1
    <3> QED BY <1>3, <3>1, <3>2 DEF HasIn
  <2> QED BY <2>1, <2>2
<1> QED BY <1>12, <1>15
-----------------------------------------------------------------------------
LEMMA HalfIs ==
    ASSUME NEW n \in Nat
    PROVE  n \div 2 \in Nat /\ 2 * (n \div 2) <= n /\ n <= 2 * (n \div 2) + 1
OBVIOUS

(* The bounds of the pages' sizes *)
LEMMA SizeBounds ==
    /\ LeafMax \in Nat /\ LeafMax \div 2 \in Nat /\ 1 <= LeafMax \div 2
    /\ LeafMax \div 2 <= LeafMax - 1 /\ 2 * (LeafMax \div 2) <= LeafMax
    /\ LeafMax <= 2 * (LeafMax \div 2) + 1
    /\ InternalMax \in Nat /\ (InternalMax + 1) \div 2 \in Nat /\ 2 <= (InternalMax + 1) \div 2
    /\ 2 * ((InternalMax + 1) \div 2) <= InternalMax + 1
    /\ InternalMax <= 2 * ((InternalMax + 1) \div 2)
<1>1. LeafMax \in Nat /\ LeafMax >= 2 /\ InternalMax \in Nat /\ InternalMax >= 3
  BY TreeAssumption
<1>2. InternalMax + 1 \in Nat
  BY <1>1
<1>3. PICK h : h = LeafMax \div 2
  OBVIOUS
<1>4. PICK g : g = (InternalMax + 1) \div 2
  OBVIOUS
<1>5. h \in Nat /\ 2 * h <= LeafMax /\ LeafMax <= 2 * h + 1
  BY <1>1, <1>3, HalfIs
<1>6. g \in Nat /\ 2 * g <= InternalMax + 1 /\ InternalMax + 1 <= 2 * g + 1
  BY <1>2, <1>4, HalfIs
<1>7. 1 <= h /\ h <= LeafMax - 1
  BY <1>1, <1>5
<1>8. 2 <= g /\ InternalMax <= 2 * g
  BY <1>1, <1>6
<1> QED BY <1>1, <1>3, <1>4, <1>5, <1>6, <1>7, <1>8

LEMMA BoundedMore ==
    ASSUME NEW D, D \subseteq Nat, NEW lo \in [Nat -> Nat], NEW bound, Bounded(D, lo, bound),
           NEW n \in Nat, NEW key \in Nat, NEW lo2, lo2 = [lo EXCEPT ![n] = key]
    PROVE  \E b : Bounded(D \cup {n}, lo2, b)
<1>1. IsFiniteSet(D \cup {n})
  BY FS_AddElement DEF Bounded
<1>2. PICK b : b = IF bound < key THEN key ELSE bound
  OBVIOUS
<1>3. bound \in Nat /\ \A p \in D : lo[p] <= bound /\ lo[p] \in Nat
  BY DEF Bounded
<1>4. b \in Nat /\ key <= b /\ bound <= b
  BY <1>2, <1>3
<1>5. \A p \in D \cup {n} : lo2[p] = IF p = n THEN key ELSE lo[p]
  OBVIOUS
<1>6. \A p \in D \cup {n} : lo2[p] <= b
  BY <1>3, <1>4, <1>5
<1> QED BY <1>1, <1>4, <1>6 DEF Bounded

LEMMA BoundedFewer ==
    ASSUME NEW D, NEW lo, NEW bound, Bounded(D, lo, bound), NEW E, E \subseteq D
    PROVE  Bounded(E, lo, bound)
<1>1. IsFiniteSet(E)
  BY FS_Subset DEF Bounded
<1> QED BY <1>1 DEF Bounded

(* A page whose number of entries is unchanged *)
LEMMA SameSize ==
    ASSUME NEW nd, NEW rt, NEW weak, NEW p, SizeOK(nd, rt, weak, p), NEW nd2,
           nd2[p].leaf = nd[p].leaf, Len(nd2[p].items) = Len(nd[p].items)
    PROVE  SizeOK(nd2, rt, weak, p)
BY DEF SizeOK, MaxOf, HalfOf

(* New entries in one leaf: the other pages are as before *)
SameBut(nd, nd2, p) ==
    /\ DOMAIN nd2 = DOMAIN nd
    /\ \A q \in DOMAIN nd : nd2[q].leaf = nd[q].leaf /\ (q # p => nd2[q].items = nd[q].items)

Elsewhere(nd, p, k) == \E q \in DOMAIN nd : q # p /\ nd[q].leaf /\ HasIn(nd[q].items, k)

LEMMA LeafStored ==
    ASSUME NEW nd, NEW nd2, NEW p \in DOMAIN nd, nd[p].leaf, SameBut(nd, nd2, p), NEW k \in Keys
    PROVE  /\ k \in Stored(nd2) <=> HasIn(nd2[p].items, k) \/ Elsewhere(nd, p, k)
           /\ k \in Stored(nd) <=> HasIn(nd[p].items, k) \/ Elsewhere(nd, p, k)
BY DEF Stored, Elsewhere, SameBut

(* A key that is not in the tree goes to the leaf where a search ends *)
LEMMA InsertFacts ==
    ASSUME NEW level, NEW lo, NEW hi, Structure(node, root, 0, 0, level, lo, hi),
           NEW k \in Keys, NEW p, p = FindLeaf(k), ~ HasKey(p, k),
           NEW J, J = InsertAt(node[p].items, KeyIndex(p, k) + 1, <<k, Rid[k]>>),
           NEW nd2, nd2 = [node EXCEPT ![p].items = J]
    PROVE  /\ p \in DOMAIN node /\ node[p].leaf
           /\ J \in Entries /\ Len(J) = Len(node[p].items) + 1
           /\ Structure(nd2, root, 0, 0, level, lo, hi)
           /\ Stored(nd2) = Stored(node) \cup {k}
<1>1. k \in Nat /\ Rid[k] \in Nat
  BY TreeAssumption
<1>2. p \in DOMAIN node /\ node[p].leaf /\ lo[p] <= k /\ Below(k, hi[p])
  BY <1>1, FindLeafIs
<1>3. PICK I : I = node[p].items
  OBVIOUS
<1>4. PICK m : m = KeyIndex(p, k)
  OBVIOUS
<1>5. I \in Entries /\ LeafItems(I, lo[p], hi[p]) /\ node \in [DOMAIN node -> PageType]
  BY <1>2, <1>3, PageIds DEF Structure, LeafOK, TypesOK
<1>6. IndexIs(I, k, m)
  BY <1>1, <1>3, <1>4, <1>5, KeyIndexIs
<1>7. ~ HasIn(I, k)
  BY <1>3, <1>5 DEF HasIn, HasKey, KeyAt, Entries
<1>8. PICK e : e = <<k, Rid[k]>>
  OBVIOUS
<1>9. e \in Nat \X Nat /\ m \in 0..Len(I) /\ J = InsertAt(I, m + 1, e)
  BY <1>1, <1>3, <1>4, <1>6, <1>8 DEF IndexIs
<1>10. Inserted(I, J, m, e)
  BY ONLY <1>5, <1>9, InsertAtInserts
<1>11. LeafItems(J, lo[p], hi[p]) /\ \A x : HasIn(J, x) <=> x = k \/ HasIn(I, x)
  BY <1>2, <1>5, <1>6, <1>7, <1>8, <1>10, LeafInserted
<1>12. J \in Entries /\ Len(J) = Len(I) + 1
  BY <1>10 DEF Inserted
<1>13. Structure(nd2, root, 0, 0, level, lo, hi)
  BY <1>2, <1>11, <1>12, LeafChange
<1>14. Stored(nd2) = Stored(node) \cup {k}
  <2>1. \A x \in Keys : x \in Stored(nd2) <=> x \in Stored(node) \/ x = k
    <3>1. SUFFICES ASSUME NEW x \in Keys PROVE x \in Stored(nd2) <=> x \in Stored(node) \/ x = k
      OBVIOUS
    <3>2. /\ x \in Stored(nd2) <=> HasIn(J, x) \/ Elsewhere(node, p, x)
          /\ x \in Stored(node) <=> HasIn(I, x) \/ Elsewhere(node, p, x)
      <4>1. nd2 = [node EXCEPT ![p].items = J] /\ x \in Keys
        OBVIOUS
      <4>2. SameBut(node, nd2, p) /\ nd2[p].items = J
        BY ONLY <1>2, <1>5, <1>12, <4>1, ItemsChange DEF SameBut
      <4>3. /\ x \in Stored(nd2) <=> HasIn(nd2[p].items, x) \/ Elsewhere(node, p, x)
            /\ x \in Stored(node) <=> HasIn(node[p].items, x) \/ Elsewhere(node, p, x)
        BY ONLY <1>2, <4>1, <4>2, LeafStored
      <4> QED BY ONLY <1>3, <4>2, <4>3
    <3>3. HasIn(J, x) <=> x = k \/ HasIn(I, x)
      BY <1>11
    <3> QED BY <3>2, <3>3, Zenon
  <2>2. Stored(nd2) \subseteq Keys /\ Stored(node) \subseteq Keys
    BY DEF Stored
  <2> QED BY <2>1, <2>2
<1> QED BY <1>2, <1>3, <1>12, <1>13, <1>14

LEMMA InsertIntoLeafOK ==
    ASSUME TreeInv, NEW k \in Keys, InsertIntoLeaf(k)
    PROVE  TreeInv' /\ Stored(node') = Stored(node) \cup {k}
<1>1. PICK p : p = FindLeaf(k)
  OBVIOUS
<1>2. PICK J : J = InsertAt(node[p].items, KeyIndex(p, k) + 1, <<k, Rid[k]>>)
  OBVIOUS
<1>3. PICK nd2 : nd2 = [node EXCEPT ![p].items = J]
  OBVIOUS
<1>4. /\ op = Idle /\ root # None /\ ~ HasKey(p, k) /\ Len(node[p].items) + 1 < LeafMax
      /\ node' = nd2 /\ root' = root /\ op' = op
  BY <1>1, <1>2, <1>3 DEF InsertIntoLeaf, Size
<1>5. PICK level, lo, hi, bound : /\ Structure(node, root, 0, 0, level, lo, hi)
                                  /\ Sizes(node, root, 0) /\ Bounded(DOMAIN node, lo, bound)
  BY <1>4, IdleFacts
<1>6. /\ p \in DOMAIN node /\ node[p].leaf /\ J \in Entries /\ Len(J) = Len(node[p].items) + 1
      /\ Structure(nd2, root, 0, 0, level, lo, hi)
      /\ Stored(nd2) = Stored(node) \cup {k}
  BY <1>1, <1>2, <1>3, <1>4, <1>5, InsertFacts
<1>7. node \in [DOMAIN node -> PageType]
  BY <1>5 DEF Structure, TypesOK
<1>8. /\ DOMAIN nd2 = DOMAIN node /\ nd2[p].items = J
      /\ \A q \in DOMAIN node : nd2[q].leaf = node[q].leaf /\ (q # p => nd2[q].items = node[q].items)
  BY <1>3, <1>6, <1>7, ItemsChange
<1>9. Sizes(nd2, root, 0)
  <2>1. ASSUME NEW q \in DOMAIN node, q # p PROVE SizeOK(nd2, root, 0, q)
    BY <1>5, <1>8, <2>1, SameSize DEF Sizes
  <2>2. SizeOK(nd2, root, 0, p)
    <3>1. SizeOK(node, root, 0, p) /\ Len(node[p].items) \in Nat /\ p # 0
      BY <1>5, <1>6, PageIds DEF Sizes, Structure
    <3>2. Missing(0, p) = 0 /\ LeafMax \in Nat /\ LeafMax \div 2 \in Nat
      BY <3>1, SizeBounds DEF Missing
    <3> QED BY <1>4, <1>6, <1>8, <3>1, <3>2 DEF SizeOK, MaxOf, HalfOf
  <2> QED BY <1>8, <2>1, <2>2 DEF Sizes
<1>10. OpOK(op', DOMAIN nd2, 0, 0, 0, lo) /\ Bounded(DOMAIN nd2, lo, bound)
  BY <1>4, <1>5, <1>8 DEF OpOK
<1>11. TreeOK(nd2, root, op')
  BY <1>6, <1>9, <1>10, BuildsWhole
<1> QED BY <1>4, <1>6, <1>11 DEF TreeInv

(* The entry with a key that a leaf has *)
LEMMA KeyFound ==
    ASSUME NEW I, I \in Entries, NEW k \in Nat, NEW m, IndexIs(I, k, m), NEW low, NEW high,
           LeafItems(I, low, high), HasIn(I, k)
    PROVE  m + 1 \in 1..Len(I) /\ I[m + 1][1] = k
<1>1. PICK n \in Nat : n = Len(I)
  BY DEF Entries
<1>2. PICK j \in 1..n : I[j][1] = k
  BY <1>1 DEF HasIn
<1>3. m \in Nat /\ ~ (j \in 1..m)
  BY <1>1, <1>2 DEF IndexIs
<1>4. m + 1 \in 1..n /\ m + 1 \in (m + 1)..n /\ (j = m + 1 \/ m + 1 < j)
  BY <1>3
<1>5. k <= I[m + 1][1]
  BY <1>1, <1>4 DEF IndexIs
<1>6. m + 1 < j => I[m + 1][1] < I[j][1]
  BY <1>1, <1>4 DEF LeafItems
<1>7. I[m + 1][1] \in Nat
  BY <1>1, <1>4, TreeAssumption DEF LeafItems
<1> QED BY <1>1, <1>2, <1>4, <1>5, <1>6, <1>7

LEMMA RemoveKeyOK ==
    ASSUME TreeInv, NEW k \in Keys, RemoveKey(k)
    PROVE  TreeInv' /\ Stored(node') = Stored(node) \ {k}
<1>1. PICK p : p = FindLeaf(k)
  OBVIOUS
<1>2. PICK R : R = RemoveAt(node[p].items, KeyIndex(p, k) + 1)
  OBVIOUS
<1>3. PICK nd2 : nd2 = [node EXCEPT ![p].items = R]
  OBVIOUS
<1>4. /\ op = Idle /\ root # None /\ HasKey(p, k)
      /\ node' = nd2 /\ root' = root /\ op' = Rebalance(p)
  BY <1>1, <1>2, <1>3 DEF RemoveKey
<1>5. PICK level, lo, hi, bound : /\ Structure(node, root, 0, 0, level, lo, hi)
                                  /\ Sizes(node, root, 0) /\ Bounded(DOMAIN node, lo, bound)
  BY <1>4, IdleFacts
<1>6. k \in Nat
  BY TreeAssumption
<1>7. p \in DOMAIN node /\ node[p].leaf /\ lo[p] <= k /\ Below(k, hi[p])
  BY <1>1, <1>5, <1>6, FindLeafIs
<1>8. PICK I : I = node[p].items
  OBVIOUS
<1>9. PICK m : m = KeyIndex(p, k)
  OBVIOUS
<1>10. /\ I \in Entries /\ LeafItems(I, lo[p], hi[p]) /\ node \in [DOMAIN node -> PageType]
       /\ Len(I) \in Nat /\ p # 0
  BY <1>5, <1>7, <1>8, PageIds DEF Structure, LeafOK, TypesOK
<1>11. IndexIs(I, k, m) /\ HasIn(I, k)
  <2>1. IndexIs(I, k, m)
    BY <1>6, <1>8, <1>9, <1>10, KeyIndexIs
  <2>2. DOMAIN I = 1..Len(I)
    BY <1>10 DEF Entries
  <2>3. HasIn(I, k)
    BY ONLY <1>4, <1>8, <2>2 DEF HasIn, HasKey, KeyAt
  <2> QED BY <2>1, <2>3
<1>12. m + 1 \in 1..Len(I) /\ I[m + 1][1] = k
  BY ONLY <1>6, <1>10, <1>11, KeyFound
<1>13. PICK w : w = m + 1
  OBVIOUS
<1>14. R = RemoveAt(I, w) /\ w \in 1..Len(I) /\ I[w][1] = k
  BY <1>2, <1>8, <1>9, <1>12, <1>13
<1>15. Removed(I, R, w)
  BY ONLY <1>10, <1>14, RemoveAtRemoves
<1>16. LeafItems(R, lo[p], hi[p]) /\ \A x : HasIn(R, x) <=> HasIn(I, x) /\ x # k
  BY <1>10, <1>14, <1>15, LeafRemoved
<1>17. R \in Entries /\ Len(R) = Len(I) - 1
  BY <1>15 DEF Removed
<1>18. Structure(nd2, root, 0, 0, level, lo, hi)
  BY ONLY <1>3, <1>5, <1>7, <1>16, <1>17, LeafChange
<1>19. SameBut(node, nd2, p) /\ nd2[p].items = R
  BY ONLY <1>3, <1>7, <1>10, <1>17, ItemsChange DEF SameBut
<1>20. DOMAIN nd2 = DOMAIN node /\ \A q \in DOMAIN node : nd2[q].leaf = node[q].leaf
  BY <1>19 DEF SameBut
<1>21. Sizes(nd2, root, p)
  <2>1. ASSUME NEW q \in DOMAIN node, q # p PROVE SizeOK(nd2, root, p, q)
    <3>1. SizeOK(node, root, 0, q) /\ q # 0
      BY <1>5, PageIds DEF Sizes, Structure
    <3>2. SizeOK(node, root, p, q)
      BY <2>1, <3>1 DEF SizeOK, Missing
    <3> QED BY <1>19, <2>1, <3>2, SameSize DEF SameBut
  <2>2. SizeOK(nd2, root, p, p)
    <3>1. SizeOK(node, root, 0, p)
      BY <1>5, <1>7 DEF Sizes
    <3>2. Missing(0, p) = 0 /\ Missing(p, p) = 1 /\ LeafMax \in Nat /\ LeafMax \div 2 \in Nat
      BY <1>10, SizeBounds DEF Missing
    <3>3. Len(I) <= LeafMax - 1 /\ Len(I) >= 1 /\ (p # root => Len(I) >= LeafMax \div 2)
      BY <1>7, <1>8, <1>10, <3>1, <3>2 DEF SizeOK, MaxOf, HalfOf
    <3>4. Len(nd2[p].items) = Len(I) - 1 /\ nd2[p].leaf
      BY <1>7, <1>17, <1>19, <1>20
    <3> QED BY <1>10, <3>2, <3>3, <3>4 DEF SizeOK, MaxOf, HalfOf
  <2> QED BY <1>20, <2>1, <2>2 DEF Sizes
<1>22. OpOK(op', DOMAIN nd2, 0, 0, p, lo) /\ Bounded(DOMAIN nd2, lo, bound)
  BY <1>4, <1>5, <1>7, <1>20 DEF OpOK
<1>23. TreeOK(nd2, root, op')
  BY <1>18, <1>21, <1>22, BuildsWhole
<1>24. Stored(nd2) = Stored(node) \ {k}
  <2>1. ~ Elsewhere(node, p, k)
    <3>1. SUFFICES ASSUME NEW q \in DOMAIN node, q # p, node[q].leaf, HasIn(node[q].items, k) PROVE FALSE
      BY DEF Elsewhere
    <3>2. LeafItems(node[q].items, lo[q], hi[q]) /\ level[p] = level[q]
      <4>1. level[p] = 0 /\ level[q] = 0
        BY <1>5, <1>7, <3>1 DEF Structure, PlaceOK
      <4> QED BY <1>5, <3>1, <4>1 DEF Structure, LeafOK
    <3>3. lo[q] <= k /\ Below(k, hi[q])
      BY <3>1, <3>2 DEF HasIn, LeafItems
    <3>4. p = q
      BY <1>5, <1>6, <1>7, <3>2, <3>3, SamePlace
    <3> QED BY <3>1, <3>4
  <2>2. \A x \in Keys : x \in Stored(nd2) <=> x \in Stored(node) /\ x # k
    <3>1. SUFFICES ASSUME NEW x, x \in Keys PROVE x \in Stored(nd2) <=> x \in Stored(node) /\ x # k
      OBVIOUS
    <3>2. /\ x \in Stored(nd2) <=> HasIn(nd2[p].items, x) \/ Elsewhere(node, p, x)
          /\ x \in Stored(node) <=> HasIn(node[p].items, x) \/ Elsewhere(node, p, x)
      BY ONLY <1>7, <1>19, <3>1, LeafStored
    <3>3. HasIn(R, x) <=> HasIn(I, x) /\ x # k
      BY <1>16
    <3>4. x = k => ~ Elsewhere(node, p, x)
      BY <2>1
    <3> QED BY ONLY <1>8, <1>19, <3>2, <3>3, <3>4
  <2>3. Stored(nd2) \subseteq Keys /\ Stored(node) \subseteq Keys
    BY DEF Stored
  <2> QED BY <2>2, <2>3
<1> QED BY <1>4, <1>23, <1>24 DEF TreeInv
-----------------------------------------------------------------------------
LEMMA SplitStored ==
    ASSUME NEW nd, NEW nd2, NEW p, NEW n, NEW m \in Nat, SplitAt(nd, nd2, p, n, m),
           Len(nd[p].items) \in Nat, m <= Len(nd[p].items)
    PROVE  Stored(nd2) = Stored(nd)
<1>1. /\ p \in DOMAIN nd /\ n \notin DOMAIN nd /\ DOMAIN nd2 = DOMAIN nd \cup {n}
      /\ nd2[n].leaf = nd[p].leaf
      /\ \A q \in DOMAIN nd : nd2[q].leaf = nd[q].leaf /\ (q # p => nd2[q].items = nd[q].items)
  BY DEF SplitAt
<1>2. PICK a : a = Len(nd[p].items)
  OBVIOUS
<1>3. /\ Len(nd2[p].items) = m /\ Len(nd2[n].items) = a - m
      /\ \A i \in 1..m : nd2[p].items[i] = nd[p].items[i]
      /\ \A i \in 1..(a - m) : nd2[n].items[i] = nd[p].items[i + m]
  BY <1>2 DEF SplitAt
<1>4. ASSUME NEW x PROVE HasIn(nd[p].items, x) <=> HasIn(nd2[p].items, x) \/ HasIn(nd2[n].items, x)
  <2>1. ASSUME HasIn(nd[p].items, x) PROVE HasIn(nd2[p].items, x) \/ HasIn(nd2[n].items, x)
    <3>1. PICK i \in 1..a : nd[p].items[i][1] = x
      BY <1>2, <2>1 DEF HasIn
    <3>2. CASE i <= m
      <4>1. i \in 1..m
        BY <1>2, <3>2
      <4> QED BY <1>3, <3>1, <4>1 DEF HasIn
    <3>3. CASE ~ (i <= m)
      <4>1. i - m \in 1..(a - m) /\ (i - m) + m = i
        BY <1>2, <3>3
      <4>2. nd2[n].items[i - m][1] = x
        BY <1>3, <3>1, <4>1
      <4> QED BY <1>3, <4>1, <4>2 DEF HasIn
    <3> QED BY <3>2, <3>3
  <2>2. ASSUME HasIn(nd2[p].items, x) PROVE HasIn(nd[p].items, x)
    <3>1. PICK i \in 1..m : nd2[p].items[i][1] = x
      BY <1>3, <2>2 DEF HasIn
    <3>2. i \in 1..a /\ nd[p].items[i][1] = x
      BY <1>2, <1>3, <3>1
    <3> QED BY <1>2, <3>2 DEF HasIn
  <2>3. ASSUME HasIn(nd2[n].items, x) PROVE HasIn(nd[p].items, x)
    <3>1. PICK i \in 1..(a - m) : nd2[n].items[i][1] = x
      BY <1>3, <2>3 DEF HasIn
    <3>2. i + m \in 1..a /\ nd[p].items[i + m][1] = x
      BY <1>2, <1>3, <3>1
    <3> QED BY <1>2, <3>2 DEF HasIn
  <2> QED BY <2>1, <2>2, <2>3
<1>5. ASSUME NEW x \in Keys
      PROVE  x \in Stored(nd2) <=> x \in Stored(nd)
  <2>1. ASSUME x \in Stored(nd) PROVE x \in Stored(nd2)
    <3>1. PICK q \in DOMAIN nd : nd[q].leaf /\ HasIn(nd[q].items, x)
      BY <2>1 DEF Stored
    <3>2. CASE q = p
      BY <1>1, <1>4, <3>1, <3>2 DEF Stored
    <3>3. CASE q # p
      BY <1>1, <3>1, <3>3 DEF Stored
    <3> QED BY <3>2, <3>3
  <2>2. ASSUME x \in Stored(nd2) PROVE x \in Stored(nd)
    <3>1. PICK q \in DOMAIN nd2 : nd2[q].leaf /\ HasIn(nd2[q].items, x)
      BY <2>2 DEF Stored
    <3>2. CASE q = p \/ q = n
      BY <1>1, <1>4, <3>1, <3>2 DEF Stored
    <3>3. CASE q # p /\ q # n
      BY <1>1, <3>1, <3>3 DEF Stored
    <3> QED BY <3>2, <3>3
  <2> QED BY <2>1, <2>2
<1> QED BY <1>5 DEF Stored

(* The entries of a page cut in two *)
CutInto(J, A, B, m) ==
    /\ A \in Entries /\ Len(A) = m /\ \A i \in 1..m : A[i] = J[i]
    /\ B \in Entries /\ Len(B) = Len(J) - m /\ \A i \in 1..(Len(J) - m) : B[i] = J[i + m]

LEMMA CutEntries ==
    ASSUME NEW J, J \in Entries, NEW m, m \in 0..Len(J), NEW A, A = SubSeq(J, 1, m),
           NEW B, B = SubSeq(J, m + 1, Len(J))
    PROVE  CutInto(J, A, B, m)
<1>1. PICK S : S = Nat \X Nat
  OBVIOUS
<1>2. J \in Seq(S)
  BY <1>1 DEF Entries
<1>3. /\ A \in Seq(S) /\ Len(A) = m /\ \A i \in 1..m : A[i] = J[i]
      /\ B \in Seq(S) /\ Len(B) = Len(J) - m /\ \A i \in 1..(Len(J) - m) : B[i] = J[i + m]
  BY <1>2, CutIs
<1> QED BY ONLY <1>1, <1>3 DEF Entries, CutInto

LEMMA InsertAndSplitOK ==
    ASSUME TreeInv, NEW k \in Keys, InsertAndSplit(k)
    PROVE  TreeInv' /\ Stored(node') = Stored(node) \cup {k}
<1>1. PICK p : p = FindLeaf(k)
  OBVIOUS
<1>2. PICK J : J = InsertAt(node[p].items, KeyIndex(p, k) + 1, <<k, Rid[k]>>)
  OBVIOUS
<1>3. PICK nd1 : nd1 = [node EXCEPT ![p].items = J]
  OBVIOUS
<1>4. PICK n : n = NewPage
  OBVIOUS
<1>5. PICK h : h = GetMinSize(p)
  OBVIOUS
<1>6. PICK A : A = SubSeq(J, 1, h)
  OBVIOUS
<1>7. PICK B : B = SubSeq(J, h + 1, Len(J))
  OBVIOUS
<1>8. PICK nd2 : nd2 = [q \in DOMAIN node \cup {n} |->
                           CASE q = p -> Leaf(A, n, node[p].parent)
                             [] q = n -> Leaf(B, node[p].next, node[p].parent)
                             [] OTHER -> node[q]]
  OBVIOUS
<1>9. /\ op = Idle /\ root # None /\ ~ HasKey(p, k) /\ Len(node[p].items) + 1 >= LeafMax /\ PageLeft
      /\ node' = nd2 /\ root' = root /\ op' = Parent(p, B[1][1], n)
  BY <1>1, <1>2, <1>4, <1>5, <1>6, <1>7, <1>8 DEF InsertAndSplit, Size
<1>10. PICK level, lo, hi, bound : /\ Structure(node, root, 0, 0, level, lo, hi)
                                   /\ Sizes(node, root, 0) /\ Bounded(DOMAIN node, lo, bound)
  BY <1>9, IdleFacts
<1>11. /\ p \in DOMAIN node /\ node[p].leaf /\ J \in Entries /\ Len(J) = Len(node[p].items) + 1
       /\ Structure(nd1, root, 0, 0, level, lo, hi)
       /\ Stored(nd1) = Stored(node) \cup {k}
  BY <1>1, <1>2, <1>3, <1>9, <1>10, InsertFacts
<1>12. n \in Pages \ DOMAIN node /\ n \in Nat /\ n # 0
  BY <1>4, <1>9, NewPageIs, TreeAssumption
<1>13. /\ node \in [DOMAIN node -> PageType] /\ level \in [Nat -> Nat] /\ lo \in [Nat -> Nat] /\ hi \in [Nat -> Nat]
  BY <1>10 DEF Structure, TypesOK
<1>14. \A q \in DOMAIN node : q \in Nat /\ q # 0 /\ q # n /\ SizeOK(node, root, 0, q)
  BY <1>10, <1>12, PageIds DEF Structure, Sizes
<1>15. h = LeafMax \div 2 /\ Len(J) = LeafMax
  <2>1. h = LeafMax \div 2
    BY <1>5, <1>11 DEF GetMinSize
  <2>2. Len(node[p].items) <= LeafMax - 1 /\ Len(node[p].items) \in Nat
    BY <1>10, <1>11, <1>14, PageIds DEF SizeOK, MaxOf, Structure
  <2> QED BY <1>9, <1>11, <2>1, <2>2, SizeBounds
<1>16. /\ h \in Nat /\ 1 <= h /\ h < Len(J) /\ h \in 0..Len(J) /\ Len(J) - h >= h /\ Len(J) - h <= LeafMax - 1
       /\ h <= LeafMax - 1 /\ Len(J) \in Nat
  BY <1>15, SizeBounds
<1>17. /\ A \in Entries /\ Len(A) = h /\ \A i \in 1..h : A[i] = J[i]
       /\ B \in Entries /\ Len(B) = Len(J) - h /\ \A i \in 1..(Len(J) - h) : B[i] = J[i + h]
  <2>1. CutInto(J, A, B, h)
    BY ONLY <1>6, <1>7, <1>11, <1>16, CutEntries
  <2> QED BY ONLY <2>1 DEF CutInto
<1>18. /\ DOMAIN nd1 = DOMAIN node /\ nd1 \in [DOMAIN node -> PageType] /\ nd1[p].items = J
       /\ \A q \in DOMAIN node : /\ nd1[q].leaf = node[q].leaf /\ nd1[q].next = node[q].next
                                 /\ nd1[q].parent = node[q].parent
                                 /\ q # p => nd1[q].items = node[q].items
  <2>1. p \in DOMAIN node /\ J \in Entries
    BY <1>11
  <2> QED BY ONLY <1>3, <1>13, <2>1, ItemsChange
<1>19. /\ DOMAIN nd2 = DOMAIN node \cup {n}
       /\ nd2[p] = Leaf(A, n, node[p].parent)
       /\ nd2[n] = Leaf(B, node[p].next, node[p].parent)
       /\ \A q \in DOMAIN node : q # p => nd2[q] = node[q]
  BY <1>8, <1>11, <1>14
<1>20. /\ nd2[p].leaf = TRUE /\ nd2[p].items = A /\ nd2[p].next = n /\ nd2[p].parent = node[p].parent
       /\ nd2[n].leaf = TRUE /\ nd2[n].items = B /\ nd2[n].next = node[p].next
       /\ nd2[n].parent = node[p].parent
  BY ONLY <1>19 DEF Leaf
<1>21. node[p].leaf = TRUE
  BY <1>11, <1>13 DEF PageType
<1>22. nd2 \in [DOMAIN nd2 -> PageType]
  <2>1. nd2 = [q \in DOMAIN nd2 |-> nd2[q]]
    BY <1>8
  <2>2. node[p] \in PageType
    BY <1>11, <1>13
  <2>3. nd2[p] \in PageType /\ nd2[n] \in PageType
    BY <1>12, <1>17, <1>19, <2>2 DEF Leaf, PageType
  <2>4. \A q \in DOMAIN nd2 : nd2[q] \in PageType
    BY <1>13, <1>19, <2>3
  <2> QED BY ONLY <2>1, <2>4
<1>23. SplitAt(nd1, nd2, p, n, h)
  <2>1. n \in Pages \ DOMAIN nd1 /\ p \in DOMAIN nd1 /\ DOMAIN nd2 = DOMAIN nd1 \cup {n}
    BY <1>11, <1>12, <1>18, <1>19
  <2>2. nd2[n].leaf = nd1[p].leaf /\ nd2[n].parent = nd1[p].parent
    BY <1>11, <1>18, <1>20, <1>21
  <2>3. IF nd1[p].leaf THEN nd2[p].next = n /\ nd2[n].next = nd1[p].next
                       ELSE nd2[p].next = None /\ nd2[n].next = None
    BY <1>11, <1>18, <1>20
  <2>4. /\ Len(nd2[p].items) = h /\ Len(nd2[n].items) = Len(nd1[p].items) - h
        /\ \A i \in 1..h : nd2[p].items[i] = nd1[p].items[i]
        /\ \A i \in 1..(Len(nd1[p].items) - h) : nd2[n].items[i] = nd1[p].items[i + h]
    BY ONLY <1>17, <1>18, <1>20
  <2>5. nd1[p].leaf
    BY <1>11, <1>18
  <2>6. ASSUME NEW q \in DOMAIN nd1
        PROVE  /\ nd2[q].leaf = nd1[q].leaf
               /\ q # p => nd2[q].items = nd1[q].items /\ nd2[q].next = nd1[q].next
               /\ nd2[q].parent = nd1[q].parent
    BY <1>11, <1>18, <1>19, <1>20, <1>21, ZenonT(40)
  <2> QED BY ONLY <1>22, <2>1, <2>2, <2>3, <2>4, <2>5, <2>6 DEF SplitAt
<1>24. PICK key : key = J[h + 1][1]
  OBVIOUS
<1>25. PICK level2 : level2 = [level EXCEPT ![n] = level[p]]
  OBVIOUS
<1>26. PICK lo2 : lo2 = [lo EXCEPT ![n] = key]
  OBVIOUS
<1>27. PICK hi2 : hi2 = [[hi EXCEPT ![p] = key] EXCEPT ![n] = hi[p]]
  OBVIOUS
<1>28. Structure(nd2, root, p, n, level2, lo2, hi2)
  <2>1. key = nd1[p].items[h + 1][1] /\ h < Len(nd1[p].items)
    BY ONLY <1>16, <1>18, <1>24
  <2> QED BY ONLY <1>11, <1>16, <1>23, <1>25, <1>26, <1>27, <2>1, SplitOK
<1>29. B[1][1] = key /\ key \in Nat
  <2>1. 1 \in 1..(Len(J) - h) /\ h + 1 = 1 + h /\ h + 1 \in 1..Len(J)
    BY ONLY <1>16
  <2>2. B[1] = J[h + 1]
    BY ONLY <1>17, <2>1
  <2>3. J[h + 1] \in Nat \X Nat
    BY ONLY <1>11, <2>1 DEF Entries
  <2> QED BY ONLY <1>24, <2>2, <2>3
<1>30. lo2[n] = key
  BY ONLY <1>12, <1>13, <1>26
<1>31. OpOK(op', DOMAIN nd2, p, n, 0, lo2)
  BY <1>9, <1>11, <1>14, <1>29, <1>30 DEF OpOK
<1>32. \E b : Bounded(DOMAIN nd2, lo2, b)
  <2>1. DOMAIN node \subseteq Nat
    BY <1>14
  <2>2. \E b : Bounded(DOMAIN node \cup {n}, lo2, b)
    BY ONLY <1>10, <1>12, <1>13, <1>26, <1>29, <2>1, BoundedMore
  <2> QED BY ONLY <1>19, <2>2
<1>33. Sizes(nd2, Exempt(root, p), 0)
  <2>1. ASSUME NEW q \in DOMAIN node, q # p PROVE SizeOK(nd2, Exempt(root, p), 0, q)
    <3>1. SizeOK(node, Exempt(root, p), 0, q)
      BY <1>14, <2>1 DEF SizeOK, Exempt
    <3> QED BY <1>19, <2>1, <3>1, SameSize
  <2>2. SizeOK(nd2, Exempt(root, p), 0, p)
    <3>1. Missing(0, p) = 0
      BY <1>11, <1>14 DEF Missing
    <3>2. Len(nd2[p].items) = h /\ nd2[p].leaf
      BY <1>17, <1>20
    <3> QED BY ONLY <1>15, <1>16, <3>1, <3>2 DEF SizeOK, MaxOf, HalfOf
  <2>3. SizeOK(nd2, Exempt(root, p), 0, n)
    <3>1. Missing(0, n) = 0
      BY <1>12 DEF Missing
    <3>2. Len(nd2[n].items) = Len(J) - h /\ nd2[n].leaf
      BY <1>17, <1>20
    <3> QED BY ONLY <1>15, <1>16, <3>1, <3>2 DEF SizeOK, MaxOf, HalfOf
  <2> QED BY <1>19, <2>1, <2>2, <2>3 DEF Sizes
<1>34. TreeOK(nd2, root, op')
  BY ONLY <1>28, <1>31, <1>32, <1>33, Builds
<1>35. Stored(nd2) = Stored(nd1)
  <2>1. Len(nd1[p].items) \in Nat /\ h <= Len(nd1[p].items)
    BY ONLY <1>16, <1>18
  <2> QED BY ONLY <1>16, <1>23, <2>1, SplitStored
<1> QED BY <1>9, <1>11, <1>34, <1>35 DEF TreeInv
-----------------------------------------------------------------------------
(* Reparent: the pages these entries point to get the parent f *)
Reparented(nd, nd2, items, f) ==
    /\ DOMAIN nd2 = DOMAIN nd /\ nd2 \in [DOMAIN nd -> PageType]
    /\ \A q \in DOMAIN nd :
           /\ nd2[q].leaf = nd[q].leaf /\ nd2[q].items = nd[q].items /\ nd2[q].next = nd[q].next
           /\ nd2[q].parent = IF q \in KidSet(items) THEN f ELSE nd[q].parent

LEMMA ReparentIs ==
    ASSUME NEW nd, nd \in [DOMAIN nd -> PageType], NEW items, items \in Entries, NEW f, f \in Nat,
           NEW nd2, nd2 = Reparent(nd, items, f)
    PROVE  Reparented(nd, nd2, items, f)
<1>1. DOMAIN items = 1..Len(items)
  BY DEF Entries
<1>2. nd2 = [q \in DOMAIN nd |-> IF q \in KidSet(items) THEN [nd[q] EXCEPT !.parent = f] ELSE nd[q]]
  BY <1>1 DEF Reparent, KidSet
<1>3. ASSUME NEW q \in DOMAIN nd
      PROVE  /\ nd2[q] \in PageType
             /\ nd2[q].leaf = nd[q].leaf /\ nd2[q].items = nd[q].items /\ nd2[q].next = nd[q].next
             /\ nd2[q].parent = IF q \in KidSet(items) THEN f ELSE nd[q].parent
  <2>1. nd[q] \in PageType
    OBVIOUS
  <2>2. nd2[q] = IF q \in KidSet(items) THEN [nd[q] EXCEPT !.parent = f] ELSE nd[q]
    BY <1>2
  <2> QED BY <2>1, <2>2 DEF PageType
<1>4. DOMAIN nd2 = DOMAIN nd /\ nd2 = [q \in DOMAIN nd |-> nd2[q]]
  BY <1>2
<1>5. nd2 \in [DOMAIN nd -> PageType]
  BY <1>3, <1>4
<1> QED BY <1>3, <1>4, <1>5 DEF Reparented

(* The leaves and their entries are the same *)
LEMMA SameStored ==
    ASSUME NEW nd, NEW nd2,
           \A q : (q \in DOMAIN nd2 /\ nd2[q].leaf) <=> (q \in DOMAIN nd /\ nd[q].leaf),
           \A q \in DOMAIN nd : nd[q].leaf => nd2[q].items = nd[q].items
    PROVE  Stored(nd2) = Stored(nd)
BY DEF Stored

(* The two pages of a split below a new root *)
LEMMA NewRootStep ==
    ASSUME TreeInv, NewRoot
    PROVE  TreeInv' /\ Stored(node') = Stored(node)
<1>1. op.do = "parent"
  BY DEF NewRoot
<1>2. PICK old, new, key : old = op.old /\ new = op.new /\ key = op.key
  OBVIOUS
<1>3. PICK level, lo, hi, bound : /\ Structure(node, root, old, new, level, lo, hi)
                                  /\ old # 0 /\ key = lo[new]
                                  /\ Sizes(node, Exempt(root, old), 0) /\ Bounded(DOMAIN node, lo, bound)
  BY <1>1, <1>2, ParentFacts
<1>4. PICK f : f = NewPage
  OBVIOUS
<1>5. PICK J : J = << <<0, old>>, <<key, new>> >>
  OBVIOUS
<1>6. PICK wide : wide = [q \in DOMAIN node \cup {f} |-> IF q = f THEN Internal(J, None) ELSE node[q]]
  OBVIOUS
<1>7. PICK nd2 : nd2 = Reparent(wide, J, f)
  OBVIOUS
<1>8. /\ node[old].parent = None /\ PageLeft
      /\ node' = nd2 /\ root' = f /\ op' = Idle
  BY <1>2, <1>4, <1>5, <1>6, <1>7 DEF NewRoot
<1>9. f \in Pages \ DOMAIN node /\ f \in Nat /\ f # 0
  BY <1>4, <1>8, NewPageIs, TreeAssumption
<1>10. /\ node \in [DOMAIN node -> PageType] /\ level \in [Nat -> Nat] /\ lo \in [Nat -> Nat] /\ hi \in [Nat -> Nat]
  BY <1>3 DEF Structure, TypesOK
<1>11. \A q \in DOMAIN node : q \in Nat /\ q # 0 /\ q # f
  BY <1>3, <1>9, PageIds DEF Structure
<1>12. old \in DOMAIN node /\ new \in DOMAIN node /\ key \in Nat /\ old \in Nat /\ new \in Nat
  BY <1>3, <1>10, <1>11 DEF Structure, PendingOK
<1>13. J \in Entries /\ Len(J) = 2 /\ J[1] = <<0, old>> /\ J[2] = <<key, new>>
  BY ONLY <1>5, <1>12 DEF Entries
<1>14. KidSet(J) = {old, new}
  <2>1. KidSet(J) = {J[i][2] : i \in {1, 2}}
    <3>1. 1..Len(J) = {1, 2}
      BY ONLY <1>13
    <3> QED BY <3>1 DEF KidSet
  <2>2. J[1][2] = old /\ J[2][2] = new
    BY ONLY <1>13
  <2> QED BY <2>1, <2>2
<1>15. /\ DOMAIN wide = DOMAIN node \cup {f} /\ wide[f] = Internal(J, None)
       /\ \A q \in DOMAIN node : wide[q] = node[q]
  BY <1>6, <1>11
<1>16. wide \in [DOMAIN wide -> PageType]
  <2>1. wide = [q \in DOMAIN wide |-> wide[q]]
    BY <1>6
  <2>2. wide[f] \in PageType
    BY <1>13, <1>15 DEF Internal, PageType
  <2>3. \A q \in DOMAIN wide : wide[q] \in PageType
    BY <1>10, <1>15, <2>2
  <2> QED BY ONLY <2>1, <2>3
<1>17. Reparented(wide, nd2, J, f)
  BY ONLY <1>7, <1>9, <1>13, <1>16, ReparentIs
<1>18. /\ DOMAIN nd2 = DOMAIN node \cup {f} /\ nd2 \in [DOMAIN nd2 -> PageType]
       /\ \A q \in DOMAIN nd2 :
              /\ nd2[q].leaf = wide[q].leaf /\ nd2[q].items = wide[q].items /\ nd2[q].next = wide[q].next
              /\ nd2[q].parent = IF q \in {old, new} THEN f ELSE wide[q].parent
  BY ONLY <1>14, <1>15, <1>17 DEF Reparented
<1>19. /\ nd2[f].leaf = FALSE /\ nd2[f].items = J /\ nd2[f].next = None /\ nd2[f].parent = None
  <2>1. f \in DOMAIN nd2 /\ f \notin {old, new}
    BY <1>11, <1>12, <1>18
  <2>2. /\ wide[f].leaf = FALSE /\ wide[f].items = J /\ wide[f].next = None /\ wide[f].parent = None
    BY ONLY <1>15 DEF Internal
  <2> QED BY <1>18, <2>1, <2>2
<1>20. \A q \in DOMAIN node :
           /\ nd2[q].leaf = node[q].leaf /\ nd2[q].items = node[q].items /\ nd2[q].next = node[q].next
           /\ nd2[q].parent = IF q \in {old, new} THEN f ELSE node[q].parent
  BY <1>15, <1>18
<1>21. RootAdded(node, nd2, f, old, new, key)
  BY <1>5, <1>9, <1>18, <1>19, <1>20 DEF RootAdded
<1>22. PICK level2 : level2 = [level EXCEPT ![f] = level[root] + 1]
  OBVIOUS
<1>23. PICK lo2 : lo2 = [lo EXCEPT ![f] = 0]
  OBVIOUS
<1>24. PICK hi2 : hi2 = [hi EXCEPT ![f] = 0]
  OBVIOUS
<1>25. Structure(nd2, f, 0, 0, level2, lo2, hi2)
  BY ONLY <1>3, <1>8, <1>21, <1>22, <1>23, <1>24, NewRootOK
<1>26. Sizes(nd2, f, 0)
  <2>1. old = root
    <3>1. CASE old # root
      <4>1. old # new
        BY <1>3 DEF Structure, PendingOK
      <4>2. node[old].parent \in DOMAIN node
        BY <1>3, <1>12, <3>1, <4>1 DEF Structure, LinkOK
      <4> QED BY <1>8, <1>11, <4>2, TreeAssumption
    <3> QED BY <3>1
  <2>2. ASSUME NEW q \in DOMAIN node PROVE SizeOK(nd2, f, 0, q)
    <3>1. SizeOK(node, 0, 0, q)
      BY <1>3, <2>1 DEF Sizes, Exempt
    <3>2. SizeOK(node, f, 0, q)
      BY <1>11, <3>1 DEF SizeOK
    <3> QED BY <1>20, <3>2, SameSize
  <2>3. SizeOK(nd2, f, 0, f)
    <3>1. Missing(0, f) = 0 /\ 2 <= InternalMax
      BY <1>9, TreeAssumption DEF Missing
    <3> QED BY ONLY <1>13, <1>19, <3>1, SMTT(40) DEF SizeOK, MaxOf
  <2> QED BY <1>18, <2>2, <2>3 DEF Sizes
<1>27. \E b : Bounded(DOMAIN nd2, lo2, b)
  <2>1. DOMAIN node \subseteq Nat /\ 0 \in Nat
    BY <1>11
  <2>2. \E b : Bounded(DOMAIN node \cup {f}, lo2, b)
    BY ONLY <1>3, <1>9, <1>10, <1>23, <2>1, BoundedMore
  <2> QED BY ONLY <1>18, <2>2
<1>28. OpOK(op', DOMAIN nd2, 0, 0, 0, lo2)
  BY <1>8 DEF OpOK
<1>29. TreeOK(nd2, f, op')
  BY ONLY <1>25, <1>26, <1>27, <1>28, BuildsWhole
<1>30. Stored(nd2) = Stored(node)
  BY <1>11, <1>18, <1>19, <1>20, SameStored
<1> QED BY <1>8, <1>29, <1>30 DEF TreeInv

(* The parent of a split page, with the new page after the old one *)
LEMMA LinkFacts ==
    ASSUME NEW level, NEW lo, NEW hi, NEW old, NEW new, Structure(node, root, old, new, level, lo, hi),
           old # 0, NEW key, key = lo[new], NEW p, p = node[old].parent, p # None,
           NEW J, J = InsertNodeAfter(p, old, key, new)
    PROVE  /\ p \in DOMAIN node /\ ~ node[p].leaf /\ old # root
           /\ J \in Entries /\ Len(J) = Len(node[p].items) + 1
           /\ Structure([node EXCEPT ![p].items = J], root, 0, 0, level, lo, hi)
<1>1. /\ old \in DOMAIN node /\ new \in DOMAIN node /\ old # new /\ key \in Nat /\ new \in Nat
      /\ old # root
  BY PageIds DEF Structure, PendingOK, RootOK
<1>2. LinkOK(node, root, new, old)
  BY <1>1 DEF Structure
<1>3. PICK I : I = node[p].items
  OBVIOUS
<1>4. p \in DOMAIN node /\ ~ node[p].leaf /\ \E i \in 1..Len(I) : I[i][2] = old
  BY <1>1, <1>2, <1>3 DEF LinkOK
<1>5. I \in Entries /\ Len(I) \in Nat
  BY <1>3, <1>4, PageIds DEF Structure
<1>6. PICK j : j = ValueIndex(I, old)
  OBVIOUS
<1>7. j \in 1..Len(I) /\ I[j][2] = old
  <2>1. DOMAIN I = 1..Len(I)
    BY <1>5 DEF Entries
  <2>2. \E i \in DOMAIN I : I[i][2] = old
    BY <1>4, <2>1
  <2>3. j \in DOMAIN I /\ I[j][2] = old
    BY ONLY <1>6, <2>2 DEF ValueIndex
  <2> QED BY ONLY <2>1, <2>3
<1>8. PICK e : e = <<key, new>>
  OBVIOUS
<1>9. e \in Nat \X Nat /\ J = InsertAt(I, j + 1, e) /\ j \in 0..Len(I)
  BY <1>1, <1>3, <1>5, <1>6, <1>7, <1>8 DEF InsertNodeAfter
<1>10. Inserted(I, J, j, e)
  BY ONLY <1>5, <1>9, InsertAtInserts
<1>11. Inserted(I, J, j, <<key, new>>) /\ J \in Entries /\ Len(J) = Len(I) + 1
  BY ONLY <1>8, <1>10 DEF Inserted
<1> PICK nd1 : nd1 = [node EXCEPT ![p].items = J]
  OBVIOUS
<1>12. /\ Structure(node, root, old, new, level, lo, hi) /\ old # 0 /\ key = lo[new]
       /\ p = node[old].parent /\ p # None /\ nd1 = [node EXCEPT ![p].items = J]
  OBVIOUS
<1>13. Structure(nd1, root, 0, 0, level, lo, hi)
  BY ONLY <1>3, <1>7, <1>11, <1>12, LinkNew
<1> QED BY <1>1, <1>3, <1>4, <1>11, <1>13

LEMMA InsertIntoParentStep ==
    ASSUME TreeInv, InsertIntoParent
    PROVE  TreeInv' /\ Stored(node') = Stored(node)
<1>1. op.do = "parent"
  BY DEF InsertIntoParent
<1>2. PICK old, new, key : old = op.old /\ new = op.new /\ key = op.key
  OBVIOUS
<1>3. PICK level, lo, hi, bound : /\ Structure(node, root, old, new, level, lo, hi)
                                  /\ old # 0 /\ key = lo[new]
                                  /\ Sizes(node, Exempt(root, old), 0) /\ Bounded(DOMAIN node, lo, bound)
  BY <1>1, <1>2, ParentFacts
<1>4. PICK p : p = node[old].parent
  OBVIOUS
<1>5. PICK J : J = InsertNodeAfter(p, old, key, new)
  OBVIOUS
<1>6. PICK nd2 : nd2 = [node EXCEPT ![p].items = J]
  OBVIOUS
<1>7. /\ p # None /\ Len(node[p].items) < InternalMax /\ node' = nd2 /\ root' = root /\ op' = Idle
  BY <1>2, <1>4, <1>5, <1>6 DEF InsertIntoParent, Size
<1>8. /\ p \in DOMAIN node /\ ~ node[p].leaf /\ old # root
      /\ J \in Entries /\ Len(J) = Len(node[p].items) + 1
      /\ Structure(nd2, root, 0, 0, level, lo, hi)
  <2>1. p # None
    BY <1>7
  <2>2. /\ p \in DOMAIN node /\ ~ node[p].leaf /\ old # root
        /\ J \in Entries /\ Len(J) = Len(node[p].items) + 1
        /\ Structure([node EXCEPT ![p].items = J], root, 0, 0, level, lo, hi)
    BY ONLY <1>3, <1>4, <1>5, <2>1, LinkFacts
  <2> QED BY ONLY <1>6, <2>2
<1>9. SameBut(node, nd2, p) /\ nd2[p].items = J
  <2>1. p \in DOMAIN node /\ J \in Entries
    BY <1>8
  <2>2. node \in [DOMAIN node -> PageType]
    BY <1>3 DEF Structure, TypesOK
  <2> QED BY ONLY <1>6, <2>1, <2>2, ItemsChange DEF SameBut
<1>10. DOMAIN nd2 = DOMAIN node
  BY <1>9 DEF SameBut
<1>11. Sizes(node, root, 0)
  BY <1>3, <1>8 DEF Exempt
<1>12. Sizes(nd2, root, 0)
  <2>1. ASSUME NEW q \in DOMAIN node, q # p PROVE SizeOK(nd2, root, 0, q)
    BY <1>9, <1>11, <2>1, SameSize DEF Sizes, SameBut
  <2>2. SizeOK(nd2, root, 0, p)
    <3>1. SizeOK(node, root, 0, p) /\ Len(node[p].items) \in Nat /\ p # 0
      BY <1>3, <1>8, <1>11, PageIds DEF Sizes, Structure
    <3>2. Missing(0, p) = 0 /\ InternalMax \in Nat /\ (InternalMax + 1) \div 2 \in Nat
      BY <3>1, SizeBounds DEF Missing
    <3>3. ~ nd2[p].leaf /\ Len(nd2[p].items) = Len(node[p].items) + 1
      BY <1>8, <1>9 DEF SameBut
    <3>4. Len(node[p].items) >= 2 /\ (p # root => Len(node[p].items) >= (InternalMax + 1) \div 2)
      BY <1>8, <3>1, <3>2 DEF SizeOK, HalfOf
    <3> QED BY <1>7, <3>1, <3>2, <3>3, <3>4 DEF SizeOK, MaxOf, HalfOf
  <2> QED BY <1>10, <2>1, <2>2 DEF Sizes
<1>13. OpOK(op', DOMAIN nd2, 0, 0, 0, lo) /\ Bounded(DOMAIN nd2, lo, bound)
  BY <1>3, <1>7, <1>10 DEF OpOK
<1>14. TreeOK(nd2, root, op')
  BY ONLY <1>8, <1>12, <1>13, BuildsWhole
<1>15. Stored(nd2) = Stored(node)
  BY <1>8, <1>9, SameStored DEF SameBut
<1> QED BY <1>7, <1>14, <1>15 DEF TreeInv

LEMMA SplitParentStep ==
    ASSUME TreeInv, SplitParent
    PROVE  TreeInv' /\ Stored(node') = Stored(node)
<1>1. op.do = "parent"
  BY DEF SplitParent
<1>2. PICK old, new, key : old = op.old /\ new = op.new /\ key = op.key
  OBVIOUS
<1>3. PICK level, lo, hi, bound : /\ Structure(node, root, old, new, level, lo, hi)
                                  /\ old # 0 /\ key = lo[new]
                                  /\ Sizes(node, Exempt(root, old), 0) /\ Bounded(DOMAIN node, lo, bound)
  BY <1>1, <1>2, ParentFacts
<1>4. PICK p : p = node[old].parent
  OBVIOUS
<1>5. PICK J : J = InsertNodeAfter(p, old, key, new)
  OBVIOUS
<1>6. PICK nd1 : nd1 = [node EXCEPT ![p].items = J]
  OBVIOUS
<1>7. PICK h : h = GetMinSize(p)
  OBVIOUS
<1>8. PICK A : A = SubSeq(J, 1, h)
  OBVIOUS
<1>9. PICK B : B = SubSeq(J, h + 1, Len(J))
  OBVIOUS
<1>10. PICK n : n = NewPage
  OBVIOUS
<1>11. PICK wide : wide = [q \in DOMAIN node \cup {n} |->
                             CASE q = p -> Internal(A, node[p].parent)
                               [] q = n -> Internal(B, node[p].parent)
                               [] OTHER -> node[q]]
  OBVIOUS
<1>12. PICK nd2 : nd2 = Reparent(wide, B, n)
  OBVIOUS
<1>13. /\ p # None /\ Len(node[p].items) >= InternalMax /\ PageLeft
       /\ node' = nd2 /\ root' = root /\ op' = Parent(p, B[1][1], n)
  <2>1. p = node[op.old].parent /\ J = InsertNodeAfter(p, op.old, op.key, op.new)
    BY <1>2, <1>4, <1>5
  <2>2. p # None /\ Len(node[p].items) >= InternalMax /\ PageLeft /\ root' = root
    BY <2>1 DEF SplitParent, Size
  <2>3. op' = Parent(p, B[1][1], n)
    BY <1>7, <1>9, <1>10, <2>1 DEF SplitParent
  <2>4. node' = nd2
    <3> DEFINE p0 == node[op.old].parent
               J0 == InsertNodeAfter(p0, op.old, op.key, op.new)
               A0 == SubSeq(J0, 1, GetMinSize(p0))
               B0 == SubSeq(J0, GetMinSize(p0) + 1, Len(J0))
               n0 == NewPage
               wide0 == [q \in DOMAIN node \cup {n0} |->
                            CASE q = p0 -> Internal(A0, node[p0].parent)
                              [] q = n0 -> Internal(B0, node[p0].parent)
                              [] OTHER -> node[q]]
    <3>1. node' = Reparent(wide0, B0, n0)
      BY Zenon DEF SplitParent
    <3>2. p0 = p
      BY <2>1
    <3> HIDE DEF p0
    <3>3. J0 = J
      BY <2>1, <3>2
    <3> HIDE DEF J0
    <3>4. A0 = A /\ B0 = B /\ n0 = n
      BY <1>7, <1>8, <1>9, <1>10, <3>2, <3>3
    <3> HIDE DEF A0, B0, n0
    <3>5. wide0 = wide
      BY ONLY <1>11, <3>2, <3>4
    <3> HIDE DEF wide0
    <3> QED BY <1>12, <3>1, <3>4, <3>5
  <2> QED BY <2>2, <2>3, <2>4
<1>14. /\ p \in DOMAIN node /\ ~ node[p].leaf /\ old # root
       /\ J \in Entries /\ Len(J) = Len(node[p].items) + 1
       /\ Structure(nd1, root, 0, 0, level, lo, hi)
  <2>1. p # None
    BY <1>13
  <2>2. /\ p \in DOMAIN node /\ ~ node[p].leaf /\ old # root
        /\ J \in Entries /\ Len(J) = Len(node[p].items) + 1
        /\ Structure([node EXCEPT ![p].items = J], root, 0, 0, level, lo, hi)
    BY ONLY <1>3, <1>4, <1>5, <2>1, LinkFacts
  <2> QED BY ONLY <1>6, <2>2
<1>15. n \in Pages \ DOMAIN node /\ n \in Nat /\ n # 0
  BY <1>10, <1>13, NewPageIs, TreeAssumption
<1>16. /\ node \in [DOMAIN node -> PageType] /\ level \in [Nat -> Nat] /\ lo \in [Nat -> Nat] /\ hi \in [Nat -> Nat]
  BY <1>3 DEF Structure, TypesOK
<1>17. Sizes(node, root, 0)
  BY <1>3, <1>14 DEF Exempt
<1>18. \A q \in DOMAIN node : q \in Nat /\ q # 0 /\ q # n /\ SizeOK(node, root, 0, q)
  BY <1>3, <1>15, <1>17, PageIds DEF Structure, Sizes
<1>19. h = (InternalMax + 1) \div 2 /\ Len(J) = InternalMax + 1
  <2>1. h = (InternalMax + 1) \div 2
    BY <1>7, <1>14 DEF GetMinSize
  <2>2. Len(node[p].items) <= InternalMax /\ Len(node[p].items) \in Nat
    BY <1>3, <1>14, <1>18, PageIds DEF SizeOK, MaxOf, Structure
  <2>3. InternalMax \in Nat /\ Len(node[p].items) >= InternalMax /\ Len(J) = Len(node[p].items) + 1
    BY <1>13, <1>14, SizeBounds
  <2> QED BY ONLY <2>1, <2>2, <2>3
<1>20. /\ h \in Nat /\ 2 <= h /\ 1 <= h /\ h < Len(J) /\ h \in 0..Len(J) /\ Len(J) - h >= h
       /\ Len(J) - h <= InternalMax /\ h <= InternalMax /\ Len(J) \in Nat
  BY <1>19, SizeBounds
<1>21. /\ A \in Entries /\ Len(A) = h /\ \A i \in 1..h : A[i] = J[i]
       /\ B \in Entries /\ Len(B) = Len(J) - h /\ \A i \in 1..(Len(J) - h) : B[i] = J[i + h]
  <2>1. CutInto(J, A, B, h)
    BY ONLY <1>8, <1>9, <1>14, <1>20, CutEntries
  <2> QED BY ONLY <2>1 DEF CutInto
<1>22. /\ DOMAIN nd1 = DOMAIN node /\ nd1 \in [DOMAIN node -> PageType] /\ nd1[p].items = J
       /\ \A q \in DOMAIN node : /\ nd1[q].leaf = node[q].leaf /\ nd1[q].next = node[q].next
                                 /\ nd1[q].parent = node[q].parent
                                 /\ q # p => nd1[q].items = node[q].items
  <2>1. p \in DOMAIN node /\ J \in Entries
    BY <1>14
  <2> QED BY ONLY <1>6, <1>16, <2>1, ItemsChange
<1>23. /\ DOMAIN wide = DOMAIN node \cup {n}
       /\ wide[p] = Internal(A, node[p].parent)
       /\ wide[n] = Internal(B, node[p].parent)
       /\ \A q \in DOMAIN node : q # p => wide[q] = node[q]
  BY <1>11, <1>14, <1>18
<1>24. /\ wide[p].leaf = FALSE /\ wide[p].items = A /\ wide[p].next = None /\ wide[p].parent = node[p].parent
       /\ wide[n].leaf = FALSE /\ wide[n].items = B /\ wide[n].next = None /\ wide[n].parent = node[p].parent
  BY ONLY <1>23 DEF Internal
<1>25. node[p].leaf = FALSE
  BY <1>14, <1>16 DEF PageType
<1>26. wide \in [DOMAIN wide -> PageType]
  <2>1. wide = [q \in DOMAIN wide |-> wide[q]]
    BY <1>11
  <2>2. node[p] \in PageType
    BY <1>14, <1>16
  <2>3. wide[p] \in PageType /\ wide[n] \in PageType
    BY <1>15, <1>21, <1>23, <2>2 DEF Internal, PageType
  <2>4. \A q \in DOMAIN wide : wide[q] \in PageType
    BY <1>16, <1>23, <2>3
  <2> QED BY ONLY <2>1, <2>4
<1>27. Reparented(wide, nd2, B, n)
  BY ONLY <1>12, <1>15, <1>21, <1>26, ReparentIs
<1>28. /\ DOMAIN nd2 = DOMAIN node \cup {n} /\ nd2 \in [DOMAIN nd2 -> PageType]
       /\ \A q \in DOMAIN nd2 :
              /\ nd2[q].leaf = wide[q].leaf /\ nd2[q].items = wide[q].items /\ nd2[q].next = wide[q].next
              /\ nd2[q].parent = IF q \in KidSet(B) THEN n ELSE wide[q].parent
  BY ONLY <1>23, <1>27 DEF Reparented
<1>29. n \notin KidSet(B)
  <2>1. SUFFICES ASSUME NEW i \in 1..(Len(J) - h), B[i][2] = n PROVE FALSE
    BY <1>21 DEF KidSet
  <2>2. i + h \in 1..Len(J) /\ B[i] = J[i + h]
    BY <1>20, <1>21
  <2>3. p \in DOMAIN nd1 /\ ~ nd1[p].leaf /\ i + h \in 1..Len(nd1[p].items) /\ n = nd1[p].items[i + h][2]
    BY <1>14, <1>22, <2>1, <2>2
  <2>4. n \in DOMAIN nd1
    BY ONLY <1>14, <2>3, KidFacts
  <2> QED BY <1>15, <1>22, <2>4
<1>30. SplitAt(nd1, nd2, p, n, h)
  <2>1. n \in Pages \ DOMAIN nd1 /\ p \in DOMAIN nd1 /\ DOMAIN nd2 = DOMAIN nd1 \cup {n}
    BY <1>14, <1>15, <1>22, <1>28
  <2>2. p \in DOMAIN nd2 /\ n \in DOMAIN nd2
    BY <1>14, <1>28
  <2>3. /\ nd2[p].leaf = FALSE /\ nd2[p].items = A /\ nd2[p].next = None
        /\ nd2[n].leaf = FALSE /\ nd2[n].items = B /\ nd2[n].next = None /\ nd2[n].parent = node[p].parent
    BY <1>24, <1>28, <1>29, <2>2
  <2>4. nd1[p].leaf = FALSE /\ nd1[p].parent = node[p].parent
    BY <1>14, <1>22, <1>25
  <2>5. /\ Len(nd2[p].items) = h /\ Len(nd2[n].items) = Len(nd1[p].items) - h
        /\ \A i \in 1..h : nd2[p].items[i] = nd1[p].items[i]
        /\ \A i \in 1..(Len(nd1[p].items) - h) : nd2[n].items[i] = nd1[p].items[i + h]
    BY ONLY <1>21, <1>22, <2>3
  <2>6. ASSUME NEW q \in DOMAIN nd1
        PROVE  /\ nd2[q].leaf = nd1[q].leaf
               /\ q # p => nd2[q].items = nd1[q].items /\ nd2[q].next = nd1[q].next
               /\ nd2[q].parent = IF q \in KidSet(B) THEN n ELSE nd1[q].parent
    <3>1. q \in DOMAIN node /\ q \in DOMAIN nd2
      BY <1>22, <1>28
    <3>2. CASE q = p
      BY <1>22, <1>24, <1>28, <2>3, <2>4, <3>1, <3>2
    <3>3. CASE q # p
      BY <1>22, <1>23, <1>28, <3>1, <3>3
    <3> QED BY <3>2, <3>3
  <2> QED BY ONLY <1>28, <2>1, <2>3, <2>4, <2>5, <2>6 DEF SplitAt
<1>31. PICK key2 : key2 = J[h + 1][1]
  OBVIOUS
<1>32. PICK level2 : level2 = [level EXCEPT ![n] = level[p]]
  OBVIOUS
<1>33. PICK lo2 : lo2 = [lo EXCEPT ![n] = key2]
  OBVIOUS
<1>34. PICK hi2 : hi2 = [[hi EXCEPT ![p] = key2] EXCEPT ![n] = hi[p]]
  OBVIOUS
<1>35. Structure(nd2, root, p, n, level2, lo2, hi2)
  <2>1. key2 = nd1[p].items[h + 1][1] /\ h < Len(nd1[p].items)
    BY ONLY <1>20, <1>22, <1>31
  <2> QED BY ONLY <1>14, <1>20, <1>30, <1>32, <1>33, <1>34, <2>1, SplitOK
<1>36. B[1][1] = key2 /\ key2 \in Nat
  <2>1. 1 \in 1..(Len(J) - h) /\ h + 1 = 1 + h /\ h + 1 \in 1..Len(J)
    BY ONLY <1>20
  <2>2. B[1] = J[h + 1]
    BY ONLY <1>21, <2>1
  <2>3. J[h + 1] \in Nat \X Nat
    BY ONLY <1>14, <2>1 DEF Entries
  <2> QED BY ONLY <1>31, <2>2, <2>3
<1>37. lo2[n] = key2
  BY ONLY <1>15, <1>16, <1>33
<1>38. OpOK(op', DOMAIN nd2, p, n, 0, lo2)
  BY <1>13, <1>14, <1>18, <1>36, <1>37 DEF OpOK
<1>39. \E b : Bounded(DOMAIN nd2, lo2, b)
  <2>1. DOMAIN node \subseteq Nat
    BY <1>18
  <2>2. \E b : Bounded(DOMAIN node \cup {n}, lo2, b)
    BY ONLY <1>3, <1>15, <1>16, <1>33, <1>36, <2>1, BoundedMore
  <2> QED BY ONLY <1>28, <2>2
<1>40. p \in DOMAIN nd2 /\ n \in DOMAIN nd2 /\ \A q \in DOMAIN node : q \in DOMAIN nd2
  BY <1>14, <1>28
<1>41. Sizes(nd2, Exempt(root, p), 0)
  <2>1. ASSUME NEW q \in DOMAIN node, q # p PROVE SizeOK(nd2, Exempt(root, p), 0, q)
    <3>1. SizeOK(node, Exempt(root, p), 0, q)
      BY <1>18, <2>1 DEF SizeOK, Exempt
    <3>2. nd2[q].leaf = node[q].leaf /\ nd2[q].items = node[q].items
      BY <1>23, <1>28, <1>40, <2>1
    <3> QED BY <3>1, <3>2, SameSize
  <2>2. SizeOK(nd2, Exempt(root, p), 0, p)
    <3>1. Missing(0, p) = 0
      BY <1>14, <1>18 DEF Missing
    <3>2. Len(nd2[p].items) = h /\ ~ nd2[p].leaf
      BY <1>21, <1>24, <1>28, <1>40
    <3> QED BY ONLY <1>19, <1>20, <3>1, <3>2 DEF SizeOK, MaxOf, HalfOf
  <2>3. SizeOK(nd2, Exempt(root, p), 0, n)
    <3>1. Missing(0, n) = 0
      BY <1>15 DEF Missing
    <3>2. Len(nd2[n].items) = Len(J) - h /\ ~ nd2[n].leaf
      BY <1>21, <1>24, <1>28, <1>40
    <3> QED BY ONLY <1>19, <1>20, <3>1, <3>2 DEF SizeOK, MaxOf, HalfOf
  <2> QED BY <1>28, <2>1, <2>2, <2>3 DEF Sizes
<1>42. TreeOK(nd2, root, op')
  BY ONLY <1>35, <1>38, <1>39, <1>41, Builds
<1>43. Stored(nd2) = Stored(node)
  <2>1. ASSUME NEW q PROVE (q \in DOMAIN nd2 /\ nd2[q].leaf) <=> (q \in DOMAIN node /\ node[q].leaf)
    <3>1. CASE q = p \/ q = n
      BY <1>14, <1>15, <1>24, <1>28, <3>1
    <3>2. CASE q # p /\ q # n
      BY <1>23, <1>28, <3>2
    <3> QED BY <3>1, <3>2
  <2>2. ASSUME NEW q \in DOMAIN node, node[q].leaf PROVE nd2[q].items = node[q].items
    BY <1>14, <1>23, <1>28, <1>40, <2>2
  <2> QED BY <2>1, <2>2, SameStored
<1> QED BY <1>13, <1>42, <1>43 DEF TreeInv
-----------------------------------------------------------------------------
(* Two siblings' entries together *)
Joined(A, B, W) ==
    /\ W \in Entries /\ Len(W) = Len(A) + Len(B)
    /\ \A i \in 1..Len(A) : W[i] = A[i]
    /\ \A i \in 1..Len(B) : W[Len(A) + i] = B[i]

LEMMA ConcatJoins ==
    ASSUME NEW A, A \in Entries, NEW B, B \in Entries, NEW W, W = A \o B
    PROVE  Joined(A, B, W)
<1>1. PICK S : S = Nat \X Nat
  OBVIOUS
<1>2. A \in Seq(S) /\ B \in Seq(S) /\ W = A \o B
  BY <1>1 DEF Entries
<1>3. W \in Seq(S) /\ Len(W) = Len(A) + Len(B)
  BY ONLY <1>2, ConcatProperties
<1>4. \A i \in 1..(Len(A) + Len(B)) : W[i] = IF i <= Len(A) THEN A[i] ELSE B[i - Len(A)]
  BY ONLY <1>2, ConcatProperties
<1>5. PICK a \in Nat : a = Len(A)
  BY <1>2
<1>6. PICK b \in Nat : b = Len(B)
  BY <1>2
<1>7. ASSUME NEW i \in 1..a PROVE W[i] = A[i]
  <2>1. i \in 1..(Len(A) + Len(B)) /\ i <= Len(A)
    BY ONLY <1>5, <1>6, <1>7
  <2> QED BY ONLY <1>4, <2>1
<1>8. ASSUME NEW i \in 1..b PROVE W[a + i] = B[i]
  <2>1. a + i \in 1..(Len(A) + Len(B)) /\ ~ (a + i <= Len(A)) /\ a + i - Len(A) = i
    BY ONLY <1>5, <1>6, <1>8
  <2>2. W[a + i] = B[a + i - Len(A)]
    BY ONLY <1>4, <2>1
  <2> QED BY ONLY <2>1, <2>2
<1> QED BY ONLY <1>1, <1>3, <1>5, <1>6, <1>7, <1>8 DEF Joined, Entries

(* Each entry is one of the first page's or one of the second's *)
JoinedAt(A, B, W, a, b) ==
    /\ Len(W) = a + b
    /\ \A i \in 1..a : i \in 1..(a + b) /\ W[i] = A[i]
    /\ \A i \in 1..b : a + i \in 1..(a + b) /\ W[a + i] = B[i]
    /\ \A i \in 1..(a + b) : i \in 1..a \/ \E j \in 1..b : i = a + j

LEMMA JoinedPlaces ==
    ASSUME NEW A, NEW B, NEW W, Joined(A, B, W), NEW a, a = Len(A), a \in Nat, NEW b, b = Len(B), b \in Nat
    PROVE  JoinedAt(A, B, W, a, b)
<1>1. /\ Len(W) = a + b
      /\ \A i \in 1..a : W[i] = A[i]
      /\ \A i \in 1..b : W[a + i] = B[i]
  BY DEF Joined
<1>2. \A i \in 1..a : i \in 1..(a + b)
  OBVIOUS
<1>3. \A i \in 1..b : a + i \in 1..(a + b)
  OBVIOUS
<1>4. ASSUME NEW i \in 1..(a + b) PROVE i \in 1..a \/ \E j \in 1..b : i = a + j
  <2>1. i \in 1..a \/ (i - a \in 1..b /\ i = a + (i - a))
    OBVIOUS
  <2> QED BY <2>1
<1> QED BY <1>1, <1>2, <1>3, <1>4 DEF JoinedAt

LEMMA JoinedHas ==
    ASSUME NEW A, A \in Entries, NEW B, B \in Entries, NEW W, Joined(A, B, W), NEW x
    PROVE  HasIn(W, x) <=> HasIn(A, x) \/ HasIn(B, x)
<1>1. PICK a \in Nat : a = Len(A)
  BY DEF Entries
<1>2. PICK b \in Nat : b = Len(B)
  BY DEF Entries
<1>3. /\ Len(W) = a + b
      /\ \A i \in 1..a : i \in 1..(a + b) /\ W[i] = A[i]
      /\ \A i \in 1..b : a + i \in 1..(a + b) /\ W[a + i] = B[i]
      /\ \A i \in 1..(a + b) : i \in 1..a \/ \E j \in 1..b : i = a + j
  <2>1. JoinedAt(A, B, W, a, b)
    BY <1>1, <1>2, JoinedPlaces
  <2> QED BY ONLY <2>1 DEF JoinedAt
<1>4. HasIn(A, x) => HasIn(W, x)
  BY ONLY <1>1, <1>3 DEF HasIn
<1>5. HasIn(B, x) => HasIn(W, x)
  <2>1. SUFFICES ASSUME NEW i \in 1..b, B[i][1] = x PROVE HasIn(W, x)
    BY <1>2 DEF HasIn
  <2>2. a + i \in 1..(a + b) /\ W[a + i][1] = x
    BY ONLY <1>3, <2>1
  <2> QED BY ONLY <1>3, <2>2 DEF HasIn
<1>6. HasIn(W, x) => HasIn(A, x) \/ HasIn(B, x)
  <2>1. SUFFICES ASSUME NEW i \in 1..(a + b), W[i][1] = x PROVE HasIn(A, x) \/ HasIn(B, x)
    BY <1>3 DEF HasIn
  <2>2. CASE i \in 1..a
    BY ONLY <1>1, <1>3, <2>1, <2>2 DEF HasIn
  <2>3. CASE \E j \in 1..b : i = a + j
    <3>1. PICK j \in 1..b : i = a + j
      BY <2>3
    <3>2. B[j][1] = x
      BY ONLY <1>3, <2>1, <3>1
    <3> QED BY ONLY <1>2, <3>2 DEF HasIn
  <2> QED BY ONLY <1>3, <2>1, <2>2, <2>3
<1> QED BY <1>4, <1>5, <1>6

LEMMA JoinedKids ==
    ASSUME NEW A, A \in Entries, NEW B, B \in Entries, NEW W, Joined(A, B, W)
    PROVE  KidSet(W) = KidSet(A) \cup KidSet(B)
<1>1. PICK a \in Nat : a = Len(A)
  BY DEF Entries
<1>2. PICK b \in Nat : b = Len(B)
  BY DEF Entries
<1>3. /\ Len(W) = a + b
      /\ \A i \in 1..a : i \in 1..(a + b) /\ W[i] = A[i]
      /\ \A i \in 1..b : a + i \in 1..(a + b) /\ W[a + i] = B[i]
      /\ \A i \in 1..(a + b) : i \in 1..a \/ \E j \in 1..b : i = a + j
  <2>1. JoinedAt(A, B, W, a, b)
    BY <1>1, <1>2, JoinedPlaces
  <2> QED BY ONLY <2>1 DEF JoinedAt
<1>4. KidSet(A) \subseteq KidSet(W)
  BY ONLY <1>1, <1>3 DEF KidSet
<1>5. KidSet(B) \subseteq KidSet(W)
  <2>1. SUFFICES ASSUME NEW i \in 1..b PROVE B[i][2] \in KidSet(W)
    BY <1>2 DEF KidSet
  <2>2. a + i \in 1..(a + b) /\ W[a + i][2] = B[i][2]
    BY ONLY <1>3, <2>1
  <2> QED BY ONLY <1>3, <2>2 DEF KidSet
<1>6. KidSet(W) \subseteq KidSet(A) \cup KidSet(B)
  <2>1. SUFFICES ASSUME NEW i \in 1..(a + b) PROVE W[i][2] \in KidSet(A) \cup KidSet(B)
    BY <1>3 DEF KidSet
  <2>2. CASE i \in 1..a
    BY ONLY <1>1, <1>3, <2>2 DEF KidSet
  <2>3. CASE \E j \in 1..b : i = a + j
    <3>1. PICK j \in 1..b : i = a + j
      BY <2>3
    <3>2. B[j][2] = W[i][2]
      BY ONLY <1>3, <3>1
    <3> QED BY ONLY <1>2, <3>2 DEF KidSet
  <2> QED BY ONLY <1>3, <2>1, <2>2, <2>3
<1> QED BY <1>4, <1>5, <1>6

LEMMA JoinedLeaf ==
    ASSUME NEW A, A \in Entries, NEW B, B \in Entries, NEW W, Joined(A, B, W),
           NEW low \in Nat, NEW mid \in Nat, NEW high \in Nat, mid # 0, low < mid, Below(mid, high),
           LeafItems(A, low, mid), LeafItems(B, mid, high)
    PROVE  LeafItems(W, low, high)
<1>1. PICK a \in Nat : a = Len(A)
  BY DEF Entries
<1>2. PICK b \in Nat : b = Len(B)
  BY DEF Entries
<1>3. /\ Len(W) = a + b
      /\ \A i \in 1..a : i \in 1..(a + b) /\ W[i] = A[i]
      /\ \A i \in 1..b : a + i \in 1..(a + b) /\ W[a + i] = B[i]
      /\ \A i \in 1..(a + b) : i \in 1..a \/ \E j \in 1..b : i = a + j
  <2>1. JoinedAt(A, B, W, a, b)
    BY <1>1, <1>2, JoinedPlaces
  <2> QED BY ONLY <2>1 DEF JoinedAt
<1>4. /\ \A i \in 1..a : /\ A[i][1] \in Keys /\ A[i][1] \in Nat /\ A[i][2] = Rid[A[i][1]]
                         /\ low <= A[i][1] /\ A[i][1] < mid
      /\ \A i, j \in 1..a : i < j => A[i][1] < A[j][1]
  BY <1>1, TreeAssumption DEF LeafItems, Below
<1>5. /\ \A i \in 1..b : /\ B[i][1] \in Keys /\ B[i][1] \in Nat /\ B[i][2] = Rid[B[i][1]]
                         /\ mid <= B[i][1] /\ Below(B[i][1], high)
      /\ \A i, j \in 1..b : i < j => B[i][1] < B[j][1]
  BY <1>2, TreeAssumption DEF LeafItems
<1>6. ASSUME NEW i \in 1..(a + b)
      PROVE  /\ W[i][1] \in Keys /\ W[i][2] = Rid[W[i][1]] /\ low <= W[i][1] /\ Below(W[i][1], high)
  <2>1. CASE i \in 1..a
    <3>1. W[i] = A[i] /\ Below(A[i][1], high)
      BY <1>3, <1>4, <2>1 DEF Below
    <3> QED BY <1>4, <2>1, <3>1
  <2>2. CASE \E j \in 1..b : i = a + j
    <3>1. PICK j \in 1..b : i = a + j
      BY <2>2
    <3>2. W[i] = B[j] /\ low <= B[j][1]
      BY <1>3, <1>5, <3>1
    <3> QED BY <1>5, <3>2
  <2> QED BY <1>3, <2>1, <2>2
<1>7. ASSUME NEW i \in 1..(a + b), NEW j \in 1..(a + b), i < j PROVE W[i][1] < W[j][1]
  <2>1. CASE j \in 1..a
    <3>1. i \in 1..a
      BY <1>1, <1>7, <2>1
    <3> QED BY <1>3, <1>4, <1>7, <2>1, <3>1
  <2>2. CASE \E m \in 1..b : j = a + m
    <3>1. PICK m \in 1..b : j = a + m
      BY <2>2
    <3>2. W[j] = B[m] /\ mid <= B[m][1] /\ B[m][1] \in Nat
      BY <1>3, <1>5, <3>1
    <3>3. CASE i \in 1..a
      <4>1. W[i] = A[i] /\ A[i][1] < mid /\ A[i][1] \in Nat
        BY <1>3, <1>4, <3>3
      <4> QED BY <3>2, <4>1
    <3>4. CASE \E e \in 1..b : i = a + e
      <4>1. PICK e \in 1..b : i = a + e
        BY <3>4
      <4>2. e < m /\ W[i] = B[e]
        BY <1>1, <1>3, <1>7, <3>1, <4>1
      <4> QED BY <1>5, <3>2, <4>2
    <3> QED BY <1>3, <3>3, <3>4
  <2> QED BY <1>3, <2>1, <2>2
<1> QED BY ONLY <1>3, <1>6, <1>7 DEF LeafItems

(* The ends of the children's intervals *)
JoinedEnds(A, B, W, a, b, low, mid, high) ==
    /\ \A i \in 1..a : LowAt(W, low, i) = LowAt(A, low, i) /\ HighAt(W, high, i) = HighAt(A, mid, i)
    /\ \A i \in 1..b : LowAt(W, low, a + i) = LowAt(B, mid, i) /\ HighAt(W, high, a + i) = HighAt(B, high, i)

LEMMA JoinedEndsAre ==
    ASSUME NEW A, NEW B, NEW W, NEW a \in Nat, NEW b \in Nat, a = Len(A), b = Len(B), a >= 1, b >= 1,
           JoinedAt(A, B, W, a, b), NEW low, NEW mid, NEW high, B[1][1] = mid
    PROVE  JoinedEnds(A, B, W, a, b, low, mid, high)
<1>1. /\ Len(W) = a + b
      /\ \A i \in 1..a : i \in 1..(a + b) /\ W[i] = A[i]
      /\ \A i \in 1..b : a + i \in 1..(a + b) /\ W[a + i] = B[i]
  BY DEF JoinedAt
<1>2. ASSUME NEW i \in 1..a
      PROVE  LowAt(W, low, i) = LowAt(A, low, i) /\ HighAt(W, high, i) = HighAt(A, mid, i)
  <2>1. LowAt(W, low, i) = LowAt(A, low, i)
    BY ONLY <1>1, <1>2 DEF LowAt
  <2>2. i # a + b
    OBVIOUS
  <2>3. CASE i = a
    <3>1. 1 \in 1..b
      OBVIOUS
    <3>2. W[a + 1] = B[1]
      BY ONLY <1>1, <3>1
    <3> QED BY <1>1, <2>1, <2>2, <2>3, <3>2 DEF HighAt
  <2>4. CASE i # a
    <3>1. i + 1 \in 1..a
      BY <2>4
    <3>2. W[i + 1] = A[i + 1]
      BY ONLY <1>1, <3>1
    <3> QED BY <1>1, <2>1, <2>2, <2>4, <3>2 DEF HighAt
  <2> QED BY <2>3, <2>4
<1>3. ASSUME NEW i \in 1..b
      PROVE  LowAt(W, low, a + i) = LowAt(B, mid, i) /\ HighAt(W, high, a + i) = HighAt(B, high, i)
  <2>1. a + i # 1 /\ (a + i = a + b <=> i = b)
    OBVIOUS
  <2>2. LowAt(W, low, a + i) = LowAt(B, mid, i)
    BY <1>1, <2>1 DEF LowAt
  <2>3. CASE i = b
    BY <1>1, <2>1, <2>2, <2>3 DEF HighAt
  <2>4. CASE i # b
    <3>1. i + 1 \in 1..b /\ (a + i) + 1 = a + (i + 1)
      BY <2>4
    <3>2. W[(a + i) + 1] = B[i + 1]
      <4>1. W[a + (i + 1)] = B[i + 1]
        BY ONLY <1>1, <3>1
      <4> QED BY ONLY <3>1, <4>1
    <3> QED BY <1>1, <2>1, <2>2, <2>4, <3>2 DEF HighAt
  <2> QED BY <2>3, <2>4
<1> QED BY <1>2, <1>3 DEF JoinedEnds

LEMMA JoinedInner ==
    ASSUME NEW A, A \in Entries, NEW B, B \in Entries, NEW W, Joined(A, B, W),
           NEW low \in Nat, NEW mid \in Keys, NEW high \in Nat, low < mid, Below(mid, high),
           InnerItems(A, low, mid), InnerItems(B, mid, high), B[1][1] = mid
    PROVE  InnerItems(W, low, high)
<1>0. mid \in Nat /\ mid # 0
  BY TreeAssumption
<1>1. PICK a \in Nat : a = Len(A)
  BY DEF Entries
<1>2. PICK b \in Nat : b = Len(B)
  BY DEF Entries
<1>3. /\ Len(W) = a + b
      /\ \A i \in 1..a : i \in 1..(a + b) /\ W[i] = A[i]
      /\ \A i \in 1..b : a + i \in 1..(a + b) /\ W[a + i] = B[i]
      /\ \A i \in 1..(a + b) : i \in 1..a \/ \E j \in 1..b : i = a + j
  <2>1. JoinedAt(A, B, W, a, b)
    BY <1>1, <1>2, JoinedPlaces
  <2> QED BY ONLY <2>1 DEF JoinedAt
<1>4. /\ a >= 1
      /\ \A i \in 1..a : A[i][1] \in Keys \cup {0}
      /\ \A i \in 2..a : A[i][1] \in Keys /\ A[i][1] \in Nat /\ low < A[i][1] /\ A[i][1] < mid
      /\ \A i, j \in 2..a : i < j => A[i][1] < A[j][1]
  BY <1>0, <1>1, TreeAssumption DEF InnerItems, Below
<1>5. /\ b >= 1
      /\ \A i \in 2..b : B[i][1] \in Keys /\ B[i][1] \in Nat /\ mid < B[i][1] /\ Below(B[i][1], high)
      /\ \A i, j \in 2..b : i < j => B[i][1] < B[j][1]
  BY <1>2, TreeAssumption DEF InnerItems
<1>6. /\ \A i \in 1..b : B[i][1] \in Keys /\ B[i][1] \in Nat /\ mid <= B[i][1] /\ Below(B[i][1], high)
      /\ \A i, j \in 1..b : i < j => B[i][1] < B[j][1]
  <2>1. \A i \in 1..b : i = 1 \/ i \in 2..b
    OBVIOUS
  <2>2. \A i, j \in 1..b : i < j => j \in 2..b
    OBVIOUS
  <2>3. \A i \in 1..b : B[i][1] \in Keys /\ B[i][1] \in Nat /\ mid <= B[i][1] /\ Below(B[i][1], high)
    BY <1>0, <1>5, <2>1
  <2> QED BY <1>5, <2>1, <2>2, <2>3
<1>7. \A i \in 1..(a + b) : W[i][1] \in Keys \cup {0}
  BY <1>3, <1>4, <1>6, ZenonT(40)
<1>8. \A i \in 2..(a + b) : i \in 1..(a + b) /\ (i \in 1..a => i \in 2..a)
  OBVIOUS
<1>9. ASSUME NEW i \in 2..(a + b) PROVE W[i][1] \in Keys /\ low < W[i][1] /\ Below(W[i][1], high)
  <2>1. CASE i \in 1..a
    <3>1. W[i] = A[i] /\ i \in 2..a
      BY <1>3, <1>8, <2>1
    <3>2. Below(A[i][1], high)
      BY <1>0, <1>4, <3>1 DEF Below
    <3> QED BY <1>4, <3>1, <3>2
  <2>2. CASE \E j \in 1..b : i = a + j
    <3>1. PICK j \in 1..b : i = a + j
      BY <2>2
    <3>2. W[i] = B[j] /\ low < B[j][1]
      BY <1>0, <1>3, <1>6, <3>1
    <3> QED BY <1>6, <3>2
  <2> QED BY <1>3, <1>8, <2>1, <2>2
<1>10. ASSUME NEW i \in 2..(a + b), NEW j \in 2..(a + b), i < j PROVE W[i][1] < W[j][1]
  <2>1. CASE j \in 1..a
    <3>1. i \in 2..a /\ j \in 2..a /\ i \in 1..a
      BY <1>10, <2>1
    <3> QED BY <1>3, <1>4, <1>10, <2>1, <3>1
  <2>2. CASE \E m \in 1..b : j = a + m
    <3>1. PICK m \in 1..b : j = a + m
      BY <2>2
    <3>2. W[j] = B[m] /\ mid <= B[m][1] /\ B[m][1] \in Nat
      BY <1>3, <1>6, <3>1
    <3>3. CASE i \in 1..a
      <4>1. W[i] = A[i] /\ A[i][1] < mid /\ A[i][1] \in Nat
        BY <1>3, <1>4, <1>8, <3>3
      <4> QED BY <1>0, <3>2, <4>1
    <3>4. CASE \E e \in 1..b : i = a + e
      <4>1. PICK e \in 1..b : i = a + e
        BY <3>4
      <4>2. e < m /\ W[i] = B[e]
        BY <1>3, <1>10, <3>1, <4>1
      <4> QED BY <1>6, <3>2, <4>2
    <3> QED BY <1>3, <1>8, <3>3, <3>4
  <2> QED BY <1>3, <1>8, <2>1, <2>2
<1>11. a + b >= 1
  BY <1>4
<1> QED BY ONLY <1>3, <1>7, <1>9, <1>10, <1>11 DEF InnerItems

LEMMA JoinedChildren ==
    ASSUME NEW A, A \in Entries, NEW B, B \in Entries, NEW W, Joined(A, B, W),
           Len(A) >= 1, Len(B) >= 1, NEW low, NEW mid, NEW high, B[1][1] = mid,
           NEW D, NEW level, NEW lo, NEW hi, NEW lev,
           Kids(D, level, lo, hi, 0, 0, A, low, mid, lev), Kids(D, level, lo, hi, 0, 0, B, mid, high, lev)
    PROVE  Kids(D, level, lo, hi, 0, 0, W, low, high, lev)
<1>1. PICK a \in Nat : a = Len(A)
  BY DEF Entries
<1>2. PICK b \in Nat : b = Len(B)
  BY DEF Entries
<1>3. JoinedAt(A, B, W, a, b)
  BY <1>1, <1>2, JoinedPlaces
<1>4. JoinedEnds(A, B, W, a, b, low, mid, high)
  BY <1>1, <1>2, <1>3, JoinedEndsAre
<1>5. /\ Len(W) = a + b
      /\ \A i \in 1..a : i \in 1..(a + b) /\ W[i] = A[i]
      /\ \A i \in 1..b : a + i \in 1..(a + b) /\ W[a + i] = B[i]
      /\ \A i \in 1..(a + b) : i \in 1..a \/ \E j \in 1..b : i = a + j
  BY ONLY <1>3 DEF JoinedAt
<1>6. ASSUME NEW i \in 1..(a + b)
      PROVE  /\ W[i][2] \in D /\ level[W[i][2]] + 1 = lev
             /\ lo[W[i][2]] = LowAt(W, low, i)
             /\ Top(hi, 0, 0, W[i][2]) = HighAt(W, high, i)
  <2>1. CASE i \in 1..a
    <3>1. /\ A[i][2] \in D /\ level[A[i][2]] + 1 = lev /\ lo[A[i][2]] = LowAt(A, low, i)
          /\ Top(hi, 0, 0, A[i][2]) = HighAt(A, mid, i)
      BY <1>1, <2>1 DEF Kids
    <3>2. W[i] = A[i] /\ LowAt(W, low, i) = LowAt(A, low, i) /\ HighAt(W, high, i) = HighAt(A, mid, i)
      BY ONLY <1>4, <1>5, <2>1 DEF JoinedEnds
    <3> QED BY ONLY <3>1, <3>2
  <2>2. CASE \E j \in 1..b : i = a + j
    <3>1. PICK j \in 1..b : i = a + j
      BY <2>2
    <3>2. /\ B[j][2] \in D /\ level[B[j][2]] + 1 = lev /\ lo[B[j][2]] = LowAt(B, mid, j)
          /\ Top(hi, 0, 0, B[j][2]) = HighAt(B, high, j)
      BY <1>2 DEF Kids
    <3>3. W[i] = B[j] /\ LowAt(W, low, i) = LowAt(B, mid, j) /\ HighAt(W, high, i) = HighAt(B, high, j)
      BY ONLY <1>4, <1>5, <3>1 DEF JoinedEnds
    <3> QED BY ONLY <3>2, <3>3
  <2> QED BY ONLY <1>5, <1>6, <2>1, <2>2
<1> QED BY ONLY <1>5, <1>6 DEF Kids
-----------------------------------------------------------------------------
(* Entries cut in two after the m-th *)
CutAt(W, X, Y, m, n) ==
    /\ Len(W) = m + n /\ Len(X) = m /\ Len(Y) = n
    /\ \A i \in 1..m : i \in 1..(m + n) /\ X[i] = W[i]
    /\ \A i \in 1..n : i + m \in 1..(m + n) /\ Y[i] = W[i + m]

LEMMA CutPlaces ==
    ASSUME NEW W, W \in Entries, NEW X, NEW Y, NEW m, m \in 0..Len(W), CutInto(W, X, Y, m)
    PROVE  \E n \in Nat : m \in Nat /\ CutAt(W, X, Y, m, n)
<1>1. PICK l \in Nat : l = Len(W)
  BY DEF Entries
<1>2. PICK n : n = l - m
  OBVIOUS
<1>3. n \in Nat /\ m \in Nat /\ l = m + n
  BY <1>1, <1>2
<1>4. /\ Len(X) = m /\ Len(Y) = n
      /\ \A i \in 1..m : X[i] = W[i]
      /\ \A i \in 1..n : Y[i] = W[i + m]
  BY <1>1, <1>2 DEF CutInto
<1>5. \A i \in 1..m : i \in 1..(m + n)
  BY <1>3
<1>6. \A i \in 1..n : i + m \in 1..(m + n)
  BY <1>3
<1> QED BY ONLY <1>1, <1>3, <1>4, <1>5, <1>6 DEF CutAt

LEMMA CutLeaf ==
    ASSUME NEW W, W \in Entries, NEW X, NEW Y, NEW m, m \in 0..Len(W), CutInto(W, X, Y, m),
           1 <= m, m < Len(W), NEW key, key = W[m + 1][1], NEW low \in Nat, NEW high, LeafItems(W, low, high)
    PROVE  /\ LeafItems(X, low, key) /\ LeafItems(Y, key, high)
           /\ key \in Keys /\ low < key /\ Below(key, high)
<1>1. PICK n \in Nat : m \in Nat /\ CutAt(W, X, Y, m, n)
  BY CutPlaces
<1>2. /\ Len(W) = m + n /\ Len(X) = m /\ Len(Y) = n
      /\ \A i \in 1..m : i \in 1..(m + n) /\ X[i] = W[i]
      /\ \A i \in 1..n : i + m \in 1..(m + n) /\ Y[i] = W[i + m]
  BY ONLY <1>1 DEF CutAt
<1>3. /\ \A i \in 1..(m + n) : /\ W[i][1] \in Keys /\ W[i][1] \in Nat /\ W[i][2] = Rid[W[i][1]]
                               /\ low <= W[i][1] /\ Below(W[i][1], high)
      /\ \A i, j \in 1..(m + n) : i < j => W[i][1] < W[j][1]
  BY <1>2, TreeAssumption DEF LeafItems
<1>4. m + 1 \in 1..(m + n) /\ m \in 1..(m + n) /\ m < m + 1
  BY <1>1, <1>2
<1>5. key \in Keys /\ key \in Nat /\ low < key /\ Below(key, high)
  <2>1. low <= W[m][1] /\ W[m][1] < W[m + 1][1] /\ W[m][1] \in Nat /\ W[m + 1][1] \in Nat
    BY ONLY <1>3, <1>4
  <2> QED BY <1>3, <1>4, <2>1
<1>6. LeafItems(X, low, key)
  <2>1. ASSUME NEW i \in 1..m
        PROVE  /\ X[i][1] \in Keys /\ X[i][2] = Rid[X[i][1]] /\ low <= X[i][1] /\ Below(X[i][1], key)
    <3>1. i \in 1..(m + n) /\ X[i] = W[i] /\ i < m + 1
      BY <1>1, <1>2
    <3>2. W[i][1] < key
      BY <1>3, <1>4, <3>1
    <3> QED BY <1>3, <3>1, <3>2 DEF Below
  <2>2. \A i, j \in 1..m : i < j => X[i][1] < X[j][1]
    BY ONLY <1>2, <1>3
  <2> QED BY ONLY <1>2, <2>1, <2>2 DEF LeafItems
<1>7. LeafItems(Y, key, high)
  <2>1. ASSUME NEW i \in 1..n
        PROVE  /\ Y[i][1] \in Keys /\ Y[i][2] = Rid[Y[i][1]] /\ key <= Y[i][1] /\ Below(Y[i][1], high)
    <3>1. i + m \in 1..(m + n) /\ Y[i] = W[i + m] /\ (i + m = m + 1 \/ m + 1 < i + m)
      BY <1>1, <1>2
    <3>2. key <= W[i + m][1]
      BY <1>3, <1>4, <1>5, <3>1
    <3> QED BY <1>3, <3>1, <3>2
  <2>2. ASSUME NEW i \in 1..n, NEW j \in 1..n, i < j PROVE Y[i][1] < Y[j][1]
    <3>1. i + m < j + m
      BY <1>1, <2>2
    <3> QED BY ONLY <1>2, <1>3, <2>2, <3>1
  <2> QED BY ONLY <1>2, <2>1, <2>2 DEF LeafItems
<1> QED BY <1>5, <1>6, <1>7

LEMMA JoinedCuts ==
    ASSUME NEW X, X \in Entries, NEW Y, Y \in Entries, NEW W, Joined(X, Y, W)
    PROVE  W \in Entries /\ Len(X) \in 0..Len(W) /\ CutInto(W, X, Y, Len(X))
<1>1. PICK m \in Nat : m = Len(X)
  BY DEF Entries
<1>2. PICK n \in Nat : n = Len(Y)
  BY DEF Entries
<1>3. /\ W \in Entries /\ Len(W) = m + n
      /\ \A i \in 1..m : W[i] = X[i]
      /\ \A i \in 1..n : W[m + i] = Y[i]
  BY <1>1, <1>2 DEF Joined
<1>4. m \in 0..Len(W) /\ Len(W) - m = n /\ \A i \in 1..n : m + i = i + m
  BY <1>1, <1>2, <1>3
<1>5. \A i \in 1..n : Y[i] = W[i + m]
  BY ONLY <1>3, <1>4
<1> QED BY <1>1, <1>2, <1>3, <1>4, <1>5 DEF CutInto

LeafPair(X, Y, low, key, high) ==
    /\ LeafItems(X, low, key) /\ LeafItems(Y, key, high)
    /\ key \in Keys /\ low < key /\ Below(key, high)
InnerPair(X, Y, low, key, high) ==
    /\ InnerItems(X, low, key) /\ InnerItems(Y, key, high)
    /\ key \in Keys /\ low < key /\ Below(key, high)

(* The pair cut at another place: the first key of the second part is where *)
(* the two intervals meet                                                   *)
LEMMA CutLeafPair ==
    ASSUME NEW X, X \in Entries, NEW Y, Y \in Entries, NEW W, Joined(X, Y, W), Len(X) >= 1, Len(Y) >= 1,
           NEW key, key = Y[1][1], NEW low, low \in Nat, NEW high, LeafItems(W, low, high)
    PROVE  LeafPair(X, Y, low, key, high)
<1>1. PICK m \in Nat : m = Len(X)
  BY DEF Entries
<1>2. PICK n \in Nat : n = Len(Y)
  BY DEF Entries
<1>3. W \in Entries /\ m \in 0..Len(W) /\ CutInto(W, X, Y, m)
  BY <1>1, JoinedCuts
<1>4. Len(W) = m + n /\ 1 <= m /\ 1 <= n
  BY <1>1, <1>2 DEF Joined
<1>5. 1 \in 1..n /\ m < Len(W)
  BY <1>4
<1>6. key = W[m + 1][1]
  BY <1>1, <1>2, <1>5 DEF Joined
<1>7. LeafItems(W, low, high) /\ low \in Nat
  OBVIOUS
<1>8. /\ LeafItems(X, low, key) /\ LeafItems(Y, key, high)
      /\ key \in Keys /\ low < key /\ Below(key, high)
  BY ONLY <1>3, <1>4, <1>5, <1>6, <1>7, CutLeaf
<1> QED BY ONLY <1>8 DEF LeafPair

LEMMA CutInnerPair ==
    ASSUME NEW X, X \in Entries, NEW Y, Y \in Entries, NEW W, Joined(X, Y, W), Len(X) >= 1, Len(Y) >= 1,
           NEW key, key = Y[1][1], NEW low, low \in Nat, NEW high, InnerItems(W, low, high)
    PROVE  InnerPair(X, Y, low, key, high)
<1>1. PICK m \in Nat : m = Len(X)
  BY DEF Entries
<1>2. PICK n \in Nat : n = Len(Y)
  BY DEF Entries
<1>3. /\ Len(W) = m + n
      /\ \A i \in 1..m : i \in 1..(m + n) /\ W[i] = X[i]
      /\ \A i \in 1..n : m + i \in 1..(m + n) /\ W[m + i] = Y[i]
  <2>1. JoinedAt(X, Y, W, m, n)
    BY <1>1, <1>2, JoinedPlaces
  <2> QED BY ONLY <2>1 DEF JoinedAt
<1>4. /\ \A i \in 1..(m + n) : W[i][1] \in Keys \cup {0}
      /\ \A i \in 2..(m + n) : W[i][1] \in Keys /\ W[i][1] \in Nat /\ low < W[i][1] /\ Below(W[i][1], high)
      /\ \A i, j \in 2..(m + n) : i < j => W[i][1] < W[j][1]
  BY <1>3, TreeAssumption DEF InnerItems
<1>5. /\ 1 <= m /\ 1 <= n /\ 1 \in 1..n
      /\ \A i \in 2..m : i \in 1..m /\ i \in 2..(m + n) /\ i < m + 1
      /\ \A i \in 1..n : m + i \in 2..(m + n)
      /\ \A i \in 2..n : i \in 1..n /\ m + 1 < m + i
      /\ \A i, j \in 2..n : i < j => m + i < m + j
  BY <1>1, <1>2
<1>6. key = W[m + 1][1] /\ m + 1 \in 2..(m + n)
  BY <1>3, <1>5
<1>7. key \in Keys /\ low < key /\ Below(key, high)
  BY <1>4, <1>6
<1>8. InnerItems(X, low, key)
  <2>1. \A i \in 1..m : X[i][1] \in Keys \cup {0}
    BY ONLY <1>3, <1>4
  <2>2. \A i \in 2..m : X[i][1] \in Keys /\ low < X[i][1] /\ Below(X[i][1], key)
    BY ONLY <1>3, <1>4, <1>5, <1>6 DEF Below
  <2>3. \A i, j \in 2..m : i < j => X[i][1] < X[j][1]
    BY ONLY <1>3, <1>4, <1>5
  <2> QED BY <1>1, <1>5, <2>1, <2>2, <2>3 DEF InnerItems
<1>9. InnerItems(Y, key, high)
  <2>1. \A i \in 1..n : Y[i][1] \in Keys \cup {0}
    BY ONLY <1>3, <1>4
  <2>2. \A i \in 2..n : Y[i][1] \in Keys /\ key < Y[i][1] /\ Below(Y[i][1], high)
    BY ONLY <1>3, <1>4, <1>5, <1>6
  <2>3. \A i, j \in 2..n : i < j => Y[i][1] < Y[j][1]
    BY ONLY <1>3, <1>4, <1>5
  <2> QED BY <1>2, <1>5, <2>1, <2>2, <2>3 DEF InnerItems
<1> QED BY ONLY <1>7, <1>8, <1>9 DEF InnerPair

LEMMA CutChildren ==
    ASSUME NEW X, X \in Entries, NEW Y, Y \in Entries, NEW W, Joined(X, Y, W), Len(X) >= 1, Len(Y) >= 1,
           NEW key, key = Y[1][1], NEW low, NEW high, NEW D, NEW level, NEW lo, NEW hi, NEW lev,
           Kids(D, level, lo, hi, 0, 0, W, low, high, lev)
    PROVE  /\ Kids(D, level, lo, hi, 0, 0, X, low, key, lev)
           /\ Kids(D, level, lo, hi, 0, 0, Y, key, high, lev)
<1>1. PICK m \in Nat : m = Len(X)
  BY DEF Entries
<1>2. PICK n \in Nat : n = Len(Y)
  BY DEF Entries
<1>3. JoinedAt(X, Y, W, m, n)
  BY <1>1, <1>2, JoinedPlaces
<1>4. JoinedEnds(X, Y, W, m, n, low, key, high)
  BY <1>1, <1>2, <1>3, JoinedEndsAre
<1>5. /\ Len(W) = m + n
      /\ \A i \in 1..m : i \in 1..(m + n) /\ W[i] = X[i]
      /\ \A i \in 1..n : m + i \in 1..(m + n) /\ W[m + i] = Y[i]
  BY ONLY <1>3 DEF JoinedAt
<1>6. \A i \in 1..(m + n) : /\ W[i][2] \in D /\ level[W[i][2]] + 1 = lev
                            /\ lo[W[i][2]] = LowAt(W, low, i)
                            /\ Top(hi, 0, 0, W[i][2]) = HighAt(W, high, i)
  BY <1>5 DEF Kids
<1>7. ASSUME NEW i \in 1..m
      PROVE  /\ X[i][2] \in D /\ level[X[i][2]] + 1 = lev
             /\ lo[X[i][2]] = LowAt(X, low, i) /\ Top(hi, 0, 0, X[i][2]) = HighAt(X, key, i)
  <2>1. i \in 1..(m + n) /\ W[i] = X[i]
    BY ONLY <1>5, <1>7
  <2>2. LowAt(W, low, i) = LowAt(X, low, i) /\ HighAt(W, high, i) = HighAt(X, key, i)
    BY ONLY <1>4, <1>7 DEF JoinedEnds
  <2> QED BY ONLY <1>6, <2>1, <2>2
<1>8. ASSUME NEW i \in 1..n
      PROVE  /\ Y[i][2] \in D /\ level[Y[i][2]] + 1 = lev
             /\ lo[Y[i][2]] = LowAt(Y, key, i) /\ Top(hi, 0, 0, Y[i][2]) = HighAt(Y, high, i)
  <2>1. m + i \in 1..(m + n) /\ W[m + i] = Y[i]
    BY ONLY <1>5, <1>8
  <2>2. LowAt(W, low, m + i) = LowAt(Y, key, i) /\ HighAt(W, high, m + i) = HighAt(Y, high, i)
    BY ONLY <1>4, <1>8 DEF JoinedEnds
  <2> QED BY ONLY <1>6, <2>1, <2>2
<1>9. Kids(D, level, lo, hi, 0, 0, X, low, key, lev)
  BY ONLY <1>1, <1>7 DEF Kids
<1>10. Kids(D, level, lo, hi, 0, 0, Y, key, high, lev)
  BY ONLY <1>2, <1>8 DEF Kids
<1> QED BY <1>9, <1>10

(* The last entry of the first page moves to the front of the second *)
FrontMoved(A, B, W, X, Y) ==
    /\ X \in Entries /\ Y \in Entries /\ Len(X) = Len(A) - 1 /\ Len(Y) = Len(B) + 1
    /\ Y[1] = A[Len(A)] /\ Joined(X, Y, W)

LEMMA FrontJoins ==
    ASSUME NEW A, A \in Entries, NEW B, B \in Entries, Len(A) >= 1, NEW W, Joined(A, B, W),
           NEW X, X = Front(A), NEW Y, Y = << A[Len(A)] >> \o B
    PROVE  FrontMoved(A, B, W, X, Y)
<1>1. PICK S : S = Nat \X Nat
  OBVIOUS
<1>2. A \in Seq(S) /\ B \in Seq(S) /\ W \in Seq(S)
  BY <1>1 DEF Entries, Joined
<1>3. PICK a \in Nat : a = Len(A)
  BY <1>2
<1>4. PICK b \in Nat : b = Len(B)
  BY <1>2
<1>5. PICK last : last = A[a]
  OBVIOUS
<1>6. a \in 1..a /\ a >= 1 /\ a - 1 \in Nat
  BY <1>3
<1>7. last \in S
  BY ONLY <1>2, <1>3, <1>5, <1>6, ElementOfSeq
<1>8. X = SubSeq(A, 1, a - 1) /\ Y = <<last>> \o B
  BY <1>3, <1>5 DEF Front
<1>9. /\ X \in Seq(S) /\ Len(X) = a - 1 /\ \A i \in 1..(a - 1) : X[i] = A[i]
  <2>1. 1 \in Int /\ a - 1 \in Int /\ \A i \in 1..(a - 1) : i \in 1..Len(A)
    BY <1>3, <1>6
  <2>2. \A i \in 1..(a - 1) : A[i] \in S
    BY ONLY <1>2, <2>1, ElementOfSeq
  <2>3. /\ SubSeq(A, 1, a - 1) \in Seq(S)
        /\ Len(SubSeq(A, 1, a - 1)) = IF 1 <= a - 1 THEN (a - 1) - 1 + 1 ELSE 0
        /\ \A i \in 1..((a - 1) - 1 + 1) : SubSeq(A, 1, a - 1)[i] = A[1 + i - 1]
    BY ONLY <2>1, <2>2, SubSeqProperties
  <2>4. (IF 1 <= a - 1 THEN (a - 1) - 1 + 1 ELSE 0) = a - 1 /\ (a - 1) - 1 + 1 = a - 1
    BY ONLY <1>6
  <2>5. \A i \in 1..(a - 1) : 1 + i - 1 = i
    BY ONLY <1>6
  <2> QED BY ONLY <1>8, <2>3, <2>4, <2>5
<1>10. <<last>> \in Seq(S) /\ Len(<<last>>) = 1 /\ <<last>>[1] = last
  BY ONLY <1>7
<1>11. /\ Y \in Seq(S) /\ Len(Y) = 1 + b
       /\ \A i \in 1..(1 + b) : Y[i] = IF i <= 1 THEN <<last>>[i] ELSE B[i - 1]
  <2>1. /\ <<last>> \o B \in Seq(S) /\ Len(<<last>> \o B) = Len(<<last>>) + Len(B)
        /\ \A i \in 1..(Len(<<last>>) + Len(B)) : (<<last>> \o B)[i] =
               IF i <= Len(<<last>>) THEN <<last>>[i] ELSE B[i - Len(<<last>>)]
    BY ONLY <1>2, <1>10, ConcatProperties
  <2> QED BY ONLY <1>4, <1>8, <1>10, <2>1
<1>12. Y[1] = last
  <2>1. 1 \in 1..(1 + b) /\ 1 <= 1
    BY ONLY <1>4
  <2> QED BY ONLY <1>10, <1>11, <2>1
<1>13. \A i \in 1..b : Y[1 + i] = B[i]
  <2>1. \A i \in 1..b : 1 + i \in 1..(1 + b) /\ ~ (1 + i <= 1) /\ (1 + i) - 1 = i
    BY ONLY <1>4
  <2> QED BY ONLY <1>11, <2>1
<1>14. /\ Len(W) = a + b
       /\ \A i \in 1..a : W[i] = A[i]
       /\ \A i \in 1..b : W[a + i] = B[i]
  BY <1>3, <1>4 DEF Joined
<1>15. \A i \in 1..(a - 1) : W[i] = X[i]
  <2>1. \A i \in 1..(a - 1) : i \in 1..a
    BY ONLY <1>6
  <2> QED BY ONLY <1>9, <1>14, <2>1
<1>16. ASSUME NEW i \in 1..(1 + b) PROVE W[(a - 1) + i] = Y[i]
  <2>1. CASE i = 1
    <3>1. (a - 1) + i = a
      BY <1>3, <2>1
    <3> QED BY <1>5, <1>6, <1>12, <1>14, <2>1, <3>1
  <2>2. CASE i # 1
    <3>1. PICK j : j = i - 1
      OBVIOUS
    <3>2. j \in 1..b /\ i = 1 + j /\ (a - 1) + i = a + j
      BY <1>3, <1>4, <2>2, <3>1
    <3> QED BY ONLY <1>13, <1>14, <3>2
  <2> QED BY <2>1, <2>2
<1>17. (a - 1) + (1 + b) = a + b /\ 1 + b = b + 1
  BY <1>3, <1>4
<1>18. Joined(X, Y, W)
  BY ONLY <1>1, <1>2, <1>9, <1>11, <1>14, <1>15, <1>16, <1>17 DEF Joined, Entries
<1> QED BY <1>1, <1>3, <1>4, <1>5, <1>9, <1>11, <1>12, <1>17, <1>18 DEF Entries, FrontMoved

(* The second page's first entry moves to the end of the first: C is that *)
(* page with the key its first entry moves with                           *)
TailMoved(A, B, W, X, Y) ==
    /\ X \in Entries /\ Y \in Entries /\ Len(X) = Len(A) + 1 /\ Len(Y) = Len(B) - 1
    /\ Y[1] = B[2] /\ Joined(X, Y, W)

LEMMA TailJoins ==
    ASSUME NEW A, A \in Entries, NEW B, B \in Entries, NEW C, C \in Entries, Len(B) >= 2, Len(C) = Len(B),
           \A i \in 2..Len(B) : C[i] = B[i], NEW W, Joined(A, C, W),
           NEW X, X = Append(A, C[1]), NEW Y, Y = Tail(B)
    PROVE  TailMoved(A, B, W, X, Y)
<1>1. PICK S : S = Nat \X Nat
  OBVIOUS
<1>2. A \in Seq(S) /\ B \in Seq(S) /\ C \in Seq(S) /\ W \in Seq(S)
  BY <1>1 DEF Entries, Joined
<1>3. PICK a \in Nat : a = Len(A)
  BY <1>2
<1>4. PICK b \in Nat : b = Len(B)
  BY <1>2
<1>5. PICK first : first = C[1]
  OBVIOUS
<1>6. b >= 2 /\ Len(C) = b /\ 1 \in 1..b /\ b - 1 \in Nat
  BY <1>4
<1>7. first \in S
  BY ONLY <1>2, <1>5, <1>6, ElementOfSeq
<1>8. /\ X \in Seq(S) /\ Len(X) = a + 1 /\ X[a + 1] = first /\ \A i \in 1..a : X[i] = A[i]
  <2>1. X = Append(A, first)
    BY <1>5
  <2> QED BY ONLY <1>2, <1>3, <1>7, <2>1, AppendProperties
<1>9. /\ Y \in Seq(S) /\ Len(Y) = b - 1 /\ \A i \in 1..(b - 1) : Y[i] = B[i + 1]
  <2>1. B # << >>
    BY <1>2, <1>4, <1>6, EmptySeq
  <2>2. Y = Tail(B)
    OBVIOUS
  <2>3. /\ Tail(B) \in Seq(S) /\ Len(Tail(B)) = Len(B) - 1
        /\ \A i \in 1..Len(Tail(B)) : Tail(B)[i] = B[i + 1]
    BY ONLY <1>2, <2>1, HeadTailProperties
  <2> QED BY ONLY <1>4, <2>2, <2>3
<1>10. /\ Len(W) = a + b
       /\ \A i \in 1..a : W[i] = A[i]
       /\ \A i \in 1..b : W[a + i] = C[i]
  BY <1>3, <1>4, <1>6 DEF Joined
<1>11. ASSUME NEW i \in 1..(a + 1) PROVE W[i] = X[i]
  <2>1. CASE i = a + 1
    BY <1>5, <1>6, <1>8, <1>10, <2>1
  <2>2. CASE i # a + 1
    <3>1. i \in 1..a
      BY <1>3, <2>2
    <3> QED BY ONLY <1>8, <1>10, <3>1
  <2> QED BY <2>1, <2>2
<1>12. ASSUME NEW i \in 1..(b - 1) PROVE W[(a + 1) + i] = Y[i]
  <2>1. PICK j : j = i + 1
    OBVIOUS
  <2>2. j \in 1..b /\ j \in 2..b /\ (a + 1) + i = a + j
    BY <1>3, <1>4, <2>1
  <2>3. C[j] = B[j]
    BY <1>4, <2>2
  <2>4. Y[i] = B[j]
    BY <1>9, <2>1
  <2> QED BY ONLY <1>10, <2>2, <2>3, <2>4
<1>13. (a + 1) + (b - 1) = a + b /\ 1 \in 1..(b - 1) /\ 1 + 1 = 2
  BY <1>3, <1>6
<1>14. Joined(X, Y, W)
  BY ONLY <1>1, <1>2, <1>8, <1>9, <1>10, <1>11, <1>12, <1>13 DEF Joined, Entries
<1>15. Y[1] = B[2]
  BY ONLY <1>9, <1>13
<1> QED BY <1>1, <1>3, <1>4, <1>8, <1>9, <1>14, <1>15 DEF Entries, TailMoved

(* The entries with another key in the first *)
Rekeyed(B, C, key) ==
    /\ C \in Entries /\ Len(C) = Len(B) /\ C[1] = <<key, B[1][2]>>
    /\ \A i \in 2..Len(B) : C[i] = B[i]

LEMMA RekeyedIs ==
    ASSUME NEW B, B \in Entries, Len(B) >= 1, NEW key, key \in Nat, NEW C, C = [B EXCEPT ![1][1] = key]
    PROVE  Rekeyed(B, C, key)
<1>1. PICK S : S = Nat \X Nat
  OBVIOUS
<1>2. PICK b \in Nat : b = Len(B)
  BY DEF Entries
<1>3. B \in Seq(S) /\ DOMAIN B = 1..b /\ 1 \in 1..b
  BY <1>1, <1>2 DEF Entries
<1>4. B[1] \in S
  BY ONLY <1>2, <1>3, ElementOfSeq
<1>5. PICK e : e = <<key, B[1][2]>>
  OBVIOUS
<1>6. e \in S /\ e = [B[1] EXCEPT ![1] = key]
  BY <1>1, <1>4, <1>5
<1>7. C = [B EXCEPT ![1] = e]
  BY <1>6
<1>8. /\ C \in Seq(S) /\ Len(C) = b
      /\ \A j \in 1..b : C[j] = IF j = 1 THEN e ELSE B[j]
  BY ONLY <1>2, <1>3, <1>6, <1>7, ExceptSeq
<1>9. \A i \in 2..b : i \in 1..b /\ i # 1
  OBVIOUS
<1>10. C[1] = e /\ \A i \in 2..b : C[i] = B[i]
  BY ONLY <1>3, <1>8, <1>9
<1> QED BY <1>1, <1>2, <1>5, <1>8, <1>10 DEF Rekeyed, Entries

(* The same children and separators *)
LEMMA RekeyedFits ==
    ASSUME NEW B, B \in Entries, NEW C, NEW mid, Rekeyed(B, C, mid), mid \in Keys, NEW high, InnerItems(B, mid, high)
    PROVE  /\ InnerItems(C, mid, high) /\ KidSet(C) = KidSet(B) /\ C[1][1] = mid /\ Len(C) >= 1
           /\ \A D, level, lo, hi, lev : Kids(D, level, lo, hi, 0, 0, B, mid, high, lev) =>
                                         Kids(D, level, lo, hi, 0, 0, C, mid, high, lev)
<1>1. PICK b \in Nat : b = Len(B)
  BY DEF Entries
<1>2. /\ Len(C) = b /\ C[1] = <<mid, B[1][2]>> /\ \A i \in 2..b : C[i] = B[i]
  BY <1>1 DEF Rekeyed
<1>3. /\ b >= 1 /\ \A i \in 1..b : B[i][1] \in Keys \cup {0}
      /\ \A i \in 2..b : B[i][1] \in Keys /\ mid < B[i][1] /\ Below(B[i][1], high)
      /\ \A i, j \in 2..b : i < j => B[i][1] < B[j][1]
  BY <1>1 DEF InnerItems
<1>4. \A i \in 1..b : i = 1 \/ i \in 2..b
  OBVIOUS
<1>5. C[1][1] = mid /\ C[1][2] = B[1][2]
  BY ONLY <1>2
<1>6. \A i \in 1..b : C[i][1] \in Keys \cup {0}
  BY <1>2, <1>3, <1>4, <1>5
<1>7. InnerItems(C, mid, high)
  BY ONLY <1>2, <1>3, <1>6 DEF InnerItems
<1>8. \A i \in 1..b : C[i][2] = B[i][2]
  BY ONLY <1>2, <1>4, <1>5
<1>9. KidSet(C) = KidSet(B)
  BY ONLY <1>1, <1>2, <1>8 DEF KidSet
<1>10. \A i \in 1..b : LowAt(C, mid, i) = LowAt(B, mid, i) /\ HighAt(C, high, i) = HighAt(B, high, i)
  <2>1. \A i \in 1..b : i # b => i + 1 \in 2..b
    BY <1>1
  <2> QED BY ONLY <1>1, <1>2, <1>4, <2>1 DEF LowAt, HighAt
<1>11. ASSUME NEW D, NEW level, NEW lo, NEW hi, NEW lev, Kids(D, level, lo, hi, 0, 0, B, mid, high, lev)
       PROVE  Kids(D, level, lo, hi, 0, 0, C, mid, high, lev)
  BY ONLY <1>1, <1>2, <1>8, <1>10, <1>11 DEF Kids
<1> QED BY <1>2, <1>3, <1>5, <1>7, <1>9, <1>11

(* Two neighbouring children of a page *)
Siblings(nd, par, i, a, b) ==
    /\ par \in DOMAIN nd /\ ~ nd[par].leaf /\ i \in 2..Len(nd[par].items)
    /\ a = nd[par].items[i - 1][2] /\ b = nd[par].items[i][2]

SiblingPlaces(nd, rt, level, lo, hi, par, a, b, sep) ==
    /\ a \in DOMAIN nd /\ b \in DOMAIN nd /\ a # b /\ a # par /\ b # par /\ a # rt /\ b # rt
    /\ level[a] = level[b] /\ (nd[a].leaf <=> nd[b].leaf)
    /\ sep \in Keys /\ hi[a] = sep /\ lo[b] = sep /\ lo[a] < sep /\ Below(sep, hi[b])
    /\ nd[a].parent = par /\ nd[b].parent = par

LEMMA SiblingFacts ==
    ASSUME NEW nd, NEW rt, NEW level, NEW lo, NEW hi, Structure(nd, rt, 0, 0, level, lo, hi),
           NEW par, NEW i, NEW a, NEW b, Siblings(nd, par, i, a, b), NEW sep, sep = nd[par].items[i][1]
    PROVE  SiblingPlaces(nd, rt, level, lo, hi, par, a, b, sep)
<1>1. PICK I : I = nd[par].items
  OBVIOUS
<1>2. PICK n : n = Len(I)
  OBVIOUS
<1>3. /\ par \in DOMAIN nd /\ ~ nd[par].leaf /\ i \in 2..n /\ a = I[i - 1][2] /\ b = I[i][2] /\ sep = I[i][1]
  BY <1>1, <1>2 DEF Siblings
<1>4. n \in Nat /\ InnerItems(I, lo[par], hi[par])
  BY <1>1, <1>2, <1>3, PageIds DEF Structure, InnerOK
<1>5. i - 1 \in 1..n /\ i \in 1..n /\ i - 1 # i /\ i # 1 /\ i - 1 # n /\ (i - 1) + 1 = i
  BY <1>3, <1>4
<1>6. Structure(nd, rt, 0, 0, level, lo, hi)
  OBVIOUS
<1>7. PICK j : j = i - 1
  OBVIOUS
<1>8. /\ a \in DOMAIN nd /\ a # par /\ a # rt /\ level[a] + 1 = level[par] /\ nd[a].parent = par
      /\ Top(hi, 0, 0, a) = HighAt(I, hi[par], j)
  BY ONLY <1>1, <1>2, <1>3, <1>5, <1>6, <1>7, KidFacts
<1>9. /\ b \in DOMAIN nd /\ b # par /\ b # rt /\ level[b] + 1 = level[par] /\ nd[b].parent = par
      /\ lo[b] = LowAt(I, lo[par], i)
  BY ONLY <1>1, <1>2, <1>3, <1>5, <1>6, KidFacts
<1>10. a # b
  <2>1. j \in 1..n /\ i \in 1..n /\ j # i
    BY <1>5, <1>7
  <2>2. I[j][2] # I[i][2]
    BY ONLY <1>1, <1>2, <1>3, <1>6, <2>1, KidsDistinct
  <2> QED BY <1>3, <1>7, <2>2
<1>11. /\ a # 0 /\ b # 0 /\ level[a] \in Nat /\ level[b] \in Nat /\ level[par] \in Nat
       /\ nd[a].leaf \in BOOLEAN /\ nd[b].leaf \in BOOLEAN
  BY <1>3, <1>8, <1>9, PageIds DEF Structure
<1>12. level[a] = level[b]
  BY <1>8, <1>9, <1>11
<1>13. sep \in Keys /\ sep # 0
  BY <1>2, <1>3, <1>4, TreeAssumption DEF InnerItems
<1>14. hi[a] = sep /\ lo[b] = sep
  <2>1. HighAt(I, hi[par], j) = I[i][1] /\ LowAt(I, lo[par], i) = I[i][1]
    BY ONLY <1>2, <1>5, <1>7 DEF HighAt, LowAt
  <2>2. Top(hi, 0, 0, a) = hi[a]
    BY <1>11 DEF Top
  <2> QED BY ONLY <1>3, <1>8, <1>9, <2>1, <2>2
<1>15. PlaceOK(nd, rt, level, lo, hi, a) /\ PlaceOK(nd, rt, level, lo, hi, b)
  BY <1>8, <1>9 DEF Structure
<1>16. lo[a] < sep /\ Below(sep, hi[b]) /\ (nd[a].leaf <=> nd[b].leaf)
  BY ONLY <1>11, <1>12, <1>13, <1>14, <1>15 DEF PlaceOK, Below
<1> QED BY ONLY <1>8, <1>9, <1>10, <1>12, <1>13, <1>14, <1>16 DEF SiblingPlaces

(* Another key in one entry *)
LEMMA ReplacedIs ==
    ASSUME NEW I, I \in Entries, NEW i, i \in 1..Len(I), NEW key, key \in Nat, NEW P, P = [I EXCEPT ![i][1] = key]
    PROVE  Replaced(I, P, i, key)
<1>1. PICK S : S = Nat \X Nat
  OBVIOUS
<1>2. PICK n \in Nat : n = Len(I)
  BY SMTT(40) DEF Entries
<1>3. I \in Seq(S) /\ DOMAIN I = 1..n /\ i \in 1..n
  BY <1>1, <1>2 DEF Entries
<1>4. I[i] \in S
  BY ONLY <1>2, <1>3, ElementOfSeq
<1>5. PICK e : e = <<key, I[i][2]>>
  OBVIOUS
<1>6. e \in S /\ e = [I[i] EXCEPT ![1] = key]
  BY <1>1, <1>4, <1>5, SMTT(40)
<1>7. P = [I EXCEPT ![i] = e]
  BY <1>6
<1>8. /\ P \in Seq(S) /\ Len(P) = n
      /\ \A j \in 1..n : P[j] = IF j = i THEN e ELSE I[j]
  BY ONLY <1>2, <1>3, <1>6, <1>7, ExceptSeq
<1>9. P[i] = e /\ \A j \in 1..n : j # i => P[j] = I[j]
  BY ONLY <1>3, <1>8
<1>10. e[1] = key /\ e[2] = I[i][2]
  BY ONLY <1>5
<1> QED BY ONLY <1>1, <1>2, <1>8, <1>9, <1>10 DEF Replaced, Entries

(* New entries in one page, and in three *)
OneChanged(nd, nd2, p, P) ==
    /\ DOMAIN nd2 = DOMAIN nd /\ nd2 \in [DOMAIN nd -> PageType]
    /\ nd2[p].items = P
    /\ \A q \in DOMAIN nd : /\ nd2[q].leaf = nd[q].leaf /\ nd2[q].next = nd[q].next
                            /\ nd2[q].parent = nd[q].parent
                            /\ q # p => nd2[q].items = nd[q].items

LEMMA OneItem ==
    ASSUME NEW nd, nd \in [DOMAIN nd -> PageType], NEW p, p \in DOMAIN nd, NEW P, P \in Entries,
           NEW nd2, nd2 = [nd EXCEPT ![p].items = P]
    PROVE  OneChanged(nd, nd2, p, P)
BY ItemsChange DEF OneChanged

ThreeChanged(nd, nd2, s, p, par, S, P, Q) ==
    /\ DOMAIN nd2 = DOMAIN nd /\ nd2 \in [DOMAIN nd -> PageType]
    /\ nd2[s].items = S /\ nd2[p].items = P /\ nd2[par].items = Q
    /\ \A q \in DOMAIN nd : /\ nd2[q].leaf = nd[q].leaf /\ nd2[q].next = nd[q].next
                            /\ nd2[q].parent = nd[q].parent
                            /\ q \notin {s, p, par} => nd2[q].items = nd[q].items

LEMMA ThreeItems ==
    ASSUME NEW nd, nd \in [DOMAIN nd -> PageType], NEW s, s \in DOMAIN nd, NEW p, p \in DOMAIN nd,
           NEW par, par \in DOMAIN nd, s # p, s # par, p # par,
           NEW S, S \in Entries, NEW P, P \in Entries, NEW Q, Q \in Entries,
           NEW nd2, nd2 = [nd EXCEPT ![s].items = S, ![p].items = P, ![par].items = Q]
    PROVE  ThreeChanged(nd, nd2, s, p, par, S, P, Q)
<1>1. PICK u : u = [nd EXCEPT ![s].items = S]
  OBVIOUS
<1>2. PICK v : v = [u EXCEPT ![p].items = P]
  OBVIOUS
<1>3. nd2 = [v EXCEPT ![par].items = Q]
  BY <1>1, <1>2
<1>0. /\ nd \in [DOMAIN nd -> PageType] /\ s \in DOMAIN nd /\ p \in DOMAIN nd /\ par \in DOMAIN nd
      /\ S \in Entries /\ P \in Entries /\ Q \in Entries /\ s # p /\ s # par /\ p # par
  OBVIOUS
<1>4. OneChanged(nd, u, s, S)
  BY ONLY <1>0, <1>1, OneItem
<1>5. DOMAIN u = DOMAIN nd /\ u \in [DOMAIN u -> PageType]
  BY ONLY <1>4 DEF OneChanged
<1>6. OneChanged(u, v, p, P)
  BY ONLY <1>0, <1>2, <1>5, OneItem
<1>7. DOMAIN v = DOMAIN nd /\ v \in [DOMAIN v -> PageType]
  BY ONLY <1>5, <1>6 DEF OneChanged
<1>8. OneChanged(v, nd2, par, Q)
  BY ONLY <1>0, <1>3, <1>7, OneItem
<1>9. DOMAIN nd2 = DOMAIN nd /\ nd2 \in [DOMAIN nd -> PageType]
  BY ONLY <1>7, <1>8 DEF OneChanged
<1>10. nd2[s].items = S /\ nd2[p].items = P /\ nd2[par].items = Q
  BY ONLY <1>0, <1>4, <1>5, <1>6, <1>7, <1>8 DEF OneChanged
<1>11. ASSUME NEW q, q \in DOMAIN nd
       PROVE  /\ nd2[q].leaf = nd[q].leaf /\ nd2[q].next = nd[q].next /\ nd2[q].parent = nd[q].parent
              /\ q \notin {s, p, par} => nd2[q].items = nd[q].items
  <2>1. /\ u[q].leaf = nd[q].leaf /\ u[q].next = nd[q].next /\ u[q].parent = nd[q].parent
        /\ q # s => u[q].items = nd[q].items
    BY ONLY <1>4, <1>11 DEF OneChanged
  <2>2. /\ v[q].leaf = u[q].leaf /\ v[q].next = u[q].next /\ v[q].parent = u[q].parent
        /\ q # p => v[q].items = u[q].items
    BY ONLY <1>5, <1>6, <1>11 DEF OneChanged
  <2>3. /\ nd2[q].leaf = v[q].leaf /\ nd2[q].next = v[q].next /\ nd2[q].parent = v[q].parent
        /\ q # par => nd2[q].items = v[q].items
    BY ONLY <1>7, <1>8, <1>11 DEF OneChanged
  <2> QED BY ONLY <2>1, <2>2, <2>3
<1> QED BY ONLY <1>9, <1>10, <1>11 DEF ThreeChanged

(* What a page that takes over the intervals of both may hold *)
Whole(nd, level, lo, hi, a, b, W) ==
    IF nd[a].leaf
    THEN LeafItems(W, lo[a], hi[b])
    ELSE /\ InnerItems(W, lo[a], hi[b])
         /\ Kids(DOMAIN nd, level, lo, hi, 0, 0, W, lo[a], hi[b], level[a])

(* The second page's entries as they go on after the first's *)
Continues(nd, a, b, sep, C) ==
    IF nd[a].leaf THEN C = nd[b].items ELSE Rekeyed(nd[b].items, C, sep)

LEMMA JoinedFits ==
    ASSUME NEW nd, NEW rt, NEW level, NEW lo, NEW hi, Structure(nd, rt, 0, 0, level, lo, hi),
           NEW par, NEW a, NEW b, NEW sep, SiblingPlaces(nd, rt, level, lo, hi, par, a, b, sep),
           NEW C, Continues(nd, a, b, sep, C), NEW W, Joined(nd[a].items, C, W)
    PROVE  /\ Whole(nd, level, lo, hi, a, b, W) /\ C \in Entries
           /\ ~ nd[a].leaf => KidSet(C) = KidSet(nd[b].items)
<1>1. /\ a \in DOMAIN nd /\ b \in DOMAIN nd /\ level[a] = level[b] /\ (nd[a].leaf <=> nd[b].leaf)
      /\ sep \in Keys /\ hi[a] = sep /\ lo[b] = sep /\ lo[a] < sep /\ Below(sep, hi[b])
  BY DEF SiblingPlaces
<1>2. PICK A : A = nd[a].items
  OBVIOUS
<1>3. PICK B : B = nd[b].items
  OBVIOUS
<1>4. PICK low : low = lo[a]
  OBVIOUS
<1>5. PICK high : high = hi[b]
  OBVIOUS
<1>6. A \in Entries /\ B \in Entries /\ low \in Nat /\ high \in Nat /\ sep \in Nat /\ sep # 0
  BY <1>1, <1>2, <1>3, <1>4, <1>5, PageIds, TreeAssumption DEF Structure
<1>7. Joined(A, C, W) /\ low < sep /\ Below(sep, high)
  BY <1>1, <1>2, <1>4, <1>5
<1>8. CASE nd[a].leaf
  <2>1. C = B
    BY <1>3, <1>8 DEF Continues
  <2>2. LeafItems(A, low, sep) /\ LeafItems(B, sep, high)
    BY <1>1, <1>2, <1>3, <1>4, <1>5, <1>8 DEF Structure, LeafOK
  <2>3. LeafItems(W, low, high)
    BY ONLY <1>6, <1>7, <2>1, <2>2, JoinedLeaf
  <2> QED BY ONLY <1>4, <1>5, <1>6, <1>8, <2>1, <2>3 DEF Whole
<1>9. CASE ~ nd[a].leaf
  <2>1. Rekeyed(B, C, sep)
    BY <1>3, <1>9 DEF Continues
  <2>2. C \in Entries
    BY <2>1 DEF Rekeyed
  <2>3. /\ InnerItems(A, low, sep) /\ InnerItems(B, sep, high)
        /\ Kids(DOMAIN nd, level, lo, hi, 0, 0, A, low, sep, level[a])
        /\ Kids(DOMAIN nd, level, lo, hi, 0, 0, B, sep, high, level[a])
    BY <1>1, <1>2, <1>3, <1>4, <1>5, <1>9 DEF Structure, InnerOK
  <2>4. /\ InnerItems(C, sep, high) /\ KidSet(C) = KidSet(B) /\ C[1][1] = sep /\ Len(C) >= 1
    BY ONLY <1>1, <1>6, <2>1, <2>3, RekeyedFits
  <2>5. Kids(DOMAIN nd, level, lo, hi, 0, 0, C, sep, high, level[a])
    BY ONLY <1>1, <1>6, <2>1, <2>3, RekeyedFits
  <2>6. InnerItems(W, low, high)
    BY ONLY <1>1, <1>6, <1>7, <2>2, <2>3, <2>4, JoinedInner
  <2>7. Len(A) >= 1
    BY ONLY <2>3 DEF InnerItems
  <2>8. Kids(DOMAIN nd, level, lo, hi, 0, 0, W, low, high, level[a])
    BY ONLY <1>6, <1>7, <2>2, <2>3, <2>4, <2>5, <2>7, JoinedChildren
  <2> QED BY ONLY <1>3, <1>4, <1>5, <1>9, <2>2, <2>4, <2>6, <2>8 DEF Whole
<1> QED BY <1>8, <1>9

(* The entries of both, divided anew *)
Shared(nd, a, b, sep, C, W, X, Y, key) ==
    /\ Continues(nd, a, b, sep, C) /\ Joined(nd[a].items, C, W)
    /\ X \in Entries /\ Y \in Entries /\ Joined(X, Y, W)
    /\ Len(X) >= 1 /\ Len(Y) >= 1 /\ key = Y[1][1]

LEMMA ShiftTree ==
    ASSUME NEW nd, NEW rt, NEW level, NEW lo, NEW hi, Structure(nd, rt, 0, 0, level, lo, hi),
           NEW bound, Bounded(DOMAIN nd, lo, bound),
           NEW par, NEW i, NEW a, NEW b, NEW sep, SiblingPlaces(nd, rt, level, lo, hi, par, a, b, sep),
           NEW C, NEW W, NEW X, NEW Y, NEW key, Shared(nd, a, b, sep, C, W, X, Y, key),
           NEW nd2, nd2[a].items = X, nd2[b].items = Y, Shifted(nd, nd2, par, i, a, b, key)
    PROVE  \E lo2, hi2, bound2 : /\ Structure(nd2, rt, 0, 0, level, lo2, hi2)
                                 /\ Bounded(DOMAIN nd2, lo2, bound2)
<1>0. Structure(nd, rt, 0, 0, level, lo, hi) /\ SiblingPlaces(nd, rt, level, lo, hi, par, a, b, sep)
  OBVIOUS
<1>1. /\ Continues(nd, a, b, sep, C) /\ Joined(nd[a].items, C, W)
      /\ X \in Entries /\ Y \in Entries /\ Joined(X, Y, W)
      /\ Len(X) >= 1 /\ Len(Y) >= 1 /\ key = Y[1][1]
  BY DEF Shared
<1>2. Whole(nd, level, lo, hi, a, b, W)
  BY ONLY <1>0, <1>1, JoinedFits
<1>3. a \in DOMAIN nd /\ b \in DOMAIN nd /\ level[a] = level[b]
  BY DEF SiblingPlaces
<1>4. /\ lo[a] \in Nat /\ b \in Nat /\ lo \in [Nat -> Nat] /\ DOMAIN nd \subseteq Nat /\ nd[a].leaf \in BOOLEAN
  <2>1. \A q \in DOMAIN nd : q \in Nat /\ lo[q] \in Nat /\ nd[q].leaf \in BOOLEAN
    BY PageIds DEF Structure
  <2>2. lo \in [Nat -> Nat]
    BY DEF Structure, TypesOK
  <2> QED BY <1>3, <2>1, <2>2
<1>5. DOMAIN nd2 = DOMAIN nd /\ nd2[a].leaf = nd[a].leaf
  BY <1>3 DEF Shifted
<1>6. /\ ShiftFits(nd2, level, lo, hi, a, b, key)
      /\ key \in Keys /\ lo[a] < key /\ Below(key, hi[b])
  <2>1. CASE nd[a].leaf
    <3>1. LeafItems(W, lo[a], hi[b])
      BY ONLY <1>2, <2>1 DEF Whole
    <3>2. PICK low : low = lo[a]
      OBVIOUS
    <3>3. PICK high : high = hi[b]
      OBVIOUS
    <3>4. low \in Nat /\ LeafItems(W, low, high)
      BY <1>4, <3>1, <3>2, <3>3
    <3>5. LeafPair(X, Y, low, key, high)
      BY ONLY <1>1, <3>4, CutLeafPair
    <3> QED BY <1>5, <2>1, <3>2, <3>3, <3>5 DEF ShiftFits, LeafPair
  <2>2. CASE ~ nd[a].leaf
    <3>1. /\ InnerItems(W, lo[a], hi[b])
          /\ Kids(DOMAIN nd, level, lo, hi, 0, 0, W, lo[a], hi[b], level[a])
      BY ONLY <1>2, <2>2 DEF Whole
    <3>2. PICK low : low = lo[a]
      OBVIOUS
    <3>3. PICK high : high = hi[b]
      OBVIOUS
    <3>4. low \in Nat /\ InnerItems(W, low, high)
      BY <1>4, <3>1, <3>2, <3>3
    <3>5. InnerPair(X, Y, low, key, high)
      BY ONLY <1>1, <3>4, CutInnerPair
    <3>6. Kids(DOMAIN nd, level, lo, hi, 0, 0, W, low, high, level[a])
      BY ONLY <3>1, <3>2, <3>3
    <3>7. /\ Kids(DOMAIN nd, level, lo, hi, 0, 0, X, low, key, level[a])
          /\ Kids(DOMAIN nd, level, lo, hi, 0, 0, Y, key, high, level[a])
      BY ONLY <1>1, <3>6, CutChildren
    <3>8. ~ nd2[a].leaf /\ nd2[a].items = X /\ nd2[b].items = Y
      BY <1>5, <2>2
    <3> QED BY ONLY <1>3, <1>5, <3>2, <3>3, <3>5, <3>7, <3>8 DEF ShiftFits, InnerPair
  <2> QED BY <2>1, <2>2
<1>7. PICK lo2 : lo2 = [lo EXCEPT ![b] = key]
  OBVIOUS
<1>8. PICK hi2 : hi2 = [hi EXCEPT ![a] = key]
  OBVIOUS
<1>9. Shifted(nd, nd2, par, i, a, b, key) /\ Bounded(DOMAIN nd, lo, bound)
  OBVIOUS
<1>10. Structure(nd2, rt, 0, 0, level, lo2, hi2)
  BY ONLY <1>0, <1>6, <1>7, <1>8, <1>9, ShiftOK
<1>11. \E c : Bounded(DOMAIN nd2, lo2, c)
  <2>1. key \in Nat
    BY <1>6, TreeAssumption
  <2>2. \E c : Bounded(DOMAIN nd \cup {b}, lo2, c)
    BY ONLY <1>4, <1>7, <1>9, <2>1, BoundedMore
  <2>3. DOMAIN nd \cup {b} = DOMAIN nd2
    BY <1>3, <1>5
  <2> QED BY ONLY <2>2, <2>3
<1> QED BY ONLY <1>10, <1>11

(* The two pages and their parent get new entries; the children that move *)
(* get their new parent                                                   *)
KidsMoved(nd, nd2, a, b, X, Y, E) ==
    /\ \A c \in KidSet(E) : c \in KidSet(nd[a].items) \cup KidSet(nd[b].items)
    /\ \A c : c \in KidSet(X) \cup KidSet(Y) <=> c \in KidSet(nd[a].items) \cup KidSet(nd[b].items)
    /\ \A c \in KidSet(X) : nd2[c].parent = a
    /\ \A c \in KidSet(Y) : nd2[c].parent = b

MovedBy(nd, nd1, nd2, a, b, X, Y, E, f) ==
    IF nd[a].leaf THEN nd2 = nd1 ELSE Reparented(nd1, nd2, E, f) /\ KidsMoved(nd, nd2, a, b, X, Y, E)

LEMMA ShiftedIs ==
    ASSUME NEW nd, NEW rt, NEW level, NEW lo, NEW hi, NEW par, NEW i, NEW a, NEW b, NEW sep, NEW key,
           Siblings(nd, par, i, a, b), SiblingPlaces(nd, rt, level, lo, hi, par, a, b, sep),
           NEW nd1, NEW X, NEW Y, NEW Q, ThreeChanged(nd, nd1, a, b, par, X, Y, Q),
           Replaced(nd[par].items, Q, i, key), NEW nd2, NEW E, NEW f,
           MovedBy(nd, nd1, nd2, a, b, X, Y, E, f)
    PROVE  Shifted(nd, nd2, par, i, a, b, key) /\ nd2[a].items = X /\ nd2[b].items = Y
<1>1. /\ DOMAIN nd1 = DOMAIN nd /\ nd1 \in [DOMAIN nd -> PageType]
      /\ nd1[a].items = X /\ nd1[b].items = Y /\ nd1[par].items = Q
      /\ \A q \in DOMAIN nd : /\ nd1[q].leaf = nd[q].leaf /\ nd1[q].next = nd[q].next
                              /\ nd1[q].parent = nd[q].parent
                              /\ q \notin {a, b, par} => nd1[q].items = nd[q].items
  BY DEF ThreeChanged
<1>2. a \in DOMAIN nd /\ b \in DOMAIN nd
  BY DEF SiblingPlaces
<1>3. /\ par \in DOMAIN nd /\ ~ nd[par].leaf /\ i \in 2..Len(nd[par].items)
      /\ a = nd[par].items[i - 1][2] /\ b = nd[par].items[i][2]
  BY DEF Siblings
<1>4. CASE nd[a].leaf
  <2>1. nd2 = nd1
    BY <1>4 DEF MovedBy
  <2> QED BY <1>1, <1>3, <1>4, <2>1 DEF Shifted
<1>5. CASE ~ nd[a].leaf
  <2>1. Reparented(nd1, nd2, E, f) /\ KidsMoved(nd, nd2, a, b, X, Y, E)
    BY <1>5 DEF MovedBy
  <2>2. \A c \in KidSet(E) : c \in KidSet(nd[a].items) \cup KidSet(nd[b].items)
    BY ONLY <2>1 DEF KidsMoved
  <2>3. /\ DOMAIN nd2 = DOMAIN nd /\ nd2 \in [DOMAIN nd -> PageType]
        /\ \A q \in DOMAIN nd :
               /\ nd2[q].leaf = nd1[q].leaf /\ nd2[q].items = nd1[q].items /\ nd2[q].next = nd1[q].next
               /\ nd2[q].parent = IF q \in KidSet(E) THEN f ELSE nd1[q].parent
    BY ONLY <1>1, <2>1 DEF Reparented
  <2>4. nd2[a].items = X /\ nd2[b].items = Y /\ nd2[par].items = Q
    BY ONLY <1>1, <1>2, <1>3, <2>3
  <2>5. \A q \in DOMAIN nd :
           /\ nd2[q].leaf = nd[q].leaf /\ nd2[q].next = nd[q].next
           /\ q \notin {a, b, par} => nd2[q].items = nd[q].items
           /\ (nd[a].leaf \/ q \notin KidSet(nd[a].items) \cup KidSet(nd[b].items)) =>
                  nd2[q].parent = nd[q].parent
    BY ONLY <1>1, <1>5, <2>2, <2>3
  <2>6. /\ \A c \in KidSet(nd[a].items) \cup KidSet(nd[b].items) :
               c \in KidSet(nd2[a].items) \cup KidSet(nd2[b].items)
        /\ \A c \in KidSet(nd2[a].items) :
               c \in KidSet(nd[a].items) \cup KidSet(nd[b].items) /\ nd2[c].parent = a
        /\ \A c \in KidSet(nd2[b].items) :
               c \in KidSet(nd[a].items) \cup KidSet(nd[b].items) /\ nd2[c].parent = b
    BY ONLY <2>1, <2>4 DEF KidsMoved
  <2>7. Replaced(nd[par].items, nd2[par].items, i, key)
    BY <2>4
  <2> QED BY ONLY <1>3, <2>3, <2>4, <2>5, <2>6, <2>7 DEF Shifted
<1> QED BY <1>4, <1>5

(* No key moves out of the leaves *)
LEMMA ShiftStored ==
    ASSUME NEW nd, NEW rt, NEW level, NEW lo, NEW hi, NEW par, NEW i, NEW a, NEW b, NEW sep, NEW key,
           SiblingPlaces(nd, rt, level, lo, hi, par, a, b, sep), nd \in [DOMAIN nd -> PageType],
           NEW C, C \in Entries, NEW W, NEW X, NEW Y, Shared(nd, a, b, sep, C, W, X, Y, key),
           NEW nd2, nd2[a].items = X, nd2[b].items = Y, Shifted(nd, nd2, par, i, a, b, key)
    PROVE  Stored(nd2) = Stored(nd)
<1>1. /\ DOMAIN nd2 = DOMAIN nd /\ par \in DOMAIN nd /\ ~ nd[par].leaf
      /\ \A q \in DOMAIN nd : /\ nd2[q].leaf = nd[q].leaf
                              /\ q \notin {a, b, par} => nd2[q].items = nd[q].items
  BY DEF Shifted
<1>2. a \in DOMAIN nd /\ b \in DOMAIN nd /\ (nd[a].leaf <=> nd[b].leaf)
  BY DEF SiblingPlaces
<1>3. CASE ~ nd[a].leaf
  <2>1. \A q \in DOMAIN nd : nd[q].leaf => nd2[q].items = nd[q].items
    BY <1>1, <1>2, <1>3
  <2>2. \A q : (q \in DOMAIN nd2 /\ nd2[q].leaf) <=> (q \in DOMAIN nd /\ nd[q].leaf)
    BY <1>1
  <2> QED BY ONLY <2>1, <2>2, SameStored
<1>4. CASE nd[a].leaf
  <2>1. /\ C = nd[b].items /\ Joined(nd[a].items, C, W) /\ X \in Entries /\ Y \in Entries /\ Joined(X, Y, W)
    BY <1>4 DEF Shared, Continues
  <2>2. nd[a].items \in Entries
    BY <1>2 DEF PageType
  <2>3. ASSUME NEW k \in Keys
        PROVE  HasIn(X, k) \/ HasIn(Y, k) <=> HasIn(nd[a].items, k) \/ HasIn(nd[b].items, k)
    <3>1. HasIn(W, k) <=> HasIn(nd[a].items, k) \/ HasIn(C, k)
      BY <2>1, <2>2, JoinedHas
    <3>2. HasIn(W, k) <=> HasIn(X, k) \/ HasIn(Y, k)
      BY <2>1, JoinedHas
    <3> QED BY ONLY <2>1, <3>1, <3>2
  <2>4. ASSUME NEW k \in Keys
        PROVE  (\E q \in DOMAIN nd2 : nd2[q].leaf /\ HasIn(nd2[q].items, k)) <=>
               (\E q \in DOMAIN nd : nd[q].leaf /\ HasIn(nd[q].items, k))
    BY <1>1, <1>2, <1>4, <2>3
  <2> QED BY ONLY <2>4 DEF Stored
<1> QED BY <1>3, <1>4

(* Both pages are at least half full after it *)
LEMMA ShiftSizes ==
    ASSUME NEW nd, NEW rt, NEW par, NEW i, NEW a, NEW b, NEW key, NEW weak, weak \in {a, b},
           Sizes(nd, rt, weak), a \in DOMAIN nd, b \in DOMAIN nd, \A q \in DOMAIN nd : q # 0,
           NEW nd2, Shifted(nd, nd2, par, i, a, b, key), par # a, par # b,
           SizeOK(nd2, rt, 0, a), SizeOK(nd2, rt, 0, b)
    PROVE  Sizes(nd2, rt, 0)
<1>1. /\ DOMAIN nd2 = DOMAIN nd /\ par \in DOMAIN nd
      /\ Replaced(nd[par].items, nd2[par].items, i, key)
      /\ \A q \in DOMAIN nd : /\ nd2[q].leaf = nd[q].leaf
                              /\ q \notin {a, b, par} => nd2[q].items = nd[q].items
  BY DEF Shifted
<1>2. Len(nd2[par].items) = Len(nd[par].items)
  BY <1>1 DEF Replaced
<1>3. ASSUME NEW q \in DOMAIN nd, q # a, q # b PROVE SizeOK(nd2, rt, 0, q)
  <2>1. SizeOK(nd, rt, weak, q) /\ q # 0 /\ q # weak
    BY <1>3 DEF Sizes
  <2>2. SizeOK(nd, rt, 0, q)
    BY <2>1 DEF SizeOK, Missing
  <2>3. nd2[q].leaf = nd[q].leaf /\ Len(nd2[q].items) = Len(nd[q].items)
    BY <1>1, <1>2, <1>3
  <2> QED BY ONLY <2>2, <2>3, SameSize
<1> QED BY <1>1, <1>3 DEF Sizes

LEMMA GivesOne ==
    ASSUME NEW nd, NEW rt, NEW weak, NEW p, SizeOK(nd, rt, weak, p), p # 0, nd[p].leaf \in BOOLEAN,
           Len(nd[p].items) \in Nat, Len(nd[p].items) > HalfOf(nd, p),
           NEW nd2, nd2[p].leaf = nd[p].leaf, Len(nd2[p].items) = Len(nd[p].items) - 1
    PROVE  SizeOK(nd2, rt, 0, p)
<1>1. PICK n \in Nat : n = Len(nd[p].items)
  OBVIOUS
<1>2. Missing(0, p) = 0
  BY DEF Missing
<1>3. Len(nd2[p].items) = n - 1 /\ n <= MaxOf(nd, p) /\ n > HalfOf(nd, p)
  BY <1>1 DEF SizeOK
<1>4. MaxOf(nd2, p) = MaxOf(nd, p) /\ HalfOf(nd2, p) = HalfOf(nd, p)
  BY DEF MaxOf, HalfOf
<1>5. CASE nd[p].leaf
  <2>1. HalfOf(nd, p) \in Nat /\ HalfOf(nd, p) >= 1 /\ MaxOf(nd, p) \in Int
    BY <1>5, SizeBounds DEF HalfOf, MaxOf
  <2> QED BY <1>2, <1>3, <1>4, <1>5, <2>1 DEF SizeOK
<1>6. CASE ~ nd[p].leaf
  <2>1. HalfOf(nd, p) \in Nat /\ HalfOf(nd, p) >= 2 /\ MaxOf(nd, p) \in Int
    BY <1>6, SizeBounds DEF HalfOf, MaxOf
  <2> QED BY <1>2, <1>3, <1>4, <1>6, <2>1 DEF SizeOK
<1> QED BY <1>5, <1>6

LEMMA GetsOne ==
    ASSUME NEW nd, NEW rt, NEW p, SizeOK(nd, rt, p, p), p # 0, p # rt, nd[p].leaf \in BOOLEAN,
           Len(nd[p].items) \in Nat, Len(nd[p].items) < HalfOf(nd, p),
           NEW nd2, nd2[p].leaf = nd[p].leaf, Len(nd2[p].items) = Len(nd[p].items) + 1
    PROVE  SizeOK(nd2, rt, 0, p)
<1>1. PICK n \in Nat : n = Len(nd[p].items)
  OBVIOUS
<1>2. Missing(0, p) = 0 /\ Missing(p, p) = 1
  BY DEF Missing
<1>3. Len(nd2[p].items) = n + 1 /\ n + 1 >= HalfOf(nd, p) /\ n < HalfOf(nd, p)
  BY <1>1, <1>2 DEF SizeOK
<1>4. MaxOf(nd2, p) = MaxOf(nd, p) /\ HalfOf(nd2, p) = HalfOf(nd, p)
  BY DEF MaxOf, HalfOf
<1>5. CASE nd[p].leaf
  <2>1. HalfOf(nd, p) \in Nat /\ HalfOf(nd, p) >= 1 /\ MaxOf(nd, p) \in Int /\ HalfOf(nd, p) <= MaxOf(nd, p)
    BY <1>5, SizeBounds DEF HalfOf, MaxOf
  <2> QED BY <1>2, <1>3, <1>4, <1>5, <2>1 DEF SizeOK
<1>6. CASE ~ nd[p].leaf
  <2>1. HalfOf(nd, p) \in Nat /\ HalfOf(nd, p) >= 2 /\ MaxOf(nd, p) \in Int /\ HalfOf(nd, p) <= MaxOf(nd, p)
    BY <1>6, SizeBounds DEF HalfOf, MaxOf
  <2> QED BY <1>2, <1>3, <1>4, <1>6, <2>1 DEF SizeOK
<1> QED BY <1>5, <1>6

(* The children of an internal page know it as their parent *)
LEMMA KidParents ==
    ASSUME NEW nd, NEW rt, NEW level, NEW lo, NEW hi, Structure(nd, rt, 0, 0, level, lo, hi),
           NEW a, a \in DOMAIN nd, ~ nd[a].leaf
    PROVE  \A c \in KidSet(nd[a].items) : c \in DOMAIN nd /\ nd[c].parent = a
BY KidFacts DEF KidSet

(* The entry that moves from the first page to the second takes its child *)
LEMMA LastKidMoves ==
    ASSUME NEW nd, NEW rt, NEW level, NEW lo, NEW hi, Structure(nd, rt, 0, 0, level, lo, hi),
           NEW par, NEW a, NEW b, NEW sep, SiblingPlaces(nd, rt, level, lo, hi, par, a, b, sep), ~ nd[a].leaf,
           NEW C, C \in Entries, KidSet(C) = KidSet(nd[b].items), NEW W, Joined(nd[a].items, C, W),
           NEW last, last = nd[a].items[Len(nd[a].items)], Len(nd[a].items) >= 1,
           NEW X, X = Front(nd[a].items), NEW Y, Y = <<last>> \o C, NEW E, E = <<last>>,
           NEW nd1, DOMAIN nd1 = DOMAIN nd, \A q \in DOMAIN nd : nd1[q].parent = nd[q].parent,
           NEW nd2, Reparented(nd1, nd2, E, b)
    PROVE  KidsMoved(nd, nd2, a, b, X, Y, E)
<1>1. PICK A : A = nd[a].items
  OBVIOUS
<1>2. PICK n : n = Len(A)
  OBVIOUS
<1>3. Structure(nd, rt, 0, 0, level, lo, hi) /\ ~ nd[a].leaf
  OBVIOUS
<1>4. a \in DOMAIN nd /\ b \in DOMAIN nd /\ ~ nd[b].leaf
  BY DEF SiblingPlaces
<1>5. A \in Entries /\ n \in Nat /\ n >= 1 /\ last = A[n]
  BY <1>1, <1>2, <1>4, PageIds DEF Structure
<1>6. Joined(A, C, W) /\ C \in Entries /\ X = Front(A) /\ Y = << A[Len(A)] >> \o C /\ Len(A) >= 1
  BY <1>1, <1>2, <1>5
<1>7. X \in Entries /\ Y \in Entries /\ Len(X) = Len(A) - 1 /\ Joined(X, Y, W)
  <2>1. FrontMoved(A, C, W, X, Y)
    BY ONLY <1>5, <1>6, FrontJoins
  <2> QED BY ONLY <2>1 DEF FrontMoved
<1>8. KidSet(X) \cup KidSet(Y) = KidSet(A) \cup KidSet(C)
  <2>1. KidSet(W) = KidSet(A) \cup KidSet(C)
    BY ONLY <1>5, <1>6, JoinedKids
  <2>2. KidSet(W) = KidSet(X) \cup KidSet(Y)
    BY ONLY <1>7, JoinedKids
  <2> QED BY <2>1, <2>2
<1>9. E \in Entries /\ KidSet(E) = {last[2]} /\ last[2] \in KidSet(A)
  <2>1. PICK S : S = Nat \X Nat
    OBVIOUS
  <2>2. n \in 1..n
    BY <1>5
  <2>3. A \in Seq(S)
    BY <1>5, <2>1 DEF Entries
  <2>4. last \in S
    BY ONLY <1>2, <1>5, <2>2, <2>3, ElementOfSeq
  <2>5. E \in Seq(S) /\ Len(E) = 1 /\ E[1] = last
    BY ONLY <2>4, E = <<last>>
  <2>6. 1..Len(E) = {1}
    BY ONLY <2>5
  <2>7. KidSet(E) = {last[2]}
    BY ONLY <2>5, <2>6 DEF KidSet
  <2>8. last[2] \in KidSet(A)
    BY <1>2, <1>5, <2>2 DEF KidSet
  <2> QED BY <2>1, <2>5, <2>7, <2>8 DEF Entries
<1>10. KidSet(Y) = KidSet(E) \cup KidSet(C)
  <2>1. Y = E \o C
    OBVIOUS
  <2>2. Joined(E, C, Y)
    BY ONLY <1>6, <1>9, <2>1, ConcatJoins
  <2> QED BY ONLY <1>6, <1>9, <2>2, JoinedKids
<1>11. \A c \in KidSet(A) : c \in DOMAIN nd /\ nd[c].parent = a
  BY ONLY <1>1, <1>3, <1>4, KidParents
<1>12. \A c \in KidSet(C) : c \in DOMAIN nd /\ nd[c].parent = b
  BY ONLY <1>3, <1>4, KidSet(C) = KidSet(nd[b].items), KidParents
<1>13. \A q \in DOMAIN nd : nd2[q].parent = IF q \in KidSet(E) THEN b ELSE nd[q].parent
  BY DEF Reparented
<1>14. ASSUME NEW c \in KidSet(X) PROVE c \in KidSet(A) /\ c # last[2]
  <2>1. PICK j \in 1..(n - 1) : c = X[j][2]
    BY <1>2, <1>7 DEF KidSet
  <2>2. \A m \in 1..(n - 1) : W[m] = X[m]
    BY ONLY <1>2, <1>7 DEF Joined
  <2>3. j \in 1..n /\ n \in 1..n /\ j # n
    BY <1>5
  <2>4. \A m \in 1..n : W[m] = A[m]
    BY ONLY <1>2, <1>6 DEF Joined
  <2>5. c = A[j][2]
    BY ONLY <2>1, <2>2, <2>3, <2>4
  <2>6. A[j][2] # A[n][2]
    BY ONLY <1>1, <1>2, <1>3, <1>4, <2>3, KidsDistinct
  <2> QED BY <1>2, <1>5, <2>3, <2>5, <2>6 DEF KidSet
<1>15. \A c \in KidSet(X) : nd2[c].parent = a
  BY ONLY <1>9, <1>11, <1>13, <1>14
<1>16. \A c \in KidSet(Y) : nd2[c].parent = b
  BY ONLY <1>9, <1>10, <1>11, <1>12, <1>13
<1> QED BY ONLY <1>1, <1>8, <1>9, <1>15, <1>16, KidSet(C) = KidSet(nd[b].items) DEF KidsMoved

LEMMA FromLeftOK ==
    ASSUME NEW level, NEW lo, NEW hi, NEW bound, Structure(node, root, 0, 0, level, lo, hi),
           Bounded(DOMAIN node, lo, bound), NEW s, NEW p, NEW par, NEW i, Sizes(node, root, p),
           Siblings(node, par, i, s, p), Size(s) > GetMinSize(s), Size(p) < GetMinSize(p),
           RedistributeFromLeft(s, p, par, i)
    PROVE  TreeOK(node', root, Idle) /\ Stored(node') = Stored(node)
<1>1. Structure(node, root, 0, 0, level, lo, hi) /\ Bounded(DOMAIN node, lo, bound) /\ Siblings(node, par, i, s, p)
  OBVIOUS
<1>2. PICK sep : sep = node[par].items[i][1]
  OBVIOUS
<1>3. SiblingPlaces(node, root, level, lo, hi, par, s, p, sep)
  BY ONLY <1>1, <1>2, SiblingFacts
<1>4. /\ s \in DOMAIN node /\ p \in DOMAIN node /\ s # p /\ s # par /\ p # par /\ s # root /\ p # root
      /\ (node[s].leaf <=> node[p].leaf) /\ sep \in Keys
  BY ONLY <1>3 DEF SiblingPlaces
<1>5. /\ par \in DOMAIN node /\ i \in 2..Len(node[par].items)
  BY ONLY <1>1 DEF Siblings
<1>6. node \in [DOMAIN node -> PageType] /\ \A q \in DOMAIN node : q \in Nat /\ q # 0
  BY PageIds DEF Structure, TypesOK
<1>7. PICK A : A = node[s].items
  OBVIOUS
<1>8. PICK B : B = node[p].items
  OBVIOUS
<1>9. PICK I : I = node[par].items
  OBVIOUS
<1>10. /\ A \in Entries /\ B \in Entries /\ I \in Entries /\ Len(A) \in Nat /\ Len(B) \in Nat /\ Len(I) \in Nat
       /\ node[s].leaf \in BOOLEAN /\ node[p].leaf \in BOOLEAN
  BY <1>1, <1>4, <1>5, <1>7, <1>8, <1>9, PageIds DEF Structure
<1>11. PICK C : C = IF node[p].leaf THEN B ELSE [B EXCEPT ![1][1] = sep]
  OBVIOUS
<1>12. Continues(node, s, p, sep, C)
  <2>1. CASE node[s].leaf
    BY <1>4, <1>8, <1>11, <2>1 DEF Continues
  <2>2. CASE ~ node[s].leaf
    <3>1. Len(B) >= 1
      BY <1>1, <1>4, <1>8, <2>2 DEF Structure, InnerOK, InnerItems
    <3>2. sep \in Nat /\ C = [B EXCEPT ![1][1] = sep]
      BY <1>4, <1>11, <2>2, TreeAssumption
    <3>3. Rekeyed(B, C, sep)
      BY ONLY <1>10, <3>1, <3>2, RekeyedIs
    <3> QED BY <1>8, <2>2, <3>3 DEF Continues
  <2> QED BY <2>1, <2>2
<1>13. PICK W : W = A \o C
  OBVIOUS
<1>14. C \in Entries
  BY <1>8, <1>10, <1>12 DEF Continues, Rekeyed
<1>15. Joined(A, C, W)
  BY ONLY <1>10, <1>13, <1>14, ConcatJoins
<1>16. ~ node[s].leaf => KidSet(C) = KidSet(B)
  BY ONLY <1>1, <1>3, <1>7, <1>8, <1>12, <1>15, JoinedFits
<1>17. Len(A) > HalfOf(node, s) /\ Len(B) < HalfOf(node, p) /\ Len(A) >= 2
  <2>1. Len(A) > HalfOf(node, s) /\ Len(B) < HalfOf(node, p)
    BY <1>7, <1>8 DEF HalfOf, GetMinSize, Size
  <2>2. HalfOf(node, s) \in Nat /\ HalfOf(node, s) >= 1
    BY SizeBounds DEF HalfOf
  <2> QED BY <1>10, <2>1, <2>2
<1>18. PICK last : last = A[Len(A)]
  OBVIOUS
<1>19. PICK X : X = Front(A)
  OBVIOUS
<1>20. PICK E : E = <<last>>
  OBVIOUS
<1>21. PICK Y : Y = <<last>> \o C
  OBVIOUS
<1>22. /\ X \in Entries /\ Y \in Entries /\ Len(X) = Len(A) - 1 /\ Len(Y) = Len(C) + 1
       /\ Y[1] = last /\ Joined(X, Y, W)
  <2>1. Len(A) >= 1 /\ Y = << A[Len(A)] >> \o C
    BY <1>10, <1>17, <1>18, <1>21
  <2>2. FrontMoved(A, C, W, X, Y)
    BY ONLY <1>10, <1>14, <1>15, <1>19, <2>1, FrontJoins
  <2> QED BY ONLY <1>18, <2>2 DEF FrontMoved
<1>23. Len(C) = Len(B)
  BY <1>8, <1>12 DEF Continues, Rekeyed
<1>24. PICK key : key = last[1]
  OBVIOUS
<1>25. Shared(node, s, p, sep, C, W, X, Y, key)
  <2>1. Len(X) >= 1 /\ Len(Y) >= 1
    BY <1>10, <1>17, <1>22, <1>23
  <2> QED BY <1>7, <1>12, <1>15, <1>22, <1>24, <2>1 DEF Shared
<1>26. key \in Nat
  <2>1. PICK S : S = Nat \X Nat
    OBVIOUS
  <2>2. A \in Seq(S) /\ Len(A) \in 1..Len(A)
    BY <1>10, <1>17, <2>1 DEF Entries
  <2>3. last \in S
    BY ONLY <1>18, <2>2, ElementOfSeq
  <2> QED BY <1>24, <2>1, <2>3
<1>27. PICK Q : Q = [I EXCEPT ![i][1] = key]
  OBVIOUS
<1>28. Replaced(I, Q, i, key)
  <2>1. i \in 1..Len(I)
    BY <1>5, <1>9, <1>10
  <2> QED BY ONLY <1>10, <1>26, <1>27, <2>1, ReplacedIs
<1>29. Q \in Entries
  BY <1>28 DEF Replaced
<1>30. PICK nd1 : nd1 = [node EXCEPT ![s].items = X, ![p].items = Y, ![par].items = Q]
  OBVIOUS
<1>31. ThreeChanged(node, nd1, s, p, par, X, Y, Q)
  BY ONLY <1>4, <1>5, <1>6, <1>22, <1>29, <1>30, ThreeItems
<1>32. node' = IF node[p].leaf THEN nd1 ELSE Reparent(nd1, E, p)
  <2> DEFINE last0 == node[s].items[Size(s)]
             own0 == IF node[p].leaf THEN node[p].items
                                     ELSE [node[p].items EXCEPT ![1][1] = KeyAt(par, i)]
             moved0 == [node EXCEPT ![s].items = Front(@),
                                    ![p].items = <<last0>> \o own0,
                                    ![par].items[i][1] = last0[1]]
  <2>1. node' = IF node[p].leaf THEN moved0 ELSE Reparent(moved0, <<last0>>, p)
    BY Zenon DEF RedistributeFromLeft
  <2>2. last0 = last
    BY ONLY <1>7, <1>18 DEF Size
  <2>3. own0 = C
    BY ONLY <1>2, <1>8, <1>11 DEF KeyAt
  <2> HIDE DEF own0, last0
  <2>4. moved0 = nd1
    <3>1. moved0 = [node EXCEPT ![s].items = X, ![p].items = Y, ![par].items[i][1] = key]
      BY <1>7, <1>19, <1>21, <1>24, <2>2, <2>3
    <3>2. PICK u : u = [node EXCEPT ![s].items = X, ![p].items = Y]
      OBVIOUS
    <3>3. moved0 = [u EXCEPT ![par].items[i][1] = key] /\ nd1 = [u EXCEPT ![par].items = Q]
      BY <1>30, <3>1, <3>2
    <3>4. u[par] = node[par]
      BY <1>4, <1>5, <3>2
    <3> HIDE DEF moved0
    <3>5. [u EXCEPT ![par].items[i][1] = key] = [u EXCEPT ![par].items = [u[par].items EXCEPT ![i][1] = key]]
      OBVIOUS
    <3> QED BY ONLY <1>9, <1>27, <3>3, <3>4, <3>5
  <2> HIDE DEF moved0
  <2> QED BY ONLY <1>20, <2>1, <2>2, <2>4
<1>33. PICK nd2 : nd2 = IF node[p].leaf THEN nd1 ELSE Reparent(nd1, E, p)
  OBVIOUS
<1>34. /\ DOMAIN nd1 = DOMAIN node /\ nd1 \in [DOMAIN nd1 -> PageType]
       /\ \A q \in DOMAIN node : nd1[q].parent = node[q].parent
  BY ONLY <1>31 DEF ThreeChanged
<1>35. MovedBy(node, nd1, nd2, s, p, X, Y, E, p)
  <2>1. CASE node[s].leaf
    BY <1>4, <1>33, <2>1 DEF MovedBy
  <2>2. CASE ~ node[s].leaf
    <3>1. nd2 = Reparent(nd1, E, p) /\ p \in Nat
      BY <1>4, <1>6, <1>33, <2>2
    <3>2. E \in Entries
      <4>1. PICK S : S = Nat \X Nat
        OBVIOUS
      <4>2. A \in Seq(S) /\ Len(A) \in 1..Len(A)
        BY <1>10, <1>17, <4>1 DEF Entries
      <4>3. last \in S
        BY ONLY <1>18, <4>2, ElementOfSeq
      <4> QED BY <1>20, <4>1, <4>3 DEF Entries
    <3>3. Reparented(nd1, nd2, E, p)
      BY ONLY <1>34, <3>1, <3>2, ReparentIs
    <3>4. Len(A) >= 1
      BY <1>10, <1>17
    <3>5. /\ KidSet(C) = KidSet(node[p].items) /\ Joined(node[s].items, C, W) /\ Len(node[s].items) >= 1
          /\ last = node[s].items[Len(node[s].items)] /\ X = Front(node[s].items)
      BY <1>7, <1>8, <1>15, <1>16, <1>18, <1>19, <2>2, <3>4
    <3>6. KidsMoved(node, nd2, s, p, X, Y, E)
      BY ONLY <1>1, <1>3, <1>14, <1>20, <1>21, <1>34, <2>2, <3>3, <3>5, LastKidMoves
    <3> QED BY ONLY <2>2, <3>3, <3>6 DEF MovedBy
  <2> QED BY ONLY <2>1, <2>2
<1>36. Replaced(node[par].items, Q, i, key)
  BY <1>9, <1>28
<1>37. Shifted(node, nd2, par, i, s, p, key) /\ nd2[s].items = X /\ nd2[p].items = Y
  BY ONLY <1>1, <1>3, <1>31, <1>35, <1>36, ShiftedIs
<1>38. PICK lo2, hi2, bound2 : /\ Structure(nd2, root, 0, 0, level, lo2, hi2)
                               /\ Bounded(DOMAIN nd2, lo2, bound2)
  BY ONLY <1>1, <1>3, <1>25, <1>37, ShiftTree
<1>39. Stored(nd2) = Stored(node)
  BY ONLY <1>3, <1>6, <1>14, <1>25, <1>37, ShiftStored
<1>40. nd2[s].leaf = node[s].leaf /\ nd2[p].leaf = node[p].leaf
  BY ONLY <1>4, <1>37 DEF Shifted
<1>41. SizeOK(nd2, root, 0, s)
  <2>1. SizeOK(node, root, p, s) /\ s # 0
    BY <1>4, <1>6 DEF Sizes
  <2> QED BY ONLY <1>7, <1>10, <1>17, <1>22, <1>37, <1>40, <2>1, GivesOne
<1>42. SizeOK(nd2, root, 0, p)
  <2>1. SizeOK(node, root, p, p) /\ p # 0
    BY <1>4, <1>6 DEF Sizes
  <2> QED BY ONLY <1>4, <1>8, <1>10, <1>17, <1>22, <1>23, <1>37, <1>40, <2>1, GetsOne
<1>43. Sizes(nd2, root, 0)
  <2>1. p \in {s, p} /\ Sizes(node, root, p)
    OBVIOUS
  <2> QED BY ONLY <1>4, <1>6, <1>37, <1>41, <1>42, <2>1, ShiftSizes
<1>44. OpOK(Idle, DOMAIN nd2, 0, 0, 0, lo2)
  BY DEF OpOK
<1>45. TreeOK(nd2, root, Idle)
  BY ONLY <1>38, <1>43, <1>44, BuildsWhole
<1> QED BY <1>32, <1>33, <1>39, <1>45

(* The entry that moves from the second page to the first takes its child *)
LEMMA FirstKidMoves ==
    ASSUME NEW nd, NEW rt, NEW level, NEW lo, NEW hi, Structure(nd, rt, 0, 0, level, lo, hi),
           NEW par, NEW a, NEW b, NEW sep, SiblingPlaces(nd, rt, level, lo, hi, par, a, b, sep), ~ nd[a].leaf,
           NEW C, Rekeyed(nd[b].items, C, sep), KidSet(C) = KidSet(nd[b].items),
           NEW W, Joined(nd[a].items, C, W), Len(nd[b].items) >= 2,
           NEW first, first = C[1], NEW X, X = Append(nd[a].items, first), NEW Y, Y = Tail(nd[b].items),
           NEW E, E = <<first>>,
           NEW nd1, DOMAIN nd1 = DOMAIN nd, \A q \in DOMAIN nd : nd1[q].parent = nd[q].parent,
           NEW nd2, Reparented(nd1, nd2, E, a)
    PROVE  KidsMoved(nd, nd2, a, b, X, Y, E)
<1>1. PICK A : A = nd[a].items
  OBVIOUS
<1>2. PICK B : B = nd[b].items
  OBVIOUS
<1>3. Structure(nd, rt, 0, 0, level, lo, hi) /\ ~ nd[a].leaf
  OBVIOUS
<1>4. a \in DOMAIN nd /\ b \in DOMAIN nd /\ ~ nd[b].leaf
  BY DEF SiblingPlaces
<1>5. A \in Entries /\ B \in Entries /\ Len(B) \in Nat
  BY <1>1, <1>2, <1>4, PageIds DEF Structure
<1>6. PICK n \in Nat : n = Len(B)
  BY ONLY <1>5
<1>7. /\ Joined(A, C, W) /\ C \in Entries /\ Len(C) = Len(B) /\ Len(B) >= 2 /\ \A m \in 2..Len(B) : C[m] = B[m]
      /\ X = Append(A, C[1]) /\ Y = Tail(B)
  BY <1>1, <1>2 DEF Rekeyed
<1>8. X \in Entries /\ Y \in Entries /\ Len(Y) = Len(B) - 1 /\ Joined(X, Y, W)
  <2>1. TailMoved(A, B, W, X, Y)
    BY ONLY <1>5, <1>7, TailJoins
  <2> QED BY ONLY <2>1 DEF TailMoved
<1>9. KidSet(X) \cup KidSet(Y) = KidSet(A) \cup KidSet(C)
  <2>1. KidSet(W) = KidSet(A) \cup KidSet(C)
    BY ONLY <1>5, <1>7, JoinedKids
  <2>2. KidSet(W) = KidSet(X) \cup KidSet(Y)
    BY ONLY <1>8, JoinedKids
  <2> QED BY <2>1, <2>2
<1>10. 1 \in 1..n /\ n >= 2
  BY <1>6, <1>7
<1>11. PICK S : S = Nat \X Nat
  OBVIOUS
<1>12. C \in Seq(S) /\ A \in Seq(S) /\ B \in Seq(S)
  BY <1>5, <1>7, <1>11 DEF Entries
<1>13. first \in S
  BY ONLY <1>6, <1>7, <1>10, <1>12, first = C[1], ElementOfSeq
<1>14. E \in Entries /\ KidSet(E) = {first[2]}
  <2>1. E \in Seq(S) /\ Len(E) = 1 /\ E[1] = first
    BY ONLY <1>13, E = <<first>>
  <2>2. 1..Len(E) = {1}
    BY ONLY <2>1
  <2>3. KidSet(E) = {first[2]}
    BY ONLY <2>1, <2>2 DEF KidSet
  <2> QED BY <1>11, <2>1, <2>3 DEF Entries
<1>15. first[2] = B[1][2] /\ first[2] \in KidSet(B)
  <2>1. first[2] = B[1][2]
    BY <1>2 DEF Rekeyed
  <2> QED BY ONLY <1>6, <1>10, <2>1 DEF KidSet
<1>16. KidSet(X) = KidSet(A) \cup KidSet(E)
  <2>1. X = A \o E
    <3>1. X = Append(A, first) /\ E = <<first>>
      BY ONLY <1>7, first = C[1], E = <<first>>
    <3>2. Append(A, first) = A \o <<first>>
      BY ONLY <1>12, <1>13, AppendIsConcat
    <3> QED BY ONLY <3>1, <3>2
  <2>2. Joined(A, E, X)
    BY ONLY <1>5, <1>14, <2>1, ConcatJoins
  <2> QED BY ONLY <1>5, <1>14, <2>2, JoinedKids
<1>17. \A c \in KidSet(A) : c \in DOMAIN nd /\ nd[c].parent = a
  BY ONLY <1>1, <1>3, <1>4, KidParents
<1>18. \A c \in KidSet(B) : c \in DOMAIN nd /\ nd[c].parent = b
  BY ONLY <1>2, <1>3, <1>4, KidParents
<1>19. \A q \in DOMAIN nd : nd2[q].parent = IF q \in KidSet(E) THEN a ELSE nd[q].parent
  BY DEF Reparented
<1>20. ASSUME NEW c \in KidSet(Y) PROVE c \in KidSet(B) /\ c # first[2]
  <2>1. PICK j \in 1..(n - 1) : c = Y[j][2]
    BY <1>6, <1>8 DEF KidSet
  <2>2. B # << >>
    BY <1>6, <1>10, <1>12, EmptySeq
  <2>3. \A m \in 1..Len(Y) : Y[m] = B[m + 1]
    BY ONLY <1>7, <1>12, <2>2, HeadTailProperties
  <2>4. PICK w : w = j + 1
    OBVIOUS
  <2>5. w \in 1..n /\ w # 1 /\ j \in 1..Len(Y)
    BY <1>6, <1>8, <2>4
  <2>6. c = B[w][2]
    BY ONLY <2>1, <2>3, <2>4, <2>5
  <2>7. B[w][2] # B[1][2]
    BY ONLY <1>2, <1>3, <1>4, <1>6, <1>10, <2>5, KidsDistinct
  <2> QED BY <1>6, <1>15, <2>5, <2>6, <2>7 DEF KidSet
<1>21. \A c \in KidSet(Y) : nd2[c].parent = b
  BY ONLY <1>14, <1>18, <1>19, <1>20
<1>22. \A c \in KidSet(X) : nd2[c].parent = a
  BY ONLY <1>14, <1>15, <1>16, <1>17, <1>18, <1>19
<1> QED BY ONLY <1>1, <1>2, <1>9, <1>14, <1>15, <1>21, <1>22, KidSet(C) = KidSet(nd[b].items) DEF KidsMoved

LEMMA FromRightOK ==
    ASSUME NEW level, NEW lo, NEW hi, NEW bound, Structure(node, root, 0, 0, level, lo, hi),
           Bounded(DOMAIN node, lo, bound), NEW s, NEW p, NEW par, NEW i, NEW j, j = i + 1, Sizes(node, root, p),
           Siblings(node, par, j, p, s), Size(s) > GetMinSize(s), Size(p) < GetMinSize(p),
           RedistributeFromRight(s, p, par, i)
    PROVE  TreeOK(node', root, Idle) /\ Stored(node') = Stored(node)
<1>1. Structure(node, root, 0, 0, level, lo, hi) /\ Bounded(DOMAIN node, lo, bound) /\ Siblings(node, par, j, p, s)
  OBVIOUS
<1>2. PICK sep : sep = node[par].items[j][1]
  OBVIOUS
<1>3. SiblingPlaces(node, root, level, lo, hi, par, p, s, sep)
  BY ONLY <1>1, <1>2, SiblingFacts
<1>4. /\ s \in DOMAIN node /\ p \in DOMAIN node /\ s # p /\ s # par /\ p # par /\ s # root /\ p # root
      /\ (node[p].leaf <=> node[s].leaf) /\ sep \in Keys
  BY ONLY <1>3 DEF SiblingPlaces
<1>5. /\ par \in DOMAIN node /\ j \in 2..Len(node[par].items)
  BY ONLY <1>1 DEF Siblings
<1>6. node \in [DOMAIN node -> PageType] /\ \A q \in DOMAIN node : q \in Nat /\ q # 0
  BY PageIds DEF Structure, TypesOK
<1>7. PICK A : A = node[p].items
  OBVIOUS
<1>8. PICK B : B = node[s].items
  OBVIOUS
<1>9. PICK I : I = node[par].items
  OBVIOUS
<1>10. /\ A \in Entries /\ B \in Entries /\ I \in Entries /\ Len(A) \in Nat /\ Len(B) \in Nat /\ Len(I) \in Nat
       /\ node[s].leaf \in BOOLEAN /\ node[p].leaf \in BOOLEAN
  BY <1>1, <1>4, <1>5, <1>7, <1>8, <1>9, PageIds DEF Structure
<1>11. PICK C : C = IF node[p].leaf THEN B ELSE [B EXCEPT ![1][1] = sep]
  OBVIOUS
<1>12. Len(B) > HalfOf(node, s) /\ Len(A) < HalfOf(node, p) /\ Len(B) >= 2
  <2>1. Len(B) > HalfOf(node, s) /\ Len(A) < HalfOf(node, p)
    BY <1>7, <1>8 DEF HalfOf, GetMinSize, Size
  <2>2. HalfOf(node, s) \in Nat /\ HalfOf(node, s) >= 1
    BY SizeBounds DEF HalfOf
  <2> QED BY <1>10, <2>1, <2>2
<1>13. ~ node[p].leaf => Rekeyed(B, C, sep)
  <2>1. SUFFICES ASSUME ~ node[p].leaf PROVE Rekeyed(B, C, sep)
    OBVIOUS
  <2>2. sep \in Nat /\ C = [B EXCEPT ![1][1] = sep] /\ Len(B) >= 1
    BY <1>4, <1>10, <1>11, <1>12, <2>1, TreeAssumption
  <2> QED BY ONLY <1>10, <2>2, RekeyedIs
<1>14. Continues(node, p, s, sep, C)
  BY <1>8, <1>11, <1>13 DEF Continues
<1>15. C \in Entries /\ Len(C) = Len(B) /\ \A m \in 2..Len(B) : C[m] = B[m]
  <2>1. CASE node[p].leaf
    <3>1. C = B
      BY <1>11, <2>1
    <3> QED BY ONLY <1>10, <3>1
  <2>2. CASE ~ node[p].leaf
    BY <1>13, <2>2 DEF Rekeyed
  <2> QED BY <2>1, <2>2
<1>16. PICK W : W = A \o C
  OBVIOUS
<1>17. Joined(A, C, W)
  BY ONLY <1>10, <1>15, <1>16, ConcatJoins
<1>18. ~ node[p].leaf => KidSet(C) = KidSet(B)
  BY ONLY <1>1, <1>3, <1>7, <1>8, <1>14, <1>17, JoinedFits
<1>19. PICK first : first = C[1]
  OBVIOUS
<1>20. PICK E : E = <<first>>
  OBVIOUS
<1>21. PICK X : X = Append(A, first)
  OBVIOUS
<1>22. PICK Y : Y = Tail(B)
  OBVIOUS
<1>23. /\ X \in Entries /\ Y \in Entries /\ Len(X) = Len(A) + 1 /\ Len(Y) = Len(B) - 1
       /\ Y[1] = B[2] /\ Joined(X, Y, W)
  <2>1. X = Append(A, C[1])
    BY <1>19, <1>21
  <2>2. TailMoved(A, B, W, X, Y)
    BY ONLY <1>10, <1>12, <1>15, <1>17, <1>22, <2>1, TailJoins
  <2> QED BY ONLY <2>2 DEF TailMoved
<1>24. PICK key : key = B[2][1]
  OBVIOUS
<1>25. Shared(node, p, s, sep, C, W, X, Y, key)
  <2>1. Len(X) >= 1 /\ Len(Y) >= 1
    BY <1>10, <1>12, <1>23
  <2> QED BY <1>7, <1>14, <1>17, <1>23, <1>24, <2>1 DEF Shared
<1>26. key \in Nat /\ first \in Nat \X Nat
  <2>1. PICK S : S = Nat \X Nat
    OBVIOUS
  <2>2. B \in Seq(S) /\ 2 \in 1..Len(B) /\ C \in Seq(S) /\ 1 \in 1..Len(C)
    BY <1>10, <1>12, <1>15, <2>1 DEF Entries
  <2>3. B[2] \in S /\ C[1] \in S
    BY ONLY <2>2, ElementOfSeq
  <2> QED BY <1>19, <1>24, <2>1, <2>3
<1>27. PICK Q : Q = [I EXCEPT ![j][1] = key]
  OBVIOUS
<1>28. Replaced(I, Q, j, key)
  <2>1. j \in 1..Len(I)
    BY <1>5, <1>9, <1>10
  <2> QED BY ONLY <1>10, <1>26, <1>27, <2>1, ReplacedIs
<1>29. Q \in Entries
  BY <1>28 DEF Replaced
<1>30. PICK nd1 : nd1 = [node EXCEPT ![s].items = Y, ![p].items = X, ![par].items = Q]
  OBVIOUS
<1>31. ThreeChanged(node, nd1, p, s, par, X, Y, Q)
  <2>1. ThreeChanged(node, nd1, s, p, par, Y, X, Q)
    BY ONLY <1>4, <1>5, <1>6, <1>23, <1>29, <1>30, ThreeItems
  <2> QED BY ONLY <2>1 DEF ThreeChanged
<1>32. node' = IF node[p].leaf THEN nd1 ELSE Reparent(nd1, E, p)
  <2> DEFINE first0 == IF node[p].leaf THEN node[s].items[1]
                                       ELSE <<KeyAt(par, i + 1), ValueAt(s, 1)>>
             moved0 == [node EXCEPT ![s].items = Tail(@),
                                    ![p].items = Append(@, first0),
                                    ![par].items[i + 1][1] = KeyAt(s, 2)]
  <2>1. node' = IF node[p].leaf THEN moved0 ELSE Reparent(moved0, <<first0>>, p)
    BY Zenon DEF RedistributeFromRight
  <2>2. first0 = first
    <3>1. CASE node[p].leaf
      BY <1>8, <1>11, <1>19, <3>1
    <3>2. CASE ~ node[p].leaf
      <4>1. first = <<sep, B[1][2]>>
        BY <1>13, <1>19, <3>2 DEF Rekeyed
      <4>2. first0 = <<node[par].items[i + 1][1], node[s].items[1][2]>>
        BY <3>2 DEF KeyAt, ValueAt
      <4>3. j = i + 1
        OBVIOUS
      <4> QED BY ONLY <1>2, <1>8, <4>1, <4>2, <4>3
    <3> QED BY <3>1, <3>2
  <2> HIDE DEF first0
  <2>3. moved0 = nd1
    <3>1. PICK u : u = [node EXCEPT ![s].items = Y]
      OBVIOUS
    <3>2. PICK v : v = [u EXCEPT ![p].items = X]
      OBVIOUS
    <3>3. u[p] = node[p] /\ v[par] = node[par]
      BY <1>4, <1>5, <3>1, <3>2
    <3>4. moved0 = [v EXCEPT ![par].items[j][1] = key]
      <4>1. KeyAt(s, 2) = key
        BY <1>8, <1>24 DEF KeyAt
      <4>2. j = i + 1
        OBVIOUS
      <4>3. moved0 = [node EXCEPT ![s].items = Y, ![p].items = Append(@, first), ![par].items[j][1] = key]
        BY ONLY <1>8, <1>22, <2>2, <4>1, <4>2
      <4> HIDE DEF moved0
      <4>4. moved0 = [node EXCEPT ![s].items = Y, ![p].items = X, ![par].items[j][1] = key]
        BY ONLY <1>4, <1>7, <1>21, <4>3
      <4> QED BY ONLY <3>1, <3>2, <4>4
    <3> HIDE DEF moved0
    <3>5. nd1 = [v EXCEPT ![par].items = Q]
      BY <1>30, <3>1, <3>2
    <3>6. [v EXCEPT ![par].items[j][1] = key] = [v EXCEPT ![par].items = [v[par].items EXCEPT ![j][1] = key]]
      OBVIOUS
    <3> QED BY ONLY <1>9, <1>27, <3>3, <3>4, <3>5, <3>6
  <2> HIDE DEF moved0
  <2> QED BY ONLY <1>20, <2>1, <2>2, <2>3
<1>33. PICK nd2 : nd2 = IF node[p].leaf THEN nd1 ELSE Reparent(nd1, E, p)
  OBVIOUS
<1>34. /\ DOMAIN nd1 = DOMAIN node /\ nd1 \in [DOMAIN nd1 -> PageType]
       /\ \A q \in DOMAIN node : nd1[q].parent = node[q].parent
  BY ONLY <1>31 DEF ThreeChanged
<1>35. MovedBy(node, nd1, nd2, p, s, X, Y, E, p)
  <2>1. CASE node[p].leaf
    BY <1>33, <2>1 DEF MovedBy
  <2>2. CASE ~ node[p].leaf
    <3>1. nd2 = Reparent(nd1, E, p) /\ p \in Nat
      BY <1>4, <1>6, <1>33, <2>2
    <3>2. E \in Entries
      BY <1>20, <1>26 DEF Entries
    <3>3. Reparented(nd1, nd2, E, p)
      BY ONLY <1>34, <3>1, <3>2, ReparentIs
    <3>4. /\ Rekeyed(node[s].items, C, sep) /\ KidSet(C) = KidSet(node[s].items)
          /\ Joined(node[p].items, C, W) /\ Len(node[s].items) >= 2
          /\ X = Append(node[p].items, first) /\ Y = Tail(node[s].items)
      BY <1>7, <1>8, <1>12, <1>13, <1>17, <1>18, <1>21, <1>22, <2>2
    <3>5. KidsMoved(node, nd2, p, s, X, Y, E)
      BY ONLY <1>1, <1>3, <1>19, <1>20, <1>34, <2>2, <3>3, <3>4, FirstKidMoves
    <3> QED BY ONLY <2>2, <3>3, <3>5 DEF MovedBy
  <2> QED BY ONLY <2>1, <2>2
<1>36. Replaced(node[par].items, Q, j, key)
  BY <1>9, <1>28
<1>37. Shifted(node, nd2, par, j, p, s, key) /\ nd2[p].items = X /\ nd2[s].items = Y
  BY ONLY <1>1, <1>3, <1>31, <1>35, <1>36, ShiftedIs
<1>38. PICK lo2, hi2, bound2 : /\ Structure(nd2, root, 0, 0, level, lo2, hi2)
                               /\ Bounded(DOMAIN nd2, lo2, bound2)
  BY ONLY <1>1, <1>3, <1>25, <1>37, ShiftTree
<1>39. Stored(nd2) = Stored(node)
  BY ONLY <1>3, <1>6, <1>15, <1>25, <1>37, ShiftStored
<1>40. nd2[s].leaf = node[s].leaf /\ nd2[p].leaf = node[p].leaf
  BY ONLY <1>4, <1>37 DEF Shifted
<1>41. SizeOK(nd2, root, 0, s)
  <2>1. SizeOK(node, root, p, s) /\ s # 0
    BY <1>4, <1>6 DEF Sizes
  <2> QED BY ONLY <1>8, <1>10, <1>12, <1>23, <1>37, <1>40, <2>1, GivesOne
<1>42. SizeOK(nd2, root, 0, p)
  <2>1. SizeOK(node, root, p, p) /\ p # 0
    BY <1>4, <1>6 DEF Sizes
  <2> QED BY ONLY <1>4, <1>7, <1>10, <1>12, <1>23, <1>37, <1>40, <2>1, GetsOne
<1>43. Sizes(nd2, root, 0)
  <2>1. p \in {p, s} /\ Sizes(node, root, p)
    OBVIOUS
  <2> QED BY ONLY <1>4, <1>6, <1>37, <1>41, <1>42, <2>1, ShiftSizes
<1>44. OpOK(Idle, DOMAIN nd2, 0, 0, 0, lo2)
  BY DEF OpOK
<1>45. TreeOK(nd2, root, Idle)
  BY ONLY <1>38, <1>43, <1>44, BuildsWhole
<1> QED BY <1>32, <1>33, <1>39, <1>45
-----------------------------------------------------------------------------
(* One page gets the entries of both, the other is dropped *)
TwoChanged(nd, nd1, a, b, par, W, R) ==
    /\ DOMAIN nd1 = DOMAIN nd \ {b} /\ nd1 \in [DOMAIN nd1 -> PageType]
    /\ nd1[a].items = W /\ nd1[a].next = nd[b].next /\ nd1[par].items = R
    /\ \A q \in DOMAIN nd1 : /\ nd1[q].leaf = nd[q].leaf /\ nd1[q].parent = nd[q].parent
                             /\ q # a => nd1[q].next = nd[q].next
                             /\ q \notin {a, par} => nd1[q].items = nd[q].items

LEMMA TwoItems ==
    ASSUME NEW nd, nd \in [DOMAIN nd -> PageType], NEW a, a \in DOMAIN nd, NEW b, b \in DOMAIN nd,
           NEW par, par \in DOMAIN nd, a # b, a # par, b # par, NEW W, W \in Entries, NEW R, R \in Entries,
           NEW less, less = [q \in DOMAIN nd \ {b} |-> nd[q]],
           NEW nd1, nd1 = [less EXCEPT ![a].items = W, ![a].next = nd[b].next, ![par].items = R]
    PROVE  TwoChanged(nd, nd1, a, b, par, W, R)
<1>1. DOMAIN less = DOMAIN nd \ {b} /\ \A q \in DOMAIN less : less[q] = nd[q]
  OBVIOUS
<1>2. a \in DOMAIN less /\ par \in DOMAIN less
  BY <1>1
<1>3. \A q \in DOMAIN nd : nd[q] \in PageType
  OBVIOUS
<1>4. PICK u : u = [less EXCEPT ![a] = [nd[a] EXCEPT !.items = W, !.next = nd[b].next]]
  OBVIOUS
<1>5. DOMAIN u = DOMAIN less /\ \A q \in DOMAIN less : q # a => u[q] = nd[q]
  BY <1>1, <1>4
<1>6. u[a] = [nd[a] EXCEPT !.items = W, !.next = nd[b].next]
  BY <1>2, <1>4
<1>7. nd1 = [u EXCEPT ![par].items = R]
  <2>1. less[a] = nd[a]
    BY <1>1, <1>2
  <2>2. [less EXCEPT ![a].items = W, ![a].next = nd[b].next] = u
    BY <1>2, <1>4, <2>1
  <2> QED BY <2>2
<1>8. nd[a] \in PageType /\ nd[b] \in PageType
  BY <1>3
<1>9. /\ u[a] \in PageType /\ u[a].items = W /\ u[a].next = nd[b].next
      /\ u[a].leaf = nd[a].leaf /\ u[a].parent = nd[a].parent
  BY ONLY <1>6, <1>8, W \in Entries DEF PageType
<1>10. u \in [DOMAIN u -> PageType]
  <2>1. \A q \in DOMAIN u : u[q] \in PageType
    BY <1>1, <1>3, <1>5, <1>9
  <2>2. u = [q \in DOMAIN u |-> u[q]]
    BY <1>4
  <2> QED BY ONLY <2>1, <2>2
<1>11. OneChanged(u, nd1, par, R)
  <2>1. par \in DOMAIN u /\ R \in Entries
    BY <1>2, <1>5
  <2> QED BY ONLY <1>7, <1>10, <2>1, OneItem
<1>12. /\ DOMAIN nd1 = DOMAIN u /\ nd1 \in [DOMAIN u -> PageType] /\ nd1[par].items = R
       /\ \A q \in DOMAIN u : /\ nd1[q].leaf = u[q].leaf /\ nd1[q].next = u[q].next
                              /\ nd1[q].parent = u[q].parent /\ (q # par => nd1[q].items = u[q].items)
  BY ONLY <1>11 DEF OneChanged
<1>13. ASSUME NEW q \in DOMAIN u
       PROVE  /\ nd1[q].leaf = nd[q].leaf /\ nd1[q].parent = nd[q].parent
              /\ q # a => nd1[q].next = nd[q].next
              /\ q \notin {a, par} => nd1[q].items = nd[q].items
  <2>1. CASE q = a
    BY <1>9, <1>12, <2>1
  <2>2. CASE q # a
    <3>1. u[q] = nd[q]
      BY <1>5, <2>2
    <3> QED BY <1>12, <2>2, <3>1, ZenonT(40)
  <2> QED BY <2>1, <2>2
<1>14. nd1[a].items = W /\ nd1[a].next = nd[b].next
  BY <1>2, <1>5, <1>9, <1>12
<1> QED BY ONLY <1>1, <1>5, <1>12, <1>13, <1>14 DEF TwoChanged

LEMMA MergedIs ==
    ASSUME NEW nd, NEW rt, NEW level, NEW lo, NEW hi, Structure(nd, rt, 0, 0, level, lo, hi),
           NEW par, NEW i, NEW a, NEW b, NEW sep,
           Siblings(nd, par, i, a, b), SiblingPlaces(nd, rt, level, lo, hi, par, a, b, sep),
           NEW nd1, NEW W, NEW R, TwoChanged(nd, nd1, a, b, par, W, R), Removed(nd[par].items, R, i),
           NEW C, C \in Entries, Joined(nd[a].items, C, W), NEW nd2,
           IF nd[a].leaf THEN nd2 = nd1 ELSE Reparented(nd1, nd2, C, a) /\ KidSet(C) = KidSet(nd[b].items)
    PROVE  Merged(nd, nd2, par, i, a, b) /\ nd2[a].items = W
<1>1. /\ DOMAIN nd1 = DOMAIN nd \ {b} /\ nd1 \in [DOMAIN nd1 -> PageType]
      /\ nd1[a].items = W /\ nd1[a].next = nd[b].next /\ nd1[par].items = R
      /\ \A q \in DOMAIN nd1 : /\ nd1[q].leaf = nd[q].leaf /\ nd1[q].parent = nd[q].parent
                               /\ q # a => nd1[q].next = nd[q].next
                               /\ q \notin {a, par} => nd1[q].items = nd[q].items
  BY DEF TwoChanged
<1>2. /\ a \in DOMAIN nd /\ b \in DOMAIN nd /\ a # b /\ b # par /\ level[a] = level[b]
      /\ (nd[a].leaf <=> nd[b].leaf)
  BY DEF SiblingPlaces
<1>3. /\ par \in DOMAIN nd /\ ~ nd[par].leaf /\ i \in 2..Len(nd[par].items)
      /\ a = nd[par].items[i - 1][2] /\ b = nd[par].items[i][2]
  BY DEF Siblings
<1>4. CASE nd[a].leaf
  <2>1. nd2 = nd1
    BY <1>4
  <2>2. Removed(nd[par].items, nd2[par].items, i)
    BY <1>1, <2>1
  <2> QED BY ONLY <1>1, <1>3, <1>4, <2>1, <2>2 DEF Merged
<1>5. CASE ~ nd[a].leaf
  <2>1. Reparented(nd1, nd2, C, a) /\ KidSet(C) = KidSet(nd[b].items)
    BY <1>5
  <2>2. /\ DOMAIN nd2 = DOMAIN nd1 /\ nd2 \in [DOMAIN nd1 -> PageType]
        /\ \A q \in DOMAIN nd1 :
               /\ nd2[q].leaf = nd1[q].leaf /\ nd2[q].items = nd1[q].items /\ nd2[q].next = nd1[q].next
               /\ nd2[q].parent = IF q \in KidSet(C) THEN a ELSE nd1[q].parent
    BY ONLY <2>1 DEF Reparented
  <2>3. a \in DOMAIN nd1 /\ par \in DOMAIN nd1
    BY <1>1, <1>2, <1>3
  <2>4. nd2[a].items = W /\ nd2[a].next = nd[b].next /\ nd2[par].items = R
    BY ONLY <1>1, <2>2, <2>3
  <2>5. KidSet(W) = KidSet(nd[a].items) \cup KidSet(nd[b].items)
    <3>1. nd[a].items \in Entries
      BY <1>2, PageIds DEF Structure
    <3>2. KidSet(W) = KidSet(nd[a].items) \cup KidSet(C)
      BY <3>1, JoinedKids
    <3> QED BY ONLY <2>1, <3>2
  <2>6. Structure(nd, rt, 0, 0, level, lo, hi) /\ ~ nd[b].leaf /\ level[b] \in Nat
    BY <1>2, <1>5, PageIds DEF Structure
  <2>7. ASSUME NEW c \in KidSet(nd[a].items) \cup KidSet(nd[b].items) PROVE c \in DOMAIN nd1
    <3>1. PICK f \in {a, b} : c \in KidSet(nd[f].items)
      OBVIOUS
    <3>2. PICK m \in 1..Len(nd[f].items) : c = nd[f].items[m][2]
      BY ONLY <3>1 DEF KidSet
    <3>3. f \in DOMAIN nd /\ ~ nd[f].leaf
      BY <1>2, <1>5, <2>6
    <3>4. c \in DOMAIN nd /\ level[c] + 1 = level[f]
      BY ONLY <2>6, <3>2, <3>3, KidFacts
    <3>5. c # b
      BY <1>2, <2>6, <3>4
    <3> QED BY ONLY <1>1, <3>4, <3>5
  <2>8. \A c \in KidSet(nd[a].items) : nd[c].parent = a
    BY ONLY <1>2, <1>5, <2>6, KidParents
  <2>9. \A c \in KidSet(nd[a].items) \cup KidSet(nd[b].items) : c \in KidSet(nd2[a].items) /\ nd2[c].parent = a
    BY ONLY <1>1, <2>1, <2>2, <2>4, <2>5, <2>7, <2>8
  <2>10. \A c \in KidSet(nd2[a].items) : c \in KidSet(nd[a].items) \cup KidSet(nd[b].items)
    BY ONLY <2>4, <2>5
  <2>11. \A q \in DOMAIN nd2 :
            /\ nd2[q].leaf = nd[q].leaf
            /\ q # a => nd2[q].next = nd[q].next
            /\ q \notin {a, par} => nd2[q].items = nd[q].items
            /\ (nd[a].leaf \/ q \notin KidSet(nd[a].items) \cup KidSet(nd[b].items)) =>
                   nd2[q].parent = nd[q].parent
    BY ONLY <1>1, <1>5, <2>1, <2>2
  <2>12. Removed(nd[par].items, nd2[par].items, i)
    BY <2>4
  <2>13. DOMAIN nd2 = DOMAIN nd \ {b} /\ nd2 \in [DOMAIN nd2 -> PageType]
    BY ONLY <1>1, <2>2
  <2> QED BY ONLY <1>3, <2>4, <2>9, <2>10, <2>11, <2>12, <2>13 DEF Merged
<1> QED BY <1>4, <1>5

Appended(nd, a, b, sep, C, W) ==
    C \in Entries /\ Continues(nd, a, b, sep, C) /\ Joined(nd[a].items, C, W)

LEMMA MergeStored ==
    ASSUME NEW nd, NEW rt, NEW level, NEW lo, NEW hi, NEW par, NEW i, NEW a, NEW b, NEW sep,
           SiblingPlaces(nd, rt, level, lo, hi, par, a, b, sep), nd \in [DOMAIN nd -> PageType],
           NEW C, NEW W, Appended(nd, a, b, sep, C, W), NEW nd2, nd2[a].items = W, Merged(nd, nd2, par, i, a, b)
    PROVE  Stored(nd2) = Stored(nd)
<1>1. /\ DOMAIN nd2 = DOMAIN nd \ {b} /\ par \in DOMAIN nd /\ ~ nd[par].leaf
      /\ \A q \in DOMAIN nd2 : /\ nd2[q].leaf = nd[q].leaf
                               /\ q \notin {a, par} => nd2[q].items = nd[q].items
  BY DEF Merged
<1>2. a \in DOMAIN nd /\ b \in DOMAIN nd /\ a # b /\ (nd[a].leaf <=> nd[b].leaf)
  BY DEF SiblingPlaces
<1>3. CASE ~ nd[a].leaf
  <2>1. \A q : (q \in DOMAIN nd2 /\ nd2[q].leaf) <=> (q \in DOMAIN nd /\ nd[q].leaf)
    BY <1>1, <1>2, <1>3
  <2>2. \A q \in DOMAIN nd : nd[q].leaf => nd2[q].items = nd[q].items
    BY <1>1, <1>2, <1>3
  <2> QED BY ONLY <2>1, <2>2, SameStored
<1>4. CASE nd[a].leaf
  <2>1. C = nd[b].items /\ Joined(nd[a].items, C, W) /\ C \in Entries
    BY <1>4 DEF Appended, Continues
  <2>2. nd[a].items \in Entries
    BY <1>2 DEF PageType
  <2>3. ASSUME NEW k \in Keys
        PROVE  HasIn(W, k) <=> HasIn(nd[a].items, k) \/ HasIn(nd[b].items, k)
    <3>1. HasIn(W, k) <=> HasIn(nd[a].items, k) \/ HasIn(C, k)
      BY <2>1, <2>2, JoinedHas
    <3> QED BY ONLY <2>1, <3>1
  <2>4. ASSUME NEW k \in Keys
        PROVE  (\E q \in DOMAIN nd2 : nd2[q].leaf /\ HasIn(nd2[q].items, k)) <=>
               (\E q \in DOMAIN nd : nd[q].leaf /\ HasIn(nd[q].items, k))
    BY <1>1, <1>2, <1>4, <2>3
  <2> QED BY ONLY <2>4 DEF Stored
<1> QED BY <1>3, <1>4

(* Two pages that can spare nothing fit in one *)
LEMMA MergeSizes ==
    ASSUME NEW nd, NEW rt, NEW par, NEW i, NEW a, NEW b, NEW weak, weak \in {a, b}, Sizes(nd, rt, weak),
           a \in DOMAIN nd, b \in DOMAIN nd, a # rt, b # rt, a # b, par # a, par # b,
           nd[a].leaf \in BOOLEAN, nd[a].leaf <=> nd[b].leaf,
           Len(nd[a].items) \in Nat, Len(nd[b].items) \in Nat, Len(nd[par].items) \in Nat,
           \A q \in DOMAIN nd : q # 0,
           \A q \in {a, b} : IF q = weak THEN Len(nd[q].items) < HalfOf(nd, q) ELSE Len(nd[q].items) <= HalfOf(nd, q),
           NEW nd2, Merged(nd, nd2, par, i, a, b), Len(nd2[a].items) = Len(nd[a].items) + Len(nd[b].items)
    PROVE  Sizes(nd2, rt, par)
<1>1. /\ DOMAIN nd2 = DOMAIN nd \ {b} /\ par \in DOMAIN nd /\ ~ nd[par].leaf
      /\ Removed(nd[par].items, nd2[par].items, i)
      /\ \A q \in DOMAIN nd2 : /\ nd2[q].leaf = nd[q].leaf
                               /\ q \notin {a, par} => nd2[q].items = nd[q].items
  BY DEF Merged
<1>2. ASSUME NEW q \in DOMAIN nd2, q # a, q # par PROVE SizeOK(nd2, rt, par, q)
  <2>1. q \in DOMAIN nd /\ q # weak
    BY <1>1, <1>2
  <2>2. SizeOK(nd, rt, weak, q)
    BY <2>1 DEF Sizes
  <2>3. SizeOK(nd, rt, par, q)
    BY <1>2, <2>1, <2>2 DEF SizeOK, Missing
  <2>4. nd2[q].leaf = nd[q].leaf /\ Len(nd2[q].items) = Len(nd[q].items)
    BY <1>1, <1>2
  <2> QED BY ONLY <2>3, <2>4, SameSize
<1>3. SizeOK(nd2, rt, par, par)
  <2>1. SizeOK(nd, rt, weak, par) /\ Missing(weak, par) = 0 /\ Missing(par, par) = 1
    BY <1>1 DEF Sizes, Missing
  <2>2. PICK n \in Nat : n = Len(nd[par].items)
    OBVIOUS
  <2>3. Len(nd2[par].items) = n - 1 /\ ~ nd2[par].leaf
    BY <1>1, <2>2 DEF Removed
  <2>4. n <= InternalMax /\ n >= 2 /\ (par # rt => n >= (InternalMax + 1) \div 2)
    BY <1>1, <2>1, <2>2 DEF SizeOK, MaxOf, HalfOf
  <2>5. InternalMax \in Nat /\ (InternalMax + 1) \div 2 \in Nat
    BY SizeBounds
  <2> QED BY ONLY <2>1, <2>2, <2>3, <2>4, <2>5 DEF SizeOK, MaxOf, HalfOf
<1>4. SizeOK(nd2, rt, par, a)
  <2>1. PICK m \in Nat : m = Len(nd[a].items)
    OBVIOUS
  <2>2. PICK n \in Nat : n = Len(nd[b].items)
    OBVIOUS
  <2>3. PICK h : h = HalfOf(nd, a)
    OBVIOUS
  <2>4. h = HalfOf(nd, b)
    BY <2>3 DEF HalfOf
  <2>5. SizeOK(nd, rt, weak, a) /\ SizeOK(nd, rt, weak, b)
    BY DEF Sizes
  <2>6. m + Missing(weak, a) >= h /\ n + Missing(weak, b) >= h
    BY <2>1, <2>2, <2>3, <2>4, <2>5 DEF SizeOK
  <2>7. /\ (IF a = weak THEN m < h ELSE m <= h) /\ (IF b = weak THEN n < h ELSE n <= h)
    BY <2>1, <2>2, <2>3, <2>4
  <2>8. h \in Nat
    BY <2>3, SizeBounds DEF HalfOf
  <2>9. m + n < 2 * h /\ m + n >= h
    BY <2>6, <2>7, <2>8 DEF Missing
  <2>10. Len(nd2[a].items) = m + n /\ nd2[a].leaf = nd[a].leaf /\ Missing(par, a) = 0
    BY <1>1, <2>1, <2>2 DEF Missing
  <2>11. CASE nd[a].leaf
    <3>1. h = LeafMax \div 2 /\ nd2[a].leaf
      BY <2>3, <2>10, <2>11 DEF HalfOf
    <3>2. 2 * h <= LeafMax /\ h >= 1 /\ LeafMax \in Nat
      BY <3>1, SizeBounds
    <3> QED BY ONLY <2>8, <2>9, <2>10, <3>1, <3>2 DEF SizeOK, MaxOf, HalfOf
  <2>12. CASE ~ nd[a].leaf
    <3>1. h = (InternalMax + 1) \div 2 /\ ~ nd2[a].leaf
      BY <2>3, <2>10, <2>12 DEF HalfOf
    <3>2. 2 * h <= InternalMax + 1 /\ h >= 2 /\ InternalMax \in Nat
      BY <3>1, SizeBounds
    <3> QED BY ONLY <2>8, <2>9, <2>10, <3>1, <3>2 DEF SizeOK, MaxOf, HalfOf
  <2> QED BY <2>11, <2>12
<1> QED BY <1>2, <1>3, <1>4 DEF Sizes

LEMMA CoalesceOK ==
    ASSUME NEW level, NEW lo, NEW hi, NEW bound, Structure(node, root, 0, 0, level, lo, hi),
           Bounded(DOMAIN node, lo, bound), NEW n, NEW s, NEW par, NEW i, NEW weak, weak \in {n, s},
           Sizes(node, root, weak), Siblings(node, par, i, n, s),
           \A q \in {n, s} : IF q = weak THEN Size(q) < GetMinSize(q) ELSE Size(q) <= GetMinSize(q),
           Coalesce(n, s, par, i)
    PROVE  TreeOK(node', root, Rebalance(par)) /\ Stored(node') = Stored(node)
<1>1. Structure(node, root, 0, 0, level, lo, hi) /\ Bounded(DOMAIN node, lo, bound) /\ Siblings(node, par, i, n, s)
  OBVIOUS
<1>2. PICK sep : sep = node[par].items[i][1]
  OBVIOUS
<1>3. SiblingPlaces(node, root, level, lo, hi, par, n, s, sep)
  BY ONLY <1>1, <1>2, SiblingFacts
<1>4. /\ s \in DOMAIN node /\ n \in DOMAIN node /\ n # s /\ s # par /\ n # par /\ s # root /\ n # root
      /\ (node[n].leaf <=> node[s].leaf) /\ sep \in Keys
  BY ONLY <1>3 DEF SiblingPlaces
<1>5. /\ par \in DOMAIN node /\ i \in 2..Len(node[par].items)
  BY ONLY <1>1 DEF Siblings
<1>6. node \in [DOMAIN node -> PageType] /\ \A q \in DOMAIN node : q \in Nat /\ q # 0
  BY PageIds DEF Structure, TypesOK
<1>7. PICK A : A = node[n].items
  OBVIOUS
<1>8. PICK B : B = node[s].items
  OBVIOUS
<1>9. PICK I : I = node[par].items
  OBVIOUS
<1>10. /\ A \in Entries /\ B \in Entries /\ I \in Entries /\ Len(A) \in Nat /\ Len(B) \in Nat /\ Len(I) \in Nat
       /\ node[s].leaf \in BOOLEAN /\ node[n].leaf \in BOOLEAN
  BY <1>1, <1>4, <1>5, <1>7, <1>8, <1>9, PageIds DEF Structure
<1>11. PICK C : C = IF node[s].leaf THEN B ELSE [B EXCEPT ![1][1] = sep]
  OBVIOUS
<1>12. Continues(node, n, s, sep, C)
  <2>1. CASE node[n].leaf
    BY <1>4, <1>8, <1>11, <2>1 DEF Continues
  <2>2. CASE ~ node[n].leaf
    <3>1. Len(B) >= 1
      BY <1>1, <1>4, <1>8, <2>2 DEF Structure, InnerOK, InnerItems
    <3>2. sep \in Nat /\ C = [B EXCEPT ![1][1] = sep]
      BY <1>4, <1>11, <2>2, TreeAssumption
    <3>3. Rekeyed(B, C, sep)
      BY ONLY <1>10, <3>1, <3>2, RekeyedIs
    <3> QED BY <1>8, <2>2, <3>3 DEF Continues
  <2> QED BY <2>1, <2>2
<1>13. C \in Entries /\ Len(C) = Len(B)
  BY <1>8, <1>10, <1>12 DEF Continues, Rekeyed
<1>14. PICK W : W = A \o C
  OBVIOUS
<1>15. Joined(A, C, W)
  BY ONLY <1>10, <1>13, <1>14, ConcatJoins
<1>16. W \in Entries /\ Len(W) = Len(A) + Len(B)
  BY <1>13, <1>15 DEF Joined
<1>17. /\ Whole(node, level, lo, hi, n, s, W) /\ (~ node[n].leaf => KidSet(C) = KidSet(node[s].items))
       /\ Joined(node[n].items, C, W)
  <2>1. Joined(node[n].items, C, W)
    BY <1>7, <1>15
  <2> QED BY ONLY <1>1, <1>3, <1>12, <2>1, JoinedFits
<1>18. PICK R : R = RemoveAt(I, i)
  OBVIOUS
<1>19. Removed(I, R, i)
  <2>1. i \in 1..Len(I)
    BY <1>5, <1>9, <1>10
  <2> QED BY <1>10, <1>18, <2>1, RemoveAtRemoves
<1>20. R \in Entries
  BY <1>19 DEF Removed
<1>21. PICK less : less = [q \in DOMAIN node \ {s} |-> node[q]]
  OBVIOUS
<1>22. PICK nd1 : nd1 = [less EXCEPT ![n].items = W, ![n].next = node[s].next, ![par].items = R]
  OBVIOUS
<1>23. TwoChanged(node, nd1, n, s, par, W, R)
  BY ONLY <1>4, <1>5, <1>6, <1>16, <1>20, <1>21, <1>22, TwoItems
<1>24. node' = IF node[s].leaf THEN nd1 ELSE Reparent(nd1, C, n)
  <2> DEFINE items0 == IF node[s].leaf THEN node[s].items
                                       ELSE [node[s].items EXCEPT ![1][1] = KeyAt(par, i)]
             merged0 == [Dropped(s) EXCEPT ![n].items = @ \o items0,
                                           ![n].next = node[s].next,
                                           ![par].items = RemoveAt(@, i)]
  <2>1. node' = IF node[s].leaf THEN merged0 ELSE Reparent(merged0, items0, n)
    BY Zenon DEF Coalesce
  <2>2. items0 = C
    BY ONLY <1>2, <1>8, <1>11 DEF KeyAt
  <2> HIDE DEF items0
  <2>3. Dropped(s) = less
    BY <1>21 DEF Dropped
  <2>4. less[n] = node[n] /\ less[par] = node[par]
    BY <1>4, <1>5, <1>21
  <2>5. merged0 = nd1
    <3>1. merged0 = [less EXCEPT ![n].items = @ \o C, ![n].next = node[s].next, ![par].items = RemoveAt(@, i)]
      BY ONLY <2>2, <2>3
    <3> HIDE DEF merged0
    <3>2. merged0 = [less EXCEPT ![n].items = W, ![n].next = node[s].next, ![par].items = RemoveAt(@, i)]
      BY ONLY <1>7, <1>14, <2>4, <3>1
    <3>3. merged0 = [less EXCEPT ![n].items = W, ![n].next = node[s].next, ![par].items = R]
      BY ONLY <1>4, <1>9, <1>18, <2>4, <3>2
    <3> QED BY ONLY <1>22, <3>3
  <2> HIDE DEF merged0
  <2> QED BY ONLY <2>1, <2>2, <2>5
<1>25. PICK nd2 : nd2 = IF node[s].leaf THEN nd1 ELSE Reparent(nd1, C, n)
  OBVIOUS
<1>26. IF node[n].leaf THEN nd2 = nd1 ELSE Reparented(nd1, nd2, C, n) /\ KidSet(C) = KidSet(node[s].items)
  <2>1. CASE node[n].leaf
    BY <1>4, <1>25, <2>1
  <2>2. CASE ~ node[n].leaf
    <3>1. nd2 = Reparent(nd1, C, n) /\ n \in Nat
      BY <1>4, <1>6, <1>25, <2>2
    <3>2. nd1 \in [DOMAIN nd1 -> PageType]
      BY ONLY <1>23 DEF TwoChanged
    <3>3. Reparented(nd1, nd2, C, n)
      BY ONLY <1>13, <3>1, <3>2, ReparentIs
    <3> QED BY <1>17, <2>2, <3>3
  <2> QED BY <2>1, <2>2
<1>27. Merged(node, nd2, par, i, n, s) /\ nd2[n].items = W
  <2>1. Removed(node[par].items, R, i)
    BY <1>9, <1>19
  <2> QED BY ONLY <1>1, <1>3, <1>13, <1>17, <1>23, <1>26, <2>1, MergedIs
<1>28. MergeFits(node, nd2, level, lo, hi, n, s)
  BY ONLY <1>17, <1>27 DEF Whole, MergeFits
<1>29. PICK hi2 : hi2 = [hi EXCEPT ![n] = hi[s]]
  OBVIOUS
<1>30. Structure(nd2, root, 0, 0, level, lo, hi2)
  BY ONLY <1>1, <1>27, <1>28, <1>29, MergeOK
<1>31. DOMAIN nd2 = DOMAIN node \ {s} /\ par \in DOMAIN nd2
  BY <1>4, <1>5, <1>27 DEF Merged
<1>32. Bounded(DOMAIN nd2, lo, bound)
  <2>1. DOMAIN nd2 \subseteq DOMAIN node
    BY <1>31
  <2> QED BY ONLY <1>1, <2>1, BoundedFewer
<1>33. Stored(nd2) = Stored(node)
  <2>1. /\ SiblingPlaces(node, root, level, lo, hi, par, n, s, sep) /\ node \in [DOMAIN node -> PageType]
        /\ Appended(node, n, s, sep, C, W) /\ nd2[n].items = W /\ Merged(node, nd2, par, i, n, s)
    BY ONLY <1>3, <1>6, <1>12, <1>13, <1>17, <1>27 DEF Appended
  <2> QED BY ONLY <2>1, MergeStored
<1>34. Sizes(nd2, root, par)
  <2>1. weak \in {n, s} /\ Sizes(node, root, weak)
    OBVIOUS
  <2>2. \A q \in {n, s} : IF q = weak THEN Len(node[q].items) < HalfOf(node, q) ELSE Len(node[q].items) <= HalfOf(node, q)
    BY DEF Size, GetMinSize, HalfOf
  <2>3. /\ Len(node[n].items) \in Nat /\ Len(node[s].items) \in Nat /\ Len(node[par].items) \in Nat
        /\ Len(nd2[n].items) = Len(node[n].items) + Len(node[s].items)
    BY <1>7, <1>8, <1>9, <1>10, <1>16, <1>27
  <2> QED BY ONLY <1>4, <1>6, <1>10, <1>27, <2>1, <2>2, <2>3, MergeSizes
<1>35. OpOK(Rebalance(par), DOMAIN nd2, 0, 0, par, lo)
  BY <1>31 DEF OpOK
<1>36. TreeOK(nd2, root, Rebalance(par))
  BY ONLY <1>30, <1>32, <1>34, <1>35, BuildsWhole
<1> QED BY <1>24, <1>25, <1>33, <1>36
-----------------------------------------------------------------------------
(* A page that has lost an entry and is still full enough is done *)
LEMMA FullEnough ==
    ASSUME NEW nd, NEW rt, NEW p, Sizes(nd, rt, p), \A q \in DOMAIN nd : q # 0, nd[p].leaf \in BOOLEAN,
           Len(nd[p].items) \in Nat,
           Len(nd[p].items) >= IF nd[p].leaf THEN 1 ELSE 2, p # rt => Len(nd[p].items) >= HalfOf(nd, p)
    PROVE  Sizes(nd, rt, 0)
<1>1. ASSUME NEW q \in DOMAIN nd PROVE SizeOK(nd, rt, 0, q)
  <2>1. SizeOK(nd, rt, p, q) /\ Missing(0, q) = 0
    BY DEF Sizes, Missing
  <2>2. CASE q # p
    <3>1. Missing(p, q) = 0
      BY <2>2 DEF Missing
    <3> QED BY <2>1, <3>1 DEF SizeOK
  <2>3. CASE q = p
    <3>1. Len(nd[p].items) + Missing(0, p) = Len(nd[p].items)
      BY <2>1, <2>3
    <3>2. Len(nd[p].items) <= MaxOf(nd, p)
      BY <2>1, <2>3 DEF SizeOK
    <3> QED BY <2>3, <3>1, <3>2 DEF SizeOK
  <2> QED BY <2>2, <2>3
<1> QED BY <1>1 DEF Sizes

LEMMA RootDrops ==
    ASSUME NEW level, NEW lo, NEW hi, NEW bound, Structure(node, root, 0, 0, level, lo, hi),
           Bounded(DOMAIN node, lo, bound), Sizes(node, root, root),
           ~ node[root].leaf, Size(root) = 1, NEW c, c = ValueAt(root, 1),
           NEW nd2, nd2 = [Dropped(root) EXCEPT ![c].parent = None]
    PROVE  TreeOK(nd2, c, Idle) /\ Stored(nd2) = Stored(node)
<1>1. /\ root \in DOMAIN node /\ ~ node[root].leaf /\ Len(node[root].items) = 1 /\ c = node[root].items[1][2]
      /\ Structure(node, root, 0, 0, level, lo, hi)
  BY DEF Structure, RootOK, Size, ValueAt
<1>2. c \in DOMAIN node /\ c # root
  <2>1. 1 \in 1..Len(node[root].items)
    BY <1>1
  <2> QED BY ONLY <1>1, <2>1, KidFacts
<1>3. node \in [DOMAIN node -> PageType] /\ \A q \in DOMAIN node : q # 0 /\ node[q] \in PageType
  <2>1. node \in [DOMAIN node -> PageType]
    BY DEF Structure, TypesOK
  <2> QED BY <2>1, PageIds DEF Structure
<1>4. DOMAIN nd2 = DOMAIN node \ {root} /\ nd2 = [q \in DOMAIN node \ {root} |-> nd2[q]]
  BY DEF Dropped
<1>5. ASSUME NEW q \in DOMAIN node \ {root}
      PROVE  /\ nd2[q] \in PageType
             /\ nd2[q].leaf = node[q].leaf /\ nd2[q].items = node[q].items /\ nd2[q].next = node[q].next
             /\ nd2[q].parent = IF q = c THEN None ELSE node[q].parent
  <2>1. nd2[q] = IF q = c THEN [node[q] EXCEPT !.parent = None] ELSE node[q]
    BY <1>2, <1>5 DEF Dropped
  <2>2. node[q] \in PageType
    BY <1>3
  <2> QED BY ONLY <2>1, <2>2 DEF PageType
<1>6. nd2 \in [DOMAIN nd2 -> PageType]
  BY ONLY <1>4, <1>5
<1>7. RootDropped(node, nd2, root, c)
  BY ONLY <1>1, <1>4, <1>5, <1>6 DEF RootDropped
<1>8. Structure(nd2, c, 0, 0, level, lo, hi)
  BY ONLY <1>1, <1>7, DropRootOK
<1>9. Sizes(nd2, c, 0)
  <2>1. ASSUME NEW q \in DOMAIN nd2 PROVE SizeOK(nd2, c, 0, q)
    <3>1. q \in DOMAIN node /\ q # root /\ q # 0
      BY <1>3, <1>4
    <3>2. SizeOK(node, root, root, q) /\ Missing(root, q) = 0 /\ Missing(0, q) = 0
      BY <3>1 DEF Sizes, Missing
    <3>3. SizeOK(node, c, 0, q)
      BY ONLY <3>1, <3>2 DEF SizeOK
    <3>4. nd2[q].leaf = node[q].leaf /\ Len(nd2[q].items) = Len(node[q].items)
      BY <1>4, <1>5
    <3> QED BY ONLY <3>3, <3>4, SameSize
  <2> QED BY <2>1 DEF Sizes
<1>10. Bounded(DOMAIN nd2, lo, bound)
  <2>1. DOMAIN nd2 \subseteq DOMAIN node /\ Bounded(DOMAIN node, lo, bound)
    BY <1>4
  <2> QED BY ONLY <2>1, BoundedFewer
<1>11. OpOK(Idle, DOMAIN nd2, 0, 0, 0, lo)
  BY DEF OpOK
<1>12. TreeOK(nd2, c, Idle)
  BY ONLY <1>8, <1>9, <1>10, <1>11, BuildsWhole
<1>13. Stored(nd2) = Stored(node)
  <2>1. \A q : (q \in DOMAIN nd2 /\ nd2[q].leaf) <=> (q \in DOMAIN node /\ node[q].leaf)
    BY <1>1, <1>4, <1>5
  <2>2. \A q \in DOMAIN node : node[q].leaf => nd2[q].items = node[q].items
    BY <1>1, <1>4, <1>5
  <2> QED BY ONLY <2>1, <2>2, SameStored
<1> QED BY <1>12, <1>13

LEMMA AdjustRootOK ==
    ASSUME NEW level, NEW lo, NEW hi, NEW bound, Structure(node, root, 0, 0, level, lo, hi),
           Bounded(DOMAIN node, lo, bound), Sizes(node, root, root), AdjustRoot(root)
    PROVE  TreeInv' /\ Stored(node') = Stored(node)
<1>0. /\ Structure(node, root, 0, 0, level, lo, hi) /\ Bounded(DOMAIN node, lo, bound)
      /\ Sizes(node, root, root) /\ op' = Idle
  BY DEF AdjustRoot
<1>1. /\ root \in DOMAIN node /\ node[root].leaf \in BOOLEAN /\ Len(node[root].items) \in Nat /\ root # None
      /\ \A q \in DOMAIN node : q # 0
  <2>1. root \in DOMAIN node
    BY DEF Structure, RootOK
  <2>2. \A q \in DOMAIN node : q # 0 /\ q # None /\ node[q].leaf \in BOOLEAN /\ Len(node[q].items) \in Nat
    BY PageIds DEF Structure
  <2> QED BY ONLY <2>1, <2>2
<1>2. CASE ~ node[root].leaf /\ Size(root) = 1
  <2>1. PICK c : c = ValueAt(root, 1)
    OBVIOUS
  <2>2. PICK nd2 : nd2 = [Dropped(root) EXCEPT ![c].parent = None]
    OBVIOUS
  <2>3. root' = c /\ node' = nd2
    BY <1>2, <2>1, <2>2 DEF AdjustRoot
  <2>4. TreeOK(nd2, c, Idle) /\ Stored(nd2) = Stored(node)
    BY ONLY <1>0, <1>2, <2>1, <2>2, RootDrops
  <2> QED BY <1>0, <2>3, <2>4 DEF TreeInv
<1>3. CASE node[root].leaf /\ Size(root) = 0
  <2>1. root' = None /\ node' = Dropped(root)
    BY <1>3 DEF AdjustRoot
  <2>2. DOMAIN node = {root}
    BY ONLY <1>0, <1>3, LeafRootAlone
  <2>3. PICK nd2 : nd2 = Dropped(root)
    OBVIOUS
  <2>4. DOMAIN nd2 = {}
    BY <2>2, <2>3 DEF Dropped
  <2>5. TreeOK(nd2, None, Idle)
    BY <2>4 DEF TreeOK
  <2>6. Stored(nd2) = Stored(node)
    <3>1. Stored(nd2) = {}
      BY <2>4 DEF Stored
    <3>2. \A k : ~ HasIn(node[root].items, k)
      BY <1>3 DEF Size, HasIn
    <3>3. Stored(node) = {}
      BY <2>2, <3>2 DEF Stored
    <3> QED BY <3>1, <3>3
  <2> QED BY <1>0, <2>1, <2>3, <2>5, <2>6 DEF TreeInv
<1>4. CASE ~ (node[root].leaf /\ Size(root) = 0) /\ ~ (~ node[root].leaf /\ Size(root) = 1)
  <2>1. root' = root /\ node' = node
    BY <1>4 DEF AdjustRoot
  <2>2. Len(node[root].items) >= IF node[root].leaf THEN 1 ELSE 2
    <3>1. SizeOK(node, root, root, root) /\ Missing(root, root) = 1
      BY <1>1 DEF Sizes, Missing
    <3>2. Len(node[root].items) + 1 >= IF node[root].leaf THEN 1 ELSE 2
      BY <3>1 DEF SizeOK
    <3>3. PICK n \in Nat : n = Len(node[root].items)
      BY <1>1
    <3>4. /\ node[root].leaf => n # 0
          /\ ~ node[root].leaf => n # 1 /\ n + 1 >= 2
      BY <1>1, <1>4, <3>2, <3>3 DEF Size
    <3>5. CASE node[root].leaf
      BY ONLY <3>3, <3>4, <3>5
    <3>6. CASE ~ node[root].leaf
      <4>1. n # 1 /\ n + 1 >= 2
        BY ONLY <3>4, <3>6
      <4>2. n >= 2
        BY ONLY <4>1, n \in Nat
      <4> QED BY ONLY <3>3, <3>6, <4>2
    <3> QED BY <3>5, <3>6
  <2>3. Sizes(node, root, 0)
    BY ONLY <1>0, <1>1, <2>2, FullEnough
  <2>4. OpOK(Idle, DOMAIN node, 0, 0, 0, lo)
    BY DEF OpOK
  <2>5. TreeOK(node, root, Idle)
    BY ONLY <1>0, <2>3, <2>4, BuildsWhole
  <2> QED BY <1>0, <2>1, <2>5 DEF TreeInv
<1> QED BY <1>2, <1>3, <1>4 DEF AdjustRoot

(* A page below the root is one of its parent's children *)
LEMMA PlaceInParent ==
    ASSUME NEW level, NEW lo, NEW hi, Structure(node, root, 0, 0, level, lo, hi), NEW p, p \in DOMAIN node,
           Sizes(node, root, p), NEW par, par = node[p].parent, par # None, NEW i, i = ValueIndex(node[par].items, p)
    PROVE  /\ p # root /\ par \in DOMAIN node /\ ~ node[par].leaf /\ node[par].items[i][2] = p
           /\ i \in 1..Len(node[par].items) /\ Len(node[par].items) >= 2 /\ Len(node[par].items) \in Nat
<1>1. p # root
  BY DEF Structure, RootOK
<1>2. p # 0
  BY PageIds DEF Structure
<1>3. /\ par \in DOMAIN node /\ ~ node[par].leaf
      /\ \E j \in 1..Len(node[par].items) : node[par].items[j][2] = p
  BY <1>1, <1>2 DEF Structure, LinkOK
<1>4. PICK I : I = node[par].items
  OBVIOUS
<1>5. I \in Entries /\ Len(I) \in Nat
  BY <1>3, <1>4, PageIds DEF Structure
<1>6. DOMAIN I = 1..Len(I)
  BY <1>5 DEF Entries
<1>7. i \in 1..Len(I) /\ I[i][2] = p
  <2>1. \E j \in DOMAIN I : I[j][2] = p
    BY <1>3, <1>4, <1>6
  <2>2. i = CHOOSE j \in DOMAIN I : I[j][2] = p
    BY <1>4 DEF ValueIndex
  <2>3. i \in DOMAIN I /\ I[i][2] = p
    BY ONLY <2>1, <2>2
  <2> QED BY <1>6, <2>3
<1>8. p # par
  <2>1. Structure(node, root, 0, 0, level, lo, hi)
    OBVIOUS
  <2> QED BY ONLY <1>3, <1>4, <1>7, <2>1, KidFacts
<1>9. Len(I) >= 2
  <2>1. SizeOK(node, root, p, par) /\ Missing(p, par) = 0
    BY <1>3, <1>8 DEF Sizes, Missing
  <2>2. Len(I) + 0 >= 2
    BY <1>3, <1>4, <2>1 DEF SizeOK
  <2> QED BY <1>5, <2>2
<1> QED BY <1>1, <1>3, <1>4, <1>5, <1>7, <1>9

LEMMA CoalesceOrRedistributeOK ==
    ASSUME NEW level, NEW lo, NEW hi, NEW bound, Structure(node, root, 0, 0, level, lo, hi),
           Bounded(DOMAIN node, lo, bound), NEW p, p \in DOMAIN node, Sizes(node, root, p),
           CoalesceOrRedistribute(p)
    PROVE  TreeInv' /\ Stored(node') = Stored(node)
<1>0. /\ Structure(node, root, 0, 0, level, lo, hi) /\ Bounded(DOMAIN node, lo, bound)
      /\ Sizes(node, root, p) /\ p \in DOMAIN node
  OBVIOUS
<1>1. PICK par : par = node[p].parent
  OBVIOUS
<1>2. PICK i : i = ValueIndex(node[par].items, p)
  OBVIOUS
<1>3. PICK left : left = ValueAt(par, i - 1)
  OBVIOUS
<1>4. PICK right : right = ValueAt(par, i + 1)
  OBVIOUS
<1>5. /\ par # None /\ root' = root
      /\ \/ Size(p) >= GetMinSize(p) /\ op' = Idle /\ node' = node
         \/ /\ Size(p) < GetMinSize(p) /\ i > 1 /\ Size(left) > GetMinSize(left)
            /\ RedistributeFromLeft(left, p, par, i) /\ op' = Idle
         \/ /\ Size(p) < GetMinSize(p) /\ i > 1 /\ ~ (Size(left) > GetMinSize(left))
            /\ Coalesce(left, p, par, i) /\ op' = Rebalance(par)
         \/ /\ Size(p) < GetMinSize(p) /\ i = 1 /\ Size(right) > GetMinSize(right)
            /\ RedistributeFromRight(right, p, par, i) /\ op' = Idle
         \/ /\ Size(p) < GetMinSize(p) /\ i = 1 /\ ~ (Size(right) > GetMinSize(right))
            /\ Coalesce(p, right, par, i + 1) /\ op' = Rebalance(par)
  BY <1>1, <1>2, <1>3, <1>4, Zenon DEF CoalesceOrRedistribute
<1>6. /\ p # root /\ par \in DOMAIN node /\ ~ node[par].leaf /\ node[par].items[i][2] = p
      /\ i \in 1..Len(node[par].items) /\ Len(node[par].items) >= 2 /\ Len(node[par].items) \in Nat
  BY ONLY <1>0, <1>1, <1>2, <1>5, PlaceInParent
<1>7. \A q \in DOMAIN node : q # 0 /\ node[q].leaf \in BOOLEAN /\ Len(node[q].items) \in Nat
  BY PageIds DEF Structure
<1>8. \A q : GetMinSize(q) = HalfOf(node, q) /\ Size(q) = Len(node[q].items) /\ HalfOf(node, q) \in Nat
  BY SizeBounds DEF GetMinSize, HalfOf, Size
<1>9. ASSUME i > 1 PROVE Siblings(node, par, i, left, p) /\ left \in DOMAIN node
  <2>1. i \in 2..Len(node[par].items) /\ i - 1 \in 1..Len(node[par].items)
    BY <1>6, <1>9
  <2>2. left = node[par].items[i - 1][2]
    BY <1>3 DEF ValueAt
  <2>3. left \in DOMAIN node
    BY ONLY <1>0, <1>6, <2>1, <2>2, KidFacts
  <2> QED BY ONLY <1>6, <2>1, <2>2, <2>3 DEF Siblings
<1>10. ASSUME i = 1 PROVE Siblings(node, par, i + 1, p, right) /\ right \in DOMAIN node
  <2>1. /\ i + 1 \in 2..Len(node[par].items) /\ i + 1 \in 1..Len(node[par].items) /\ (i + 1) - 1 = i
    BY <1>6, <1>10
  <2>2. right = node[par].items[i + 1][2]
    BY <1>4 DEF ValueAt
  <2>3. right \in DOMAIN node
    BY ONLY <1>0, <1>6, <2>1, <2>2, KidFacts
  <2> QED BY ONLY <1>6, <2>1, <2>2, <2>3 DEF Siblings
<1>11. CASE Size(p) >= GetMinSize(p) /\ op' = Idle /\ node' = node
  <2>1. Len(node[p].items) >= HalfOf(node, p)
    BY <1>8, <1>11
  <2>2. HalfOf(node, p) >= IF node[p].leaf THEN 1 ELSE 2
    BY SizeBounds DEF HalfOf
  <2>3. Len(node[p].items) >= IF node[p].leaf THEN 1 ELSE 2
    BY <1>0, <1>7, <1>8, <2>1, <2>2
  <2>4. Sizes(node, root, 0)
    BY <1>0, <1>7, <2>1, <2>3, FullEnough
  <2>5. OpOK(Idle, DOMAIN node, 0, 0, 0, lo)
    BY DEF OpOK
  <2>6. TreeOK(node, root, Idle)
    BY ONLY <1>0, <2>4, <2>5, BuildsWhole
  <2> QED BY <1>5, <1>11, <2>6 DEF TreeInv
<1>12. CASE /\ Size(p) < GetMinSize(p) /\ i > 1 /\ Size(left) > GetMinSize(left)
            /\ RedistributeFromLeft(left, p, par, i) /\ op' = Idle
  <2>1. TreeOK(node', root, Idle) /\ Stored(node') = Stored(node)
    BY <1>0, <1>9, <1>12, FromLeftOK
  <2> QED BY <1>5, <1>12, <2>1 DEF TreeInv
<1>13. CASE /\ Size(p) < GetMinSize(p) /\ i > 1 /\ ~ (Size(left) > GetMinSize(left))
            /\ Coalesce(left, p, par, i) /\ op' = Rebalance(par)
  <2>1. Siblings(node, par, i, left, p) /\ left \in DOMAIN node
    BY <1>9, <1>13
  <2>2. Size(left) <= GetMinSize(left)
    BY <1>7, <1>8, <1>13, <2>1
  <2>3. \A q \in {left, p} : IF q = p THEN Size(q) < GetMinSize(q) ELSE Size(q) <= GetMinSize(q)
    BY <1>13, <2>2
  <2>4. Coalesce(left, p, par, i) /\ p \in {left, p}
    BY <1>13
  <2>5. TreeOK(node', root, Rebalance(par)) /\ Stored(node') = Stored(node)
    BY <1>0, <2>1, <2>3, <2>4, CoalesceOK
  <2> QED BY <1>5, <1>13, <2>5 DEF TreeInv
<1>14. CASE /\ Size(p) < GetMinSize(p) /\ i = 1 /\ Size(right) > GetMinSize(right)
            /\ RedistributeFromRight(right, p, par, i) /\ op' = Idle
  <2>1. TreeOK(node', root, Idle) /\ Stored(node') = Stored(node)
    BY <1>0, <1>10, <1>14, FromRightOK
  <2> QED BY <1>5, <1>14, <2>1 DEF TreeInv
<1>15. CASE /\ Size(p) < GetMinSize(p) /\ i = 1 /\ ~ (Size(right) > GetMinSize(right))
            /\ Coalesce(p, right, par, i + 1) /\ op' = Rebalance(par)
  <2>1. Siblings(node, par, i + 1, p, right) /\ right \in DOMAIN node
    BY <1>10, <1>15
  <2>2. Size(right) <= GetMinSize(right)
    BY <1>7, <1>8, <1>15, <2>1
  <2>3. \A q \in {p, right} : IF q = p THEN Size(q) < GetMinSize(q) ELSE Size(q) <= GetMinSize(q)
    BY <1>15, <2>2
  <2>4. Coalesce(p, right, par, i + 1) /\ p \in {p, right}
    BY <1>15
  <2>5. TreeOK(node', root, Rebalance(par)) /\ Stored(node') = Stored(node)
    BY <1>0, <2>1, <2>3, <2>4, CoalesceOK
  <2> QED BY <1>5, <1>15, <2>5 DEF TreeInv
<1> QED BY ONLY <1>5, <1>11, <1>12, <1>13, <1>14, <1>15

LEMMA RemoveRebalanceOK ==
    ASSUME TreeInv, RemoveRebalance
    PROVE  TreeInv' /\ Stored(node') = Stored(node)
<1>1. op.do = "rebalance"
  BY DEF RemoveRebalance
<1>2. PICK p : p = op.page
  OBVIOUS
<1>3. PICK level, lo, hi, bound : /\ Structure(node, root, 0, 0, level, lo, hi) /\ p \in DOMAIN node
                                  /\ Sizes(node, root, p) /\ Bounded(DOMAIN node, lo, bound)
  BY <1>1, <1>2, RebalanceFacts
<1>4. CASE node[p].parent = None /\ AdjustRoot(p)
  <2>1. p = root
    BY ONLY <1>3, <1>4, OnlyRoot
  <2> QED BY <1>3, <1>4, <2>1, AdjustRootOK
<1>5. CASE CoalesceOrRedistribute(p)
  BY <1>3, <1>5, CoalesceOrRedistributeOK
<1> QED BY <1>2, <1>4, <1>5 DEF RemoveRebalance
-----------------------------------------------------------------------------
(* Every step keeps the invariant, and changes the keys in the leaves only *)
(* as the call says                                                        *)
LEMMA TreeInit == Init => TreeInv
BY DEF Init, TreeInv, TreeOK

KeysStep ==
    \/ Stored(node') = Stored(node)
    \/ \E k \in Keys : Stored(node') = Stored(node) \cup {k} \/ Stored(node') = Stored(node) \ {k}

LEMMA TreeStep == TreeInv /\ [Next]_vars => TreeInv' /\ KeysStep
<1>1. SUFFICES ASSUME TreeInv, [Next]_vars PROVE TreeInv' /\ KeysStep
  OBVIOUS
<1>2. ASSUME NEW k \in Keys, StartNewTree(k) PROVE TreeInv' /\ KeysStep
  BY <1>1, <1>2, StartNewTreeOK DEF KeysStep
<1>3. ASSUME NEW k \in Keys, InsertIntoLeaf(k) PROVE TreeInv' /\ KeysStep
  BY <1>1, <1>3, InsertIntoLeafOK DEF KeysStep
<1>4. ASSUME NEW k \in Keys, InsertAndSplit(k) PROVE TreeInv' /\ KeysStep
  BY <1>1, <1>4, InsertAndSplitOK DEF KeysStep
<1>5. ASSUME NEW k \in Keys, RemoveKey(k) PROVE TreeInv' /\ KeysStep
  BY <1>1, <1>5, RemoveKeyOK DEF KeysStep
<1>6. CASE NewRoot
  BY <1>1, <1>6, NewRootStep DEF KeysStep
<1>7. CASE InsertIntoParent
  BY <1>1, <1>7, InsertIntoParentStep DEF KeysStep
<1>8. CASE SplitParent
  BY <1>1, <1>8, SplitParentStep DEF KeysStep
<1>9. CASE RemoveRebalance
  BY <1>1, <1>9, RemoveRebalanceOK DEF KeysStep
<1>10. CASE UNCHANGED vars
  BY <1>1, <1>10 DEF vars, TreeInv, KeysStep
<1> QED BY <1>1, <1>2, <1>3, <1>4, <1>5, <1>6, <1>7, <1>8, <1>9, <1>10 DEF Next

(* After any sequence of insertions and removals, with the splits, merges   *)
(* and redistributions they bring, the tree is a B+ tree whenever no call   *)
(* is at work: every page is linked and half full, all leaves are equally   *)
(* deep, a search finds exactly what is stored, and at every moment the     *)
(* leaf chain has every key once and in order (b_plus_tree.cpp:158-685).    *)
THEOREM TreeStaysConsistent == Spec => []TreeConsistent
<1>1. TreeInv /\ [Next]_vars => TreeInv'
  BY TreeStep
<1> QED BY TreeInit, <1>1, InvConsistent, PTL DEF Spec

(* The index is a map from keys to RIDs: a call to Insert or Remove changes *)
(* the entry of its own key in one step, and no split, merge or             *)
(* redistribution changes any.                                              *)
THEOREM TreeImplementsMap == Spec => ImplementsMap
<1>1. Init => Map!Init
  <2>1. SUFFICES ASSUME Init PROVE Contents = [k \in Keys |-> None]
    BY DEF Map!Init
  <2>2. DOMAIN node = {}
    BY <2>1 DEF Init
  <2> QED BY <2>2 DEF Contents
<1>2. TreeInv /\ [Next]_vars => [Map!Next]_Contents
  <2>1. SUFFICES ASSUME TreeInv, [Next]_vars PROVE Map!Next \/ Contents' = Contents
    OBVIOUS
  <2>2. TreeInv' /\ KeysStep
    BY <2>1, TreeStep
  <2>3. Contents = [k \in Keys |-> IF k \in Stored(node) THEN Rid[k] ELSE None]
    BY <2>1, ContentsStored
  <2>4. TreeInv' => Contents' = [k \in Keys |-> IF k \in Stored(node') THEN Rid[k] ELSE None]
    <3>1. (TreeInv => Contents = [k \in Keys |-> IF k \in Stored(node) THEN Rid[k] ELSE None])'
      BY ContentsStored, PTL
    <3> QED BY <3>1
  <2>5. Contents' = [k \in Keys |-> IF k \in Stored(node') THEN Rid[k] ELSE None]
    BY <2>2, <2>4
  <2>6. CASE Stored(node') = Stored(node)
    BY ONLY <2>3, <2>5, <2>6
  <2>7. ASSUME NEW k \in Keys, Stored(node') = Stored(node) \cup {k} PROVE Map!Next
    <3>1. Contents' = [Contents EXCEPT ![k] = Rid[k]]
      BY ONLY <2>3, <2>5, <2>7
    <3>2. Rid[k] \in Range(Rid)
      BY TreeAssumption DEF Range
    <3> QED BY <3>1, <3>2 DEF Map!Next, Map!Insert
  <2>8. ASSUME NEW k \in Keys, Stored(node') = Stored(node) \ {k} PROVE Map!Next
    <3>1. Contents' = [Contents EXCEPT ![k] = None]
      BY ONLY <2>3, <2>5, <2>8
    <3> QED BY <3>1 DEF Map!Next, Map!Remove
  <2> QED BY <2>2, <2>6, <2>7, <2>8 DEF KeysStep
<1>3. TreeInv /\ [Next]_vars => TreeInv'
  BY TreeStep
<1> QED BY TreeInit, <1>1, <1>2, <1>3, PTL DEF Spec, ImplementsMap, Map!Spec
=============================================================================
