------------------------------ MODULE BPlusTree ------------------------------
(***************************************************************************)
(* BPlusTree<KeyType, ValueType, KeyComparator>: what Insert and Remove do  *)
(* to the index pages. A call that splits or merges pages takes one step    *)
(* per level of the tree, as InsertIntoParent and CoalesceOrRedistribute    *)
(* call themselves once per level.                                          *)
(*                                                                         *)
(* Latches and pins are the subject of TreeLatch: there the calls overlap,  *)
(* here each runs to its end before the next. A page is known by its id     *)
(* only; one that is no longer linked is dropped, so that ids can be used   *)
(* again and the model stays finite.                                        *)
(***************************************************************************)
EXTENDS Integers, FiniteSetsExt, SequencesExt

CONSTANTS Keys,         \* positive integers, in KeyComparator's order
          Rid,          \* the RID stored with each key
          Pages,        \* page ids
          LeafMax,      \* leaf_max_size_
          InternalMax,  \* internal_max_size_
          None          \* INVALID_PAGE_ID, or no value

ASSUME TreeAssumption ==
    /\ Keys \subseteq Nat \ {0} /\ Pages \subseteq Nat \ {0}
    /\ Rid \in [Keys -> Nat]
    /\ LeafMax \in Nat \ {0, 1} /\ InternalMax \in Nat \ {0, 1, 2}
    /\ None \notin Nat

VARIABLES
    root,  \* root_page_id_
    node,  \* the tree's pages
    op     \* what the running call still has to do

vars == <<root, node, op>>

(* A page's entries are the pairs array_[0 .. size_ - 1]; the key of an     *)
(* internal page's first pair is not used for searching, and is 0 in a new  *)
(* root, whose bytes NewPage cleared.                                       *)
Item(K, V) == {<<k, v>> : k \in K, v \in V}
Leaf(items, next, parent) ==
    [leaf |-> TRUE, items |-> items, next |-> next, parent |-> parent]
Internal(items, parent) ==
    [leaf |-> FALSE, items |-> items, next |-> None, parent |-> parent]

Idle == [do |-> "nothing"]
Parent(old, key, new) == [do |-> "parent", old |-> old, key |-> key, new |-> new]
Rebalance(p) == [do |-> "rebalance", page |-> p]

Init == root = None /\ node = [p \in {} |-> None] /\ op = Idle
-----------------------------------------------------------------------------

Size(p) == Len(node[p].items)
KeyAt(p, i) == node[p].items[i][1]
ValueAt(p, i) == node[p].items[i][2]

GetMinSize(p) == IF node[p].leaf THEN LeafMax \div 2 ELSE (InternalMax + 1) \div 2

(* std::lower_bound over the keys: how many are smaller *)
KeyIndex(p, k) == Cardinality({i \in DOMAIN node[p].items : KeyAt(p, i) < k})

HasKey(p, k) == \E i \in DOMAIN node[p].items : KeyAt(p, i) = k

ValueIndex(items, v) == CHOOSE i \in DOMAIN items : items[i][2] = v

(* The child after the last separator that is not greater than the key *)
InternalLookup(p, k) == ValueAt(p, Max({1} \cup {i \in 2..Size(p) : KeyAt(p, i) <= k}))

FindLeaf(k) ==
    LET down[p \in DOMAIN node] == IF node[p].leaf THEN p ELSE down[InternalLookup(p, k)]
    IN  down[root]

(* FindLeaf with leftMost, for Begin() *)
FindLeftmost ==
    LET down[p \in DOMAIN node] == IF node[p].leaf THEN p ELSE down[ValueAt(p, 1)]
    IN  down[root]

(* GetValue on a tree that has a root; FindLeaf asserts one *)
GetValue(k) ==
    LET leaf == FindLeaf(k)
        i == KeyIndex(leaf, k) + 1
    IN  IF HasKey(leaf, k) THEN ValueAt(leaf, i) ELSE None

(* The iterator's walk from Begin() to End(): page after page along         *)
(* next_page_id_                                                            *)
Scan ==
    LET from[p \in DOMAIN node] ==
            node[p].items \o IF node[p].next = None THEN <<>> ELSE from[node[p].next]
    IN  IF root = None THEN <<>> ELSE from[FindLeftmost]

(* Pages bounds the tree: a step that needs a page waits until there is one *)
(* (the exception for a full buffer pool is not modelled).                  *)
PageLeft == Pages \ DOMAIN node # {}
NewPage == Min(Pages \ DOMAIN node)

(* SetParentPageId on the pages that items point to *)
Reparent(nodes, items, p) ==
    [q \in DOMAIN nodes |->
        IF \E i \in DOMAIN items : items[i][2] = q THEN [nodes[q] EXCEPT !.parent = p]
                                                   ELSE nodes[q]]
-----------------------------------------------------------------------------

StartNewTree(k) ==
    /\ op = Idle
    /\ root = None
    /\ PageLeft
    /\ root' = NewPage
    /\ node' = [p \in {NewPage} |-> Leaf(<< <<k, Rid[k]>> >>, None, None)]
    /\ UNCHANGED op

InsertIntoLeaf(k) ==
    LET p == FindLeaf(k) IN
    /\ op = Idle
    /\ root # None
    /\ ~ HasKey(p, k)
    /\ Size(p) + 1 < LeafMax
    /\ node' = [node EXCEPT ![p].items = InsertAt(@, KeyIndex(p, k) + 1, <<k, Rid[k]>>)]
    /\ UNCHANGED <<root, op>>

(* Mutant: the last entry is not copied to the new leaf *)
InsertAndSplitDropsLast(k) ==
    LET p == FindLeaf(k)
        all == InsertAt(node[p].items, KeyIndex(p, k) + 1, <<k, Rid[k]>>)
        min == GetMinSize(p)
        new == NewPage
        rest == SubSeq(all, min + 1, Len(all) - 1)
    IN  /\ op = Idle
        /\ root # None
        /\ ~ HasKey(p, k)
        /\ Size(p) + 1 >= LeafMax
        /\ PageLeft
        /\ node' = [q \in DOMAIN node \cup {new} |->
               CASE q = p -> Leaf(SubSeq(all, 1, min), new, node[p].parent)
                 [] q = new -> Leaf(rest, node[p].next, node[p].parent)
                 [] OTHER -> node[q]]
        /\ op' = Parent(p, rest[1][1], new)
        /\ UNCHANGED root

(* InsertIntoLeaf on a leaf that becomes full: Split moves all but the first *)
(* min entries to a new leaf, which follows the old one in the chain.       *)
InsertAndSplit(k) ==
    LET p == FindLeaf(k)
        all == InsertAt(node[p].items, KeyIndex(p, k) + 1, <<k, Rid[k]>>)
        min == GetMinSize(p)
        new == NewPage
        rest == SubSeq(all, min + 1, Len(all))
    IN  /\ op = Idle
        /\ root # None
        /\ ~ HasKey(p, k)
        /\ Size(p) + 1 >= LeafMax
        /\ PageLeft
        /\ node' = [q \in DOMAIN node \cup {new} |->
               CASE q = p -> Leaf(SubSeq(all, 1, min), new, node[p].parent)
                 [] q = new -> Leaf(rest, node[p].next, node[p].parent)
                 [] OTHER -> node[q]]
        /\ op' = Parent(p, rest[1][1], new)
        /\ UNCHANGED root
-----------------------------------------------------------------------------

(* InsertIntoParent when the page that was split is the root *)
NewRoot ==
    /\ op.do = "parent"
    /\ node[op.old].parent = None
    /\ PageLeft
    /\ LET top == << <<0, op.old>>, <<op.key, op.new>> >>
           wider == [q \in DOMAIN node \cup {NewPage} |->
                        IF q = NewPage THEN Internal(top, None) ELSE node[q]]
       IN  /\ root' = NewPage
           /\ node' = Reparent(wider, top, NewPage)
    /\ op' = Idle

(* The parent's entries with the new page after the old one *)
InsertNodeAfter(p, old, key, new) ==
    InsertAt(node[p].items, ValueIndex(node[p].items, old) + 1, <<key, new>>)

InsertIntoParent ==
    LET p == node[op.old].parent IN
    /\ op.do = "parent"
    /\ p # None
    /\ Size(p) < InternalMax
    /\ node' = [node EXCEPT ![p].items = InsertNodeAfter(p, op.old, op.key, op.new)]
    /\ op' = Idle
    /\ UNCHANGED root

(* InsertIntoParent on a full parent: the copy with one entry too many is   *)
(* split, and the pages that move get the new parent.                       *)
SplitParent ==
    LET p == node[op.old].parent
        all == InsertNodeAfter(p, op.old, op.key, op.new)
        min == GetMinSize(p)
        new == NewPage
        rest == SubSeq(all, min + 1, Len(all))
    IN  /\ op.do = "parent"
        /\ p # None
        /\ Size(p) >= InternalMax
        /\ PageLeft
        /\ node' = LET wider == [q \in DOMAIN node \cup {new} |->
                           CASE q = p -> Internal(SubSeq(all, 1, min), node[p].parent)
                             [] q = new -> Internal(rest, node[p].parent)
                             [] OTHER -> node[q]]
                   IN  Reparent(wider, rest, new)
        /\ op' = Parent(p, rest[1][1], new)
        /\ UNCHANGED root
-----------------------------------------------------------------------------

(* RemoveAndDeleteRecord; the rest of Remove is CoalesceOrRedistribute *)
RemoveKey(k) ==
    LET p == FindLeaf(k) IN
    /\ op = Idle
    /\ root # None
    /\ HasKey(p, k)
    /\ node' = [node EXCEPT ![p].items = RemoveAt(@, KeyIndex(p, k) + 1)]
    /\ op' = Rebalance(p)
    /\ UNCHANGED root

Dropped(p) == [q \in DOMAIN node \ {p} |-> node[q]]

(* AdjustRoot: an internal root with one child gives way to it, an empty    *)
(* leaf leaves an empty tree.                                               *)
AdjustRoot(p) ==
    /\ \/ /\ ~ node[p].leaf /\ Size(p) = 1
          /\ root' = ValueAt(p, 1)
          /\ node' = [Dropped(p) EXCEPT ![ValueAt(p, 1)].parent = None]
       \/ /\ node[p].leaf /\ Size(p) = 0
          /\ root' = None
          /\ node' = Dropped(p)
       \/ /\ ~ (node[p].leaf /\ Size(p) = 0) /\ ~ (~ node[p].leaf /\ Size(p) = 1)
          /\ UNCHANGED <<root, node>>
    /\ op' = Idle

(* Mutant: the separator is not moved with the entry *)
RedistributeFromLeftOldKey(s, p, parent, i) ==
    LET last == node[s].items[Size(s)]
        own == IF node[p].leaf THEN node[p].items
                               ELSE [node[p].items EXCEPT ![1][1] = KeyAt(parent, i)]
        moved == [node EXCEPT ![s].items = Front(@),
                              ![p].items = <<last>> \o own]
    IN  node' = IF node[p].leaf THEN moved ELSE Reparent(moved, <<last>>, p)

(* Redistribute(from_prev): the left sibling's last entry goes to the front. *)
(* An internal page's first key becomes the separator between the two.       *)
RedistributeFromLeft(s, p, parent, i) ==
    LET last == node[s].items[Size(s)]
        own == IF node[p].leaf THEN node[p].items
                               ELSE [node[p].items EXCEPT ![1][1] = KeyAt(parent, i)]
        moved == [node EXCEPT ![s].items = Front(@),
                              ![p].items = <<last>> \o own,
                              ![parent].items[i][1] = last[1]]
    IN  node' = IF node[p].leaf THEN moved ELSE Reparent(moved, <<last>>, p)

(* Redistribute(!from_prev): the right sibling's first entry goes to the end *)
RedistributeFromRight(s, p, parent, i) ==
    LET first == IF node[p].leaf THEN node[s].items[1]
                                 ELSE <<KeyAt(parent, i + 1), ValueAt(s, 1)>>
        moved == [node EXCEPT ![s].items = Tail(@),
                              ![p].items = Append(@, first),
                              ![parent].items[i + 1][1] = KeyAt(s, 2)]
    IN  node' = IF node[p].leaf THEN moved ELSE Reparent(moved, <<first>>, p)

(* Coalesce: page s, at index i of the parent, is emptied into its left     *)
(* neighbour n and unlinked.                                                *)
Coalesce(n, s, parent, i) ==
    LET items == IF node[s].leaf THEN node[s].items
                                 ELSE [node[s].items EXCEPT ![1][1] = KeyAt(parent, i)]
        merged == [Dropped(s) EXCEPT ![n].items = @ \o items,
                                     ![n].next = node[s].next,
                                     ![parent].items = RemoveAt(@, i)]
    IN  node' = IF node[s].leaf THEN merged ELSE Reparent(merged, items, n)

(* CoalesceOrRedistribute: one level of the way up after a removal. The     *)
(* left sibling is tried first.                                             *)
CoalesceOrRedistribute(p) ==
    LET parent == node[p].parent
        i == ValueIndex(node[parent].items, p)
        left == ValueAt(parent, i - 1)
        right == ValueAt(parent, i + 1)
        Spare(s) == Size(s) > GetMinSize(s)
    IN  /\ parent # None
        /\ \/ /\ Size(p) >= GetMinSize(p)
              /\ op' = Idle
              /\ UNCHANGED node
           \/ /\ Size(p) < GetMinSize(p) /\ i > 1 /\ Spare(left)
              /\ RedistributeFromLeft(left, p, parent, i)
              /\ op' = Idle
           \/ /\ Size(p) < GetMinSize(p) /\ i > 1 /\ ~ Spare(left)
              /\ Coalesce(left, p, parent, i)
              /\ op' = Rebalance(parent)
           \/ /\ Size(p) < GetMinSize(p) /\ i = 1 /\ Spare(right)
              /\ RedistributeFromRight(right, p, parent, i)
              /\ op' = Idle
           \/ /\ Size(p) < GetMinSize(p) /\ i = 1 /\ ~ Spare(right)
              /\ Coalesce(p, right, parent, i + 1)
              /\ op' = Rebalance(parent)
        /\ UNCHANGED root

RemoveRebalance ==
    /\ op.do = "rebalance"
    /\ \/ node[op.page].parent = None /\ AdjustRoot(op.page)
       \/ CoalesceOrRedistribute(op.page)

Next ==
    \/ \E k \in Keys : StartNewTree(k) \/ InsertIntoLeaf(k) \/ InsertAndSplit(k) \/ RemoveKey(k)
    \/ NewRoot \/ InsertIntoParent \/ SplitParent
    \/ RemoveRebalance

(* A call that has begun to change pages goes on to its end *)
Fairness == WF_vars(NewRoot \/ InsertIntoParent \/ SplitParent \/ RemoveRebalance)

Spec == Init /\ [][Next]_vars /\ Fairness
-----------------------------------------------------------------------------

TypeOK ==
    /\ root \in DOMAIN node \cup {None}
    /\ DOMAIN node \subseteq Pages
    /\ \A p \in DOMAIN node :
           /\ node[p].leaf \in BOOLEAN
           /\ node[p].parent \in DOMAIN node \cup {None}
           /\ node[p].next \in DOMAIN node \cup {None}
           /\ Range(node[p].items) \subseteq
                  IF node[p].leaf THEN Item(Keys, Range(Rid))
                                  ELSE Item(Keys \cup {0}, DOMAIN node)
    /\ op.do \in {"nothing", "parent", "rebalance"}

(* The pages below the root, by level: Level[n] holds those n links down *)
Children(p) == IF node[p].leaf THEN {} ELSE {ValueAt(p, i) : i \in 1..Size(p)}
Level[n \in 0..Cardinality(DOMAIN node)] ==
    IF n = 0 THEN {root} ELSE UNION {Children(p) : p \in Level[n - 1]}

(* After every call the tree is a B+ tree: each page below the root says    *)
(* who its parent is and is at least half full, no page is over-full, all   *)
(* leaves are equally deep, and every page is linked: a removal forgets     *)
(* none, and the last one takes the last page with it.                      *)
TreeShape ==
    (op = Idle) =>
        /\ \A p \in DOMAIN node :
               /\ p = root \/ Size(p) >= GetMinSize(p)
               /\ Size(p) <= IF node[p].leaf THEN LeafMax - 1 ELSE InternalMax
               /\ ~ node[p].leaf =>
                      Size(p) >= 2 /\ \A i \in 1..Size(p) : node[ValueAt(p, i)].parent = p
        /\ IF root = None THEN DOMAIN node = {}
           ELSE /\ node[root].parent = None /\ Size(root) > 0
                /\ DOMAIN node = UNION {Level[n] : n \in 0..Cardinality(DOMAIN node)}
                /\ \A n \in 0..Cardinality(DOMAIN node) :
                       \A p, q \in Level[n] : node[p].leaf = node[q].leaf

(* The pairs the index holds *)
Contents == [k \in Keys |->
    IF \E p \in DOMAIN node : node[p].leaf /\ HasKey(p, k) THEN Rid[k] ELSE None]

(* After every call the separators lead each search, found or not, to the   *)
(* leaf that has the key if any has: GetValue finds what is stored with it, *)
(* and Insert sees a duplicate.                                             *)
SearchFinds == (op = Idle /\ root # None) => \A k \in Keys : GetValue(k) = Contents[k]

(* At every moment the leaf chain, which an index scan follows without      *)
(* looking at the pages above, has every key once and in ascending order.   *)
ScanSorted ==
    /\ \A i, j \in DOMAIN Scan : i < j => Scan[i][1] < Scan[j][1]
    /\ Range(Scan) = {<<k, Contents[k]>> : k \in {j \in Keys : Contents[j] # None}}

(* What every search, scan and later change relies on, after any sequence   *)
(* of insertions and removals with their splits, merges and redistributions *)
(* (b_plus_tree.cpp:158-685).                                               *)
TreeConsistent == TypeOK /\ TreeShape /\ SearchFinds /\ ScanSorted

(* Pages may split and merge, the map from keys to RIDs changes only where  *)
(* a call says, and never in the steps that rebalance.                      *)
Map == INSTANCE Dictionary WITH Values <- Range(Rid), map <- Contents
ImplementsMap == Map!Spec
=============================================================================
