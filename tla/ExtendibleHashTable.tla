------------------------- MODULE ExtendibleHashTable -------------------------
(***************************************************************************)
(* ExtendibleHashTable<K, V>: a directory of 2^global_depth pointers to     *)
(* buckets. Every public method holds latch_. Find changes nothing and      *)
(* Remove is one step; Insert is one step per split of its while loop, so   *)
(* that what holds between splits can be stated, and a last one that        *)
(* stores the pair.                                                          *)
(*                                                                         *)
(* A bucket's list is the set of its pairs: no code depends on its order.   *)
(* A split releases the full bucket and makes two: here bucket_0 takes over *)
(* the full bucket's name and bucket_1 gets a new one.                      *)
(***************************************************************************)
EXTENDS Integers, FiniteSets

CONSTANTS Keys, Values,
          Hash,        \* std::hash<K>: the identity for the page table's keys
          HashBits,    \* the width of a hash value
          BucketSize,  \* bucket_size_
          None         \* no pair being inserted, or no value found

(* 1 << n *)
Pow2[n \in Nat] == IF n = 0 THEN 1 ELSE 2 * Pow2[n - 1]

(* Insert splits every full bucket, also one that holds the key already, so *)
(* it ends only if fewer than BucketSize keys share a hash. Page ids hash   *)
(* to themselves and the page table's buckets hold four.                    *)
ASSUME HashAssumption ==
    /\ IsFiniteSet(Keys) /\ HashBits \in Nat
    /\ Hash \in [Keys -> 0..(Pow2[HashBits] - 1)]
    /\ BucketSize \in Nat
    /\ \A k \in Keys : Cardinality({j \in Keys : Hash[j] = Hash[k]}) < BucketSize
    /\ None \notin Values

VARIABLES
    global_depth,  \* global_depth_
    dir,           \* dir_: the bucket each index points to
    bucket,        \* the buckets: depth_ and list_
    num_buckets,   \* num_buckets_
    inserting      \* the pair of the Insert that holds latch_, or None

vars == <<global_depth, dir, bucket, num_buckets, inserting>>

Pairs == Keys \X Values

TypeOK ==
    /\ global_depth \in 0..HashBits
    /\ num_buckets \in Nat
    /\ dir \in [0..(Pow2[global_depth] - 1) -> 1..num_buckets]
    /\ bucket \in [1..num_buckets -> [depth : 0..global_depth, items : SUBSET Pairs]]
    /\ inserting \in Pairs \cup {None}

Init ==
    /\ global_depth = 0
    /\ dir = [i \in {0} |-> 1]
    /\ bucket = [b \in {1} |-> [depth |-> 0, items |-> {}]]
    /\ num_buckets = 1
    /\ inserting = None

IndexOf(k) == Hash[k] % Pow2[global_depth]

(* (n & (1 << d)) != 0 *)
Bit(n, d) == (n \div Pow2[d]) % 2 = 1

IsFull(b) == Cardinality(bucket[b].items) = BucketSize

BucketOf(k) == dir[IndexOf(k)]

(* Bucket::Find, and Find: the value of key k, or None *)
Find(k) ==
    LET found == {item \in bucket[BucketOf(k)].items : item[1] = k}
    IN  IF found = {} THEN None ELSE (CHOOSE item \in found : TRUE)[2]
-----------------------------------------------------------------------------

Insert(k, v) ==
    /\ inserting = None
    /\ inserting' = <<k, v>>
    /\ UNCHANGED <<global_depth, dir, bucket, num_buckets>>

(* Mutant: the new half of the directory is left pointing to the first bucket *)
DoubledToFirst == [i \in 0..(Pow2[global_depth + 1] - 1) |->
                       IF i < Pow2[global_depth] THEN dir[i] ELSE dir[0]]

(* dir_.resize, then the copy of the lower half into the upper *)
Doubled == [i \in 0..(Pow2[global_depth + 1] - 1) |-> dir[i % Pow2[global_depth]]]

(* Mutant: the pairs are divided on the next higher bit *)
SplitWrongBit(b) ==
    LET d == bucket[b].depth
        wide == IF d = global_depth THEN Doubled ELSE dir
        ones == {item \in bucket[b].items : Bit(Hash[item[1]], d + 1)}
    IN  /\ global_depth' = IF d = global_depth THEN global_depth + 1 ELSE global_depth
        /\ num_buckets' = num_buckets + 1
        /\ bucket' = [c \in 1..(num_buckets + 1) |->
               CASE c = b -> [depth |-> d + 1, items |-> bucket[b].items \ ones]
                 [] c = num_buckets + 1 -> [depth |-> d + 1, items |-> ones]
                 [] OTHER -> bucket[c]]
        /\ dir' = [i \in DOMAIN wide |->
               IF wide[i] = b /\ Bit(i, d) THEN num_buckets + 1 ELSE wide[i]]

(* One turn of the while loop: the directory doubles if the bucket's depth  *)
(* is the global one, then the bucket's pairs, and the pointers to it, are  *)
(* divided by the bit at its depth.                                         *)
Split(b) ==
    LET d == bucket[b].depth
        wide == IF d = global_depth THEN Doubled ELSE dir
        ones == {item \in bucket[b].items : Bit(Hash[item[1]], d)}
    IN  /\ global_depth' = IF d = global_depth THEN global_depth + 1 ELSE global_depth
        /\ num_buckets' = num_buckets + 1
        /\ bucket' = [c \in 1..(num_buckets + 1) |->
               CASE c = b -> [depth |-> d + 1, items |-> bucket[b].items \ ones]
                 [] c = num_buckets + 1 -> [depth |-> d + 1, items |-> ones]
                 [] OTHER -> bucket[c]]
        /\ dir' = [i \in DOMAIN wide |->
               IF wide[i] = b /\ Bit(i, d) THEN num_buckets + 1 ELSE wide[i]]

InsertSplit ==
    /\ inserting # None
    /\ IsFull(BucketOf(inserting[1]))
    /\ Split(BucketOf(inserting[1]))
    /\ UNCHANGED inserting

(* Mutant: an update returns with the latch held *)
InsertStoreKeepsLatch ==
    LET b == BucketOf(inserting[1]) IN
    /\ inserting # None
    /\ ~ IsFull(b)
    /\ bucket' = [bucket EXCEPT ![b].items =
                      {item \in @ : item[1] # inserting[1]} \cup {inserting}]
    /\ inserting' = IF Find(inserting[1]) = None THEN None ELSE inserting
    /\ UNCHANGED <<global_depth, dir, num_buckets>>

(* After the loop: the key's value is replaced, or the pair is added *)
InsertStore ==
    LET b == BucketOf(inserting[1]) IN
    /\ inserting # None
    /\ ~ IsFull(b)
    /\ bucket' = [bucket EXCEPT ![b].items =
                      {item \in @ : item[1] # inserting[1]} \cup {inserting}]
    /\ inserting' = None
    /\ UNCHANGED <<global_depth, dir, num_buckets>>

Remove(k) ==
    /\ inserting = None
    /\ \E item \in bucket[BucketOf(k)].items :
           /\ item[1] = k
           /\ bucket' = [bucket EXCEPT ![BucketOf(k)].items = @ \ {item}]
    /\ UNCHANGED <<global_depth, dir, num_buckets, inserting>>

Next ==
    \/ \E k \in Keys, v \in Values : Insert(k, v)
    \/ InsertSplit
    \/ InsertStore
    \/ \E k \in Keys : Remove(k)

(* A thread inside Insert holds no other resource and keeps running *)
Fairness == WF_vars(InsertSplit \/ InsertStore)

Spec == Init /\ [][Next]_vars /\ Fairness
-----------------------------------------------------------------------------

(* Two directory entries share a bucket exactly when they agree on the low  *)
(* bits the bucket's depth says, so every bucket has 2^(global - local)     *)
(* pointers, and num_buckets counts the buckets that can be reached.        *)
DirectoryShares ==
    /\ \A i, j \in DOMAIN dir :
           dir[i] = dir[j] <=> i % Pow2[bucket[dir[i]].depth] = j % Pow2[bucket[dir[i]].depth]
    /\ num_buckets = Cardinality({dir[i] : i \in DOMAIN dir})

(* After any number of splits every stored pair lies in the bucket its key  *)
(* is looked up in, a key is stored once, and no bucket is over-full, so    *)
(* Bucket::Insert never drops the pair it is given.                         *)
PairsInPlace ==
    \A b \in 1..num_buckets :
        /\ Cardinality(bucket[b].items) <= BucketSize
        /\ \A item \in bucket[b].items :
               /\ BucketOf(item[1]) = b
               /\ \A other \in bucket[b].items : other[1] = item[1] => other = item

(* The directory and the buckets agree after any sequence of splits,        *)
(* updates and removals (extendible_hash_table.cpp:94-130): the page table  *)
(* of the buffer pool relies on it.                                         *)
TableConsistent == TypeOK /\ DirectoryShares /\ PairsInPlace

(* Insert's while loop ends: splitting separates keys that share a bucket   *)
(* before the hash runs out of bits.                                        *)
InsertEnds == inserting # None ~> inserting = None

(* Through all splits the table is the map that its users take it for       *)
Map == INSTANCE Dictionary WITH map <- [k \in Keys |-> Find(k)]
ImplementsMap == Map!Spec
=============================================================================
