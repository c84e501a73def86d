-------------------------------- MODULE LRUK --------------------------------
(***************************************************************************)
(* The state of LRUKReplacer and the effect of each of its calls, as        *)
(* operators on a record, so that a caller that makes several calls under   *)
(* its own latch (the buffer pool manager) can compose them in one step.    *)
(* Every method of the class holds the replacer's latch_ throughout.        *)
(*                                                                         *)
(* The maps from frames to list iterators (history_map_, cache_map_) are    *)
(* left out: each holds exactly the frames of its list.                     *)
(***************************************************************************)
EXTENDS Integers, Sequences, SequencesExt, FiniteSets

CONSTANTS PoolSize,  \* replacer_size_ and pool_size_: the number of frames
          K          \* k_: the lookback constant

(* With k = 1 the first access would erase an iterator that was never      *)
(* stored; HMSSQL always passes LRUK_REPLACER_K = 10.                       *)
ASSUME LRUKAssumption == PoolSize \in Nat \ {0} /\ K \in Nat /\ K >= 2

VARIABLE replacer  \* the members of the LRUKReplacer at hand

Frames == 0..(PoolSize - 1)

(* The private members of the class. history_list and cache_list are the   *)
(* std::lists, front first. access_count saturates at K: a frame stays in   *)
(* cache_list from its k-th access on, and no code looks at the count then. *)
ReplacerType ==
    [history_list : Seq(Frames), cache_list : Seq(Frames),
     access_count : [Frames -> 0..K], is_evictable : [Frames -> BOOLEAN],
     curr_size : Int]

NewReplacer ==
    [history_list |-> <<>>, cache_list |-> <<>>,
     access_count |-> [f \in Frames |-> 0], is_evictable |-> [f \in Frames |-> FALSE],
     curr_size |-> 0]

(* list.erase(map[f]) *)
Erase(list, f) == RemoveAt(list, CHOOSE i \in DOMAIN list : list[i] = f)

-----------------------------------------------------------------------------

(* The frame a scan of the list from its back stops at: f is evictable and  *)
(* nothing behind it is.                                                    *)
LastEvictable(r, list, f) ==
    \E i \in DOMAIN list :
        /\ list[i] = f
        /\ r.is_evictable[f]
        /\ \A j \in (i + 1)..Len(list) : ~ r.is_evictable[list[j]]

HasEvictable(r, list) == \E i \in DOMAIN list : r.is_evictable[list[i]]

(* Evict returns true *)
CanEvict(r) ==
    /\ r.curr_size # 0
    /\ HasEvictable(r, r.history_list) \/ HasEvictable(r, r.cache_list)

(* Mutant: the two lists are scanned in the other order *)
IsVictimCacheFirst(r, f) ==
    IF HasEvictable(r, r.cache_list)
    THEN LastEvictable(r, r.cache_list, f)
    ELSE LastEvictable(r, r.history_list, f)

(* f is the frame that Evict returns *)
IsVictim(r, f) ==
    IF HasEvictable(r, r.history_list)
    THEN LastEvictable(r, r.history_list, f)
    ELSE LastEvictable(r, r.cache_list, f)

(* Forgetting f, the common end of Evict and Remove. *)
Forget(r, f) ==
    [history_list |-> IF r.access_count[f] < K THEN Erase(r.history_list, f) ELSE r.history_list,
     cache_list   |-> IF r.access_count[f] < K THEN r.cache_list ELSE Erase(r.cache_list, f),
     access_count |-> [r.access_count EXCEPT ![f] = 0],
     is_evictable |-> [r.is_evictable EXCEPT ![f] = FALSE],
     curr_size    |-> r.curr_size - 1]

(* Evict, when it found f *)
EvictFrame(r, f) == Forget(r, f)

(* Saturating access_count_[f]++: "== k_" after it is n = K - 1 before it,  *)
(* "> k_" is n = K.                                                         *)
NextCount(n) == IF n = K THEN K ELSE n + 1

HistoryAfter(r, f) ==
    CASE r.access_count[f] = K - 1 -> Erase(r.history_list, f)
      [] r.access_count[f] < K - 1 /\ f \notin ToSet(r.history_list) -> Cons(f, r.history_list)
      [] OTHER -> r.history_list

CacheAfter(r, f) ==
    CASE r.access_count[f] = K /\ f \in ToSet(r.cache_list) -> Cons(f, Erase(r.cache_list, f))
      [] r.access_count[f] = K /\ f \notin ToSet(r.cache_list) -> Cons(f, r.cache_list)
      [] r.access_count[f] = K - 1 -> Cons(f, r.cache_list)
      [] OTHER -> r.cache_list

RecordAccess(r, f) ==
    [history_list |-> HistoryAfter(r, f),
     cache_list   |-> CacheAfter(r, f),
     access_count |-> [r.access_count EXCEPT ![f] = NextCount(r.access_count[f])],
     is_evictable |-> r.is_evictable,
     curr_size    |-> r.curr_size]

(* Mutant: the size is decremented even if the frame was not evictable *)
SetEvictableMiscounts(r, f, set_evictable) ==
    IF r.access_count[f] = 0 THEN r
    ELSE [r EXCEPT
            !.is_evictable = [r.is_evictable EXCEPT ![f] = set_evictable],
            !.curr_size = IF set_evictable THEN r.curr_size + 1 ELSE r.curr_size - 1]

SizeAfter(r, f, set_evictable) ==
    CASE ~ r.is_evictable[f] /\ set_evictable -> r.curr_size + 1
      [] r.is_evictable[f] /\ ~ set_evictable -> r.curr_size - 1
      [] OTHER -> r.curr_size

SetEvictable(r, f, set_evictable) ==
    IF r.access_count[f] = 0 THEN r
    ELSE [history_list |-> r.history_list,
          cache_list   |-> r.cache_list,
          access_count |-> r.access_count,
          is_evictable |-> [r.is_evictable EXCEPT ![f] = set_evictable],
          curr_size    |-> SizeAfter(r, f, set_evictable)]

(* Remove throws std::exception, changing nothing, for a tracked frame that *)
(* is not evictable; an untracked frame is ignored.                         *)
RemoveThrows(r, f) == r.access_count[f] # 0 /\ ~ r.is_evictable[f]

RemoveFrame(r, f) == IF r.access_count[f] = 0 THEN r ELSE Forget(r, f)

-----------------------------------------------------------------------------

Evictable(r) == {f \in Frames : r.is_evictable[f]}

(* The two lists partition the tracked frames by their access count, no     *)
(* frame is listed twice, only tracked frames are evictable, and Size()     *)
(* is the number of evictable frames (lru_k_replacer.h:91).                 *)
ListsOK(r) ==
    /\ IsInjective(r.history_list)
    /\ IsInjective(r.cache_list)
    /\ ToSet(r.history_list) = {f \in Frames : r.access_count[f] \in 1..(K - 1)}
    /\ ToSet(r.cache_list) = {f \in Frames : r.access_count[f] = K}

SizeOK(r) ==
    /\ \A f \in Frames : r.is_evictable[f] => r.access_count[f] # 0
    /\ r.curr_size = Cardinality(Evictable(r))

ReplacerOK(r) == ListsOK(r) /\ SizeOK(r)
=============================================================================
