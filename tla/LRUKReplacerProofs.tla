------------------------- MODULE LRUKReplacerProofs -------------------------
(***************************************************************************)
(* The replacer for every pool size and every k >= 2: first one lemma per   *)
(* operator of LRUK, which the buffer pool's proofs use as well, then the   *)
(* replacer under arbitrary calls.                                          *)
(***************************************************************************)
EXTENDS LRUKReplacer, FiniteSetTheorems, WellFoundedInduction, TLAPS

(* Erasing the one occurrence of an element moves what is behind it up      *)
(* (list.erase through the iterator kept for the frame)                     *)
LEMMA EraseIs ==
    ASSUME NEW S, NEW list \in Seq(S), NEW f \in ToSet(list)
    PROVE  \E i \in 1..Len(list) :
              /\ list[i] = f
              /\ Erase(list, f) \in Seq(S)
              /\ Len(Erase(list, f)) = Len(list) - 1
              /\ \A j \in 1..Len(Erase(list, f)) :
                    Erase(list, f)[j] = IF j < i THEN list[j] ELSE list[j + 1]
<1> DEFINE i == CHOOSE j \in DOMAIN list : list[j] = f
           e == Erase(list, f)
<1>1. i \in 1..Len(list) /\ list[i] = f
  BY DEF ToSet
<1> HIDE DEF i
<1> DEFINE a == SubSeq(list, 1, i - 1)
           b == SubSeq(list, i + 1, Len(list))
<1>2. e = a \o b
  BY DEF Erase, RemoveAt, i
<1>3. a \in Seq(S) /\ Len(a) = i - 1 /\ \A j \in 1..(i - 1) : a[j] = list[j]
  BY <1>1
<1>4. b \in Seq(S) /\ Len(b) = Len(list) - i
      /\ \A j \in 1..(Len(list) - i) : b[j] = list[i + j]
  BY <1>1
<1> HIDE DEF a, b
<1>5. e \in Seq(S) /\ Len(e) = Len(list) - 1
  BY <1>1, <1>2, <1>3, <1>4
<1>6. ASSUME NEW j \in 1..Len(e), j < i PROVE e[j] = list[j]
  BY <1>1, <1>2, <1>3, <1>4, <1>5, <1>6
<1>7. ASSUME NEW j \in 1..Len(e), ~ (j < i) PROVE e[j] = list[j + 1]
  <2>1. e[j] = b[j - (i - 1)] /\ j - (i - 1) \in 1..(Len(list) - i)
    BY <1>1, <1>2, <1>3, <1>4, <1>5, <1>7
  <2> QED BY <1>1, <1>4, <1>5, <1>7, <2>1
<1> HIDE DEF e
<1> QED BY <1>1, <1>5, <1>6, <1>7 DEF e

(* and removes it and nothing else. *)
LEMMA EraseProperties ==
    ASSUME NEW S, NEW list \in Seq(S), IsInjective(list), NEW f \in ToSet(list)
    PROVE  /\ Erase(list, f) \in Seq(S)
           /\ IsInjective(Erase(list, f))
           /\ ToSet(Erase(list, f)) = ToSet(list) \ {f}
<1> DEFINE e == Erase(list, f)
<1>1. PICK i \in 1..Len(list) :
         /\ list[i] = f /\ e \in Seq(S) /\ Len(e) = Len(list) - 1
         /\ \A j \in 1..Len(e) : e[j] = IF j < i THEN list[j] ELSE list[j + 1]
  BY EraseIs
<1>2. /\ e \in Seq(S)
      /\ Len(e) = Len(list) - 1
      /\ \A j \in 1..Len(e) : e[j] = IF j < i THEN list[j] ELSE list[j + 1]
  BY <1>1
<1> HIDE DEF e
<1>3. IsInjective(e)
  <2> SUFFICES ASSUME NEW j \in 1..Len(e), NEW k \in 1..Len(e), e[j] = e[k] PROVE j = k
    BY <1>2 DEF IsInjective
  <2>1. \A m \in 1..Len(e) : m \in DOMAIN list /\ m + 1 \in DOMAIN list
    BY <1>1, <1>2
  <2>2. \A m, n \in DOMAIN list : list[m] = list[n] => m = n
    BY DEF IsInjective
  <2>3. CASE j < i /\ k < i
    BY <1>2, <2>1, <2>2, <2>3
  <2>4. CASE j < i /\ ~ (k < i)
    <3>1. list[j] = list[k + 1]
      BY <1>2, <2>4
    <3>2. j = k + 1
      BY <2>1, <2>2, <3>1
    <3> QED BY <1>1, <2>4, <3>2
  <2>5. CASE ~ (j < i) /\ k < i
    <3>1. list[j + 1] = list[k]
      BY <1>2, <2>5
    <3>2. j + 1 = k
      BY <2>1, <2>2, <3>1
    <3> QED BY <1>1, <2>5, <3>2
  <2>6. CASE ~ (j < i) /\ ~ (k < i)
    BY <1>2, <2>1, <2>2, <2>6, SMTT(30)
  <2> QED BY <2>3, <2>4, <2>5, <2>6
<1>4. ToSet(e) = ToSet(list) \ {f}
  <2>1. ASSUME NEW x \in ToSet(e) PROVE x \in ToSet(list) \ {f}
    <3>1. PICK j \in 1..Len(e) : e[j] = x
      BY <1>2 DEF ToSet
    <3>2. j \in DOMAIN list /\ j + 1 \in DOMAIN list
      BY <1>1, <1>2
    <3>3. CASE j < i
      BY <1>1, <1>2, <3>1, <3>2, <3>3, SMTT(30) DEF ToSet, IsInjective
    <3>4. CASE ~ (j < i)
      <4>1. x = list[j + 1] /\ j + 1 # i
        BY <1>2, <3>1, <3>4
      <4>2. list[j + 1] # f
        BY <1>1, <3>2, <4>1 DEF IsInjective
      <4> QED BY <3>2, <4>1, <4>2 DEF ToSet
    <3> QED BY <3>3, <3>4
  <2>2. ASSUME NEW x \in ToSet(list) \ {f} PROVE x \in ToSet(e)
    <3>1. PICK j \in 1..Len(list) : list[j] = x
      BY DEF ToSet
    <3>2. CASE j < i
      BY <1>1, <1>2, <3>1, <3>2 DEF ToSet
    <3>3. CASE j > i
      <4>1. j - 1 \in 1..Len(e) /\ e[j - 1] = x
        BY <1>1, <1>2, <3>1, <3>3
      <4> QED BY <4>1, <1>2 DEF ToSet
    <3> QED BY <1>1, <3>1, <3>2, <3>3
  <2> QED BY <2>1, <2>2
<1> QED BY <1>2, <1>3, <1>4 DEF e

(* push_front of a frame that is not listed *)
LEMMA ConsProperties ==
    ASSUME NEW S, NEW list \in Seq(S), IsInjective(list), NEW f \in S, f \notin ToSet(list)
    PROVE  /\ Cons(f, list) \in Seq(S)
           /\ IsInjective(Cons(f, list))
           /\ ToSet(Cons(f, list)) = ToSet(list) \cup {f}
<1> DEFINE c == Cons(f, list)
<1>1. /\ c \in Seq(S)
      /\ Len(c) = Len(list) + 1
      /\ c[1] = f
      /\ \A j \in 1..Len(list) : c[j + 1] = list[j]
      /\ \A j \in 2..Len(c) : c[j] = list[j - 1] /\ j - 1 \in 1..Len(list)
  BY DEF Cons
<1>2. IsInjective(c)
  BY <1>1 DEF IsInjective, ToSet
<1>3. ToSet(c) = ToSet(list) \cup {f}
  <2>1. ASSUME NEW x \in ToSet(c) PROVE x \in ToSet(list) \cup {f}
    BY <1>1 DEF ToSet
  <2>2. ASSUME NEW x \in ToSet(list) PROVE x \in ToSet(c)
    <3>1. PICK j \in 1..Len(list) : list[j] = x
      BY DEF ToSet
    <3>2. j + 1 \in 1..Len(c) /\ c[j + 1] = x
      BY <1>1, <3>1
    <3> QED BY <3>2, <1>1 DEF ToSet
  <2>3. f \in ToSet(c)
    BY <1>1 DEF ToSet
  <2> QED BY <2>1, <2>2, <2>3
<1> QED BY <1>1, <1>2, <1>3

-----------------------------------------------------------------------------

(* The evictable frames are finitely many, so curr_size_ can count them *)
LEMMA EvictableFinite ==
    ASSUME NEW r PROVE IsFiniteSet(Evictable(r)) /\ Cardinality(Evictable(r)) \in 0..PoolSize
<1>1. IsFiniteSet(Frames) /\ Cardinality(Frames) = PoolSize
  BY FS_Interval, LRUKAssumption DEF Frames
<1>2. Evictable(r) \subseteq Frames
  BY DEF Evictable
<1>3. IsFiniteSet(Evictable(r)) /\ Cardinality(Evictable(r)) <= Cardinality(Frames)
  BY <1>1, <1>2, FS_Subset
<1>4. Cardinality(Evictable(r)) \in Nat
  BY <1>3, FS_CardinalityType
<1> QED BY <1>1, <1>3, <1>4, LRUKAssumption

(* The size after one frame's evictable flag is set or cleared *)
LEMMA SizeAfterFlip ==
    ASSUME NEW r \in ReplacerType, NEW q \in ReplacerType, NEW f \in Frames, NEW b \in BOOLEAN,
           q.is_evictable = [r.is_evictable EXCEPT ![f] = b]
    PROVE  Cardinality(Evictable(q)) =
             IF b /\ ~ r.is_evictable[f] THEN Cardinality(Evictable(r)) + 1
             ELSE IF ~ b /\ r.is_evictable[f] THEN Cardinality(Evictable(r)) - 1
             ELSE Cardinality(Evictable(r))
<1>1. CASE b = r.is_evictable[f]
  <2>1. Evictable(q) = Evictable(r)
    BY <1>1 DEF Evictable, ReplacerType
  <2> QED BY <1>1, <2>1
<1>2. CASE b /\ ~ r.is_evictable[f]
  <2>1. Evictable(q) = Evictable(r) \cup {f} /\ f \notin Evictable(r)
    BY <1>2 DEF Evictable, ReplacerType
  <2> QED BY <1>2, <2>1, EvictableFinite, FS_AddElement
<1>3. CASE ~ b /\ r.is_evictable[f]
  <2>1. Evictable(q) = Evictable(r) \ {f} /\ f \in Evictable(r)
    BY <1>3 DEF Evictable, ReplacerType
  <2> QED BY <1>3, <2>1, EvictableFinite, FS_RemoveElement
<1>4. r.is_evictable[f] \in BOOLEAN
  BY DEF ReplacerType
<1> QED BY <1>1, <1>2, <1>3, <1>4

(* The constructor makes a consistent replacer with no frame tracked *)
LEMMA NewReplacerOK == NewReplacer \in ReplacerType /\ ReplacerOK(NewReplacer)
<1>1. NewReplacer \in ReplacerType
  BY LRUKAssumption DEF NewReplacer, ReplacerType
<1>2. ListsOK(NewReplacer)
  BY LRUKAssumption DEF NewReplacer, ListsOK, IsInjective, ToSet
<1>3. Evictable(NewReplacer) = {}
  BY DEF Evictable, NewReplacer
<1>4. SizeOK(NewReplacer)
  BY <1>3, FS_EmptySet DEF SizeOK, NewReplacer
<1> QED BY <1>1, <1>2, <1>4 DEF ReplacerOK

(* RecordAccess moves the frame between the lists as its count crosses k *)
LEMMA RecordAccessOK ==
    ASSUME NEW r \in ReplacerType, ReplacerOK(r), NEW f \in Frames
    PROVE  /\ RecordAccess(r, f) \in ReplacerType
           /\ ReplacerOK(RecordAccess(r, f))
           /\ RecordAccess(r, f).is_evictable = r.is_evictable
           /\ RecordAccess(r, f).access_count[f] # 0
           /\ \A g \in Frames \ {f} : RecordAccess(r, f).access_count[g] = r.access_count[g]
<1> DEFINE n == r.access_count[f]
           q == RecordAccess(r, f)
<1>1. /\ n \in 0..K
      /\ r.history_list \in Seq(Frames) /\ r.cache_list \in Seq(Frames)
      /\ r.access_count \in [Frames -> 0..K] /\ r.is_evictable \in [Frames -> BOOLEAN]
      /\ r.curr_size \in Int
  BY DEF ReplacerType
<1>2. /\ IsInjective(r.history_list) /\ IsInjective(r.cache_list)
      /\ f \in ToSet(r.history_list) <=> n \in 1..(K - 1)
      /\ f \in ToSet(r.cache_list) <=> n = K
  BY DEF ReplacerOK, ListsOK
<1>3. /\ NextCount(n) \in 1..K
      /\ n < K => NextCount(n) = n + 1
      /\ n = K => NextCount(n) = K
  BY <1>1, LRUKAssumption DEF NextCount
<1>4. /\ q.access_count = [r.access_count EXCEPT ![f] = NextCount(n)]
      /\ q.is_evictable = r.is_evictable
      /\ q.curr_size = r.curr_size
      /\ q.history_list = HistoryAfter(r, f)
      /\ q.cache_list = CacheAfter(r, f)
  BY DEF RecordAccess
<1>5. /\ HistoryAfter(r, f) \in Seq(Frames)
      /\ IsInjective(HistoryAfter(r, f))
      /\ n >= K - 1 => ToSet(HistoryAfter(r, f)) = ToSet(r.history_list) \ {f}
      /\ n < K - 1 => ToSet(HistoryAfter(r, f)) = ToSet(r.history_list) \cup {f}
  <2>1. CASE n = K - 1
    <3>1. HistoryAfter(r, f) = Erase(r.history_list, f)
      BY <2>1, LRUKAssumption DEF HistoryAfter
    <3>2. f \in ToSet(r.history_list)
      BY <2>1, <1>2, LRUKAssumption
    <3> QED BY <3>1, <3>2, <2>1, <1>1, <1>2, EraseProperties
  <2>2. CASE n = K
    <3>1. HistoryAfter(r, f) = r.history_list
      BY <2>2, LRUKAssumption DEF HistoryAfter
    <3>2. f \notin ToSet(r.history_list)
      BY <2>2, <1>2, LRUKAssumption
    <3> QED BY <3>1, <3>2, <2>2, <1>1, <1>2, LRUKAssumption
  <2>3. CASE n < K - 1 /\ f \notin ToSet(r.history_list)
    <3>1. HistoryAfter(r, f) = Cons(f, r.history_list)
      BY <2>3, <1>1, LRUKAssumption DEF HistoryAfter
    <3> QED BY <3>1, <2>3, <1>1, <1>2, ConsProperties, LRUKAssumption
  <2>4. CASE n < K - 1 /\ f \in ToSet(r.history_list)
    <3>1. HistoryAfter(r, f) = r.history_list
      BY <2>4, <1>1, LRUKAssumption DEF HistoryAfter
    <3> QED BY <3>1, <2>4, <1>1, <1>2, LRUKAssumption
  <2> QED BY <2>1, <2>2, <2>3, <2>4, <1>1, LRUKAssumption
<1>6. /\ CacheAfter(r, f) \in Seq(Frames)
      /\ IsInjective(CacheAfter(r, f))
      /\ n >= K - 1 => ToSet(CacheAfter(r, f)) = ToSet(r.cache_list) \cup {f}
      /\ n < K - 1 => ToSet(CacheAfter(r, f)) = ToSet(r.cache_list)
  <2>1. CASE n = K
    <3>1. CacheAfter(r, f) = Cons(f, Erase(r.cache_list, f))
      BY <2>1, <1>2, LRUKAssumption DEF CacheAfter
    <3>2. /\ Erase(r.cache_list, f) \in Seq(Frames)
          /\ IsInjective(Erase(r.cache_list, f))
          /\ ToSet(Erase(r.cache_list, f)) = ToSet(r.cache_list) \ {f}
      BY <2>1, <1>1, <1>2, EraseProperties
    <3>3. f \notin ToSet(Erase(r.cache_list, f))
      BY <3>2
    <3>4. ToSet(Cons(f, Erase(r.cache_list, f))) = (ToSet(r.cache_list) \ {f}) \cup {f}
      BY <3>2, <3>3, ConsProperties
    <3> QED BY <3>1, <3>2, <3>3, <3>4, <2>1, <1>2, ConsProperties, LRUKAssumption
  <2>2. CASE n = K - 1
    <3>1. CacheAfter(r, f) = Cons(f, r.cache_list)
      BY <2>2, LRUKAssumption DEF CacheAfter
    <3>2. f \notin ToSet(r.cache_list)
      BY <2>2, <1>2, LRUKAssumption
    <3> QED BY <3>1, <3>2, <2>2, <1>1, <1>2, ConsProperties, LRUKAssumption
  <2>3. CASE n < K - 1
    <3>1. CacheAfter(r, f) = r.cache_list
      BY <2>3, <1>1, LRUKAssumption DEF CacheAfter
    <3> QED BY <3>1, <2>3, <1>1, <1>2, LRUKAssumption
  <2> QED BY <2>1, <2>2, <2>3, <1>1, LRUKAssumption
<1>7. q \in ReplacerType
  <2>1. [r.access_count EXCEPT ![f] = NextCount(n)] \in [Frames -> 0..K]
    BY <1>1, <1>3, LRUKAssumption
  <2> QED BY <1>1, <1>5, <1>6, <2>1 DEF RecordAccess, ReplacerType
<1> HIDE DEF q
<1>8. ListsOK(q)
  <2>1. ToSet(q.history_list) = {g \in Frames : q.access_count[g] \in 1..(K - 1)}
    BY <1>1, <1>2, <1>3, <1>4, <1>5, LRUKAssumption DEF ReplacerOK, ListsOK
  <2>2. ToSet(q.cache_list) = {g \in Frames : q.access_count[g] = K}
    BY <1>1, <1>2, <1>3, <1>4, <1>6, LRUKAssumption DEF ReplacerOK, ListsOK
  <2> QED BY <2>1, <2>2, <1>4, <1>5, <1>6 DEF ListsOK
<1>9. SizeOK(q)
  BY <1>1, <1>3, <1>4, LRUKAssumption DEF ReplacerOK, SizeOK, Evictable
<1> QED BY <1>1, <1>3, <1>4, <1>7, <1>8, <1>9 DEF ReplacerOK, q

(* SetEvictable keeps the size equal to the number of evictable frames *)
LEMMA SetEvictableOK ==
    ASSUME NEW r \in ReplacerType, ReplacerOK(r), NEW f \in Frames, NEW b \in BOOLEAN
    PROVE  /\ SetEvictable(r, f, b) \in ReplacerType
           /\ ReplacerOK(SetEvictable(r, f, b))
           /\ SetEvictable(r, f, b).access_count = r.access_count
           /\ r.access_count[f] # 0 =>
                  SetEvictable(r, f, b).is_evictable = [r.is_evictable EXCEPT ![f] = b]
<1> DEFINE q == SetEvictable(r, f, b)
<1>1. CASE r.access_count[f] = 0
  BY <1>1 DEF SetEvictable
<1>2. CASE r.access_count[f] # 0
  <2>1. /\ q \in ReplacerType
        /\ q.history_list = r.history_list /\ q.cache_list = r.cache_list
        /\ q.access_count = r.access_count
        /\ q.is_evictable = [r.is_evictable EXCEPT ![f] = b]
        /\ q.curr_size = SizeAfter(r, f, b)
    <3>1. SizeAfter(r, f, b) \in Int
      BY DEF SizeAfter, ReplacerType
    <3> QED BY <1>2, <3>1 DEF SetEvictable, ReplacerType
  <2> HIDE DEF q
  <2>2. ListsOK(q)
    BY <2>1 DEF ReplacerOK, ListsOK
  <2>3. \A g \in Frames : q.is_evictable[g] => q.access_count[g] # 0
    BY <1>2, <2>1 DEF ReplacerOK, SizeOK, ReplacerType
  <2>4. q.curr_size = Cardinality(Evictable(q))
    BY <2>1, SizeAfterFlip DEF ReplacerOK, SizeOK, SizeAfter
  <2> QED BY <1>2, <2>1, <2>2, <2>3, <2>4 DEF ReplacerOK, SizeOK, q
<1> QED BY <1>1, <1>2

(* Evict and Remove untrack exactly the one frame *)
LEMMA ForgetOK ==
    ASSUME NEW r \in ReplacerType, ReplacerOK(r), NEW f \in Frames, r.is_evictable[f]
    PROVE  /\ Forget(r, f) \in ReplacerType
           /\ ReplacerOK(Forget(r, f))
           /\ Forget(r, f).access_count = [r.access_count EXCEPT ![f] = 0]
           /\ Forget(r, f).is_evictable = [r.is_evictable EXCEPT ![f] = FALSE]
<1> DEFINE n == r.access_count[f]
           q == Forget(r, f)
<1>1. /\ n \in 1..K
      /\ r.history_list \in Seq(Frames) /\ r.cache_list \in Seq(Frames)
      /\ r.access_count \in [Frames -> 0..K] /\ r.is_evictable \in [Frames -> BOOLEAN]
      /\ r.curr_size \in Int
  BY DEF ReplacerType, ReplacerOK, SizeOK
<1>2. /\ IsInjective(r.history_list) /\ IsInjective(r.cache_list)
      /\ f \in ToSet(r.history_list) <=> n \in 1..(K - 1)
      /\ f \in ToSet(r.cache_list) <=> n = K
  BY DEF ReplacerOK, ListsOK
<1>3. /\ q.access_count = [r.access_count EXCEPT ![f] = 0]
      /\ q.is_evictable = [r.is_evictable EXCEPT ![f] = FALSE]
      /\ q.curr_size = r.curr_size - 1
      /\ q.history_list = IF n < K THEN Erase(r.history_list, f) ELSE r.history_list
      /\ q.cache_list = IF n < K THEN r.cache_list ELSE Erase(r.cache_list, f)
  BY DEF Forget
<1>4. /\ q.history_list \in Seq(Frames) /\ IsInjective(q.history_list)
      /\ ToSet(q.history_list) = ToSet(r.history_list) \ {f}
      /\ q.cache_list \in Seq(Frames) /\ IsInjective(q.cache_list)
      /\ ToSet(q.cache_list) = ToSet(r.cache_list) \ {f}
  <2>1. CASE n < K
    BY <2>1, <1>1, <1>2, <1>3, EraseProperties, LRUKAssumption
  <2>2. CASE n = K
    BY <2>2, <1>1, <1>2, <1>3, EraseProperties, LRUKAssumption
  <2> QED BY <2>1, <2>2, <1>1, LRUKAssumption
<1>5. q \in ReplacerType
  <2>1. [r.access_count EXCEPT ![f] = 0] \in [Frames -> 0..K]
    BY <1>1, LRUKAssumption
  <2>2. [r.is_evictable EXCEPT ![f] = FALSE] \in [Frames -> BOOLEAN]
    BY <1>1
  <2>3. /\ (IF n < K THEN Erase(r.history_list, f) ELSE r.history_list) \in Seq(Frames)
        /\ (IF n < K THEN r.cache_list ELSE Erase(r.cache_list, f)) \in Seq(Frames)
    BY <1>3, <1>4
  <2> QED BY <1>1, <2>1, <2>2, <2>3 DEF Forget, ReplacerType
<1> HIDE DEF q
<1>6. ListsOK(q)
  BY <1>1, <1>3, <1>4, LRUKAssumption DEF ReplacerOK, ListsOK
<1>7. q.curr_size = Cardinality(Evictable(q))
  BY <1>3, <1>5, SizeAfterFlip DEF ReplacerOK, SizeOK
<1>8. \A g \in Frames : q.is_evictable[g] => q.access_count[g] # 0
  BY <1>1, <1>3 DEF ReplacerOK, SizeOK
<1> QED BY <1>3, <1>5, <1>6, <1>7, <1>8 DEF ReplacerOK, SizeOK, q

(* A victim is always an evictable frame *)
LEMMA VictimEvictable ==
    ASSUME NEW r, NEW f, IsVictim(r, f) PROVE r.is_evictable[f]
BY DEF IsVictim, LastEvictable

(* Evict cannot fail while some frame is evictable *)
LEMMA EvictableMeansCanEvict ==
    ASSUME NEW r \in ReplacerType, ReplacerOK(r), NEW f \in Frames, r.is_evictable[f]
    PROVE  CanEvict(r)
<1>1. r.curr_size # 0
  <2>1. Evictable(r) # {}
    BY DEF Evictable
  <2> QED BY <2>1, EvictableFinite, FS_EmptySet DEF ReplacerOK, SizeOK
<1>2. f \in ToSet(r.history_list) \/ f \in ToSet(r.cache_list)
  BY LRUKAssumption DEF ReplacerOK, ListsOK, SizeOK, ReplacerType
<1> QED BY <1>1, <1>2 DEF CanEvict, HasEvictable, ToSet

-----------------------------------------------------------------------------


LInv == replacer \in ReplacerType /\ ReplacerOK(replacer)

(* Consistency of the replacer is inductive: every public method keeps it *)
LEMMA LInvInductive == ReplacerSpec => []LInv
<1>1. ReplacerInit => LInv
  BY NewReplacerOK DEF ReplacerInit, LInv
<1>2. LInv /\ [ReplacerNext]_ReplacerVars => LInv'
  <2> SUFFICES ASSUME LInv, [ReplacerNext]_ReplacerVars PROVE LInv'
    OBVIOUS
  <2> USE DEF LInv
  <2>1. ASSUME NEW f \in Frames, Record(f) PROVE LInv'
    BY <2>1, RecordAccessOK DEF Record
  <2>2. ASSUME NEW f \in Frames, NEW b \in BOOLEAN, Set(f, b) PROVE LInv'
    BY <2>2, SetEvictableOK DEF Set
  <2>3. ASSUME NEW f \in Frames, Evict(f) PROVE LInv'
    BY <2>3, VictimEvictable, ForgetOK DEF Evict, EvictFrame
  <2>4. ASSUME NEW f \in Frames, Drop(f) PROVE LInv'
    BY <2>4, ForgetOK DEF Drop, RemoveFrame, RemoveThrows
  <2>5. CASE UNCHANGED ReplacerVars
    BY <2>5 DEF ReplacerVars
  <2> QED BY <2>1, <2>2, <2>3, <2>4, <2>5 DEF ReplacerNext
<1> QED BY <1>1, <1>2, PTL DEF ReplacerSpec

(* Any sequence of calls leaves the replacer's lists, counts and size       *)
(* consistent (LRUKReplacer's six containers).                               *)
THEOREM ReplacerIsConsistent == ReplacerSpec => []ReplacerConsistent
<1>1. LInv => ReplacerConsistent
  BY DEF LInv, ReplacerConsistent
<1> QED BY <1>1, LInvInductive, PTL
-----------------------------------------------------------------------------
(* A list in which the frames at the front have the later times, and a      *)
(* scan from its back meets the earliest first                              *)
Ordered(list, at) == \A m, n \in DOMAIN list : m < n => at[list[n]] <= at[list[m]]

FirstAccesses == [f \in Frames |-> FirstAccess(f)]
LastAccesses == [f \in Frames |-> LastAccess(f)]

(* The counts are those of the accesses, saturating at k, history_list is   *)
(* ordered by first accesses and cache_list by last ones                    *)
OrderInv ==
    /\ LInv
    /\ now \in Nat
    /\ accesses \in [Frames -> SUBSET (1..now)]
    /\ \A f \in Frames :
          replacer.access_count[f] = IF Cardinality(accesses[f]) < K
                                     THEN Cardinality(accesses[f]) ELSE K
    /\ Ordered(replacer.history_list, FirstAccesses)
    /\ Ordered(replacer.cache_list, LastAccesses)

(* A nonempty set of natural numbers has a least element *)
LEMMA LeastOfNats ==
    ASSUME NEW T, T \subseteq Nat, T # {}
    PROVE  \E x \in T : \A y \in T : x <= y
<1>1. PICK x \in T : \A y \in T : ~ (<<y, x>> \in OpToRel(<, Nat))
  BY NatLessThanWellFounded, WFMin
<1>2. \A y \in T : ~ (y < x)
  BY <1>1 DEF OpToRel
<1> QED BY <1>2

(* The first and the last of the times up to n *)
LEMMA TimesHaveEnds ==
    ASSUME NEW n \in Nat, NEW T \in SUBSET (1..n), T # {}
    PROVE  /\ Min(T) \in T /\ \A y \in T : Min(T) <= y
           /\ Max(T) \in T /\ \A y \in T : Max(T) >= y
<1>1. \E x \in T : \A y \in T : x <= y
  <2>1. T \subseteq Nat
    OBVIOUS
  <2> QED BY <2>1, LeastOfNats
<1>2. \E x \in T : \A y \in T : x >= y
  <2> DEFINE U == {n - x : x \in T}
  <2>1. U \subseteq Nat /\ U # {}
    <3>1. PICK x \in T : TRUE
      OBVIOUS
    <3>2. n - x \in U
      OBVIOUS
    <3>3. ASSUME NEW u \in U PROVE u \in Nat
      <4>1. PICK y \in T : u = n - y
        OBVIOUS
      <4> QED BY <4>1
    <3> QED BY <3>2, <3>3
  <2>2. PICK u \in U : \A w \in U : u <= w
    <3> HIDE DEF U
    <3> QED BY <2>1, LeastOfNats
  <2>3. PICK x \in T : u = n - x
    BY <2>2
  <2>4. ASSUME NEW y \in T PROVE x >= y
    <3>1. n - y \in U
      OBVIOUS
    <3>2. n - x <= n - y
      BY <2>2, <2>3, <3>1
    <3> QED BY <3>2
  <2> QED BY <2>4
<1> QED BY <1>1, <1>2 DEF Min, Max

(* Times up to n are finitely many *)
LEMMA TimesFinite ==
    ASSUME NEW n \in Nat, NEW T \in SUBSET (1..n)
    PROVE  IsFiniteSet(T) /\ Cardinality(T) \in Nat /\ (Cardinality(T) = 0 <=> T = {})
<1>1. IsFiniteSet(1..n)
  BY FS_Interval
<1>2. IsFiniteSet(T)
  BY <1>1, FS_Subset
<1> QED BY <1>2, FS_CardinalityType, FS_EmptySet

(* Erasing a frame keeps the order of the others, *)
LEMMA EraseOrdered ==
    ASSUME NEW S, NEW list \in Seq(S), NEW f \in ToSet(list), NEW at, Ordered(list, at)
    PROVE  Ordered(Erase(list, f), at)
<1> DEFINE e == Erase(list, f)
<1>1. PICK i \in 1..Len(list) :
         /\ e \in Seq(S) /\ Len(e) = Len(list) - 1
         /\ \A j \in 1..Len(e) : e[j] = IF j < i THEN list[j] ELSE list[j + 1]
  BY EraseIs
<1> HIDE DEF e
<1>2. SUFFICES ASSUME NEW m \in 1..Len(e), NEW n \in 1..Len(e), m < n
               PROVE  at[e[n]] <= at[e[m]]
  BY <1>1 DEF Ordered, e
<1>3. PICK a, b : /\ a \in DOMAIN list /\ b \in DOMAIN list /\ a < b
                  /\ e[m] = list[a] /\ e[n] = list[b]
  <2>1. m \in DOMAIN list /\ m + 1 \in DOMAIN list /\ n \in DOMAIN list /\ n + 1 \in DOMAIN list
    BY <1>1
  <2>2. CASE n < i
    BY <1>1, <1>2, <2>1, <2>2, SMTT(30)
  <2>3. CASE m < i /\ ~ (n < i)
    <3>1. e[m] = list[m] /\ e[n] = list[n + 1] /\ m < n + 1
      BY <1>1, <1>2, <2>3
    <3> QED BY <2>1, <3>1, Zenon
  <2>4. CASE ~ (m < i)
    <3>1. e[m] = list[m + 1] /\ e[n] = list[n + 1] /\ m + 1 < n + 1
      BY <1>1, <1>2, <2>4
    <3> QED BY <2>1, <3>1, Zenon
  <2> QED BY <2>2, <2>3, <2>4
<1> QED BY <1>3 DEF Ordered

(* a frame that has a later time than all goes to the front, *)
LEMMA ConsOrdered ==
    ASSUME NEW S, NEW list \in Seq(S), NEW f \in S, NEW at, Ordered(list, at),
           \A g \in ToSet(list) : at[g] <= at[f]
    PROVE  Ordered(Cons(f, list), at)
<1> DEFINE c == Cons(f, list)
<1>1. /\ c \in Seq(S) /\ Len(c) = Len(list) + 1 /\ c[1] = f
      /\ \A j \in 2..Len(c) : c[j] = list[j - 1] /\ j - 1 \in 1..Len(list)
  BY DEF Cons
<1> HIDE DEF c
<1>2. SUFFICES ASSUME NEW m \in 1..Len(c), NEW n \in 1..Len(c), m < n
               PROVE  at[c[n]] <= at[c[m]]
  BY <1>1 DEF Ordered, c
<1>3. n \in 2..Len(c) /\ c[n] = list[n - 1] /\ n - 1 \in DOMAIN list
  BY <1>1, <1>2
<1>4. CASE m = 1
  BY <1>1, <1>3, <1>4 DEF ToSet
<1>5. CASE m # 1
  <2>1. m \in 2..Len(c)
    BY <1>5
  <2>2. c[m] = list[m - 1] /\ m - 1 \in DOMAIN list
    BY <1>1, <2>1
  <2>3. m - 1 < n - 1
    BY <1>2
  <2> QED BY <1>3, <2>2, <2>3 DEF Ordered
<1> QED BY <1>4, <1>5

(* and only the times of listed frames matter. *)
LEMMA SameOrder ==
    ASSUME NEW list, NEW at, NEW later, Ordered(list, at),
           \A g \in ToSet(list) : later[g] = at[g]
    PROVE  Ordered(list, later)
BY DEF Ordered, ToSet

(* What a step that changes the times of one frame keeps of the others' *)
LEMMA OthersTimes ==
    ASSUME NEW f \in Frames, NEW T, accesses \in [Frames -> SUBSET (1..now)],
           accesses' = [accesses EXCEPT ![f] = T]
    PROVE  /\ accesses'[f] = T
           /\ \A g \in Frames \ {f} :
                 /\ accesses'[g] = accesses[g]
                 /\ FirstAccesses'[g] = FirstAccesses[g]
                 /\ LastAccesses'[g] = LastAccesses[g]
           /\ FirstAccesses'[f] = Min(T)
           /\ LastAccesses'[f] = Max(T)
<1>1. accesses'[f] = T /\ \A g \in Frames \ {f} : accesses'[g] = accesses[g]
  OBVIOUS
<1>2. /\ \A g \in Frames : FirstAccesses[g] = Min(accesses[g]) /\ LastAccesses[g] = Max(accesses[g])
      /\ \A g \in Frames : FirstAccesses'[g] = Min(accesses'[g])
      /\ \A g \in Frames : LastAccesses'[g] = Max(accesses'[g])
  BY DEF FirstAccesses, LastAccesses, FirstAccess, LastAccess
<1> QED BY <1>1, <1>2

(* An access keeps the invariant *)
LEMMA RecordOrder ==
    ASSUME NEW f \in Frames, OrderInv, Record(f), LInv'
    PROVE  OrderInv'
<1> DEFINE r == replacer
           T == accesses[f] \cup {now + 1}
           count == r.access_count[f]
<1>1. /\ r \in ReplacerType /\ ReplacerOK(r) /\ now \in Nat
      /\ accesses \in [Frames -> SUBSET (1..now)]
      /\ r' = RecordAccess(r, f) /\ now' = now + 1
      /\ accesses' = [accesses EXCEPT ![f] = T]
  BY DEF OrderInv, LInv, Record
<1>2. /\ r.history_list \in Seq(Frames) /\ r.cache_list \in Seq(Frames) /\ count \in 0..K
      /\ IsInjective(r.history_list) /\ IsInjective(r.cache_list)
      /\ ToSet(r.history_list) = {g \in Frames : r.access_count[g] \in 1..(K - 1)}
      /\ ToSet(r.cache_list) = {g \in Frames : r.access_count[g] = K}
      /\ K \in Nat /\ K >= 2
  BY <1>1, LRUKAssumption DEF ReplacerType, ReplacerOK, ListsOK
<1>3. /\ Ordered(r.history_list, FirstAccesses) /\ Ordered(r.cache_list, LastAccesses)
      /\ \A g \in Frames : r.access_count[g] = IF Cardinality(accesses[g]) < K
                                               THEN Cardinality(accesses[g]) ELSE K
  BY DEF OrderInv
<1>4. /\ accesses'[f] = T
      /\ \A g \in Frames \ {f} :
            /\ accesses'[g] = accesses[g]
            /\ FirstAccesses'[g] = FirstAccesses[g]
            /\ LastAccesses'[g] = LastAccesses[g]
      /\ FirstAccesses'[f] = Min(T)
      /\ LastAccesses'[f] = Max(T)
  BY <1>1, OthersTimes
<1>5. accesses' \in [Frames -> SUBSET (1..now')] /\ now' \in Nat
  <2>1. \A g \in Frames : accesses'[g] \in SUBSET (1..(now + 1))
    BY <1>1, <1>4
  <2>2. accesses' = [g \in Frames |-> accesses'[g]]
    BY <1>1
  <2> QED BY <1>1, <2>1, <2>2
<1>6. IsFiniteSet(accesses[f]) /\ Cardinality(accesses[f]) \in Nat /\ now + 1 \notin accesses[f]
      /\ (Cardinality(accesses[f]) = 0 <=> accesses[f] = {})
  <2>1. accesses[f] \in SUBSET (1..now)
    BY <1>1
  <2>2. now + 1 \notin accesses[f]
    BY <1>1, <2>1
  <2> QED BY <1>1, <2>1, <2>2, TimesFinite
<1>7. Cardinality(T) = Cardinality(accesses[f]) + 1
  BY <1>6, FS_AddElement
<1>8. \A g \in Frames : r'.access_count[g] = IF Cardinality(accesses'[g]) < K
                                             THEN Cardinality(accesses'[g]) ELSE K
  <2>1. r'.access_count = [r.access_count EXCEPT ![f] = NextCount(count)]
    BY <1>1 DEF RecordAccess
  <2>2. r.access_count \in [Frames -> 0..K]
    BY <1>1 DEF ReplacerType
  <2>3. r'.access_count[f] = NextCount(count)
    BY <2>1, <2>2
  <2>4. \A g \in Frames \ {f} : r'.access_count[g] = r.access_count[g]
    BY <2>1, <2>2
  <2>5. NextCount(count) = IF Cardinality(T) < K THEN Cardinality(T) ELSE K
    BY <1>2, <1>3, <1>6, <1>7 DEF NextCount
  <2> QED BY <1>3, <1>4, <2>3, <2>4, <2>5
<1>9. T \in SUBSET (1..(now + 1)) /\ T # {} /\ now + 1 \in Nat
  BY <1>1
<1>10. /\ Min(T) \in T /\ \A y \in T : Min(T) <= y
       /\ Max(T) \in T /\ \A y \in T : Max(T) >= y
  BY <1>9, TimesHaveEnds
<1>11. Max(T) = now + 1
  BY <1>1, <1>9, <1>10
<1>12. ASSUME NEW g \in Frames, accesses[g] # {}
       PROVE  /\ FirstAccesses[g] \in accesses[g] /\ LastAccesses[g] \in accesses[g]
              /\ FirstAccesses[g] \in 1..now /\ LastAccesses[g] \in 1..now
              /\ \A y \in accesses[g] : FirstAccesses[g] <= y
  BY <1>1, <1>12, TimesHaveEnds DEF FirstAccesses, LastAccesses, FirstAccess, LastAccess
<1>13. ASSUME NEW g \in ToSet(r.history_list) \cup ToSet(r.cache_list)
       PROVE  g \in Frames /\ accesses[g] # {}
  <2>1. g \in Frames /\ r.access_count[g] # 0
    BY <1>2
  <2>2. accesses[g] \in SUBSET (1..now)
    BY <1>1, <2>1
  <2>3. accesses[g] = {} => Cardinality(accesses[g]) = 0
    BY <1>1, <2>2, TimesFinite
  <2> QED BY <1>2, <1>3, <2>1, <2>3
<1>14. accesses[f] # {} => FirstAccesses'[f] = FirstAccesses[f]
  <2>1. SUFFICES ASSUME accesses[f] # {} PROVE Min(T) = FirstAccesses[f]
    BY <1>4
  <2>2. PICK x \in 1..now : x = FirstAccesses[f] /\ x \in accesses[f] /\ \A y \in accesses[f] : x <= y
    BY <1>12, <2>1
  <2>3. x \in T /\ \A y \in T : x <= y
    BY <1>1, <2>2
  <2>4. Min(T) <= x /\ x <= Min(T) /\ Min(T) \in Int /\ x \in Int
    BY <1>9, <1>10, <2>2, <2>3
  <2> QED BY <2>2, <2>4
<1> HIDE DEF T
<1>15. Ordered(r'.history_list, FirstAccesses')
  <2>1. r'.history_list = HistoryAfter(r, f)
    BY <1>1 DEF RecordAccess
  <2>2. CASE count = K - 1
    <3>1. f \in ToSet(r.history_list)
      BY <1>2, <2>2
    <3>2. r'.history_list = Erase(r.history_list, f)
      <4>1. ~ (count < K - 1)
        BY <1>2, <2>2
      <4> QED BY <2>1, <2>2, <4>1 DEF HistoryAfter
    <3>3. Ordered(Erase(r.history_list, f), FirstAccesses)
      BY <1>2, <1>3, <3>1, EraseOrdered
    <3>4. ToSet(Erase(r.history_list, f)) = ToSet(r.history_list) \ {f}
      BY <1>2, <3>1, EraseProperties
    <3>5. \A g \in ToSet(Erase(r.history_list, f)) : FirstAccesses'[g] = FirstAccesses[g]
      BY <1>2, <1>4, <3>4
    <3> QED BY <3>2, <3>3, <3>5, SameOrder
  <2>3. CASE count < K - 1 /\ f \notin ToSet(r.history_list)
    <3>1. r'.history_list = Cons(f, r.history_list)
      BY <2>1, <2>3 DEF HistoryAfter
    <3>2. \A g \in ToSet(r.history_list) : FirstAccesses'[g] = FirstAccesses[g]
      BY <1>2, <1>4, <2>3
    <3>3. Ordered(r.history_list, FirstAccesses')
      BY <1>3, <3>2, SameOrder
    <3>4. accesses[f] = {}
      <4>1. count = 0
        BY <1>2, <2>3
      <4> QED BY <1>2, <1>3, <1>6, <4>1
    <3>5. FirstAccesses'[f] = now + 1
      BY <1>4, <1>10, <3>4 DEF T
    <3>6. \A g \in ToSet(r.history_list) : FirstAccesses'[g] <= FirstAccesses'[f]
      BY <1>1, <1>12, <1>13, <3>2, <3>5
    <3> QED BY <1>2, <3>1, <3>3, <3>6, ConsOrdered
  <2>4. CASE ~ (count = K - 1) /\ ~ (count < K - 1 /\ f \notin ToSet(r.history_list))
    <3>1. r'.history_list = r.history_list
      BY <2>1, <2>4 DEF HistoryAfter
    <3>2. \A g \in ToSet(r.history_list) : FirstAccesses'[g] = FirstAccesses[g]
      BY <1>4, <1>13, <1>14
    <3> QED BY <1>3, <3>1, <3>2, SameOrder
  <2> QED BY <2>2, <2>3, <2>4
<1>16. ASSUME NEW list \in Seq(Frames), Ordered(list, LastAccesses), f \notin ToSet(list),
              ToSet(list) \subseteq ToSet(r.cache_list)
       PROVE  Ordered(list, LastAccesses') /\ Ordered(Cons(f, list), LastAccesses')
  <2>1. \A g \in ToSet(list) : LastAccesses'[g] = LastAccesses[g]
    BY <1>2, <1>4, <1>16
  <2>2. Ordered(list, LastAccesses')
    BY <1>16, <2>1, SameOrder
  <2>3. LastAccesses'[f] = now + 1
    BY <1>4, <1>11
  <2>4. \A g \in ToSet(list) : LastAccesses'[g] <= LastAccesses'[f]
    BY <1>1, <1>12, <1>13, <1>16, <2>1, <2>3
  <2> QED BY <2>2, <2>4, ConsOrdered
<1>17. Ordered(r'.cache_list, LastAccesses')
  <2>1. r'.cache_list = CacheAfter(r, f)
    BY <1>1 DEF RecordAccess
  <2>2. CASE count = K
    <3>1. f \in ToSet(r.cache_list)
      BY <1>2, <2>2
    <3>2. r'.cache_list = Cons(f, Erase(r.cache_list, f))
      <4>1. count # K - 1
        BY <1>2, <2>2
      <4> QED BY <2>1, <2>2, <3>1, <4>1 DEF CacheAfter
    <3>3. Ordered(Erase(r.cache_list, f), LastAccesses)
      BY <1>2, <1>3, <3>1, EraseOrdered
    <3>4. /\ Erase(r.cache_list, f) \in Seq(Frames)
          /\ ToSet(Erase(r.cache_list, f)) = ToSet(r.cache_list) \ {f}
      BY <1>2, <3>1, EraseProperties
    <3> QED BY <1>16, <3>2, <3>3, <3>4
  <2>3. CASE count = K - 1
    <3>1. f \notin ToSet(r.cache_list) /\ count # K
      BY <1>2, <2>3
    <3>2. r'.cache_list = Cons(f, r.cache_list)
      BY <1>2, <2>1, <2>3, <3>1 DEF CacheAfter
    <3> QED BY <1>2, <1>3, <1>16, <3>1, <3>2
  <2>4. CASE count # K /\ count # K - 1
    <3>1. f \notin ToSet(r.cache_list)
      BY <1>2, <2>4
    <3>2. r'.cache_list = r.cache_list
      BY <2>1, <2>4 DEF CacheAfter
    <3> QED BY <1>2, <1>3, <1>16, <3>1, <3>2
  <2> QED BY <2>2, <2>3, <2>4
<1> QED BY <1>5, <1>8, <1>15, <1>17 DEF OrderInv

(* and so does forgetting a frame, in Evict and in Remove. *)
LEMMA ForgetOrder ==
    ASSUME NEW f \in Frames, OrderInv, replacer.is_evictable[f], LInv', now' = now,
           replacer' = Forget(replacer, f), accesses' = [accesses EXCEPT ![f] = {}]
    PROVE  OrderInv'
<1> DEFINE r == replacer
           count == r.access_count[f]
<1>1. /\ r \in ReplacerType /\ ReplacerOK(r) /\ now \in Nat
      /\ accesses \in [Frames -> SUBSET (1..now)]
  BY DEF OrderInv, LInv
<1>2. /\ r.history_list \in Seq(Frames) /\ r.cache_list \in Seq(Frames) /\ count \in 1..K
      /\ IsInjective(r.history_list) /\ IsInjective(r.cache_list)
      /\ ToSet(r.history_list) = {g \in Frames : r.access_count[g] \in 1..(K - 1)}
      /\ ToSet(r.cache_list) = {g \in Frames : r.access_count[g] = K}
      /\ K \in Nat /\ K >= 2
  BY <1>1, LRUKAssumption DEF ReplacerType, ReplacerOK, ListsOK, SizeOK
<1>3. /\ Ordered(r.history_list, FirstAccesses) /\ Ordered(r.cache_list, LastAccesses)
      /\ \A g \in Frames : r.access_count[g] = IF Cardinality(accesses[g]) < K
                                               THEN Cardinality(accesses[g]) ELSE K
  BY DEF OrderInv
<1>4. /\ accesses'[f] = {}
      /\ \A g \in Frames \ {f} :
            /\ accesses'[g] = accesses[g]
            /\ FirstAccesses'[g] = FirstAccesses[g]
            /\ LastAccesses'[g] = LastAccesses[g]
  BY <1>1, OthersTimes
<1>5. accesses' \in [Frames -> SUBSET (1..now')] /\ now' \in Nat
  BY <1>1
<1>6. \A g \in Frames : r'.access_count[g] = IF Cardinality(accesses'[g]) < K
                                             THEN Cardinality(accesses'[g]) ELSE K
  <2>1. r'.access_count = [r.access_count EXCEPT ![f] = 0] /\ r.access_count \in [Frames -> 0..K]
    BY <1>1 DEF Forget, ReplacerType
  <2>2. Cardinality({}) = 0
    BY FS_EmptySet
  <2>3. r'.access_count[f] = 0 /\ accesses'[f] = {} /\ 0 < K
    BY <1>2, <1>4, <2>1
  <2>4. \A g \in Frames \ {f} : r'.access_count[g] = r.access_count[g]
    BY <2>1
  <2>5. \A g \in Frames \ {f} : r'.access_count[g] = IF Cardinality(accesses'[g]) < K
                                                    THEN Cardinality(accesses'[g]) ELSE K
    BY <1>3, <1>4, <2>4
  <2> QED BY <2>2, <2>3, <2>5
<1>7. CASE count < K
  <2>1. /\ r'.history_list = Erase(r.history_list, f) /\ r'.cache_list = r.cache_list
        /\ f \in ToSet(r.history_list) /\ f \notin ToSet(r.cache_list)
    BY <1>2, <1>7 DEF Forget
  <2>2. Ordered(Erase(r.history_list, f), FirstAccesses)
    BY <1>2, <1>3, <2>1, EraseOrdered
  <2>3. ToSet(Erase(r.history_list, f)) = ToSet(r.history_list) \ {f}
    BY <1>2, <2>1, EraseProperties
  <2>4. /\ \A g \in ToSet(Erase(r.history_list, f)) : FirstAccesses'[g] = FirstAccesses[g]
        /\ \A g \in ToSet(r.cache_list) : LastAccesses'[g] = LastAccesses[g]
    BY <1>2, <1>4, <2>1, <2>3
  <2>5. Ordered(r'.history_list, FirstAccesses')
    BY <2>1, <2>2, <2>4, SameOrder
  <2>6. Ordered(r'.cache_list, LastAccesses')
    BY <1>3, <2>1, <2>4, SameOrder
  <2> QED BY <1>5, <1>6, <2>5, <2>6 DEF OrderInv
<1>8. CASE ~ (count < K)
  <2>1. /\ r'.cache_list = Erase(r.cache_list, f) /\ r'.history_list = r.history_list
        /\ f \in ToSet(r.cache_list) /\ f \notin ToSet(r.history_list)
    BY <1>2, <1>8 DEF Forget
  <2>2. Ordered(Erase(r.cache_list, f), LastAccesses)
    BY <1>2, <1>3, <2>1, EraseOrdered
  <2>3. ToSet(Erase(r.cache_list, f)) = ToSet(r.cache_list) \ {f}
    BY <1>2, <2>1, EraseProperties
  <2>4. /\ \A g \in ToSet(Erase(r.cache_list, f)) : LastAccesses'[g] = LastAccesses[g]
        /\ \A g \in ToSet(r.history_list) : FirstAccesses'[g] = FirstAccesses[g]
    BY <1>2, <1>4, <2>1, <2>3
  <2>5. Ordered(r'.cache_list, LastAccesses')
    BY <2>1, <2>2, <2>4, SameOrder
  <2>6. Ordered(r'.history_list, FirstAccesses')
    BY <1>3, <2>1, <2>4, SameOrder
  <2> QED BY <1>5, <1>6, <2>5, <2>6 DEF OrderInv
<1> QED BY <1>7, <1>8

(* Every call keeps the order of the lists *)
LEMMA OrderInductive == ReplacerSpec => []OrderInv
<1>1. ReplacerInit => OrderInv
  <2> SUFFICES ASSUME ReplacerInit PROVE OrderInv
    OBVIOUS
  <2>1. LInv
    BY NewReplacerOK DEF ReplacerInit, LInv
  <2>2. Cardinality({}) = 0
    BY FS_EmptySet
  <2> QED BY <2>1, <2>2, LRUKAssumption DEF ReplacerInit, NewReplacer, OrderInv, Ordered
<1>2. OrderInv /\ LInv' /\ [ReplacerNext]_ReplacerVars => OrderInv'
  <2> SUFFICES ASSUME OrderInv, LInv', [ReplacerNext]_ReplacerVars PROVE OrderInv'
    OBVIOUS
  <2>1. ASSUME NEW f \in Frames, Record(f) PROVE OrderInv'
    BY <2>1, RecordOrder
  <2>2. ASSUME NEW f \in Frames, NEW b \in BOOLEAN, Set(f, b) PROVE OrderInv'
    <3>1. /\ replacer'.history_list = replacer.history_list
          /\ replacer'.cache_list = replacer.cache_list
          /\ replacer'.access_count = replacer.access_count
      BY <2>2 DEF Set, SetEvictable
    <3>2. FirstAccesses' = FirstAccesses /\ LastAccesses' = LastAccesses
      BY <2>2 DEF Set, FirstAccesses, LastAccesses, FirstAccess, LastAccess
    <3>3. UNCHANGED <<now, accesses>>
      BY <2>2 DEF Set
    <3> QED BY <3>1, <3>2, <3>3 DEF OrderInv
  <2>3. ASSUME NEW f \in Frames, Evict(f) PROVE OrderInv'
    BY <2>3, VictimEvictable, ForgetOrder DEF Evict, EvictFrame
  <2>4. ASSUME NEW f \in Frames, Drop(f) PROVE OrderInv'
    <3>1. CASE replacer.access_count[f] # 0
      BY <2>4, <3>1, ForgetOrder DEF Drop, RemoveFrame, RemoveThrows
    <3>2. CASE replacer.access_count[f] = 0
      <4>1. accesses[f] = {}
        <5>1. now \in Nat /\ accesses[f] \in SUBSET (1..now)
          BY DEF OrderInv
        <5>2. PICK c \in Nat : c = Cardinality(accesses[f]) /\ (c = 0 <=> accesses[f] = {})
          BY <5>1, TimesFinite
        <5>3. 0 = IF c < K THEN c ELSE K
          BY <3>2, <5>2 DEF OrderInv
        <5> QED BY <5>2, <5>3, LRUKAssumption
      <4>2. UNCHANGED ReplacerVars
        BY <2>4, <3>2, <4>1 DEF Drop, RemoveFrame, ReplacerVars, OrderInv
      <4> QED BY <4>2 DEF ReplacerVars, OrderInv, Ordered, FirstAccesses, LastAccesses, FirstAccess, LastAccess
    <3> QED BY <3>1, <3>2
  <2>5. CASE UNCHANGED ReplacerVars
    BY <2>5 DEF ReplacerVars, OrderInv, Ordered, FirstAccesses, LastAccesses, FirstAccess, LastAccess
  <2> QED BY <2>1, <2>2, <2>3, <2>4, <2>5 DEF ReplacerNext
<1> QED BY <1>1, <1>2, LInvInductive, PTL DEF ReplacerSpec

(* For every number of frames, every k >= 2 and every sequence of calls,    *)
(* Evict takes an evictable frame with fewer than k accesses whose first    *)
(* access is earliest, or, if there is none, never one whose last k         *)
(* accesses all came after those of another (LRUKReplacer::Evict,           *)
(* lru_k_replacer.h:28-34, :59-64).  The second follows from the code's own *)
(* order, of last accesses (step <2>9), which is not the header's.          *)
THEOREM EvictsInOrder == ReplacerSpec => EvictionOrder
<1> DEFINE Chosen ==
      \A f \in Frames : Evict(f) =>
         /\ f \in Evictable(replacer)
         /\ Cold # {} => f \in Cold /\ \A g \in Cold : FirstAccess(f) <= FirstAccess(g)
         /\ Cold = {} => \A g \in Warm : ~OutlivedBy(g, f)
<1>1. OrderInv => Chosen
  <2> SUFFICES ASSUME OrderInv, NEW f \in Frames, Evict(f)
               PROVE  /\ f \in Evictable(replacer)
                      /\ Cold # {} => f \in Cold /\ \A g \in Cold : FirstAccess(f) <= FirstAccess(g)
                      /\ Cold = {} => \A g \in Warm : ~OutlivedBy(g, f)
    OBVIOUS
  <2> DEFINE r == replacer
  <2>1. /\ r.history_list \in Seq(Frames) /\ r.cache_list \in Seq(Frames)
        /\ r.access_count \in [Frames -> 0..K]
        /\ ToSet(r.history_list) = {g \in Frames : r.access_count[g] \in 1..(K - 1)}
        /\ ToSet(r.cache_list) = {g \in Frames : r.access_count[g] = K}
        /\ \A g \in Frames : r.is_evictable[g] => r.access_count[g] # 0
        /\ K \in Nat /\ K >= 2 /\ now \in Nat /\ accesses \in [Frames -> SUBSET (1..now)]
    BY LRUKAssumption DEF OrderInv, LInv, ReplacerType, ReplacerOK, ListsOK, SizeOK
  <2>2. ASSUME NEW g \in Evictable(r)
        PROVE  /\ g \in Frames /\ r.is_evictable[g]
               /\ g \in Cold <=> g \in ToSet(r.history_list)
               /\ g \notin Cold <=> g \in ToSet(r.cache_list)
    <3>1. g \in Frames /\ r.is_evictable[g]
      BY <2>2 DEF Evictable
    <3>2. PICK c \in Nat : c = Cardinality(accesses[g])
      <4>1. accesses[g] \in SUBSET (1..now)
        BY <2>1, <3>1
      <4> QED BY <2>1, <4>1, TimesFinite
    <3>3. r.access_count[g] = (IF c < K THEN c ELSE K) /\ r.access_count[g] # 0
      BY <2>1, <3>1, <3>2 DEF OrderInv
    <3>4. g \in Cold <=> c < K
      BY <3>2 DEF Cold
    <3> QED BY <2>1, <3>1, <3>3, <3>4
  <2>3. f \in Evictable(r)
    BY VictimEvictable DEF Evict, Evictable
  <2>4. ASSUME NEW list \in Seq(Frames), LastEvictable(r, list, f), NEW at, Ordered(list, at),
               NEW g \in ToSet(list), g \in Evictable(r), at[g] <= at[g]
        PROVE  at[f] <= at[g]
    <3>1. PICK i \in DOMAIN list : list[i] = f /\ \A j \in (i + 1)..Len(list) : ~ r.is_evictable[list[j]]
      BY <2>4 DEF LastEvictable
    <3>2. PICK j \in DOMAIN list : list[j] = g
      BY <2>4 DEF ToSet
    <3>3. i \in 1..Len(list) /\ j \in 1..Len(list)
      BY <3>1, <3>2
    <3>4. ~ (j > i)
      <4>1. SUFFICES ASSUME j > i PROVE FALSE
        OBVIOUS
      <4>2. j \in (i + 1)..Len(list)
        BY <3>3, <4>1
      <4> QED BY <2>2, <2>4, <3>1, <3>2, <4>2
    <3>5. CASE j = i
      BY <2>4, <3>1, <3>2, <3>5
    <3>6. CASE j < i
      BY <2>4, <3>1, <3>2, <3>6 DEF Ordered
    <3> QED BY <3>3, <3>4, <3>5, <3>6
  <2>5. ASSUME NEW g \in Evictable(r)
        PROVE  /\ FirstAccesses[g] = FirstAccess(g) /\ LastAccesses[g] = LastAccess(g)
               /\ FirstAccess(g) <= FirstAccess(g) /\ LastAccess(g) <= LastAccess(g)
               /\ LastAccess(g) \in Int
               /\ \A t \in accesses[g] : t \in Int /\ t <= LastAccess(g)
    <3>1. g \in Frames /\ r.access_count[g] # 0
      BY <2>1, <2>2, <2>5
    <3>2. accesses[g] # {}
      <4>1. accesses[g] \in SUBSET (1..now)
        BY <2>1, <3>1
      <4>2. accesses[g] = {} => Cardinality(accesses[g]) = 0
        BY <2>1, <4>1, TimesFinite
      <4> QED BY <2>1, <3>1, <4>2 DEF OrderInv
    <3>3. FirstAccess(g) \in 1..now /\ LastAccess(g) \in 1..now
      BY <2>1, <3>1, <3>2, TimesHaveEnds DEF FirstAccess, LastAccess
    <3>4. \A t \in accesses[g] : t \in Int /\ t <= LastAccess(g)
      <4>1. accesses[g] \in SUBSET (1..now)
        BY <2>1, <3>1
      <4>2. \A t \in accesses[g] : LastAccess(g) >= t
        BY <2>1, <3>2, <4>1, TimesHaveEnds DEF LastAccess
      <4> QED BY <2>1, <3>3, <4>1, <4>2
    <3> QED BY <3>1, <3>3, <3>4 DEF FirstAccesses, LastAccesses
  <2>6. Ordered(r.history_list, FirstAccesses) /\ Ordered(r.cache_list, LastAccesses)
    BY DEF OrderInv
  <2>7. HasEvictable(r, r.history_list) <=> Cold # {}
    <3>1. ASSUME HasEvictable(r, r.history_list) PROVE Cold # {}
      <4>1. PICK i \in DOMAIN r.history_list : r.is_evictable[r.history_list[i]]
        BY <3>1 DEF HasEvictable
      <4>2. PICK g \in ToSet(r.history_list) : r.is_evictable[g]
        BY <4>1 DEF ToSet
      <4>3. g \in Evictable(r)
        BY <2>1, <4>2 DEF Evictable
      <4> QED BY <2>2, <4>2, <4>3
    <3>2. ASSUME Cold # {} PROVE HasEvictable(r, r.history_list)
      <4>1. PICK g \in Cold : g \in Evictable(r)
        BY <3>2 DEF Cold
      <4>2. g \in ToSet(r.history_list) /\ r.is_evictable[g]
        BY <2>2, <4>1
      <4> QED BY <4>2 DEF HasEvictable, ToSet
    <3> QED BY <3>1, <3>2
  <2>8. ASSUME Cold # {}
        PROVE  f \in Cold /\ \A g \in Cold : FirstAccess(f) <= FirstAccess(g)
    <3>1. LastEvictable(r, r.history_list, f)
      BY <2>7, <2>8 DEF Evict, IsVictim
    <3>2. f \in ToSet(r.history_list)
      BY <3>1 DEF LastEvictable, ToSet
    <3>3. ASSUME NEW g \in Cold PROVE FirstAccess(f) <= FirstAccess(g)
      <4>1. g \in Evictable(r)
        BY DEF Cold
      <4>2. g \in ToSet(r.history_list)
        BY <2>2, <4>1
      <4>3. FirstAccesses[g] <= FirstAccesses[g]
        BY <2>5, <4>1
      <4>4. FirstAccesses[f] <= FirstAccesses[g]
        BY <2>1, <2>4, <2>6, <3>1, <4>1, <4>2, <4>3
      <4> QED BY <2>3, <2>5, <4>1, <4>4
    <3> QED BY <2>2, <2>3, <3>2, <3>3
  <2>9. ASSUME Cold = {}, NEW g \in Warm PROVE LastAccess(f) <= LastAccess(g)
    <3>1. LastEvictable(r, r.cache_list, f)
      BY <2>7, <2>9 DEF Evict, IsVictim
    <3>2. g \in Evictable(r) /\ g \notin Cold
      BY DEF Warm
    <3>3. g \in ToSet(r.cache_list)
      BY <2>2, <3>2
    <3>4. LastAccesses[g] <= LastAccesses[g]
      BY <2>5, <3>2
    <3>5. LastAccesses[f] <= LastAccesses[g]
      BY <2>1, <2>4, <2>6, <3>1, <3>2, <3>3, <3>4
    <3> QED BY <2>3, <2>5, <3>2, <3>5
  <2>10. ASSUME Cold = {}, NEW g \in Warm PROVE ~OutlivedBy(g, f)
    <3>1. LastAccess(f) <= LastAccess(g)
      BY <2>9, <2>10
    <3>2. g \in Evictable(r)
      BY <2>10 DEF Warm
    <3>3. LastAccess(f) \in Int /\ LastAccess(g) \in Int
      BY <2>3, <2>5, <3>2
    <3>4. \A t \in accesses[f] : t \in Int /\ t <= LastAccess(f)
      BY <2>3, <2>5
    <3>5. {t \in accesses[f] : t > LastAccess(g)} = {}
      BY <3>1, <3>3, <3>4
    <3>6. Cardinality({}) = 0
      BY FS_EmptySet
    <3>7. Cardinality({t \in accesses[f] : t > LastAccess(g)}) = 0
      BY <3>5, <3>6
    <3>8. ~ (0 >= K)
      BY <2>1
    <3> QED BY <3>7, <3>8 DEF OutlivedBy
  <2> QED BY <2>3, <2>8, <2>10
<1> HIDE DEF Chosen
<1>2. [][Chosen]_ReplacerVars <=> EvictionOrder
  BY DEF Chosen, EvictionOrder
<1> QED BY <1>1, <1>2, OrderInductive, PTL
=============================================================================
