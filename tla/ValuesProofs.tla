---------------------------- MODULE ValuesProofs ----------------------------
(***************************************************************************)
(* Proofs about the type system, for integers of any widths that            *)
(* WidthsAssumption admits and any values the constructors make.            *)
(***************************************************************************)
EXTENDS Values, SequenceTheorems, FiniteSetTheorems, WellFoundedInduction, TLAPS

(* A nonempty set of natural numbers has a least element *)
LEMMA LeastOfNats ==
    ASSUME NEW T, T \subseteq Nat, T # {}
    PROVE  \E x \in T : \A y \in T : x <= y
<1>1. PICK x \in T : \A y \in T : ~ (<<y, x>> \in OpToRel(<, Nat))
  BY NatLessThanWellFounded, WFMin
<1>2. \A y \in T : ~ (y < x)
  BY <1>1 DEF OpToRel
<1> QED BY <1>2

(* The first values of the function that starts with b and goes on by h *)
Beginnings(S, b, h, n) ==
    {f \in [0..n -> S] : f[0] = b /\ \A k \in 1..n : f[k] = h[<<k - 1, f[k - 1]>>]}

(* There are as many as one asks for *)
LEMMA BeginningsExist ==
    ASSUME NEW S, NEW b \in S, NEW h \in [Nat \X S -> S]
    PROVE  \A n \in Nat : Beginnings(S, b, h, n) # {}
<1> DEFINE bad == {n \in Nat : Beginnings(S, b, h, n) = {}}
<1>1. SUFFICES ASSUME bad # {} PROVE FALSE
  OBVIOUS
<1>2. PICK n \in bad : \A m \in bad : n <= m
  <2>1. bad \subseteq Nat
    OBVIOUS
  <2> HIDE DEF bad
  <2> QED BY <1>1, <2>1, LeastOfNats
<1>3. CASE n = 0
  <2>1. [k \in 0..0 |-> b] \in Beginnings(S, b, h, 0)
    BY SMT DEF Beginnings
  <2> QED BY <1>2, <1>3, <2>1
<1>4. CASE n # 0
  <2>1. n \in Nat /\ n - 1 \in Nat /\ n - 1 \notin bad
    BY <1>2, <1>4
  <2>2. PICK f : f \in Beginnings(S, b, h, n - 1)
    BY <2>1
  <2>3. /\ f \in [0..(n - 1) -> S] /\ f[0] = b
        /\ \A k \in 1..(n - 1) : f[k] = h[<<k - 1, f[k - 1]>>]
    BY <2>2 DEF Beginnings
  <2>4. PICK last \in S : last = h[<<n - 1, f[n - 1]>>]
    <3>1. f[n - 1] \in S
      BY <2>1, <2>3
    <3> QED BY <2>1, <3>1
  <2>5. PICK g : g = [k \in 0..n |-> IF k = n THEN last ELSE f[k]]
    OBVIOUS
  <2>6. g[n] = last /\ \A k \in 0..(n - 1) : g[k] = f[k]
    BY <2>1, <2>5
  <2>7. g \in [0..n -> S]
    <3>1. ASSUME NEW k \in 0..n PROVE (IF k = n THEN last ELSE f[k]) \in S
      <4>1. CASE k = n
        BY <2>4, <4>1
      <4>2. CASE k # n
        <5>1. k \in 0..(n - 1)
          BY <2>1, <4>2
        <5> QED BY <2>3, <4>2, <5>1
      <4> QED BY <4>1, <4>2
    <3> QED BY <2>5, <3>1
  <2>8. ASSUME NEW k \in 1..n PROVE g[k] = h[<<k - 1, g[k - 1]>>]
    <3>1. k - 1 \in 0..(n - 1)
      BY <2>1
    <3>2. CASE k = n
      BY <2>4, <2>6, <3>1, <3>2
    <3>3. CASE k # n
      <4>1. k \in 1..(n - 1) /\ k \in 0..(n - 1)
        BY <2>1, <3>3
      <4> QED BY <2>3, <2>6, <3>1, <4>1
    <3> QED BY <3>2, <3>3
  <2>9. g[0] = b
    BY <2>1, <2>3, <2>6, <1>4
  <2> QED BY <1>2, <2>7, <2>8, <2>9 DEF Beginnings
<1> QED BY <1>3, <1>4

(* and two of them agree as far as both go, *)
LEMMA BeginningsAgree ==
    ASSUME NEW S, NEW b, NEW h, NEW m \in Nat, NEW n \in Nat, m <= n,
           NEW f \in Beginnings(S, b, h, m), NEW g \in Beginnings(S, b, h, n)
    PROVE  \A k \in 0..m : f[k] = g[k]
<1> DEFINE bad == {k \in 0..m : f[k] # g[k]}
<1>1. SUFFICES ASSUME bad # {} PROVE FALSE
  OBVIOUS
<1>2. PICK k \in bad : \A j \in bad : k <= j
  <2>1. bad \subseteq Nat
    OBVIOUS
  <2> HIDE DEF bad
  <2> QED BY <1>1, <2>1, LeastOfNats
<1>3. k \in 0..m /\ f[k] # g[k]
  OBVIOUS
<1>4. k # 0
  BY <1>3 DEF Beginnings
<1>5. k \in 1..m /\ k \in 1..n /\ k - 1 \in 0..m /\ k - 1 \notin bad
  BY <1>2, <1>3, <1>4
<1>6. f[k - 1] = g[k - 1]
  BY <1>5
<1>7. f[k] = h[<<k - 1, f[k - 1]>>] /\ g[k] = h[<<k - 1, g[k - 1]>>]
  BY <1>5 DEF Beginnings
<1> QED BY <1>3, <1>6, <1>7

(* The function with that start and that step *)
Recursive(S, b, h) ==
    {f \in [Nat -> S] : f[0] = b /\ \A n \in Nat : f[n + 1] = h[<<n, f[n]>>]}

(* so there is one on all natural numbers *)
LEMMA PrimitiveRecursion ==
    ASSUME NEW S, NEW b, NEW h, b \in S /\ h \in [Nat \X S -> S]
    PROVE  Recursive(S, b, h) # {}
<1> DEFINE list(n) == CHOOSE f : f \in Beginnings(S, b, h, n)
           all == [n \in Nat |-> list(n)[n]]
<1>1. \A n \in Nat : list(n) \in Beginnings(S, b, h, n)
  BY BeginningsExist
<1>2. \A n \in Nat : all[n] = list(n)[n]
  OBVIOUS
<1> HIDE DEF list
<1>3. all[0] = b
  BY <1>1, <1>2 DEF Beginnings
<1>4. all \in [Nat -> S]
  <2>1. ASSUME NEW n \in Nat PROVE list(n)[n] \in S
    BY <1>1 DEF Beginnings
  <2> QED BY <2>1
<1>5. ASSUME NEW n \in Nat PROVE all[n + 1] = h[<<n, all[n]>>]
  <2>1. n + 1 \in Nat /\ n <= n + 1 /\ n \in 0..n /\ n + 1 \in 1..(n + 1) /\ (n + 1) - 1 = n
    OBVIOUS
  <2>2. list(n)[n] = list(n + 1)[n]
    BY <1>1, <2>1, BeginningsAgree
  <2>3. list(n + 1)[n + 1] = h[<<n, list(n + 1)[n]>>]
    <3>1. list(n + 1) \in Beginnings(S, b, h, n + 1)
      BY <1>1, <2>1
    <3> QED BY <2>1, <3>1 DEF Beginnings
  <2> QED BY <1>2, <2>1, <2>2, <2>3
<1> HIDE DEF all
<1> QED BY <1>3, <1>4, <1>5 DEF Recursive
-----------------------------------------------------------------------------
(* Pow2 is the function its recursive definition describes, *)
LEMMA Pow2Def ==
    /\ \A n \in Nat : Pow2[n] \in Nat /\ Pow2[n] > 0
    /\ Pow2[0] = 1
    /\ \A n \in Nat : Pow2[n + 1] = 2 * Pow2[n]
<1> DEFINE Eq(f) == f = [n \in Nat |-> IF n = 0 THEN 1 ELSE 2 * f[n - 1]]
           h == [p \in Nat \X Nat |-> 2 * p[2]]
<1>1. h \in [Nat \X Nat -> Nat]
  OBVIOUS
<1>2. PICK f : f \in Recursive(Nat, 1, h)
  <2> HIDE DEF h
  <2>1. 1 \in Nat /\ h \in [Nat \X Nat -> Nat]
    BY <1>1
  <2> QED BY <2>1, PrimitiveRecursion, Zenon
<1>3. f \in [Nat -> Nat] /\ f[0] = 1 /\ \A n \in Nat : f[n + 1] = 2 * f[n]
  BY <1>2 DEF Recursive
<1>4. Eq(f)
  <2>1. ASSUME NEW n \in Nat PROVE f[n] = IF n = 0 THEN 1 ELSE 2 * f[n - 1]
    <3>1. CASE n = 0
      BY <1>3, <3>1
    <3>2. CASE n # 0
      <4>1. n - 1 \in Nat /\ (n - 1) + 1 = n
        BY <3>2
      <4> QED BY <1>3, <3>2, <4>1
    <3> QED BY <3>1, <3>2
  <2> QED BY <1>3, <2>1
<1>5. Eq(Pow2)
  <2>1. Eq(CHOOSE g : Eq(g))
    BY <1>4
  <2> QED BY <2>1, Zenon DEF Pow2
<1>6. Pow2[0] = 1 /\ \A n \in Nat : n # 0 => Pow2[n] = 2 * Pow2[n - 1]
  BY <1>5
<1> HIDE DEF Eq
<1> DEFINE bad == {n \in Nat : ~(Pow2[n] \in Nat /\ Pow2[n] > 0)}
<1>7. bad = {}
  <2>1. SUFFICES ASSUME bad # {} PROVE FALSE
    OBVIOUS
  <2>2. PICK n \in bad : \A m \in bad : n <= m
    <3>1. bad \subseteq Nat
      OBVIOUS
    <3> HIDE DEF bad
    <3> QED BY <2>1, <3>1, LeastOfNats
  <2>3. n \in Nat /\ n # 0
    BY <1>6, <2>2
  <2>4. n - 1 \in Nat /\ n - 1 \notin bad
    BY <2>2, <2>3
  <2> QED BY <1>6, <2>2, <2>3, <2>4
<1>8. ASSUME NEW n \in Nat PROVE Pow2[n + 1] = 2 * Pow2[n]
  <2>1. n + 1 \in Nat /\ n + 1 # 0 /\ (n + 1) - 1 = n
    OBVIOUS
  <2> QED BY <1>6, <2>1
<1> QED BY <1>6, <1>7, <1>8

(* and so is Pow10 *)
LEMMA Pow10Def ==
    /\ \A n \in Nat : Pow10[n] \in Nat /\ Pow10[n] > 0
    /\ Pow10[0] = 1
    /\ \A n \in Nat : Pow10[n + 1] = 10 * Pow10[n]
<1> DEFINE Eq(f) == f = [n \in Nat |-> IF n = 0 THEN 1 ELSE 10 * f[n - 1]]
           h == [p \in Nat \X Nat |-> 10 * p[2]]
<1>1. h \in [Nat \X Nat -> Nat]
  OBVIOUS
<1>2. PICK f : f \in Recursive(Nat, 1, h)
  <2> HIDE DEF h
  <2>1. 1 \in Nat /\ h \in [Nat \X Nat -> Nat]
    BY <1>1
  <2> QED BY <2>1, PrimitiveRecursion, Zenon
<1>3. f \in [Nat -> Nat] /\ f[0] = 1 /\ \A n \in Nat : f[n + 1] = 10 * f[n]
  BY <1>2 DEF Recursive
<1>4. Eq(f)
  <2>1. ASSUME NEW n \in Nat PROVE f[n] = IF n = 0 THEN 1 ELSE 10 * f[n - 1]
    <3>1. CASE n = 0
      BY <1>3, <3>1
    <3>2. CASE n # 0
      <4>1. n - 1 \in Nat /\ (n - 1) + 1 = n
        BY <3>2
      <4> QED BY <1>3, <3>2, <4>1
    <3> QED BY <3>1, <3>2
  <2> QED BY <1>3, <2>1
<1>5. Eq(Pow10)
  <2>1. Eq(CHOOSE g : Eq(g))
    BY <1>4
  <2> QED BY <2>1, Zenon DEF Pow10
<1>6. Pow10[0] = 1 /\ \A n \in Nat : n # 0 => Pow10[n] = 10 * Pow10[n - 1]
  BY <1>5
<1> HIDE DEF Eq
<1> DEFINE bad == {n \in Nat : ~(Pow10[n] \in Nat /\ Pow10[n] > 0)}
<1>7. bad = {}
  <2>1. SUFFICES ASSUME bad # {} PROVE FALSE
    OBVIOUS
  <2>2. PICK n \in bad : \A m \in bad : n <= m
    <3>1. bad \subseteq Nat
      OBVIOUS
    <3> HIDE DEF bad
    <3> QED BY <2>1, <3>1, LeastOfNats
  <2>3. n \in Nat /\ n # 0
    BY <1>6, <2>2
  <2>4. n - 1 \in Nat /\ n - 1 \notin bad
    BY <2>2, <2>3
  <2> QED BY <1>6, <2>2, <2>3, <2>4
<1>8. ASSUME NEW n \in Nat PROVE Pow10[n + 1] = 10 * Pow10[n]
  <2>1. n + 1 \in Nat /\ n + 1 # 0 /\ (n + 1) - 1 = n
    OBVIOUS
  <2> QED BY <1>6, <2>1
<1> QED BY <1>6, <1>7, <1>8

(* Powers of two multiply by adding the exponents *)
LEMMA Pow2Sum == \A m, n \in Nat : Pow2[m + n] = Pow2[m] * Pow2[n]
<1> SUFFICES ASSUME NEW m \in Nat PROVE \A n \in Nat : Pow2[m + n] = Pow2[m] * Pow2[n]
  OBVIOUS
<1> DEFINE bad == {n \in Nat : Pow2[m + n] # Pow2[m] * Pow2[n]}
<1>1. SUFFICES ASSUME bad # {} PROVE FALSE
  OBVIOUS
<1>2. PICK n \in bad : \A k \in bad : n <= k
  <2>1. bad \subseteq Nat
    OBVIOUS
  <2> HIDE DEF bad
  <2> QED BY <1>1, <2>1, LeastOfNats
<1>3. n \in Nat /\ n # 0
  <2>1. Pow2[m + 0] = Pow2[m] * Pow2[0]
    BY Pow2Def
  <2> QED BY <1>2, <2>1
<1>4. PICK k \in Nat : n = k + 1 /\ k \notin bad
  <2>1. n - 1 \in Nat /\ n = (n - 1) + 1 /\ n - 1 \notin bad
    BY <1>2, <1>3
  <2> HIDE DEF bad
  <2> QED BY <2>1
<1>5. Pow2[m + k] = Pow2[m] * Pow2[k]
  BY <1>4
<1>6. Pow2[m + n] = 2 * Pow2[m + k] /\ Pow2[n] = 2 * Pow2[k]
  <2>1. m + k \in Nat /\ m + n = (m + k) + 1
    BY <1>4
  <2> QED BY <1>4, <2>1, Pow2Def
<1>7. Pow2[m] * (2 * Pow2[k]) = 2 * (Pow2[m] * Pow2[k])
  <2>1. PICK a \in Nat, b \in Nat : a = Pow2[m] /\ b = Pow2[k]
    BY Pow2Def
  <2>2. a * (2 * b) = 2 * (a * b)
    OBVIOUS
  <2> QED BY <2>1, <2>2
<1>8. Pow2[m + n] = Pow2[m] * Pow2[n]
  BY <1>5, <1>6, <1>7
<1> QED BY <1>2, <1>8

(* and grow with the exponent *)
LEMMA Pow2Grows == \A m, n \in Nat : m < n => 2 * Pow2[m] <= Pow2[n]
<1> SUFFICES ASSUME NEW m \in Nat, NEW n \in Nat, m < n PROVE 2 * Pow2[m] <= Pow2[n]
  OBVIOUS
<1>1. PICK k \in Nat : n = (m + 1) + k
  <2>1. n - (m + 1) \in Nat /\ n = (m + 1) + (n - (m + 1))
    OBVIOUS
  <2> QED BY <2>1
<1>2. Pow2[n] = Pow2[m + 1] * Pow2[k] /\ Pow2[m + 1] = 2 * Pow2[m]
  BY <1>1, Pow2Sum, Pow2Def
<1>3. PICK a \in Nat, b \in Nat : a = Pow2[m] /\ b = Pow2[k] /\ b >= 1
  BY Pow2Def
<1>4. (2 * a) * b >= 2 * a
  BY <1>3
<1> QED BY <1>2, <1>3, <1>4
-----------------------------------------------------------------------------
(* The positive half of the range of an integer type *)
Half(T) == Pow2[Bits(T) - 1]

(* What WidthsAssumption says of the ranges: each is at least twice the one *)
(* before, and INTEGER holds the products of two SMALLINTs                  *)
LEMMA Halves ==
    /\ \A T \in DOMAIN Widths : Half(T) \in Nat /\ Half(T) >= 2
    /\ 2 * Half("TINYINT") <= Half("SMALLINT")
    /\ 2 * (Half("SMALLINT") * Half("SMALLINT")) <= Half("INTEGER")
    /\ 2 * Half("INTEGER") <= Half("BIGINT")
<1>1. /\ TinyBits \in Nat /\ SmallBits \in Nat /\ IntBits \in Nat /\ BigBits \in Nat
      /\ 1 < TinyBits /\ TinyBits < SmallBits
      /\ 2 * SmallBits <= IntBits /\ IntBits < BigBits
  BY WidthsAssumption
<1>2. /\ DOMAIN Widths = {"BOOLEAN", "TINYINT", "SMALLINT", "INTEGER", "BIGINT"}
      /\ Half("BOOLEAN") = Pow2[TinyBits - 1] /\ Half("TINYINT") = Pow2[TinyBits - 1]
      /\ Half("SMALLINT") = Pow2[SmallBits - 1] /\ Half("INTEGER") = Pow2[IntBits - 1]
      /\ Half("BIGINT") = Pow2[BigBits - 1]
  BY DEF Half, Bits, Widths
<1>3. ASSUME NEW w \in Nat, 1 < w PROVE Pow2[w - 1] \in Nat /\ Pow2[w - 1] >= 2
  <2>1. 0 \in Nat /\ w - 1 \in Nat /\ 0 < w - 1
    BY <1>3
  <2> QED BY <2>1, Pow2Grows, Pow2Def
<1>4. ASSUME NEW T \in DOMAIN Widths PROVE Half(T) \in Nat /\ Half(T) >= 2
  <2>1. 1 < TinyBits /\ 1 < SmallBits /\ 1 < IntBits /\ 1 < BigBits
    BY <1>1
  <2> QED BY <1>1, <1>2, <1>3, <2>1
<1>5. /\ 2 * Half("TINYINT") <= Half("SMALLINT")
      /\ 2 * Half("INTEGER") <= Half("BIGINT")
  <2>1. /\ TinyBits - 1 \in Nat /\ SmallBits - 1 \in Nat /\ TinyBits - 1 < SmallBits - 1
        /\ IntBits - 1 \in Nat /\ BigBits - 1 \in Nat /\ IntBits - 1 < BigBits - 1
    BY <1>1
  <2> QED BY <1>2, <2>1, Pow2Grows
<1>6. 2 * (Half("SMALLINT") * Half("SMALLINT")) <= Half("INTEGER")
  <2>1. PICK s \in Nat : s = SmallBits - 1
    BY <1>1
  <2>2. Pow2[s + s] = Pow2[s] * Pow2[s]
    BY Pow2Sum
  <2>3. s + s \in Nat /\ IntBits - 1 \in Nat /\ s + s < IntBits - 1
    BY <1>1, <2>1
  <2>4. 2 * Pow2[s + s] <= Pow2[IntBits - 1]
    BY <2>3, Pow2Grows
  <2> QED BY <1>2, <2>1, <2>2, <2>4
<1> QED BY <1>4, <1>5, <1>6

(* Division with remainder *)
LEMMA DivMod ==
    ASSUME NEW a \in Int, NEW m \in Nat, m > 0
    PROVE  /\ a \div m \in Int /\ a % m \in 0..(m - 1)
           /\ a = m * (a \div m) + (a % m)
OBVIOUS

(* p is n plus a multiple of the range 2 * h *)
Shifts(n, p, h) == \E k \in Int : p = n + (2 * h) * k

(* A conversion to a width changes nothing or adds multiples of the range *)
LEMMA WrapFacts ==
    ASSUME NEW n \in Int, NEW w, NEW h \in Nat, h = Pow2[w - 1], h > 0
    PROVE  /\ Wrap(n, w) \in (-h)..(h - 1)
           /\ n \in (-h)..(h - 1) <=> Wrap(n, w) = n
           /\ Shifts(n, Wrap(n, w), h)
<1>1. PICK m \in Nat : m = 2 * h /\ m > 0
  OBVIOUS
<1>2. PICK a \in Int : a = n + h
  OBVIOUS
<1>3. PICK q \in Int, r \in 0..(m - 1) : q = a \div m /\ r = a % m /\ a = m * q + r
  BY <1>1, DivMod, ZenonT(40)
<1>4. Wrap(n, w) = r - h
  BY <1>1, <1>2, <1>3 DEF Wrap, Wrapped
<1>5. PICK p \in Int : p = m * q
  OBVIOUS
<1>6. r \in Int /\ 0 <= r /\ r < m /\ a = p + r
  BY <1>3, <1>5
<1>7. r - h \in (-h)..(h - 1)
  BY <1>1, <1>6
<1>8. r - h = n + m * (-q)
  <2>1. PICK z \in Int : z = m * (-q)
    OBVIOUS
  <2>2. z = -p
    BY <1>5, <2>1
  <2>3. r - h = n + z
    BY <1>1, <1>2, <1>6, <2>2
  <2> QED BY <2>1, <2>3
<1>9. ASSUME n \in (-h)..(h - 1) PROVE r - h = n
  <2>1. 0 <= a /\ a < m
    BY <1>1, <1>2, <1>9
  <2>2. q = 0
    <3>1. q >= 1 => p >= m
      BY <1>1, <1>5
    <3>2. q <= -1 => p <= -m
      BY <1>1, <1>5
    <3> QED BY <1>6, <2>1, <3>1, <3>2
  <2>3. p = 0
    BY <1>1, <1>5, <2>2
  <2> QED BY <1>1, <1>2, <1>6, <2>3
<1>10. -q \in Int
  OBVIOUS
<1> QED BY <1>1, <1>4, <1>7, <1>8, <1>9, <1>10 DEF Shifts
-----------------------------------------------------------------------------
(* Division of C++: the remainder is smaller than the divisor, *)
LEMMA QuotFacts ==
    ASSUME NEW x \in Int, NEW y \in Int, y # 0
    PROVE  /\ Quot(x, y) \in Int
           /\ Magnitude(Quot(x, y)) <= Magnitude(x)
           /\ \E r \in Int : x = y * Quot(x, y) + r /\ Magnitude(r) < Magnitude(y)
<1>1. PICK a \in Nat, b \in Nat : a = Magnitude(x) /\ b = Magnitude(y) /\ b > 0
  BY DEF Magnitude
<1>2. PICK q \in Int, s \in 0..(b - 1) : q = a \div b /\ s = a % b /\ a = b * q + s
  <2>1. a \in Int /\ b \in Nat /\ b > 0
    BY <1>1
  <2>2. a \div b \in Int /\ a % b \in 0..(b - 1) /\ a = b * (a \div b) + (a % b)
    BY <2>1, DivMod
  <2> QED BY <2>2
<1>3. s \in Int /\ 0 <= s /\ s < b /\ a = b * q + s
  BY <1>2
<1>4. PICK p \in Int : p = b * q
  OBVIOUS
<1>5. 0 <= s /\ s < b /\ a = p + s
  BY <1>3, <1>4
<1>6. 0 <= q /\ q <= a
  <2>1. q >= 0
    <3>1. q <= -1 => p <= -b
      BY <1>1, <1>4
    <3> QED BY <1>1, <1>5, <3>1
  <2>2. p >= q
    BY <1>1, <1>4, <2>1
  <2> QED BY <1>5, <2>1, <2>2
<1>7. Quot(x, y) = IF (x < 0) = (y < 0) THEN q ELSE -q
  BY <1>1, <1>2 DEF Quot
<1>8. y * q = (IF y < 0 THEN -p ELSE p) /\ y * (-q) = (IF y < 0 THEN p ELSE -p)
  <2>1. CASE y < 0
    <3>1. b = -y
      BY <1>1, <2>1 DEF Magnitude
    <3>2. y * q = -((-y) * q) /\ y * (-q) = (-y) * q
      OBVIOUS
    <3> QED BY <1>4, <2>1, <3>1, <3>2
  <2>2. CASE ~ (y < 0)
    <3>1. b = y
      BY <1>1, <2>2 DEF Magnitude
    <3>2. y * (-q) = -(y * q)
      OBVIOUS
    <3> QED BY <1>4, <2>2, <3>1, <3>2
  <2> QED BY <2>1, <2>2
<1>9. PICK c \in Int : c = Quot(x, y)
  BY <1>7
<1>10. PICK d \in Int : d = y * c
  OBVIOUS
<1>11. d = IF x < 0 THEN -p ELSE p
  BY <1>7, <1>8, <1>9, <1>10
<1>12. x = IF x < 0 THEN -a ELSE a
  BY <1>1 DEF Magnitude
<1>13. PICK r \in Int : r = IF x < 0 THEN -s ELSE s
  OBVIOUS
<1>14. x = d + r
  BY <1>1, <1>5, <1>11, <1>12, <1>13
<1>15. Magnitude(r) < b
  BY <1>5, <1>13 DEF Magnitude
<1>16. Magnitude(c) <= a
  BY <1>6, <1>7, <1>9 DEF Magnitude
<1> QED BY <1>1, <1>9, <1>10, <1>14, <1>15, <1>16

(* so that a product that wrapped shows when it is divided again. *)
LEMMA ProductShows ==
    ASSUME NEW x \in Int, NEW y \in Int, y # 0, NEW h \in Nat, h > 0, Magnitude(y) <= h,
           NEW k \in Int, NEW p \in Int, p = x * y + (2 * h) * k, Quot(p, y) = x
    PROVE  p = x * y
<1>1. PICK r \in Int : p = y * x + r /\ Magnitude(r) < Magnitude(y)
  BY QuotFacts
<1>2. PICK e \in Int : e = x * y /\ e = y * x
  OBVIOUS
<1>3. PICK z \in Int : z = (2 * h) * k
  OBVIOUS
<1>4. r = z /\ Magnitude(r) < h
  <2>1. Magnitude(r) \in Int /\ Magnitude(y) \in Int
    BY DEF Magnitude
  <2> QED BY <1>1, <1>2, <1>3, <2>1
<1>5. -h < z /\ z < h
  BY <1>4 DEF Magnitude
<1>6. z = 0
  <2>1. k >= 1 => z >= 2 * h
    BY <1>3
  <2>2. k <= -1 => z <= -(2 * h)
    BY <1>3
  <2>3. k = 0 => z = 0
    BY <1>3
  <2> QED BY <1>5, <2>1, <2>2, <2>3
<1> QED BY <1>1, <1>2, <1>4, <1>6

(* Factors that are small have a product that is *)
LEMMA ProductBound ==
    ASSUME NEW x \in Int, NEW y \in Int, NEW a \in Nat, NEW b \in Nat,
           x \in (-a)..a, y \in (-b)..b
    PROVE  x * y \in (-(a * b))..(a * b)
<1>1. PICK u \in Nat, v \in Nat : u = Magnitude(x) /\ v = Magnitude(y)
  BY DEF Magnitude
<1>2. u <= a /\ v <= b
  BY <1>1 DEF Magnitude
<1>3. u * v <= a * b
  <2>1. u * v <= a * v
    BY <1>2
  <2>2. a * v <= a * b
    BY <1>2
  <2> QED BY <2>1, <2>2
<1>4. x * y = u * v \/ x * y = -(u * v)
  BY <1>1 DEF Magnitude
<1>5. PICK p \in Int, m \in Nat, z \in Int : p = u * v /\ m = a * b /\ z = x * y
  OBVIOUS
<1>6. p >= 0
  BY <1>5
<1> QED BY <1>3, <1>4, <1>5, <1>6
(* and dividing an exact product gives the factor back. *)
LEMMA QuotExact ==
    ASSUME NEW x \in Int, NEW y \in Int, y # 0
    PROVE  Quot(x * y, y) = x
<1>1. PICK p \in Int : p = x * y
  OBVIOUS
<1>2. PICK q \in Int : q = Quot(p, y)
  BY <1>1, QuotFacts
<1>3. PICK r \in Int : p = y * q + r /\ Magnitude(r) < Magnitude(y)
  BY <1>1, <1>2, QuotFacts
<1>4. PICK d \in Int : d = x - q
  OBVIOUS
<1>5. PICK e \in Int : e = y * d
  OBVIOUS
<1>6. e = r
  <2>1. y * d = y * x - y * q
    BY <1>4
  <2>2. y * x = x * y
    OBVIOUS
  <2> QED BY <1>1, <1>3, <1>5, <2>1, <2>2
<1>7. d = 0
  <2>1. d >= 1 => Magnitude(e) >= Magnitude(y)
    <3>1. y > 0 /\ d >= 1 => e >= y
      BY <1>5
    <3>2. y < 0 /\ d >= 1 => e <= y
      BY <1>5
    <3> QED BY <3>1, <3>2 DEF Magnitude
  <2>2. d <= -1 => Magnitude(e) >= Magnitude(y)
    <3>1. y > 0 /\ d <= -1 => e <= -y
      BY <1>5
    <3>2. y < 0 /\ d <= -1 => e >= -y
      BY <1>5
    <3> QED BY <3>1, <3>2 DEF Magnitude
  <2>3. Magnitude(e) \in Int /\ Magnitude(y) \in Int /\ Magnitude(e) < Magnitude(y)
    BY <1>3, <1>6 DEF Magnitude
  <2> QED BY <2>1, <2>2, <2>3
<1> QED BY <1>1, <1>2, <1>4, <1>7
-----------------------------------------------------------------------------
(* The limits of a type, by its half *)
LEMMA Limits ==
    ASSUME NEW T \in DOMAIN Widths
    PROVE  /\ Half(T) \in Nat /\ Half(T) >= 2
           /\ NullOf(T) = -Half(T) /\ MinOf(T) = 1 - Half(T) /\ MaxOf(T) = Half(T) - 1
           /\ Bits(T) \in Nat /\ Bits(T) > 1
<1>1. Half(T) \in Nat /\ Half(T) >= 2
  BY Halves
<1>2. NullOf(T) = -Half(T) /\ MaxOf(T) = Half(T) - 1
  BY DEF NullOf, MaxOf, Half
<1>3. MinOf(T) = 1 - Half(T)
  BY <1>1, <1>2 DEF MinOf
<1>4. Bits(T) \in Nat /\ Bits(T) > 1
  BY WidthsAssumption DEF Bits, Widths
<1> QED BY <1>1, <1>2, <1>3, <1>4

(* More bits, more values *)
LEMMA HalfGrows ==
    ASSUME NEW T \in DOMAIN Widths, NEW U \in DOMAIN Widths
    PROVE  Bits(T) <= Bits(U) <=> Half(T) <= Half(U)
<1>1. /\ Bits(T) \in Nat /\ Bits(T) > 1 /\ Bits(U) \in Nat /\ Bits(U) > 1
      /\ Half(T) \in Nat /\ Half(T) >= 2 /\ Half(U) \in Nat /\ Half(U) >= 2
  BY Limits
<1>2. PICK m \in Nat, n \in Nat : m = Bits(T) - 1 /\ n = Bits(U) - 1
  BY <1>1
<1>3. Half(T) = Pow2[m] /\ Half(U) = Pow2[n]
  BY <1>2 DEF Half
<1>4. m < n => 2 * Half(T) <= Half(U)
  BY <1>3, Pow2Grows
<1>5. n < m => 2 * Half(U) <= Half(T)
  BY <1>3, Pow2Grows
<1>6. m = n => Half(T) = Half(U)
  BY <1>3
<1> QED BY <1>1, <1>2, <1>4, <1>5, <1>6

(* The wider of two integer types holds the values of both *)
LEMMA WiderFacts ==
    ASSUME NEW T1 \in IntegerTypes, NEW T2 \in IntegerTypes
    PROVE  /\ Wider(T1, T2) \in {T1, T2} /\ Wider(T1, T2) \in IntegerTypes
           /\ Half(T1) <= Half(Wider(T1, T2)) /\ Half(T2) <= Half(Wider(T1, T2))
<1>1. T1 \in DOMAIN Widths /\ T2 \in DOMAIN Widths
  BY DEF IntegerTypes, Widths
<1>2. Bits(T1) \in Nat /\ Bits(T2) \in Nat /\ Half(T1) \in Nat /\ Half(T2) \in Nat
  BY <1>1, Limits
<1>3. CASE Bits(T1) >= Bits(T2)
  <2>1. Wider(T1, T2) = T1
    BY <1>3 DEF Wider
  <2>2. Half(T2) <= Half(T1)
    BY <1>1, <1>2, <1>3, HalfGrows
  <2> QED BY <1>2, <2>1, <2>2
<1>4. CASE ~ (Bits(T1) >= Bits(T2))
  <2>1. Wider(T1, T2) = T2
    BY <1>4 DEF Wider
  <2>2. Half(T1) <= Half(T2)
    BY <1>1, <1>2, <1>4, HalfGrows
  <2> QED BY <1>2, <2>1, <2>2
<1> QED BY <1>3, <1>4

(* C++ computes in INTEGER or wider: the value it has for the exact n *)
LEMMA PromotedFacts ==
    ASSUME NEW T \in IntegerTypes, NEW n \in Int
    PROVE  LET p == Promoted(n, Bits(T))
               h == Half(T)
           IN  /\ p \in Int
               /\ h >= Half("INTEGER") =>
                     /\ p \in (-h)..(h - 1)
                     /\ Shifts(n, p, h)
               /\ (h < Half("INTEGER") /\ n \in (-Half("INTEGER"))..(Half("INTEGER") - 1)) => p = n
               /\ n \in (-h)..(h - 1) => p = n
<1>1. T \in DOMAIN Widths /\ "INTEGER" \in DOMAIN Widths /\ Bits("INTEGER") = IntBits
  BY DEF IntegerTypes, Widths, Bits
<1>2. PICK h \in Nat, ih \in Nat : h = Half(T) /\ ih = Half("INTEGER") /\ h > 0 /\ ih > 0
  BY <1>1, Limits
<1>3. /\ Bits(T) \in Nat /\ IntBits \in Nat
      /\ h = Pow2[Bits(T) - 1] /\ ih = Pow2[IntBits - 1]
      /\ IntBits <= Bits(T) <=> ih <= h
  BY <1>1, <1>2, Limits, HalfGrows DEF Half
<1>4. CASE Bits(T) >= IntBits
  <2>1. Promoted(n, Bits(T)) = Wrap(n, Bits(T))
    BY <1>4 DEF Promoted
  <2>2. /\ Wrap(n, Bits(T)) \in (-h)..(h - 1)
        /\ n \in (-h)..(h - 1) <=> Wrap(n, Bits(T)) = n
        /\ Shifts(n, Wrap(n, Bits(T)), h)
    BY <1>2, <1>3, WrapFacts
  <2>3. h >= ih
    BY <1>2, <1>3, <1>4
  <2>4. PICK p \in (-h)..(h - 1) : p = Promoted(n, Bits(T))
    BY <2>1, <2>2
  <2> QED BY <1>2, <2>1, <2>2, <2>3, <2>4
<1>5. CASE ~ (Bits(T) >= IntBits)
  <2>1. Promoted(n, Bits(T)) = Wrap(n, IntBits)
    BY <1>5 DEF Promoted
  <2>2. /\ Wrap(n, IntBits) \in (-ih)..(ih - 1)
        /\ n \in (-ih)..(ih - 1) <=> Wrap(n, IntBits) = n
    BY <1>2, <1>3, WrapFacts
  <2>3. h < ih
    BY <1>2, <1>3, <1>5
  <2>4. PICK p \in (-ih)..(ih - 1) : p = Promoted(n, Bits(T))
    BY <2>1, <2>2
  <2> QED BY <1>2, <2>1, <2>2, <2>3, <2>4
<1> QED BY <1>4, <1>5

(* The types narrower than INTEGER have their products in it *)
LEMMA SmallerHalves ==
    ASSUME NEW T \in IntegerTypes, Half(T) < Half("INTEGER")
    PROVE  /\ 2 * (Half(T) * Half(T)) <= Half("INTEGER")
           /\ 2 * Half(T) <= Half("INTEGER")
<1>1. PICK t \in Nat, s \in Nat, i \in Nat, b \in Nat, h \in Nat :
         /\ t = Half("TINYINT") /\ s = Half("SMALLINT")
         /\ i = Half("INTEGER") /\ b = Half("BIGINT") /\ h = Half(T)
         /\ t >= 2 /\ s >= 2 /\ i >= 2 /\ b >= 2
  BY Halves DEF Widths, IntegerTypes
<1>2. 2 * t <= s /\ 2 * (s * s) <= i /\ 2 * i <= b
  BY <1>1, Halves
<1>3. h < i
  BY <1>1
<1>4. h = t \/ h = s
  BY <1>1, <1>2, <1>3 DEF IntegerTypes
<1>5. h <= s /\ h >= 2
  BY <1>1, <1>2, <1>4
<1>6. h * h <= s * s /\ h <= h * h
  <2>1. h * h <= s * h /\ s * h <= s * s
    BY <1>5
  <2>2. h <= h * h
    BY <1>5
  <2> QED BY <2>1, <2>2
<1>7. PICK hh \in Nat, ss \in Nat : hh = h * h /\ ss = s * s
  OBVIOUS
<1>8. 2 * hh <= i /\ 2 * h <= i
  BY <1>2, <1>6, <1>7
<1> QED BY <1>1, <1>7, <1>8

(* What Narrowed does with the exact result n, when its overflow test over *)
(* is right about the results that fit, and about those that do not where  *)
(* the computation has no more bits than the result                        *)
LEMMA NarrowedExact ==
    ASSUME NEW T1 \in IntegerTypes, NEW T2 \in IntegerTypes, NEW T, T = Wider(T1, T2),
           NEW n \in Int, NEW p, p = Promoted(n, Bits(T)), NEW over \in {0, 1},
           n \in (-Half(T))..(Half(T) - 1) => over = 0,
           (Half(T) >= Half("INTEGER") /\ n \notin (-Half(T))..(Half(T) - 1)) => over = 1,
           Half(T) < Half("INTEGER") => n \in (-Half("INTEGER"))..(Half("INTEGER") - 1)
    PROVE  (IF (Wrap(p, Bits(T1)) # p /\ Wrap(p, Bits(T2)) # p) \/ over = 1
            THEN OutOfRange ELSE IntValue(T, p))
         = (IF n \in NullOf(T)..MaxOf(T) THEN IntValue(T, n) ELSE OutOfRange)
<1>1. /\ T \in {T1, T2} /\ T \in IntegerTypes
      /\ T \in DOMAIN Widths /\ T1 \in DOMAIN Widths /\ T2 \in DOMAIN Widths
      /\ "INTEGER" \in DOMAIN Widths
  BY WiderFacts DEF IntegerTypes, Widths
<1>2. PICK h \in Nat, h1 \in Nat, h2 \in Nat, ih \in Nat :
         /\ h = Half(T) /\ h1 = Half(T1) /\ h2 = Half(T2) /\ ih = Half("INTEGER")
         /\ h > 0 /\ h1 > 0 /\ h2 > 0 /\ h1 <= h /\ h2 <= h
  BY <1>1, Limits, WiderFacts
<1>3. /\ p \in Int
      /\ h >= ih => p \in (-h)..(h - 1)
      /\ (h < ih /\ n \in (-ih)..(ih - 1)) => p = n
      /\ n \in (-h)..(h - 1) => p = n
  BY <1>1, <1>2, PromotedFacts
<1>4. /\ p \in (-h1)..(h1 - 1) <=> Wrap(p, Bits(T1)) = p
      /\ p \in (-h2)..(h2 - 1) <=> Wrap(p, Bits(T2)) = p
  BY <1>2, <1>3, WrapFacts DEF Half
<1>5. (Wrap(p, Bits(T1)) # p /\ Wrap(p, Bits(T2)) # p) <=> p \notin (-h)..(h - 1)
  <2>1. h = h1 \/ h = h2
    BY <1>1, <1>2
  <2> QED BY <1>2, <1>3, <1>4, <2>1
<1>6. n \in NullOf(T)..MaxOf(T) <=> n \in (-h)..(h - 1)
  BY <1>1, <1>2, Limits
<1>7. CASE n \in (-h)..(h - 1)
  BY <1>2, <1>3, <1>5, <1>6, <1>7
<1>8. CASE n \notin (-h)..(h - 1)
  <2>1. h >= ih => over = 1
    BY <1>2, <1>8
  <2>2. h < ih => p = n
    BY <1>2, <1>3
  <2>3. over = 1 \/ p \notin (-h)..(h - 1)
    BY <1>2, <1>8, <2>1, <2>2
  <2> QED BY <1>5, <1>6, <1>8, <2>3
<1> QED BY <1>7, <1>8
(* The values of a type without its NULL *)
Within(T) == MinOf(T)..MaxOf(T)

(* and for each operation, which of its results are returned, *)
Returned(op, T, x, y) ==
    IF Exact(op, x, y) \in NullOf(T)..MaxOf(T) THEN IntValue(T, Exact(op, x, y)) ELSE OutOfRange

(* Two operands in the range of the wider type *)
LEMMA OperandsFit ==
    ASSUME NEW T1 \in IntegerTypes, NEW T2 \in IntegerTypes,
           NEW x \in Within(T1), NEW y \in Within(T2), NEW T, T = Wider(T1, T2)
    PROVE  /\ T \in IntegerTypes /\ Half(T) \in Nat /\ Half(T) > 0 /\ Half("INTEGER") \in Nat
           /\ x \in Int /\ y \in Int
           /\ 1 - Half(T) <= x /\ x <= Half(T) - 1 /\ 1 - Half(T) <= y /\ y <= Half(T) - 1
           /\ NullOf(T)..MaxOf(T) = (-Half(T))..(Half(T) - 1)
           /\ Half(T) < Half("INTEGER") =>
                 2 * (Half(T) * Half(T)) <= Half("INTEGER") /\ 2 * Half(T) <= Half("INTEGER")
<1>1. /\ T \in {T1, T2} /\ T \in IntegerTypes
      /\ T \in DOMAIN Widths /\ T1 \in DOMAIN Widths /\ T2 \in DOMAIN Widths
      /\ "INTEGER" \in DOMAIN Widths
  BY WiderFacts DEF IntegerTypes, Widths
<1>2. PICK h \in Nat, h1 \in Nat, h2 \in Nat :
         /\ h = Half(T) /\ h1 = Half(T1) /\ h2 = Half(T2) /\ h > 0 /\ h1 <= h /\ h2 <= h
  BY <1>1, Limits, WiderFacts
<1>3. x \in (1 - h1)..(h1 - 1) /\ y \in (1 - h2)..(h2 - 1)
  BY <1>1, <1>2, Limits DEF Within
<1>4. x \in Int /\ y \in Int /\ 1 - h <= x /\ x <= h - 1 /\ 1 - h <= y /\ y <= h - 1
  BY <1>2, <1>3
<1>5. NullOf(T)..MaxOf(T) = (-h)..(h - 1) /\ Half("INTEGER") \in Nat
  BY <1>1, <1>2, Limits
<1>6. Half(T) < Half("INTEGER") =>
         2 * (Half(T) * Half(T)) <= Half("INTEGER") /\ 2 * Half(T) <= Half("INTEGER")
  BY <1>1, SmallerHalves
<1> QED BY <1>1, <1>2, <1>4, <1>5, <1>6

(* for sums, *)
LEMMA AddExact ==
    ASSUME NEW T1 \in IntegerTypes, NEW T2 \in IntegerTypes,
           NEW x \in Within(T1), NEW y \in Within(T2)
    PROVE  AddValue(T1, T2, x, y) = Returned("Add", Wider(T1, T2), x, y)
<1>1. PICK T : T = Wider(T1, T2)
  OBVIOUS
<1>2. T \in IntegerTypes
  BY <1>1, OperandsFit
<1>3. PICK h \in Nat, ih \in Nat :
         /\ h = Half(T) /\ ih = Half("INTEGER") /\ h > 0
         /\ x \in Int /\ y \in Int
         /\ 1 - h <= x /\ x <= h - 1 /\ 1 - h <= y /\ y <= h - 1
         /\ h < ih => 2 * h <= ih
  BY <1>1, OperandsFit
<1>4. PICK n \in Int : n = x + y
  BY <1>3
<1>5. PICK p : p = Promoted(n, Bits(T))
  OBVIOUS
<1>6. /\ p \in Int
      /\ h >= ih => p \in (-h)..(h - 1)
      /\ h >= ih => \E k \in Int : p = n + (2 * h) * k
      /\ n \in (-h)..(h - 1) => p = n
  BY <1>2, <1>3, <1>4, <1>5, PromotedFacts DEF Shifts
<1>7. p \in (-h)..(h - 1) => Wrap(p, Bits(T)) = p
  BY <1>3, <1>6, WrapFacts DEF Half
<1>8. PICK over \in {0, 1} :
         over = 1 <=> ((x > 0 /\ y > 0 /\ Wrap(p, Bits(T)) < 0) \/ (x < 0 /\ y < 0 /\ Wrap(p, Bits(T)) > 0))
  OBVIOUS
<1>9. n \in (-h)..(h - 1) => over = 0
  <2>1. n \in (-h)..(h - 1) => Wrap(p, Bits(T)) = n
    BY <1>6, <1>7
  <2> QED BY <1>3, <1>4, <1>5, <1>8, <2>1
<1>10. ASSUME h >= ih, n \notin (-h)..(h - 1) PROVE over = 1
  <2>1. PICK k \in Int : p = n + (2 * h) * k
    BY <1>6, <1>10
  <2>2. PICK z \in Int : z = (2 * h) * k
    BY <1>3
  <2>3. /\ k >= 1 => z >= 2 * h
        /\ k <= -1 => z <= -(2 * h)
        /\ k = 0 => z = 0
        /\ k >= 2 => z >= 4 * h
        /\ k <= -2 => z <= -(4 * h)
        /\ k = 1 => z = 2 * h
        /\ k = -1 => z = -(2 * h)
    BY <1>3, <2>2
  <2>4. p = n + z /\ p \in Int /\ -h <= p /\ p <= h - 1 /\ Wrap(p, Bits(T)) = p
    BY <1>6, <1>7, <1>10, <2>1, <2>2
  <2>5. CASE n >= h
    <3>1. p < 0 /\ x > 0 /\ y > 0
      BY <1>3, <1>4, <1>5, <2>3, <2>4, <2>5
    <3> QED BY <1>8, <2>4, <3>1
  <2>6. CASE n < -h
    <3>1. p > 0 /\ x < 0 /\ y < 0
      BY <1>3, <1>4, <1>5, <2>3, <2>4, <2>6
    <3> QED BY <1>8, <2>4, <3>1
  <2> QED BY <1>3, <1>4, <1>5, <1>10, <2>5, <2>6
<1>11. h < ih => n \in (-ih)..(ih - 1)
  BY <1>3, <1>4
<1>12. AddValue(T1, T2, x, y)
         = IF (Wrap(p, Bits(T1)) # p /\ Wrap(p, Bits(T2)) # p) \/ over = 1
           THEN OutOfRange ELSE IntValue(T, p)
  BY <1>1, <1>4, <1>5, <1>8, Zenon DEF AddValue, NarrowedIn, Narrowed
<1>13. Exact("Add", x, y) = n
  BY <1>4 DEF Exact
<1> QED BY <1>1, <1>3, <1>4, <1>5, <1>9, <1>10, <1>11, <1>12, <1>13, NarrowedExact DEF Returned

(* for differences, *)
LEMMA SubtractExact ==
    ASSUME NEW T1 \in IntegerTypes, NEW T2 \in IntegerTypes,
           NEW x \in Within(T1), NEW y \in Within(T2)
    PROVE  SubtractValue(T1, T2, x, y) = Returned("Subtract", Wider(T1, T2), x, y)
<1>1. PICK T : T = Wider(T1, T2)
  OBVIOUS
<1>2. T \in IntegerTypes
  BY <1>1, OperandsFit
<1>3. PICK h \in Nat, ih \in Nat :
         /\ h = Half(T) /\ ih = Half("INTEGER") /\ h > 0
         /\ x \in Int /\ y \in Int
         /\ 1 - h <= x /\ x <= h - 1 /\ 1 - h <= y /\ y <= h - 1
         /\ h < ih => 2 * h <= ih
  BY <1>1, OperandsFit
<1>4. PICK n \in Int : n = x - y
  BY <1>3
<1>5. PICK p : p = Promoted(n, Bits(T))
  OBVIOUS
<1>6. /\ p \in Int
      /\ h >= ih => p \in (-h)..(h - 1)
      /\ h >= ih => \E k \in Int : p = n + (2 * h) * k
      /\ n \in (-h)..(h - 1) => p = n
  BY <1>2, <1>3, <1>4, <1>5, PromotedFacts DEF Shifts
<1>7. p \in (-h)..(h - 1) => Wrap(p, Bits(T)) = p
  BY <1>3, <1>6, WrapFacts DEF Half
<1>8. PICK over \in {0, 1} :
         over = 1 <=> ((x > 0 /\ y < 0 /\ Wrap(p, Bits(T)) < 0) \/ (x < 0 /\ y > 0 /\ Wrap(p, Bits(T)) > 0))
  OBVIOUS
<1>9. n \in (-h)..(h - 1) => over = 0
  <2>1. n \in (-h)..(h - 1) => Wrap(p, Bits(T)) = n
    BY <1>6, <1>7
  <2> QED BY <1>3, <1>4, <1>5, <1>8, <2>1
<1>10. ASSUME h >= ih, n \notin (-h)..(h - 1) PROVE over = 1
  <2>1. PICK k \in Int : p = n + (2 * h) * k
    BY <1>6, <1>10
  <2>2. PICK z \in Int : z = (2 * h) * k
    BY <1>3
  <2>3. /\ k >= 1 => z >= 2 * h
        /\ k <= -1 => z <= -(2 * h)
        /\ k = 0 => z = 0
        /\ k >= 2 => z >= 4 * h
        /\ k <= -2 => z <= -(4 * h)
        /\ k = 1 => z = 2 * h
        /\ k = -1 => z = -(2 * h)
    BY <1>3, <2>2
  <2>4. p = n + z /\ p \in Int /\ -h <= p /\ p <= h - 1 /\ Wrap(p, Bits(T)) = p
    BY <1>6, <1>7, <1>10, <2>1, <2>2
  <2>5. CASE n >= h
    <3>1. p < 0 /\ x > 0 /\ y < 0
      BY <1>3, <1>4, <1>5, <2>3, <2>4, <2>5
    <3> QED BY <1>8, <2>4, <3>1
  <2>6. CASE n < -h
    <3>1. p > 0 /\ x < 0 /\ y > 0
      BY <1>3, <1>4, <1>5, <2>3, <2>4, <2>6
    <3> QED BY <1>8, <2>4, <3>1
  <2> QED BY <1>3, <1>4, <1>5, <1>10, <2>5, <2>6
<1>11. h < ih => n \in (-ih)..(ih - 1)
  BY <1>3, <1>4
<1>12. SubtractValue(T1, T2, x, y)
         = IF (Wrap(p, Bits(T1)) # p /\ Wrap(p, Bits(T2)) # p) \/ over = 1
           THEN OutOfRange ELSE IntValue(T, p)
  BY <1>1, <1>4, <1>5, <1>8, Zenon DEF SubtractValue, NarrowedIn, Narrowed
<1>13. Exact("Subtract", x, y) = n
  BY <1>4 DEF Exact
<1> QED BY <1>1, <1>3, <1>4, <1>5, <1>9, <1>10, <1>11, <1>12, <1>13, NarrowedExact DEF Returned

(* for products, *)
LEMMA MultiplyExact ==
    ASSUME NEW T1 \in IntegerTypes, NEW T2 \in IntegerTypes,
           NEW x \in Within(T1), NEW y \in Within(T2)
    PROVE  MultiplyValue(T1, T2, x, y) = Returned("Multiply", Wider(T1, T2), x, y)
<1>1. PICK T : T = Wider(T1, T2)
  OBVIOUS
<1>2. T \in IntegerTypes
  BY <1>1, OperandsFit
<1>3. PICK h \in Nat, ih \in Nat :
         /\ h = Half(T) /\ ih = Half("INTEGER") /\ h > 0
         /\ x \in Int /\ y \in Int
         /\ 1 - h <= x /\ x <= h - 1 /\ 1 - h <= y /\ y <= h - 1
         /\ h < ih => 2 * (h * h) <= ih
  BY <1>1, OperandsFit
<1>4. PICK n \in Int : n = x * y
  BY <1>3
<1>5. PICK p : p = Promoted(n, Bits(T))
  OBVIOUS
<1>6. /\ p \in Int
      /\ h >= ih => p \in (-h)..(h - 1)
      /\ h >= ih => \E k \in Int : p = n + (2 * h) * k
      /\ n \in (-h)..(h - 1) => p = n
  BY <1>2, <1>3, <1>4, <1>5, PromotedFacts DEF Shifts
<1>7. p \in (-h)..(h - 1) => Wrap(p, Bits(T)) = p
  BY <1>3, <1>6, WrapFacts DEF Half
<1>8. PICK over \in {0, 1} :
         over = 1 <=> (y # 0 /\ Quot(Wrap(p, Bits(T)), y) # x)
  OBVIOUS
<1>9. ASSUME n \in (-h)..(h - 1) PROVE over = 0
  <2>1. p = n /\ Wrap(p, Bits(T)) = n
    BY <1>6, <1>7, <1>9
  <2>2. y # 0 => Quot(n, y) = x
    BY <1>3, <1>4, <1>5, QuotExact
  <2> QED BY <1>8, <2>1, <2>2
<1>10. ASSUME h >= ih, n \notin (-h)..(h - 1) PROVE over = 1
  <2>1. PICK k \in Int : p = n + (2 * h) * k
    BY <1>6, <1>10
  <2>2. p \in (-h)..(h - 1) /\ p # n /\ Wrap(p, Bits(T)) = p
    BY <1>6, <1>7, <1>10
  <2>3. y # 0
    <3>1. y = 0 => n = 0
      BY <1>3, <1>4
    <3> QED BY <1>3, <1>10, <3>1
  <2>4. Magnitude(y) <= h
    BY <1>3 DEF Magnitude
  <2>5. Quot(p, y) # x
    <3>1. p = x * y + (2 * h) * k
      BY <1>4, <1>5, <2>1
    <3>2. SUFFICES ASSUME Quot(p, y) = x PROVE FALSE
      OBVIOUS
    <3>3. p = x * y
      <4>1. x \in Int /\ y \in Int /\ h \in Nat /\ h > 0 /\ k \in Int /\ p \in Int
        BY <1>3, <1>6
      <4> QED BY <2>3, <2>4, <3>1, <3>2, <4>1, ProductShows, Zenon
    <3> QED BY <1>4, <1>5, <2>2, <3>3
  <2> QED BY <1>8, <2>2, <2>3, <2>5
<1>11. h < ih => n \in (-ih)..(ih - 1)
  <2>1. x \in (-h)..h /\ y \in (-h)..h
    BY <1>3
  <2>2. n \in (-(h * h))..(h * h)
    BY <1>3, <1>4, <1>5, <2>1, ProductBound
  <2>3. PICK hh \in Nat : hh = h * h
    OBVIOUS
  <2>4. h >= 1 => hh >= 1
    BY <2>3
  <2> QED BY <1>3, <1>4, <1>5, <2>2, <2>3, <2>4
<1>12. MultiplyValue(T1, T2, x, y)
         = IF (Wrap(p, Bits(T1)) # p /\ Wrap(p, Bits(T2)) # p) \/ over = 1
           THEN OutOfRange ELSE IntValue(T, p)
  BY <1>1, <1>4, <1>5, <1>8, Zenon DEF MultiplyValue, NarrowedIn, Narrowed
<1>13. Exact("Multiply", x, y) = n
  BY <1>4 DEF Exact
<1> QED BY <1>1, <1>3, <1>4, <1>5, <1>9, <1>10, <1>11, <1>12, <1>13, NarrowedExact DEF Returned

(* and for quotients and remainders, which always fit. *)
LEMMA DivideExact ==
    ASSUME NEW T1 \in IntegerTypes, NEW T2 \in IntegerTypes,
           NEW x \in Within(T1), NEW y \in Within(T2), y # 0
    PROVE  /\ DivideValue(T1, T2, x, y) = Returned("Divide", Wider(T1, T2), x, y)
           /\ ModuloValue(T1, T2, x, y) = Returned("Modulo", Wider(T1, T2), x, y)
<1>1. PICK T : T = Wider(T1, T2)
  OBVIOUS
<1>2. T \in IntegerTypes
  BY <1>1, OperandsFit
<1>3. PICK h \in Nat :
         /\ h = Half(T) /\ h > 0
         /\ x \in Int /\ y \in Int
         /\ 1 - h <= x /\ x <= h - 1 /\ 1 - h <= y /\ y <= h - 1
  BY <1>1, OperandsFit
<1>4. PICK q \in Int : q = Quot(x, y) /\ Magnitude(q) <= Magnitude(x)
  BY <1>3, QuotFacts
<1>5. PICK r \in Int : r = Rem(x, y) /\ Magnitude(r) < Magnitude(y)
  <2>1. PICK s \in Int : x = y * q + s /\ Magnitude(s) < Magnitude(y)
    BY <1>3, <1>4, QuotFacts
  <2>2. Rem(x, y) = x - y * q
    BY <1>4 DEF Rem
  <2>3. PICK z \in Int : z = y * q
    BY <1>3
  <2>4. x - z = s
    BY <1>3, <2>1, <2>3
  <2> QED BY <2>1, <2>2, <2>3, <2>4
<1>6. q \in (-h)..(h - 1) /\ r \in (-h)..(h - 1)
  BY <1>3, <1>4, <1>5 DEF Magnitude
<1>7. NullOf(T)..MaxOf(T) = (-h)..(h - 1)
  BY <1>1, <1>3, OperandsFit
<1>8. Exact("Divide", x, y) = q /\ Exact("Modulo", x, y) = r
  BY <1>4, <1>5 DEF Exact
<1> QED BY <1>1, <1>4, <1>5, <1>6, <1>7, <1>8 DEF DivideValue, ModuloValue, Returned
-----------------------------------------------------------------------------
(* The invariant: the operands are values, the result is that of the call *)
CallInv ==
    /\ IsValue(left) /\ IsValue(right)
    /\ \/ call = Idle
       \/ \E op \in CompareOps : call = <<"Compare", op>> /\ result = Compare(op, left, right)
       \/ \E op \in ArithOps : call = <<"Arith", op>> /\ result = Arith(op, left, right)
       \/ call = <<"Min">> /\ result = ValueMin(left, right)
       \/ call = <<"Max">> /\ result = ValueMax(left, right)
       \/ call = <<"Like">> /\ result = Like(left, right)
       \/ \E T \in TypeIds : call = <<"CastAs", T>> /\ result = CastAs(left, T)
       \/ \E T \in TypeIds, undefined \in UndefinedCasts :
             call = <<"FactoryCastAs", T>> /\ result = FactoryCastAs(left, T, undefined)

(* It holds of every behaviour *)
LEMMA CallsKeepInv == Spec => []CallInv
<1>1. Init => CallInv
  BY SampleAssumption DEF Init, CallInv
<1>2. CallInv /\ [Next]_vars => CallInv'
  <2> SUFFICES ASSUME CallInv, [Next]_vars PROVE CallInv'
    OBVIOUS
  <2>1. CASE DoCompare
    BY <2>1 DEF CallInv, DoCompare, Call
  <2>2. CASE DoArith
    BY <2>2 DEF CallInv, DoArith, Call
  <2>3. CASE DoMin
    BY <2>3 DEF CallInv, DoMin, Call
  <2>4. CASE DoMax
    BY <2>4 DEF CallInv, DoMax, Call
  <2>5. CASE DoLike
    BY <2>5 DEF CallInv, DoLike, Call
  <2>6. CASE DoCastAs
    BY <2>6 DEF CallInv, DoCastAs, Call
  <2>7. CASE DoFactoryCastAs
    BY <2>7 DEF CallInv, DoFactoryCastAs, Call
  <2>8. CASE MakeTuple
    BY <2>8 DEF CallInv, MakeTuple
  <2>9. CASE WriteTuple
    BY <2>9 DEF CallInv, WriteTuple
  <2>10. CASE ReadTuple
    BY <2>10 DEF CallInv, ReadTuple
  <2>11. CASE Return
    BY <2>11 DEF CallInv, Return
  <2>12. CASE UNCHANGED vars
    BY <2>12 DEF CallInv, vars
  <2> QED BY <2>1, <2>2, <2>3, <2>4, <2>5, <2>6, <2>7, <2>8, <2>9, <2>10, <2>11, <2>12 DEF Next
<1> QED BY <1>1, <1>2, PTL DEF Spec

(* What a value is, by its type *)
LEMMA ValueShape ==
    ASSUME NEW x, IsValue(x)
    PROVE  /\ x.type \in TypeIds
           /\ x.null \in BOOLEAN
           /\ x.type \in DOMAIN Widths =>
                 /\ x = IntField(x.type, IntOf(x))
                 /\ IntOf(x) \in NullOf(x.type)..MaxOf(x.type)
                 /\ x.null <=> IntOf(x) = NullOf(x.type)
                 /\ ~x.null => IntOf(x) \in Within(x.type)
           /\ (x.type = "DECIMAL" /\ x.null) => x = NullDecimal
           /\ (x.type = "DECIMAL" /\ ~x.null) =>
                 x = DecimalValue(x.v) /\ x.v \in Int \X (Nat \ {0}) /\ IsDouble(x.v)
           /\ (x.type = "VARCHAR" /\ x.null) => x = NullVarchar
           /\ (x.type = "VARCHAR" /\ ~x.null) =>
                 x = VarlenValue(x.v) /\ x.v \in Seq(0..255)
<1>1. DOMAIN Widths = {"BOOLEAN", "TINYINT", "SMALLINT", "INTEGER", "BIGINT"}
  BY DEF Widths
<1>2. CASE x.type \in DOMAIN Widths /\ IntOf(x) \in NullOf(x.type)..MaxOf(x.type)
              /\ x = IntField(x.type, IntOf(x))
  <2>1. PICK T, n : T \in DOMAIN Widths /\ T = x.type /\ n = IntOf(x)
    BY <1>2
  <2>2. x.null = (n = NullOf(T))
    BY <1>2, <2>1 DEF IntField
  <2>3. n # NullOf(T) => n \in Within(T)
    BY <1>2, <2>1, Limits DEF Within
  <2>4. T \in TypeIds /\ T # "DECIMAL" /\ T # "VARCHAR"
    BY <1>1, <2>1 DEF TypeIds, NumericTypes, IntegerTypes
  <2>5. x.null \in BOOLEAN /\ (x.null <=> n = NullOf(T))
    BY <2>2
  <2> QED BY <1>2, <2>1, <2>3, <2>4, <2>5
<1>3. CASE x.v \in Int \X (Nat \ {0}) /\ IsDouble(x.v) /\ x = DecimalValue(x.v)
  <2>1. x.type = "DECIMAL" /\ x.null = FALSE
    BY <1>3 DEF DecimalValue
  <2> QED BY <1>1, <1>3, <2>1 DEF TypeIds, NumericTypes
<1>4. CASE x.v \in Seq(0..255) /\ x = VarlenValue(x.v)
  <2>1. x.type = "VARCHAR" /\ x.null = FALSE
    BY <1>4 DEF VarlenValue
  <2> QED BY <1>1, <1>4, <2>1 DEF TypeIds
<1>5. CASE x \in {NullDecimal, NullVarchar}
  <2>1. \/ x = NullDecimal /\ x.type = "DECIMAL" /\ x.null = TRUE
        \/ x = NullVarchar /\ x.type = "VARCHAR" /\ x.null = TRUE
    BY <1>5 DEF NullDecimal, NullVarchar
  <2> QED BY <1>1, <2>1 DEF TypeIds, NumericTypes
<1> QED BY <1>2, <1>3, <1>4, <1>5 DEF IsValue
-----------------------------------------------------------------------------
(* Arithmetic on two integers: the checks before the method *)
LEMMA ArithOfIntegers ==
    ASSUME NEW l, NEW r, IsValue(l), IsValue(r),
           l.type \in IntegerTypes, r.type \in IntegerTypes, NEW op \in ArithOps
    PROVE  /\ (l.null \/ r.null) =>
                 Arith(op, l, r) = IntValue(Wider(l.type, r.type), NullOf(Wider(l.type, r.type)))
           /\ (~l.null /\ ~r.null /\ op \in {"Divide", "Modulo"} /\ IntOf(r) = 0) =>
                 Arith(op, l, r) = DivideByZero
           /\ (~l.null /\ ~r.null /\ ~(op \in {"Divide", "Modulo"} /\ IntOf(r) = 0)) =>
                 Arith(op, l, r) = IntMethod(op, l.type, r.type, IntOf(l), IntOf(r))
<1>1. PICK f : f = IntMethod(op, l.type, r.type, IntOf(l), IntOf(r))
  OBVIOUS
<1>2. Operand(l, r) = r
  BY DEF Operand, NumericTypes
<1>3. IntModifyFunc(op, l, r) = f
  BY <1>1 DEF IntModifyFunc, IntegerTypes
<1>4. Arith(op, l, r) = Computing(op, l, r, f)
  BY <1>2, <1>3 DEF Arith, ArithWith, TinyintArith, SmallintArith, IntegerArith, BigintArith,
     TinyintModifyFunc, SmallintModifyFunc, IntegerModifyFunc, BigintModifyFunc, IntegerTypes
<1>5. CheckComparable(l, r)
  BY DEF CheckComparable, NumericTypes, IntegerTypes
<1>6. OperateNull(l, r) = IntOperateNull(l.type, r)
  BY DEF OperateNull, TinyintOperateNull, SmallintOperateNull, IntegerOperateNull,
     BigintOperateNull, IntegerTypes
<1>7. IntOperateNull(l.type, r) = IntValue(Wider(l.type, r.type), NullOf(Wider(l.type, r.type)))
  <2>1. PICK T \in IntegerTypes : T = Wider(l.type, r.type)
    BY WiderFacts
  <2>2. GetNullValueByType(T) = IntValue(T, NullOf(T))
    BY DEF GetNullValueByType, IntegerTypes
  <2> QED BY <2>1, <2>2 DEF IntOperateNull, IntegerTypes
<1>8. Num(r)[1] = IntOf(r) /\ r.type # "VARCHAR"
  BY DEF Num, IntegerTypes
<1>9. l.null \in BOOLEAN /\ r.null \in BOOLEAN
  BY ValueShape
<1>10. CASE l.null \/ r.null
  BY <1>4, <1>5, <1>6, <1>7, <1>10 DEF Computing
<1>11. CASE ~l.null /\ ~r.null
  <2>1. CASE op \in {"Divide", "Modulo"}
    BY <1>1, <1>4, <1>5, <1>8, <1>11, <2>1 DEF Computing
  <2>2. CASE op \notin {"Divide", "Modulo"}
    BY <1>1, <1>4, <1>5, <1>8, <1>11, <2>2 DEF Computing
  <2> QED BY <2>1, <2>2
<1> QED BY <1>9, <1>10, <1>11

(* Integer arithmetic of any mix of widths never wraps: AddValue to          *)
(* ModuloValue of integer_parent_type.h return the exact result in the wider *)
(* type or throw, for every width of the types, 8 to 64 bits among them      *)
THEOREM ArithmeticIsExact == Spec => []ArithmeticExact
<1>1. CallInv => ArithmeticExact
  <2> SUFFICES ASSUME CallInv, call[1] = "Arith", AreIntegers PROVE ArithmeticExact
    BY DEF ArithmeticExact
  <2>1. PICK op \in ArithOps : call = <<"Arith", op>> /\ result = Arith(op, left, right)
    BY DEF CallInv, Idle
  <2>2. /\ IsValue(left) /\ IsValue(right) /\ call[2] = op
        /\ left.type \in IntegerTypes /\ right.type \in IntegerTypes
    BY <2>1 DEF CallInv, AreIntegers
  <2>3. PICK T1, T2, x, y :
           /\ T1 \in IntegerTypes /\ T2 \in IntegerTypes
           /\ T1 = left.type /\ T2 = right.type /\ x = IntOf(left) /\ y = IntOf(right)
    BY <2>2
  <2>4. PICK T : T = Wider(T1, T2)
    OBVIOUS
  <2>5. CASE left.null \/ right.null
    <3>1. result = IntValue(T, NullOf(T))
      BY <2>1, <2>2, <2>3, <2>4, <2>5, ArithOfIntegers
    <3> QED BY <2>3, <2>4, <2>5, <3>1 DEF ArithmeticExact
  <2>6. CASE ~(left.null \/ right.null) /\ op \in {"Divide", "Modulo"} /\ y = 0
    <3>1. result = DivideByZero
      BY <2>1, <2>2, <2>3, <2>6, ArithOfIntegers
    <3> QED BY <2>2, <2>3, <2>6, <3>1 DEF ArithmeticExact
  <2>7. CASE ~(left.null \/ right.null) /\ ~(op \in {"Divide", "Modulo"} /\ y = 0)
    <3>1. result = IntMethod(op, T1, T2, x, y)
      BY <2>1, <2>2, <2>3, <2>7, ArithOfIntegers
    <3>2. x \in Within(T1) /\ y \in Within(T2)
      <4>1. T1 \in DOMAIN Widths /\ T2 \in DOMAIN Widths
        BY <2>3 DEF IntegerTypes, Widths
      <4> QED BY <2>2, <2>3, <2>7, <4>1, ValueShape
    <3>3. IntMethod(op, T1, T2, x, y) = Returned(op, T, x, y)
      <4>1. CASE op = "Add"
        BY <2>3, <2>4, <3>2, <4>1, AddExact DEF IntMethod
      <4>2. CASE op = "Subtract"
        BY <2>3, <2>4, <3>2, <4>2, SubtractExact DEF IntMethod
      <4>3. CASE op = "Multiply"
        BY <2>3, <2>4, <3>2, <4>3, MultiplyExact DEF IntMethod
      <4>4. CASE op = "Divide"
        BY <2>3, <2>4, <2>7, <3>2, <4>4, DivideExact DEF IntMethod
      <4>5. CASE op = "Modulo"
        BY <2>3, <2>4, <2>7, <3>2, <4>5, DivideExact DEF IntMethod
      <4> QED BY <4>1, <4>2, <4>3, <4>4, <4>5 DEF ArithOps
    <3>4. result = IF Exact(op, x, y) \in NullOf(T)..MaxOf(T)
                   THEN IntValue(T, Exact(op, x, y)) ELSE OutOfRange
      BY <3>1, <3>3 DEF Returned
    <3> QED BY <2>2, <2>3, <2>4, <2>7, <3>4 DEF ArithmeticExact
  <2> QED BY <2>5, <2>6, <2>7
<1> QED BY <1>1, CallsKeepInv, PTL
-----------------------------------------------------------------------------
(* The integers a double holds: the small ones *)
LEMMA SmallHasBits ==
    ASSUME NEW n \in Int, NEW bits \in Nat, Magnitude(n) <= Pow2[bits]
    PROVE  HasBits(n, bits)
<1>1. 0 \in 0..BigBits /\ Pow2[0] = 1 /\ bits + 0 = bits
  BY WidthsAssumption, Pow2Def
<1>2. n % 1 = 0
  OBVIOUS
<1> QED BY <1>1, <1>2 DEF HasBits

(* The double an integer is rounded to has no other between the two *)
LEMMA RoundedFacts ==
    ASSUME NEW n \in Int
    PROVE  /\ Rounded(n) \in Int /\ HasBits(Rounded(n), MantissaBits)
           /\ \A w \in Int : HasBits(w, MantissaBits) =>
                 (w <= n => w <= Rounded(n)) /\ (n <= w => Rounded(n) <= w)
<1> DEFINE Full(d) == Near(n, d) # {}
           S == {d \in Nat : Full(d)}
<1>1. Magnitude(n) \in Nat /\ Magnitude(n) \in S
  <2>1. Magnitude(n) \in Nat /\ (n - Magnitude(n) = 0 \/ n + Magnitude(n) = 0)
    BY DEF Magnitude
  <2>2. HasBits(0, MantissaBits)
    <3>1. Magnitude(0) = 0 /\ MantissaBits \in Nat
      BY WidthsAssumption DEF Magnitude
    <3>2. Pow2[MantissaBits] >= 0
      BY <3>1, Pow2Def
    <3> QED BY <3>1, <3>2, SmallHasBits
  <2>3. 0 \in Near(n, Magnitude(n))
    BY <2>1, <2>2 DEF Near
  <2> QED BY <2>1, <2>3
<1>2. PICK g \in S : \A d \in S : g <= d
  <2>1. S \subseteq Nat /\ S # {}
    BY <1>1
  <2> HIDE DEF S
  <2> QED BY <2>1, LeastOfNats
<1>3. /\ g \in 0..Magnitude(n) /\ Full(g)
      /\ \A c \in 0..(g - 1) : ~Full(c)
  <2>1. g \in Nat /\ Full(g) /\ g <= Magnitude(n)
    BY <1>1, <1>2
  <2>2. ASSUME NEW c \in 0..(g - 1) PROVE ~Full(c)
    <3>1. c \in Nat /\ c < g
      BY <2>1, <2>2
    <3>2. c \notin S
      <4> HIDE DEF S
      <4> QED BY <1>2, <2>1, <3>1
    <3> QED BY <3>1, <3>2
  <2> QED BY <1>1, <2>1, <2>2
<1>4. PICK gap : gap = Gap(n)
  OBVIOUS
<1>5. /\ gap \in 0..Magnitude(n) /\ Full(gap)
      /\ \A c \in 0..(gap - 1) : ~Full(c)
  BY <1>3, <1>4 DEF Gap
<1>6. gap \in Nat
  BY <1>1, <1>5
<1>7. PICK k : k = Rounded(n)
  OBVIOUS
<1>8. k \in Near(n, gap)
  <2>1. PICK near : near = Near(n, gap) /\ near # {}
    BY <1>5
  <2>2. \E j \in near : \/ HasBits(j, MantissaBits - 1)
                        \/ \A i \in near : ~HasBits(i, MantissaBits - 1)
    BY <2>1
  <2>3. Nearest(near) \in near
    BY <2>2 DEF Nearest
  <2> QED BY <1>4, <1>7, <2>1, <2>3 DEF Rounded
<1>9. k \in Int /\ k \in {n - gap, n + gap} /\ HasBits(k, MantissaBits)
  BY <1>6, <1>8 DEF Near
<1>10. ASSUME NEW w \in Int, HasBits(w, MantissaBits)
       PROVE  (w <= n => w <= k) /\ (n <= w => k <= w)
  <2>1. ASSUME NEW d \in Nat, w \in {n - d, n + d} PROVE gap <= d
    <3>1. Full(d)
      BY <1>10, <2>1 DEF Near
    <3> QED BY <1>5, <1>6, <3>1
  <2>2. w <= n => gap <= n - w
    <3>1. w <= n => n - w \in Nat /\ w = n - (n - w)
      OBVIOUS
    <3> QED BY <2>1, <3>1
  <2>3. n <= w => gap <= w - n
    <3>1. n <= w => w - n \in Nat /\ w = n + (w - n)
      OBVIOUS
    <3> QED BY <2>1, <3>1
  <2> QED BY <1>6, <1>9, <2>2, <2>3
<1> QED BY <1>7, <1>9, <1>10

(* and is the integer itself when a double holds it. *)
LEMMA RoundedKeeps ==
    ASSUME NEW n \in Int, HasBits(n, MantissaBits)
    PROVE  Rounded(n) = n
<1>1. PICK k \in Int : k = Rounded(n)
  BY RoundedFacts
<1>2. n <= k /\ k <= n
  BY <1>1, RoundedFacts
<1> QED BY <1>1, <1>2

LEMMA RoundedAdjacent ==
    ASSUME NEW n \in Int
    PROVE  Adjacent(n, Rounded(n))
<1>1. PICK k \in Int : k = Rounded(n) /\ HasBits(k, MantissaBits)
  BY RoundedFacts
<1>2. \A w \in Int : HasBits(w, MantissaBits) => (w <= n => w <= k) /\ (n <= w => k <= w)
  BY <1>1, RoundedFacts
<1>3. ASSUME NEW m \in (n .. k) \cup (k .. n) PROVE HasBits(m, MantissaBits) <=> m = k
  BY <1>1, <1>2
<1> QED BY <1>1, <1>3 DEF Adjacent

(* Every type but BIGINT is narrower than a mantissa *)
LEMMA NarrowHasBits ==
    ASSUME NEW T \in DOMAIN Widths, T # "BIGINT", NEW n \in (-Half(T))..Half(T)
    PROVE  n \in Int /\ HasBits(n, MantissaBits) /\ Rounded(n) = n
<1>1. PICK h \in Nat : h = Half(T) /\ n \in (-h)..h
  BY Limits
<1>2. PICK m \in Nat, i \in Nat : m = MantissaBits /\ i = IntBits - 1 /\ i <= m
  BY WidthsAssumption
<1>3. h <= Pow2[i]
  <2>1. Bits(T) <= Bits("INTEGER") /\ "INTEGER" \in DOMAIN Widths
    BY WidthsAssumption DEF Bits, Widths
  <2>2. Half(T) <= Half("INTEGER")
    BY <2>1, HalfGrows
  <2> QED BY <1>1, <1>2, <2>2 DEF Half, Bits, Widths
<1>4. Pow2[i] <= Pow2[m]
  <2>1. i < m => 2 * Pow2[i] <= Pow2[m]
    BY Pow2Grows
  <2>2. Pow2[i] \in Nat /\ Pow2[m] \in Nat
    BY Pow2Def
  <2> QED BY <1>2, <2>1, <2>2
<1>5. Magnitude(n) <= Pow2[m]
  <2>1. Pow2[i] \in Nat /\ Pow2[m] \in Nat
    BY Pow2Def
  <2> QED BY <1>1, <1>3, <1>4, <2>1 DEF Magnitude
<1>6. HasBits(n, MantissaBits)
  BY <1>1, <1>2, <1>5, SmallHasBits
<1> QED BY <1>1, <1>6, RoundedKeeps

(* The limits of BIGINT as doubles: powers of two *)
LEMMA BigLimits ==
    LET h == Half("BIGINT")
    IN  /\ HasBits(h, MantissaBits) /\ HasBits(-h, MantissaBits)
        /\ Rounded(MaxOf("BIGINT")) = h
        /\ Rounded(MinOf("BIGINT")) \in (-h)..h
<1>1. "BIGINT" \in DOMAIN Widths /\ Bits("BIGINT") = BigBits
  BY DEF Widths, Bits
<1>2. PICK m \in Nat, b \in Nat :
         m = MantissaBits /\ b = BigBits /\ m >= 5 /\ m + 2 <= b
  BY WidthsAssumption
<1>3. PICK h \in Nat, p \in Nat, q \in Nat, r \in Nat :
         /\ h = Half("BIGINT") /\ h = Pow2[b - 1] /\ p = Pow2[m] /\ q = Pow2[m - 1]
         /\ r = Pow2[b - 3]
  <2>1. b - 1 \in Nat /\ m - 1 \in Nat /\ b - 3 \in Nat
    BY <1>2
  <2> QED BY <1>1, <1>2, <2>1, Pow2Def DEF Half
<1>4. p = 2 * q /\ 2 * p <= h /\ h = 4 * r /\ r >= 2 /\ q >= 2
  <2>1. m - 1 \in Nat /\ m = (m - 1) + 1 /\ m < b - 1 /\ b - 1 \in Nat
    BY <1>2
  <2>2. p = 2 * q /\ 2 * p <= h
    BY <1>2, <1>3, <2>1, Pow2Def, Pow2Grows
  <2>3. b - 3 \in Nat /\ (b - 3) + 1 \in Nat /\ b - 1 = ((b - 3) + 1) + 1
    BY <1>2
  <2>4. h = 4 * r
    <3>1. Pow2[(b - 3) + 1] = 2 * r
      BY <1>3, <2>3, Pow2Def
    <3>2. h = 2 * Pow2[(b - 3) + 1]
      BY <1>3, <2>3, Pow2Def
    <3> QED BY <1>3, <3>1, <3>2
  <2>5. q >= 2 /\ r >= 2
    <3>1. 0 < m - 1 /\ 0 < b - 3
      BY <1>2
    <3>2. 2 * Pow2[0] <= q /\ 2 * Pow2[0] <= r
      BY <1>3, <2>1, <2>3, <3>1, Pow2Grows
    <3> QED BY <1>3, <3>2, Pow2Def
  <2> QED BY <2>2, <2>4, <2>5
<1>5. ASSUME NEW n \in {h, -h}, NEW bits \in {m, m - 1} PROVE HasBits(n, bits)
  <2>1. b - 1 \in 0..BigBits /\ b - 1 \in Nat /\ bits \in Nat /\ bits + (b - 1) \in Nat
    BY <1>2
  <2>2. n % Pow2[b - 1] = 0
    <3>1. h % h = 0 /\ (-h) % h = 0
      BY <1>4
    <3> QED BY <1>3, <3>1
  <2>3. Magnitude(n) = h
    BY <1>4 DEF Magnitude
  <2>4. h <= Pow2[bits + (b - 1)]
    <3>1. b - 1 < bits + (b - 1)
      BY <1>2
    <3>2. 2 * h <= Pow2[bits + (b - 1)]
      BY <1>3, <2>1, <3>1, Pow2Grows
    <3>3. Pow2[bits + (b - 1)] \in Nat
      BY <2>1, Pow2Def
    <3> QED BY <1>3, <3>2, <3>3
  <2> QED BY <2>1, <2>2, <2>3, <2>4 DEF HasBits
<1>6. PICK n \in Int : n = MaxOf("BIGINT") /\ n = h - 1
  BY <1>1, <1>3, Limits
<1>7. PICK k \in Int : /\ k = Rounded(n) /\ HasBits(k, m)
                       /\ \A w \in Int : HasBits(w, m) => (w <= n => w <= k) /\ (n <= w => k <= w)
  BY <1>2, RoundedFacts
<1>8. k <= h
  BY <1>3, <1>5, <1>6, <1>7
<1>9. ~HasBits(h - 1, m)
  <2> SUFFICES ASSUME NEW e \in 0..BigBits, (h - 1) % Pow2[e] = 0,
                      Magnitude(h - 1) <= Pow2[m + e]
               PROVE  FALSE
    BY DEF HasBits
  <2>1. CASE e = 0
    <3>1. Magnitude(h - 1) = h - 1 /\ Pow2[m + e] = p
      <4>1. m + e = m
        BY <1>2, <2>1
      <4>2. Magnitude(h - 1) = h - 1
        BY <1>3, <1>4 DEF Magnitude
      <4> QED BY <1>3, <4>1, <4>2
    <3> QED BY <1>3, <1>4, <3>1
  <2>2. CASE e # 0
    <3>1. e - 1 \in Nat /\ e = (e - 1) + 1
      BY <1>2, <2>2
    <3>2. PICK x \in Nat : x = Pow2[e - 1] /\ Pow2[e] = 2 * x /\ x > 0
      BY <3>1, Pow2Def
    <3>3. PICK y \in Int : h - 1 = (2 * x) * y
      <4>1. PICK d \in Nat : d = 2 * x /\ d > 0
        BY <3>2
      <4>2. PICK a \in Int, r0 \in Int : a = (h - 1) \div d /\ r0 = (h - 1) % d /\ h - 1 = d * a + r0
        BY <4>1, DivMod
      <4>3. r0 = 0
        BY <3>2, <4>1, <4>2
      <4>4. h - 1 = d * a
        BY <4>2, <4>3
      <4>5. h - 1 = (2 * x) * a
        BY ONLY <4>1, <4>4
      <4> QED BY <4>2, <4>5
    <3>4. PICK z \in Int : z = x * y
      BY <3>2
    <3>5. h - 1 = 2 * z
      BY <3>2, <3>3, <3>4
    <3> QED BY <1>4, <3>5
  <2> QED BY <2>1, <2>2
<1>10. ~HasBits(h - 2, m - 1)
  <2> SUFFICES ASSUME NEW e \in 0..BigBits, (h - 2) % Pow2[e] = 0,
                      Magnitude(h - 2) <= Pow2[m - 1 + e]
               PROVE  FALSE
    BY DEF HasBits
  <2>0. Magnitude(h - 2) = h - 2
    BY <1>3, <1>4 DEF Magnitude
  <2>1. CASE e = 0
    <3>1. Pow2[m - 1 + e] = q
      BY <1>2, <1>3, <2>1
    <3> QED BY <1>3, <1>4, <2>0, <3>1
  <2>2. CASE e = 1
    <3>1. Pow2[m - 1 + e] = p
      <4>1. m - 1 + e = m
        BY <1>2, <2>2
      <4> QED BY <1>3, <4>1
    <3> QED BY <1>3, <1>4, <2>0, <3>1
  <2>3. CASE e # 0 /\ e # 1
    <3>1. e - 2 \in Nat /\ e - 1 \in Nat /\ e - 1 = (e - 2) + 1 /\ e = (e - 1) + 1
      BY <1>2, <2>3
    <3>2. PICK x \in Nat : x = Pow2[e - 2] /\ Pow2[e] = 4 * x /\ x > 0
      <4>1. Pow2[e - 1] = 2 * Pow2[e - 2] /\ Pow2[e] = 2 * Pow2[e - 1]
        BY <3>1, Pow2Def
      <4>2. Pow2[e - 2] \in Nat /\ Pow2[e - 2] > 0
        BY <3>1, Pow2Def
      <4> QED BY <4>1, <4>2
    <3>3. PICK y \in Int : h - 2 = (4 * x) * y
      <4>1. PICK d \in Nat : d = 4 * x /\ d > 0
        BY <3>2
      <4>2. PICK a \in Int, r0 \in Int : a = (h - 2) \div d /\ r0 = (h - 2) % d /\ h - 2 = d * a + r0
        BY <4>1, DivMod
      <4>3. r0 = 0
        BY <3>2, <4>1, <4>2
      <4>4. h - 2 = d * a
        BY <4>2, <4>3
      <4>5. h - 2 = (4 * x) * a
        BY ONLY <4>1, <4>4
      <4> QED BY <4>2, <4>5
    <3>4. PICK z \in Int : z = x * y
      BY <3>2
    <3>5. h - 2 = 4 * z
      BY <3>2, <3>3, <3>4
    <3> QED BY <1>4, <3>5
  <2> QED BY <2>1, <2>2, <2>3
<1>11. k = h
  <2>1. Magnitude(n) = h - 1 /\ h - 1 \in Nat /\ h - 1 >= 1
    BY <1>3, <1>4, <1>6 DEF Magnitude
  <2>2. Near(n, 0) = {}
    <3>1. n - 0 = h - 1 /\ n + 0 = h - 1
      BY <1>6
    <3> QED BY <1>2, <1>9, <3>1 DEF Near
  <2>3. h \in Near(n, 1) /\ Near(n, 1) \subseteq {h - 2, h}
    <3>1. n - 1 = h - 2 /\ n + 1 = h
      BY <1>6
    <3> QED BY <1>2, <1>5, <3>1 DEF Near
  <2>4. Gap(n) = 1
    <3> DEFINE Least(d) == Near(n, d) # {} /\ \A c \in 0 .. d - 1 : Near(n, c) = {}
    <3>1. Gap(n) = CHOOSE d \in 0..Magnitude(n) : Least(d)
      BY DEF Gap
    <3>2. 1 \in 0..Magnitude(n) /\ Least(1)
      <4>1. 0 .. 1 - 1 = {0}
        OBVIOUS
      <4> QED BY <2>1, <2>2, <2>3, <4>1
    <3>3. ASSUME NEW d \in 0..Magnitude(n), Least(d) PROVE d = 1
      <4>1. d # 0
        BY <2>2, <3>3
      <4>2. d > 1 => 1 \in 0 .. d - 1
        BY <2>1
      <4>3. ~(d > 1)
        BY <2>3, <3>3, <4>2
      <4> QED BY <2>1, <4>1, <4>3
    <3> HIDE DEF Least
    <3> QED BY <3>1, <3>2, <3>3
  <2>5. PICK near : near = Near(n, 1) /\ k = Nearest(near)
    BY <1>7, <2>4 DEF Rounded
  <2>6. h \in near /\ near \subseteq {h - 2, h} /\ HasBits(h, m - 1)
    BY <1>5, <2>3, <2>5
  <2>7. k \in near /\ (HasBits(k, m - 1) \/ \A j \in near : ~HasBits(j, m - 1))
    BY <1>2, <2>5, <2>6 DEF Nearest
  <2> QED BY <1>10, <2>6, <2>7
<1>12. Rounded(MinOf("BIGINT")) \in (-h)..h
  <2>1. PICK l \in Int : l = MinOf("BIGINT") /\ l = 1 - h
    BY <1>1, <1>3, Limits
  <2>2. -h <= Rounded(l) /\ Rounded(l) <= h /\ Rounded(l) \in Int
    <3>1. -h \in Int /\ HasBits(-h, m) /\ HasBits(h, m) /\ -h <= l /\ l <= h
      BY <1>3, <1>4, <1>5, <2>1
    <3> QED BY <1>2, <1>3, <3>1, RoundedFacts
  <2> QED BY <2>1, <2>2
<1> QED BY <1>2, <1>3, <1>5, <1>6, <1>7, <1>11, <1>12

(* A rounded integer is on the same side of a double as the integer, or on it *)
LEMMA RoundedOrder ==
    ASSUME NEW n \in Int, NEW q \in Int \X (Nat \ {0}), IsDouble(q)
    PROVE  /\ QLess(<<Rounded(n), 1>>, q) => QLess(<<n, 1>>, q)
           /\ QLess(q, <<Rounded(n), 1>>) => QLess(q, <<n, 1>>)
<1>1. PICK a \in Int, d \in Nat : a = q[1] /\ d = q[2] /\ d > 0
  OBVIOUS
<1>2. PICK k \in Int : /\ k = Rounded(n)
                       /\ \A w \in Int : HasBits(w, MantissaBits) =>
                             (w <= n => w <= k) /\ (n <= w => k <= w)
  BY RoundedFacts
<1>3. PICK f \in Int, r \in Int : /\ f = a \div d /\ r = a % d
                                  /\ 0 <= r /\ r < d /\ a = d * f + r
  <2>1. a \div d \in Int /\ a % d \in 0..(d - 1) /\ a = d * (a \div d) + (a % d)
    BY <1>1, DivMod
  <2>2. a % d \in Int /\ 0 <= a % d /\ a % d < d
    BY <1>1, <2>1
  <2> QED BY <2>1, <2>2
<1>4. PICK kd \in Int, nd \in Int, fd \in Int : kd = k * d /\ nd = n * d /\ fd = d * f
  BY <1>1
<1>5. /\ QLess(<<k, 1>>, q) <=> kd < a
      /\ QLess(q, <<k, 1>>) <=> a < kd
      /\ QLess(<<n, 1>>, q) <=> nd < a
      /\ QLess(q, <<n, 1>>) <=> a < nd
  BY <1>1, <1>4 DEF QLess
<1>6. ASSUME NEW x \in Int, NEW xd \in Int, xd = x * d
      PROVE  (xd <= fd => x <= f) /\ (xd >= fd => x >= f) /\ (xd > fd => x > f)
             /\ (xd < fd + d => x <= f)
  <2>1. PICK y \in Int : y = x - f
    OBVIOUS
  <2>2. xd - fd = y * d
    BY <1>1, <1>4, <1>6, <2>1
  <2>3. (y >= 1 => y * d >= d) /\ (y <= -1 => y * d <= -d) /\ (y = 0 => y * d = 0)
    BY <1>1
  <2> QED BY <1>1, <1>4, <2>1, <2>2, <2>3
<1>7. CASE r = 0
  <2>1. HasBits(f, MantissaBits) /\ a = fd
    <3>1. q[1] % q[2] = 0 /\ q[1] \div q[2] = f
      BY <1>1, <1>3, <1>7
    <3>2. HasBits(f, MantissaBits)
      BY <3>1 DEF IsDouble
    <3> QED BY <1>3, <1>4, <1>7, <3>2
  <2>2. (f <= n => f <= k) /\ (n <= f => k <= f)
    BY <1>2, <2>1
  <2>3. (kd < a /\ nd >= a) => FALSE
    <3>1. kd < a => k < f
      BY <1>4, <1>6, <2>1
    <3>2. nd >= a => f <= n
      BY <1>4, <1>6, <2>1
    <3> QED BY <2>2, <3>1, <3>2
  <2>4. (a < kd /\ nd <= a) => FALSE
    <3>1. a < kd => f < k
      BY <1>4, <1>6, <2>1
    <3>2. nd <= a => n <= f
      BY <1>4, <1>6, <2>1
    <3> QED BY <2>2, <3>1, <3>2
  <2> QED BY <1>2, <1>4, <1>5, <2>3, <2>4
<1>8. CASE r # 0
  <2>1. PICK p \in Nat, pd \in Int : /\ p = Pow2[MantissaBits] /\ pd = p * d
                                     /\ Magnitude(a) <= pd
    <3>1. q[1] % q[2] # 0
      BY <1>1, <1>3, <1>8
    <3>2. Magnitude(q[1]) <= Pow2[MantissaBits] * q[2]
      BY <3>1 DEF IsDouble
    <3>3. Pow2[MantissaBits] \in Nat
      BY WidthsAssumption, Pow2Def
    <3>4. Pow2[MantissaBits] * d \in Int
      BY <1>1, <3>3
    <3> QED BY <1>1, <3>2, <3>3, <3>4
  <2>2. -p <= f /\ f + 1 <= p
    <3>1. -pd <= a /\ a <= pd
      BY <2>1 DEF Magnitude
    <3>2. fd < pd /\ -pd < fd + d
      <4>1. fd < a /\ a < fd + d
        <5>1. d * f \in Int /\ a = fd + r
          BY <1>3, <1>4
        <5> QED BY <1>3, <1>4, <1>8, <5>1
      <4> QED BY <2>1, <1>1, <1>4, <3>1, <4>1
    <3>3. fd < pd => f < p
      <4>1. pd <= fd => p <= f
        BY <1>6, <2>1
      <4>2. PICK y \in Int : y = p - f
        OBVIOUS
      <4>3. pd - fd = y * d
        BY <1>1, <1>4, <2>1, <4>2
      <4>4. y <= 0 => y * d <= 0
        BY <1>1
      <4> QED BY <1>4, <2>1, <4>2, <4>3, <4>4
    <3>4. -pd < fd + d => -p <= f
      <4>1. -pd = (-p) * d /\ -p \in Int /\ -pd \in Int
        BY <1>1, <2>1
      <4> QED BY <1>6, <4>1
    <3> QED BY <3>2, <3>3, <3>4
  <2>3. HasBits(f, MantissaBits) /\ HasBits(f + 1, MantissaBits)
    <3>1. Magnitude(f) <= p /\ Magnitude(f + 1) <= p /\ f + 1 \in Int
      BY <2>2 DEF Magnitude
    <3>2. MantissaBits \in Nat
      BY WidthsAssumption
    <3> QED BY <2>1, <3>1, <3>2, SmallHasBits
  <2>4. (f + 1 <= n => f + 1 <= k) /\ (n <= f => k <= f)
    BY <1>2, <2>3
  <2>5. fd < a /\ a < fd + d
    <3>1. a = fd + r
      BY <1>3, <1>4
    <3> QED BY <1>3, <1>4, <1>8, <3>1
  <2>6. (kd < a /\ nd >= a) => FALSE
    <3>1. kd < a => k <= f
      BY <1>1, <1>4, <1>6, <2>5
    <3>2. nd >= a => f < n
      BY <1>1, <1>4, <1>6, <2>5
    <3> QED BY <2>4, <3>1, <3>2
  <2>7. (a < kd /\ nd <= a) => FALSE
    <3>1. a < kd => f < k
      BY <1>1, <1>4, <1>6, <2>5
    <3>2. nd <= a => n <= f
      BY <1>1, <1>4, <1>6, <2>5
    <3> QED BY <2>4, <3>1, <3>2
  <2> QED BY <1>2, <1>4, <1>5, <2>6, <2>7
<1> QED BY <1>7, <1>8

-----------------------------------------------------------------------------
(* The number of a value *)
LEMMA ValueNum ==
    ASSUME NEW x, IsValue(x), x.type \in NumericTypes, ~x.null
    PROVE  Num(x) \in Int \X (Nat \ {0})
<1>1. CASE x.type = "DECIMAL"
  BY <1>1, ValueShape DEF Num
<1>2. CASE x.type \in IntegerTypes
  <2>1. x.type \in DOMAIN Widths /\ x.type # "DECIMAL"
    BY <1>2 DEF IntegerTypes, Widths
  <2>2. IntOf(x) \in Int
    BY <2>1, ValueShape, Limits
  <2> QED BY <2>1, <2>2 DEF Num
<1> QED BY <1>1, <1>2 DEF NumericTypes

(* What x is converted to for a comparison with y, *)
Side(x, y) == IF "DECIMAL" \in {x.type, y.type} THEN AsDouble(x) ELSE Num(x)

(* a number that is in the same order to the other side unless the one is   *)
(* taken for the other. *)
LEMMA SideFacts ==
    ASSUME NEW x, NEW y, IsValue(x), IsValue(y), ~x.null, ~y.null,
           x.type \in NumericTypes, y.type \in NumericTypes
    PROVE  /\ Side(x, y) \in Int \X (Nat \ {0})
           /\ TakenFor(x, y) => QEqual(Side(x, y), Side(y, x))
           /\ ~(TakenFor(x, y) \/ TakenFor(y, x)) =>
                 /\ QLess(Side(x, y), Side(y, x)) <=> QLess(Num(x), Num(y))
                 /\ QLess(Side(y, x), Side(x, y)) <=> QLess(Num(y), Num(x))
                 /\ QEqual(Side(x, y), Side(y, x)) <=> QEqual(Num(x), Num(y))
<1>1. ASSUME NEW z, IsValue(z), ~z.null, z.type \in IntegerTypes
      PROVE  /\ IntOf(z) \in Int /\ z.type # "DECIMAL"
             /\ Num(z) = <<IntOf(z), 1>> /\ AsDouble(z) = <<Rounded(IntOf(z)), 1>>
             /\ Rounded(IntOf(z)) \in Int
             /\ z.type # "BIGINT" => HasBits(IntOf(z), MantissaBits)
  <2>1. z.type \in DOMAIN Widths /\ z.type # "DECIMAL"
    BY <1>1 DEF IntegerTypes, Widths
  <2>2. IntOf(z) \in (-Half(z.type))..Half(z.type) /\ IntOf(z) \in Int
    <3>1. PICK h \in Nat : h = Half(z.type) /\ NullOf(z.type) = -h /\ MaxOf(z.type) = h - 1
      BY <2>1, Limits
    <3>2. IntOf(z) \in NullOf(z.type)..MaxOf(z.type)
      BY <1>1, <2>1, ValueShape
    <3> QED BY <3>1, <3>2
  <2>3. z.type # "BIGINT" => HasBits(IntOf(z), MantissaBits)
    BY <2>1, <2>2, NarrowHasBits
  <2>4. Rounded(IntOf(z)) \in Int
    BY <2>2, RoundedFacts
  <2> QED BY <2>1, <2>2, <2>3, <2>4 DEF Num, AsDouble
<1>2. ASSUME NEW z, IsValue(z), ~z.null, z.type = "DECIMAL"
      PROVE  z.v \in Int \X (Nat \ {0}) /\ IsDouble(z.v) /\ Num(z) = z.v /\ AsDouble(z) = z.v
  BY <1>2, ValueShape DEF Num, AsDouble
(* An integer beside a DECIMAL *)
<1>3. ASSUME NEW z, NEW w, IsValue(z), IsValue(w), ~z.null, ~w.null,
             z.type \in IntegerTypes, w.type = "DECIMAL"
      PROVE  LET k == Rounded(IntOf(z))
             IN  /\ Side(z, w) = <<k, 1>> /\ Side(w, z) = w.v /\ k \in Int
                 /\ TakenFor(z, w) => QEqual(<<k, 1>>, w.v) /\ QEqual(w.v, <<k, 1>>)
                 /\ ~TakenFor(z, w) =>
                       /\ QLess(<<k, 1>>, w.v) <=> QLess(Num(z), Num(w))
                       /\ QLess(w.v, <<k, 1>>) <=> QLess(Num(w), Num(z))
                       /\ QEqual(<<k, 1>>, w.v) <=> QEqual(Num(z), Num(w))
                       /\ QEqual(w.v, <<k, 1>>) <=> QEqual(Num(w), Num(z))
  <2> DEFINE n == IntOf(z)
             k == Rounded(n)
             q == w.v
  <2>1. /\ n \in Int /\ k \in Int /\ Num(z) = <<n, 1>> /\ AsDouble(z) = <<k, 1>>
        /\ z.type # "BIGINT" => HasBits(n, MantissaBits)
    BY <1>1, <1>3
  <2>2. q \in Int \X (Nat \ {0}) /\ IsDouble(q) /\ Num(w) = q /\ AsDouble(w) = q
    BY <1>2, <1>3
  <2>3. Side(z, w) = <<k, 1>> /\ Side(w, z) = q
    <3>1. "DECIMAL" \in {z.type, w.type} /\ "DECIMAL" \in {w.type, z.type}
      BY <1>3
    <3> QED BY <2>1, <2>2, <3>1 DEF Side
  <2>4. TakenFor(z, w) <=> /\ z.type = "BIGINT" /\ ~HasBits(n, MantissaBits)
                           /\ QEqual(<<k, 1>>, q)
    BY <1>3 DEF TakenFor
  <2>5. HasBits(n, MantissaBits) => k = n
    BY <2>1, RoundedKeeps
  <2>6. /\ QLess(<<k, 1>>, q) => QLess(<<n, 1>>, q)
        /\ QLess(q, <<k, 1>>) => QLess(q, <<n, 1>>)
    BY <2>1, <2>2, RoundedOrder
  <2> HIDE DEF n, k, q
  <2>7. PICK a \in Int, d \in Int, kd \in Int, nd \in Int :
           a = q[1] /\ d = q[2] /\ kd = k * d /\ nd = n * d
    BY <2>1, <2>2
  <2>8. /\ QLess(<<k, 1>>, q) <=> kd < a
        /\ QLess(q, <<k, 1>>) <=> a < kd
        /\ QLess(<<n, 1>>, q) <=> nd < a
        /\ QLess(q, <<n, 1>>) <=> a < nd
        /\ QEqual(<<k, 1>>, q) <=> kd = a
        /\ QEqual(q, <<k, 1>>) <=> kd = a
        /\ QEqual(<<n, 1>>, q) <=> nd = a
        /\ QEqual(q, <<n, 1>>) <=> nd = a
    BY <2>1, <2>7 DEF QLess, QEqual
  <2>9. ~TakenFor(z, w) => /\ kd < a <=> nd < a
                           /\ a < kd <=> a < nd
                           /\ kd = a <=> nd = a
    <3>1. CASE HasBits(n, MantissaBits)
      BY <2>5, <2>7, <3>1
    <3>2. CASE ~HasBits(n, MantissaBits)
      <4>1. TakenFor(z, w) <=> kd = a
        BY <2>1, <2>4, <2>8, <3>2
      <4>2. (kd < a => nd < a) /\ (a < kd => a < nd)
        BY <2>6, <2>8
      <4> QED BY <2>7, <4>1, <4>2
    <3> QED BY <3>1, <3>2
  <2>10. TakenFor(z, w) => kd = a
    BY <2>4, <2>8
  <2>11. k = Rounded(IntOf(z)) /\ q = w.v
    BY DEF k, q, n
  <2> QED BY <2>1, <2>2, <2>3, <2>8, <2>9, <2>10, <2>11
<1>4. CASE x.type = "DECIMAL" <=> y.type = "DECIMAL"
  <2>1. Side(x, y) = Num(x) /\ Side(y, x) = Num(y)
    BY <1>2, <1>4 DEF Side
  <2>2. ~TakenFor(x, y) /\ ~TakenFor(y, x)
    BY <1>4 DEF TakenFor
  <2> QED BY <2>1, <2>2, ValueNum
<1>5. CASE x.type \in IntegerTypes /\ y.type = "DECIMAL"
  <2>1. ~TakenFor(y, x)
    BY <1>5 DEF TakenFor
  <2>2. PICK k : k = Rounded(IntOf(x))
    OBVIOUS
  <2>3. <<k, 1>> \in Int \X (Nat \ {0}) /\ y.v \in Int \X (Nat \ {0})
    BY <1>2, <1>3, <1>5, <2>2
  <2> QED BY <1>3, <1>5, <2>1, <2>2, <2>3
<1>6. CASE y.type \in IntegerTypes /\ x.type = "DECIMAL"
  <2>1. ~TakenFor(x, y)
    BY <1>6 DEF TakenFor
  <2>2. x.v \in Int \X (Nat \ {0})
    BY <1>2, <1>6
  <2> QED BY <1>3, <1>6, <2>1, <2>2
<1> QED BY <1>4, <1>5, <1>6 DEF NumericTypes

(* The comparison of two numbers: the checks before the macro *)
LEMMA CompareNumbers ==
    ASSUME NEW l, NEW r, IsValue(l), IsValue(r),
           l.type \in NumericTypes, r.type \in NumericTypes, NEW op
    PROVE  /\ (l.null \/ r.null) => Compare(op, l, r) = CmpNull
           /\ (~l.null /\ ~r.null) => Compare(op, l, r) = QRelates(op, Side(l, r), Side(r, l))
<1>1. Operand(l, r) = r
  BY DEF Operand
<1>2. ~IsError(r)
  BY DEF IsError, NumericTypes, IntegerTypes
<1>3. PICK f : f = QRelates(op, Side(l, r), Side(r, l))
  OBVIOUS
<1>4. IF l.type = "DECIMAL" THEN DecimalCompareFunc(op, l, r) = f ELSE IntCompareFunc(op, l, r) = f
  <2>1. CASE l.type = "DECIMAL"
    <3>1. Side(l, r) = l.v /\ Side(r, l) = AsDouble(r)
      BY <2>1 DEF Side, AsDouble
    <3> QED BY <1>2, <1>3, <2>1, <3>1 DEF DecimalCompareFunc
  <2>2. CASE l.type # "DECIMAL"
    <3>1. IF r.type = "DECIMAL" THEN Side(l, r) = AsDouble(l) /\ Side(r, l) = r.v
                                ELSE Side(l, r) = Num(l) /\ Side(r, l) = Num(r)
      BY <2>2 DEF Side, AsDouble
    <3> QED BY <1>2, <1>3, <2>2, <3>1 DEF IntCompareFunc
  <2> QED BY <2>1, <2>2
<1>5. Compare(op, l, r) = Comparing(l, r, f)
  BY <1>1, <1>4 DEF Compare, CompareWith, TinyintCompare, SmallintCompare, IntegerCompare,
     BigintCompare, DecimalCompare, TinyintCompareFunc, SmallintCompareFunc,
     IntegerCompareFunc, BigintCompareFunc, NumericTypes, IntegerTypes
<1>6. CheckComparable(l, r)
  BY DEF CheckComparable, NumericTypes, IntegerTypes
<1>7. l.null \in BOOLEAN /\ r.null \in BOOLEAN
  BY ValueShape
<1> QED BY <1>3, <1>5, <1>6, <1>7 DEF Comparing

(* The result of a comparison is true or false, and the same from the other *)
(* side                                                                    *)
LEMMA RelatesFacts ==
    ASSUME NEW p \in Int \X (Nat \ {0}), NEW q \in Int \X (Nat \ {0}), NEW op \in CompareOps
    PROVE  /\ QRelates(op, p, q) \in {CmpTrue, CmpFalse}
           /\ QRelates(op, p, q) = QRelates(Mirror(op), q, p)
           /\ QRelates("LessThan", p, q) = CmpTrue <=> QLess(p, q)
           /\ QRelates("LessThanEquals", p, q) = CmpTrue <=> ~QLess(q, p)
           /\ QRelates("GreaterThanEquals", p, q) = CmpTrue <=> ~QLess(p, q)
<1>1. CmpTrue # CmpFalse
  BY DEF CmpTrue, CmpFalse, CmpBool
<1>2. PICK a \in Int, b \in Int : a = p[1] * q[2] /\ b = q[1] * p[2]
  OBVIOUS
<1>3. /\ QLess(p, q) <=> a < b
      /\ QLess(q, p) <=> b < a
      /\ QEqual(p, q) <=> a = b
      /\ QEqual(q, p) <=> b = a
  BY <1>2 DEF QLess, QEqual
<1>4. \A o \in CompareOps :
         /\ Relates(o, QLess(p, q), QEqual(p, q)) <=> Relates(o, a < b, a = b)
         /\ Relates(o, QLess(q, p), QEqual(q, p)) <=> Relates(o, b < a, b = a)
  BY <1>3 DEF Relates, CompareOps
<1>5. Mirror(op) \in CompareOps
  BY DEF Mirror, CompareOps
<1>6. Relates(op, a < b, a = b) <=> Relates(Mirror(op), b < a, b = a)
  <2>1. (a < b \/ a = b) <=> ~(b < a)
    OBVIOUS
  <2>2. CASE op \in {"Equals", "NotEquals"}
    BY <2>2 DEF Relates, Mirror
  <2>3. CASE op \in {"LessThan", "GreaterThan"}
    BY <2>1, <2>3 DEF Relates, Mirror
  <2>4. CASE op \in {"LessThanEquals", "GreaterThanEquals"}
    BY <2>1, <2>4 DEF Relates, Mirror
  <2> QED BY <2>2, <2>3, <2>4 DEF CompareOps
<1>7. \A o \in CompareOps :
         /\ QRelates(o, p, q) = IF Relates(o, a < b, a = b) THEN CmpTrue ELSE CmpFalse
         /\ QRelates(o, q, p) = IF Relates(o, b < a, b = a) THEN CmpTrue ELSE CmpFalse
  BY <1>4 DEF QRelates, GetCmpBool
<1>8. QRelates("LessThan", p, q) = CmpTrue <=> QLess(p, q)
  BY <1>1, <1>3, <1>7 DEF Relates, CompareOps
<1>9. QRelates("LessThanEquals", p, q) = CmpTrue <=> ~QLess(q, p)
  BY <1>1, <1>3, <1>7 DEF Relates, CompareOps
<1>10. QRelates("GreaterThanEquals", p, q) = CmpTrue <=> ~QLess(p, q)
  BY <1>1, <1>3, <1>7 DEF Relates, CompareOps
<1> QED BY <1>5, <1>6, <1>7, <1>8, <1>9, <1>10

(* Min and Max of two numbers *)
LEMMA ChoosingNumbers ==
    ASSUME NEW l, NEW r, IsValue(l), IsValue(r), ~l.null, ~r.null,
           l.type \in NumericTypes, r.type \in NumericTypes, NEW op \in CompareOps
    PROVE  Choosing(op, l, r) = IF QRelates(op, Side(l, r), Side(r, l)) = CmpTrue THEN l ELSE r
<1>1. PICK c : c = QRelates(op, Side(l, r), Side(r, l))
  OBVIOUS
<1>2. Compare(op, l, r) = c
  BY <1>1, CompareNumbers
<1>3. c \in {CmpTrue, CmpFalse}
  BY <1>1, SideFacts, RelatesFacts
<1>4. ~IsError(c)
  BY <1>3 DEF IsError, CmpTrue, CmpFalse, CmpBool
<1>5. CheckComparable(l, r)
  BY DEF CheckComparable, NumericTypes, IntegerTypes
<1>6. Choosing(op, l, r) = Then(c, LAMBDA d : IF d = CmpTrue THEN l ELSE r)
  BY <1>2, <1>5 DEF Choosing, Then
<1> QED BY <1>1, <1>4, <1>6 DEF Then

(* The comparisons of two numbers of any types are the order of their values, *)
(* from either side, and Min and Max follow it; only a BIGINT that no double  *)
(* holds and the DECIMAL it is rounded to compare as equal (the COMPARE_FUNC  *)
(* macros of tinyint_type.cpp to decimal_type.cpp)                           *)
THEOREM ComparisonsAreOrder == Spec => []ComparisonsAgree
<1>1. CallInv => ComparisonsAgree
  <2> SUFFICES ASSUME CallInv, AreNumbers PROVE ComparisonsAgree
    BY DEF ComparisonsAgree
  <2>1. /\ IsValue(left) /\ IsValue(right)
        /\ left.type \in NumericTypes /\ right.type \in NumericTypes
        /\ left.null \in BOOLEAN /\ right.null \in BOOLEAN
    BY ValueShape DEF CallInv, AreNumbers
  <2>0. ASSUME ~left.null, ~right.null
        PROVE  \E p \in Int \X (Nat \ {0}), q \in Int \X (Nat \ {0}) :
                  /\ p = Side(left, right) /\ q = Side(right, left)
                  /\ Confused => QEqual(p, q)
                  /\ ~Confused => /\ QLess(p, q) <=> QLess(Num(left), Num(right))
                                  /\ QLess(q, p) <=> QLess(Num(right), Num(left))
                                  /\ QEqual(p, q) <=> QEqual(Num(left), Num(right))
    <3>1. PICK p \in Int \X (Nat \ {0}), q \in Int \X (Nat \ {0}) :
             /\ p = Side(left, right) /\ q = Side(right, left)
             /\ TakenFor(left, right) => QEqual(p, q)
             /\ TakenFor(right, left) => QEqual(q, p)
      BY <2>0, <2>1, SideFacts
    <3>2. QEqual(q, p) => QEqual(p, q)
      BY DEF QEqual
    <3>3. ~Confused => /\ QLess(p, q) <=> QLess(Num(left), Num(right))
                       /\ QLess(q, p) <=> QLess(Num(right), Num(left))
                       /\ QEqual(p, q) <=> QEqual(Num(left), Num(right))
      BY <2>0, <2>1, <3>1, SideFacts DEF Confused
    <3> QED BY <3>1, <3>2, <3>3 DEF Confused
  <2>2. ASSUME call[1] = "Compare"
        PROVE  /\ (result = CmpNull) <=> (left.null \/ right.null)
               /\ result = Compare(Mirror(call[2]), right, left)
               /\ (~left.null /\ ~right.null) =>
                     result = IF Confused THEN GetCmpBool(Relates(call[2], FALSE, TRUE))
                                          ELSE QRelates(call[2], Num(left), Num(right))
    <3>1. PICK op \in CompareOps : call = <<"Compare", op>> /\ result = Compare(op, left, right)
      BY <2>2 DEF CallInv, Idle
    <3>2. call[2] = op
      BY <3>1
    <3>3. CASE left.null \/ right.null
      BY <2>1, <3>1, <3>2, <3>3, CompareNumbers
    <3>4. CASE ~left.null /\ ~right.null
      <4>1. PICK p \in Int \X (Nat \ {0}), q \in Int \X (Nat \ {0}) :
               /\ p = Side(left, right) /\ q = Side(right, left)
               /\ Confused => QEqual(p, q)
               /\ ~Confused => /\ QLess(p, q) <=> QLess(Num(left), Num(right))
                               /\ QLess(q, p) <=> QLess(Num(right), Num(left))
                               /\ QEqual(p, q) <=> QEqual(Num(left), Num(right))
        BY <2>0, <3>4
      <4>2. /\ result = QRelates(op, p, q)
            /\ Compare(Mirror(op), right, left) = QRelates(Mirror(op), q, p)
        BY <2>1, <3>1, <3>4, <4>1, CompareNumbers
      <4>3. result \in {CmpTrue, CmpFalse} /\ result = QRelates(Mirror(op), q, p)
        BY <4>2, RelatesFacts
      <4>4. result # CmpNull
        BY <4>3 DEF CmpTrue, CmpFalse, CmpNull, CmpBool
      <4>5. ~Confused => QRelates(op, p, q) = QRelates(op, Num(left), Num(right))
        <5>1. ASSUME ~Confused
              PROVE  Relates(op, QLess(p, q), QEqual(p, q))
                        <=> Relates(op, QLess(Num(left), Num(right)), QEqual(Num(left), Num(right)))
          BY <4>1, <5>1 DEF Relates, CompareOps
        <5> QED BY <5>1 DEF QRelates, GetCmpBool
      <4>6. Confused => QRelates(op, p, q) = GetCmpBool(Relates(op, FALSE, TRUE))
        <5>1. QEqual(p, q) => ~QLess(p, q)
          <6>1. PICK a \in Int, b \in Int : a = p[1] * q[2] /\ b = q[1] * p[2]
            BY <4>1
          <6> QED BY <6>1 DEF QEqual, QLess
        <5>2. ASSUME Confused
              PROVE  Relates(op, QLess(p, q), QEqual(p, q)) <=> Relates(op, FALSE, TRUE)
          BY <4>1, <5>1, <5>2 DEF Relates, CompareOps
        <5> QED BY <5>2 DEF QRelates, GetCmpBool
      <4> QED BY <3>2, <3>4, <4>2, <4>3, <4>4, <4>5, <4>6
    <3> QED BY <2>1, <3>3, <3>4
  <2>3. ASSUME call[1] \in {"Min", "Max"}, ~left.null, ~right.null
        PROVE  /\ result \in {left, right}
               /\ ~Confused => \A x \in {left, right} :
                     IF call[1] = "Min" THEN ~QLess(Num(x), Num(result))
                                        ELSE ~QLess(Num(result), Num(x))
    <3>1. PICK p \in Int \X (Nat \ {0}), q \in Int \X (Nat \ {0}) :
             /\ p = Side(left, right) /\ q = Side(right, left)
             /\ ~Confused => /\ QLess(p, q) <=> QLess(Num(left), Num(right))
                             /\ QLess(q, p) <=> QLess(Num(right), Num(left))
      BY <2>0, <2>3
    <3>2. PICK a \in Int, b \in Int : a = p[1] * q[2] /\ b = q[1] * p[2]
      BY <3>1
    <3>3. /\ ~(QLess(p, q) /\ QLess(q, p))
          /\ ~QLess(Num(left), Num(left)) /\ ~QLess(Num(right), Num(right))
      <4>1. ~(QLess(p, q) /\ QLess(q, p))
        BY <3>1, <3>2 DEF QLess
      <4>2. Num(left) \in Int \X (Nat \ {0}) /\ Num(right) \in Int \X (Nat \ {0})
        BY <2>1, <2>3, ValueNum
      <4>3. ASSUME NEW c \in Int \X (Nat \ {0}) PROVE ~QLess(c, c)
        <5>1. PICK e \in Int : e = c[1] * c[2]
          OBVIOUS
        <5> QED BY <5>1 DEF QLess
      <4> QED BY <4>1, <4>2, <4>3
    <3>4. CASE call[1] = "Min"
      <4>1. result = ValueMin(left, right)
        BY <3>4 DEF CallInv, Idle
      <4>2. PICK op \in {"LessThan", "LessThanEquals"} : result = Choosing(op, left, right)
        BY <2>1, <4>1 DEF ValueMin, IntegerParentMin, DecimalMin, NumericTypes, IntegerTypes
      <4>3. result = IF QRelates(op, p, q) = CmpTrue THEN left ELSE right
        BY <2>1, <2>3, <3>1, <4>2, ChoosingNumbers DEF CompareOps
      <4>4. /\ QRelates("LessThan", p, q) = CmpTrue <=> QLess(p, q)
            /\ QRelates("LessThanEquals", p, q) = CmpTrue <=> ~QLess(q, p)
        BY RelatesFacts DEF CompareOps
      <4>5. \/ result = left /\ ~QLess(q, p)
            \/ result = right /\ ~QLess(p, q)
        BY <3>3, <4>2, <4>3, <4>4
      <4> QED BY <3>1, <3>3, <3>4, <4>5
    <3>5. CASE call[1] = "Max"
      <4>1. result = ValueMax(left, right)
        BY <3>5 DEF CallInv, Idle
      <4>2. result = Choosing("GreaterThanEquals", left, right)
        BY <2>1, <4>1 DEF ValueMax, IntegerParentMax, DecimalMax, NumericTypes, IntegerTypes
      <4>3. result = IF QRelates("GreaterThanEquals", p, q) = CmpTrue THEN left ELSE right
        BY <2>1, <2>3, <3>1, <4>2, ChoosingNumbers DEF CompareOps
      <4>4. QRelates("GreaterThanEquals", p, q) = CmpTrue <=> ~QLess(p, q)
        BY RelatesFacts DEF CompareOps
      <4>5. \/ result = left /\ ~QLess(p, q)
            \/ result = right /\ ~QLess(q, p)
        BY <3>3, <4>3, <4>4
      <4> QED BY <3>1, <3>3, <3>5, <4>5
    <3> QED BY <2>3, <3>4, <3>5
  <2> QED BY <2>2, <2>3 DEF ComparisonsAgree
<1> QED BY <1>1, CallsKeepInv, PTL
-----------------------------------------------------------------------------
(* A value that fits a type is kept by its constructors *)
LEMMA IntValueFits ==
    ASSUME NEW T \in DOMAIN Widths, NEW n \in NullOf(T)..MaxOf(T)
    PROVE  /\ n \in Int /\ Wrap(n, Bits(T)) = n
           /\ IntValue(T, n) = IntField(T, n)
           /\ IntValue(T, Wrap(n, Bits(T))) = IntField(T, n)
<1>1. PICK h \in Nat : h = Half(T) /\ h > 0 /\ n \in (-h)..(h - 1)
  BY Limits
<1>2. n \in Int /\ Wrap(n, Bits(T)) = n
  BY <1>1, WrapFacts DEF Half
<1> QED BY <1>2 DEF IntValue

(* A fraction between two integers is truncated to one between them, and to *)
(* the upper one from there only                                            *)
LEMMA TruncBetween ==
    ASSUME NEW a \in Int, NEW b \in Int, b > 0, NEW q \in Int \X (Nat \ {0}),
           ~QLess(q, <<a, 1>>), ~QLess(<<b, 1>>, q)
    PROVE  /\ QTrunc(q) \in a..b
           /\ QEqual(<<b, 1>>, q) <=> QTrunc(q) = b
<1>2. PICK n \in Int, d \in Nat : n = q[1] /\ d = q[2] /\ d > 0
  OBVIOUS
<1>3. PICK e \in Int : e = b * d
  OBVIOUS
<1>4. PICK g \in Int : g = a * d
  OBVIOUS
<1>5. n >= g /\ n <= e /\ (QEqual(<<b, 1>>, q) <=> e = n)
  BY <1>2, <1>3, <1>4 DEF QLess, QEqual
<1>6. QTrunc(q) = Quot(n, d) /\ d \in Int /\ d # 0 /\ Magnitude(d) = d
  BY <1>2 DEF QTrunc, Magnitude
<1>7. /\ Quot(n, d) \in Int
      /\ \E r \in Int : n = d * Quot(n, d) + r /\ Magnitude(r) < Magnitude(d)
  BY <1>6, QuotFacts
<1>8. PICK t \in Int, r \in Int : t = QTrunc(q) /\ n = d * t + r /\ Magnitude(r) < d
  BY <1>6, <1>7
<1>9. t <= b
  <2>1. PICK z \in Int : z = d * t
    BY <1>2
  <2>2. t >= b + 1 => z >= e + d
    BY <1>2, <1>3, <2>1
  <2> QED BY <1>2, <1>5, <1>8, <2>1, <2>2 DEF Magnitude
<1>10. t >= a
  <2>1. PICK z \in Int : z = d * t
    BY <1>2
  <2>2. t <= a - 1 => z <= g - d
    BY <1>2, <1>4, <2>1
  <2> QED BY <1>2, <1>5, <1>8, <2>1, <2>2 DEF Magnitude
<1>11. e = n => t = b
  <2>1. Quot(b * d, d) = b
    BY <1>2, QuotExact
  <2> QED BY <1>3, <1>6, <1>8, <2>1
<1>12. t = b => e = n
  <2>1. SUFFICES ASSUME t = b PROVE e = n
    OBVIOUS
  <2>2. d * t = e /\ e >= d
    BY <1>2, <1>3, <2>1
  <2>3. n > 0
    BY <1>8, <2>2 DEF Magnitude
  <2>4. t = n \div d
    <3>1. ~(n < 0) /\ ~(d < 0) /\ Magnitude(n) = n
      BY <1>2, <2>3 DEF Magnitude
    <3>2. Quot(n, d) = Magnitude(n) \div Magnitude(d)
      BY <3>1 DEF Quot
    <3> QED BY <1>6, <1>8, <3>1, <3>2
  <2>5. n = d * (n \div d) + (n % d) /\ n % d \in 0..(d - 1)
    BY <1>2, DivMod
  <2>6. n = e + (n % d)
    BY <2>2, <2>4, <2>5
  <2> QED BY <1>5, <2>5, <2>6
<1> QED BY <1>5, <1>8, <1>9, <1>10, <1>11, <1>12

(* The limits the conversions compare with, as doubles, leave what is left  *)
(* of a fraction within its type, but for the two ends of BIGINT            *)
LEMMA DecimalLimits ==
    ASSUME NEW T \in IntegerTypes, NEW q \in Int \X (Nat \ {0}), ~BeyondLimits(q, T)
    PROVE  /\ QTrunc(q) \in NullOf(T)..(MaxOf(T) + 1)
           /\ T # "BIGINT" => QTrunc(q) \in Within(T)
           /\ T = "BIGINT" =>
                 (QEqual(<<Rounded(MaxOf(T)), 1>>, q) <=> QTrunc(q) = MaxOf(T) + 1)
<1>1. T \in DOMAIN Widths
  BY DEF IntegerTypes, Widths
<1>2. PICK h \in Nat : /\ h = Half(T) /\ h >= 2
                       /\ NullOf(T) = -h /\ MinOf(T) = 1 - h /\ MaxOf(T) = h - 1
  BY <1>1, Limits
<1>3. ~QLess(q, <<Rounded(MinOf(T)), 1>>) /\ ~QLess(<<Rounded(MaxOf(T)), 1>>, q)
  BY DEF BeyondLimits
<1>4. CASE T # "BIGINT"
  <2>1. Rounded(1 - h) = 1 - h /\ Rounded(h - 1) = h - 1
    <3>1. 1 - h \in (-Half(T))..Half(T) /\ h - 1 \in (-Half(T))..Half(T)
      BY <1>2
    <3> QED BY <1>1, <1>4, <3>1, NarrowHasBits
  <2>2. 1 - h \in Int /\ h - 1 \in Int /\ h - 1 > 0
    BY <1>2
  <2>3. QTrunc(q) \in (1 - h)..(h - 1)
    BY <1>2, <1>3, <2>1, <2>2, TruncBetween
  <2> QED BY <1>2, <1>4, <2>3 DEF Within
<1>5. CASE T = "BIGINT"
  <2>1. PICK l \in Int : l = Rounded(MinOf(T)) /\ l \in (-h)..h
    BY <1>2, <1>5, BigLimits
  <2>2. Rounded(MaxOf(T)) = h
    BY <1>2, <1>5, BigLimits
  <2>3. h \in Int /\ h > 0
    BY <1>2
  <2>4. QTrunc(q) \in l..h /\ (QEqual(<<h, 1>>, q) <=> QTrunc(q) = h)
    BY <1>3, <2>1, <2>2, <2>3, TruncBetween
  <2> QED BY <1>2, <1>5, <2>1, <2>2, <2>4
<1> QED BY <1>4, <1>5

(* The factory and the types convert to an integer type by different code *)
LEMMA FactoryIntAgrees ==
    ASSUME NEW x, IsValue(x), NEW T \in IntegerTypes,
           NEW u \in UndefinedCasts,
           NEW f, f = FactoryCastAs(x, T, u), NEW o, o = CastAs(x, T)
    PROVE  \/ f = o
           \/ x.type = "DECIMAL" /\ T = "BIGINT" /\ o = OutOfRange
                 /\ QTrunc(x.v) = MaxOf(T) + 1
           \/ x.null /\ o = Throws /\ f = GetNullValueByType(T)
<1>1. T \in DOMAIN Widths /\ T \in NumericTypes
  BY DEF IntegerTypes, NumericTypes, Widths
<1> DEFINE Top(n) == T = "BIGINT" /\ n > MaxOf("BIGINT")
           Made(n) == IntValue(T, Wrap(IF Top(n) THEN u ELSE n, Bits(T)))
<1>2. \A n \in NullOf(T)..MaxOf(T) : Made(n) = IntValue(T, n) /\ Made(n) = IntField(T, n)
  <2> SUFFICES ASSUME NEW n \in NullOf(T)..MaxOf(T)
               PROVE  Made(n) = IntValue(T, n) /\ Made(n) = IntField(T, n)
    OBVIOUS
  <2>1. ~Top(n)
    BY <1>1, Limits
  <2>2. Made(n) = IntValue(T, Wrap(n, Bits(T)))
    BY <2>1
  <2> HIDE DEF Made
  <2> QED BY <1>1, <2>2, IntValueFits
<1>3. FactoryCastAs(x, T, u) = FactoryInt(x, T, Made)
  <2>1. /\ Bits("TINYINT") = TinyBits /\ Bits("SMALLINT") = SmallBits
        /\ Bits("INTEGER") = IntBits /\ Bits("BIGINT") = BigBits
    BY DEF Bits, Widths
  <2>2. CASE T = "TINYINT"
    BY <2>1, <2>2 DEF FactoryCastAs, CastAsTinyInt, FactoryInt, GetTinyIntValue, Value8
  <2>3. CASE T = "SMALLINT"
    BY <2>1, <2>3 DEF FactoryCastAs, CastAsSmallInt, FactoryInt, GetSmallIntValue, Value16
  <2>4. CASE T = "INTEGER"
    BY <2>1, <2>4 DEF FactoryCastAs, CastAsInteger, FactoryInt, GetIntegerValue, Value32
  <2>5. CASE T = "BIGINT"
    BY <2>1, <2>5 DEF FactoryCastAs, CastAsBigInt, FactoryInt, GetBigIntOr, GetBigIntValue,
       Value64
  <2> QED BY <2>2, <2>3, <2>4, <2>5 DEF IntegerTypes
<1>4. GetNullValueByType(T) = IntValue(T, NullOf(T)) /\ Made(NullOf(T)) = IntValue(T, NullOf(T))
  <2>1. NullOf(T) \in NullOf(T)..MaxOf(T)
    BY <1>1, Limits
  <2>2. Made(NullOf(T)) = IntValue(T, NullOf(T))
    BY <1>2, <2>1
  <2> HIDE DEF Made
  <2> QED BY <2>2 DEF GetNullValueByType, IntegerTypes
<1> HIDE DEF Made
<1>5. x.null \in BOOLEAN /\ x.type \in TypeIds
  BY ValueShape
<1>6. CASE x.type = "BOOLEAN"
  <2>1. o = Throws
    BY <1>6 DEF CastAs, BooleanCastAs, IntegerTypes
  <2>2. f = Throws
    BY <1>1, <1>3, <1>6 DEF FactoryInt, IsCoercableFrom, NumericTypes, IntegerTypes
  <2> QED BY <2>1, <2>2
<1>7. CASE x.type \in IntegerTypes
  <2>1. o = IntCastAs(x, T)
    BY <1>7 DEF CastAs, TinyintCastAs, SmallintCastAs, IntegerCastAs, BigintCastAs, IntegerTypes
  <2>2. IsCoercableFrom(T, x.type)
    BY <1>1, <1>7 DEF IsCoercableFrom, NumericTypes, IntegerTypes
  <2>3. CASE x.null
    <3>1. o = GetNullValueByType(T)
      BY <1>1, <2>1, <2>3 DEF IntCastAs
    <3>2. f = Made(NullOf(T))
      BY <1>3, <2>2, <2>3 DEF FactoryInt
    <3> QED BY <1>4, <3>1, <3>2
  <2>4. CASE ~x.null
    <3>1. o = IF FitsIn(IntOf(x), T) THEN IntValue(T, IntOf(x)) ELSE OutOfRange
      BY <1>1, <2>1, <2>4 DEF IntCastAs, ToInteger, IntegerTypes
    <3>2. f = IF FitsIn(IntOf(x), T) THEN Made(IntOf(x)) ELSE OutOfRange
      BY <1>3, <1>7, <2>2, <2>4 DEF FactoryInt, IntegerTypes
    <3>3. FitsIn(IntOf(x), T) => IntOf(x) \in NullOf(T)..MaxOf(T)
      BY <1>1, Limits DEF FitsIn
    <3>4. FitsIn(IntOf(x), T) => Made(IntOf(x)) = IntValue(T, IntOf(x))
      BY <1>2, <3>3
    <3> QED BY <3>1, <3>2, <3>4
  <2> QED BY <1>5, <2>3, <2>4
<1>8. CASE x.type = "DECIMAL"
  <2>1. o = DecimalCastAs(x, T)
    BY <1>8 DEF CastAs
  <2>2. IsCoercableFrom(T, x.type)
    BY <1>1, <1>8 DEF IsCoercableFrom, NumericTypes, IntegerTypes
  <2>3. CASE x.null
    <3>1. o = GetNullValueByType(T)
      BY <1>1, <2>1, <2>3 DEF DecimalCastAs, IntegerTypes
    <3>2. f = Made(NullOf(T))
      BY <1>3, <2>2, <2>3 DEF FactoryInt
    <3> QED BY <1>4, <3>1, <3>2
  <2>4. CASE ~x.null
    <3>1. PICK beyond, top : /\ beyond = BeyondLimits(x.v, T)
                             /\ top = (T = "BIGINT" /\ QEqual(<<Rounded(MaxOf(T)), 1>>, x.v))
      OBVIOUS
    <3>2. o = IF beyond \/ top THEN OutOfRange ELSE IntValue(T, QTrunc(x.v))
      BY <1>1, <2>1, <2>4, <3>1 DEF DecimalCastAs, IntegerTypes
    <3>3. f = IF beyond THEN OutOfRange ELSE Made(QTrunc(x.v))
      BY <1>3, <1>8, <2>2, <2>4, <3>1 DEF FactoryInt, IntegerTypes
    <3>4. ~beyond => /\ QTrunc(x.v) \in NullOf(T)..(MaxOf(T) + 1)
                     /\ T # "BIGINT" => QTrunc(x.v) \in Within(T)
                     /\ T = "BIGINT" => (top <=> QTrunc(x.v) = MaxOf(T) + 1)
      BY <1>8, <2>4, <3>1, ValueShape, DecimalLimits
    <3>5. ~beyond /\ ~top => QTrunc(x.v) \in NullOf(T)..MaxOf(T)
      BY <1>1, <3>4, Limits DEF Within
    <3>6. ~beyond /\ ~top => Made(QTrunc(x.v)) = IntValue(T, QTrunc(x.v))
      BY <1>2, <3>5
    <3>7. CASE beyond
      BY <3>2, <3>3, <3>7
    <3>8. CASE ~beyond /\ ~top
      BY <3>2, <3>3, <3>6, <3>8
    <3>9. CASE ~beyond /\ top
      BY <1>8, <3>1, <3>2, <3>4, <3>9
    <3> QED BY <3>7, <3>8, <3>9
  <2> QED BY <1>5, <2>3, <2>4
<1>9. CASE x.type = "VARCHAR"
  <2>1. o = VarlenCastAs(x, T) /\ T # "VARCHAR"
    BY <1>9 DEF CastAs, IntegerTypes
  <2>2. IsCoercableFrom(T, x.type)
    BY <1>1, <1>9 DEF IsCoercableFrom, NumericTypes, IntegerTypes
  <2>3. CASE x.null
    <3>1. o = Throws
      BY <2>1, <2>3 DEF VarlenCastAs
    <3>2. f = Made(NullOf(T))
      BY <1>3, <2>2, <2>3 DEF FactoryInt
    <3> QED BY <1>4, <2>3, <3>1, <3>2
  <2>4. CASE ~x.null
    <3>1. o = TextAsInteger(ValueToString(x), T)
      BY <2>1, <2>4 DEF VarlenCastAs, TextCastAs, IntegerTypes
    <3>2. f = TextAsInteger(ValueToString(x), T)
      BY <1>3, <1>9, <2>2, <2>4 DEF FactoryInt, IntegerTypes
    <3> QED BY <3>1, <3>2
  <2> QED BY <1>5, <2>3, <2>4
<1> QED BY <1>5, <1>6, <1>7, <1>8, <1>9 DEF TypeIds, NumericTypes
(* The conversions of ValueFactory and of Type::CastAs agree for every value  *)
(* but in the three cases that TwoCastsAgree names (value_factory.h CastAs*,  *)
(* *_type.cpp CastAs)                                                        *)
THEOREM CastsAgree == Spec => []TwoCastsAgree
<1>1. CallInv => TwoCastsAgree
  <2> SUFFICES ASSUME CallInv, call[1] = "FactoryCastAs" PROVE TwoCastsAgree
    BY DEF TwoCastsAgree
  <2>1. PICK T \in TypeIds, u \in UndefinedCasts :
           call = <<"FactoryCastAs", T>> /\ result = FactoryCastAs(left, T, u)
    BY DEF CallInv, Idle
  <2>2. call[2] = T /\ IsValue(left) /\ left.null \in BOOLEAN /\ left.type \in TypeIds
    BY <2>1, ValueShape DEF CallInv
  <2>3. PICK o : o = CastAs(left, T)
    OBVIOUS
  <2>4. SUFFICES \/ result = o
                 \/ left.type = "DECIMAL" /\ T = "BIGINT" /\ o = OutOfRange
                       /\ QTrunc(left.v) = MaxOf(T) + 1
                 \/ left.type = "VARCHAR" /\ T = "VARCHAR" /\ ~left.null
                 \/ left.null /\ o = Throws /\ result = GetNullValueByType(T)
    BY <2>2, <2>3 DEF TwoCastsAgree
  <2>5. CASE T \in IntegerTypes
    BY <2>1, <2>2, <2>3, <2>5, FactoryIntAgrees
  <2>6. CASE T = "BOOLEAN"
    <3>1. result = CastAsBoolean(left)
      BY <2>1, <2>6 DEF FactoryCastAs
    <3>2. CASE left.type = "BOOLEAN"
      <4>1. o = left
        BY <2>3, <2>6, <3>2 DEF CastAs, BooleanCastAs
      <4>2. "BOOLEAN" \in DOMAIN Widths /\ Bits("BOOLEAN") = TinyBits
        BY DEF Widths, Bits
      <4>3. PICK n \in NullOf("BOOLEAN")..MaxOf("BOOLEAN") :
               n = IntOf(left) /\ left = IntField("BOOLEAN", n)
                  /\ (left.null <=> n = NullOf("BOOLEAN"))
        BY <2>2, <3>2, <4>2, ValueShape
      <4>4. IntValue("BOOLEAN", n) = left /\ Value8("BOOLEAN", n) = left
        BY <4>2, <4>3, IntValueFits DEF Value8
      <4>5. CASE left.null
        BY <3>1, <4>1, <4>3, <4>4, <4>5 DEF CastAsBoolean
      <4>6. CASE ~left.null
        BY <3>1, <3>2, <4>1, <4>3, <4>4, <4>6 DEF CastAsBoolean, NumericTypes, IntegerTypes
      <4> QED BY <2>2, <4>5, <4>6
    <3>3. CASE left.type \in NumericTypes
      <4>1. o = Throws
        BY <2>3, <2>6, <3>3 DEF CastAs, TinyintCastAs, SmallintCastAs, IntegerCastAs,
           BigintCastAs, IntCastAs, DecimalCastAs, NumericTypes, IntegerTypes
      <4>2. CASE left.null
        BY <2>6, <3>1, <4>1, <4>2 DEF CastAsBoolean, GetNullValueByType
      <4>3. CASE ~left.null
        BY <3>1, <3>3, <4>1, <4>3 DEF CastAsBoolean, NumericTypes, IntegerTypes
      <4> QED BY <2>2, <4>2, <4>3
    <3>4. CASE left.type = "VARCHAR"
      <4>1. o = VarlenCastAs(left, "BOOLEAN")
        BY <2>3, <2>6, <3>4 DEF CastAs
      <4>2. CASE left.null
        BY <2>6, <3>1, <4>1, <4>2 DEF CastAsBoolean, VarlenCastAs, GetNullValueByType
      <4>3. CASE ~left.null
        <5>1. o = TextAsBoolean(ValueToString(left))
          BY <4>1, <4>3 DEF VarlenCastAs, TextCastAs, IntegerTypes
        <5>2. result = TextAsBoolean(ValueToString(left))
          BY <3>1, <3>4, <4>3 DEF CastAsBoolean, NumericTypes, IntegerTypes
        <5> QED BY <5>1, <5>2
      <4> QED BY <2>2, <4>2, <4>3
    <3> QED BY <2>2, <3>2, <3>3, <3>4 DEF TypeIds
  <2>7. CASE T = "DECIMAL"
    <3>1. result = CastAsDecimal(left)
      BY <2>1, <2>7 DEF FactoryCastAs
    <3>2. CASE left.type = "BOOLEAN"
      BY <2>3, <2>7, <3>1, <3>2 DEF CastAs, BooleanCastAs, CastAsDecimal, IsCoercableFrom,
         NumericTypes, IntegerTypes
    <3>3. CASE left.type \in IntegerTypes
      <4>1. o = IntCastAs(left, "DECIMAL")
        BY <2>3, <2>7, <3>3 DEF CastAs, TinyintCastAs, SmallintCastAs, IntegerCastAs,
           BigintCastAs, IntegerTypes
      <4>2. IsCoercableFrom("DECIMAL", left.type) /\ left.type \in NumericTypes
        BY <3>3 DEF IsCoercableFrom, NumericTypes, IntegerTypes
      <4>3. CASE left.null
        BY <3>1, <4>1, <4>2, <4>3 DEF IntCastAs, CastAsDecimal, GetNullValueByType,
           NumericTypes, IntegerTypes
      <4>4. CASE ~left.null
        <5>1. o = DecimalValue(AsDouble(left))
          BY <4>1, <4>4 DEF IntCastAs, NumericTypes, IntegerTypes
        <5>2. result = DecimalValue(AsDouble(left))
          BY <3>1, <4>2, <4>4 DEF CastAsDecimal, NumericTypes, IntegerTypes
        <5> QED BY <5>1, <5>2
      <4> QED BY <2>2, <4>3, <4>4
    <3>4. CASE left.type = "DECIMAL"
      <4>1. o = left
        BY <2>3, <2>7, <3>4 DEF CastAs, DecimalCastAs, NumericTypes, IntegerTypes
      <4>2. IsCoercableFrom("DECIMAL", left.type) /\ left.type \in NumericTypes
        BY <3>4 DEF IsCoercableFrom, NumericTypes, IntegerTypes
      <4>3. CASE left.null
        BY <2>2, <3>1, <3>4, <4>1, <4>2, <4>3, ValueShape DEF CastAsDecimal
      <4>4. CASE ~left.null
        <5>1. result = DecimalValue(AsDouble(left))
          BY <3>1, <3>4, <4>2, <4>4 DEF CastAsDecimal
        <5> QED BY <2>2, <3>4, <4>1, <4>4, <5>1, ValueShape DEF AsDouble
      <4> QED BY <2>2, <4>3, <4>4
    <3>5. CASE left.type = "VARCHAR"
      <4>1. o = VarlenCastAs(left, "DECIMAL")
        BY <2>3, <2>7, <3>5 DEF CastAs
      <4>2. IsCoercableFrom("DECIMAL", left.type)
        BY <3>5 DEF IsCoercableFrom, NumericTypes, IntegerTypes
      <4>3. CASE left.null
        BY <2>7, <3>1, <4>1, <4>2, <4>3 DEF CastAsDecimal, VarlenCastAs, GetNullValueByType
      <4>4. CASE ~left.null
        <5>1. o = Stod(ValueToString(left))
          BY <4>1, <4>4 DEF VarlenCastAs, TextCastAs, IntegerTypes
        <5>2. result = Stod(ValueToString(left))
          BY <3>1, <3>5, <4>2, <4>4 DEF CastAsDecimal, NumericTypes, IntegerTypes
        <5> QED BY <5>1, <5>2
      <4> QED BY <2>2, <4>3, <4>4
    <3> QED BY <2>2, <3>2, <3>3, <3>4, <3>5 DEF TypeIds, NumericTypes
  <2>8. CASE T = "VARCHAR"
    <3>1. result = CastAsVarchar(left)
      BY <2>1, <2>8 DEF FactoryCastAs
    <3>2. CASE left.null
      <4>1. result = NullVarchar
        BY <3>1, <3>2 DEF CastAsVarchar
      <4>2. left.type # "VARCHAR" => o = NullVarchar
        BY <2>2, <2>3, <2>8, <3>2 DEF CastAs, BooleanCastAs, TinyintCastAs, SmallintCastAs,
           IntegerCastAs, BigintCastAs, IntCastAs, DecimalCastAs, GetNullValueByType,
           TypeIds, NumericTypes, IntegerTypes
      <4>3. left.type = "VARCHAR" => o = left
        BY <2>3, <2>8 DEF CastAs, VarlenCastAs
      <4> QED BY <2>2, <3>2, <4>1, <4>2, <4>3, ValueShape
    <3>3. CASE ~left.null
      <4>1. result = StringValue(ValueToString(left))
        BY <3>1, <3>3 DEF CastAsVarchar
      <4>2. left.type # "VARCHAR" => o = StringValue(ValueToString(left))
        BY <2>2, <2>3, <2>8, <3>3 DEF CastAs, BooleanCastAs, TinyintCastAs, SmallintCastAs,
           IntegerCastAs, BigintCastAs, IntCastAs, DecimalCastAs, TypeIds, NumericTypes,
           IntegerTypes
      <4> QED BY <2>8, <3>3, <4>1, <4>2
    <3> QED BY <2>2, <3>2, <3>3
  <2> QED BY <2>5, <2>6, <2>7, <2>8 DEF TypeIds, NumericTypes
<1> QED BY <1>1, CallsKeepInv, PTL
-----------------------------------------------------------------------------
(* Quotient and remainder are unique *)
LEMMA DivUnique ==
    ASSUME NEW n \in Int, NEW m \in Nat, m > 0, NEW q \in Int, NEW r \in Int,
           n = m * q + r, 0 <= r, r < m
    PROVE  n \div m = q /\ n % m = r
<1>1. PICK a \in Int, b \in 0..(m - 1) : a = n \div m /\ b = n % m /\ n = m * a + b
  <2>1. n \div m \in Int /\ n % m \in 0..(m - 1) /\ n = m * (n \div m) + (n % m)
    BY DivMod
  <2> QED BY <2>1
<1>2. PICK d \in Int : d = q - a
  OBVIOUS
<1>3. PICK e \in Int : e = m * d
  OBVIOUS
<1>4. PICK u \in Int, w \in Int : u = m * q /\ w = m * a
  OBVIOUS
<1>5. e = u - w
  BY <1>2, <1>3, <1>4
<1>6. b \in Int /\ 0 <= b /\ b < m /\ n = w + b /\ n = u + r
  BY <1>1, <1>4
<1>7. d = 0
  <2>1. d >= 1 => e >= m
    BY <1>3
  <2>2. d <= -1 => e <= -m
    BY <1>3
  <2> QED BY <1>5, <1>6, <2>1, <2>2
<1>8. q = a /\ u = w
  BY <1>2, <1>4, <1>7
<1>9. r = b
  BY <1>6, <1>8
<1> QED BY <1>1, <1>8, <1>9

(* A power of ten exceeds its exponent *)
LEMMA Pow10Exceeds == \A n \in Nat : Pow10[n] > n
<1> DEFINE bad == {n \in Nat : ~(Pow10[n] > n)}
<1>1. SUFFICES ASSUME bad # {} PROVE FALSE
  OBVIOUS
<1>2. PICK n \in bad : \A m \in bad : n <= m
  <2>1. bad \subseteq Nat
    OBVIOUS
  <2> HIDE DEF bad
  <2> QED BY <1>1, <2>1, LeastOfNats
<1>3. n \in Nat /\ n # 0
  BY <1>2, Pow10Def
<1>4. n - 1 \in Nat /\ (n - 1) + 1 = n /\ n - 1 \notin bad
  BY <1>2, <1>3
<1>5. Pow10[n] = 10 * Pow10[n - 1] /\ Pow10[n - 1] \in Nat /\ Pow10[n - 1] > n - 1
  BY <1>4, Pow10Def
<1> QED BY <1>2, <1>3, <1>5

(* The number of decimal digits of n *)
LEMMA NumDigitsFacts ==
    ASSUME NEW n \in Nat
    PROVE  NumDigits(n) \in Nat /\ NumDigits(n) >= 1 /\ n < Pow10[NumDigits(n)]
<1> DEFINE S == {k \in 1..(n + 1) : n < Pow10[k]}
           P(k) == n < Pow10[k] /\ (k = 1 \/ Pow10[k - 1] <= n)
<1>1. n + 1 \in S
  <2>1. Pow10[n + 1] \in Nat /\ Pow10[n + 1] > n + 1
    BY Pow10Exceeds, Pow10Def
  <2> QED BY <2>1
<1>2. PICK k \in S : \A m \in S : k <= m
  <2>1. S \subseteq Nat /\ S # {}
    BY <1>1
  <2> HIDE DEF S
  <2> QED BY <2>1, LeastOfNats
<1>3. k \in 1..(n + 1) /\ n < Pow10[k]
  BY <1>2
<1>4. k = 1 \/ Pow10[k - 1] <= n
  <2>1. SUFFICES ASSUME k # 1 PROVE Pow10[k - 1] <= n
    OBVIOUS
  <2>2. k - 1 \in 1..(n + 1) /\ k - 1 \in Nat /\ ~(k <= k - 1)
    BY <1>3, <2>1
  <2>3. k - 1 \notin S
    BY <1>2, <2>2
  <2>4. Pow10[k - 1] \in Nat
    BY <2>2, Pow10Def
  <2> QED BY <2>2, <2>3, <2>4
<1>5. P(k)
  BY <1>3, <1>4
<1>6. NumDigits(n) = CHOOSE i \in 1..(n + 1) : P(i)
  BY DEF NumDigits
<1>7. NumDigits(n) \in 1..(n + 1) /\ P(NumDigits(n))
  <2> HIDE DEF P
  <2> QED BY <1>3, <1>5, <1>6
<1> QED BY <1>7

(* DigitsValue is the function its recursive definition describes *)
LEMMA DigitsValueDef ==
    ASSUME NEW s \in Seq(Int)
    PROVE  \E v \in [0..Len(s) -> Int] :
              /\ v[0] = 0 /\ DigitsValue(s) = v[Len(s)]
              /\ \A i \in 1..Len(s) : v[i] = 10 * v[i - 1] + s[i] - 48
<1> DEFINE len == Len(s)
           Eq(f) == f = [i \in 0..len |-> IF i = 0 THEN 0 ELSE 10 * f[i - 1] + s[i] - 48]
           digit(i) == IF i \in 1..len THEN s[i] ELSE 0
           h == [p \in Nat \X Int |-> 10 * p[2] + digit(p[1] + 1) - 48]
<1>1. len \in Nat
  OBVIOUS
<1>2. \A i \in Nat : digit(i) \in Int
  OBVIOUS
<1>3. h \in [Nat \X Int -> Int]
  <2> HIDE DEF digit
  <2> QED BY <1>2
<1>4. PICK f : f \in Recursive(Int, 0, h)
  <2> HIDE DEF h
  <2>1. 0 \in Int /\ h \in [Nat \X Int -> Int]
    BY <1>3
  <2> QED BY <2>1, PrimitiveRecursion, Zenon
<1>5. /\ f \in [Nat -> Int] /\ f[0] = 0
      /\ \A i \in Nat : f[i + 1] = 10 * f[i] + digit(i + 1) - 48
  <2> HIDE DEF digit
  <2> QED BY <1>4 DEF Recursive
<1>6. PICK g : g = [i \in 0..len |-> f[i]]
  OBVIOUS
<1>7. \A i \in 0..len : g[i] = f[i]
  BY <1>6
<1>8. ASSUME NEW i \in 1..len PROVE f[i] = 10 * f[i - 1] + s[i] - 48
  <2>1. i - 1 \in Nat /\ (i - 1) + 1 = i /\ i \in Nat
    BY <1>1
  <2>2. digit(i) = s[i]
    BY <1>8
  <2> HIDE DEF digit
  <2> QED BY <1>5, <2>1, <2>2
<1> HIDE DEF len, digit, h
<1>9. Eq(g)
  <2>1. ASSUME NEW i \in 0..len
        PROVE  g[i] = IF i = 0 THEN 0 ELSE 10 * g[i - 1] + s[i] - 48
    <3>1. CASE i = 0
      BY <1>1, <1>5, <1>7, <3>1
    <3>2. CASE i # 0
      <4>1. i \in 1..len /\ i - 1 \in 0..len
        BY <1>1, <3>2
      <4> QED BY <1>7, <1>8, <3>2, <4>1
    <3> QED BY <3>1, <3>2
  <2>2. g = [i \in 0..len |-> g[i]]
    BY <1>6
  <2> QED BY <2>1, <2>2
<1>10. PICK v : v = CHOOSE f1 : Eq(f1)
  OBVIOUS
<1>11. Eq(v)
  <2> HIDE DEF Eq
  <2> QED BY <1>9, <1>10
<1>12. DigitsValue(s) = v[len]
  BY <1>10, Zenon DEF DigitsValue, len
<1>13. v[0] = 0 /\ \A i \in 1..len : v[i] = 10 * v[i - 1] + s[i] - 48
  BY <1>1, <1>11
<1>14. f[0] = 0 /\ \A i \in 0..len : f[i] \in Int
  <2>1. f \in [Nat -> Int] /\ f[0] = 0
    BY <1>5
  <2>2. 0..len \subseteq Nat
    BY <1>1
  <2> QED BY <2>1, <2>2
<1> DEFINE bad == {i \in 0..len : v[i] # f[i]}
<1>15. bad = {}
  <2>1. SUFFICES ASSUME bad # {} PROVE FALSE
    OBVIOUS
  <2>2. PICK i \in bad : \A m \in bad : i <= m
    <3>1. bad \subseteq Nat
      BY <1>1
    <3> HIDE DEF bad
    <3> QED BY <2>1, <3>1, LeastOfNats
  <2>3. i \in 1..len
    BY <1>1, <1>13, <1>14, <2>2
  <2>4. i - 1 \in 0..len /\ i - 1 \notin bad
    BY <1>1, <2>2, <2>3
  <2> QED BY <1>8, <1>13, <2>2, <2>3, <2>4
<1>16. v \in [0..len -> Int]
  <2>1. \A i \in 0..len : v[i] \in Int
    BY <1>14, <1>15
  <2>2. v = [i \in 0..len |-> v[i]]
    BY <1>11
  <2> QED BY <2>1, <2>2
<1> QED BY <1>12, <1>13, <1>16 DEF len
(* The decimal digits of a number are digits, *)
LEMMA DigitsFacts ==
    ASSUME NEW n \in Nat
    PROVE  /\ Digits(n) \in Seq(Int) /\ Len(Digits(n)) = NumDigits(n)
           /\ \A i \in 1..NumDigits(n) :
                 /\ Digits(n)[i] = 48 + ((n \div Pow10[NumDigits(n) - i]) % 10)
                 /\ IsDigit(Digits(n)[i])
<1>1. PICK k \in Nat : k = NumDigits(n) /\ k >= 1
  BY NumDigitsFacts
<1>2. Digits(n) = [i \in 1..k |-> 48 + ((n \div Pow10[k - i]) % 10)]
  BY <1>1 DEF Digits, LastDigits
<1>3. ASSUME NEW i \in 1..k
      PROVE  48 + ((n \div Pow10[k - i]) % 10) \in 48..57
  <2>1. k - i \in Nat
    BY <1>1
  <2>2. PICK m \in Nat : m = Pow10[k - i] /\ m > 0
    BY <2>1, Pow10Def
  <2>3. PICK a \in Int : a = n \div m
    BY <2>2, DivMod
  <2>4. a % 10 \in 0..9
    BY <2>3
  <2>5. 48 + (a % 10) \in 48..57
    BY <2>4
  <2> QED BY <2>2, <2>3, <2>5
<1>4. PICK d \in [1..k -> 48..57] : d = Digits(n)
  BY <1>2, <1>3
<1>5. d \in Seq(Int) /\ Len(d) = k
  BY <1>1
<1>6. \A i \in 1..k : Digits(n)[i] = 48 + ((n \div Pow10[k - i]) % 10)
  BY <1>2
<1>7. \A i \in 1..k : IsDigit(Digits(n)[i])
  BY <1>4 DEF IsDigit
<1> QED BY <1>1, <1>4, <1>5, <1>6, <1>7

(* dividing by ten once more drops one of them, *)
LEMMA DivTens ==
    ASSUME NEW n \in Int, NEW m \in Nat, m > 0
    PROVE  n \div m = 10 * (n \div (10 * m)) + ((n \div m) % 10)
<1>1. PICK w \in Nat : w = 10 * m /\ w > 0
  OBVIOUS
<1>2. PICK a \in Int, b \in 0..(m - 1) : a = n \div m /\ n = m * a + b
  <2>1. n \div m \in Int /\ n % m \in 0..(m - 1) /\ n = m * (n \div m) + (n % m)
    BY DivMod
  <2> QED BY <2>1
<1>3. PICK c \in Int, e \in 0..9 : e = a % 10 /\ a = 10 * c + e
  <2>1. a \div 10 \in Int /\ a % 10 \in 0..9 /\ a = 10 * (a \div 10) + (a % 10)
    OBVIOUS
  <2> QED BY <2>1
<1>4. e \in Int /\ 0 <= e /\ e <= 9 /\ a = 10 * c + e
  BY <1>3
<1>5. b \in Int /\ 0 <= b /\ b < m /\ n = m * a + b
  BY <1>2
<1>6. PICK ma \in Int, mc \in Int, me \in Int : ma = m * a /\ mc = m * c /\ me = m * e
  BY <1>4
<1>7. ma = 10 * mc + me
  <2>1. m * (10 * c + e) = 10 * (m * c) + m * e
    BY <1>4
  <2> QED BY <1>4, <1>6, <2>1
<1>8. 0 <= me /\ me <= 9 * m
  BY <1>4, <1>6
<1>9. PICK wc \in Int : wc = w * c
  OBVIOUS
<1>10. wc = 10 * mc
  <2>1. (10 * m) * c = 10 * (m * c)
    OBVIOUS
  <2> QED BY <1>1, <1>6, <1>9, <2>1
<1>11. PICK r \in Int : r = me + b
  BY <1>5
<1>12. 0 <= r /\ r < w
  BY <1>1, <1>5, <1>8, <1>11
<1>13. n = wc + r
  BY <1>5, <1>6, <1>7, <1>10, <1>11
<1>14. n = w * c + r
  BY <1>9, <1>13
<1>15. n \div w = c
  BY <1>1, <1>12, <1>14, DivUnique, Zenon
<1>16. a = 10 * (n \div w) + (a % 10)
  BY <1>3, <1>15
<1> QED BY <1>1, <1>2, <1>16

(* and reading the digits gives the number back: after i digits the part of *)
(* n above the rest has been read.                                         *)
LEMMA DigitsRoundTrip ==
    ASSUME NEW n \in Nat
    PROVE  DigitsValue(Digits(n)) = n
<1>1. PICK k \in Nat : k = NumDigits(n) /\ k >= 1 /\ n < Pow10[k]
  BY NumDigitsFacts
<1>2. PICK s \in Seq(Int) : s = Digits(n) /\ Len(s) = k
  BY <1>1, DigitsFacts
<1>3. PICK v \in [0..k -> Int] :
         /\ v[0] = 0 /\ DigitsValue(s) = v[k]
         /\ \A i \in 1..k : v[i] = 10 * v[i - 1] + s[i] - 48
  BY <1>2, DigitsValueDef
<1> DEFINE rest(i) == n \div Pow10[k - i]
<1>4. rest(0) = 0 /\ rest(k) = n
  <2>1. PICK m \in Nat : m = Pow10[k] /\ m > 0 /\ n < m
    BY <1>1, Pow10Def
  <2>2. PICK zero \in Int : zero = 0
    OBVIOUS
  <2>3. n \in Int /\ n = m * zero + n /\ 0 <= n
    BY <2>1, <2>2
  <2>4. n \div m = zero
    BY <2>1, <2>3, DivUnique, Zenon
  <2>5. k - 0 = k /\ k - k = 0 /\ Pow10[0] = 1 /\ n \div 1 = n
    BY Pow10Def
  <2> QED BY <2>1, <2>2, <2>4, <2>5
<1>5. ASSUME NEW i \in 1..k
      PROVE  rest(i) \in Int /\ rest(i) = 10 * rest(i - 1) + s[i] - 48
  <2>1. k - i \in Nat /\ k - (i - 1) = (k - i) + 1
    OBVIOUS
  <2>2. PICK m \in Nat : m = Pow10[k - i] /\ m > 0
    BY <2>1, Pow10Def
  <2>3. Pow10[k - (i - 1)] = 10 * m
    BY <2>1, <2>2, Pow10Def
  <2>4. n \in Int /\ 10 * m \in Nat /\ 10 * m > 0
    BY <2>2
  <2>5. PICK a \in Int, c \in Int, e \in Int :
           a = n \div m /\ c = n \div (10 * m) /\ e = (n \div m) % 10
    <3>1. n \div m \in Int /\ n \div (10 * m) \in Int
      BY <2>2, <2>4, DivMod
    <3>2. (n \div m) % 10 \in Int
      BY <3>1
    <3> QED BY <3>1, <3>2
  <2>6. a = 10 * c + e
    BY <2>2, <2>4, <2>5, DivTens
  <2>7. s[i] = 48 + ((n \div Pow10[k - i]) % 10)
    BY <1>1, <1>2, DigitsFacts
  <2>8. s[i] = 48 + e
    BY <2>2, <2>5, <2>7
  <2>9. rest(i) = a /\ rest(i - 1) = c
    BY <2>2, <2>3, <2>5
  <2> QED BY <2>6, <2>8, <2>9, SMTT(30)
<1> HIDE DEF rest
<1> DEFINE bad == {i \in 0..k : v[i] # rest(i)}
<1>6. bad = {}
  <2>1. SUFFICES ASSUME bad # {} PROVE FALSE
    OBVIOUS
  <2>2. PICK i \in bad : \A m \in bad : i <= m
    <3>1. bad \subseteq Nat
      OBVIOUS
    <3> HIDE DEF bad
    <3> QED BY <2>1, <3>1, LeastOfNats
  <2>3. i \in 1..k
    BY <1>3, <1>4, <2>2
  <2>4. i - 1 \in 0..k /\ i - 1 \notin bad
    BY <2>2, <2>3
  <2>5. v[i - 1] = rest(i - 1)
    BY <2>4
  <2>6. v[i] = rest(i)
    BY <1>3, <1>5, <2>3, <2>5
  <2> QED BY <2>2, <2>6
<1>7. v[k] = rest(k)
  BY <1>6, SMTT(30)
<1> QED BY <1>2, <1>3, <1>4, <1>7
(* Sequences of character codes *)
LEMMA CharsFacts ==
    ASSUME NEW s \in Seq(Int), NEW c \in Int
    PROVE  /\ Append(s, c) \in Seq(Int) /\ Append(s, c) # <<>>
           /\ Len(Append(s, c)) = Len(s) + 1 /\ Append(s, c)[Len(s) + 1] = c
           /\ \A i \in 1..Len(s) : Append(s, c)[i] = s[i]
           /\ <<c>> \o s \in Seq(Int) /\ Len(<<c>> \o s) = Len(s) + 1
           /\ (<<c>> \o s)[1] = c
           /\ \A i \in 1..Len(s) : (<<c>> \o s)[i + 1] = s[i]
<1>1. PICK u \in Seq(Int) : u = <<c>> /\ Len(u) = 1 /\ u[1] = c
  <2>1. <<c>> \in Seq(Int)
    OBVIOUS
  <2> QED BY <2>1
<1>2. /\ u \o s \in Seq(Int) /\ Len(u \o s) = 1 + Len(s)
      /\ \A i \in 1..(1 + Len(s)) : (u \o s)[i] = IF i <= 1 THEN u[i] ELSE s[i - 1]
  BY <1>1, ConcatProperties
<1>3. PICK w \in Seq(Int) : w = u \o s
  BY <1>2
<1>4. /\ Len(w) = 1 + Len(s)
      /\ \A i \in 1..(1 + Len(s)) : w[i] = IF i <= 1 THEN u[i] ELSE s[i - 1]
  BY <1>2, <1>3
<1>5. w[1] = c /\ \A i \in 1..Len(s) : w[i + 1] = s[i]
  BY <1>1, <1>4
<1>6. /\ Append(s, c) \in Seq(Int) /\ Append(s, c) # <<>>
      /\ Len(Append(s, c)) = Len(s) + 1 /\ Append(s, c)[Len(s) + 1] = c
      /\ \A i \in 1..Len(s) : Append(s, c)[i] = s[i]
  <2>1. Append(s, c) \in Seq(Int) /\ Append(s, c) # <<>>
    BY SMTT(30)
  <2>2. Len(Append(s, c)) = Len(s) + 1
    OBVIOUS
  <2>3. Append(s, c)[Len(s) + 1] = c
    OBVIOUS
  <2>4. \A i \in 1..Len(s) : Append(s, c)[i] = s[i]
    OBVIOUS
  <2> QED BY <2>1, <2>2, <2>3, <2>4
<1> QED BY <1>1, <1>3, <1>4, <1>5, <1>6

(* Two sequences with the same elements are the same *)
LEMMA SameChars ==
    ASSUME NEW s \in Seq(Int), NEW t \in Seq(Int), Len(s) = Len(t),
           \A i \in 1..Len(t) : s[i] = t[i]
    PROVE  s = t
<1>1. s \in [1..Len(t) -> Int] /\ t \in [1..Len(t) -> Int]
  BY LenProperties
<1> QED BY <1>1

(* The longest run of digits from a position on *)
LEMMA DigitsFromType ==
    ASSUME NEW s \in Seq(Int), NEW i \in 1..(Len(s) + 1)
    PROVE  DigitsFrom(s, i) \in Seq(Int)
<1> DEFINE Ends(j) == j = Len(s) \/ ~IsDigit(s[j + 1])
           Run(j) == (\A k \in i..j : IsDigit(s[k])) /\ Ends(j)
           S == {j \in (i - 1)..Len(s) : Ends(j)}
<1>1. Len(s) \in Nat
  OBVIOUS
<1>2. PICK j \in S : \A m \in S : j <= m
  <2>1. S \subseteq Nat /\ Len(s) \in S
    BY <1>1
  <2> HIDE DEF S
  <2> QED BY <2>1, LeastOfNats
<1>3. j \in (i - 1)..Len(s) /\ Ends(j)
  BY <1>2
<1>4. ASSUME NEW k \in i..j PROVE IsDigit(s[k])
  <2>1. k - 1 \in (i - 1)..Len(s) /\ ~(j <= k - 1) /\ (k - 1) + 1 = k /\ k - 1 # Len(s)
    BY <1>1, <1>3
  <2>2. k - 1 \notin S
    BY <1>2, <2>1
  <2> QED BY <2>1, <2>2
<1>5. Run(j)
  BY <1>3, <1>4
<1>6. PICK e : e = CHOOSE m \in (i - 1)..Len(s) : Run(m)
  OBVIOUS
<1>7. e \in (i - 1)..Len(s)
  <2> HIDE DEF Run
  <2> QED BY <1>3, <1>5, <1>6
<1>8. DigitsFrom(s, i) = SubSeq(s, i, e)
  BY <1>6 DEF DigitsFrom
<1>9. SubSeq(s, i, e) \in Seq(Int)
  <2>1. e \in Int /\ i \in Int /\ 1 <= i /\ e <= Len(s)
    BY <1>1, <1>7
  <2>2. \A k \in i..e : s[k] \in Int
    BY <1>1, <2>1
  <2> QED BY <2>1, <2>2
<1> QED BY <1>8, <1>9

(* What stoi and stod read is a fraction *)
LEMMA ParsedType ==
    ASSUME NEW s \in Seq(Int)
    PROVE  Parsed(s) = <<>> \/ Parsed(s) \in Int \X (Nat \ {0})
<1>1. PICK u \in Seq(Int), sign \in Int : Parsed(s) = ParsedAbs(sign, u)
  <2>1. CASE s # <<>> /\ s[1] = 45
    <3>1. Tail(s) \in Seq(Int) /\ -1 \in Int
      BY <2>1
    <3>2. Parsed(s) = ParsedAbs(-1, Tail(s))
      BY <2>1 DEF Parsed, ParsedSigned
    <3> QED BY <3>1, <3>2
  <2>2. CASE ~(s # <<>> /\ s[1] = 45)
    <3>1. Parsed(s) = ParsedAbs(1, s)
      BY <2>2 DEF Parsed, ParsedSigned
    <3> QED BY <3>1
  <2> QED BY <2>1, <2>2
<1>2. PICK whole \in Seq(Int) : whole = DigitsFrom(u, 1)
  <2>1. 1 \in 1..(Len(u) + 1)
    OBVIOUS
  <2> QED BY <2>1, DigitsFromType
<1>3. PICK frac \in Seq(Int) : frac = FractionFrom(u, Len(whole) + 1)
  <2>1. PICK i \in Nat : i = Len(whole) + 1 /\ i >= 1
    BY <1>2
  <2>2. CASE i <= Len(u) /\ u[i] = 46
    <3>1. i + 1 \in 1..(Len(u) + 1)
      BY <2>1, <2>2
    <3>2. DigitsFrom(u, i + 1) \in Seq(Int)
      BY <3>1, DigitsFromType
    <3> QED BY <2>1, <2>2, <3>2 DEF FractionFrom
  <2>3. CASE ~(i <= Len(u) /\ u[i] = 46)
    <3>1. FractionFrom(u, i) = <<>>
      BY <2>3 DEF FractionFrom
    <3>2. <<>> \in Seq(Int)
      OBVIOUS
    <3> QED BY <2>1, <3>1, <3>2
  <2> QED BY <2>2, <2>3
<1>4. Parsed(s) = Number(sign, whole, frac)
  BY <1>1, <1>2, <1>3 DEF ParsedAbs, ParsedWhole
<1>5. DigitsValue(whole \o frac) \in Int
  <2>1. PICK w \in Seq(Int) : w = whole \o frac
    BY ConcatProperties
  <2>2. PICK v \in [0..Len(w) -> Int] : DigitsValue(w) = v[Len(w)]
    BY DigitsValueDef
  <2>3. Len(w) \in 0..Len(w)
    OBVIOUS
  <2> QED BY <2>1, <2>2, <2>3
<1>6. PICK d \in Int : d = DigitsValue(whole \o frac)
  BY <1>5
<1>7. PICK p \in Nat : p = Pow10[Len(frac)] /\ p > 0
  <2>1. Len(frac) \in Nat
    OBVIOUS
  <2> QED BY <2>1, Pow10Def
<1>8. Number(sign, whole, frac) = <<>> \/ Number(sign, whole, frac) = <<sign * d, p>>
  BY <1>6, <1>7 DEF Number
<1>9. sign * d \in Int
  OBVIOUS
<1> QED BY <1>4, <1>7, <1>8, <1>9

(* The digits of a number, with the NUL behind them, are read as the number *)
LEMMA ParsedDigits ==
    ASSUME NEW m \in Nat, NEW sign \in Int
    PROVE  ParsedAbs(sign, Append(Digits(m), 0)) = <<sign * m, 1>>
<1>1. PICK d \in Seq(Int), k \in Nat :
         /\ d = Digits(m) /\ k = Len(d) /\ k >= 1
         /\ \A i \in 1..k : IsDigit(d[i])
  BY DigitsFacts, NumDigitsFacts
<1>2. PICK t \in Seq(Int) : t = Append(d, 0)
  <2>1. 0 \in Int
    OBVIOUS
  <2> QED BY <2>1, CharsFacts
<1>3. Len(t) = k + 1 /\ t[k + 1] = 0 /\ \A i \in 1..k : t[i] = d[i]
  BY <1>1, <1>2
<1>4. ~IsDigit(t[k + 1]) /\ \A i \in 1..k : IsDigit(t[i])
  BY <1>1, <1>3 DEF IsDigit
<1> DEFINE Run(j) == (\A i \in 1..j : IsDigit(t[i])) /\ (j = Len(t) \/ ~IsDigit(t[j + 1]))
<1>5. k \in (1 - 1)..Len(t) /\ Run(k)
  BY <1>1, <1>3, <1>4
<1>6. ASSUME NEW j \in (1 - 1)..Len(t), Run(j) PROVE j = k
  <2>1. j \in Nat /\ j <= k + 1
    BY <1>1, <1>3
  <2>2. j # k + 1
    <3>1. SUFFICES ASSUME j = k + 1 PROVE FALSE
      OBVIOUS
    <3>2. k + 1 \in 1..j
      BY <1>1, <3>1
    <3> QED BY <1>4, <1>6, <3>2
  <2>3. ~(j < k)
    <3>1. SUFFICES ASSUME j < k PROVE FALSE
      OBVIOUS
    <3>2. j + 1 \in 1..k /\ j # Len(t)
      BY <1>1, <1>3, <2>1, <3>1
    <3> QED BY <1>4, <1>6, <3>2
  <2> QED BY <1>1, <2>1, <2>2, <2>3
<1>7. k = CHOOSE j \in (1 - 1)..Len(t) : Run(j)
  <2> HIDE DEF Run
  <2>1. PICK j : j = CHOOSE i \in (1 - 1)..Len(t) : Run(i)
    OBVIOUS
  <2>2. j \in (1 - 1)..Len(t) /\ Run(j)
    BY <1>5, <2>1
  <2> QED BY <1>6, <2>1, <2>2
<1>8. DigitsFrom(t, 1) = SubSeq(t, 1, k)
  BY <1>7, Zenon DEF DigitsFrom
<1>9. SubSeq(t, 1, k) = d
  BY <1>1, <1>2, <1>3
<1>10. FractionFrom(t, Len(d) + 1) = <<>>
  BY <1>1, <1>3 DEF FractionFrom
<1>11. d \o <<>> = d /\ d # <<>> /\ Len(<<>>) = 0
  BY <1>1
<1>12. Number(sign, d, <<>>) = <<sign * m, 1>>
  BY <1>1, <1>11, DigitsRoundTrip, Pow10Def DEF Number
<1> QED BY <1>1, <1>2, <1>8, <1>9, <1>10, <1>12 DEF ParsedAbs, ParsedWhole

(* and so is the text of any integer. *)
LEMMA ParsedText ==
    ASSUME NEW n \in Int
    PROVE  Append(IntText(n), 0) \in Seq(Int) /\ Parsed(Append(IntText(n), 0)) = <<n, 1>>
<1>1. PICK m \in Nat : m = Magnitude(n)
  BY DEF Magnitude
<1>2. PICK d \in Seq(Int) : d = Digits(m) /\ Len(d) >= 1 /\ IsDigit(d[1])
  <2>1. Len(Digits(m)) >= 1 /\ 1 \in 1..NumDigits(m)
    BY DigitsFacts, NumDigitsFacts
  <2> QED BY <2>1, DigitsFacts
<1>3. PICK t \in Seq(Int) : t = Append(d, 0)
  <2>1. 0 \in Int
    OBVIOUS
  <2> QED BY <2>1, CharsFacts
<1>4. CASE n < 0
  <2>1. PICK c \in Seq(Int) :
           /\ c = IntText(n) /\ c = <<45>> \o d /\ Len(c) = Len(d) + 1 /\ c[1] = 45
           /\ \A i \in 1..Len(d) : c[i + 1] = d[i]
    <3>1. 45 \in Int
      OBVIOUS
    <3>2. <<45>> \o d = IntText(n)
      BY <1>1, <1>2, <1>4 DEF IntText, Sign
    <3> QED BY <3>1, <3>2, CharsFacts
  <2>2. PICK s \in Seq(Int) :
           /\ s = Append(c, 0) /\ Len(s) = Len(d) + 2 /\ s # <<>> /\ s[1] = 45
           /\ \A i \in 1..Len(c) : s[i] = c[i]
           /\ s[Len(c) + 1] = 0
    <3>1. 1 \in 1..Len(c) /\ 0 \in Int /\ Len(c) + 1 = Len(d) + 2
      BY <2>1
    <3>2. /\ Append(c, 0) \in Seq(Int) /\ Append(c, 0) # <<>>
          /\ Len(Append(c, 0)) = Len(c) + 1 /\ Append(c, 0)[Len(c) + 1] = 0
          /\ \A i \in 1..Len(c) : Append(c, 0)[i] = c[i]
      BY <3>1, CharsFacts
    <3> QED BY <2>1, <3>1, <3>2
  <2>3. Tail(s) = t
    <3>1. /\ Len(t) = Len(d) + 1 /\ t[Len(d) + 1] = 0
          /\ \A i \in 1..Len(d) : t[i] = d[i]
      BY <1>3, CharsFacts
    <3>2. Tail(s) \in Seq(Int) /\ Len(Tail(s)) = Len(t)
      BY <2>2, <3>1
    <3>3. ASSUME NEW i \in 1..Len(t) PROVE Tail(s)[i] = t[i]
      <4>1. Tail(s)[i] = s[i + 1]
        BY <2>2, <3>1
      <4>2. CASE i = Len(d) + 1
        BY <2>1, <2>2, <3>1, <4>1, <4>2
      <4>3. CASE i # Len(d) + 1
        <5>1. i \in 1..Len(d) /\ i + 1 \in 1..Len(c)
          BY <2>1, <3>1, <4>3
        <5> QED BY <2>1, <2>2, <3>1, <4>1, <5>1
      <4> QED BY <4>2, <4>3
    <3> QED BY <3>2, <3>3, SameChars
  <2>4. Parsed(s) = ParsedAbs(-1, t)
    BY <2>2, <2>3 DEF Parsed, ParsedSigned
  <2>5. ParsedAbs(-1, t) = <<(-1) * m, 1>>
    <3>1. PICK sign \in Int : sign = -1
      OBVIOUS
    <3>2. ParsedAbs(sign, t) = <<sign * m, 1>>
      BY <1>2, <1>3, ParsedDigits
    <3> QED BY <3>1, <3>2
  <2>6. (-1) * m = n
    BY <1>1, <1>4 DEF Magnitude
  <2> QED BY <2>1, <2>2, <2>4, <2>5, <2>6
<1>5. CASE ~(n < 0)
  <2>1. Append(IntText(n), 0) = t
    BY <1>1, <1>2, <1>3, <1>5 DEF IntText, Sign
  <2>2. t[1] = d[1] /\ d[1] # 45
    BY <1>2, <1>3 DEF IsDigit
  <2>3. Parsed(t) = ParsedAbs(1, t)
    BY <2>2 DEF Parsed, ParsedSigned
  <2>4. ParsedAbs(1, t) = <<1 * m, 1>>
    BY <1>2, <1>3, ParsedDigits
  <2>5. 1 * m = n
    BY <1>1, <1>5 DEF Magnitude
  <2> QED BY <2>1, <2>3, <2>4, <2>5
<1> QED BY <1>4, <1>5
-----------------------------------------------------------------------------
(* Converting a text to an integer type: when it succeeds the value is that  *)
(* of the number the text starts with, unless that one is beyond TINYINT or  *)
(* SMALLINT; and it succeeds when that number fits                           *)
LEMMA TextInteger ==
    ASSUME NEW s, NEW T \in IntegerTypes, Parsed(s) = <<>> \/ Parsed(s) \in Int \X (Nat \ {0}),
           NEW r, r = TextAsInteger(s, T)
    PROVE  /\ ~IsError(r) =>
                 /\ Parsed(s) # <<>>
                 /\ \E i \in Within(T) :
                       /\ r = IntField(T, i)
                       /\ FitsIn(QTrunc(Parsed(s)), T) \/ T \notin {"TINYINT", "SMALLINT"} =>
                             i = QTrunc(Parsed(s))
           /\ Parsed(s) # <<>> /\ FitsIn(QTrunc(Parsed(s)), T) => r = IntField(T, QTrunc(Parsed(s)))
<1> DEFINE w == IF T = "BIGINT" THEN BigBits ELSE IntBits
           Kept(n) == IF Wrap(n, Bits(T)) < MinOf(T) THEN OutOfRange
                                                     ELSE IntValue(T, Wrap(n, Bits(T)))
<1>1. T \in DOMAIN Widths /\ "INTEGER" \in DOMAIN Widths /\ "BIGINT" \in DOMAIN Widths
  BY DEF IntegerTypes, Widths
<1>2. PICK h \in Nat, wh \in Nat :
         /\ h = Half(T) /\ h = Pow2[Bits(T) - 1] /\ h >= 2
         /\ wh = Pow2[w - 1] /\ h <= wh /\ wh >= 2
         /\ T \notin {"TINYINT", "SMALLINT"} => h = wh
  <2>1. PICK t \in Nat, m \in Nat, i \in Nat, b \in Nat :
           /\ t = Half("TINYINT") /\ m = Half("SMALLINT")
           /\ i = Half("INTEGER") /\ b = Half("BIGINT")
           /\ t >= 2 /\ m >= 2 /\ i >= 2 /\ b >= 2
    BY Halves DEF Widths
  <2>2. 2 * t <= m /\ 2 * (m * m) <= i /\ 2 * i <= b
    BY <2>1, Halves
  <2>3. m <= m * m
    BY <2>1
  <2>4. PICK mm \in Nat : mm = m * m
    OBVIOUS
  <2>5. t <= i /\ m <= i
    BY <2>1, <2>2, <2>3, <2>4
  <2>6. Bits("INTEGER") = IntBits /\ Bits("BIGINT") = BigBits
    BY DEF Bits, Widths
  <2>7. PICK wh \in Nat : wh = Pow2[w - 1] /\ wh = IF T = "BIGINT" THEN b ELSE i
    <3>1. Pow2[w - 1] = IF T = "BIGINT" THEN b ELSE i
      BY <2>1, <2>6 DEF Half
    <3> QED BY <3>1
  <2>8. PICK h \in Nat : h = Half(T) /\ h = Pow2[Bits(T) - 1] /\ h >= 2
    BY <1>1, Limits DEF Half
  <2> HIDE DEF w
  <2>9. h <= wh /\ wh >= 2 /\ (T \notin {"TINYINT", "SMALLINT"} => h = wh)
    <3>1. CASE T = "TINYINT"
      BY <2>1, <2>5, <2>7, <2>8, <3>1
    <3>2. CASE T = "SMALLINT"
      BY <2>1, <2>5, <2>7, <2>8, <3>2
    <3>3. CASE T = "INTEGER"
      <4>1. wh = i
        BY <2>7, <3>3
      <4>2. h = i
        BY <2>1, <2>8, <3>3
      <4> QED BY <2>8, <4>1, <4>2
    <3>4. CASE T = "BIGINT"
      <4>1. wh = b
        BY <2>7, <3>4
      <4>2. h = b
        BY <2>1, <2>8, <3>4
      <4> QED BY <2>8, <4>1, <4>2
    <3> QED BY <3>1, <3>2, <3>3, <3>4 DEF IntegerTypes
  <2> QED BY <2>7, <2>8, <2>9, Zenon
<1>3. CASE Parsed(s) = <<>>
  <2>1. Stoi(s, w) = Throws /\ IsError(Throws)
    BY <1>3 DEF Stoi, IntegerOf, Throws, Error, IsError
  <2>2. r = Throws
    BY <2>1 DEF TextAsInteger, Then
  <2> QED BY <1>3, <2>1, <2>2
<1>4. CASE Parsed(s) # <<>>
  <2>1. PICK n \in Int : n = QTrunc(Parsed(s))
    <3>1. PICK a \in Int, d \in Int : a = Parsed(s)[1] /\ d = Parsed(s)[2] /\ d # 0
      BY <1>4
    <3> QED BY <3>1, QuotFacts DEF QTrunc
  <2>2. Stoi(s, w) = IF Wrap(n, w) = n THEN [type |-> "INT", null |-> FALSE, v |-> <<n>>]
                                       ELSE OutOfRange
    BY <1>4, <2>1 DEF Stoi, IntegerOf, IntegerIn
  <2>3. n \in (-wh)..(wh - 1) <=> Wrap(n, w) = n
    <3>1. wh > 0 /\ wh = Pow2[w - 1]
      BY <1>2
    <3> HIDE DEF w
    <3> QED BY <3>1, WrapFacts
  <2>4. FitsIn(n, T) <=> n \in Within(T)
    BY DEF FitsIn, Within
  <2>5. Within(T) = (1 - h)..(h - 1) /\ NullOf(T)..MaxOf(T) = (-h)..(h - 1) /\ MinOf(T) = 1 - h
    BY <1>1, <1>2, Limits DEF Within
  <2>6. IsError(OutOfRange) /\ ~IsError([type |-> "INT", null |-> FALSE, v |-> <<n>>])
    BY DEF IsError, OutOfRange, Error
  <2>7. Wrap(n, w) # n => r = OutOfRange
    BY <2>2, <2>6 DEF TextAsInteger, Then
  <2>8. Wrap(n, w) = n => r = Kept(n)
    BY <2>2, <2>6 DEF TextAsInteger, Then, IntOf
  <2>9. PICK i \in (-h)..(h - 1) :
           i = Wrap(n, Bits(T)) /\ (n \in (-h)..(h - 1) <=> i = n)
    BY <1>2, WrapFacts
  <2>10. i \in Int /\ IntValue(T, i) = IntField(T, i)
    BY <1>1, <2>5, <2>9, IntValueFits
  <2>11. Kept(n) = IF i \in Within(T) THEN IntField(T, i) ELSE OutOfRange
    BY <1>2, <2>5, <2>9, <2>10
  <2> HIDE DEF Kept, w
  <2>12. ASSUME ~IsError(r)
         PROVE  \E j \in Within(T) :
                    /\ r = IntField(T, j)
                    /\ FitsIn(n, T) \/ T \notin {"TINYINT", "SMALLINT"} => j = n
    <3>1. Wrap(n, w) = n /\ r = Kept(n)
      BY <2>6, <2>7, <2>8, <2>12
    <3>2. i \in Within(T) /\ r = IntField(T, i)
      BY <2>6, <2>11, <2>12, <3>1
    <3>3. n \in (-wh)..(wh - 1)
      BY <2>3, <3>1
    <3>4. FitsIn(n, T) \/ T \notin {"TINYINT", "SMALLINT"} => n \in (-h)..(h - 1)
      BY <1>2, <2>4, <2>5, <3>3
    <3> QED BY <2>9, <3>2, <3>4
  <2>13. ASSUME FitsIn(n, T) PROVE r = IntField(T, n)
    <3>1. n \in (1 - h)..(h - 1)
      BY <2>4, <2>5, <2>13
    <3>2. n \in (-wh)..(wh - 1) /\ n \in (-h)..(h - 1)
      BY <1>2, <3>1
    <3>3. Wrap(n, w) = n /\ i = n
      BY <2>3, <2>9, <3>2
    <3> QED BY <2>4, <2>8, <2>11, <2>13, <3>3
  <2> QED BY <1>4, <2>1, <2>12, <2>13
<1> QED BY <1>3, <1>4

(* An integer printed and read again *)
LEMMA TextRoundTrip ==
    ASSUME NEW T \in IntegerTypes, NEW n \in Within(T)
    PROVE  TextAsInteger(Append(IntText(n), 0), T) = IntField(T, n)
<1>1. T \in DOMAIN Widths
  BY DEF IntegerTypes, Widths
<1>2. n \in Int
  BY <1>1, Limits DEF Within
<1>3. PICK s \in Seq(Int) : s = Append(IntText(n), 0) /\ Parsed(s) = <<n, 1>>
  BY <1>2, ParsedText
<1>4. Parsed(s) \in Int \X (Nat \ {0}) /\ Parsed(s) # <<>>
  <2>1. <<n, 1>> \in Int \X (Nat \ {0})
    BY <1>2
  <2>2. <<n, 1>> # <<>>
    OBVIOUS
  <2> QED BY <1>3, <2>1, <2>2
<1>5. QTrunc(Parsed(s)) = n
  <2>1. Quot(n * 1, 1) = n /\ n * 1 = n
    BY <1>2, QuotExact
  <2> QED BY <1>3, <2>1 DEF QTrunc
<1>6. FitsIn(QTrunc(Parsed(s)), T)
  BY <1>5 DEF FitsIn, Within
<1>7. PICK r : r = TextAsInteger(s, T)
  OBVIOUS
<1>8. r = IntField(T, QTrunc(Parsed(s)))
  BY <1>4, <1>6, <1>7, TextInteger
<1> QED BY <1>3, <1>5, <1>7, <1>8

(* What a conversion to an integer type returns when it does not throw: the  *)
(* NULL of the type for a NULL; the number, without its fraction, which is   *)
(* the pattern of NULL for the DECIMAL below BIGINT only; and the number a   *)
(* text starts with unless it wraps.                                         *)
LEMMA CastToInteger ==
    ASSUME NEW x, IsValue(x), NEW T \in IntegerTypes, NEW r, r = CastAs(x, T), ~IsError(r)
    PROVE  /\ x.null => r = IntField(T, NullOf(T))
           /\ ~x.null => \E i \in NullOf(T)..MaxOf(T) :
                 /\ r = IntField(T, i)
                 /\ i = NullOf(T) <=> BecomesNull(x, T)
                 /\ \/ x.type \in NumericTypes /\ i = QTrunc(Num(x))
                    \/ x.type = "VARCHAR" /\ (~WrapsText(x, T) => i = QTrunc(Parsed(x.v)))
<1>1. T \in DOMAIN Widths /\ T \in NumericTypes
  BY DEF IntegerTypes, NumericTypes, Widths
<1>2. x.null \in BOOLEAN /\ x.type \in TypeIds
  BY ValueShape
<1>3. GetNullValueByType(T) = IntField(T, NullOf(T))
  <2>1. NullOf(T) \in NullOf(T)..MaxOf(T)
    BY <1>1, Limits
  <2> QED BY <1>1, <2>1, IntValueFits DEF GetNullValueByType, IntegerTypes
<1>4. IsError(Throws) /\ IsError(OutOfRange)
  BY DEF IsError, Throws, OutOfRange, Error
<1> DEFINE Ends(i) == /\ r = IntField(T, i)
                      /\ \/ x.type \in NumericTypes /\ i = QTrunc(Num(x))
                         \/ x.type = "VARCHAR" /\ (~WrapsText(x, T) => i = QTrunc(Parsed(x.v)))
<1>9. ASSUME x.type # "DECIMAL", NEW i \in Within(T), Ends(i)
      PROVE  \E j \in NullOf(T)..MaxOf(T) : (j = NullOf(T) <=> BecomesNull(x, T)) /\ Ends(j)
  <2>1. i \in NullOf(T)..MaxOf(T) /\ i # NullOf(T)
    BY <1>1, Limits DEF Within
  <2> HIDE DEF Ends
  <2> QED BY <1>9, <2>1 DEF BecomesNull
<1>5. CASE x.type = "BOOLEAN"
  BY <1>4, <1>5 DEF CastAs, BooleanCastAs, IntegerTypes
<1>6. CASE x.type \in IntegerTypes
  <2>1. r = IntCastAs(x, T)
    BY <1>6 DEF CastAs, TinyintCastAs, SmallintCastAs, IntegerCastAs, BigintCastAs, IntegerTypes
  <2>2. CASE x.null
    BY <1>1, <1>3, <2>1, <2>2 DEF IntCastAs
  <2>3. CASE ~x.null
    <3>1. r = IF FitsIn(IntOf(x), T) THEN IntValue(T, IntOf(x)) ELSE OutOfRange
      BY <1>1, <2>1, <2>3 DEF IntCastAs, ToInteger, IntegerTypes
    <3>2. FitsIn(IntOf(x), T)
      BY <1>4, <3>1
    <3>3. IntOf(x) \in Within(T) /\ IntOf(x) \in NullOf(T)..MaxOf(T) /\ IntOf(x) \in Int
      BY <1>1, <3>2, Limits DEF FitsIn, Within
    <3>4. r = IntField(T, IntOf(x))
      BY <1>1, <3>1, <3>2, <3>3, IntValueFits
    <3>5. QTrunc(Num(x)) = IntOf(x)
      <4>1. Num(x) = <<IntOf(x), 1>>
        BY <1>6 DEF Num, IntegerTypes
      <4>2. PICK n \in Int : n = IntOf(x)
        BY <3>3
      <4>3. Quot(n * 1, 1) = n /\ n * 1 = n
        BY <4>2, QuotExact
      <4> QED BY <4>1, <4>2, <4>3 DEF QTrunc
    <3>6. x.type # "DECIMAL" /\ Ends(IntOf(x))
      BY <1>6, <3>4, <3>5 DEF NumericTypes, IntegerTypes
    <3>7. \E j \in NullOf(T)..MaxOf(T) : (j = NullOf(T) <=> BecomesNull(x, T)) /\ Ends(j)
      <4> HIDE DEF Ends
      <4> QED BY <1>9, <3>3, <3>6
    <3> QED BY <2>3, <3>7
  <2> QED BY <1>2, <2>2, <2>3
<1>7. CASE x.type = "DECIMAL"
  <2>1. r = DecimalCastAs(x, T)
    BY <1>7 DEF CastAs
  <2>2. CASE x.null
    BY <1>1, <1>3, <2>1, <2>2 DEF DecimalCastAs, IntegerTypes
  <2>3. CASE ~x.null
    <3>1. PICK beyond, top : /\ beyond = BeyondLimits(x.v, T)
                             /\ top = (T = "BIGINT" /\ QEqual(<<Rounded(MaxOf(T)), 1>>, x.v))
      OBVIOUS
    <3>2. r = IF beyond \/ top THEN OutOfRange ELSE IntValue(T, QTrunc(x.v))
      BY <1>1, <2>1, <2>3, <3>1 DEF DecimalCastAs, IntegerTypes
    <3>3. ~beyond /\ ~top /\ r = IntValue(T, QTrunc(x.v))
      BY <1>4, <3>2
    <3>4. /\ QTrunc(x.v) \in NullOf(T)..(MaxOf(T) + 1)
          /\ T # "BIGINT" => QTrunc(x.v) \in Within(T)
          /\ T = "BIGINT" => (top <=> QTrunc(x.v) = MaxOf(T) + 1)
      BY <1>7, <2>3, <3>1, <3>3, ValueShape, DecimalLimits
    <3>5. /\ QTrunc(x.v) \in NullOf(T)..MaxOf(T)
          /\ T # "BIGINT" => QTrunc(x.v) # NullOf(T)
      BY <1>1, <3>3, <3>4, Limits DEF Within
    <3>6. r = IntField(T, QTrunc(x.v))
      BY <1>1, <3>3, <3>5, IntValueFits
    <3>7. QTrunc(x.v) = NullOf(T) <=> BecomesNull(x, T)
      BY <1>7, <2>3, <3>5 DEF BecomesNull
    <3>8. Num(x) = x.v /\ x.type \in NumericTypes
      BY <1>7 DEF Num, NumericTypes
    <3> QED BY <2>3, <3>5, <3>6, <3>7, <3>8
  <2> QED BY <1>2, <2>2, <2>3
<1>8. CASE x.type = "VARCHAR"
  <2>1. r = VarlenCastAs(x, T) /\ T # "VARCHAR"
    BY <1>8 DEF CastAs, IntegerTypes
  <2>2. CASE x.null
    BY <1>4, <2>1, <2>2 DEF VarlenCastAs
  <2>3. CASE ~x.null
    <3>1. r = TextAsInteger(x.v, T)
      <4>1. ValueToString(x) = x.v
        BY <1>8 DEF ValueToString, IntegerTypes
      <4> QED BY <2>1, <2>3, <4>1 DEF VarlenCastAs, TextCastAs, IntegerTypes
    <3>2. x.v \in Seq(Int)
      <4>1. x.v \in Seq(0..255)
        BY <1>8, <2>3, ValueShape
      <4>2. 0..255 \subseteq Int
        OBVIOUS
      <4> QED BY <4>1, <4>2, SeqMonotonic, Zenon
    <3>3. PICK s \in Seq(Int) : s = x.v
      BY <3>2
    <3>4. Parsed(s) = <<>> \/ Parsed(s) \in Int \X (Nat \ {0})
      BY ParsedType
    <3>5. PICK i \in Within(T) :
             /\ Parsed(s) # <<>> /\ r = IntField(T, i)
             /\ FitsIn(QTrunc(Parsed(s)), T) \/ T \notin {"TINYINT", "SMALLINT"} =>
                   i = QTrunc(Parsed(s))
      BY <3>1, <3>3, <3>4, TextInteger
    <3>6. ~WrapsText(x, T) => i = QTrunc(Parsed(x.v))
      BY <1>8, <2>3, <3>3, <3>5 DEF WrapsText
    <3>7. x.type # "DECIMAL" /\ Ends(i)
      BY <1>8, <3>5, <3>6
    <3>8. \E j \in NullOf(T)..MaxOf(T) : (j = NullOf(T) <=> BecomesNull(x, T)) /\ Ends(j)
      <4> HIDE DEF Ends
      <4> QED BY <1>9, <3>7
    <3> QED BY <2>3, <3>8
  <2> QED BY <1>2, <2>2, <2>3
<1> QED BY <1>2, <1>5, <1>6, <1>7, <1>8 DEF TypeIds, NumericTypes

(* A number within two integer types converts from one to the other *)
LEMMA CastFits ==
    ASSUME NEW U \in IntegerTypes, NEW T \in IntegerTypes, NEW n \in Within(U), n \in Within(T)
    PROVE  /\ ~IntField(T, n).null
           /\ CastAs(IntField(U, n), T) = IntField(T, n)
<1>1. PICK x : x = IntField(U, n)
  OBVIOUS
<1>2. U \in DOMAIN Widths /\ T \in DOMAIN Widths /\ T \in NumericTypes
  BY DEF IntegerTypes, NumericTypes, Widths
<1>3. /\ n # NullOf(U) /\ n # NullOf(T)
      /\ n \in NullOf(T)..MaxOf(T)
  BY <1>2, Limits DEF Within
<1>4. x.type = U /\ ~x.null /\ IntOf(x) = n
  BY <1>1, <1>3 DEF IntField, IntOf
<1>5. CastAs(x, T) = IntCastAs(x, T)
  BY <1>4 DEF CastAs, TinyintCastAs, SmallintCastAs, IntegerCastAs, BigintCastAs, IntegerTypes
<1>6. IntCastAs(x, T) = ToInteger(n, T)
  BY <1>2, <1>4 DEF IntCastAs, IntegerTypes
<1>7. ToInteger(n, T) = IntField(T, n)
  BY <1>2, <1>3, IntValueFits DEF ToInteger, FitsIn, Within
<1> QED BY <1>1, <1>3, <1>5, <1>6, <1>7 DEF IntField

(* and to its text and back. *)
LEMMA CastPrints ==
    ASSUME NEW U \in IntegerTypes, NEW n \in Within(U)
    PROVE  /\ CastAs(IntField(U, n), "VARCHAR") = StringValue(IntText(n))
           /\ CastAs(StringValue(IntText(n)), U) = IntField(U, n)
<1>1. PICK x, y : x = IntField(U, n) /\ y = StringValue(IntText(n))
  OBVIOUS
<1>2. n # NullOf(U)
  BY Limits DEF Within, IntegerTypes, Widths
<1>3. x.type = U /\ ~x.null /\ IntOf(x) = n
  BY <1>1, <1>2 DEF IntField, IntOf
<1>4. CastAs(x, "VARCHAR") = IntCastAs(x, "VARCHAR")
  BY <1>3 DEF CastAs, TinyintCastAs, SmallintCastAs, IntegerCastAs, BigintCastAs, IntegerTypes
<1>5. IntCastAs(x, "VARCHAR") = StringValue(ValueToString(x))
  BY <1>3 DEF IntCastAs, NumericTypes, IntegerTypes
<1>6. ValueToString(x) = IntText(n)
  BY <1>3 DEF ValueToString, IntegerTypes
<1>7. y.type = "VARCHAR" /\ ~y.null /\ y.v = Append(IntText(n), 0)
  BY <1>1 DEF StringValue
<1>8. CastAs(y, U) = VarlenCastAs(y, U)
  BY <1>7 DEF CastAs
<1>9. VarlenCastAs(y, U) = TextAsInteger(y.v, U)
  <2>1. ValueToString(y) = y.v
    BY <1>7 DEF ValueToString, IntegerTypes
  <2> QED BY <1>7, <2>1 DEF VarlenCastAs, TextCastAs, IntegerTypes
<1> QED BY <1>1, <1>4, <1>5, <1>6, <1>7, <1>8, <1>9, TextRoundTrip

(* Every conversion CastAs makes without throwing keeps NULL, keeps the      *)
(* number up to the fraction an integer drops, that of a text too unless it  *)
(* wraps, and survives the way to the other type and back (the CastAs        *)
(* methods of *_type.cpp)                                                    *)
THEOREM CastsKeepValues == Spec => []CastKeepsValue
<1>1. CallInv => CastKeepsValue
  <2> SUFFICES ASSUME CallInv, call[1] = "CastAs", ~IsError(result) PROVE CastKeepsValue
    BY DEF CastKeepsValue
  <2>1. PICK T \in TypeIds : call = <<"CastAs", T>> /\ result = CastAs(left, T)
    BY DEF CallInv, Idle
  <2>2. /\ call[2] = T /\ IsValue(left) /\ left.null \in BOOLEAN /\ left.type \in TypeIds
    BY <2>1, ValueShape DEF CallInv
  <2>3. PICK U : U = left.type
    OBVIOUS
  <2>4. SUFFICES
          /\ result.type = T
          /\ result.null <=> (left.null \/ BecomesNull(left, T))
          /\ (~left.null /\ {U, T} \subseteq NumericTypes) =>
                \/ QEqual(Num(result), Num(left))
                \/ T \in IntegerTypes /\ IntOf(result) = QTrunc(Num(left))
                \/ /\ U = "BIGINT" /\ T = "DECIMAL"
                   /\ result.v[2] = 1 /\ Adjacent(IntOf(left), result.v[1])
          /\ (~left.null /\ U = "VARCHAR" /\ T \in IntegerTypes /\ ~WrapsText(left, T)) =>
                IntOf(result) = QTrunc(Parsed(left.v))
          /\ (~left.null /\ {U, T} \subseteq IntegerTypes \cup {"VARCHAR"}) =>
                CastAs(CastAs(result, U), T) = result
    BY <2>2, <2>3 DEF CastKeepsValue
  <2>15. T \notin IntegerTypes => ~BecomesNull(left, T)
    BY DEF BecomesNull, IntegerTypes
  <2>5. IsError(Throws)
    BY DEF IsError, Throws, Error
  <2>6. U \in IntegerTypes => U \in DOMAIN Widths
    BY DEF IntegerTypes, Widths
  <2>7. (U \in IntegerTypes /\ ~left.null) =>
           left = IntField(U, IntOf(left)) /\ IntOf(left) \in Within(U)
    BY <2>2, <2>3, <2>6, ValueShape
  <2>8. CASE T \in IntegerTypes
    <3>1. T \in DOMAIN Widths /\ T # "VARCHAR" /\ T \in NumericTypes
      BY <2>8 DEF IntegerTypes, Widths, NumericTypes
    <3>2. CASE left.null
      <4>1. result = IntField(T, NullOf(T))
        BY <2>1, <2>2, <2>8, <3>2, CastToInteger
      <4> QED BY <2>2, <3>2, <4>1 DEF IntField, BecomesNull
    <3>3. CASE ~left.null
      <4>1. PICK i \in NullOf(T)..MaxOf(T) :
               /\ result = IntField(T, i)
               /\ i = NullOf(T) <=> BecomesNull(left, T)
               /\ \/ U \in NumericTypes /\ i = QTrunc(Num(left))
                  \/ U = "VARCHAR" /\ (~WrapsText(left, T) => i = QTrunc(Parsed(left.v)))
        BY <2>1, <2>2, <2>3, <2>8, <3>3, CastToInteger
      <4>2. U # "DECIMAL" => i \in Within(T)
        BY <2>3, <3>1, <4>1, Limits DEF Within, BecomesNull
      <4>3. /\ result.type = T /\ IntOf(result) = i
            /\ result.null <=> (left.null \/ BecomesNull(left, T))
        BY <3>3, <4>1 DEF IntField, IntOf
      <4>4. ASSUME U \in IntegerTypes PROVE CastAs(CastAs(result, U), T) = result
        <5>1. PICK n \in Within(U) : n = IntOf(left) /\ left = IntField(U, n) /\ n \in Int
          BY <2>6, <2>7, <3>3, <4>4, Limits DEF Within
        <5>2. i = n
          <6>1. Num(left) = <<n, 1>>
            BY <2>3, <4>4, <5>1 DEF Num, IntegerTypes
          <6>2. Quot(n * 1, 1) = n /\ n * 1 = n
            BY <5>1, QuotExact
          <6>3. QTrunc(Num(left)) = n
            BY <6>1, <6>2 DEF QTrunc
          <6>4. U # "VARCHAR"
            BY <4>4 DEF IntegerTypes
          <6> QED BY <4>1, <6>3, <6>4
        <5>3. CastAs(result, U) = left
          <6>1. i \in Within(T)
            BY <4>2, <4>4 DEF IntegerTypes
          <6> QED BY <2>8, <4>1, <4>4, <5>1, <5>2, <6>1, CastFits
        <5> QED BY <2>1, <5>3
      <4>5. ASSUME U = "VARCHAR" PROVE CastAs(CastAs(result, U), T) = result
        BY <2>8, <4>1, <4>2, <4>5, CastPrints
      <4>6. {U, T} \subseteq IntegerTypes \cup {"VARCHAR"} => U \in IntegerTypes \/ U = "VARCHAR"
        OBVIOUS
      <4>7. U = "VARCHAR" => U \notin NumericTypes
        BY DEF NumericTypes, IntegerTypes
      <4> QED BY <2>8, <4>1, <4>3, <4>4, <4>5, <4>6, <4>7
    <3> QED BY <2>2, <3>2, <3>3
  <2>9. CASE T = "DECIMAL"
    <3>1. T \notin IntegerTypes /\ T # "VARCHAR"
      BY <2>9 DEF IntegerTypes
    <3>2. SUFFICES /\ result.type = T /\ result.null = left.null
                   /\ (~left.null /\ U \in NumericTypes) =>
                         \/ QEqual(Num(result), Num(left))
                         \/ /\ U = "BIGINT" /\ result.v[2] = 1
                            /\ Adjacent(IntOf(left), result.v[1])
      BY <2>2, <2>9, <2>15, <3>1
    <3>3. CASE U = "BOOLEAN"
      BY <2>1, <2>3, <2>5, <2>9, <3>3 DEF CastAs, BooleanCastAs
    <3>4. CASE U \in IntegerTypes
      <4>1. result = IntCastAs(left, "DECIMAL")
        BY <2>1, <2>3, <2>9, <3>4 DEF CastAs, TinyintCastAs, SmallintCastAs, IntegerCastAs,
           BigintCastAs, IntegerTypes
      <4>2. CASE left.null
        <5>1. result = NullDecimal
          BY <4>1, <4>2 DEF IntCastAs, GetNullValueByType, NumericTypes, IntegerTypes
        <5> QED BY <2>2, <2>9, <4>2, <5>1 DEF NullDecimal
      <4>3. CASE ~left.null
        <5>1. PICK n \in Int : n = IntOf(left) /\ n \in Within(U)
          BY <2>6, <2>7, <3>4, <4>3, Limits DEF Within
        <5>2. result = DecimalValue(<<Rounded(n), 1>>)
          BY <2>3, <3>4, <4>1, <4>3, <5>1 DEF IntCastAs, AsDouble, NumericTypes, IntegerTypes
        <5>3. result.type = T /\ result.null = left.null /\ result.v = <<Rounded(n), 1>>
          BY <2>2, <2>9, <4>3, <5>2 DEF DecimalValue
        <5>4. CASE U # "BIGINT"
          <6>1. Rounded(n) = n
            <7>1. U \in DOMAIN Widths /\ n \in (-Half(U))..Half(U)
              BY <2>6, <3>4, <5>1, Limits DEF Within
            <7> QED BY <5>4, <7>1, NarrowHasBits
          <6>2. Num(result) = Num(left)
            BY <2>3, <2>9, <3>4, <5>1, <5>3, <6>1 DEF Num, IntegerTypes
          <6> QED BY <5>3, <6>2 DEF QEqual
        <5>5. CASE U = "BIGINT"
          <6>1. Adjacent(n, Rounded(n))
            BY RoundedAdjacent
          <6> QED BY <5>1, <5>3, <5>5, <6>1
        <5> QED BY <5>4, <5>5
      <4> QED BY <2>2, <4>2, <4>3
    <3>5. CASE U = "DECIMAL"
      <4>1. result = left
        BY <2>1, <2>3, <2>9, <3>5 DEF CastAs, DecimalCastAs, NumericTypes, IntegerTypes
      <4> QED BY <2>3, <2>9, <3>5, <4>1 DEF QEqual
    <3>6. CASE U = "VARCHAR"
      <4>1. result = VarlenCastAs(left, "DECIMAL") /\ U \notin NumericTypes
        BY <2>1, <2>3, <2>9, <3>6 DEF CastAs, NumericTypes, IntegerTypes
      <4>2. CASE left.null
        BY <2>5, <4>1, <4>2 DEF VarlenCastAs
      <4>3. CASE ~left.null
        <5>1. result = Stod(ValueToString(left))
          BY <4>1, <4>3 DEF VarlenCastAs, TextCastAs, IntegerTypes
        <5>2. PICK p : p = Parsed(ValueToString(left))
          OBVIOUS
        <5>3. result = Throws \/ \E q : result = DecimalValue(q)
          BY <5>1, <5>2 DEF Stod, DoubleOf
        <5>4. PICK q : result = DecimalValue(q)
          BY <2>5, <5>3
        <5>5. result.type = "DECIMAL" /\ result.null = FALSE
          BY <5>4 DEF DecimalValue
        <5>6. left.null = FALSE
          BY <2>2, <4>3
        <5> QED BY <2>9, <4>1, <5>5, <5>6
      <4> QED BY <2>2, <4>2, <4>3
    <3> QED BY <2>2, <2>3, <3>3, <3>4, <3>5, <3>6 DEF TypeIds, NumericTypes
  <2>10. CASE T = "VARCHAR"
    <3>1. T \notin IntegerTypes /\ T \notin NumericTypes /\ ~BecomesNull(left, T)
      BY <2>10, <2>15 DEF IntegerTypes, NumericTypes
    <3>2. CASE left.null
      <4>1. U # "VARCHAR" => result = NullVarchar
        BY <2>1, <2>2, <2>3, <2>10, <3>2 DEF CastAs, BooleanCastAs, TinyintCastAs,
           SmallintCastAs, IntegerCastAs, BigintCastAs, IntCastAs, DecimalCastAs,
           GetNullValueByType, TypeIds, NumericTypes, IntegerTypes
      <4>2. U = "VARCHAR" => result = left /\ left = NullVarchar
        BY <2>1, <2>2, <2>3, <2>10, <3>2, ValueShape DEF CastAs, VarlenCastAs
      <4>3. result = NullVarchar
        BY <4>1, <4>2
      <4>4. result.type = "VARCHAR" /\ result.null = TRUE
        BY <4>3 DEF NullVarchar
      <4>5. left.null = TRUE
        BY <2>2, <3>2
      <4> QED BY <2>10, <3>1, <4>4, <4>5
    <3>3. CASE ~left.null /\ U = "VARCHAR"
      <4>1. result = left
        BY <2>1, <2>3, <2>10, <3>3 DEF CastAs, VarlenCastAs
      <4> QED BY <2>1, <2>3, <2>10, <3>1, <3>3, <4>1
    <3>4. CASE ~left.null /\ U # "VARCHAR"
      <4>1. PICK t : t = ValueToString(left)
        OBVIOUS
      <4>2. result = StringValue(t)
        BY <2>1, <2>2, <2>3, <2>10, <3>4, <4>1 DEF CastAs, BooleanCastAs, TinyintCastAs,
           SmallintCastAs, IntegerCastAs, BigintCastAs, IntCastAs, DecimalCastAs, TypeIds,
           NumericTypes, IntegerTypes
      <4>3. result.type = T /\ result.null = left.null
        BY <2>2, <2>10, <3>4, <4>2 DEF StringValue
      <4>4. ASSUME U \in IntegerTypes PROVE CastAs(CastAs(result, U), T) = result
        <5>1. PICK n \in Within(U) : left = IntField(U, n)
          BY <2>7, <3>4, <4>4
        <5>2. CastAs(left, "VARCHAR") = StringValue(IntText(n))
          BY <4>4, <5>1, CastPrints
        <5>3. CastAs(result, U) = left
          BY <2>1, <2>10, <4>4, <5>1, <5>2, CastPrints
        <5> QED BY <2>1, <5>3
      <4> QED BY <3>1, <3>4, <4>3, <4>4
    <3> QED BY <2>2, <3>2, <3>3, <3>4
  <2>11. CASE T = "BOOLEAN"
    <3>1. T \notin IntegerTypes /\ T \notin NumericTypes /\ T # "VARCHAR"
      BY <2>11 DEF IntegerTypes, NumericTypes
    <3>2. SUFFICES result.type = T /\ result.null = left.null
      BY <2>2, <2>11, <2>15, <3>1
    <3>3. CASE U = "BOOLEAN"
      BY <2>1, <2>3, <2>11, <3>3 DEF CastAs, BooleanCastAs
    <3>4. CASE U \in NumericTypes
      BY <2>1, <2>3, <2>5, <2>11, <3>4 DEF CastAs, TinyintCastAs, SmallintCastAs,
         IntegerCastAs, BigintCastAs, IntCastAs, DecimalCastAs, NumericTypes, IntegerTypes
    <3>5. CASE U = "VARCHAR"
      <4>1. result = VarlenCastAs(left, "BOOLEAN")
        BY <2>1, <2>3, <2>11, <3>5 DEF CastAs
      <4>2. CASE left.null
        BY <2>5, <4>1, <4>2 DEF VarlenCastAs
      <4>3. CASE ~left.null
        <5>1. result = TextAsBoolean(ValueToString(left))
          BY <4>1, <4>3 DEF VarlenCastAs, TextCastAs, IntegerTypes
        <5>2. result \in {Value32("BOOLEAN", 1), Value32("BOOLEAN", 0)}
          BY <2>5, <5>1 DEF TextAsBoolean
        <5>3. ASSUME NEW n \in {0, 1} PROVE Value32("BOOLEAN", n) = IntField("BOOLEAN", n)
          <6>1. "BOOLEAN" \in DOMAIN Widths /\ "INTEGER" \in DOMAIN Widths
            BY DEF Widths
          <6>2. n \in NullOf("BOOLEAN")..MaxOf("BOOLEAN") /\ n \in NullOf("INTEGER")..MaxOf("INTEGER")
            BY <6>1, Limits
          <6>3. Bits("INTEGER") = IntBits
            BY DEF Bits, Widths
          <6>4. Wrap(n, IntBits) = n
            BY <6>1, <6>2, <6>3, IntValueFits
          <6> QED BY <6>1, <6>2, <6>4, IntValueFits DEF Value32
        <5>4. PICK n \in {0, 1} : result = IntField("BOOLEAN", n)
          BY <5>2, <5>3
        <5>5. n # NullOf("BOOLEAN")
          BY Limits DEF Widths
        <5> QED BY <2>2, <2>11, <4>3, <5>4, <5>5 DEF IntField
      <4> QED BY <2>2, <4>2, <4>3
    <3> QED BY <2>2, <2>3, <3>3, <3>4, <3>5 DEF TypeIds
  <2> QED BY <2>8, <2>9, <2>10, <2>11 DEF TypeIds, NumericTypes
<1> QED BY <1>1, CallsKeepInv, PTL
-----------------------------------------------------------------------------
(* Sums is the function its recursive definition describes *)
LEMMA SumsDef ==
    ASSUME NEW s, NEW len \in Nat, s \in [1..len -> Nat], len = Len(s)
    PROVE  /\ Sums(s) = [n \in 0..len |-> IF n = 0 THEN 0 ELSE Sums(s)[n - 1] + s[n]]
           /\ \A n \in 0..len : Sums(s)[n] \in Nat
           /\ Sums(s)[0] = 0
           /\ \A n \in 1..len : Sums(s)[n] = Sums(s)[n - 1] + s[n]
<1> DEFINE Eq(f, m) == f = [n \in 0..m |-> IF n = 0 THEN 0 ELSE f[n - 1] + s[n]]
           bad == {m \in 0..len : ~ \E f : Eq(f, m)}
<1>1. bad = {}
  <2>1. SUFFICES ASSUME bad # {} PROVE FALSE
    OBVIOUS
  <2>2. PICK m \in bad : \A j \in bad : m <= j
    <3>1. bad \subseteq Nat
      OBVIOUS
    <3> HIDE DEF bad
    <3> QED BY <2>1, <3>1, LeastOfNats
  <2>3. CASE m = 0
    <3>1. Eq([n \in 0..0 |-> 0], 0)
      BY SMT
    <3> QED BY <2>2, <2>3, <3>1
  <2>4. CASE m # 0
    <3>0. m \in 0..len
      OBVIOUS
    <3>1. m \in Nat /\ m - 1 \in Nat /\ m \in 1..len /\ m - 1 \in 0..len /\ m - 1 \notin bad
      <4> HIDE DEF bad
      <4> QED BY <2>2, <2>4, <3>0
    <3>2. PICK f : Eq(f, m - 1)
      BY <3>1
    <3>3. PICK g : g = [n \in 0..m |-> IF n = m THEN f[m - 1] + s[m] ELSE f[n]]
      OBVIOUS
    <3>4. ASSUME NEW n \in 0..m PROVE g[n] = IF n = 0 THEN 0 ELSE g[n - 1] + s[n]
      <4>1. n # 0 => n - 1 \in 0..(m - 1) /\ n - 1 \in 0..m /\ n - 1 # m
        BY <3>1
      <4>2. n # m => n \in 0..(m - 1)
        BY <3>1
      <4>3. n # 0 => g[n - 1] = f[n - 1]
        BY <3>3, <4>1
      <4>4. CASE n = m
        BY <2>4, <3>3, <4>3, <4>4
      <4>5. CASE n # m
        <5>1. g[n] = f[n]
          BY <3>3, <4>5
        <5>2. f[n] = IF n = 0 THEN 0 ELSE f[n - 1] + s[n]
          BY <3>2, <4>2, <4>5
        <5> QED BY <4>3, <5>1, <5>2
      <4> QED BY <4>4, <4>5
    <3>5. Eq(g, m)
      BY <3>3, <3>4
    <3> QED BY <2>2, <3>5
  <2> QED BY <2>3, <2>4
<1>2. \E f : Eq(f, len)
  BY <1>1
<1>3. Eq(Sums(s), len)
  <2> DEFINE F(f) == f = [n \in 0..Len(s) |-> IF n = 0 THEN 0 ELSE f[n - 1] + s[n]]
  <2>1. \E f : F(f)
    BY <1>2
  <2>2. Sums(s) = CHOOSE f : F(f)
    BY DEF Sums
  <2>3. F(CHOOSE f : F(f))
    BY <2>1
  <2> QED BY <2>2, <2>3
<1>4. /\ Sums(s)[0] = 0
      /\ \A n \in 1..len : Sums(s)[n] = Sums(s)[n - 1] + s[n]
  BY <1>3
<1>5. \A n \in 0..len : Sums(s)[n] \in Nat
  <2> DEFINE odd == {n \in 0..len : Sums(s)[n] \notin Nat}
  <2>1. SUFFICES ASSUME odd # {} PROVE FALSE
    OBVIOUS
  <2>2. PICK n \in odd : \A j \in odd : n <= j
    <3>1. odd \subseteq Nat
      OBVIOUS
    <3> HIDE DEF odd
    <3> QED BY <2>1, <3>1, LeastOfNats
  <2>3. n # 0
    BY <1>4, <2>2
  <2>4. n \in 1..len /\ n - 1 \in 0..len /\ n - 1 \notin odd
    BY <2>2, <2>3
  <2>5. Sums(s)[n - 1] \in Nat /\ s[n] \in Nat
    BY <2>4
  <2> QED BY <1>4, <2>2, <2>4, <2>5
<1> QED BY <1>3, <1>4, <1>5

(* and what was summed earlier lies before what is summed later *)
LEMMA SumsGrow ==
    ASSUME NEW s, NEW len \in Nat, s \in [1..len -> Nat], len = Len(s)
    PROVE  \A i \in 1..len, j \in 0..len : i <= j => Sums(s)[i - 1] + s[i] <= Sums(s)[j]
<1> USE SumsDef
<1>1. SUFFICES ASSUME NEW i \in 1..len,
                      {j \in 0..len : i <= j /\ ~ (Sums(s)[i - 1] + s[i] <= Sums(s)[j])} # {}
               PROVE  FALSE
  OBVIOUS
<1> DEFINE bad == {j \in 0..len : i <= j /\ ~ (Sums(s)[i - 1] + s[i] <= Sums(s)[j])}
<1>2. PICK j \in bad : \A k \in bad : j <= k
  <2>1. bad \subseteq Nat /\ bad # {}
    BY <1>1
  <2> HIDE DEF bad
  <2> QED BY <2>1, LeastOfNats
<1>3. i \in 0..len /\ i - 1 \in 0..len
  OBVIOUS
<1>4. Sums(s)[i] = Sums(s)[i - 1] + s[i] /\ Sums(s)[i] \in Nat
  BY <1>3
<1>5. j # i
  BY <1>2, <1>4
<1>6. j \in 1..len /\ j - 1 \in 0..len /\ i <= j - 1 /\ j - 1 \notin bad
  BY <1>2, <1>5
<1>7. Sums(s)[j] = Sums(s)[j - 1] + s[j] /\ s[j] \in Nat /\ Sums(s)[j] \in Nat /\ Sums(s)[j - 1] \in Nat
  BY <1>6
<1>8. Sums(s)[i - 1] + s[i] <= Sums(s)[j - 1]
  BY <1>6
<1> QED BY <1>2, <1>3, <1>4, <1>7, <1>8
-----------------------------------------------------------------------------
(* n bytes from off on that are the word w *)
Holds(mem, off, n, w) ==
    \A k \in 0..(n - 1) : off + k \in DOMAIN mem /\ mem[off + k] = Byte(w, k, n)

(* The memory is a function, as every memory is *)
IsMemory(mem) == mem = [a \in DOMAIN mem |-> mem[a]]

(* The bytes a value takes where it is written, and that they are there *)
Extent(x) == IF x.type = "VARCHAR" THEN LengthOf(x) + 4 ELSE TypeSize(x.type)
Stored(mem, off, x) ==
    IF x.type # "VARCHAR" THEN Holds(mem, off, TypeSize(x.type), x.v)
    ELSE IF x.null THEN Holds(mem, off, 4, <<VALUE_NULL>>)
    ELSE /\ Holds(mem, off, 4, <<Len(x.v)>>)
         /\ \A k \in 1..Len(x.v) : Holds(mem, off + 3 + k, 1, <<x.v[k]>>)

(* The sizes of the types *)
LEMMA SizeFacts ==
    ASSUME NEW T \in TypeIds
    PROVE  TypeSize(T) \in Nat /\ TypeSize(T) > 0 /\ TypeSize("VARCHAR") = 12
<1>1. /\ TypeSize("BOOLEAN") = 1 /\ TypeSize("TINYINT") = 1 /\ TypeSize("SMALLINT") = 2
      /\ TypeSize("INTEGER") = 4 /\ TypeSize("BIGINT") = 8 /\ TypeSize("DECIMAL") = 8
      /\ TypeSize("VARCHAR") = 12
  BY DEF TypeSize
<1> QED BY <1>1 DEF TypeIds, NumericTypes, IntegerTypes

(* A value takes a natural number of bytes *)
LEMMA ExtentFacts ==
    ASSUME NEW x, IsValue(x)
    PROVE  /\ Extent(x) \in Nat /\ LengthOf(x) \in Nat
           /\ x.type = "VARCHAR" => Extent(x) = LengthOf(x) + 4
           /\ x.type # "VARCHAR" => Extent(x) = TypeSize(x.type)
<1>1. x.type \in TypeIds /\ TypeSize(x.type) \in Nat
  BY ValueShape, SizeFacts
<1>2. LengthOf(x) \in Nat /\ (x.type = "VARCHAR" => LengthOf(x) \in Nat)
  <2>1. CASE x.type = "VARCHAR" /\ ~x.null
    BY <2>1, ValueShape DEF LengthOf
  <2>2. CASE x.null
    BY <2>2 DEF LengthOf
  <2>3. CASE x.type = "DECIMAL" /\ ~x.null
    <3>1. PICK a, b : x.v = <<a, b>>
      BY <2>3, ValueShape
    <3> QED BY <2>3, <3>1 DEF LengthOf
  <2>4. CASE x.type \in DOMAIN Widths /\ ~x.null
    <3>1. x.v = <<IntOf(x)>>
      BY <2>4, ValueShape DEF IntField
    <3> QED BY <2>4, <3>1 DEF LengthOf
  <2>5. x.type \in DOMAIN Widths \/ x.type \in {"DECIMAL", "VARCHAR"}
    BY <1>1 DEF TypeIds, NumericTypes, IntegerTypes, Widths
  <2>6. x.null \in BOOLEAN
    BY ValueShape
  <2> QED BY <2>1, <2>2, <2>3, <2>4, <2>5, <2>6
<1> QED BY <1>1, <1>2 DEF Extent

(* Put writes the word and nothing else *)
LEMMA PutHolds ==
    ASSUME NEW mem, NEW off \in Nat, NEW n \in Nat, NEW w,
           off..(off + n - 1) \subseteq DOMAIN mem
    PROVE  /\ DOMAIN Put(mem, off, n, w) = DOMAIN mem /\ IsMemory(Put(mem, off, n, w))
           /\ Holds(Put(mem, off, n, w), off, n, w)
           /\ \A a \in DOMAIN mem \ (off..(off + n - 1)) : Put(mem, off, n, w)[a] = mem[a]
<1>1. DOMAIN Put(mem, off, n, w) = DOMAIN mem /\ IsMemory(Put(mem, off, n, w))
  BY DEF Put, IsMemory
<1>2. ASSUME NEW k \in 0..(n - 1)
      PROVE  off + k \in DOMAIN mem /\ Put(mem, off, n, w)[off + k] = Byte(w, k, n)
  <2>1. off + k \in off..(off + n - 1) /\ (off + k) - off = k
    OBVIOUS
  <2> QED BY <2>1 DEF Put
<1>3. \A a \in DOMAIN mem \ (off..(off + n - 1)) : Put(mem, off, n, w)[a] = mem[a]
  BY DEF Put
<1> QED BY <1>1, <1>2, <1>3 DEF Holds

(* Get reads a word back *)
LEMMA GetHolds ==
    ASSUME NEW mem, NEW off \in Nat, NEW n \in Nat, n > 0, NEW w, Holds(mem, off, n, w)
    PROVE  Get(mem, off, n) = w
<1>1. 0 \in 0..(n - 1) /\ off + 0 = off
  OBVIOUS
<1>2. mem[off] = Byte(w, 0, n)
  BY <1>1 DEF Holds
<1>3. mem[off].w = w
  BY <1>2 DEF Byte
<1>4. \A k \in 0..(n - 1) : off + k \in DOMAIN mem /\ mem[off + k] = Byte(mem[off].w, k, n)
  BY <1>3 DEF Holds
<1> QED BY <1>3, <1>4 DEF Get

(* A word stays as long as its bytes do *)
LEMMA HoldsStays ==
    ASSUME NEW mem, NEW mem2, NEW off \in Nat, NEW n \in Nat, NEW w, Holds(mem, off, n, w),
           DOMAIN mem2 = DOMAIN mem, \A a \in off..(off + n - 1) : mem2[a] = mem[a]
    PROVE  Holds(mem2, off, n, w)
<1>1. ASSUME NEW k \in 0..(n - 1)
      PROVE  off + k \in DOMAIN mem2 /\ mem2[off + k] = Byte(w, k, n)
  <2>1. off + k \in off..(off + n - 1)
    OBVIOUS
  <2> QED BY <2>1 DEF Holds
<1> QED BY <1>1 DEF Holds
-----------------------------------------------------------------------------
(* SerializeTo writes the value and nothing else *)
LEMMA SerializeStores ==
    ASSUME NEW x, IsValue(x), NEW mem, NEW off \in Nat,
           off..(off + Extent(x) - 1) \subseteq DOMAIN mem
    PROVE  /\ DOMAIN SerializeTo(x, mem, off) = DOMAIN mem /\ IsMemory(SerializeTo(x, mem, off))
           /\ Stored(SerializeTo(x, mem, off), off, x)
           /\ \A a \in DOMAIN mem \ (off..(off + Extent(x) - 1)) :
                 SerializeTo(x, mem, off)[a] = mem[a]
<1> USE ExtentFacts
<1>1. x.null \in BOOLEAN /\ TypeSize(x.type) \in Nat
  BY ValueShape, SizeFacts
<1>2. CASE x.type # "VARCHAR"
  <2>1. Extent(x) = TypeSize(x.type)
    BY <1>2
  <2>2. SerializeTo(x, mem, off) = Put(mem, off, TypeSize(x.type), x.v)
    BY <1>2 DEF SerializeTo
  <2>3. PICK n \in Nat, w \in {x.v} : n = TypeSize(x.type)
    BY <1>1
  <2>4. off..(off + n - 1) \subseteq DOMAIN mem
    BY <2>1, <2>3
  <2>5. /\ DOMAIN Put(mem, off, n, w) = DOMAIN mem /\ IsMemory(Put(mem, off, n, w))
        /\ Holds(Put(mem, off, n, w), off, n, w)
        /\ \A a \in DOMAIN mem \ (off..(off + n - 1)) : Put(mem, off, n, w)[a] = mem[a]
    BY <2>4, PutHolds
  <2> QED BY <1>2, <2>1, <2>2, <2>3, <2>5 DEF Stored
<1>3. CASE x.type = "VARCHAR" /\ x.null
  <2>1. Extent(x) = 4
    BY <1>3 DEF Extent, LengthOf
  <2>2. SerializeTo(x, mem, off) = Put(mem, off, 4, <<VALUE_NULL>>)
    BY <1>3 DEF SerializeTo, VarlenSerializeTo
  <2> QED BY <1>3, <2>1, <2>2, PutHolds DEF Stored
<1>4. CASE x.type = "VARCHAR" /\ ~x.null
  <2>1. PICK n \in Nat : n = Len(x.v) /\ Extent(x) = n + 4
    BY <1>4 DEF Extent, LengthOf
  <2>2. PICK sized : sized = Put(mem, off, 4, <<n>>)
    OBVIOUS
  <2>3. off..(off + 4 - 1) \subseteq DOMAIN mem
    BY <2>1
  <2>4. /\ DOMAIN sized = DOMAIN mem /\ Holds(sized, off, 4, <<n>>)
        /\ \A a \in DOMAIN mem \ (off..(off + 4 - 1)) : sized[a] = mem[a]
    BY <2>2, <2>3, PutHolds
  <2>5. PICK full : full = [a \in DOMAIN mem |-> IF a \in (off + 4)..(off + 3 + n)
                                               THEN Byte(<<x.v[a - off - 3]>>, 0, 1)
                                               ELSE sized[a]]
    OBVIOUS
  <2>6. SerializeTo(x, mem, off) = full
    BY <1>4, <2>1, <2>2, <2>5 DEF SerializeTo, VarlenSerializeTo
  <2>7. DOMAIN full = DOMAIN mem /\ IsMemory(full)
    BY <2>5 DEF IsMemory
  <2>8. Holds(full, off, 4, <<n>>)
    <3>1. \A a \in off..(off + 4 - 1) : full[a] = sized[a]
      BY <2>3, <2>5
    <3> QED BY <2>4, <2>7, <3>1, HoldsStays
  <2>9. ASSUME NEW k \in 1..n PROVE Holds(full, off + 3 + k, 1, <<x.v[k]>>)
    <3>1. off + 3 + k \in (off + 4)..(off + 3 + n) /\ (off + 3 + k) - off - 3 = k
          /\ off + 3 + k \in off..(off + Extent(x) - 1)
      BY <2>1
    <3>2. off + 3 + k \in DOMAIN mem
      BY <3>1
    <3>3. full[off + 3 + k] = Byte(<<x.v[k]>>, 0, 1)
      BY <2>5, <3>1, <3>2
    <3>4. \A j \in 0..(1 - 1) : j = 0
      OBVIOUS
    <3>5. (off + 3 + k) + 0 = off + 3 + k
      OBVIOUS
    <3> QED BY <2>7, <3>2, <3>3, <3>4, <3>5 DEF Holds
  <2>10. ASSUME NEW a \in DOMAIN mem \ (off..(off + Extent(x) - 1)) PROVE full[a] = mem[a]
    <3>0. /\ (off + 4)..(off + 3 + n) \subseteq off..(off + Extent(x) - 1)
          /\ off..(off + 4 - 1) \subseteq off..(off + Extent(x) - 1)
      <4>1. PICK e \in Nat : e = Extent(x) /\ e = n + 4
        BY <2>1
      <4> QED BY <4>1
    <3>1. a \notin (off + 4)..(off + 3 + n) /\ a \notin off..(off + 4 - 1)
      BY <3>0
    <3> QED BY <2>4, <2>5, <3>1
  <2> QED BY <1>4, <2>1, <2>6, <2>7, <2>8, <2>9, <2>10 DEF Stored
<1> QED BY <1>1, <1>2, <1>3, <1>4

(* A stored value stays as long as its bytes do, *)
LEMMA StoredStays ==
    ASSUME NEW x, IsValue(x), NEW mem, NEW mem2, NEW off \in Nat, Stored(mem, off, x),
           DOMAIN mem2 = DOMAIN mem, \A a \in off..(off + Extent(x) - 1) : mem2[a] = mem[a]
    PROVE  Stored(mem2, off, x)
<1> USE ExtentFacts
<1>1. x.null \in BOOLEAN /\ TypeSize(x.type) \in Nat
  BY ValueShape, SizeFacts
<1>2. CASE x.type # "VARCHAR"
  BY <1>1, <1>2, HoldsStays DEF Stored
<1>3. CASE x.type = "VARCHAR" /\ x.null
  <2>1. Extent(x) = 4
    BY <1>3 DEF Extent, LengthOf
  <2> QED BY <1>3, <2>1, HoldsStays DEF Stored
<1>4. CASE x.type = "VARCHAR" /\ ~x.null
  <2>1. PICK n \in Nat : n = Len(x.v) /\ Extent(x) = n + 4
    BY <1>4 DEF Extent, LengthOf
  <2>2. /\ Holds(mem, off, 4, <<n>>)
        /\ \A k \in 1..n : Holds(mem, off + 3 + k, 1, <<x.v[k]>>)
    BY <1>4, <2>1 DEF Stored
  <2>3. Holds(mem2, off, 4, <<n>>)
    <3>1. \A a \in off..(off + 4 - 1) : mem2[a] = mem[a]
      BY <2>1
    <3> QED BY <2>2, <3>1, HoldsStays
  <2>4. ASSUME NEW k \in 1..n PROVE Holds(mem2, off + 3 + k, 1, <<x.v[k]>>)
    <3>1. \A a \in (off + 3 + k)..((off + 3 + k) + 1 - 1) : mem2[a] = mem[a]
      BY <2>1
    <3>2. off + 3 + k \in Nat
      OBVIOUS
    <3> QED BY <2>2, <3>1, <3>2, HoldsStays
  <2> QED BY <1>4, <2>1, <2>3, <2>4 DEF Stored
<1> QED BY <1>1, <1>2, <1>3, <1>4

(* and DeserializeFrom reads it back *)
LEMMA DeserializeReads ==
    ASSUME NEW x, IsValue(x), NEW mem, NEW off \in Nat, Stored(mem, off, x)
    PROVE  DeserializeFrom(mem, off, x.type) = x
<1>1. /\ x.null \in BOOLEAN /\ x.type \in TypeIds
      /\ TypeSize(x.type) \in Nat /\ TypeSize(x.type) > 0
  BY ValueShape, SizeFacts
<1>2. CASE x.type = "DECIMAL"
  <2>1. Get(mem, off, TypeSize(x.type)) = x.v
    BY <1>1, <1>2, GetHolds DEF Stored
  <2>2. CASE x.null
    <3>1. x = NullDecimal /\ x.v = Torn
      BY <1>2, <2>2, ValueShape DEF NullDecimal, Torn
    <3> QED BY <1>2, <2>1, <3>1 DEF DeserializeFrom
  <2>3. CASE ~x.null
    <3>1. x = DecimalValue(x.v) /\ x.v \in Int \X (Nat \ {0})
      BY <1>2, <2>3, ValueShape
    <3>2. x.v # Torn
      <4>1. PICK a, b : x.v = <<a, b>>
        BY <3>1
      <4>2. Len(<<a, b>>) = 2 /\ Len(<<>>) = 0
        OBVIOUS
      <4> QED BY <4>1, <4>2 DEF Torn
    <3> QED BY <1>2, <2>1, <3>1, <3>2 DEF DeserializeFrom
  <2> QED BY <1>1, <2>2, <2>3
<1>3. CASE x.type \in DOMAIN Widths
  <2>1. x.type # "VARCHAR" /\ x.type # "DECIMAL"
    BY <1>3 DEF Widths
  <2>2. /\ x = IntField(x.type, IntOf(x)) /\ IntOf(x) \in NullOf(x.type)..MaxOf(x.type)
        /\ x.v = <<IntOf(x)>>
    BY <1>3, ValueShape DEF IntField
  <2>3. Get(mem, off, TypeSize(x.type)) = x.v
    BY <1>1, <2>1, GetHolds DEF Stored
  <2>4. x.v # Torn /\ x.v[1] = IntOf(x)
    BY <2>2 DEF Torn
  <2>5. DeserializeFrom(mem, off, x.type) = IntValue(x.type, IntOf(x))
    BY <2>1, <2>3, <2>4 DEF DeserializeFrom
  <2> QED BY <1>3, <2>2, <2>5, IntValueFits
<1>4. CASE x.type = "VARCHAR"
  <2>1. DeserializeFrom(mem, off, x.type) = VarlenDeserializeFrom(mem, off)
    BY <1>4 DEF DeserializeFrom
  <2>2. CASE x.null
    <3>1. Get(mem, off, 4) = <<VALUE_NULL>>
      BY <1>4, <2>2, GetHolds DEF Stored
    <3>2. <<VALUE_NULL>> # Torn
      BY DEF Torn
    <3> QED BY <1>4, <2>1, <2>2, <3>1, <3>2, ValueShape DEF VarlenDeserializeFrom
  <2>3. CASE ~x.null
    <3>1. x = VarlenValue(x.v) /\ x.v \in Seq(0..255)
      BY <1>4, <2>3, ValueShape
    <3>2. PICK n \in Nat : n = Len(x.v)
      BY <3>1
    <3>3. Get(mem, off, 4) = <<n>>
      BY <1>4, <2>3, <3>2, GetHolds DEF Stored
    <3>4. <<n>> # Torn /\ <<n>> # <<VALUE_NULL>> /\ <<n>>[1] = n
      BY DEF Torn, VALUE_NULL
    <3>5. \A k \in 1..n : Get(mem, off + 3 + k, 1) = <<x.v[k]>>
      <4>1. ASSUME NEW k \in 1..n PROVE Get(mem, off + 3 + k, 1) = <<x.v[k]>>
        <5>1. Holds(mem, off + 3 + k, 1, <<x.v[k]>>)
          BY <1>4, <2>3, <3>2 DEF Stored
        <5>2. off + 3 + k \in Nat
          OBVIOUS
        <5> QED BY <5>1, <5>2, GetHolds
      <4> QED BY <4>1
    <3>6. [k \in 1..n |-> Get(mem, off + 3 + k, 1)[1]] = x.v
      <4>1. x.v = [k \in 1..n |-> x.v[k]]
        BY <3>1, <3>2
      <4>2. \A k \in 1..n : Get(mem, off + 3 + k, 1)[1] = x.v[k]
        BY <3>5
      <4> QED BY <4>1, <4>2
    <3>7. VarlenDeserializeFrom(mem, off) = VarlenValue(x.v)
      BY <3>3, <3>4, <3>6 DEF VarlenDeserializeFrom
    <3> QED BY <2>1, <3>1, <3>7
  <2> QED BY <1>1, <2>2, <2>3
<1> QED BY <1>1, <1>2, <1>3, <1>4 DEF TypeIds, NumericTypes, IntegerTypes, Widths
-----------------------------------------------------------------------------
(* The memory after n columns, for n up to the last: the local function of  *)
(* NewTuple                                                                 *)
Building(row, schema, m, f) ==
    f = [n \in 0..m |->
            IF n = 0 THEN [data |-> [a \in 0..(TupleSize(row, schema) - 1) |-> Byte(<<0>>, 0, 1)],
                           offset |-> schema.length]
                     ELSE TupleStep(f[n - 1], schema.cols[n], row[n])]

LEMMA NewTupleBuilds ==
    ASSUME NEW row, NEW schema, NEW len \in Nat, len = Len(row)
    PROVE  \E f : Building(row, schema, len, f) /\ NewTuple(row, schema) = f[len].data
<1> DEFINE start == [data |-> [a \in 0..(TupleSize(row, schema) - 1) |-> Byte(<<0>>, 0, 1)],
                     offset |-> schema.length]
           bad == {m \in 0..len : ~ \E f : Building(row, schema, m, f)}
<1>1. bad = {}
  <2>1. SUFFICES ASSUME bad # {} PROVE FALSE
    OBVIOUS
  <2>2. PICK m \in bad : \A j \in bad : m <= j
    <3>1. bad \subseteq Nat
      OBVIOUS
    <3> HIDE DEF bad
    <3> QED BY <2>1, <3>1, LeastOfNats
  <2>3. CASE m = 0
    <3>1. Building(row, schema, 0, [n \in 0..0 |-> start])
      <4>1. \A n \in 0..0 : n = 0
        OBVIOUS
      <4> QED BY <4>1, Zenon DEF Building
    <3> QED BY <2>2, <2>3, <3>1
  <2>4. CASE m # 0
    <3>0. m \in 0..len
      OBVIOUS
    <3>1. m \in Nat /\ m - 1 \in Nat /\ m \in 1..len /\ m - 1 \in 0..len /\ m - 1 \notin bad
      <4> HIDE DEF bad
      <4> QED BY <2>2, <2>4, <3>0
    <3>2. PICK f : Building(row, schema, m - 1, f)
      BY <3>1
    <3>3. PICK g : g = [n \in 0..m |-> IF n = m THEN TupleStep(f[m - 1], schema.cols[m], row[m])
                                               ELSE f[n]]
      OBVIOUS
    <3>4. ASSUME NEW n \in 0..m
          PROVE  g[n] = IF n = 0 THEN start ELSE TupleStep(g[n - 1], schema.cols[n], row[n])
      <4> HIDE DEF start
      <4>1. n # 0 => n - 1 \in 0..(m - 1) /\ n - 1 \in 0..m /\ n - 1 # m
        BY <3>1
      <4>2. n # m => n \in 0..(m - 1)
        BY <3>1
      <4>3. n # 0 => g[n - 1] = f[n - 1]
        BY <3>3, <4>1
      <4>4. CASE n = m
        BY <2>4, <3>3, <4>3, <4>4
      <4>5. CASE n # m
        <5>1. g[n] = f[n]
          BY <3>3, <4>5
        <5>2. f[n] = IF n = 0 THEN start ELSE TupleStep(f[n - 1], schema.cols[n], row[n])
          BY <3>2, <4>2, <4>5 DEF Building, start
        <5> QED BY <4>3, <5>1, <5>2
      <4> QED BY <4>4, <4>5
    <3>5. Building(row, schema, m, g)
      <4>1. g = [n \in 0..m |-> IF n = 0 THEN start
                                         ELSE TupleStep(g[n - 1], schema.cols[n], row[n])]
        <5> HIDE DEF start
        <5> QED BY <3>3, <3>4
      <4> QED BY <4>1 DEF Building
    <3> QED BY <2>2, <3>5
  <2> QED BY <2>3, <2>4
<1>2. \E f : Building(row, schema, len, f)
  BY <1>1
<1>3. NewTuple(row, schema) = (CHOOSE f : Building(row, schema, len, f))[len].data
  BY DEF NewTuple, Building
<1>4. Building(row, schema, len, CHOOSE f : Building(row, schema, len, f))
  BY <1>2, Zenon
<1> QED BY <1>3, <1>4
-----------------------------------------------------------------------------
(* Column x of a row, with its part in the fixed and in the variable length *)
(* region                                                                   *)
TailSize(x) == IF x.type = "VARCHAR" THEN LengthOf(x) + 4 ELSE 0
InColumn(mem, off, var, x) ==
    IF x.type = "VARCHAR" THEN Holds(mem, off, 4, <<var>>) /\ Stored(mem, var, x)
                          ELSE Stored(mem, off, x)

(* u is t with the column written into its two regions, and nowhere else *)
Wrote(u, t, off, var, size, x) ==
    /\ \E d : u = [data |-> d, offset |-> var + TailSize(x)]
    /\ DOMAIN u.data = 0..(size - 1) /\ IsMemory(u.data)
    /\ InColumn(u.data, off, var, x)
    /\ \A a \in 0..(size - 1) :
          (/\ a \notin off..(off + TypeSize(x.type) - 1)
           /\ a \notin var..(var + TailSize(x) - 1)) => u.data[a] = t.data[a]

(* which is what TupleStep does *)
LEMMA TupleStepWrites ==
    ASSUME NEW x, IsValue(x), NEW off \in Nat, NEW var \in Nat, NEW size \in Nat,
           NEW t, DOMAIN t.data = 0..(size - 1), t.offset = var, t = [data |-> t.data, offset |-> var],
           NEW col, col = [type |-> x.type, offset |-> off],
           off + TypeSize(x.type) <= var, var + TailSize(x) <= size
    PROVE  Wrote(TupleStep(t, col, x), t, off, var, size, x)
<1>1. x.type \in TypeIds /\ TypeSize(x.type) \in Nat /\ TypeSize("VARCHAR") = 12
  BY ValueShape, SizeFacts
<1>2. col.type = x.type /\ col.offset = off
  OBVIOUS
<1>3. CASE x.type # "VARCHAR"
  <2>1. TailSize(x) = 0 /\ Extent(x) = TypeSize(x.type)
    BY <1>3 DEF TailSize, Extent
  <2>2. PICK d : d = SerializeTo(x, t.data, off)
    OBVIOUS
  <2>3. TupleStep(t, col, x) = [t EXCEPT !.data = d]
    BY <1>2, <1>3, <2>2 DEF TupleStep, IsInlined
  <2>4. [t EXCEPT !.data = d] = [data |-> d, offset |-> var]
    OBVIOUS
  <2>5. off..(off + Extent(x) - 1) \subseteq DOMAIN t.data
    BY <1>1, <2>1
  <2>6. /\ DOMAIN d = 0..(size - 1) /\ Stored(d, off, x) /\ IsMemory(d)
        /\ \A a \in (0..(size - 1)) \ (off..(off + Extent(x) - 1)) : d[a] = t.data[a]
    BY <2>2, <2>5, SerializeStores
  <2>7. TupleStep(t, col, x).data = d /\ var + TailSize(x) = var
    BY <2>1, <2>3, <2>4
  <2> QED BY <1>3, <2>1, <2>3, <2>4, <2>6, <2>7 DEF InColumn, Wrote
<1>4. CASE x.type = "VARCHAR"
  <2>1. PICK n \in Nat : n = LengthOf(x)
    BY ExtentFacts
  <2>2. TailSize(x) = n + 4 /\ Extent(x) = n + 4 /\ TypeSize(x.type) = 12
    BY <1>1, <1>4, <2>1 DEF TailSize, Extent
  <2>3. PICK m : m = Put(t.data, off, 4, <<var>>)
    OBVIOUS
  <2>4. off..(off + 4 - 1) \subseteq DOMAIN t.data
    BY <2>2
  <2>5. /\ DOMAIN m = 0..(size - 1) /\ Holds(m, off, 4, <<var>>)
        /\ \A a \in (0..(size - 1)) \ (off..(off + 4 - 1)) : m[a] = t.data[a]
    <3>1. PICK w, b, k : w = <<var>> /\ b = t.data /\ k = 4 /\ m = Put(b, off, k, w)
      BY <2>3
    <3>2. DOMAIN b = 0..(size - 1) /\ off..(off + k - 1) \subseteq DOMAIN b /\ k \in Nat
      BY <2>4, <3>1
    <3>3. /\ DOMAIN m = DOMAIN b /\ Holds(m, off, k, w)
          /\ \A a \in DOMAIN b \ (off..(off + k - 1)) : m[a] = b[a]
      BY <3>1, <3>2, PutHolds
    <3> QED BY <3>1, <3>2, <3>3
  <2>6. PICK d : d = SerializeTo(x, m, var)
    OBVIOUS
  <2>7. var..(var + Extent(x) - 1) \subseteq DOMAIN m
    BY <2>2, <2>5
  <2>8. /\ DOMAIN d = 0..(size - 1) /\ Stored(d, var, x) /\ IsMemory(d)
        /\ \A a \in (0..(size - 1)) \ (var..(var + Extent(x) - 1)) : d[a] = m[a]
    BY <2>5, <2>6, <2>7, SerializeStores
  <2>9. TupleStep(t, col, x) = [data |-> d, offset |-> var + n + 4]
    BY <1>2, <1>4, <2>1, <2>3, <2>6 DEF TupleStep, IsInlined
  <2>10. Holds(d, off, 4, <<var>>)
    <3>1. \A a \in off..(off + 4 - 1) : d[a] = m[a]
      BY <2>2, <2>8
    <3> QED BY <2>5, <2>8, <3>1, HoldsStays
  <2>11. ASSUME NEW a \in 0..(size - 1), a \notin off..(off + TypeSize(x.type) - 1),
                a \notin var..(var + TailSize(x) - 1)
         PROVE  d[a] = t.data[a]
    <3>1. a \notin off..(off + 4 - 1) /\ a \notin var..(var + Extent(x) - 1)
      BY <2>2, <2>11
    <3> QED BY <2>5, <2>8, <3>1
  <2>12. var + n + 4 = var + TailSize(x) /\ TupleStep(t, col, x).data = d
    BY <2>2, <2>9
  <2> QED BY <1>4, <2>8, <2>9, <2>10, <2>11, <2>12 DEF InColumn, Wrote
<1> QED BY <1>3, <1>4

(* A column stays as long as the bytes of its two regions do *)
LEMMA InColumnStays ==
    ASSUME NEW x, IsValue(x), NEW off \in Nat, NEW var \in Nat, NEW mem, NEW mem2,
           InColumn(mem, off, var, x), DOMAIN mem2 = DOMAIN mem,
           \A a \in off..(off + TypeSize(x.type) - 1) : mem2[a] = mem[a],
           \A a \in var..(var + TailSize(x) - 1) : mem2[a] = mem[a]
    PROVE  InColumn(mem2, off, var, x)
<1>1. x.type \in TypeIds /\ TypeSize(x.type) \in Nat /\ TypeSize("VARCHAR") = 12
  BY ValueShape, SizeFacts
<1>2. CASE x.type # "VARCHAR"
  <2>1. Extent(x) = TypeSize(x.type)
    BY <1>2 DEF Extent
  <2> QED BY <1>2, <2>1, StoredStays DEF InColumn
<1>3. CASE x.type = "VARCHAR"
  <2>1. Extent(x) = TailSize(x) /\ TypeSize(x.type) = 12
    BY <1>1, <1>3 DEF Extent, TailSize
  <2>2. \A a \in off..(off + 4 - 1) : mem2[a] = mem[a]
    BY <2>1
  <2>3. Holds(mem2, off, 4, <<var>>)
    BY <1>3, <2>2, HoldsStays DEF InColumn
  <2>4. Stored(mem2, var, x)
    BY <1>3, <2>1, StoredStays DEF InColumn
  <2> QED BY <1>3, <2>3, <2>4 DEF InColumn
<1> QED BY <1>2, <1>3

(* GetValue reads a column back *)
LEMMA ColumnReads ==
    ASSUME NEW x, IsValue(x), NEW off \in Nat, NEW var \in Nat, NEW mem,
           InColumn(mem, off, var, x), NEW schema, NEW i,
           schema.cols[i] = [type |-> x.type, offset |-> off]
    PROVE  GetValue(mem, schema, i) = x
<1>1. schema.cols[i].type = x.type /\ schema.cols[i].offset = off
  OBVIOUS
<1>2. CASE x.type # "VARCHAR"
  <2>1. GetDataPtr(mem, schema, i) = off
    BY <1>1, <1>2 DEF GetDataPtr, IsInlined
  <2> QED BY <1>1, <1>2, <2>1, DeserializeReads DEF GetValue, InColumn
<1>3. CASE x.type = "VARCHAR"
  <2>1. Get(mem, off, 4) = <<var>>
    BY <1>3, GetHolds DEF InColumn
  <2>2. GetDataPtr(mem, schema, i) = var
    BY <1>1, <1>3, <2>1 DEF GetDataPtr, IsInlined
  <2> QED BY <1>1, <1>3, <2>2, DeserializeReads DEF GetValue, InColumn
<1> QED BY <1>2, <1>3

(* The layout of a row: its columns follow each other in the fixed part, the *)
(* texts follow each other behind it                                         *)
LaidOut(row, schema, len, off, var, size) ==
    /\ schema.length = var[0] /\ TupleSize(row, schema) = size
    /\ var[len] = size
    /\ \A i \in 1..len :
          /\ schema.cols[i] = [type |-> row[i].type, offset |-> off[i]]
          /\ off[i] + TypeSize(row[i].type) <= var[0]
          /\ var[0] <= var[i - 1] /\ var[i] <= size
          /\ var[i] = var[i - 1] + TailSize(row[i])
          /\ \A j \in 1..len : i < j =>
                /\ off[i] + TypeSize(row[i].type) <= off[j]
                /\ var[i] <= var[j - 1]

LEMMA Layout ==
    ASSUME NEW len \in Nat, NEW row, row \in Seq(Range(row)), Len(row) = len,
           \A i \in 1..len : IsValue(row[i]),
           NEW types, types = [i \in 1..len |-> row[i].type],
           NEW schema, schema = Schema(types)
    PROVE  \E off \in [1..len -> Nat], var \in [0..len -> Nat], size \in Nat :
              LaidOut(row, schema, len, off, var, size)
<1> DEFINE widths == [i \in 1..len |-> TypeSize(row[i].type)]
           tails == [i \in 1..len |-> TailSize(row[i])]
           O == Sums(widths)
           V == Sums(tails)
<1>1. /\ widths \in [1..len -> Nat] /\ Len(widths) = len
      /\ \A i \in 1..len : widths[i] = TypeSize(row[i].type)
  <2>1. \A i \in 1..len : TypeSize(row[i].type) \in Nat
    BY ValueShape, SizeFacts
  <2> QED BY <2>1
<1>2. /\ tails \in [1..len -> Nat] /\ Len(tails) = len
      /\ \A i \in 1..len : tails[i] = TailSize(row[i])
  <2>1. \A i \in 1..len : TailSize(row[i]) \in Nat
    BY ExtentFacts DEF TailSize
  <2> QED BY <2>1
<1>3. DOMAIN row = 1..len /\ DOMAIN types = 1..len /\ Len(types) = len
  OBVIOUS
<1> HIDE DEF widths, tails
<1>4. /\ O[0] = 0 /\ \A n \in 0..len : O[n] \in Nat
      /\ \A n \in 1..len : O[n] = O[n - 1] + widths[n]
      /\ \A i \in 1..len, j \in 0..len : i <= j => O[i - 1] + widths[i] <= O[j]
  BY <1>1, SumsDef, SumsGrow
<1>5. /\ V[0] = 0 /\ \A n \in 0..len : V[n] \in Nat
      /\ \A n \in 1..len : V[n] = V[n - 1] + tails[n]
      /\ \A i \in 1..len, j \in 0..len : i <= j => V[i - 1] + tails[i] <= V[j]
  BY <1>2, SumsDef, SumsGrow
<1>6. schema = [cols |-> [i \in 1..len |-> [type |-> types[i], offset |-> O[i - 1]]],
                       length |-> O[len]]
  <2>1. [i \in DOMAIN types |-> TypeSize(types[i])] = widths
    BY <1>3 DEF widths
  <2> QED BY <1>3, <2>1 DEF Schema
<1>7. \A i \in 1..len : schema.cols[i] = [type |-> row[i].type, offset |-> O[i - 1]]
  BY <1>6
<1>8. TupleSize(row, schema) = O[len] + V[len]
  <2>1. \A i \in 1..len : VarlenSize(schema.cols[i], row[i]) = TailSize(row[i])
    <3>1. ASSUME NEW i \in 1..len
          PROVE  VarlenSize(schema.cols[i], row[i]) = TailSize(row[i])
      <4>0. PICK o : schema.cols[i] = [type |-> row[i].type, offset |-> o]
        BY <1>7
      <4>1. schema.cols[i].type = row[i].type
        BY <4>0
      <4> QED BY <4>1 DEF VarlenSize, TailSize, IsInlined
    <3> QED BY <3>1
  <2>2. [i \in DOMAIN row |-> VarlenSize(schema.cols[i], row[i])] = tails
    BY <1>3, <2>1 DEF tails
  <2>3. schema.length = O[len]
    BY <1>6
  <2> QED BY <2>2, <2>3 DEF TupleSize
<1> HIDE DEF O, V
<1> DEFINE off == [i \in 1..len |-> O[i - 1]]
           var == [n \in 0..len |-> O[len] + V[n]]
           size == O[len] + V[len]
<1>9. off \in [1..len -> Nat] /\ var \in [0..len -> Nat] /\ size \in Nat
  <2>1. \A i \in 1..len : i - 1 \in 0..len
    OBVIOUS
  <2>2. len \in 0..len
    OBVIOUS
  <2> QED BY <1>4, <1>5, <2>1, <2>2
<1>10. schema.length = var[0] /\ TupleSize(row, schema) = size /\ var[len] = size
  <2>1. 0 \in 0..len /\ len \in 0..len /\ O[len] + 0 = O[len]
    BY <1>4
  <2> QED BY <1>5, <1>6, <1>8, <2>1
<1>11. ASSUME NEW i \in 1..len
       PROVE  /\ schema.cols[i] = [type |-> row[i].type, offset |-> off[i]]
              /\ off[i] + TypeSize(row[i].type) <= var[0]
              /\ var[0] <= var[i - 1] /\ var[i] <= size
              /\ var[i] = var[i - 1] + TailSize(row[i])
              /\ \A j \in 1..len : i < j =>
                    /\ off[i] + TypeSize(row[i].type) <= off[j]
                    /\ var[i] <= var[j - 1]
  <2>1. i - 1 \in 0..len /\ i \in 0..len /\ len \in 0..len /\ 0 \in 0..len /\ i <= len
    OBVIOUS
  <2>2. /\ off[i] = O[i - 1] /\ var[0] = O[len] + V[0] /\ var[i - 1] = O[len] + V[i - 1]
        /\ var[i] = O[len] + V[i]
    BY <2>1
  <2>3. O[i - 1] + TypeSize(row[i].type) <= O[len] /\ V[i - 1] + tails[i] <= V[len]
        /\ V[i] = V[i - 1] + tails[i]
    BY <1>1, <1>4, <1>5, <2>1
  <2>4. O[i - 1] \in Nat /\ O[len] \in Nat /\ V[i - 1] \in Nat /\ V[i] \in Nat /\ V[len] \in Nat
        /\ tails[i] \in Nat /\ TypeSize(row[i].type) \in Nat /\ tails[i] = TailSize(row[i])
        /\ widths[i] = TypeSize(row[i].type)
    BY <1>1, <1>2, <1>4, <1>5, <2>1
  <2>5. ASSUME NEW j \in 1..len, i < j
        PROVE  off[i] + TypeSize(row[i].type) <= off[j] /\ var[i] <= var[j - 1]
    <3>1. j - 1 \in 0..len /\ i <= j - 1 /\ off[j] = O[j - 1] /\ var[j - 1] = O[len] + V[j - 1]
      BY <2>5
    <3>2. O[i - 1] + widths[i] <= O[j - 1] /\ V[i - 1] + tails[i] <= V[j - 1]
          /\ O[j - 1] \in Nat /\ V[j - 1] \in Nat
      BY <1>4, <1>5, <3>1
    <3> HIDE DEF off, var, size
    <3> QED BY <2>2, <2>3, <2>4, <3>1, <3>2, SMTT(30)
  <2>6. /\ off[i] + TypeSize(row[i].type) <= var[0]
        /\ var[0] <= var[i - 1] /\ var[i] <= size
        /\ var[i] = var[i - 1] + TailSize(row[i])
    <3>1. V[0] = 0
      BY <1>5
    <3>2. var[0] = O[len] /\ off[i] + TypeSize(row[i].type) <= var[0]
      <4> HIDE DEF off, var, size
      <4> QED BY <2>2, <2>3, <2>4, <3>1
    <3>3. size = O[len] + V[len]
      OBVIOUS
    <3> HIDE DEF off, var, size
    <3> QED BY <2>2, <2>3, <2>4, <3>2, <3>3, SMTT(30)
  <2>7. schema.cols[i] = [type |-> row[i].type, offset |-> off[i]]
    BY <1>7, <2>2
  <2> HIDE DEF off, var, size
  <2> QED BY <2>5, <2>6, <2>7
<1> HIDE DEF off, var, size
<1> QED BY <1>9, <1>10, <1>11 DEF LaidOut

(* A row of values, and the schema of its types *)
IsRow(row, len) ==
    len \in Nat /\ row \in Seq(Range(row)) /\ Len(row) = len /\ \A i \in 1..len : IsValue(row[i])
SchemaOf(row, len) == Schema([i \in 1..len |-> row[i].type])

(* Every column of a row reads back as the value put there *)
LEMMA RowReads ==
    ASSUME NEW len, NEW row, IsRow(row, len), NEW schema, schema = SchemaOf(row, len)
    PROVE  /\ \A i \in 1..len : GetValue(NewTuple(row, schema), schema, i) = row[i]
           /\ \E size \in Nat : DOMAIN NewTuple(row, schema) = 0..(size - 1)
           /\ IsMemory(NewTuple(row, schema))
<1>0. len \in Nat /\ row \in Seq(Range(row)) /\ Len(row) = len /\ \A i \in 1..len : IsValue(row[i])
  BY DEF IsRow
<1>1. PICK types : types = [i \in 1..len |-> row[i].type] /\ schema = Schema(types)
  BY DEF SchemaOf
<1>2a. PICK off \in [1..len -> Nat], var \in [0..len -> Nat], size \in Nat :
           LaidOut(row, schema, len, off, var, size)
  BY <1>0, <1>1, Layout
<1>2. /\ schema.length = var[0] /\ TupleSize(row, schema) = size
      /\ var[len] = size
      /\ \A i \in 1..len :
            /\ schema.cols[i] = [type |-> row[i].type, offset |-> off[i]]
            /\ off[i] + TypeSize(row[i].type) <= var[0]
            /\ var[0] <= var[i - 1] /\ var[i] <= size
            /\ var[i] = var[i - 1] + TailSize(row[i])
            /\ \A j \in 1..len : i < j =>
                  /\ off[i] + TypeSize(row[i].type) <= off[j]
                  /\ var[i] <= var[j - 1]
  BY <1>2a DEF LaidOut
<1>3. PICK f : Building(row, schema, len, f) /\ NewTuple(row, schema) = f[len].data
  BY <1>0, NewTupleBuilds, SMTT(30)
<1> USE <1>0
<1> DEFINE P(n) == /\ f[n] = [data |-> f[n].data, offset |-> var[n]]
                   /\ DOMAIN f[n].data = 0..(size - 1) /\ IsMemory(f[n].data)
                   /\ \A i \in 1..n : InColumn(f[n].data, off[i], var[i - 1], row[i])
           bad == {n \in 0..len : ~ P(n)}
<1>4. P(0)
  <2>1. f[0] = [data |-> [a \in 0..(size - 1) |-> Byte(<<0>>, 0, 1)], offset |-> var[0]]
    BY <1>2, <1>3 DEF Building
  <2>2. f[0].data = [a \in 0..(size - 1) |-> Byte(<<0>>, 0, 1)]
    BY <2>1
  <2>3. DOMAIN f[0].data = 0..(size - 1) /\ IsMemory(f[0].data)
    BY <2>2 DEF IsMemory
  <2> QED BY <2>1, <2>2, <2>3
<1>5. ASSUME NEW n \in 1..len, P(n - 1) PROVE P(n)
  <2>1. n - 1 \in 0..len /\ n \in 0..len /\ n \in Nat /\ n # 0
    OBVIOUS
  <2>2. PICK t, u, x, col : /\ t = f[n - 1] /\ u = f[n] /\ x = row[n] /\ col = schema.cols[n]
                            /\ u = TupleStep(t, col, x)
    <3>1. f[n] = TupleStep(f[n - 1], schema.cols[n], row[n])
      BY <1>3, <2>1 DEF Building
    <3> QED BY <3>1
  <2>3. IsValue(x) /\ off[n] \in Nat /\ var[n - 1] \in Nat
    BY <2>1, <2>2
  <2>4. TypeSize(x.type) \in Nat /\ TailSize(x) \in Nat
    BY <2>3, ValueShape, SizeFacts, ExtentFacts DEF TailSize
  <2>5. /\ off[n] + TypeSize(x.type) <= var[n - 1] /\ var[n - 1] + TailSize(x) <= size
        /\ var[n] = var[n - 1] + TailSize(x)
        /\ col = [type |-> x.type, offset |-> off[n]]
    <3>1. var[0] \in Nat /\ var[n] \in Nat
      BY <2>1
    <3> QED BY <1>2, <2>2, <2>3, <2>4, <3>1
  <2>6. /\ DOMAIN t.data = 0..(size - 1) /\ t.offset = var[n - 1]
        /\ t = [data |-> t.data, offset |-> var[n - 1]]
    BY <1>5, <2>2
  <2>7. PICK o2 \in Nat, w2 \in Nat, b \in Nat, v2 \in Nat :
           o2 = off[n] /\ w2 = TypeSize(x.type) /\ b = var[n - 1] /\ v2 = TailSize(x)
    BY <2>3, <2>4
  <2>8. /\ \E d : u = [data |-> d, offset |-> b + v2]
        /\ DOMAIN u.data = 0..(size - 1) /\ IsMemory(u.data)
        /\ InColumn(u.data, o2, b, x)
        /\ \A a \in 0..(size - 1) :
              (a \notin o2..(o2 + w2 - 1) /\ a \notin b..(b + v2 - 1)) => u.data[a] = t.data[a]
    <3>1. o2 + TypeSize(x.type) <= b /\ b + TailSize(x) <= size
      BY <2>5, <2>7
    <3>2. /\ DOMAIN t.data = 0..(size - 1) /\ t.offset = b
          /\ t = [data |-> t.data, offset |-> b]
      BY <2>6, <2>7
    <3>3. col = [type |-> x.type, offset |-> o2]
      BY <2>5, <2>7
    <3>4. Wrote(TupleStep(t, col, x), t, o2, b, size, x)
      BY <2>3, <3>1, <3>2, <3>3, TupleStepWrites
    <3> QED BY <2>2, <2>7, <3>4 DEF Wrote
  <2>9. u = [data |-> u.data, offset |-> var[n]]
    BY <2>5, <2>7, <2>8
  <2>10. ASSUME NEW i \in 1..n, i # n PROVE InColumn(u.data, off[i], var[i - 1], row[i])
    <3>1. i \in 1..len /\ i \in 1..(n - 1) /\ i < n /\ i - 1 \in 0..len /\ i \in 0..len
      BY <2>1, <2>10
    <3>2. IsValue(row[i]) /\ InColumn(t.data, off[i], var[i - 1], row[i])
      BY <1>5, <2>2, <3>1
    <3>3. PICK w \in Nat, v \in Nat, o \in Nat, a \in Nat, s0 \in Nat :
             /\ w = TypeSize(row[i].type) /\ v = TailSize(row[i]) /\ o = off[i] /\ a = var[i - 1]
             /\ s0 = var[0]
      <4>1. TypeSize(row[i].type) \in Nat /\ TailSize(row[i]) \in Nat
        BY <3>2, ValueShape, SizeFacts, ExtentFacts DEF TailSize
      <4>2. off[i] \in Nat /\ var[i - 1] \in Nat /\ var[0] \in Nat
        BY <2>1, <3>1
      <4> QED BY <4>1, <4>2
    <3>4. /\ o + w <= o2 /\ s0 <= a /\ a + v <= b /\ b + v2 <= size /\ s0 <= b /\ o2 + w2 <= s0
      <4>1. var[i] = a + v /\ var[i] <= b /\ o + w <= o2
        BY <1>2, <2>7, <3>1, <3>3
      <4>2. b + v2 <= size /\ o2 + w2 <= s0 /\ s0 <= b /\ s0 <= a
        BY <1>2, <2>2, <2>5, <2>7, <3>1, <3>3
      <4> QED BY <4>1, <4>2
    <3>5. \A c \in o..(o + w - 1) : u.data[c] = t.data[c]
      <4>1. ASSUME NEW c \in o..(o + w - 1)
            PROVE  c \in 0..(size - 1) /\ c \notin o2..(o2 + w2 - 1) /\ c \notin b..(b + v2 - 1)
        BY <3>4
      <4> QED BY <2>8, <4>1
    <3>6. \A c \in a..(a + v - 1) : u.data[c] = t.data[c]
      <4>1. ASSUME NEW c \in a..(a + v - 1)
            PROVE  c \in 0..(size - 1) /\ c \notin o2..(o2 + w2 - 1) /\ c \notin b..(b + v2 - 1)
        BY <3>4
      <4> QED BY <2>8, <4>1
    <3> QED BY <2>6, <2>8, <3>2, <3>3, <3>5, <3>6, InColumnStays
  <2> QED BY <2>2, <2>7, <2>8, <2>9, <2>10
<1>6. bad = {}
  <2>1. SUFFICES ASSUME bad # {} PROVE FALSE
    OBVIOUS
  <2>2. PICK n \in bad : \A j \in bad : n <= j
    <3>1. bad \subseteq Nat
      OBVIOUS
    <3> HIDE DEF bad
    <3> QED BY <2>1, <3>1, LeastOfNats
  <2>3. n \in 0..len /\ ~ P(n)
    OBVIOUS
  <2> HIDE DEF P
  <2>4. n # 0
    BY <1>4, <2>3
  <2>5. n \in 1..len /\ n - 1 \in 0..len /\ n - 1 \notin bad
    <3> HIDE DEF bad
    <3> QED BY <2>2, <2>3, <2>4
  <2>6. P(n - 1)
    BY <2>5
  <2> QED BY <1>5, <2>3, <2>5, <2>6
<1>7. P(len)
  <2> HIDE DEF P
  <2> QED BY <1>6
<1>8. ASSUME NEW i \in 1..len PROVE GetValue(NewTuple(row, schema), schema, i) = row[i]
  <2>1. InColumn(NewTuple(row, schema), off[i], var[i - 1], row[i])
    BY <1>3, <1>7
  <2>2. off[i] \in Nat /\ var[i - 1] \in Nat
    <3>1. i - 1 \in 0..len
      OBVIOUS
    <3> QED BY <3>1
  <2>3. IsValue(row[i]) /\ schema.cols[i] = [type |-> row[i].type, offset |-> off[i]]
    BY <1>2
  <2> QED BY <2>1, <2>2, <2>3, ColumnReads
<1> QED BY <1>1, <1>3, <1>7, <1>8

(* A key made of some columns of a row reads back as those columns *)
LEMMA KeyReads ==
    ASSUME NEW len, NEW row, IsRow(row, len), NEW schema, schema = SchemaOf(row, len),
           NEW tuple, tuple = NewTuple(row, schema),
           NEW attrs \in Seq(1..len), NEW keys, keys = CopySchema(schema, attrs)
    PROVE  \A k \in DOMAIN attrs :
              GetValue(KeyFromTuple(tuple, schema, keys, attrs), keys, k) = row[attrs[k]]
<1>0. len \in Nat /\ row \in Seq(Range(row)) /\ Len(row) = len /\ \A i \in 1..len : IsValue(row[i])
  BY DEF IsRow
<1>1. PICK n \in Nat : n = Len(attrs) /\ DOMAIN attrs = 1..n
  OBVIOUS
<1>2. \A k \in 1..n : attrs[k] \in 1..len
  BY <1>0, <1>1
<1>3. PICK off, var, size : LaidOut(row, schema, len, off, var, size)
  <2>1. PICK types : types = [i \in 1..len |-> row[i].type] /\ schema = Schema(types)
    BY DEF SchemaOf
  <2> QED BY <1>0, <2>1, Layout
<1>4. \A i \in 1..len : schema.cols[i].type = row[i].type
  <2>1. ASSUME NEW i \in 1..len PROVE schema.cols[i].type = row[i].type
    <3>1. schema.cols[i] = [type |-> row[i].type, offset |-> off[i]]
      BY <1>3 DEF LaidOut
    <3> QED BY <3>1
  <2> QED BY <2>1
<1>5. \A i \in 1..len : GetValue(tuple, schema, i) = row[i]
  BY RowReads
<1>6. PICK part : part = [k \in 1..n |-> row[attrs[k]]]
  OBVIOUS
<1>7. /\ IsRow(part, n)
      /\ \A k \in 1..n : part[k] = row[attrs[k]] /\ IsValue(part[k])
  <2>1. \A k \in 1..n : part[k] = row[attrs[k]] /\ IsValue(part[k])
    BY <1>0, <1>2, <1>6
  <2>2. \A k \in 1..n : part[k] \in Range(part)
    BY <1>6 DEF Range
  <2>3. part \in [1..n -> Range(part)]
    BY <1>6, <2>2
  <2> QED BY <1>6, <2>1, <2>3 DEF IsRow
<1>8. [k \in DOMAIN attrs |-> GetValue(tuple, schema, attrs[k])] = part
  BY <1>1, <1>2, <1>5, <1>6
<1>9. [k \in DOMAIN attrs |-> schema.cols[attrs[k]].type] = [k \in 1..n |-> part[k].type]
  <2>1. \A k \in 1..n : schema.cols[attrs[k]].type = part[k].type
    BY <1>2, <1>4, <1>7
  <2> QED BY <1>1, <2>1
<1>10. keys = SchemaOf(part, n)
  BY <1>9 DEF CopySchema, SchemaOf
<1>11. KeyFromTuple(tuple, schema, keys, attrs) = NewTuple(part, keys)
  BY <1>8 DEF KeyFromTuple
<1>12. \A k \in 1..n : GetValue(NewTuple(part, keys), keys, k) = part[k]
  BY <1>7, <1>10, RowReads
<1> QED BY <1>1, <1>7, <1>11, <1>12

(* A tuple stored in a page is loaded as it was *)
LEMMA StoreLoads ==
    ASSUME NEW tuple, NEW size \in Nat, DOMAIN tuple = 0..(size - 1),
           IsMemory(tuple)
    PROVE  LoadTuple(StoreTuple(tuple)) = tuple
<1>1. Cardinality(DOMAIN tuple) = size
  BY FS_Interval
<1>2. PICK mem : mem = [a \in 0..(size + 3) |-> IF a < 4 THEN Byte(<<0>>, 0, 1) ELSE tuple[a - 4]]
  OBVIOUS
<1>3. StoreTuple(tuple) = Put(mem, 0, 4, <<size>>)
  BY <1>1, <1>2, Zenon DEF StoreTuple
<1>4. PICK bytes, w, k : bytes = Put(mem, 0, k, w) /\ k = 4 /\ w = <<size>>
  OBVIOUS
<1>5. k \in Nat /\ 0 \in Nat /\ 0..(0 + k - 1) \subseteq DOMAIN mem
  BY <1>2, <1>4
<1>6. /\ DOMAIN bytes = 0..(size + 3) /\ Holds(bytes, 0, k, w)
      /\ \A a \in DOMAIN mem \ (0..(0 + k - 1)) : bytes[a] = mem[a]
  <2>1. PICK z \in Nat : z = 0 /\ bytes = Put(mem, z, k, w) /\ z..(z + k - 1) \subseteq DOMAIN mem
    BY <1>4, <1>5
  <2>2. /\ DOMAIN bytes = DOMAIN mem /\ Holds(bytes, z, k, w)
        /\ \A a \in DOMAIN mem \ (z..(z + k - 1)) : bytes[a] = mem[a]
    BY <1>5, <2>1, PutHolds, SMTT(30)
  <2> QED BY <1>2, <2>1, <2>2
<1>7. Get(bytes, 0, 4)[1] = size
  <2>1. Get(bytes, 0, k) = w
    BY <1>4, <1>5, <1>6, GetHolds
  <2> QED BY <1>4, <2>1
<1>8. \A a \in 0..(size - 1) : bytes[a + 4] = tuple[a]
  <2>1. ASSUME NEW a \in 0..(size - 1) PROVE bytes[a + 4] = tuple[a]
    <3>1. /\ a + 4 \in 0..(size + 3) /\ a + 4 \notin 0..(0 + k - 1) /\ ~ (a + 4 < 4)
          /\ (a + 4) - 4 = a
      BY <1>4
    <3>2. bytes[a + 4] = mem[a + 4]
      BY <1>2, <1>6, <3>1
    <3> QED BY <1>2, <3>1, <3>2
  <2> QED BY <2>1
<1>9. LoadTuple(bytes) = [a \in 0..(size - 1) |-> bytes[a + 4]]
  BY <1>7 DEF LoadTuple
<1> QED BY <1>3, <1>4, <1>8, <1>9 DEF IsMemory
-----------------------------------------------------------------------------
(* The invariant: there is no tuple but that of the row, and no page but    *)
(* that of the tuple                                                        *)
TupleInv ==
    /\ data # Nothing => data = NewTuple(Row, RowSchema)
    /\ page # Nothing => page = StoreTuple(NewTuple(Row, RowSchema))

(* The row and its types as sequences *)
LEMMA RowFacts ==
    ASSUME IsValue(left), IsValue(right)
    PROVE  IsRow(Row, 3) /\ DOMAIN Row = 1..3 /\ RowSchema = SchemaOf(Row, 3)
<1>1. /\ Len(Row) = 3 /\ DOMAIN Row = 1..3
      /\ Row[1] = left /\ Row[2] = right /\ Row[3] = left
  BY DEF Row
<1>2. \A i \in 1..3 : i = 1 \/ i = 2 \/ i = 3
  OBVIOUS
<1>3. \A i \in 1..3 : Row[i] \in Range(Row)
  BY <1>1 DEF Range
<1>4. Row \in Seq(Range(Row))
  <2>1. left \in Range(Row) /\ right \in Range(Row)
    BY <1>1, <1>3
  <2>2. PICK S : S = Range(Row)
    OBVIOUS
  <2>3. <<left, right, left>> \in Seq(S)
    BY <2>1, <2>2
  <2> QED BY <2>2, <2>3 DEF Row
<1>5. <<left.type, right.type, left.type>> = [i \in 1..3 |-> Row[i].type]
  BY <1>1, <1>2
<1>6. \A i \in 1..3 : IsValue(Row[i])
  BY <1>1, <1>2
<1> QED BY <1>1, <1>4, <1>5, <1>6 DEF IsRow, SchemaOf, RowSchema

(* The bytes of the row survive the way to the page and back *)
LEMMA RowLoads ==
    ASSUME IsValue(left), IsValue(right)
    PROVE  LoadTuple(StoreTuple(NewTuple(Row, RowSchema))) = NewTuple(Row, RowSchema)
<1>1. PICK size \in Nat : DOMAIN NewTuple(Row, RowSchema) = 0..(size - 1)
  BY RowFacts, RowReads
<1>2. IsMemory(NewTuple(Row, RowSchema))
  BY RowFacts, RowReads
<1> QED BY <1>1, <1>2, StoreLoads

(* It holds of every behaviour *)
LEMMA TuplesKeepInv == Spec => []TupleInv
<1>1. Init => TupleInv
  BY DEF Init, TupleInv
<1>2. CallInv /\ TupleInv /\ [Next]_vars => TupleInv'
  <2> SUFFICES ASSUME CallInv, TupleInv, [Next]_vars PROVE TupleInv'
    OBVIOUS
  <2>1. CASE UNCHANGED <<left, right, data, page>>
    BY <2>1 DEF TupleInv, Row, RowSchema
  <2>2. CASE MakeTuple
    <3>1. Row' = Row /\ RowSchema' = RowSchema
      BY <2>2 DEF MakeTuple, Row, RowSchema
    <3> QED BY <2>2, <3>1 DEF MakeTuple, TupleInv
  <2>3. CASE WriteTuple
    <3>1. Row' = Row /\ RowSchema' = RowSchema
      BY <2>3 DEF WriteTuple, Row, RowSchema
    <3> QED BY <2>3, <3>1 DEF WriteTuple, TupleInv
  <2>4. CASE ReadTuple
    <3>1. Row' = Row /\ RowSchema' = RowSchema
      BY <2>4 DEF ReadTuple, Row, RowSchema
    <3>2. data' = NewTuple(Row, RowSchema)
      BY <2>4, RowLoads DEF ReadTuple, TupleInv, CallInv
    <3> QED BY <2>4, <3>1, <3>2 DEF ReadTuple, TupleInv
  <2>5. (DoCompare \/ DoArith \/ DoMin \/ DoMax \/ DoLike \/ DoCastAs \/ DoFactoryCastAs
           \/ Return \/ UNCHANGED vars) => UNCHANGED <<left, right, data, page>>
    BY DEF DoCompare, DoArith, DoMin, DoMax, DoLike, DoCastAs, DoFactoryCastAs, Call, Return, vars
  <2> QED BY <2>1, <2>2, <2>3, <2>4, <2>5 DEF Next
<1> QED BY <1>1, <1>2, CallsKeepInv, PTL DEF Spec

(* Every column read from a row of any two values is the value put there,   *)
(* before and after the page, and so are the keys made of it (the Tuple     *)
(* constructor's offsets against GetDataPtr, tuple.cpp:23-129).             *)
THEOREM TuplesKeepValues == Spec => []TupleKeepsValues
<1>1. CallInv /\ TupleInv => TupleKeepsValues
  <2> SUFFICES ASSUME CallInv, TupleInv, data # Nothing
               PROVE  /\ \A i \in DOMAIN Row : GetValue(data, RowSchema, i) = Row[i]
                      /\ \A attrs \in {<<2>>, <<3, 2>>, <<2, 1, 3>>} :
                            \A k \in DOMAIN attrs :
                               GetValue(KeyFromTuple(data, RowSchema, CopySchema(RowSchema, attrs), attrs),
                                        CopySchema(RowSchema, attrs), k) = Row[attrs[k]]
    BY DEF TupleKeepsValues
  <2>1. IsValue(left) /\ IsValue(right) /\ data = NewTuple(Row, RowSchema)
    BY DEF CallInv, TupleInv
  <2>2. \A i \in 1..3 : GetValue(data, RowSchema, i) = Row[i]
    BY <2>1, RowFacts, RowReads
  <2>3. ASSUME NEW attrs \in {<< 2 >>, <<3, 2>>, <<2, 1, 3>>}
        PROVE  \A k \in DOMAIN attrs :
                  GetValue(KeyFromTuple(data, RowSchema, CopySchema(RowSchema, attrs), attrs),
                           CopySchema(RowSchema, attrs), k) = Row[attrs[k]]
    <3>1. attrs \in Seq(1..3)
      <4>1. 1 \in 1..3 /\ 2 \in 1..3 /\ 3 \in 1..3
        OBVIOUS
      <4>2. <<2>> \in Seq(1..3) /\ <<3, 2>> \in Seq(1..3) /\ <<2, 1, 3>> \in Seq(1..3)
        BY <4>1
      <4> QED BY <4>2
    <3>2. PICK keys : keys = CopySchema(RowSchema, attrs)
      OBVIOUS
    <3>3. \A k \in DOMAIN attrs :
             GetValue(KeyFromTuple(data, RowSchema, keys, attrs), keys, k) = Row[attrs[k]]
      BY <2>1, <3>1, <3>2, RowFacts, KeyReads
    <3> QED BY <3>2, <3>3
  <2> QED BY <2>1, <2>2, <2>3, RowFacts
<1> QED BY <1>1, CallsKeepInv, TuplesKeepInv, PTL
=============================================================================
