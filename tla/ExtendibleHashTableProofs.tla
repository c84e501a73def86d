---------------------- MODULE ExtendibleHashTableProofs ----------------------
(***************************************************************************)
(* Proofs about ExtendibleHashTable, for any keys, values, hash function,   *)
(* width of the hash and size of buckets that HashAssumption admits: the    *)
(* directory and the buckets agree after every split, and through all       *)
(* splits the table is the map its users take it for.                       *)
(***************************************************************************)
EXTENDS ExtendibleHashTable, FiniteSetTheorems, WellFoundedInduction, TLAPS

(* A nonempty set of natural numbers has a least element *)
LEMMA LeastOfNats ==
    ASSUME NEW T, T \subseteq Nat, T # {}
    PROVE  \E x \in T : \A y \in T : x <= y
<1>1. PICK x \in T : \A y \in T : ~ (<<y, x>> \in OpToRel(<, Nat))
  BY NatLessThanWellFounded, WFMin
<1>2. \A y \in T : ~ (y < x)
  BY <1>1 DEF OpToRel
<1> QED BY <1>2
-----------------------------------------------------------------------------

(* The first n + 1 powers of two *)
Powers(n) == {f \in [0..n -> Nat] :
                  f[0] = 1 /\ \A k \in 1..n : f[k] = 2 * f[k - 1]}

(* Any number of them exists *)
LEMMA PowersExist == \A n \in Nat : Powers(n) # {}
<1> DEFINE bad == {n \in Nat : Powers(n) = {}}
<1>1. SUFFICES ASSUME bad # {} PROVE FALSE
  OBVIOUS
<1>2. PICK n \in bad : \A m \in bad : n <= m
  <2>1. bad \subseteq Nat
    OBVIOUS
  <2> HIDE DEF bad
  <2> QED BY <1>1, <2>1, LeastOfNats
<1>3. CASE n = 0
  <2>1. [k \in 0..0 |-> 1] \in Powers(0)
    BY SMT DEF Powers
  <2> QED BY <1>2, <1>3, <2>1
<1>4. CASE n # 0
  <2>1. n \in Nat /\ n - 1 \in Nat /\ n - 1 \notin bad
    BY <1>2, <1>4
  <2>2. PICK f : f \in Powers(n - 1)
    BY <2>1
  <2>3. /\ f \in [0..(n - 1) -> Nat] /\ f[0] = 1
        /\ \A k \in 1..(n - 1) : f[k] = 2 * f[k - 1]
    BY <2>2 DEF Powers
  <2>4. PICK last \in Nat : last = 2 * f[n - 1]
    BY <1>4, <2>1, <2>3
  <2>5. PICK g : g = [k \in 0..n |-> IF k = n THEN last ELSE f[k]]
    OBVIOUS
  <2>6. g[n] = last /\ \A k \in 0..(n - 1) : g[k] = f[k]
    BY <2>1, <2>5
  <2>7. g \in [0..n -> Nat]
    <3>1. ASSUME NEW k \in 0..n PROVE (IF k = n THEN last ELSE f[k]) \in Nat
      <4>1. CASE k = n
        BY <2>4, <4>1
      <4>2. CASE k # n
        <5>1. k \in 0..(n - 1)
          BY <2>1, <4>2
        <5> QED BY <2>3, <4>2, <5>1
      <4> QED BY <4>1, <4>2
    <3> QED BY <2>5, <3>1
  <2>8. ASSUME NEW k \in 1..n PROVE g[k] = 2 * g[k - 1]
    <3>1. k - 1 \in 0..(n - 1)
      BY <2>1
    <3>2. CASE k = n
      BY <2>4, <2>6, <3>1, <3>2
    <3>3. CASE k # n
      <4>1. k \in 1..(n - 1) /\ k \in 0..(n - 1)
        BY <2>1, <3>3
      <4> QED BY <2>3, <2>6, <3>1, <4>1
    <3> QED BY <3>2, <3>3
  <2>9. g[0] = 1
    BY <2>1, <2>3, <2>6, <1>4
  <2> QED BY <1>2, <2>7, <2>8, <2>9 DEF Powers
<1> QED BY <1>3, <1>4

(* Two such lists agree as far as both go *)
LEMMA PowersAgree ==
    ASSUME NEW m \in Nat, NEW n \in Nat, m <= n, NEW f \in Powers(m), NEW g \in Powers(n)
    PROVE  \A k \in 0..m : f[k] = g[k]
<1> DEFINE bad == {k \in 0..m : f[k] # g[k]}
<1>1. SUFFICES ASSUME bad # {} PROVE FALSE
  OBVIOUS
<1>2. PICK k \in bad : \A j \in bad : k <= j
  <2>1. bad \subseteq Nat
    OBVIOUS
  <2> HIDE DEF bad
  <2> QED BY <1>1, <2>1, LeastOfNats
<1>3. k \in 0..m /\ f[k] # g[k]
  OBVIOUS
<1>4. k # 0
  BY <1>3 DEF Powers
<1>5. k \in 1..m /\ k \in 1..n /\ k - 1 \in 0..m /\ k - 1 \notin bad
  BY <1>2, <1>3, <1>4
<1>6. f[k - 1] = g[k - 1]
  BY <1>5
<1>7. f[k] = 2 * f[k - 1] /\ g[k] = 2 * g[k - 1]
  BY <1>5 DEF Powers
<1> QED BY <1>3, <1>6, <1>7

(* Pow2 is the function its recursive definition describes *)
LEMMA Pow2Def ==
    /\ \A n \in Nat : Pow2[n] \in Nat
    /\ Pow2[0] = 1
    /\ \A n \in Nat : Pow2[n + 1] = 2 * Pow2[n]
<1> DEFINE Step(f) == [n \in Nat |-> IF n = 0 THEN 1 ELSE 2 * f[n - 1]]
           list(n) == CHOOSE f : f \in Powers(n)
           all == [n \in Nat |-> list(n)[n]]
<1>1. \A n \in Nat : list(n) \in Powers(n)
  BY PowersExist
<1>2. \A n \in Nat : all[n] = list(n)[n]
  OBVIOUS
<1> HIDE DEF list
<1>3. all[0] = 1
  BY <1>1, <1>2 DEF Powers
<1>4. ASSUME NEW n \in Nat, n # 0
      PROVE  all[n] = 2 * all[n - 1]
  <2>1. n - 1 \in Nat /\ n - 1 <= n /\ n - 1 \in 0..(n - 1) /\ n \in 1..n
    BY <1>4
  <2>2. list(n - 1) \in Powers(n - 1) /\ list(n) \in Powers(n)
    BY <1>1, <2>1
  <2>3. list(n - 1)[n - 1] = list(n)[n - 1]
    BY <2>1, <2>2, PowersAgree
  <2>4. list(n)[n] = 2 * list(n)[n - 1]
    BY <2>1, <2>2 DEF Powers
  <2> QED BY <1>2, <2>1, <2>3, <2>4
<1>5. all = Step(all)
  <2>1. ASSUME NEW n \in Nat PROVE all[n] = Step(all)[n]
    BY <1>3, <1>4
  <2>2. all = [n \in Nat |-> all[n]] /\ Step(all) = [n \in Nat |-> Step(all)[n]]
    OBVIOUS
  <2> HIDE DEF all, Step
  <2>3. [n \in Nat |-> all[n]] = [n \in Nat |-> Step(all)[n]]
    BY <2>1
  <2> QED BY <2>2, <2>3
<1>6. Pow2 = Step(Pow2)
  <2>1. \E f : f = Step(f)
    BY <1>5
  <2>2. Pow2 = CHOOSE f : f = Step(f)
    BY DEF Pow2
  <2> HIDE DEF Step
  <2> QED BY <2>1, <2>2
<1>7. Pow2[0] = 1 /\ \A n \in Nat : n # 0 => Pow2[n] = 2 * Pow2[n - 1]
  <2>1. PICK f : f = Pow2
    OBVIOUS
  <2>2. f = [n \in Nat |-> IF n = 0 THEN 1 ELSE 2 * f[n - 1]]
    BY <1>6, <2>1
  <2>3. f[0] = 1 /\ \A n \in Nat : n # 0 => f[n] = 2 * f[n - 1]
    BY <2>2
  <2> QED BY <2>1, <2>3
<1> HIDE DEF all, Step
<1>8. \A n \in Nat : Pow2[n + 1] = 2 * Pow2[n]
  BY <1>7
<1>9. \A n \in Nat : Pow2[n] \in Nat
  <2> DEFINE bad == {n \in Nat : Pow2[n] \notin Nat}
  <2>1. SUFFICES ASSUME bad # {} PROVE FALSE
    OBVIOUS
  <2>2. PICK n \in bad : \A m \in bad : n <= m
    <3>1. bad \subseteq Nat
      OBVIOUS
    <3> HIDE DEF bad
    <3> QED BY <2>1, <3>1, LeastOfNats
  <2>3. n \in Nat /\ Pow2[n] \notin Nat
    OBVIOUS
  <2>4. n # 0
    BY <1>7, <2>3
  <2>5. n - 1 \in Nat /\ n - 1 \notin bad
    BY <2>2, <2>3, <2>4
  <2>6. Pow2[n - 1] \in Nat
    BY <2>5
  <2> QED BY <1>7, <2>3, <2>4, <2>6
<1> QED BY <1>7, <1>8, <1>9

(* 1 << n is positive *)
LEMMA Pow2Positive == \A n \in Nat : Pow2[n] \in Nat /\ Pow2[n] > 0
<1> DEFINE bad == {n \in Nat : ~ (Pow2[n] > 0)}
<1>1. SUFFICES ASSUME bad # {} PROVE FALSE
  BY Pow2Def
<1>2. PICK n \in bad : \A m \in bad : n <= m
  <2>1. bad \subseteq Nat
    OBVIOUS
  <2> HIDE DEF bad
  <2> QED BY <1>1, <2>1, LeastOfNats
<1>3. n \in Nat /\ ~ (Pow2[n] > 0)
  OBVIOUS
<1>4. n # 0
  BY <1>3, Pow2Def
<1>5. PICK m \in Nat : n = m + 1
  BY <1>3, <1>4
<1>6. m \notin bad
  BY <1>2, <1>5
<1>7. Pow2[m] \in Nat /\ Pow2[m] > 0 /\ Pow2[n] = 2 * Pow2[m]
  BY <1>5, <1>6, Pow2Def
<1> QED BY <1>3, <1>7

(* Multiplying by a sum and by a double *)
LEMMA MulDouble ==
    ASSUME NEW a \in Nat, NEW b \in Nat
    PROVE  2 * (a * b) = a * (2 * b) /\ a * b \in Nat
OBVIOUS

(* Shifting twice is shifting by the sum *)
LEMMA Pow2Sum == \A d \in Nat, e \in Nat : Pow2[d + e] = Pow2[d] * Pow2[e]
<1> SUFFICES ASSUME NEW d \in Nat PROVE \A e \in Nat : Pow2[d + e] = Pow2[d] * Pow2[e]
  OBVIOUS
<1> DEFINE bad == {e \in Nat : Pow2[d + e] # Pow2[d] * Pow2[e]}
<1>1. SUFFICES ASSUME bad # {} PROVE FALSE
  OBVIOUS
<1>2. PICK e \in bad : \A m \in bad : e <= m
  <2>1. bad \subseteq Nat
    OBVIOUS
  <2> HIDE DEF bad
  <2> QED BY <1>1, <2>1, LeastOfNats
<1>3. e \in Nat /\ Pow2[d + e] # Pow2[d] * Pow2[e]
  OBVIOUS
<1>4. e # 0
  <2>1. Pow2[0] = 1 /\ Pow2[d] \in Nat /\ d + 0 = d
    BY Pow2Def
  <2> QED BY <1>3, <2>1
<1>5. PICK m \in Nat : e = m + 1
  BY <1>3, <1>4
<1>6. m \notin bad
  BY <1>2, <1>5
<1>7. Pow2[d + m] = Pow2[d] * Pow2[m]
  BY <1>6
<1>8. Pow2[(d + m) + 1] = 2 * Pow2[d + m] /\ Pow2[m + 1] = 2 * Pow2[m]
  BY Pow2Def
<1>9. 2 * (Pow2[d] * Pow2[m]) = Pow2[d] * (2 * Pow2[m])
  BY MulDouble, Pow2Def
<1>10. d + e = (d + m) + 1
  BY <1>5
<1> QED BY <1>3, <1>5, <1>7, <1>8, <1>9, <1>10

(* A product with a larger factor is larger by at least the other factor *)
LEMMA MulGrows ==
    ASSUME NEW m \in Nat, NEW a \in Nat, NEW b \in Nat, a < b
    PROVE  m * a + m <= m * b
<1>1. PICK c \in Nat : b = a + 1 + c
  BY SMT
<1>2. m * (a + 1 + c) = m * a + m + m * c
  BY SMT
<1>3. m * c \in Nat /\ m * a \in Nat
  BY SMT
<1> QED BY <1>1, <1>2, <1>3

(* Division with a remainder *)
LEMMA DivideWithRemainder ==
    ASSUME NEW x \in Nat, NEW m \in Nat, m > 0
    PROVE  \E q \in Nat, r \in Nat : q = x \div m /\ r = x % m /\ x = m * q + r /\ r < m
<1>1. x = m * (x \div m) + (x % m) /\ x % m < m /\ x % m \in Nat /\ x \div m \in Nat
  BY SMT
<1>2. PICK q \in Nat, r \in Nat : q = x \div m /\ r = x % m
  BY <1>1
<1>3. x = m * q + r /\ r < m
  BY <1>1, <1>2
<1> QED BY <1>2, <1>3

(* What / and % return is the only quotient and remainder *)
LEMMA DivideOnce ==
    ASSUME NEW x \in Nat, NEW m \in Nat, m > 0, NEW q \in Nat, NEW r \in Nat, r < m,
           x = m * q + r
    PROVE  x % m = r /\ x \div m = q
<1>1. PICK a \in Nat, b \in Nat : a = x \div m /\ b = x % m
  OBVIOUS
<1>2. x = m * a + b /\ b < m
  BY <1>1
<1>3. m * a \in Nat /\ m * q \in Nat
  BY SMT
<1>4. ~ (a < q)
  <2>1. SUFFICES ASSUME a < q PROVE FALSE
    OBVIOUS
  <2>2. m * a + m <= m * q
    BY <2>1, MulGrows
  <2> QED BY <1>2, <1>3, <2>2
<1>5. ~ (q < a)
  <2>1. SUFFICES ASSUME q < a PROVE FALSE
    OBVIOUS
  <2>2. m * q + m <= m * a
    BY <2>1, MulGrows
  <2> QED BY <1>2, <1>3, <2>2
<1>6. a = q
  BY <1>4, <1>5
<1>7. b = r
  BY <1>2, <1>3, <1>6
<1> QED BY <1>1, <1>6, <1>7

(* The remainder is in range *)
LEMMA RemainderInRange ==
    ASSUME NEW x \in Nat, NEW d \in Nat
    PROVE  x % Pow2[d] \in Nat /\ x % Pow2[d] < Pow2[d]
<1>1. Pow2[d] \in Nat /\ Pow2[d] > 0
  BY Pow2Positive
<1>2. PICK m \in Nat : m = Pow2[d] /\ m > 0
  BY <1>1
<1>3. x % m \in Nat /\ x % m < m
  BY <1>2
<1> QED BY <1>2, <1>3

(* (n & ((1 << g) - 1)) & ((1 << d) - 1): the narrower mask decides *)
LEMMA MaskTwice ==
    ASSUME NEW x \in Nat, NEW d \in Nat, NEW g \in Nat, d <= g
    PROVE  (x % Pow2[g]) % Pow2[d] = x % Pow2[d]
<1>1. PICK m \in Nat, n \in Nat : m = Pow2[d] /\ n = Pow2[g - d] /\ m > 0 /\ n > 0
  BY Pow2Positive
<1>2. Pow2[g] = m * n
  <2>1. g = d + (g - d) /\ g - d \in Nat
    OBVIOUS
  <2> QED BY <1>1, <2>1, Pow2Sum
<1>3. PICK w \in Nat : w = m * n /\ w > 0
  <2>1. Pow2[g] \in Nat /\ Pow2[g] > 0
    BY Pow2Positive
  <2> QED BY <1>2, <2>1
<1>4. PICK a \in Nat, y \in Nat : x = w * a + y /\ y = x % w
  BY <1>3
<1>5. PICK b \in Nat, r \in Nat : y = m * b + r /\ r = y % m /\ r < m
  BY <1>1, DivideWithRemainder
<1>6. x = m * (n * a + b) + r
  <2>1. w * a = m * (n * a)
    BY <1>3, SMT
  <2>2. m * (n * a + b) = m * (n * a) + m * b
    BY SMT
  <2>3. PICK u \in Nat, v \in Nat : u = m * (n * a) /\ v = m * b
    BY SMT
  <2>4. x = u + y /\ y = v + r
    BY <1>4, <1>5, <2>1, <2>3
  <2>5. u + (v + r) = (u + v) + r
    OBVIOUS
  <2> QED BY <2>2, <2>3, <2>4, <2>5
<1>7. n * a + b \in Nat
  BY SMT
<1>8. x % m = r
  BY <1>1, <1>5, <1>6, <1>7, DivideOnce
<1> QED BY <1>1, <1>2, <1>3, <1>4, <1>5, <1>8

(* The mask one bit wider adds the bit at its depth *)
LEMMA OneMoreBit ==
    ASSUME NEW x \in Nat, NEW d \in Nat
    PROVE  x % Pow2[d + 1] = (x % Pow2[d]) + (IF Bit(x, d) THEN Pow2[d] ELSE 0)
<1>1. PICK m \in Nat : m = Pow2[d] /\ m > 0
  BY Pow2Positive
<1>2. Pow2[d + 1] = 2 * m
  BY <1>1, Pow2Def
<1>3. PICK q \in Nat, r \in Nat : q = x \div m /\ r = x % m /\ x = m * q + r /\ r < m
  BY <1>1, DivideWithRemainder
<1>4. Bit(x, d) <=> q % 2 = 1
  BY <1>1, <1>3 DEF Bit
<1>5. PICK a \in Nat, c \in {0, 1} : q = 2 * a + c /\ c = q % 2
  <2>1. q = 2 * (q \div 2) + (q % 2) /\ q % 2 \in {0, 1} /\ q \div 2 \in Nat
    BY SMT
  <2> QED BY <2>1
<1>6. x = (2 * m) * a + (m * c + r)
  <2>1. m * (2 * a + c) = (2 * m) * a + m * c
    BY SMT
  <2>2. PICK u \in Nat, v \in Nat : u = (2 * m) * a /\ v = m * c
    BY SMT
  <2>3. x = (u + v) + r
    BY <1>3, <1>5, <2>1, <2>2
  <2> QED BY <2>2, <2>3
<1>7. m * c = IF c = 1 THEN m ELSE 0
  BY <1>5
<1>8. m * c + r \in Nat /\ m * c + r < 2 * m
  <2>1. PICK v \in Nat : v = m * c /\ v <= m
    BY <1>1, <1>7
  <2>2. v + r \in Nat /\ v + r < 2 * m
    <3>1. r < m
      BY <1>3
    <3> QED BY <2>1, <3>1
  <2> QED BY <2>1, <2>2
<1>9. x % (2 * m) = m * c + r
  <2>1. PICK s \in Nat : s = m * c + r
    BY <1>8
  <2>2. PICK w \in Nat : w = 2 * m /\ w > 0
    BY <1>1
  <2>3. x = w * a + s /\ s < w
    BY <1>6, <1>8, <2>1, <2>2
  <2> QED BY <2>1, <2>2, <2>3, DivideOnce
<1> QED BY <1>1, <1>2, <1>3, <1>4, <1>5, <1>7, <1>9

(* Masking keeps the bits below the mask *)
LEMMA BitOfMasked ==
    ASSUME NEW x \in Nat, NEW d \in Nat, NEW g \in Nat, d < g
    PROVE  Bit(x % Pow2[g], d) <=> Bit(x, d)
<1>1. PICK y \in Nat : y = x % Pow2[g]
  BY RemainderInRange
<1>2. y % Pow2[d + 1] = x % Pow2[d + 1] /\ y % Pow2[d] = x % Pow2[d]
  BY <1>1, MaskTwice
<1>3. /\ x % Pow2[d + 1] = (x % Pow2[d]) + (IF Bit(x, d) THEN Pow2[d] ELSE 0)
      /\ y % Pow2[d + 1] = (y % Pow2[d]) + (IF Bit(y, d) THEN Pow2[d] ELSE 0)
  BY OneMoreBit
<1>4. PICK m \in Nat, r \in Nat : m = Pow2[d] /\ m > 0 /\ r = x % Pow2[d]
  BY Pow2Positive, RemainderInRange
<1>5. r + (IF Bit(x, d) THEN m ELSE 0) = r + (IF Bit(y, d) THEN m ELSE 0)
  BY <1>2, <1>3, <1>4
<1>6. Bit(x, d) <=> Bit(y, d)
  <2>1. CASE Bit(x, d) /\ ~ Bit(y, d)
    BY <1>4, <1>5, <2>1
  <2>2. CASE ~ Bit(x, d) /\ Bit(y, d)
    BY <1>4, <1>5, <2>2
  <2> QED BY <2>1, <2>2
<1> QED BY <1>1, <1>6

(* Two numbers agree on d + 1 bits when they agree on d and on the next *)
LEMMA AgreeOneMore ==
    ASSUME NEW x \in Nat, NEW y \in Nat, NEW d \in Nat
    PROVE  x % Pow2[d + 1] = y % Pow2[d + 1]
           <=> (x % Pow2[d] = y % Pow2[d] /\ (Bit(x, d) <=> Bit(y, d)))
<1>1. /\ x % Pow2[d + 1] = (x % Pow2[d]) + (IF Bit(x, d) THEN Pow2[d] ELSE 0)
      /\ y % Pow2[d + 1] = (y % Pow2[d]) + (IF Bit(y, d) THEN Pow2[d] ELSE 0)
  BY OneMoreBit
<1>2. PICK m \in Nat : m = Pow2[d] /\ m > 0
  BY Pow2Positive
<1>3. PICK r \in Nat, s \in Nat : r = x % m /\ r < m /\ s = y % m /\ s < m
  BY <1>2, RemainderInRange
<1>4. /\ x % Pow2[d + 1] = r + (IF Bit(x, d) THEN m ELSE 0)
      /\ y % Pow2[d + 1] = s + (IF Bit(y, d) THEN m ELSE 0)
  BY <1>1, <1>2, <1>3
<1>5. CASE Bit(x, d) /\ Bit(y, d)
  <2>1. x % Pow2[d + 1] = r + m /\ y % Pow2[d + 1] = s + m
    BY <1>4, <1>5
  <2>2. r + m = s + m <=> r = s
    OBVIOUS
  <2> QED BY <1>2, <1>3, <1>5, <2>1, <2>2
<1>6. CASE Bit(x, d) /\ ~ Bit(y, d)
  BY <1>2, <1>3, <1>4, <1>6
<1>7. CASE ~ Bit(x, d) /\ Bit(y, d)
  BY <1>2, <1>3, <1>4, <1>7
<1>8. CASE ~ Bit(x, d) /\ ~ Bit(y, d)
  BY <1>2, <1>3, <1>4, <1>8
<1> QED BY <1>5, <1>6, <1>7, <1>8

(* A number below the mask is its own remainder *)
LEMMA SmallRemainder ==
    ASSUME NEW d \in Nat, NEW x \in Nat, x < Pow2[d]
    PROVE  x % Pow2[d] = x /\ x \div Pow2[d] = 0
<1>1. PICK m \in Nat : m = Pow2[d] /\ m > 0
  BY Pow2Positive
<1>2. x = m * 0 + x
  BY <1>1
<1> QED BY <1>1, <1>2, DivideOnce

(* The wider mask is the larger one *)
LEMMA Pow2Grows ==
    ASSUME NEW d \in Nat, NEW g \in Nat, d <= g
    PROVE  Pow2[d] <= Pow2[g]
<1>1. PICK m \in Nat, n \in Nat : m = Pow2[d] /\ n = Pow2[g - d] /\ n > 0
  BY Pow2Positive
<1>2. Pow2[g] = m * n
  <2>1. g = d + (g - d) /\ g - d \in Nat
    OBVIOUS
  <2> QED BY <1>1, <2>1, Pow2Sum
<1>3. m * 0 + m <= m * n
  BY <1>1, MulGrows
<1> QED BY <1>1, <1>2, <1>3
-----------------------------------------------------------------------------

(* The inductive invariant, as a predicate of a global depth g, a directory *)
(* dr, buckets bk and their number nb: the parts of TableConsistent, with   *)
(* "every bucket can be reached" for the count, and lists that are finite.  *)
Indexes(g) == 0..(Pow2[g] - 1)

WellTyped(g, dr, bk, nb) ==
    /\ g \in Nat /\ nb \in Nat
    /\ dr \in [Indexes(g) -> 1..nb]
    /\ bk \in [1..nb -> [depth : 0..g, items : SUBSET Pairs]]

WellShared(g, dr, bk) ==
    \A i, j \in Indexes(g) :
        dr[i] = dr[j] <=> i % Pow2[bk[dr[i]].depth] = j % Pow2[bk[dr[i]].depth]

AllReached(g, dr, nb) == \A c \in 1..nb : \E i \in Indexes(g) : dr[i] = c

ListOK(items) ==
    /\ IsFiniteSet(items) /\ Cardinality(items) <= BucketSize
    /\ \A item, other \in items : other[1] = item[1] => other = item

WellPlaced(g, dr, bk, nb) ==
    \A c \in 1..nb :
        /\ ListOK(bk[c].items)
        /\ \A item \in bk[c].items : dr[Hash[item[1]] % Pow2[g]] = c

Good(g, dr, bk, nb) ==
    /\ WellTyped(g, dr, bk, nb)
    /\ WellShared(g, dr, bk)
    /\ AllReached(g, dr, nb)
    /\ WellPlaced(g, dr, bk, nb)

TableInv ==
    /\ Good(global_depth, dir, bucket, num_buckets)
    /\ global_depth <= HashBits
    /\ inserting \in Pairs \cup {None}

(* The directory after dir_.resize and the copy of its lower half *)
Twice(g, dr) == [i \in Indexes(g + 1) |-> dr[i % Pow2[g]]]

(* The division of bucket b, with local depth below the global one *)
Ones(bk, b) == {item \in bk[b].items : Bit(Hash[item[1]], bk[b].depth)}
SplitBuckets(bk, nb, b) ==
    [c \in 1..(nb + 1) |->
        CASE c = b -> [depth |-> bk[b].depth + 1, items |-> bk[b].items \ Ones(bk, b)]
          [] c = nb + 1 -> [depth |-> bk[b].depth + 1, items |-> Ones(bk, b)]
          [] OTHER -> bk[c]]
SplitDir(g, dr, bk, nb, b) ==
    [i \in Indexes(g) |-> IF dr[i] = b /\ Bit(i, bk[b].depth) THEN nb + 1 ELSE dr[i]]

(* Remainders are indexes of the directory *)
LEMMA IndexInRange ==
    ASSUME NEW x \in Nat, NEW g \in Nat
    PROVE  x % Pow2[g] \in Indexes(g) /\ Indexes(g) \subseteq Nat
<1>1. PICK r \in Nat, m \in Nat : r = x % Pow2[g] /\ m = Pow2[g] /\ r < m
  BY RemainderInRange, Pow2Def
<1> QED BY <1>1 DEF Indexes

(* What an index is *)
LEMMA IndexIs ==
    ASSUME NEW g \in Nat, NEW i \in Indexes(g)
    PROVE  i \in Nat /\ i < Pow2[g] /\ i % Pow2[g] = i
<1>1. PICK m \in Nat : m = Pow2[g]
  BY Pow2Def
<1>2. i \in Nat /\ i < m
  BY <1>1 DEF Indexes
<1> QED BY <1>1, <1>2, SmallRemainder

(* std::hash returns a number of HashBits bits *)
LEMMA HashInRange ==
    ASSUME NEW k \in Keys
    PROVE  Hash[k] \in Nat /\ Hash[k] < Pow2[HashBits]
<1>1. PICK m \in Nat : m = Pow2[HashBits]
  BY Pow2Def, HashAssumption
<1> QED BY <1>1, HashAssumption

(* Doubling the directory changes no bucket *)
LEMMA DoublingOK ==
    ASSUME NEW g, NEW dr, NEW bk, NEW nb, Good(g, dr, bk, nb)
    PROVE  Good(g + 1, Twice(g, dr), bk, nb)
<1> DEFINE wide == Twice(g, dr)
<1>0. WellTyped(g, dr, bk, nb) /\ WellShared(g, dr, bk) /\ AllReached(g, dr, nb)
      /\ WellPlaced(g, dr, bk, nb)
  BY DEF Good
<1>1. g \in Nat /\ g + 1 \in Nat /\ nb \in Nat /\ dr \in [Indexes(g) -> 1..nb]
      /\ bk \in [1..nb -> [depth : 0..g, items : SUBSET Pairs]]
  BY <1>0 DEF WellTyped
<1>2. \A i \in Indexes(g + 1) : i \in Nat /\ i % Pow2[g] \in Indexes(g)
  BY <1>1, IndexIs, IndexInRange
<1>3. \A i \in Indexes(g + 1) : wide[i] = dr[i % Pow2[g]] /\ wide[i] \in 1..nb
  BY <1>1, <1>2 DEF Twice
<1>4. WellTyped(g + 1, wide, bk, nb)
  <2>1. wide \in [Indexes(g + 1) -> 1..nb]
    BY <1>3 DEF Twice
  <2>2. bk \in [1..nb -> [depth : 0..(g + 1), items : SUBSET Pairs]]
    <3>1. 0..g \subseteq 0..(g + 1)
      BY <1>1
    <3>2. [depth : 0..g, items : SUBSET Pairs] \subseteq [depth : 0..(g + 1), items : SUBSET Pairs]
      BY <3>1
    <3> QED BY <1>1, <3>2
  <2> QED BY <1>1, <2>1, <2>2 DEF WellTyped
<1> HIDE DEF wide
<1>5. WellShared(g + 1, wide, bk)
  <2>1. SUFFICES ASSUME NEW i \in Indexes(g + 1), NEW j \in Indexes(g + 1)
                 PROVE  wide[i] = wide[j] <=>
                        i % Pow2[bk[wide[i]].depth] = j % Pow2[bk[wide[i]].depth]
    BY DEF WellShared
  <2>2. PICK x, y : x = i % Pow2[g] /\ y = j % Pow2[g]
    OBVIOUS
  <2>3. x \in Indexes(g) /\ y \in Indexes(g) /\ wide[i] = dr[x] /\ wide[j] = dr[y]
    BY <1>2, <1>3, <2>2
  <2>4. PICK d : d = bk[dr[x]].depth
    OBVIOUS
  <2>5. dr[x] \in 1..nb
    BY <1>1, <2>3
  <2>6. d \in 0..g
    BY <1>1, <2>4, <2>5
  <2>7. d \in Nat /\ d <= g
    BY <1>1, <2>6
  <2>8. dr[x] = dr[y] <=> x % Pow2[d] = y % Pow2[d]
    BY <1>0, <2>3, <2>4 DEF WellShared
  <2>9. x % Pow2[d] = i % Pow2[d] /\ y % Pow2[d] = j % Pow2[d]
    BY <1>1, <1>2, <2>2, <2>7, MaskTwice
  <2> QED BY <2>3, <2>4, <2>8, <2>9
<1>6. ASSUME NEW i \in Indexes(g) PROVE i \in Indexes(g + 1) /\ wide[i] = dr[i]
  <2>1. PICK m \in Nat, n \in Nat : m = Pow2[g] /\ n = Pow2[g + 1] /\ n = 2 * m
    BY <1>1, Pow2Def
  <2>2. i \in Indexes(g + 1)
    BY <2>1 DEF Indexes
  <2>3. i % Pow2[g] = i
    BY <1>1, IndexIs
  <2> QED BY <1>3, <2>2, <2>3
<1>7. AllReached(g + 1, wide, nb)
  BY <1>0, <1>6 DEF AllReached
<1>8. WellPlaced(g + 1, wide, bk, nb)
  <2>1. ASSUME NEW c \in 1..nb, NEW item \in bk[c].items
        PROVE  wide[Hash[item[1]] % Pow2[g + 1]] = c
    <3>1. bk[c].items \subseteq Pairs
      BY <1>1
    <3>2. PICK h \in Nat : h = Hash[item[1]]
      BY <3>1, HashInRange DEF Pairs
    <3>3. h % Pow2[g + 1] \in Indexes(g + 1)
      BY <1>1, <3>2, IndexInRange
    <3>4. (h % Pow2[g + 1]) % Pow2[g] = h % Pow2[g]
      <4>1. g <= g + 1
        BY <1>1
      <4> QED BY <1>1, <4>1, <3>2, MaskTwice
    <3>5. dr[h % Pow2[g]] = c
      BY <1>0, <3>2 DEF WellPlaced
    <3> QED BY <1>3, <3>2, <3>3, <3>4, <3>5
  <2> QED BY <1>0, <2>1 DEF WellPlaced
<1> QED BY <1>4, <1>5, <1>7, <1>8 DEF Good, wide

(* Part of a bucket's list is a list a bucket may hold *)
LEMMA SublistOK ==
    ASSUME BucketSize \in Nat, NEW items, ListOK(items), NEW sub \in SUBSET items
    PROVE  ListOK(sub)
<1>1. IsFiniteSet(items) /\ Cardinality(items) <= BucketSize
  BY DEF ListOK
<1>2. IsFiniteSet(sub) /\ Cardinality(sub) <= Cardinality(items)
  BY <1>1, FS_Subset
<1>3. Cardinality(sub) \in Nat /\ Cardinality(items) \in Nat
  BY <1>1, <1>2, FS_CardinalityType
<1>4. Cardinality(sub) <= BucketSize
  BY <1>1, <1>2, <1>3
<1> QED BY <1>2, <1>4 DEF ListOK

(* Dividing a bucket of local depth below the global one *)
LEMMA SplittingOK ==
    ASSUME NEW g, NEW dr, NEW bk, NEW nb, Good(g, dr, bk, nb),
           NEW b \in 1..nb, bk[b].depth < g
    PROVE  Good(g, SplitDir(g, dr, bk, nb, b), SplitBuckets(bk, nb, b), nb + 1)
<1> DEFINE d == bk[b].depth
           dr2 == SplitDir(g, dr, bk, nb, b)
           bk2 == SplitBuckets(bk, nb, b)
           ones == Ones(bk, b)
<1>0. WellTyped(g, dr, bk, nb) /\ WellShared(g, dr, bk) /\ AllReached(g, dr, nb)
      /\ WellPlaced(g, dr, bk, nb)
  BY DEF Good
<1>1. g \in Nat /\ nb \in Nat /\ nb + 1 \in Nat /\ dr \in [Indexes(g) -> 1..nb]
      /\ bk \in [1..nb -> [depth : 0..g, items : SUBSET Pairs]]
  BY <1>0 DEF WellTyped
<1>2. d \in Nat /\ d + 1 \in Nat /\ d + 1 <= g /\ d < g /\ d + 1 \in 0..g
  BY <1>1
<1>3. b # nb + 1 /\ nb + 1 \notin 1..nb /\ b \in 1..(nb + 1) /\ nb + 1 \in 1..(nb + 1)
      /\ 1..nb \subseteq 1..(nb + 1)
  BY <1>1
<1>4. /\ bk2[b] = [depth |-> d + 1, items |-> bk[b].items \ ones]
      /\ bk2[nb + 1] = [depth |-> d + 1, items |-> ones]
      /\ \A c \in 1..nb : c # b => bk2[c] = bk[c]
  BY <1>3 DEF SplitBuckets
<1>5. \A i \in Indexes(g) : dr2[i] = IF dr[i] = b /\ Bit(i, d) THEN nb + 1 ELSE dr[i]
  BY DEF SplitDir
<1>6. bk[b].items \subseteq Pairs /\ ones \subseteq bk[b].items
  BY <1>1 DEF Ones
<1>7. WellTyped(g, dr2, bk2, nb + 1)
  <2>1. \A i \in Indexes(g) : (IF dr[i] = b /\ Bit(i, d) THEN nb + 1 ELSE dr[i]) \in 1..(nb + 1)
    BY <1>1, <1>3
  <2>2. dr2 \in [Indexes(g) -> 1..(nb + 1)]
    BY <2>1 DEF SplitDir
  <2>3. ASSUME NEW c \in 1..(nb + 1)
        PROVE  bk2[c] \in [depth : 0..g, items : SUBSET Pairs]
    <3>1. CASE c = b
      BY <1>2, <1>4, <1>6, <3>1
    <3>2. CASE c = nb + 1
      BY <1>2, <1>4, <1>6, <3>2
    <3>3. CASE c # b /\ c # nb + 1
      <4>1. c \in 1..nb
        BY <1>1, <3>3
      <4> QED BY <1>1, <1>4, <3>3, <4>1
    <3> QED BY <3>1, <3>2, <3>3
  <2>4. bk2 = [c \in 1..(nb + 1) |-> bk2[c]]
    BY DEF SplitBuckets
  <2> HIDE DEF bk2, dr2
  <2>5. bk2 \in [1..(nb + 1) -> [depth : 0..g, items : SUBSET Pairs]]
    BY <2>3, <2>4
  <2> QED BY <1>1, <2>2, <2>5 DEF WellTyped
<1> HIDE DEF dr2, bk2, ones
<1>8. /\ bk2[b].depth = d + 1 /\ bk2[nb + 1].depth = d + 1
      /\ bk2[b].items = bk[b].items \ ones /\ bk2[nb + 1].items = ones
  BY <1>4
<1> HIDE DEF d
<1>9. WellShared(g, dr2, bk2)
  <2>1. SUFFICES ASSUME NEW i \in Indexes(g), NEW j \in Indexes(g)
                 PROVE  dr2[i] = dr2[j] <=>
                        i % Pow2[bk2[dr2[i]].depth] = j % Pow2[bk2[dr2[i]].depth]
    BY DEF WellShared
  <2>2. i \in Nat /\ j \in Nat /\ dr[i] \in 1..nb /\ dr[j] \in 1..nb
    BY <1>1, IndexIs
  <2>3. dr[i] = dr[j] <=> i % Pow2[bk[dr[i]].depth] = j % Pow2[bk[dr[i]].depth]
    BY <1>0 DEF WellShared
  <2>4. CASE dr[i] # b
    <3>1. dr2[i] = dr[i] /\ bk2[dr2[i]] = bk[dr[i]]
      BY <1>4, <1>5, <2>2, <2>4
    <3>2. dr2[j] = dr[i] <=> dr[j] = dr[i]
      BY <1>3, <1>5, <2>2, <2>4
    <3> QED BY <2>3, <3>1, <3>2
  <2>5. CASE dr[i] = b
    <3>1. bk2[dr2[i]].depth = d + 1
      BY <1>5, <1>8, <2>5
    <3>2. dr2[i] = dr2[j] <=> (dr[j] = b /\ (Bit(i, d) <=> Bit(j, d)))
      BY <1>3, <1>5, <2>2, <2>5
    <3>3. dr[j] = b <=> i % Pow2[d] = j % Pow2[d]
      BY <2>3, <2>5 DEF d
    <3>4. i % Pow2[d + 1] = j % Pow2[d + 1]
          <=> (i % Pow2[d] = j % Pow2[d] /\ (Bit(i, d) <=> Bit(j, d)))
      BY <1>2, <2>2, AgreeOneMore
    <3> QED BY <3>1, <3>2, <3>3, <3>4
  <2> QED BY <2>4, <2>5
<1>10. AllReached(g, dr2, nb + 1)
  <2>1. PICK m \in Nat, n \in Nat, w \in Nat :
            m = Pow2[d] /\ m > 0 /\ n = Pow2[d + 1] /\ n = 2 * m /\ w = Pow2[g] /\ n <= w
    <3>1. Pow2[d] \in Nat /\ Pow2[d] > 0 /\ Pow2[d + 1] \in Nat /\ Pow2[g] \in Nat
      BY <1>1, <1>2, Pow2Positive
    <3>2. Pow2[d + 1] = 2 * Pow2[d]
      BY <1>2, Pow2Def
    <3>3. Pow2[d + 1] <= Pow2[g]
      BY <1>1, <1>2, Pow2Grows
    <3> QED BY <3>1, <3>2, <3>3
  <2>2. PICK i \in Indexes(g) : dr[i] = b
    BY <1>0 DEF AllReached
  <2>3. i \in Nat
    BY <1>1, IndexIs
  <2>4. PICK x \in Nat : x = i % Pow2[d] /\ x < m
    BY <1>2, <2>1, <2>3, RemainderInRange
  <2>5. x % Pow2[d] = x /\ x \div Pow2[d] = 0
    BY <1>2, <2>1, <2>4, SmallRemainder
  <2>6. (x + m) % Pow2[d] = x /\ (x + m) \div Pow2[d] = 1 /\ x + m \in Nat
    <3>1. x + m = m * 1 + x /\ x + m \in Nat
      BY <2>1
    <3> QED BY <2>1, <2>4, <3>1, DivideOnce, ZenonT(40)
  <2>7. x \in Indexes(g) /\ x + m \in Indexes(g)
    BY <2>1, <2>4 DEF Indexes
  <2>8. ~ Bit(x, d) /\ Bit(x + m, d)
    <3>1. 0 % 2 = 0 /\ 1 % 2 = 1
      OBVIOUS
    <3> QED BY <2>5, <2>6, <3>1 DEF Bit
  <2>9. dr[x] = b /\ dr[x + m] = b
    <3>1. ASSUME NEW y \in Indexes(g), y % Pow2[d] = x PROVE dr[y] = b
      <4>1. dr[i] = dr[y] <=> i % Pow2[bk[dr[i]].depth] = y % Pow2[bk[dr[i]].depth]
        BY <1>0 DEF WellShared
      <4> QED BY <2>2, <2>4, <3>1, <4>1 DEF d
    <3> QED BY <2>5, <2>6, <2>7, <3>1
  <2>10. dr2[x] = b /\ dr2[x + m] = nb + 1
    BY <1>5, <2>7, <2>8, <2>9
  <2>11. ASSUME NEW c \in 1..(nb + 1) PROVE \E y \in Indexes(g) : dr2[y] = c
    <3>1. CASE c = b
      BY <2>7, <2>10, <3>1
    <3>2. CASE c = nb + 1
      BY <2>7, <2>10, <3>2
    <3>3. CASE c # b /\ c # nb + 1
      <4>1. c \in 1..nb
        BY <1>1, <3>3
      <4>2. PICK y \in Indexes(g) : dr[y] = c
        BY <1>0, <4>1 DEF AllReached
      <4> QED BY <1>5, <3>3, <4>2
    <3> QED BY <3>1, <3>2, <3>3
  <2> QED BY <2>11 DEF AllReached
<1>11. WellPlaced(g, dr2, bk2, nb + 1)
  <2>1. ListOK(bk[b].items) /\ BucketSize \in Nat
    BY <1>0, HashAssumption DEF WellPlaced
  <2>2. ListOK(bk[b].items \ ones) /\ ListOK(ones)
    BY <1>6, <2>1, SublistOK
  <2>3. ASSUME NEW c \in 1..nb, NEW item \in bk[c].items
        PROVE  /\ Hash[item[1]] \in Nat /\ Hash[item[1]] % Pow2[g] \in Indexes(g)
               /\ dr[Hash[item[1]] % Pow2[g]] = c
               /\ Bit(Hash[item[1]] % Pow2[g], d) <=> Bit(Hash[item[1]], d)
    <3>1. bk[c].items \subseteq Pairs
      BY <1>1
    <3>2. Hash[item[1]] \in Nat
      BY <3>1, HashInRange DEF Pairs
    <3>3. Hash[item[1]] % Pow2[g] \in Indexes(g)
      BY <1>1, <3>2, IndexInRange
    <3>4. dr[Hash[item[1]] % Pow2[g]] = c
      BY <1>0 DEF WellPlaced
    <3>5. Bit(Hash[item[1]] % Pow2[g], d) <=> Bit(Hash[item[1]], d)
      BY <1>1, <1>2, <3>2, BitOfMasked
    <3> QED BY <3>2, <3>3, <3>4, <3>5
  <2>4. \A item \in bk[b].items : item \in ones <=> Bit(Hash[item[1]], d)
    BY DEF ones, Ones, d
  <2>5. ASSUME NEW c \in 1..(nb + 1)
        PROVE  ListOK(bk2[c].items) /\ \A item \in bk2[c].items : dr2[Hash[item[1]] % Pow2[g]] = c
    <3>1. CASE c = b
      <4>1. ASSUME NEW item \in bk[b].items \ ones PROVE dr2[Hash[item[1]] % Pow2[g]] = b
        BY <1>5, <2>3, <2>4
      <4> QED BY <1>8, <2>2, <3>1, <4>1
    <3>2. CASE c = nb + 1
      <4>1. ASSUME NEW item \in ones PROVE dr2[Hash[item[1]] % Pow2[g]] = nb + 1
        BY <1>5, <1>6, <2>3, <2>4
      <4> QED BY <1>8, <2>2, <3>2, <4>1
    <3>3. CASE c # b /\ c # nb + 1
      <4>1. c \in 1..nb
        BY <1>1, <3>3
      <4>2. bk2[c].items = bk[c].items /\ ListOK(bk[c].items)
        BY <1>0, <1>4, <3>3, <4>1 DEF WellPlaced
      <4>3. ASSUME NEW item \in bk[c].items PROVE dr2[Hash[item[1]] % Pow2[g]] = c
        BY <1>5, <2>3, <3>3, <4>1
      <4> QED BY <4>2, <4>3
    <3> QED BY <3>1, <3>2, <3>3
  <2> QED BY <2>5 DEF WellPlaced
<1> QED BY <1>7, <1>9, <1>10, <1>11 DEF Good, dr2, bk2

(* A bucket as deep as the hash is wide holds keys of one hash only, and so *)
(* is not full: the directory never grows past the hash.                    *)
LEMMA DeepestNotFull ==
    ASSUME NEW dr, NEW bk, NEW nb, Good(HashBits, dr, bk, nb),
           NEW b \in 1..nb, bk[b].depth = HashBits,
           NEW k \in Keys, dr[Hash[k] % Pow2[HashBits]] = b
    PROVE  Cardinality(bk[b].items) # BucketSize
<1> DEFINE items == bk[b].items
           same == {j \in Keys : Hash[j] = Hash[k]}
           keyOf == [item \in items |-> item[1]]
<1>0. WellShared(HashBits, dr, bk) /\ WellPlaced(HashBits, dr, bk, nb)
      /\ WellTyped(HashBits, dr, bk, nb)
  BY DEF Good
<1>1. HashBits \in Nat /\ BucketSize \in Nat /\ IsFiniteSet(Keys)
      /\ Cardinality(same) < BucketSize
  BY HashAssumption
<1>2. items \subseteq Pairs
  BY <1>0 DEF WellTyped
<1>3. \A j \in Keys : /\ Hash[j] % Pow2[HashBits] = Hash[j]
                      /\ Hash[j] \in Indexes(HashBits) /\ Hash[j] \in Nat
  <2> SUFFICES ASSUME NEW j \in Keys
               PROVE  /\ Hash[j] % Pow2[HashBits] = Hash[j]
                      /\ Hash[j] \in Indexes(HashBits) /\ Hash[j] \in Nat
    OBVIOUS
  <2>1. Hash[j] \in Nat /\ Hash[j] < Pow2[HashBits]
    BY HashInRange
  <2>2. Hash[j] % Pow2[HashBits] = Hash[j]
    BY <1>1, <2>1, SmallRemainder
  <2>3. Hash[j] % Pow2[HashBits] \in Indexes(HashBits)
    BY <1>1, <2>1, IndexInRange
  <2> QED BY <2>1, <2>2, <2>3
<1>4. ASSUME NEW item \in items PROVE item[1] \in same
  <2>1. item[1] \in Keys
    BY <1>2 DEF Pairs
  <2>2. dr[Hash[item[1]] % Pow2[HashBits]] = b
    BY <1>0 DEF WellPlaced
  <2>3. dr[Hash[item[1]]] = b /\ dr[Hash[k]] = b
    BY <1>3, <2>1, <2>2
  <2>4. Hash[item[1]] % Pow2[HashBits] = Hash[k] % Pow2[HashBits]
    BY <1>0, <1>3, <2>1, <2>3 DEF WellShared
  <2> QED BY <1>3, <2>1, <2>4
<1>5. IsFiniteSet(same)
  BY <1>1, FS_Subset
<1>6. IsFiniteSet(items) /\ \A item, other \in items : other[1] = item[1] => other = item
  BY <1>0 DEF WellPlaced, ListOK
<1>7. keyOf \in Injection(items, same)
  BY <1>4, <1>6 DEF Injection, IsInjective
<1>8. Cardinality(items) <= Cardinality(same)
  BY <1>5, <1>7, FS_Injection
<1>9. Cardinality(items) \in Nat /\ Cardinality(same) \in Nat
  BY <1>5, <1>6, FS_CardinalityType
<1> HIDE DEF items, same
<1>10. Cardinality(items) # BucketSize
  BY <1>1, <1>8, <1>9
<1> QED BY <1>10 DEF items
-----------------------------------------------------------------------------

(* The bucket a key is looked up in exists *)
LEMMA BucketExists ==
    ASSUME TableInv, NEW k \in Keys
    PROVE  BucketOf(k) \in 1..num_buckets /\ IndexOf(k) \in Indexes(global_depth)
<1>1. global_depth \in Nat /\ dir \in [Indexes(global_depth) -> 1..num_buckets]
  BY DEF TableInv, Good, WellTyped
<1>2. Hash[k] % Pow2[global_depth] \in Indexes(global_depth)
  BY <1>1, HashInRange, IndexInRange
<1> QED BY <1>1, <1>2 DEF BucketOf, IndexOf

(* A new table *)
LEMMA TableInit == Init => TableInv
<1> SUFFICES ASSUME Init PROVE TableInv
  OBVIOUS
<1>1. Pow2[0] = 1 /\ Indexes(0) = {0} /\ 1..1 = {1} /\ 0..0 = {0}
  BY Pow2Def DEF Indexes
<1>2. bucket[1].depth = 0 /\ bucket[1].items = {} /\ dir[0] = 1
  BY DEF Init
<1>3. WellTyped(0, dir, bucket, 1)
  BY <1>1 DEF Init, WellTyped
<1>4. WellShared(0, dir, bucket)
  BY <1>1 DEF WellShared
<1>5. AllReached(0, dir, 1)
  BY <1>1, <1>2 DEF AllReached
<1>6. WellPlaced(0, dir, bucket, 1)
  <2>1. IsFiniteSet({}) /\ Cardinality({}) = 0
    BY FS_EmptySet
  <2>2. ListOK({})
    BY <2>1, HashAssumption DEF ListOK
  <2> QED BY <1>1, <1>2, <2>2 DEF WellPlaced
<1> QED BY <1>3, <1>4, <1>5, <1>6, HashAssumption DEF Init, TableInv, Good

(* Replacing the list of one bucket by another one of the right keys *)
LEMMA NewListOK ==
    ASSUME NEW g, NEW dr, NEW bk, NEW nb, Good(g, dr, bk, nb), NEW b \in 1..nb,
           NEW items \in SUBSET Pairs, ListOK(items),
           \A item \in items : dr[Hash[item[1]] % Pow2[g]] = b
    PROVE  Good(g, dr, [bk EXCEPT ![b].items = items], nb)
<1> DEFINE bk2 == [bk EXCEPT ![b].items = items]
<1>0. WellTyped(g, dr, bk, nb) /\ WellShared(g, dr, bk) /\ AllReached(g, dr, nb)
      /\ WellPlaced(g, dr, bk, nb)
  BY DEF Good
<1>1. bk \in [1..nb -> [depth : 0..g, items : SUBSET Pairs]] /\ dr \in [Indexes(g) -> 1..nb]
  BY <1>0 DEF WellTyped
<1>2. /\ bk2 \in [1..nb -> [depth : 0..g, items : SUBSET Pairs]]
      /\ bk2[b].items = items
      /\ \A c \in 1..nb : bk2[c].depth = bk[c].depth /\ (c # b => bk2[c] = bk[c])
  BY <1>1
<1> HIDE DEF bk2
<1>3. WellTyped(g, dr, bk2, nb)
  BY <1>0, <1>2 DEF WellTyped
<1>4. WellShared(g, dr, bk2)
  BY <1>0, <1>1, <1>2 DEF WellShared
<1>5. WellPlaced(g, dr, bk2, nb)
  BY <1>0, <1>2 DEF WellPlaced
<1> QED BY <1>0, <1>3, <1>4, <1>5 DEF Good, bk2

(* One turn of Insert's loop, as the doubling (or not) and the division *)
LEMMA SplitIs ==
    ASSUME TableInv, NEW b \in 1..num_buckets, Split(b)
    PROVE  \E g, wide :
               /\ g \in Nat /\ Good(g, wide, bucket, num_buckets)
               /\ bucket[b].depth < g
               /\ \/ g = global_depth
                  \/ g = global_depth + 1 /\ bucket[b].depth = global_depth
               /\ global_depth' = g /\ num_buckets' = num_buckets + 1
               /\ dir' = SplitDir(g, wide, bucket, num_buckets, b)
               /\ bucket' = SplitBuckets(bucket, num_buckets, b)
<1>0. Good(global_depth, dir, bucket, num_buckets)
  BY DEF TableInv
<1>1. /\ global_depth \in Nat /\ global_depth + 1 \in Nat
      /\ dir \in [Indexes(global_depth) -> 1..num_buckets]
      /\ bucket \in [1..num_buckets -> [depth : 0..global_depth, items : SUBSET Pairs]]
  BY <1>0 DEF Good, WellTyped
<1>2. bucket[b].depth \in 0..global_depth
  BY <1>1
<1>3. bucket' = SplitBuckets(bucket, num_buckets, b) /\ num_buckets' = num_buckets + 1
  BY DEF Split, SplitBuckets, Ones
<1>4. CASE bucket[b].depth = global_depth
  <2>1. Doubled = Twice(global_depth, dir)
    BY DEF Doubled, Twice, Indexes
  <2>2. Good(global_depth + 1, Doubled, bucket, num_buckets)
    BY <1>0, <2>1, DoublingOK
  <2>3. DOMAIN Doubled = Indexes(global_depth + 1)
    BY DEF Doubled, Indexes
  <2>4. global_depth' = global_depth + 1
        /\ dir' = SplitDir(global_depth + 1, Doubled, bucket, num_buckets, b)
    BY <1>4, <2>3 DEF Split, SplitDir
  <2>5. bucket[b].depth < global_depth + 1
    BY <1>1, <1>4
  <2> QED BY <1>1, <1>3, <1>4, <2>2, <2>4, <2>5
<1>5. CASE bucket[b].depth # global_depth
  <2>1. DOMAIN dir = Indexes(global_depth)
    BY <1>1
  <2>2. global_depth' = global_depth
        /\ dir' = SplitDir(global_depth, dir, bucket, num_buckets, b)
    BY <1>5, <2>1 DEF Split, SplitDir
  <2>3. bucket[b].depth < global_depth
    BY <1>1, <1>2, <1>5
  <2> QED BY <1>0, <1>1, <1>3, <2>2, <2>3
<1> QED BY <1>4, <1>5

(* A full bucket is split: the table stays consistent and holds the same    *)
(* pairs.                                                                   *)
LEMMA InsertSplitOK ==
    ASSUME TableInv, InsertSplit
    PROVE  TableInv' /\ UNION {bucket'[c].items : c \in 1..num_buckets'}
                        = UNION {bucket[c].items : c \in 1..num_buckets}
<1>1. PICK k \in Keys : k = inserting[1]
  BY DEF InsertSplit, TableInv, Pairs
<1>2. PICK b \in 1..num_buckets : b = BucketOf(k)
  BY BucketExists
<1>3. IsFull(b) /\ Split(b) /\ UNCHANGED inserting
  BY <1>1, <1>2 DEF InsertSplit
<1>4. PICK g, wide :
          /\ g \in Nat /\ Good(g, wide, bucket, num_buckets)
          /\ bucket[b].depth < g
          /\ \/ g = global_depth
             \/ g = global_depth + 1 /\ bucket[b].depth = global_depth
          /\ global_depth' = g /\ num_buckets' = num_buckets + 1
          /\ dir' = SplitDir(g, wide, bucket, num_buckets, b)
          /\ bucket' = SplitBuckets(bucket, num_buckets, b)
  BY <1>3, SplitIs
<1>5. Good(global_depth, dir, bucket, num_buckets)'
  BY <1>4, SplittingOK
<1>6. global_depth' <= HashBits
  <2>1. global_depth \in Nat /\ HashBits \in Nat /\ global_depth <= HashBits
    BY HashAssumption DEF TableInv, Good, WellTyped
  <2>2. SUFFICES ASSUME global_depth = HashBits, bucket[b].depth = HashBits PROVE FALSE
    BY <1>4, <2>1
  <2>3. Good(HashBits, dir, bucket, num_buckets)
    BY <2>2 DEF TableInv
  <2>4. dir[Hash[k] % Pow2[HashBits]] = b
    BY <1>2, <2>2 DEF BucketOf, IndexOf
  <2>5. Cardinality(bucket[b].items) # BucketSize
    BY <2>2, <2>3, <2>4, DeepestNotFull
  <2> QED BY <1>3, <2>5 DEF IsFull
<1>7. TableInv'
  BY <1>3, <1>5, <1>6 DEF TableInv
<1>8. PICK n \in Nat : n = num_buckets
  BY DEF TableInv, Good, WellTyped
<1>9. /\ num_buckets' = n + 1 /\ b \in 1..n /\ n + 1 \notin 1..n
      /\ bucket'[b].items = bucket[b].items \ Ones(bucket, b)
      /\ bucket'[n + 1].items = Ones(bucket, b)
      /\ \A c \in 1..n : c # b => bucket'[c].items = bucket[c].items
  BY <1>4, <1>8 DEF SplitBuckets
<1>10. ASSUME NEW item
       PROVE  (\E c \in 1..(n + 1) : item \in bucket'[c].items)
              <=> (\E c \in 1..n : item \in bucket[c].items)
  <2>1. ASSUME NEW c \in 1..(n + 1), item \in bucket'[c].items
        PROVE  \E e \in 1..n : item \in bucket[e].items
    <3>1. c \in 1..n \/ c = n + 1
      BY <1>8
    <3>2. CASE c \in 1..n /\ c # b
      BY <1>9, <2>1, <3>2
    <3>3. CASE c = b \/ c = n + 1
      <4>1. item \in bucket[b].items
        BY <1>9, <2>1, <3>3 DEF Ones
      <4> QED BY <1>9, <4>1
    <3> QED BY <3>1, <3>2, <3>3
  <2>2. ASSUME NEW c \in 1..n, item \in bucket[c].items
        PROVE  \E e \in 1..(n + 1) : item \in bucket'[e].items
    <3>1. c \in 1..(n + 1) /\ n + 1 \in 1..(n + 1)
      BY <1>8
    <3>2. CASE c # b
      BY <1>9, <2>2, <3>1, <3>2
    <3>3. CASE c = b /\ item \in Ones(bucket, b)
      BY <1>9, <2>2, <3>1, <3>3
    <3>4. CASE c = b /\ item \notin Ones(bucket, b)
      BY <1>9, <2>2, <3>1, <3>4
    <3> QED BY <3>2, <3>3, <3>4
  <2> QED BY <2>1, <2>2
<1>11. UNION {bucket'[c].items : c \in 1..num_buckets'}
       = UNION {bucket[c].items : c \in 1..num_buckets}
  BY <1>8, <1>9, <1>10
<1> QED BY <1>7, <1>11

(* The list of a bucket that is not full, with the pair stored in it *)
LEMMA StoredListOK ==
    ASSUME NEW items, ListOK(items), Cardinality(items) # BucketSize,
           NEW pair, NEW new, new = {item \in items : item[1] # pair[1]} \cup {pair}
    PROVE  ListOK(new)
<1> DEFINE rest == {item \in items : item[1] # pair[1]}
<1>1. BucketSize \in Nat /\ rest \in SUBSET items
  BY HashAssumption
<1>2. IsFiniteSet(items) /\ Cardinality(items) \in Nat /\ Cardinality(items) <= BucketSize
  BY FS_CardinalityType DEF ListOK
<1>3. IsFiniteSet(rest) /\ Cardinality(rest) <= Cardinality(items)
      /\ Cardinality(rest) \in Nat
  BY <1>1, <1>2, FS_Subset, FS_CardinalityType
<1>4. pair \notin rest /\ new = rest \cup {pair}
  OBVIOUS
<1>5. \A item, other \in new : other[1] = item[1] => other = item
  BY DEF ListOK
<1> HIDE DEF rest
<1>6. IsFiniteSet(new) /\ Cardinality(new) = Cardinality(rest) + 1
  <2>1. /\ IsFiniteSet(rest \cup {pair})
        /\ Cardinality(rest \cup {pair})
           = IF pair \in rest THEN Cardinality(rest) ELSE Cardinality(rest) + 1
    BY <1>3, FS_AddElement
  <2> QED BY <1>4, <2>1
<1>7. Cardinality(new) <= BucketSize
  BY <1>1, <1>2, <1>3, <1>6
<1> QED BY <1>5, <1>6, <1>7 DEF ListOK

(* The pair goes into the bucket its key is looked up in *)
LEMMA InsertStoreOK ==
    ASSUME TableInv, InsertStore
    PROVE  TableInv'
<1>1. PICK k \in Keys, v \in Values : inserting = <<k, v>>
  BY DEF InsertStore, TableInv, Pairs
<1>2. PICK b \in 1..num_buckets : b = BucketOf(k)
  BY BucketExists
<1>3. PICK new : new = {item \in bucket[b].items : item[1] # k} \cup {<<k, v>>}
  OBVIOUS
<1>4. ~ IsFull(b) /\ bucket' = [bucket EXCEPT ![b].items = new]
      /\ inserting' = None /\ UNCHANGED <<global_depth, dir, num_buckets>>
  BY <1>1, <1>2, <1>3 DEF InsertStore
<1>5. Good(global_depth, dir, bucket, num_buckets)
  BY DEF TableInv
<1>6. bucket[b].items \subseteq Pairs /\ ListOK(bucket[b].items)
      /\ \A item \in bucket[b].items : dir[Hash[item[1]] % Pow2[global_depth]] = b
  BY <1>5 DEF Good, WellTyped, WellPlaced
<1>7. new \in SUBSET Pairs
  BY <1>3, <1>6 DEF Pairs
<1>8. ListOK(new)
  <2>1. PICK pair : pair = <<k, v>>
    OBVIOUS
  <2>2. new = {item \in bucket[b].items : item[1] # pair[1]} \cup {pair}
    BY <1>3, <2>1
  <2> QED BY <1>4, <1>6, <2>2, StoredListOK DEF IsFull
<1>9. \A item \in new : dir[Hash[item[1]] % Pow2[global_depth]] = b
  <2>1. SUFFICES ASSUME NEW item \in new PROVE dir[Hash[item[1]] % Pow2[global_depth]] = b
    OBVIOUS
  <2>2. item \in bucket[b].items \/ item[1] = k
    BY <1>3
  <2>3. dir[Hash[k] % Pow2[global_depth]] = b
    BY <1>2 DEF BucketOf, IndexOf
  <2> QED BY <1>6, <2>2, <2>3, Zenon
<1>10. Good(global_depth, dir, [bucket EXCEPT ![b].items = new], num_buckets)
  BY <1>5, <1>7, <1>8, <1>9, NewListOK
<1> QED BY <1>4, <1>10 DEF TableInv

(* A pair is taken out of its bucket *)
LEMMA RemoveOK ==
    ASSUME TableInv, NEW k \in Keys, Remove(k)
    PROVE  TableInv'
<1>1. PICK b \in 1..num_buckets : b = BucketOf(k)
  BY BucketExists
<1>2. PICK item \in bucket[b].items :
          bucket' = [bucket EXCEPT ![b].items = bucket[b].items \ {item}]
  BY <1>1 DEF Remove
<1>3. PICK new : new = bucket[b].items \ {item}
  OBVIOUS
<1>4. Good(global_depth, dir, bucket, num_buckets)
  BY DEF TableInv
<1>5. bucket[b].items \subseteq Pairs /\ ListOK(bucket[b].items)
      /\ \A x \in bucket[b].items : dir[Hash[x[1]] % Pow2[global_depth]] = b
  BY <1>4 DEF Good, WellTyped, WellPlaced
<1>6. ListOK(new)
  BY <1>3, <1>5, SublistOK, HashAssumption
<1>7. Good(global_depth, dir, [bucket EXCEPT ![b].items = new], num_buckets)
  BY <1>3, <1>4, <1>5, <1>6, NewListOK
<1> QED BY <1>2, <1>3, <1>7 DEF Remove, TableInv

(* Every operation keeps the invariant *)
LEMMA TableStep == TableInv /\ [Next]_vars => TableInv'
<1> SUFFICES ASSUME TableInv, [Next]_vars PROVE TableInv'
  OBVIOUS
<1>1. ASSUME NEW k \in Keys, NEW v \in Values, Insert(k, v) PROVE TableInv'
  BY <1>1 DEF Insert, TableInv, Pairs
<1>2. CASE UNCHANGED vars
  BY <1>2 DEF vars, TableInv
<1> QED BY <1>1, <1>2, InsertSplitOK, InsertStoreOK, RemoveOK DEF Next

(* The invariant says what TableConsistent does *)
LEMMA TableInvConsistent == TableInv => TableConsistent
<1> SUFFICES ASSUME TableInv PROVE TableConsistent
  OBVIOUS
<1>0. /\ WellTyped(global_depth, dir, bucket, num_buckets)
      /\ WellShared(global_depth, dir, bucket)
      /\ AllReached(global_depth, dir, num_buckets)
      /\ WellPlaced(global_depth, dir, bucket, num_buckets)
  BY DEF TableInv, Good
<1>1. TypeOK
  BY <1>0, HashAssumption DEF TableInv, WellTyped, TypeOK, Indexes
<1>2. DOMAIN dir = Indexes(global_depth) /\ num_buckets \in Nat
      /\ \A i \in DOMAIN dir : dir[i] \in 1..num_buckets
  BY <1>0 DEF WellTyped
<1>3. DirectoryShares
  <2>1. {dir[i] : i \in DOMAIN dir} = 1..num_buckets
    BY <1>0, <1>2 DEF AllReached
  <2>2. Cardinality(1..num_buckets) = num_buckets
    <3>1. PICK n \in Nat : n = num_buckets
      BY <1>2
    <3>2. Cardinality(1..n) = IF 1 > n THEN 0 ELSE n - 1 + 1
      BY FS_Interval
    <3> QED BY <3>1, <3>2
  <2> QED BY <1>0, <1>2, <2>1, <2>2 DEF WellShared, DirectoryShares
<1>4. PairsInPlace
  BY <1>0 DEF WellPlaced, ListOK, PairsInPlace, BucketOf, IndexOf
<1> QED BY <1>1, <1>3, <1>4 DEF TableConsistent

(* After any sequence of inserts, splits, updates and removals the          *)
(* directory and the buckets agree, no pair is misplaced, doubled or        *)
(* dropped for want of room, and the directory does not outgrow the hash.   *)
THEOREM TableStaysConsistent == Spec => []TableConsistent
BY TableInit, TableStep, TableInvConsistent, PTL DEF Spec
-----------------------------------------------------------------------------

(* All pairs stored in the table *)
Stored == UNION {bucket[c].items : c \in 1..num_buckets}

FindsStored ==
    \A k \in Keys : /\ Find(k) \in Values \cup {None}
                    /\ \A v \in Values : Find(k) = v <=> <<k, v>> \in Stored

(* Find returns a key's value wherever splits have put the pair *)
LEMMA FindIs == TableInv => FindsStored
<1> SUFFICES ASSUME TableInv, NEW k \in Keys
             PROVE  /\ Find(k) \in Values \cup {None}
                    /\ \A v \in Values : Find(k) = v <=> <<k, v>> \in Stored
  BY DEF FindsStored
<1>1. PICK b \in 1..num_buckets : b = BucketOf(k)
  BY BucketExists
<1>2. PICK items : items = bucket[b].items
  OBVIOUS
<1>3. items \subseteq Pairs /\ \A item, other \in items : other[1] = item[1] => other = item
  BY <1>2 DEF TableInv, Good, WellTyped, WellPlaced, ListOK
<1>4. \A v \in Values : <<k, v>> \in Stored <=> <<k, v>> \in items
  <2>1. ASSUME NEW v \in Values, NEW c \in 1..num_buckets, <<k, v>> \in bucket[c].items
        PROVE  c = b
    <3>1. dir[Hash[<<k, v>>[1]] % Pow2[global_depth]] = c
      BY <2>1 DEF TableInv, Good, WellPlaced
    <3>2. dir[Hash[k] % Pow2[global_depth]] = c
      BY <3>1
    <3> QED BY <1>1, <3>2 DEF BucketOf, IndexOf
  <2> QED BY <1>2, <2>1 DEF Stored
<1>5. PICK found : found = {item \in items : item[1] = k}
  OBVIOUS
<1>6. Find(k) = IF found = {} THEN None ELSE (CHOOSE item \in found : TRUE)[2]
  BY <1>1, <1>2, <1>5 DEF Find
<1>7. CASE found = {}
  <2>1. \A v \in Values : <<k, v>> \notin items
    BY <1>5, <1>7
  <2> QED BY <1>4, <1>6, <1>7, <2>1, HashAssumption
<1>8. CASE found # {}
  <2>1. PICK item \in found : item = CHOOSE x \in found : TRUE
    BY <1>8
  <2>2. PICK w \in Values : item = <<k, w>>
    BY <1>3, <1>5, <2>1 DEF Pairs
  <2>3. Find(k) = w
    <3>1. Find(k) = (CHOOSE x \in found : TRUE)[2]
      BY <1>6, <1>8
    <3>2. Find(k) = item[2]
      BY <2>1, <3>1
    <3> QED BY <2>2, <3>2
  <2>4. \A v \in Values : <<k, v>> \in items <=> v = w
    BY <1>3, <1>5, <2>1, <2>2
  <2> QED BY <1>4, <2>3, <2>4
<1> QED BY <1>7, <1>8

(* So a key's value changes only with the pairs stored for it *)
LEMMA FindStays ==
    ASSUME TableInv, TableInv', NEW k \in Keys,
           \A v \in Values : <<k, v>> \in Stored' <=> <<k, v>> \in Stored
    PROVE  Find(k)' = Find(k)
<1>1. /\ Find(k) \in Values \cup {None}
      /\ \A v \in Values : Find(k) = v <=> <<k, v>> \in Stored
  BY FindIs DEF FindsStored
<1>2. FindsStored'
  BY FindIs, PTL
<1>3. /\ Find(k)' \in Values \cup {None}
      /\ \A v \in Values : Find(k)' = v <=> <<k, v>> \in Stored'
  BY <1>2 DEF FindsStored
<1> QED BY <1>1, <1>3

(* Storing a pair is the map's Insert *)
LEMMA InsertStoreImplements ==
    ASSUME TableInv, TableInv', InsertStore
    PROVE  Map!Next
<1>1. PICK k \in Keys, v \in Values : inserting = <<k, v>>
  BY DEF InsertStore, TableInv, Pairs
<1>2. PICK b \in 1..num_buckets : b = BucketOf(k)
  BY BucketExists
<1>3. /\ bucket' = [bucket EXCEPT ![b].items =
                        {item \in bucket[b].items : item[1] # k} \cup {<<k, v>>}]
      /\ num_buckets' = num_buckets
  BY <1>1, <1>2 DEF InsertStore
<1>4. /\ bucket'[b].items = {item \in bucket[b].items : item[1] # k} \cup {<<k, v>>}
      /\ \A c \in 1..num_buckets : c # b => bucket'[c].items = bucket[c].items
  BY <1>3 DEF TableInv, Good, WellTyped
<1>5. ASSUME NEW j \in Keys, j # k PROVE Find(j)' = Find(j)
  <2>1. ASSUME NEW w \in Values, NEW c \in 1..num_buckets
        PROVE  <<j, w>> \in bucket'[c].items <=> <<j, w>> \in bucket[c].items
    BY <1>4, <1>5
  <2>2. \A w \in Values : <<j, w>> \in Stored' <=> <<j, w>> \in Stored
    BY <1>3, <2>1 DEF Stored
  <2> QED BY <2>2, FindStays
<1>6. Find(k)' = v
  <2>1. <<k, v>> \in Stored'
    BY <1>3, <1>4 DEF Stored
  <2>2. FindsStored'
    BY FindIs, PTL
  <2> QED BY <2>1, <2>2 DEF FindsStored
<1>7. [j \in Keys |-> Find(j)'] = [[j \in Keys |-> Find(j)] EXCEPT ![k] = v]
  BY <1>5, <1>6
<1> QED BY <1>7 DEF Map!Next, Map!Insert

(* Removing a pair is the map's Remove *)
LEMMA RemoveImplements ==
    ASSUME TableInv, TableInv', NEW k \in Keys, Remove(k)
    PROVE  Map!Next
<1>1. PICK b \in 1..num_buckets : b = BucketOf(k)
  BY BucketExists
<1>2. PICK item \in bucket[b].items :
          /\ item[1] = k
          /\ bucket' = [bucket EXCEPT ![b].items = bucket[b].items \ {item}]
          /\ num_buckets' = num_buckets
  BY <1>1 DEF Remove
<1>3. /\ bucket'[b].items = bucket[b].items \ {item}
      /\ \A c \in 1..num_buckets : c # b => bucket'[c].items = bucket[c].items
  BY <1>2 DEF TableInv, Good, WellTyped
<1>4. PICK v \in Values : item = <<k, v>>
  <2>1. bucket[b].items \subseteq Pairs
    BY DEF TableInv, Good, WellTyped
  <2> QED BY <1>2, <2>1 DEF Pairs
<1>5. ASSUME NEW j \in Keys, j # k PROVE Find(j)' = Find(j)
  <2>1. ASSUME NEW w \in Values, NEW c \in 1..num_buckets
        PROVE  <<j, w>> \in bucket'[c].items <=> <<j, w>> \in bucket[c].items
    BY <1>3, <1>4, <1>5
  <2>2. \A w \in Values : <<j, w>> \in Stored' <=> <<j, w>> \in Stored
    BY <1>2, <2>1 DEF Stored
  <2> QED BY <2>2, FindStays
<1>6. Find(k)' = None
  <2>1. ASSUME NEW w \in Values, <<k, w>> \in Stored' PROVE FALSE
    <3>1. PICK c \in 1..num_buckets : <<k, w>> \in bucket'[c].items
      BY <1>2, <2>1 DEF Stored
    <3>2. <<k, w>> \in bucket[c].items
      BY <1>3, <3>1
    <3>3. <<k, w>> \in Stored /\ <<k, v>> \in Stored
      BY <1>4, <3>2 DEF Stored
    <3>4. w = v
      BY <3>3, FindIs DEF FindsStored
    <3>5. c # b
      BY <1>3, <1>4, <3>1, <3>4
    <3>6. dir[Hash[<<k, w>>[1]] % Pow2[global_depth]] = c
      BY <3>2 DEF TableInv, Good, WellPlaced
    <3>7. dir[Hash[k] % Pow2[global_depth]] = c
      BY <3>6
    <3> QED BY <1>1, <3>5, <3>7 DEF BucketOf, IndexOf
  <2>2. FindsStored'
    BY FindIs, PTL
  <2> QED BY <2>1, <2>2 DEF FindsStored
<1>7. [j \in Keys |-> Find(j)'] = [[j \in Keys |-> Find(j)] EXCEPT ![k] = None]
  BY <1>5, <1>6
<1> QED BY <1>7 DEF Map!Next, Map!Remove

(* Through any sequence of splits the table is the map from keys to values  *)
(* that BufferPoolManagerInstance takes page_table_ for: an insert or a     *)
(* removal changes what Find returns for its own key, and a split changes   *)
(* nothing.                                                                 *)
THEOREM TableImplementsMap == Spec => ImplementsMap
<1>1. Init => Map!Init
  <2> SUFFICES ASSUME Init, NEW k \in Keys PROVE Find(k) = None
    BY DEF Map!Init
  <2>1. TableInv
    BY TableInit
  <2>2. BucketOf(k) \in 1..num_buckets
    BY <2>1, BucketExists
  <2>3. bucket[BucketOf(k)].items = {}
    BY <2>2 DEF Init
  <2> QED BY <2>3 DEF Find
<1>2. TableInv /\ [Next]_vars => [Map!Next]_([k \in Keys |-> Find(k)])
  <2> SUFFICES ASSUME TableInv, [Next]_vars
               PROVE  Map!Next \/ [k \in Keys |-> Find(k)'] = [k \in Keys |-> Find(k)]
    OBVIOUS
  <2>1. TableInv'
    BY TableStep
  <2>2. ASSUME Stored' = Stored PROVE [k \in Keys |-> Find(k)'] = [k \in Keys |-> Find(k)]
    BY <2>1, <2>2, FindStays
  <2>3. ASSUME NEW k \in Keys, NEW v \in Values, Insert(k, v) PROVE Stored' = Stored
    BY <2>3 DEF Insert, Stored
  <2>4. CASE InsertSplit
    BY <2>2, <2>4, InsertSplitOK DEF Stored
  <2>5. CASE InsertStore
    BY <2>1, <2>5, InsertStoreImplements
  <2>6. ASSUME NEW k \in Keys, Remove(k) PROVE Map!Next
    BY <2>1, <2>6, RemoveImplements
  <2>7. CASE UNCHANGED vars
    BY <2>2, <2>7 DEF vars, Stored
  <2> QED BY <2>2, <2>3, <2>4, <2>5, <2>6, <2>7 DEF Next
<1> QED BY TableInit, TableStep, <1>1, <1>2, PTL DEF Spec, ImplementsMap, Map!Spec
=============================================================================
