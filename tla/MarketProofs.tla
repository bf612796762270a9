----------------------------- MODULE MarketProofs -----------------------------
(***************************************************************************)
(* Proofs about what is read from the market and what is read into it:     *)
(* Strategies, for any series of candles, quotes and multiples, and        *)
(* LiveReader, for any interval, buffers, batches and limits.  An entry is *)
(* protected and names a regime, and no bar repaints the past; a stored    *)
(* bar is what it was worth, the table holds every tick, and the dashboard *)
(* does not believe a process that is gone.                                *)
(***************************************************************************)
EXTENDS LiveReader, Strategies, FiniteSetTheorems, WellFoundedInduction, TLAPS

------------------------------------------------------------------------------
(* The greatest of a finite set of numbers.                                *)

\* A set with 0 that is closed under the successor holds every number; the
\* provers cannot instantiate the operator of NatInduction.
LEMMA SetInduction ==
    ASSUME NEW S, 0 \in S, \A n \in Nat : n \in S => n + 1 \in S
    PROVE  \A n \in Nat : n \in S
<1> DEFINE T == {n \in Nat : n \notin S}
<1> SUFFICES ASSUME T # {} PROVE FALSE
  OBVIOUS
<1>1. PICK m \in T : \A k \in T : ~(<<k, m>> \in OpToRel(<, Nat))
  BY NatLessThanWellFounded, WFMin
<1>2. \A k \in T : ~(k < m)
  BY <1>1 DEF OpToRel
<1>3. m # 0 /\ m - 1 \in Nat
  OBVIOUS
<1>4. m - 1 \in S
  BY <1>2, <1>3
<1>5. QED BY <1>3, <1>4

\* Finitely many numbers, if any, have a greatest one, and Max is it.
LEMMA MaxIs ==
    ASSUME NEW S \in SUBSET Int, IsFiniteSet(S), S # {}
    PROVE  Max(S) \in S /\ \A y \in S : Max(S) >= y
<1> DEFINE Tops == {n \in Nat : \A T \in SUBSET Int : IsFiniteSet(T) /\ Cardinality(T) = n /\ T # {}
                                    => \E m \in T : \A y \in T : m >= y}
<1>1. 0 \in Tops
  BY FS_EmptySet
<1>2. ASSUME NEW n \in Nat, n \in Tops PROVE n + 1 \in Tops
  <2> SUFFICES ASSUME NEW T \in SUBSET Int, IsFiniteSet(T), Cardinality(T) = n + 1, T # {}
      PROVE  \E m \in T : \A y \in T : m >= y
    BY <1>2
  <2>1. PICK x \in T : TRUE
    OBVIOUS
  <2>2. IsFiniteSet(T \ {x}) /\ Cardinality(T \ {x}) = n
    <3>1. IsFiniteSet(T \ {x}) /\ Cardinality(T \ {x}) = Cardinality(T) - 1
      BY FS_RemoveElement
    <3>2. QED BY <3>1
  <2>3. CASE T \ {x} = {}
    BY <2>1, <2>3
  <2>4. CASE T \ {x} # {}
    <3>1. PICK m \in T \ {x} : \A y \in T \ {x} : m >= y
      BY <1>2, <2>2, <2>4
    <3>2. QED BY <2>1, <3>1
  <2>5. QED BY <2>3, <2>4
<1>3. Cardinality(S) \in Nat
  BY FS_CardinalityType
<1> HIDE DEF Tops
<1>4. Cardinality(S) \in Tops
  BY <1>1, <1>2, <1>3, SetInduction
<1>5. \E m \in S : \A y \in S : m >= y
  BY <1>4 DEF Tops
<1>6. QED BY <1>5 DEF Max

\* Two numbers have a greater one.
LEMMA MaxOfTwo ==
    ASSUME NEW a \in Int, NEW b \in Int
    PROVE  Max({a, b}) \in {a, b} /\ Max({a, b}) >= a /\ Max({a, b}) >= b
<1>1. IsFiniteSet({a} \cup {b})
  BY FS_Singleton, FS_AddElement
<1>2. {a} \cup {b} = {a, b}
  OBVIOUS
<1>3. IsFiniteSet({a, b})
  BY <1>1, <1>2
<1>4. {a, b} \in SUBSET Int /\ {a, b} # {}
  OBVIOUS
<1>5. QED BY <1>3, <1>4, MaxIs

------------------------------------------------------------------------------
(* Sums                                                                   *)

\* The sums of the first numbers of a sequence, up to k of them.
Adds(s, k, g) == g = [n \in 0..k |-> IF n = 0 THEN 0 ELSE g[n - 1] + s[n]]

\* There are such sums, for as many numbers as are wanted.
LEMMA AddsExist == ASSUME NEW s PROVE \A k \in Nat : \E g : Adds(s, k, g)
<1> DEFINE S == {k \in Nat : \E g : Adds(s, k, g)}
<1>1. 0 \in S
  <2> DEFINE g == [n \in 0..0 |-> 0]
  <2>1. g = [n \in 0..0 |-> IF n = 0 THEN 0 ELSE g[n - 1] + s[n]]
    OBVIOUS
  <2> HIDE DEF g
  <2>2. QED BY <2>1 DEF Adds
<1>2. ASSUME NEW k \in Nat, k \in S PROVE k + 1 \in S
  <2>1. PICK g : Adds(s, k, g)
    BY <1>2
  <2> DEFINE h == [n \in 0..(k + 1) |-> IF n = k + 1 THEN g[k] + s[k + 1] ELSE g[n]]
             def == [n \in 0..(k + 1) |-> IF n = 0 THEN 0 ELSE h[n - 1] + s[n]]
  <2>2. ASSUME NEW n \in 0..(k + 1) PROVE h[n] = def[n]
    <3>1. CASE n = k + 1
      <4>1. n # 0 /\ n - 1 = k /\ k \in 0..(k + 1) /\ k # k + 1
        BY <3>1
      <4>2. h[k] = g[k]
        BY <4>1
      <4>3. h[n] = g[k] + s[k + 1]
        BY <3>1
      <4>4. QED BY <3>1, <4>1, <4>2, <4>3
    <3>2. CASE n \in 0..k
      <4>1. g[n] = IF n = 0 THEN 0 ELSE g[n - 1] + s[n]
        BY <2>1, <3>2 DEF Adds
      <4>2. h[n] = g[n] /\ (n # 0 => h[n - 1] = g[n - 1])
        BY <3>2
      <4> HIDE DEF h
      <4>3. QED BY <3>2, <4>1, <4>2
    <3>3. QED BY <3>1, <3>2
  <2>3. h = def
    BY <2>2
  <2> HIDE DEF h
  <2>4. Adds(s, k + 1, h)
    BY <2>3 DEF Adds
  <2>5. QED BY <2>4
<1> HIDE DEF S
<1>3. \A k \in Nat : k \in S
  BY <1>1, <1>2, SetInduction
<1>4. QED BY <1>3 DEF S

\* The total of some integers is the last of their sums, which are integers.
LEMMA TotalIsTheLast ==
    ASSUME NEW s \in Seq(Int)
    PROVE  \E g \in [0..Len(s) -> Int] :
              /\ Total(s) = g[Len(s)] /\ g[0] = 0
              /\ \A n \in 1..Len(s) : g[n] = g[n - 1] + s[n]
<1> DEFINE k == Len(s)
           g == CHOOSE g : Adds(s, k, g)
<1>1. k \in Nat /\ \A n \in 1..k : s[n] \in Int
  OBVIOUS
<1>2. Adds(s, k, g)
  BY <1>1, AddsExist
<1>3. Total(s) = g[k]
  BY DEF Total, Adds
<1> HIDE DEF g, k
<1>4. \A n \in 0..k : g[n] = IF n = 0 THEN 0 ELSE g[n - 1] + s[n]
  BY <1>2 DEF Adds
<1> DEFINE S == {n \in Nat : n <= k => g[n] \in Int}
<1>5. 0 \in S
  BY <1>1, <1>4
<1>6. ASSUME NEW n \in Nat, n \in S PROVE n + 1 \in S
  <2>1. CASE n + 1 <= k
    <3>1. n + 1 \in 0..k /\ n + 1 # 0 /\ (n + 1) - 1 = n /\ n + 1 \in 1..k /\ g[n] \in Int
      BY <1>1, <1>6, <2>1
    <3>2. g[n + 1] = g[n] + s[n + 1]
      BY <1>4, <3>1
    <3>3. QED BY <1>1, <3>1, <3>2
  <2>2. QED BY <2>1
<1> HIDE DEF S
<1>7. \A n \in Nat : n \in S
  BY <1>5, <1>6, SetInduction
<1>8. \A n \in 0..k : g[n] \in Int
  BY <1>1, <1>7 DEF S
<1>9. g \in [0..k -> Int]
  BY <1>2, <1>8 DEF Adds
<1>10. g[0] = 0 /\ \A n \in 1..k : g[n] = g[n - 1] + s[n]
  <2>1. 0 \in 0..k /\ \A n \in 1..k : n \in 0..k /\ n # 0
    BY <1>1
  <2>2. QED BY <1>4, <2>1
<1>11. QED BY <1>3, <1>9, <1>10 DEF k

\* The total of integers is one.
LEMMA TotalIsInt == ASSUME NEW s \in Seq(Int) PROVE Total(s) \in Int
<1>1. Len(s) \in 0..Len(s)
  OBVIOUS
<1>2. QED BY <1>1, TotalIsTheLast

\* The values of a function on a finite set are finitely many.
LEMMA ImageIsFinite ==
    ASSUME NEW S, IsFiniteSet(S), NEW f, DOMAIN f = S, f = [x \in S |-> f[x]]
    PROVE  IsFiniteSet({f[x] : x \in S})
<1> DEFINE T == {f[x] : x \in S}
<1>1. f \in Surjection(S, T)
  BY DEF Surjection
<1> HIDE DEF T
<1>2. QED BY <1>1, FS_Surjection DEF T

\* Finitely many numbers, if any, have a least one, and Min is it.
LEMMA MinIs ==
    ASSUME NEW S \in SUBSET Int, IsFiniteSet(S), S # {}
    PROVE  Min(S) \in S /\ \A y \in S : Min(S) <= y
<1> DEFINE f == [x \in S |-> 0 - x]
           T == {f[x] : x \in S}
<1>1. IsFiniteSet(T)
  <2>1. DOMAIN f = S /\ f = [x \in S |-> f[x]]
    OBVIOUS
  <2> HIDE DEF f
  <2>2. QED BY <2>1, ImageIsFinite
<1>2. T \in SUBSET Int /\ T # {}
  <2>1. \A x \in S : f[x] \in Int
    OBVIOUS
  <2> HIDE DEF f
  <2>2. QED BY <2>1
<1> HIDE DEF T
<1>3. Max(T) \in T /\ \A y \in T : Max(T) >= y
  BY <1>1, <1>2, MaxIs
<1>4. PICK m \in S : Max(T) = 0 - m
  BY <1>3 DEF T
<1>5. \A y \in S : m <= y
  <2> TAKE y \in S
  <2>1. 0 - y \in T
    BY DEF T
  <2>2. QED BY <1>3, <1>4, <2>1
<1>6. QED BY <1>5 DEF Min

------------------------------------------------------------------------------
(* Fractions                                                              *)

\* The steps of Euclid's algorithm for divisors up to k.
Euclid(k, g) == g = [n \in 0..k |-> [m \in Nat |-> IF n = 0 THEN m ELSE g[m % n][n]]]

\* The remainder is smaller than the divisor.
LEMMA RemainderIsBelow ==
    ASSUME NEW m \in Nat, NEW n \in Nat, n # 0
    PROVE  /\ m % n \in 0..(n - 1) /\ m % n \in Nat /\ m \div n \in Nat
           /\ m = (m \div n) * n + (m % n)
<1>1. m % n \in 0..(n - 1)
  OBVIOUS
<1>2. m \div n \in Nat
  OBVIOUS
<1>3. m = (m \div n) * n + (m % n)
  OBVIOUS
<1>4. QED BY <1>1, <1>2, <1>3

\* What such steps answer.
LEMMA EuclidStep ==
    ASSUME NEW k, NEW g, Euclid(k, g)
    PROVE  \A n \in 0..k, m \in Nat : g[n][m] = IF n = 0 THEN m ELSE g[m % n][n]
<1>1. ASSUME NEW n \in 0..k, NEW m \in Nat PROVE g[n][m] = IF n = 0 THEN m ELSE g[m % n][n]
  <2>1. g[n] = [i \in Nat |-> IF n = 0 THEN i ELSE g[i % n][n]]
    BY DEF Euclid
  <2>2. QED BY <2>1
<1>2. QED BY <1>1

\* There are such steps, however large the divisors.
LEMMA EuclidExists == \A k \in Nat : \E g : Euclid(k, g)
<1> DEFINE S == {k \in Nat : \E g : Euclid(k, g)}
<1>1. 0 \in S
  <2> DEFINE g == [n \in 0..0 |-> [m \in Nat |-> m]]
  <2>1. g = [n \in 0..0 |-> [m \in Nat |-> IF n = 0 THEN m ELSE g[m % n][n]]]
    <3>1. ASSUME NEW n \in 0..0
          PROVE  [m \in Nat |-> m] = [m \in Nat |-> IF n = 0 THEN m ELSE g[m % n][n]]
      BY DEF g
    <3>2. QED BY <3>1
  <2> HIDE DEF g
  <2>2. QED BY <2>1 DEF Euclid
<1>2. ASSUME NEW k \in Nat, k \in S PROVE k + 1 \in S
  <2>1. PICK g : Euclid(k, g)
    BY <1>2
  <2> DEFINE last == [m \in Nat |-> g[m % (k + 1)][k + 1]]
             h == [n \in 0..(k + 1) |-> IF n = k + 1 THEN last ELSE g[n]]
             step(n) == [m \in Nat |-> IF n = 0 THEN m ELSE h[m % n][n]]
  <2>2. \A n \in 0..k : h[n] = g[n]
    OBVIOUS
  <2>3. h[k + 1] = last
    OBVIOUS
  <2>4. DOMAIN h = 0..(k + 1) /\ h = [n \in 0..(k + 1) |-> h[n]]
    OBVIOUS
  <2> HIDE DEF h
  <2>5. ASSUME NEW n \in 0..(k + 1) PROVE h[n] = step(n)
    <3>1. CASE n \in 0..k
      <4>1. h[n] = [m \in Nat |-> IF n = 0 THEN m ELSE g[m % n][n]]
        BY <2>1, <2>2, <3>1 DEF Euclid
      <4>2. ASSUME NEW m \in Nat, n # 0 PROVE g[m % n] = h[m % n]
        <5>1. m % n \in 0..(n - 1)
          BY <4>2, RemainderIsBelow
        <5>2. m % n \in 0..k
          BY <3>1, <5>1
        <5>3. QED BY <2>2, <5>2
      <4>3. QED BY <4>1, <4>2
    <3>2. CASE n = k + 1
      <4>1. n # 0 /\ n \in Nat
        BY <3>2
      <4>2. ASSUME NEW m \in Nat PROVE g[m % n] = h[m % n]
        <5>1. m % n \in 0..(n - 1)
          BY <4>1, RemainderIsBelow
        <5>2. m % n \in 0..k
          BY <3>2, <5>1
        <5>3. QED BY <2>2, <5>2
      <4>3. last = [m \in Nat |-> g[m % n][n]]
        BY <3>2
      <4>4. last = step(n)
        <5> HIDE DEF last
        <5> QED BY <4>1, <4>2, <4>3
      <4>5. QED BY <2>3, <3>2, <4>4
    <3>3. QED BY <3>1, <3>2
  <2>6. h = [n \in 0..(k + 1) |-> step(n)]
    <3> HIDE DEF step
    <3> QED BY <2>4, <2>5
  <2>7. Euclid(k + 1, h)
    BY <2>6 DEF Euclid
  <2>8. QED BY <2>7
<1> HIDE DEF S
<1>3. \A k \in Nat : k \in S
  BY <1>1, <1>2, SetInduction
<1>4. QED BY <1>3 DEF S

\* Two of them agree where both answer.
LEMMA EuclidAgrees ==
    ASSUME NEW k \in Nat, NEW l \in Nat, NEW g, NEW h, Euclid(k, g), Euclid(l, h)
    PROVE  \A n \in Nat : n <= k /\ n <= l => \A m \in Nat : g[n][m] = h[n][m]
<1> DEFINE S == {j \in Nat : \A n \in 0..j : n <= k /\ n <= l => \A m \in Nat : g[n][m] = h[n][m]}
<1>1. \A n \in 0..k, m \in Nat : g[n][m] = IF n = 0 THEN m ELSE g[m % n][n]
  <2>1. Euclid(k, g)
    OBVIOUS
  <2>2. QED BY ONLY <2>1, EuclidStep
<1>2. \A n \in 0..l, m \in Nat : h[n][m] = IF n = 0 THEN m ELSE h[m % n][n]
  <2>1. Euclid(l, h)
    OBVIOUS
  <2>2. QED BY ONLY <2>1, EuclidStep
<1>3. 0 \in S
  <2>1. ASSUME NEW n \in 0..0, NEW m \in Nat PROVE g[n][m] = h[n][m]
    <3>1. n = 0 /\ n \in 0..k /\ n \in 0..l
      OBVIOUS
    <3>2. g[n][m] = m /\ h[n][m] = m
      BY <1>1, <1>2, <3>1
    <3>3. QED BY <3>2
  <2>2. QED BY <2>1
<1>4. ASSUME NEW j \in Nat, j \in S PROVE j + 1 \in S
  <2>1. ASSUME NEW n \in 0..(j + 1), n <= k, n <= l, NEW m \in Nat PROVE g[n][m] = h[n][m]
    <3>1. CASE n \in 0..j
      BY <1>4, <2>1, <3>1
    <3>2. CASE n = j + 1
      <4>1. n \in Nat /\ n # 0 /\ n \in 0..k /\ n \in 0..l
        BY <2>1, <3>2
      <4>2. m % n \in 0..(n - 1)
        BY <4>1, RemainderIsBelow
      <4>3. m % n \in 0..j /\ m % n <= k /\ m % n <= l
        BY <2>1, <3>2, <4>1, <4>2
      <4>4. g[m % n][n] = h[m % n][n]
        BY <1>4, <4>1, <4>3
      <4>5. g[n][m] = IF n = 0 THEN m ELSE g[m % n][n]
        BY <1>1, <4>1
      <4>6. h[n][m] = IF n = 0 THEN m ELSE h[m % n][n]
        BY <1>2, <4>1
      <4>7. QED BY <4>1, <4>4, <4>5, <4>6
    <3>3. QED BY <3>1, <3>2
  <2>2. QED BY <2>1
<1> HIDE DEF S
<1>5. \A j \in Nat : j \in S
  BY <1>3, <1>4, SetInduction
<1>6. QED
  <2> TAKE n \in Nat
  <2>1. n \in S /\ n \in 0..n
    BY <1>5
  <2>2. QED BY <2>1 DEF S

\* Gcd is Euclid's algorithm.
LEMMA GcdStep == \A n, m \in Nat : Gcd[n][m] = IF n = 0 THEN m ELSE Gcd[m % n][n]
<1> DEFINE steps(k) == CHOOSE g : Euclid(k, g)
           F == [n \in Nat |-> steps(n)[n]]
           step(n) == [m \in Nat |-> IF n = 0 THEN m ELSE F[m % n][n]]
<1>1. \A k \in Nat : Euclid(k, steps(k))
  BY EuclidExists
<1> HIDE DEF steps
<1>2. \A n \in Nat : F[n] = steps(n)[n]
  OBVIOUS
<1>3. F = [n \in Nat |-> F[n]]
  OBVIOUS
<1> HIDE DEF F
<1>4. ASSUME NEW n \in Nat PROVE F[n] = step(n)
  <2>1. n \in 0..n /\ Euclid(n, steps(n))
    BY <1>1
  <2>2. F[n] = [m \in Nat |-> IF n = 0 THEN m ELSE steps(n)[m % n][n]]
    <3> DEFINE g == steps(n)
    <3> HIDE DEF g
    <3>1. Euclid(n, g)
      BY <2>1 DEF g
    <3>2. g[n] = [m \in Nat |-> IF n = 0 THEN m ELSE g[m % n][n]]
      BY <2>1, <3>1 DEF Euclid
    <3>3. QED BY <1>2, <3>2 DEF g
  <2>3. ASSUME NEW m \in Nat, n # 0 PROVE steps(n)[m % n][n] = F[m % n][n]
    <3> DEFINE r == m % n
    <3>1. r \in Nat /\ r <= n
      BY <2>3, RemainderIsBelow
    <3> HIDE DEF r
    <3>2. Euclid(r, steps(r)) /\ r <= r
      BY <1>1, <3>1
    <3>3. steps(n)[r][n] = steps(r)[r][n]
      BY <2>1, <3>1, <3>2, EuclidAgrees
    <3>4. F[r] = steps(r)[r]
      BY <1>2, <3>1
    <3>5. QED BY <3>3, <3>4 DEF r
  <2>4. QED BY <2>2, <2>3
<1>5. F = [n \in Nat |-> step(n)]
  <2> HIDE DEF step
  <2> QED BY <1>3, <1>4
<1>6. Gcd = [n \in Nat |-> [m \in Nat |-> IF n = 0 THEN m ELSE Gcd[m % n][n]]]
  <2>1. \E f : f = [n \in Nat |-> [m \in Nat |-> IF n = 0 THEN m ELSE f[m % n][n]]]
    BY <1>5
  <2>2. QED BY <2>1 DEF Gcd
<1>7. ASSUME NEW n \in Nat, NEW m \in Nat PROVE Gcd[n][m] = IF n = 0 THEN m ELSE Gcd[m % n][n]
  <2>1. Gcd[n] = [i \in Nat |-> IF n = 0 THEN i ELSE Gcd[i % n][n]]
    BY <1>6
  <2>2. QED BY <2>1
<1>8. QED BY <1>7

\* The divisor that Euclid's algorithm ends with divides both numbers.
LEMMA GcdDivides ==
    \A n, m \in Nat : n # 0 \/ m # 0 =>
        \E d, a, b \in Nat : Gcd[n][m] = d /\ d # 0 /\ n = b * d /\ m = a * d
<1> DEFINE Divides(n, m) == n # 0 \/ m # 0 =>
               \E d, a, b \in Nat : Gcd[n][m] = d /\ d # 0 /\ n = b * d /\ m = a * d
           S == {j \in Nat : \A n \in 0..j, m \in Nat : Divides(n, m)}
<1>1. ASSUME NEW m \in Nat PROVE Divides(0, m)
  <2> SUFFICES ASSUME m # 0
               PROVE  \E d, a, b \in Nat : Gcd[0][m] = d /\ d # 0 /\ 0 = b * d /\ m = a * d
    OBVIOUS
  <2>1. Gcd[0][m] = m
    BY GcdStep
  <2>2. 0 = 0 * m /\ m = 1 * m
    OBVIOUS
  <2>3. QED BY <2>1, <2>2
<1>2. ASSUME NEW n \in Nat, NEW m \in Nat, n # 0, Divides(m % n, n) PROVE Divides(n, m)
  <2> DEFINE q == m \div n
             r == m % n
  <2>1. r \in Nat /\ q \in Nat /\ m = q * n + r
    BY <1>2, RemainderIsBelow
  <2>2. Gcd[n][m] = Gcd[r][n]
    BY <1>2, GcdStep
  <2> HIDE DEF q, r
  <2>3. PICK d \in Nat, a \in Nat, b \in Nat : Gcd[r][n] = d /\ d # 0 /\ r = b * d /\ n = a * d
    BY <1>2 DEF r
  <2>4. q * n = (q * a) * d
    BY <2>1, <2>3
  <2>5. m = (q * a + b) * d /\ q * a + b \in Nat
    BY <2>1, <2>3, <2>4
  <2>6. QED BY <2>2, <2>3, <2>5
<1>3. 0 \in S
  <2>1. ASSUME NEW n \in 0..0, NEW m \in Nat PROVE Divides(n, m)
    <3>1. n = 0
      OBVIOUS
    <3> HIDE DEF Divides
    <3>2. QED BY <1>1, <3>1
  <2> HIDE DEF Divides
  <2>2. QED BY <2>1
<1> HIDE DEF Divides
<1>4. ASSUME NEW j \in Nat, j \in S PROVE j + 1 \in S
  <2>1. ASSUME NEW n \in 0..(j + 1), NEW m \in Nat PROVE Divides(n, m)
    <3>1. CASE n \in 0..j
      BY <1>4, <3>1
    <3>2. CASE n = j + 1
      <4>1. n \in Nat /\ n # 0
        BY <3>2
      <4>2. m % n \in 0..(n - 1)
        BY <4>1, RemainderIsBelow
      <4>3. m % n \in 0..j
        BY <3>2, <4>2
      <4>4. Divides(m % n, n)
        BY <1>4, <4>1, <4>3
      <4>5. QED BY <1>2, <4>1, <4>4
    <3>3. QED BY <3>1, <3>2
  <2>2. QED BY <2>1
<1> HIDE DEF S
<1>5. \A j \in Nat : j \in S
  BY <1>3, <1>4, SetInduction
<1>6. \A n, m \in Nat : Divides(n, m)
  <2> TAKE n, m \in Nat
  <2>1. n \in S /\ n \in 0..n
    BY <1>5
  <2>2. QED BY <2>1 DEF S
<1>7. QED BY <1>6 DEF Divides

\* A fraction in its lowest terms is the same number.
LEMMA ReducedIs ==
    ASSUME NEW m \in Int, NEW n \in Nat, n # 0
    PROVE  /\ Reduced(m, n) \in Decimals
           /\ Reduced(m, n)[1] * n = m * Reduced(m, n)[2]
<1> DEFINE g == Gcd[n][Abs(m)]
<1>1. Abs(m) \in Nat
  BY DEF Abs
<1>2. PICK d \in Nat, a \in Nat, b \in Nat : g = d /\ d # 0 /\ n = b * d /\ Abs(m) = a * d
  BY <1>1, GcdDivides
<1>3. Reduced(m, n) = <<m \div d, n \div d>>
  BY <1>2 DEF Reduced
<1> DEFINE p == IF m < 0 THEN 0 - a ELSE a
<1>4. p \in Int /\ m = p * d
  BY <1>2 DEF Abs
<1> HIDE DEF p, g
<1>5. (p * d) \div d = p /\ (b * d) \div d = b
  BY <1>2, <1>4
<1>6. m \div d = p /\ n \div d = b
  BY <1>2, <1>4, <1>5
<1>7. b # 0
  BY <1>2
<1>8. p * n = m * b
  BY <1>2, <1>4
<1>9. Reduced(m, n) = <<p, b>>
  BY <1>3, <1>6
<1>10. <<p, b>> \in Decimals /\ <<p, b>>[1] = p /\ <<p, b>>[2] = b
  BY <1>2, <1>4, <1>7 DEF Decimals
<1>11. QED BY <1>8, <1>9, <1>10

\* The parts of a decimal.
LEMMA DecimalIs ==
    ASSUME NEW f \in Decimals
    PROVE  f = <<f[1], f[2]>> /\ f[1] \in Int /\ f[2] \in Nat /\ f[2] > 0
BY DEF Decimals

\* A product of integers keeps an order, and gives it back.
LEMMA CancelAFactor ==
    ASSUME NEW a \in Int, NEW b \in Int, NEW n \in Nat, n > 0
    PROVE  a * n <= b * n <=> a <= b
<1>1. a <= b => a * n <= b * n
  OBVIOUS
<1>2. b + 1 <= a => (b + 1) * n <= a * n
  OBVIOUS
<1>3. (b + 1) * n = b * n + n
  OBVIOUS
<1>4. a * n \in Int /\ b * n \in Int
  OBVIOUS
<1> DEFINE an == a * n
           bn == b * n
<1>5. an <= bn <=> a <= b
  <2>1. a <= b => an <= bn
    BY <1>1
  <2>2. b + 1 <= a => bn + n <= an
    BY <1>2, <1>3
  <2>3. an \in Int /\ bn \in Int
    BY <1>4
  <2> HIDE DEF an, bn
  <2>4. QED BY <2>1, <2>2, <2>3
<1>6. QED BY <1>5

\* m is a multiple of n.
IsMultiple(m, n) == \E k \in Nat : m = k * n

\* A number without a remainder is a multiple.
LEMMA MultipleIs ==
    ASSUME NEW m \in Nat, NEW n \in Nat, n > 0
    PROVE  /\ m % n = 0 => IsMultiple(m, n)
           /\ IsMultiple(m, n) => \E k \in Nat : m = k * n
<1> DEFINE k == m \div n
           r == m % n
<1>1. k \in Nat /\ r \in Nat /\ m = k * n + r
  BY RemainderIsBelow
<1>2. k * n \in Nat
  BY <1>1
<1> HIDE DEF k, r
<1>3. r = 0 => m = k * n
  BY <1>1, <1>2
<1>4. QED BY <1>1, <1>3 DEF r, IsMultiple

\* The remainder of a shifted number, when the shift is a multiple of the divisor.
LEMMA ShiftedRemainder ==
    ASSUME NEW m \in Nat, NEW n \in Nat, n # 0, NEW c \in Nat, IsMultiple(c, n)
    PROVE  m % n = (m + c) % n
<1> DEFINE t == m + c
           q == t \div n
           r == t % n
           p == m \div n
           x == m % n
<1>1. t \in Nat
  OBVIOUS
<1> HIDE DEF t
<1>2. q \in Nat /\ r \in Nat /\ r < n /\ t = q * n + r
  <2>1. q \in Nat /\ r \in 0..(n - 1) /\ t = q * n + r
    BY <1>1, RemainderIsBelow, Zenon
  <2>2. QED BY <2>1
<1>3. p \in Nat /\ x \in Nat /\ x < n /\ m = p * n + x
  <2>1. p \in Nat /\ x \in 0..(n - 1) /\ m = p * n + x
    BY <1>1, RemainderIsBelow, Zenon
  <2>2. QED BY <2>1
<1>4. PICK k \in Nat : c = k * n
  BY DEF IsMultiple
<1> DEFINE pn == p * n
           qn == (q - k) * n
<1>5. m = t - c
  BY DEF t
<1> HIDE DEF q, r, p, x
<1>6. q * n - k * n = qn /\ q - k \in Int /\ qn \in Int /\ pn \in Int
  BY <1>4, <1>2, <1>3
<1>7. qn + r = pn + x
  <2>1. q * n \in Int /\ k * n \in Int
    BY <1>4, <1>2
  <2>2. m = pn + x
    BY <1>3
  <2> HIDE DEF pn, qn
  <2>3. QED BY <1>2, <1>3, <1>4, <1>5, <1>6, <2>1, <2>2
<1>8. /\ p + 1 <= q - k => pn + n <= qn
      /\ q - k + 1 <= p => qn + n <= pn
  <2>1. p + 1 <= q - k => (p + 1) * n <= (q - k) * n
    BY <1>3, <1>6, CancelAFactor
  <2>2. q - k + 1 <= p => (q - k + 1) * n <= p * n
    BY <1>3, <1>6, CancelAFactor
  <2>3. (p + 1) * n = p * n + n
    BY <1>3
  <2>4. (q - k + 1) * n = (q - k) * n + n
    BY <1>6
  <2>5. QED BY <2>1, <2>2, <2>3, <2>4
<1> HIDE DEF pn, qn
<1>9. p = q - k
  BY <1>2, <1>3, <1>6, <1>7, <1>8
<1>10. pn = qn
  BY <1>9 DEF pn, qn
<1>11. QED BY <1>2, <1>3, <1>6, <1>7, <1>10 DEF r, x, t

\* The start of the interval that the time t is in.
StartOf(t, n) == t - (t % n)

\* The start of the interval of a time that is shifted by intervals.
LEMMA ShiftedStart ==
    ASSUME NEW n \in Nat, n # 0, NEW c \in Nat, IsMultiple(c, n), NEW t \in Nat, t - c \in Nat
    PROVE  StartOf(t - c, n) = StartOf(t, n) - c
<1> DEFINE m == t - c
<1>1. m % n = t % n
  <2>1. m \in Nat /\ t = m + c
    OBVIOUS
  <2> HIDE DEF m
  <2>2. m % n = (m + c) % n
    BY <2>1, ShiftedRemainder, Zenon
  <2>3. QED BY <2>1, <2>2
<1>2. t % n \in Nat
  BY RemainderIsBelow
<1>3. QED BY <1>1, <1>2 DEF StartOf

\* What rounding down leaves below a number, at least.
LEMMA FloorIs ==
    ASSUME NEW m \in Int, NEW n \in Nat, n > 0
    PROVE  m \div n \in Int /\ (m \div n) * n <= m
<1>1. m \div n \in Int
  OBVIOUS
<1>2. (m \div n) * n <= m
  OBVIOUS
<1>3. QED BY <1>1, <1>2

\* A price below another by a decimal is rounded down to at least that distance.
LEMMA RoundDownMinus ==
    ASSUME NEW e \in Int, NEW b \in Decimals
    PROVE  LET q == RoundDown(Minus(Whole(e), b)) IN q \in Int /\ b[1] <= (e - q) * b[2]
<1> DEFINE r == Minus(Whole(e), b)
           m == e * b[2] - b[1]
           q == r[1] \div r[2]
<1>1. b[1] \in Int /\ b[2] \in Nat /\ b[2] > 0
  BY DecimalIs
<1>2. r = Reduced(m, b[2]) /\ m \in Int
  <2>1. b[1] * 1 = b[1] /\ 1 * b[2] = b[2]
    BY <1>1
  <2>2. r = Reduced(e * b[2] - b[1] * 1, 1 * b[2])
    BY DEF Minus, Whole
  <2>3. QED BY <1>1, <2>1, <2>2
<1> HIDE DEF r
<1>3. r \in Decimals /\ r[1] * b[2] = m * r[2]
  BY <1>1, <1>2, ReducedIs
<1>4. r[1] \in Int /\ r[2] \in Nat /\ r[2] > 0
  BY <1>3, DecimalIs
<1>5. q \in Int /\ q * r[2] <= r[1]
  BY <1>4, FloorIs
<1> HIDE DEF q
<1>6. (q * r[2]) * b[2] <= r[1] * b[2]
  BY <1>1, <1>4, <1>5, CancelAFactor
<1>7. (q * b[2]) * r[2] <= m * r[2]
  <2>1. (q * r[2]) * b[2] = (q * b[2]) * r[2]
    BY <1>1, <1>4, <1>5
  <2>2. QED BY <1>3, <1>6, <2>1
<1>8. q * b[2] <= m
  BY <1>1, <1>2, <1>4, <1>5, <1>7, CancelAFactor
<1>9. (e - q) * b[2] = e * b[2] - q * b[2]
  BY <1>1, <1>5
<1>10. b[1] <= (e - q) * b[2]
  BY <1>1, <1>5, <1>8, <1>9
<1>11. QED BY <1>5, <1>10 DEF RoundDown, r, q

\* A price above another by a decimal is rounded up to at least that distance.
LEMMA RoundUpPlus ==
    ASSUME NEW e \in Int, NEW b \in Decimals
    PROVE  LET q == RoundUp(Plus(Whole(e), b)) IN q \in Int /\ b[1] <= (q - e) * b[2]
<1> DEFINE r == Plus(Whole(e), b)
           m == e * b[2] + b[1]
           p == (-r[1]) \div r[2]
<1>1. b[1] \in Int /\ b[2] \in Nat /\ b[2] > 0
  BY DecimalIs
<1>2. r = Reduced(m, b[2]) /\ m \in Int
  <2>1. b[1] * 1 = b[1] /\ 1 * b[2] = b[2]
    BY <1>1
  <2>2. r = Reduced(e * b[2] + b[1] * 1, 1 * b[2])
    BY DEF Plus, Whole
  <2>3. QED BY <1>1, <2>1, <2>2
<1> HIDE DEF r
<1>3. r \in Decimals /\ r[1] * b[2] = m * r[2]
  BY <1>1, <1>2, ReducedIs
<1>4. r[1] \in Int /\ r[2] \in Nat /\ r[2] > 0
  BY <1>3, DecimalIs
<1>5. p \in Int /\ p * r[2] <= -r[1]
  BY <1>4, FloorIs
<1> HIDE DEF p
<1>6. (p * r[2]) * b[2] <= (-r[1]) * b[2]
  BY <1>1, <1>4, <1>5, CancelAFactor
<1>7. (p * b[2]) * r[2] <= (-m) * r[2]
  <2>1. (p * r[2]) * b[2] = (p * b[2]) * r[2]
    BY <1>1, <1>4, <1>5
  <2>2. (-r[1]) * b[2] = -(r[1] * b[2]) /\ (-m) * r[2] = -(m * r[2])
    BY <1>1, <1>2, <1>4
  <2>3. QED BY <1>3, <1>6, <2>1, <2>2
<1>8. p * b[2] <= -m
  BY <1>1, <1>2, <1>4, <1>5, <1>7, CancelAFactor
<1>9. (-p - e) * b[2] = -(p * b[2]) - e * b[2]
  BY <1>1, <1>5
<1>10. b[1] <= (-p - e) * b[2]
  BY <1>1, <1>5, <1>8, <1>9
<1>11. QED BY <1>5, <1>10 DEF RoundUp, r, p

\* A distance of at least a decimal is a distance, if that one is.
LEMMA DistanceIs ==
    ASSUME NEW d \in Int, NEW b \in Decimals, b[1] <= d * b[2]
    PROVE  (b[1] >= 0 => d >= 0) /\ (b[1] > 0 => d > 0)
<1>1. b[1] \in Int /\ b[2] \in Nat /\ b[2] > 0
  BY DecimalIs
<1>2. d <= -1 => d * b[2] <= (-1) * b[2]
  BY <1>1, CancelAFactor
<1>3. d <= 0 => d * b[2] <= 0 * b[2]
  BY <1>1, CancelAFactor
<1>4. (-1) * b[2] = -b[2] /\ 0 * b[2] = 0
  BY <1>1
<1> DEFINE x == d * b[2]
<1>5. x \in Int
  BY <1>1
<1> HIDE DEF x
<1>6. QED BY <1>1, <1>2, <1>3, <1>4, <1>5 DEF x

\* The product of decimals has the signs of both.
LEMMA TimesIs ==
    ASSUME NEW f \in Decimals, NEW g \in Decimals
    PROVE  /\ Times(f, g) \in Decimals
           /\ f[1] >= 0 /\ g[1] >= 0 => Times(f, g)[1] >= 0
           /\ f[1] > 0 /\ g[1] > 0 => Times(f, g)[1] > 0
<1> DEFINE r == Times(f, g)
           m == f[1] * g[1]
           n == f[2] * g[2]
<1>1. f[1] \in Int /\ f[2] \in Nat /\ f[2] > 0 /\ g[1] \in Int /\ g[2] \in Nat /\ g[2] > 0
  BY DecimalIs
<1>2. m \in Int /\ (f[1] >= 0 /\ g[1] >= 0 => m >= 0) /\ (f[1] > 0 /\ g[1] > 0 => m > 0)
  BY <1>1
<1>3. n \in Nat /\ n > 0
  BY <1>1
<1>4. r = Reduced(m, n)
  BY DEF Times
<1> HIDE DEF m, n, r
<1>5. r \in Decimals /\ r[1] * n = m * r[2]
  BY <1>2, <1>3, <1>4, ReducedIs
<1>6. r[1] \in Int /\ r[2] \in Nat /\ r[2] > 0
  BY <1>5, DecimalIs
<1>7. m >= 0 => r[1] >= 0
  <2>1. r[1] <= -1 => r[1] * n <= (-1) * n
    BY <1>3, <1>6, CancelAFactor
  <2>2. m >= 0 => 0 * r[2] <= m * r[2]
    BY <1>2, <1>6, CancelAFactor
  <2>3. QED BY <1>2, <1>3, <1>5, <1>6, <2>1, <2>2
<1>8. m > 0 => r[1] > 0
  <2>1. r[1] <= 0 => r[1] * n <= 0 * n
    BY <1>3, <1>6, CancelAFactor
  <2>2. m > 0 => 1 * r[2] <= m * r[2]
    BY <1>2, <1>6, CancelAFactor
  <2>3. QED BY <1>2, <1>3, <1>5, <1>6, <2>1, <2>2
<1>9. QED BY <1>2, <1>5, <1>7, <1>8 DEF r

------------------------------------------------------------------------------
(* The window                                                             *)

\* What the variables of a run are.
Asked ==
    /\ chart \in Seq(Candles) /\ quote \in Quotes
    /\ ict = IctEvaluate(chart, quote, book)
    /\ baseline = BaselineEvaluate(chart, quote, book)

\* A bar that closes pushes out one bar at most, and leaves the others as they are.
LEMMA ABarCloses ==
    ASSUME Asked, BarCloses
    PROVE  LET dropped == Len(chart) + 1 - Len(chart')
           IN /\ chart' \in Seq(Candles) /\ Len(chart) \in Nat /\ Len(chart') \in Nat
              /\ dropped \in {0, 1} /\ (dropped = 1 => Len(chart) >= HistoryBars)
              /\ \A i \in 1..(Len(chart) - dropped) : chart'[i] = chart[i + dropped]
<1>1. PICK bar \in Shapes : chart' = Slid(chart, bar)
  BY DEF BarCloses
<1>2. bar \in Candles /\ HistoryBars \in Nat /\ HistoryBars >= 2
  BY StrategyAssumption, WindowAssumption
<1>3. chart \in Seq(Candles) /\ Len(chart) \in Nat
  BY DEF Asked
<1>4. CASE Len(chart) < HistoryBars
  <2>1. chart' = Append(chart, bar)
    BY <1>1, <1>4 DEF Slid
  <2>2. chart' \in Seq(Candles) /\ Len(chart') = Len(chart) + 1
    BY <1>2, <1>3, <2>1
  <2>3. \A i \in 1..Len(chart) : chart'[i] = chart[i]
    BY <1>2, <1>3, <2>1
  <2>4. QED BY <1>3, <2>2, <2>3
<1>5. CASE ~(Len(chart) < HistoryBars)
  <2>1. chart' = Append(Tail(chart), bar) /\ chart # <<>>
    BY <1>1, <1>2, <1>3, <1>5 DEF Slid
  <2>2. /\ Tail(chart) \in Seq(Candles) /\ Len(Tail(chart)) = Len(chart) - 1
        /\ \A i \in 1..(Len(chart) - 1) : Tail(chart)[i] = chart[i + 1]
    BY <1>3, <2>1
  <2>3. chart' \in Seq(Candles) /\ Len(chart') = Len(chart)
    BY <1>2, <1>3, <2>1, <2>2
  <2>4. \A i \in 1..(Len(chart) - 1) : chart'[i] = Tail(chart)[i]
    BY <1>2, <1>3, <2>1, <2>2
  <2>5. \A i \in 1..(Len(chart) - 1) : chart'[i] = chart[i + 1]
    BY <2>2, <2>4
  <2>6. QED BY <1>2, <1>3, <1>5, <2>3, <2>5
<1>6. QED BY <1>4, <1>5

\* The strategies are asked about every series, and only then.
LEMMA AskedHolds == StrategiesSpec => []Asked
<1>1. StrategiesInit => Asked
  BY StrategyAssumption DEF StrategiesInit, Asked
<1>2. Asked /\ [BarCloses]_strategyVars => Asked'
  <2> SUFFICES ASSUME Asked, [BarCloses]_strategyVars PROVE Asked'
    OBVIOUS
  <2>1. CASE BarCloses
    <3>1. chart' \in Seq(Candles)
      BY <2>1, ABarCloses
    <3>2. QED BY <2>1, <3>1 DEF BarCloses, Asked
  <2>2. CASE UNCHANGED strategyVars
    BY <2>2 DEF strategyVars, Asked
  <2>3. QED BY <2>1, <2>2
<1>3. QED BY <1>1, <1>2, PTL DEF StrategiesSpec

------------------------------------------------------------------------------
(* What an entry of the ICT model has passed                               *)

\* An entry is proposed at the end of the evaluation: behind a sweep, a shift
\* of structure in its direction and an entry in the band of the leg.
LEMMA IctEntryIs ==
    ASSUME NEW series, NEW q, NEW sides, IctEvaluate(series, q, sides).side # "FLAT"
    PROVE  LET structure == ReadStructure(series)
               sweep == SweepOf(series, structure)
               entry == EntryPrice(q, sweep.direction)
               leg == ImpulseLeg(series, sweep)
               gap == AlignedGap(series, sweep.direction)
               atr == AverageTrueRange(series)
           IN /\ ~(atr[1] <= 0) /\ sweep # Nothing
              /\ IF sweep.direction = "BUY" THEN structure.shiftedUp ELSE structure.shiftedDown
              /\ ~(leg.high <= leg.low) /\ InOte(sweep.direction, leg, entry)
              /\ \E met : IctEvaluate(series, q, sides)
                             = IctIntent(series, structure, sweep, gap, atr, entry, met)
<1> DEFINE structure == ReadStructure(series)
           sweep == SweepOf(series, structure)
           entry == EntryPrice(q, sweep.direction)
           leg == ImpulseLeg(series, sweep)
           gap == AlignedGap(series, sweep.direction)
           atr == AverageTrueRange(series)
<1>1. \A reason : NoTrade(reason).side = "FLAT"
  BY DEF NoTrade
<1>2. ~(atr[1] <= 0) /\ \E session : IctEvaluate(series, q, sides) = EvaluateSetup(series, q, sides, atr, session)
  <2> DEFINE asked == (IF IsMarketOpen(q) THEN {"market_open"} ELSE {})
                      \cup (IF KillzoneAt(q) \cap TradingKillzones # {} THEN {"killzone"} ELSE {})
             session == Cardinality(asked)
  <2>1. IctEvaluate(series, q, sides) =
          IF Len(series) < MinimumBars THEN NoTrade("warming_up")
          ELSE IF "market_open" \in Required \ asked THEN NoTrade("market_open")
          ELSE IF "killzone" \in Required \ asked THEN NoTrade("killzone")
          ELSE IF atr[1] <= 0 THEN NoTrade("atr_unavailable")
          ELSE EvaluateSetup(series, q, sides, atr, session)
    BY DEF IctEvaluate
  <2> HIDE DEF atr, asked, session
  <2>2. QED BY <1>1, <2>1
<1>3. PICK session : IctEvaluate(series, q, sides) = EvaluateSetup(series, q, sides, atr, session)
  BY <1>2
<1> HIDE DEF atr
<1>4. EvaluateSetup(series, q, sides, atr, session).side # "FLAT"
  BY <1>3
<1>5. sweep # Nothing
  BY <1>1, <1>4 DEF EvaluateSetup
<1> DEFINE placed == [discount_premium |->
                         PositionOf(leg, entry, Tolerance)
                            = (IF sweep.direction = "BUY" THEN "DISCOUNT" ELSE "PREMIUM"),
                      optimal_trade_entry |-> InOte(sweep.direction, leg, entry)]
           shifted == IF sweep.direction = "BUY" THEN structure.shiftedUp ELSE structure.shiftedDown
           holds == [structure_shift |-> shifted, 
                     fair_value_gap |-> gap # Nothing,
                     price_in_zone |-> gap # Nothing /\ gap.lower <= entry /\ entry <= gap.upper,
                     order_block |->
                        gap # Nothing /\ FindOrderBlock(series, gap.index, sweep.direction) # Nothing]
<1>6. holds["structure_shift"] = shifted /\ placed["optimal_trade_entry"] = InOte(sweep.direction, leg, entry)
  <2> HIDE DEF shifted
  <2>1. QED OBVIOUS
<1>7. {"structure_shift", "optimal_trade_entry"} \subseteq Required
  BY SetupAssumption
<1> DEFINE met == session + 1 + Cardinality({c \in DOMAIN holds : holds[c]})
                     + Cardinality({c \in DOMAIN placed : placed[c]})
           Fails(conditions, c) == ~conditions[c] /\ c \in Required
<1>8. /\ ~Fails(holds, "structure_shift") /\ ~Fails(placed, "optimal_trade_entry")
      /\ ~(leg.high <= leg.low)
      /\ EvaluateSetup(series, q, sides, atr, session)
            = IctIntent(series, structure, sweep, gap, atr, entry, met)
  <2> HIDE DEF structure, sweep, entry, leg, gap, shifted
  <2>1. EvaluateSetup(series, q, sides, atr, session) =
          IF sweep.direction \in sides THEN NoTrade("already_positioned")
          ELSE IF Fails(holds, "structure_shift") THEN NoTrade("structure_shift")
          ELSE IF Fails(holds, "fair_value_gap") THEN NoTrade("fair_value_gap")
          ELSE IF Fails(holds, "price_in_zone") THEN NoTrade("price_in_zone")
          ELSE IF Fails(holds, "order_block") THEN NoTrade("order_block")
          ELSE IF leg.high <= leg.low THEN NoTrade("no_dealing_range")
          ELSE IF Fails(placed, "discount_premium") THEN NoTrade("discount_premium")
          ELSE IF Fails(placed, "optimal_trade_entry") THEN NoTrade("optimal_trade_entry")
          ELSE IctIntent(series, structure, sweep, gap, atr, entry, met)
    BY <1>5, Zenon DEF EvaluateSetup, structure, sweep, entry, leg, gap, shifted
  <2> HIDE DEF holds, placed, met
  <2>2. QED BY <1>1, <1>4, <2>1
<1>9. shifted /\ InOte(sweep.direction, leg, entry)
  <2> HIDE DEF shifted
  <2>1. QED BY <1>6, <1>7, <1>8
<1>10. QED BY <1>2, <1>3, <1>5, <1>8, <1>9 DEF atr

\* The entries of the ICT model name the regime "TREND": the supervisor, which
\* vetoes an unknown one, lets them through although the structure that the
\* regime is read from has just been broken.
THEOREM EntriesNameARegime == StrategiesSpec => []EntriesSurviveTheSupervisor
<1>1. ASSUME Asked PROVE EntriesSurviveTheSupervisor
  <2> SUFFICES ASSUME ict.side # "FLAT" PROVE ict.regime = "TREND"
    BY DEF EntriesSurviveTheSupervisor
  <2> DEFINE structure == ReadStructure(chart)
             sweep == SweepOf(chart, structure)
  <2>1. IctEvaluate(chart, quote, book).side # "FLAT" /\ ict = IctEvaluate(chart, quote, book)
    BY <1>1 DEF Asked
  <2>2. structure.shiftedUp \/ structure.shiftedDown
    BY <2>1, IctEntryIs
  <2>3. PICK gap, atr, entry, met : ict = IctIntent(chart, structure, sweep, gap, atr, entry, met)
    BY <2>1, IctEntryIs
  <2>4. RegimeOf(structure) = "TREND"
    <3> HIDE DEF structure
    <3>1. QED BY <2>2 DEF RegimeOf
  <2> HIDE DEF structure, sweep
  <2>5. QED BY <2>3, <2>4 DEF IctIntent, Intent, NoTrade
<1>2. QED BY <1>1, AskedHolds, PTL

------------------------------------------------------------------------------
(* Candles, true ranges and the average of them                            *)

\* Three numbers have a greatest one.
LEMMA MaxOfThree ==
    ASSUME NEW a \in Int, NEW b \in Int, NEW c \in Int
    PROVE  Max({a, b, c}) \in Int
<1>1. IsFiniteSet({a}) /\ IsFiniteSet({a} \cup {b}) /\ IsFiniteSet({a} \cup {b} \cup {c})
  BY FS_Singleton, FS_AddElement
<1>2. {a} \cup {b} \cup {c} = {a, b, c}
  OBVIOUS
<1>3. IsFiniteSet({a, b, c}) /\ {a, b, c} \in SUBSET Int /\ {a, b, c} # {}
  BY <1>1, <1>2
<1>4. QED BY <1>3, MaxIs

\* Prices are whole points.
LEMMA CandleIs ==
    ASSUME NEW series \in Seq(Candles), NEW i \in 1..Len(series)
    PROVE  /\ series[i].open \in Int /\ series[i].high \in Int
           /\ series[i].low \in Int /\ series[i].close \in Int
<1>1. series[i] \in Candles
  OBVIOUS
<1>2. QED BY <1>1 DEF Candles

LEMMA TrueRangeIs ==
    ASSUME NEW series \in Seq(Candles), NEW i \in 2..Len(series)
    PROVE  TrueRange(series, i) \in Int
<1>1. i \in 1..Len(series) /\ i - 1 \in 1..Len(series)
  OBVIOUS
<1>2. series[i].high \in Int /\ series[i].low \in Int /\ series[i - 1].close \in Int
  BY <1>1, CandleIs
<1>3. \A n \in Int : Abs(n) \in Int
  BY DEF Abs
<1> DEFINE a == series[i].high - series[i].low
           b == Abs(series[i].high - series[i - 1].close)
           c == Abs(series[i].low - series[i - 1].close)
<1>4. a \in Int /\ b \in Int /\ c \in Int
  <2>1. /\ series[i].high - series[i].low \in Int
        /\ series[i].high - series[i - 1].close \in Int
        /\ series[i].low - series[i - 1].close \in Int
    BY <1>2
  <2>2. QED BY <1>3, <2>1
<1>5. TrueRange(series, i) = Max({a, b, c})
  BY DEF TrueRange
<1> HIDE DEF a, b, c
<1>6. QED BY <1>4, <1>5, MaxOfThree

\* The average true range is a decimal, whatever the series.
LEMMA AverageTrueRangeIs ==
    ASSUME NEW series \in Seq(Candles)
    PROVE  AverageTrueRange(series) \in Decimals
<1>1. AtrPeriod \in Nat \ {0} /\ Len(series) \in Nat
  BY StrategyAssumption
<1>2. CASE Len(series) < AtrPeriod + 1
  BY <1>2 DEF AverageTrueRange, Decimals
<1>3. CASE Len(series) >= AtrPeriod + 1
  <2> DEFINE ranges == [i \in 1..AtrPeriod |-> TrueRange(series, Len(series) - AtrPeriod + i)]
  <2>1. ASSUME NEW i \in 1..AtrPeriod PROVE TrueRange(series, Len(series) - AtrPeriod + i) \in Int
    <3>1. Len(series) - AtrPeriod + i \in 2..Len(series)
      BY <1>1, <1>3
    <3>2. QED BY <3>1, TrueRangeIs
  <2>2. ranges \in Seq(Int)
    BY <1>1, <2>1
  <2>3. RangeSum(series, AtrPeriod) \in Int
    <3>1. RangeSum(series, AtrPeriod) = Total(ranges)
      BY DEF RangeSum
    <3> HIDE DEF ranges
    <3>2. QED BY <2>2, <3>1, TotalIsInt
  <2>4. AverageTrueRange(series) = <<RangeSum(series, AtrPeriod), AtrPeriod>>
    BY <1>1, <1>3 DEF AverageTrueRange
  <2>5. QED BY <1>1, <2>3, <2>4 DEF Decimals
<1>4. QED BY <1>1, <1>2, <1>3

\* Where there is one, the average is over AtrPeriod ranges.
LEMMA AverageIsOver ==
    ASSUME NEW series, AverageTrueRange(series)[1] > 0
    PROVE  AverageTrueRange(series)[2] = AtrPeriod
BY DEF AverageTrueRange

------------------------------------------------------------------------------
(* The past                                                               *)

\* Neither side of the window's swings loses or gains one that it could see.
LEMMA SwingsStay ==
    ASSUME Asked, BarCloses
    PROVE  LET dropped == Len(chart) + 1 - Len(chart')
               Kept(swings) == {i - dropped : i \in swings} \cap Interior(chart')
               past == 1..(Len(chart) - dropped - Strength)
           IN /\ SwingHighs(chart') \cap past = Kept(SwingHighs(chart))
              /\ SwingLows(chart') \cap past = Kept(SwingLows(chart))
<1> DEFINE L == Len(chart)
           M == Len(chart')
           d == L + 1 - M
           past == 1..(L - d - Strength)
<1>1. /\ L \in Nat /\ M \in Nat /\ d \in {0, 1} /\ M = L + 1 - d
      /\ \A i \in 1..(L - d) : chart'[i] = chart[i + d]
  <2>1. /\ L \in Nat /\ M \in Nat /\ d \in {0, 1}
        /\ \A i \in 1..(L - d) : chart'[i] = chart[i + d]
    BY ABarCloses
  <2>2. QED BY <2>1
<1>2. Strength \in Nat
  BY StrategyAssumption
<1>3. /\ Interior(chart') = (1 + Strength)..(M - Strength)
      /\ Interior(chart) = (1 + Strength)..(L - Strength)
  BY DEF Interior
<1> HIDE DEF L, M, d
<1>4. ASSUME NEW i \in (1 + Strength)..(L - d - Strength)
      PROVE  /\ i \in SwingHighs(chart') <=> i + d \in SwingHighs(chart)
             /\ i \in SwingLows(chart') <=> i + d \in SwingLows(chart)
  <2>1. i \in Interior(chart') /\ i + d \in Interior(chart)
    BY <1>1, <1>2, <1>3
  <2>2. ASSUME NEW j \in Around(i) PROVE j + d \in Around(i + d) /\ chart'[j] = chart[j + d]
    <3>1. j \in 1..(L - d) /\ j + d \in Around(i + d)
      BY <1>1, <1>2 DEF Around
    <3>2. QED BY <1>1, <3>1
  <2>3. ASSUME NEW k \in Around(i + d) PROVE k - d \in Around(i) /\ chart'[k - d] = chart[k]
    <3>1. k - d \in 1..(L - d) /\ k - d \in Around(i) /\ (k - d) + d = k
      BY <1>1, <1>2 DEF Around
    <3>2. QED BY <1>1, <3>1
  <2>4. chart'[i] = chart[i + d]
    <3>1. i \in 1..(L - d)
      BY <1>1, <1>2
    <3>2. QED BY <1>1, <3>1
  <2> HIDE DEF Interior, Around
  <2>5. (\A j \in Around(i) : chart'[i].high > chart'[j].high)
            <=> (\A k \in Around(i + d) : chart[i + d].high > chart[k].high)
    BY <2>2, <2>3, <2>4
  <2>6. (\A j \in Around(i) : chart'[i].low < chart'[j].low)
            <=> (\A k \in Around(i + d) : chart[i + d].low < chart[k].low)
    BY <2>2, <2>3, <2>4
  <2>7. QED BY <2>1, <2>5, <2>6 DEF SwingHighs, SwingLows
<1>5. ASSUME NEW new, NEW old, new \subseteq Interior(chart'), old \subseteq Interior(chart),
             \A i \in (1 + Strength)..(L - d - Strength) : i \in new <=> i + d \in old
      PROVE  new \cap past = {i - d : i \in old} \cap Interior(chart')
  <2>1. ASSUME NEW i \in new \cap past PROVE i \in {k - d : k \in old} \cap Interior(chart')
    <3>1. i \in (1 + Strength)..(L - d - Strength) /\ i = (i + d) - d
      BY <1>1, <1>2, <1>3, <1>5, <2>1
    <3>2. i + d \in old
      BY <1>5, <3>1
    <3>3. QED BY <1>5, <3>1, <3>2
  <2>2. ASSUME NEW i \in {k - d : k \in old} \cap Interior(chart') PROVE i \in new \cap past
    <3>1. PICK k \in old : i = k - d
      OBVIOUS
    <3>2. k \in Interior(chart) /\ i \in Interior(chart')
      BY <1>5
    <3>3. i \in (1 + Strength)..(L - d - Strength) /\ i + d = k
      BY <1>1, <1>2, <1>3, <3>1, <3>2
    <3>4. i \in new
      BY <1>5, <3>1, <3>3
    <3>5. i \in past
      BY <1>1, <1>2, <3>3
    <3>6. QED BY <3>4, <3>5
  <2>3. QED BY <2>1, <2>2
<1> HIDE DEF past
<1>6. /\ SwingHighs(chart') \subseteq Interior(chart') /\ SwingHighs(chart) \subseteq Interior(chart)
      /\ SwingLows(chart') \subseteq Interior(chart') /\ SwingLows(chart) \subseteq Interior(chart)
  BY DEF SwingHighs, SwingLows
<1>7. SwingHighs(chart') \cap past = {i - d : i \in SwingHighs(chart)} \cap Interior(chart')
  BY <1>4, <1>5, <1>6
<1>8. SwingLows(chart') \cap past = {i - d : i \in SwingLows(chart)} \cap Interior(chart')
  BY <1>4, <1>5, <1>6
<1>9. QED BY <1>7, <1>8 DEF past, L, M, d

\* The gap that three bars leave moves with them.
LEMMA GapsMove ==
    ASSUME NEW old, NEW new, NEW d \in Int, NEW i \in Int,
           new[i] = old[i + d], new[i - 1] = old[i + d - 1], new[i - 2] = old[i + d - 2]
    PROVE  GapAt(new, i) = {[gap EXCEPT !.index = @ - d] : gap \in GapAt(old, i + d)}
<1> DEFINE Gap(direction, lower, upper, index) ==
               [direction |-> direction, lower |-> lower, upper |-> upper, index |-> index,
                displacement |-> old[i + d - 1].high - old[i + d - 1].low]
           first == old[i + d - 2]
           third == old[i + d]
<1>1. ASSUME NEW direction, NEW lower, NEW upper
      PROVE  [Gap(direction, lower, upper, i + d) EXCEPT !.index = @ - d] = Gap(direction, lower, upper, i)
  <2>1. (i + d) - d = i
    OBVIOUS
  <2>2. QED BY <2>1
<1>2. GapAt(old, i + d) =
        IF third.low > first.high THEN {Gap("BUY", first.high, third.low, i + d)}
        ELSE IF third.high < first.low THEN {Gap("SELL", third.high, first.low, i + d)}
        ELSE {}
  BY DEF GapAt
<1>3. GapAt(new, i) =
        IF third.low > first.high THEN {Gap("BUY", first.high, third.low, i)}
        ELSE IF third.high < first.low THEN {Gap("SELL", third.high, first.low, i)}
        ELSE {}
  BY DEF GapAt
<1> HIDE DEF Gap, first, third
<1>4. QED BY <1>1, <1>2, <1>3

\* An index of the window is a number.
LEMMA LastBarsAreNumbers ==
    ASSUME NEW window, NEW n, NEW i \in LastBars(window, n)
    PROVE  i \in Int
BY DEF LastBars

\* A gap of the shared past is in both windows or the average range tells why.
LEMMA GapsStay ==
    ASSUME Asked, BarCloses
    PROVE  LET dropped == Len(chart) + 1 - Len(chart')
               before == AverageTrueRange(chart)
               after == AverageTrueRange(chart')
               Moved(gap) == [gap EXCEPT !.index = @ - dropped]
               gaps == {Moved(gap) : gap \in FairValueGaps(chart)}
           IN /\ \A gap \in FairValueGaps(chart') \ gaps :
                    gap.index < Len(chart') => before[1] <= 0 \/ Less(after, before)
              /\ \A gap \in gaps \ FairValueGaps(chart') :
                    \/ MitigatedBy(gap, chart'[Len(chart')])
                    \/ gap.index <= Len(chart') - MaxGapAge
                    \/ after[1] <= 0 \/ Less(before, after)
<1> DEFINE L == Len(chart)
           M == Len(chart')
           d == L + 1 - M
           before == AverageTrueRange(chart)
           after == AverageTrueRange(chart')
           Moved(gap) == [gap EXCEPT !.index = @ - d]
           Young(window, i) == i \in LastBars(window, MaxGapAge) \ {1, 2}
<1>1. /\ L \in Nat /\ M \in Nat /\ d \in {0, 1} /\ M = L + 1 - d /\ (d = 1 => L >= HistoryBars)
      /\ \A i \in 1..(L - d) : chart'[i] = chart[i + d]
      /\ chart \in Seq(Candles) /\ chart' \in Seq(Candles)
  <2>1. /\ L \in Nat /\ M \in Nat /\ d \in {0, 1} /\ (d = 1 => L >= HistoryBars)
        /\ \A i \in 1..(L - d) : chart'[i] = chart[i + d]
        /\ chart' \in Seq(Candles)
    BY ABarCloses
  <2>2. QED BY <2>1 DEF Asked
<1>2. /\ MaxGapAge \in Nat /\ HistoryBars \in Nat /\ HistoryBars >= MaxGapAge + 2
      /\ AtrPeriod \in Nat /\ AtrPeriod > 0
      /\ MinDisplacement[1] \in Int /\ MinDisplacement[1] >= 0 /\ MinDisplacement[2] \in Nat
  BY StrategyAssumption, WindowAssumption, DecimalIs
<1> HIDE DEF L, M, d, before, after
<1>3. before \in Decimals /\ after \in Decimals
  <2>1. chart \in Seq(Candles) /\ chart' \in Seq(Candles)
    BY <1>1
  <2>2. AverageTrueRange(chart) \in Decimals /\ AverageTrueRange(chart') \in Decimals
    BY <2>1, AverageTrueRangeIs
  <2>3. QED BY <2>2 DEF before, after
<1>4. before[1] \in Int /\ after[1] \in Int
  BY <1>3, DecimalIs
<1>5. (before[1] > 0 => before[2] = AtrPeriod) /\ (after[1] > 0 => after[2] = AtrPeriod)
  BY AverageIsOver DEF before, after
<1>6. ASSUME NEW i \in Int
      PROVE  /\ Young(chart, i) <=> i \in 3..L /\ i >= L - MaxGapAge + 1
             /\ Young(chart', i) <=> i \in 3..M /\ i >= M - MaxGapAge + 1
  <2>1. ASSUME NEW n \in Nat PROVE i \in Max({1, n - MaxGapAge + 1})..n \ {1, 2} <=> i \in 3..n /\ i >= n - MaxGapAge + 1
    <3> DEFINE m == Max({1, n - MaxGapAge + 1})
    <3>1. m \in {1, n - MaxGapAge + 1} /\ m >= 1 /\ m >= n - MaxGapAge + 1
      <4>1. 1 \in Int /\ n - MaxGapAge + 1 \in Int
        BY <1>2
      <4>2. QED BY <4>1, MaxOfTwo
    <3> HIDE DEF m
    <3>2. QED BY <1>2, <3>1 DEF m
  <2>2. /\ LastBars(chart, MaxGapAge) = Max({1, L - MaxGapAge + 1})..L
        /\ LastBars(chart', MaxGapAge) = Max({1, M - MaxGapAge + 1})..M
    BY DEF LastBars, L, M
  <2>3. QED BY <1>1, <2>1, <2>2
<1>7. \A gap : gap \in FairValueGaps(chart) <=>
          /\ before[1] > 0 /\ Displaced(gap, before) /\ StillOpen(chart, gap)
          /\ \E i : Young(chart, i) /\ gap \in GapAt(chart, i)
  BY <1>4 DEF FairValueGaps, before, after
<1>8. \A gap : gap \in FairValueGaps(chart') <=>
          /\ after[1] > 0 /\ Displaced(gap, after) /\ StillOpen(chart', gap)
          /\ \E i : Young(chart', i) /\ gap \in GapAt(chart', i)
  BY <1>4 DEF FairValueGaps, before, after
<1>9. ASSUME NEW i \in 3..(L - d) PROVE GapAt(chart', i) = {Moved(gap) : gap \in GapAt(chart, i + d)}
  <2>1. i \in 1..(L - d) /\ i - 1 \in 1..(L - d) /\ i - 2 \in 1..(L - d) /\ i \in Int /\ d \in Int
    BY <1>1
  <2>2. /\ chart'[i] = chart[i + d] /\ chart'[i - 1] = chart[(i - 1) + d]
        /\ chart'[i - 2] = chart[(i - 2) + d]
    BY <1>1, <2>1
  <2>3. (i - 1) + d = i + d - 1 /\ (i - 2) + d = i + d - 2
    BY <2>1
  <2>4. QED BY <2>1, <2>2, <2>3, GapsMove
<1>10. ASSUME NEW i, Young(chart, i), NEW gap \in GapAt(chart, i)
       PROVE  /\ gap.index = i /\ gap.displacement \in Int /\ Moved(gap).index = i - d
              /\ \A atr : Displaced(Moved(gap), atr) <=> Displaced(gap, atr)
              /\ \A bar : MitigatedBy(Moved(gap), bar) <=> MitigatedBy(gap, bar)
  <2>1. i \in 3..L
    <3>1. i \in Int
      BY <1>10, LastBarsAreNumbers
    <3>2. QED BY <1>6, <1>10, <3>1
  <2>2. chart[i - 1] \in Candles
    BY <1>1, <2>1 DEF L
  <2>3. \E direction, lower, upper :
          gap = [direction |-> direction, lower |-> lower, upper |-> upper, index |-> i,
                 displacement |-> chart[i - 1].high - chart[i - 1].low]
    BY DEF GapAt
  <2>4. gap.index = i /\ gap.displacement = chart[i - 1].high - chart[i - 1].low
    BY <2>3
  <2>5. gap.displacement \in Int
    BY <2>2, <2>4 DEF Candles
  <2>6. /\ Moved(gap).index = gap.index - d /\ Moved(gap).displacement = gap.displacement
        /\ Moved(gap).direction = gap.direction /\ Moved(gap).lower = gap.lower
        /\ Moved(gap).upper = gap.upper
    BY <2>3
  <2> HIDE DEF Moved
  <2>7. QED BY <2>4, <2>5, <2>6 DEF Displaced, MitigatedBy
<1>11. ASSUME NEW x \in Int, NEW a \in Decimals, NEW b \in Decimals,
              a[1] > 0, b[1] > 0, a[2] = AtrPeriod, b[2] = AtrPeriod,
              x * a[2] * MinDisplacement[2] >= MinDisplacement[1] * a[1],
              ~(x * b[2] * MinDisplacement[2] >= MinDisplacement[1] * b[1])
       PROVE  Less(a, b)
  <2>1. a[1] \in Int /\ b[1] \in Int
    BY DecimalIs
  <2>2. MinDisplacement[1] * a[1] < MinDisplacement[1] * b[1]
    <3> DEFINE y == x * AtrPeriod * MinDisplacement[2]
               u == MinDisplacement[1] * a[1]
               v == MinDisplacement[1] * b[1]
    <3>1. y \in Int /\ u \in Int /\ v \in Int /\ y >= u /\ ~(y >= v)
      BY <1>2, <1>11, <2>1
    <3> HIDE DEF y, u, v
    <3>2. u < v
      BY <3>1
    <3>3. QED BY <3>2 DEF u, v
  <2>3. MinDisplacement[1] > 0
    BY <1>2, <2>1, <2>2
  <2>4. a[1] < b[1]
    <3>1. b[1] <= a[1] => b[1] * MinDisplacement[1] <= a[1] * MinDisplacement[1]
      BY <1>2, <2>1, <2>3, CancelAFactor
    <3>2. b[1] * MinDisplacement[1] = MinDisplacement[1] * b[1] /\ a[1] * MinDisplacement[1] = MinDisplacement[1] * a[1]
      BY <1>2, <2>1
    <3>3. QED BY <1>2, <2>1, <2>2, <3>1, <3>2
  <2>5. ~(b[1] * AtrPeriod <= a[1] * AtrPeriod)
    BY <1>2, <2>1, <2>4, CancelAFactor
  <2>6. b[1] * AtrPeriod \in Int /\ a[1] * AtrPeriod \in Int
    BY <1>2, <2>1
  <2>7. QED BY <1>11, <2>5, <2>6 DEF Less
<1> HIDE DEF Young, Moved
<1> DEFINE gaps == {Moved(gap) : gap \in FairValueGaps(chart)}
<1>12. ASSUME NEW gap \in FairValueGaps(chart') \ gaps, gap.index < M, before[1] > 0
       PROVE  Less(after, before)
  <2>1. PICK i : Young(chart', i) /\ gap \in GapAt(chart', i)
    BY <1>8
  <2>2. gap.index = i
    BY <2>1 DEF GapAt
  <2>3. i \in 3..(L - d) /\ i + d \in 3..L /\ i + d >= L - MaxGapAge + 1 /\ i + d \in Int
    <3>1. i \in Int
      BY <2>1, LastBarsAreNumbers DEF Young
    <3>2. i \in 3..M /\ i >= M - MaxGapAge + 1
      BY <1>6, <2>1, <3>1
    <3>3. QED BY <1>1, <1>2, <1>12, <2>2, <3>2
  <2>4. Young(chart, i + d)
    BY <1>6, <2>3
  <2>5. PICK g \in GapAt(chart, i + d) : gap = Moved(g)
    BY <1>9, <2>1, <2>3
  <2>6. /\ g.index = i + d /\ g.displacement \in Int
        /\ \A atr : Displaced(gap, atr) <=> Displaced(g, atr)
        /\ \A bar : MitigatedBy(gap, bar) <=> MitigatedBy(g, bar)
    BY <1>10, <2>4, <2>5
  <2>7. StillOpen(chart, g)
    <3>1. \A k \in (i + 1)..M : ~MitigatedBy(gap, chart'[k])
      BY <1>8, <2>2 DEF StillOpen, M
    <3>2. SUFFICES ASSUME NEW k \in (i + d + 1)..L PROVE ~MitigatedBy(g, chart[k])
      BY <2>6 DEF StillOpen, L
    <3>3. k - d \in 1..(L - d) /\ k - d \in (i + 1)..M /\ (k - d) + d = k
      BY <1>1, <2>3, <3>2
    <3>4. chart'[k - d] = chart[k]
      BY <1>1, <3>3
    <3>5. QED BY <2>6, <3>1, <3>3, <3>4
  <2>8. ~Displaced(g, before)
    BY <1>7, <1>12, <2>4, <2>5, <2>7
  <2>9. Displaced(g, after) /\ after[1] > 0
    BY <1>8, <2>6
  <2>10. QED BY <1>3, <1>5, <1>11, <1>12, <2>6, <2>8, <2>9 DEF Displaced
<1>13. ASSUME NEW gap \in gaps \ FairValueGaps(chart'), ~MitigatedBy(gap, chart'[M]),
              ~(gap.index <= M - MaxGapAge), ~(after[1] <= 0)
       PROVE  Less(before, after)
  <2>1. PICK g \in FairValueGaps(chart) : gap = Moved(g)
    OBVIOUS
  <2>2. PICK i : Young(chart, i) /\ g \in GapAt(chart, i)
    BY <1>7
  <2>3. /\ g.index = i /\ gap.index = i - d /\ g.displacement \in Int
        /\ \A atr : Displaced(gap, atr) <=> Displaced(g, atr)
        /\ \A bar : MitigatedBy(gap, bar) <=> MitigatedBy(g, bar)
    BY <1>10, <2>1, <2>2
  <2>4. i \in 3..L
    <3>1. i \in Int
      BY <2>2, LastBarsAreNumbers DEF Young
    <3>2. QED BY <1>6, <2>2, <3>1
  <2>5. i - d \in 3..(L - d) /\ i - d \in 3..M /\ i - d >= M - MaxGapAge + 1 /\ i - d \in Int
    BY <1>1, <1>2, <1>13, <2>3, <2>4
  <2>6. Young(chart', i - d)
    BY <1>6, <2>5
  <2>7. gap \in GapAt(chart', i - d)
    <3>1. (i - d) + d = i
      BY <1>1, <2>4
    <3>2. GapAt(chart', i - d) = {Moved(h) : h \in GapAt(chart, i)}
      BY <1>9, <2>5, <3>1
    <3>3. QED BY <2>1, <2>2, <3>2
  <2>8. StillOpen(chart', gap)
    <3>1. \A k \in (i + 1)..L : ~MitigatedBy(g, chart[k])
      BY <1>7, <2>3 DEF StillOpen, L
    <3>2. SUFFICES ASSUME NEW k \in (i - d + 1)..M PROVE ~MitigatedBy(gap, chart'[k])
      BY <2>3 DEF StillOpen, M
    <3>3. CASE k = M
      BY <1>13, <3>3
    <3>4. CASE k # M
      <4>1. k \in 1..(L - d) /\ k + d \in (i + 1)..L
        BY <1>1, <2>4, <2>5, <3>2, <3>4
      <4>2. chart'[k] = chart[k + d]
        BY <1>1, <4>1
      <4>3. QED BY <2>3, <3>1, <4>1, <4>2
    <3>5. QED BY <3>3, <3>4
  <2>9. ~Displaced(g, after)
    BY <1>4, <1>8, <1>13, <2>3, <2>6, <2>7, <2>8
  <2>10. Displaced(g, before) /\ before[1] > 0
    BY <1>7
  <2>11. after[1] > 0
    BY <1>4, <1>13
  <2>12. QED BY <1>3, <1>5, <1>11, <2>3, <2>9, <2>10, <2>11 DEF Displaced
<1>14. (before[1] <= 0 \/ before[1] > 0)
  BY <1>4
<1>15. QED BY <1>12, <1>13, <1>14 DEF gaps, Moved, L, M, d, before, after

\* When the window slides no swing that it still sees is lost, none is invented,
\* and a gap of the past appears or vanishes by the average range only, beside
\* its age and the bar that closes it.
THEOREM PastIsNotRepainted == StrategiesSpec => NothingIsRepainted
<1> DEFINE dropped == Len(chart) + 1 - Len(chart')
           before == AverageTrueRange(chart)
           after == AverageTrueRange(chart')
           Kept(swings) == {i - dropped : i \in swings} \cap Interior(chart')
           past == 1..(Len(chart) - dropped - Strength)
           Moved(gap) == [gap EXCEPT !.index = @ - dropped]
           gaps == {Moved(gap) : gap \in FairValueGaps(chart)}
           Stays ==
              /\ SwingHighs(chart') \cap past = Kept(SwingHighs(chart))
              /\ SwingLows(chart') \cap past = Kept(SwingLows(chart))
              /\ \A gap \in FairValueGaps(chart') \ gaps :
                    gap.index < Len(chart') => before[1] <= 0 \/ Less(after, before)
              /\ \A gap \in gaps \ FairValueGaps(chart') :
                    \/ MitigatedBy(gap, chart'[Len(chart')])
                    \/ gap.index <= Len(chart') - MaxGapAge
                    \/ after[1] <= 0 \/ Less(before, after)
<1>1. ASSUME Asked, BarCloses PROVE Stays
  BY <1>1, SwingsStay, GapsStay
<1>2. Asked /\ [BarCloses]_strategyVars => [Stays]_strategyVars
  <2> HIDE DEF Stays
  <2>1. QED BY <1>1
<1>3. QED BY <1>2, AskedHolds, PTL DEF StrategiesSpec, NothingIsRepainted

------------------------------------------------------------------------------
(* Pools and sweeps                                                        *)

\* A bucket of swings holds the swing it was made for.
LEMMA BucketIs ==
    ASSUME NEW price, DOMAIN price \subseteq Int, \A t \in DOMAIN price : price[t] \in Int,
           NEW s \in DOMAIN price
    PROVE  s \in Bucket(s, price) /\ Bucket(s, price) \subseteq DOMAIN price
<1>1. Min({price[s], price[s]}) = price[s] /\ Max({price[s], price[s]}) = price[s]
  <2>1. price[s] \in Int /\ {price[s], price[s]} = {price[s]}
    OBVIOUS
  <2>2. IsFiniteSet({price[s]}) /\ {price[s]} # {} /\ {price[s]} \in SUBSET Int
    BY <2>1, FS_Singleton
  <2>3. Max({price[s]}) \in {price[s]} /\ Min({price[s]}) \in {price[s]}
    BY <2>2, MaxIs, MinIs
  <2>4. QED BY <2>1, <2>3
<1> HIDE DEF Min, Max
<1>2. {t \in DOMAIN price : price[s] <= price[t] /\ price[t] < price[s]} = {}
  OBVIOUS
<1>3. QED BY <1>1, <1>2 DEF Bucket

Pools == [buySide : BOOLEAN, price : Int, time : Int]

\* Swings are series of the series.
LEMMA SwingsAreBars ==
    ASSUME NEW series \in Seq(Candles)
    PROVE  /\ SwingHighs(series) \subseteq 1..Len(series) /\ SwingLows(series) \subseteq 1..Len(series)
           /\ IsFiniteSet(SwingHighs(series)) /\ IsFiniteSet(SwingLows(series))
<1>1. Strength \in Nat /\ Len(series) \in Nat
  BY StrategyAssumption
<1>2. SwingHighs(series) \subseteq 1..Len(series) /\ SwingLows(series) \subseteq 1..Len(series)
  BY <1>1 DEF SwingHighs, SwingLows, Interior
<1>3. IsFiniteSet(1..Len(series))
  BY <1>1, FS_Interval
<1>4. QED BY <1>2, <1>3, FS_Subset

\* The cluster that a swing belongs to has a price and a time.
LEMMA ClusterIs ==
    ASSUME NEW swings \in SUBSET Int, IsFiniteSet(swings), NEW price \in [swings -> Int],
           NEW s \in swings
    PROVE  LET bucket == Bucket(s, price)
               prices == {price[t] : t \in bucket}
           IN Max(bucket) \in Int /\ Max(prices) \in Int /\ Min(prices) \in Int
<1> DEFINE bucket == Bucket(s, price)
           f == [t \in bucket |-> price[t]]
           prices == {price[t] : t \in bucket}
<1>1. s \in bucket /\ bucket \subseteq swings
  <2>1. DOMAIN price = swings /\ \A t \in DOMAIN price : price[t] \in Int
    OBVIOUS
  <2>2. QED BY <2>1, BucketIs
<1> HIDE DEF bucket
<1>2. IsFiniteSet(bucket)
  BY <1>1, FS_Subset
<1>3. IsFiniteSet({f[t] : t \in bucket})
  <2>1. DOMAIN f = bucket /\ f = [t \in bucket |-> f[t]]
    OBVIOUS
  <2> HIDE DEF f
  <2>2. QED BY <1>2, <2>1, ImageIsFinite
<1>4. {f[t] : t \in bucket} = prices
  OBVIOUS
<1>5. prices \in SUBSET Int /\ prices # {}
  BY <1>1
<1> HIDE DEF f, prices
<1>6. Max(bucket) \in bucket
  BY <1>1, <1>2, MaxIs
<1>7. Max(prices) \in prices /\ Min(prices) \in prices
  BY <1>3, <1>4, <1>5, MaxIs, MinIs
<1>8. QED BY <1>1, <1>5, <1>6, <1>7 DEF bucket, prices

\* The pools of both sides are finitely many, each with a price and a time.
LEMMA PoolsAre ==
    ASSUME NEW series \in Seq(Candles), NEW swings \in SUBSET (1..Len(series)), IsFiniteSet(swings)
    PROVE  /\ BuySidePools(series, swings) \subseteq Pools /\ IsFiniteSet(BuySidePools(series, swings))
           /\ SellSidePools(series, swings) \subseteq Pools /\ IsFiniteSet(SellSidePools(series, swings))
<1>1. swings \in SUBSET Int
  OBVIOUS
<1>2. ASSUME NEW s \in swings PROVE series[s].high \in Int /\ series[s].low \in Int
  BY CandleIs
<1> DEFINE high == [s \in swings |-> series[s].high]
           low == [s \in swings |-> series[s].low]
           buy == [s \in swings |-> [buySide |-> TRUE, price |-> Max({high[t] : t \in Bucket(s, high)}),
                                     time |-> Max(Bucket(s, high))]]
           sell == [s \in swings |-> [buySide |-> FALSE, price |-> Min({low[t] : t \in Bucket(s, low)}),
                                      time |-> Max(Bucket(s, low))]]
<1>3. high \in [swings -> Int] /\ low \in [swings -> Int]
  BY <1>2
<1> HIDE DEF high, low
<1>4. ASSUME NEW s \in swings PROVE buy[s] \in Pools /\ sell[s] \in Pools
  <2>1. Max(Bucket(s, high)) \in Int /\ Max({high[t] : t \in Bucket(s, high)}) \in Int
    BY <1>1, <1>3, ClusterIs
  <2>2. Max(Bucket(s, low)) \in Int /\ Min({low[t] : t \in Bucket(s, low)}) \in Int
    BY <1>1, <1>3, ClusterIs
  <2>3. QED BY <2>1, <2>2 DEF Pools
<1>5. /\ BuySidePools(series, swings) = {buy[s] : s \in swings}
      /\ SellSidePools(series, swings) = {sell[s] : s \in swings}
  BY DEF BuySidePools, SellSidePools, high, low
<1>6. /\ DOMAIN buy = swings /\ buy = [s \in swings |-> buy[s]]
      /\ DOMAIN sell = swings /\ sell = [s \in swings |-> sell[s]]
  OBVIOUS
<1> HIDE DEF buy, sell
<1>7. IsFiniteSet({buy[s] : s \in swings}) /\ IsFiniteSet({sell[s] : s \in swings})
  BY <1>6, ImageIsFinite
<1>8. QED BY <1>4, <1>5, <1>7

SweepRecords ==
    [direction : {"BUY", "SELL"}, level : Int, extreme : Int, index : Int, depth : Int, formed : Int]

\* The last series are series of the series.
LEMMA LastBarsAre ==
    ASSUME NEW series \in Seq(Candles), NEW n \in Nat
    PROVE  LastBars(series, n) \subseteq 1..Len(series) /\ IsFiniteSet(LastBars(series, n))
<1>1. 1 \in Int /\ Len(series) - n + 1 \in Int
  OBVIOUS
<1>2. Max({1, Len(series) - n + 1}) \in Int /\ Max({1, Len(series) - n + 1}) >= 1
  BY <1>1, MaxOfTwo
<1>3. LastBars(series, n) \subseteq 1..Len(series)
  BY <1>2 DEF LastBars
<1>4. IsFiniteSet(1..Len(series))
  BY FS_Interval
<1>5. QED BY <1>3, <1>4, FS_Subset

\* The candidates for a sweep are finitely many, each of a bar of the series.
LEMMA SweepsAre ==
    ASSUME NEW series \in Seq(Candles), NEW pools \in SUBSET Pools, IsFiniteSet(pools)
    PROVE  /\ IsFiniteSet(Sweeps(series, pools))
           /\ \A s \in Sweeps(series, pools) :
                s \in SweepRecords /\ s.index \in 1..Len(series)
                /\ s.extreme = IF s.direction = "BUY" THEN series[s.index].low ELSE series[s.index].high
<1> DEFINE C == pools \X LastBars(series, SweepLookback)
           D == {c \in C : /\ c[1].time < c[2]
                           /\ Untouched(series, c[1], c[2])
                           /\ Through(series[c[2]], c[1])
                           /\ ClosedBack(series[c[2]], c[1])}
           f == [c \in D |-> Sweep(series, c[1], c[2])]
<1>1. LastBars(series, SweepLookback) \subseteq 1..Len(series) /\ IsFiniteSet(LastBars(series, SweepLookback))
  BY StrategyAssumption, LastBarsAre
<1>2. IsFiniteSet(C)
  BY <1>1, FS_Product
<1>3. D \subseteq C
  OBVIOUS
<1>4. ASSUME NEW c \in C PROVE c[1] \in Pools /\ c[2] \in 1..Len(series)
  BY <1>1
<1>5. Sweeps(series, pools) = {f[c] : c \in D}
  BY DEF Sweeps
<1>6. DOMAIN f = D /\ f = [c \in D |-> f[c]]
  OBVIOUS
<1>7. \A c \in D : f[c] = Sweep(series, c[1], c[2])
  OBVIOUS
<1> HIDE DEF C, D, f
<1>8. IsFiniteSet(D)
  BY <1>2, <1>3, FS_Subset
<1>9. IsFiniteSet(Sweeps(series, pools))
  BY <1>5, <1>6, <1>8, ImageIsFinite
<1>10. ASSUME NEW s \in Sweeps(series, pools)
       PROVE  s \in SweepRecords /\ s.index \in 1..Len(series)
              /\ s.extreme = IF s.direction = "BUY" THEN series[s.index].low ELSE series[s.index].high
  <2>1. PICK c \in D : s = Sweep(series, c[1], c[2])
    BY <1>5, <1>7
  <2> DEFINE pool == c[1]
             i == c[2]
             extreme == IF pool.buySide THEN series[i].high ELSE series[i].low
             depth == Abs(extreme - pool.price)
  <2>2. pool \in Pools /\ i \in 1..Len(series)
    BY <1>3, <1>4
  <2>3. pool.buySide \in BOOLEAN /\ pool.price \in Int /\ pool.time \in Int
    BY <2>2 DEF Pools
  <2>4. extreme \in Int
    BY <2>2, CandleIs
  <2>5. depth \in Int
    <3> HIDE DEF extreme
    <3>1. QED BY <2>3, <2>4 DEF Abs
  <2>6. s = [direction |-> IF pool.buySide THEN "SELL" ELSE "BUY", level |-> pool.price,
             extreme |-> extreme, index |-> i, depth |-> depth, formed |-> pool.time]
    BY <2>1 DEF Sweep
  <2> HIDE DEF depth, i
  <2>7. /\ s.index = i /\ s.extreme = extreme
        /\ s.direction = IF pool.buySide THEN "SELL" ELSE "BUY"
    BY <2>6
  <2>8. s.extreme = IF s.direction = "BUY" THEN series[s.index].low ELSE series[s.index].high
    BY <2>7, <2>3
  <2> HIDE DEF extreme, pool
  <2>9. s \in SweepRecords
    BY <2>2, <2>3, <2>4, <2>5, <2>6 DEF SweepRecords
  <2>10. QED BY <2>2, <2>7, <2>8, <2>9
<1>11. QED BY <1>9, <1>10

\* Of two candidates one precedes, and of three the first does.
LEMMA PrecedesIsAnOrder ==
    ASSUME NEW s \in SweepRecords, NEW t \in SweepRecords, NEW u \in SweepRecords
    PROVE  /\ Precedes(s, s) /\ (Precedes(s, t) \/ Precedes(t, s))
           /\ Precedes(s, t) /\ Precedes(t, u) => Precedes(s, u)
<1>1. \A r \in SweepRecords : /\ r.depth \in Int /\ r.index \in Int /\ r.formed \in Int
                              /\ r.direction = "BUY" \/ r.direction = "SELL"
  BY DEF SweepRecords
<1>2. Precedes(s, s)
  BY <1>1 DEF Precedes
<1>3. Precedes(s, t) \/ Precedes(t, s)
  BY <1>1 DEF Precedes
<1>4. Precedes(s, t) /\ Precedes(t, u) => Precedes(s, u)
  BY <1>1 DEF Precedes
<1>5. QED BY <1>2, <1>3, <1>4

\* Of finitely many candidates, if there are any, one precedes all.
LEMMA FirstSweepExists ==
    ASSUME NEW S \in SUBSET SweepRecords, IsFiniteSet(S), S # {}
    PROVE  \E s \in S : \A t \in S : Precedes(s, t)
<1> DEFINE Firsts == {n \in Nat : \A T \in SUBSET SweepRecords :
                        IsFiniteSet(T) /\ Cardinality(T) = n /\ T # {}
                            => \E s \in T : \A t \in T : Precedes(s, t)}
<1>1. 0 \in Firsts
  BY FS_EmptySet
<1>2. ASSUME NEW n \in Nat, n \in Firsts PROVE n + 1 \in Firsts
  <2> SUFFICES ASSUME NEW T \in SUBSET SweepRecords, IsFiniteSet(T), Cardinality(T) = n + 1, T # {}
      PROVE  \E s \in T : \A t \in T : Precedes(s, t)
    BY <1>2
  <2>1. PICK x \in T : TRUE
    OBVIOUS
  <2>2. Precedes(x, x)
    BY PrecedesIsAnOrder
  <2>3. IsFiniteSet(T \ {x}) /\ Cardinality(T \ {x}) = n
    <3>1. IsFiniteSet(T \ {x}) /\ Cardinality(T \ {x}) = Cardinality(T) - 1
      BY FS_RemoveElement
    <3>2. QED BY <3>1
  <2>4. CASE T \ {x} = {}
    BY <2>1, <2>2, <2>4
  <2>5. CASE T \ {x} # {}
    <3>1. PICK s \in T \ {x} : \A t \in T \ {x} : Precedes(s, t)
      BY <1>2, <2>3, <2>5
    <3>2. CASE Precedes(s, x)
      BY <2>1, <3>1, <3>2
    <3>3. CASE Precedes(x, s)
      <4>1. \A t \in T \ {x} : Precedes(x, t)
        BY <2>1, <3>1, <3>3, PrecedesIsAnOrder
      <4>2. QED BY <2>1, <2>2, <4>1
    <3>4. QED BY <2>1, <3>1, <3>2, <3>3, PrecedesIsAnOrder
  <2>6. QED BY <2>4, <2>5
<1>3. Cardinality(S) \in Nat
  BY FS_CardinalityType
<1> HIDE DEF Firsts
<1>4. Cardinality(S) \in Firsts
  BY <1>1, <1>2, <1>3, SetInduction
<1>5. QED BY <1>4 DEF Firsts

\* The sweep that is found is one, of a bar of the series.
LEMMA SweepIs ==
    ASSUME NEW series \in Seq(Candles), NEW sweep, sweep = SweepOf(series, ReadStructure(series)), sweep # Nothing
    PROVE  /\ sweep.direction \in {"BUY", "SELL"} /\ sweep.index \in 1..Len(series) /\ sweep.extreme \in Int
           /\ sweep.extreme = IF sweep.direction = "BUY" THEN series[sweep.index].low
                                                         ELSE series[sweep.index].high
<1> DEFINE highs == ReadStructure(series).highs
           lows == ReadStructure(series).lows
           pools == BuySidePools(series, highs) \cup SellSidePools(series, lows)
           sweeps == Sweeps(series, pools)
<1>1. highs = SwingHighs(series) /\ lows = SwingLows(series)
  BY DEF ReadStructure
<1>2. sweep = DetectSweep(series, pools)
  BY DEF SweepOf
<1> HIDE DEF highs, lows
<1>3. pools \in SUBSET Pools /\ IsFiniteSet(pools)
  <2>1. /\ highs \in SUBSET (1..Len(series)) /\ IsFiniteSet(highs)
        /\ lows \in SUBSET (1..Len(series)) /\ IsFiniteSet(lows)
    BY <1>1, SwingsAreBars
  <2>2. /\ BuySidePools(series, highs) \subseteq Pools /\ IsFiniteSet(BuySidePools(series, highs))
        /\ SellSidePools(series, lows) \subseteq Pools /\ IsFiniteSet(SellSidePools(series, lows))
    BY <2>1, PoolsAre
  <2>3. QED BY <2>2, FS_Union
<1> HIDE DEF pools
<1>4. /\ IsFiniteSet(sweeps)
      /\ \A s \in sweeps :
            s \in SweepRecords /\ s.index \in 1..Len(series)
            /\ s.extreme = IF s.direction = "BUY" THEN series[s.index].low ELSE series[s.index].high
  BY <1>3, SweepsAre
<1>5. sweeps # {} /\ sweep = CHOOSE s \in sweeps : \A t \in sweeps : Precedes(s, t)
  BY <1>2 DEF DetectSweep
<1> HIDE DEF sweeps
<1>6. \E s \in sweeps : \A t \in sweeps : Precedes(s, t)
  BY <1>4, <1>5, FirstSweepExists
<1>7. sweep \in sweeps
  BY <1>5, <1>6
<1>8. QED BY <1>4, <1>7 DEF SweepRecords

------------------------------------------------------------------------------
(* The prices of an entry                                                  *)

\* The wider of the two floors is a distance.
LEMMA PolicyFloorIs == PolicyFloor \in Int /\ PolicyFloor >= 0
<1>1. MinStopPoints \in Int /\ StopsLevel \in Int /\ MinStopPoints >= 0 /\ StopsLevel >= 0
  BY StrategyAssumption
<1>2. QED BY <1>1, MaxOfTwo DEF PolicyFloor

LEMMA EntryPriceIs == ASSUME NEW q \in Quotes, NEW side PROVE EntryPrice(q, side) \in Int
<1>1. q \in [bid : Int, ask : Int, weekday : 0..6, hour : 0..23]
  BY StrategyAssumption
<1>2. QED BY <1>1 DEF EntryPrice

\* The other end of the impulse leg is the furthest price since the sweep.
LEMMA ImpulseLegIs ==
    ASSUME NEW series \in Seq(Candles), NEW sweep, sweep.index \in 1..Len(series), sweep.extreme \in Int
    PROVE  LET leg == ImpulseLeg(series, sweep) IN
           /\ leg.high \in Int /\ leg.low \in Int
           /\ IF sweep.direction = "BUY" THEN leg.low = sweep.extreme ELSE leg.high = sweep.extreme
<1> DEFINE since == sweep.index..Len(series)
           high == [i \in since |-> series[i].high]
           low == [i \in since |-> series[i].low]
           highs == {series[i].high : i \in since}
           lows == {series[i].low : i \in since}
<1>1. IsFiniteSet(since) /\ since # {} /\ since \subseteq 1..Len(series)
  BY FS_Interval
<1>2. highs = {high[i] : i \in since} /\ lows = {low[i] : i \in since}
  OBVIOUS
<1>3. /\ DOMAIN high = since /\ high = [i \in since |-> high[i]]
      /\ DOMAIN low = since /\ low = [i \in since |-> low[i]]
  OBVIOUS
<1>4. ImpulseLeg(series, sweep) = IF sweep.direction = "BUY"
                                THEN [low |-> sweep.extreme, high |-> Max(highs)]
                                ELSE [low |-> Min(lows), high |-> sweep.extreme]
  BY DEF ImpulseLeg
<1> HIDE DEF since
<1>5. ASSUME NEW i \in since PROVE series[i].high \in Int /\ series[i].low \in Int
  BY <1>1, CandleIs
<1>6. highs \in SUBSET Int /\ highs # {} /\ lows \in SUBSET Int /\ lows # {}
  BY <1>1, <1>5
<1> HIDE DEF high, low, highs, lows
<1>7. IsFiniteSet(highs) /\ IsFiniteSet(lows)
  BY <1>1, <1>2, <1>3, ImageIsFinite
<1>8. Max(highs) \in Int /\ Min(lows) \in Int
  BY <1>6, <1>7, MaxIs, MinIs
<1>9. QED BY <1>4, <1>8

\* An entry in the band of the leg is not beyond the extreme that was swept.
LEMMA EntryIsInsideTheLeg ==
    ASSUME NEW direction \in {"BUY", "SELL"}, NEW entry \in Int,
           NEW leg, leg.high \in Int, leg.low \in Int, ~(leg.high <= leg.low),
           InOte(direction, leg, entry)
    PROVE  IF direction = "BUY" THEN leg.low <= entry ELSE entry <= leg.high
<1> DEFINE top == OteHigh[1]
           all == OteHigh[2]
           size == leg.high - leg.low
           down == leg.high - entry
<1>1. top \in Int /\ all \in Nat /\ all > 0 /\ top <= all
  <2>1. OteHigh \in Decimals /\ OteHigh[1] <= OteHigh[2]
    BY StrategyAssumption
  <2>2. QED BY <2>1, DecimalIs
<1>2. size \in Nat /\ size > 0 /\ down \in Int
  OBVIOUS
<1>3. RetracementOf(leg, entry) = <<down, size>>
  BY DEF RetracementOf
<1> HIDE DEF top, all, size, down
<1>4. top * size <= all * size
  BY <1>1, <1>2, CancelAFactor
<1>5. CASE direction = "BUY"
  <2>1. down * all <= top * size
    BY <1>3, <1>5 DEF InOte, LessOrEqual, top, all
  <2>2. down * all <= size * all
    BY <1>1, <1>2, <1>4, <2>1
  <2>3. down <= size
    BY <1>1, <1>2, <2>2, CancelAFactor
  <2>4. QED BY <1>5, <2>3 DEF down, size
<1>6. CASE direction = "SELL"
  <2> DEFINE depth == Minus(Whole(1), <<down, size>>)
             m == size - down
  <2>1. depth = Reduced(m, size)
    <3>1. 1 * size = size /\ down * 1 = down
      BY <1>2
    <3>2. depth = Reduced(1 * size - down * 1, 1 * size)
      BY DEF Minus, Whole
    <3>3. QED BY <3>1, <3>2
  <2>2. m \in Int
    BY <1>2
  <2> HIDE DEF depth, m
  <2>3. depth \in Decimals /\ depth[1] * size = m * depth[2]
    BY <1>2, <2>1, <2>2, ReducedIs
  <2>4. depth[1] \in Int /\ depth[2] \in Nat /\ depth[2] > 0
    BY <2>3, DecimalIs
  <2>5. depth[1] * all <= top * depth[2]
    <3>1. LessOrEqual(depth, OteHigh)
      BY <1>3, <1>6 DEF InOte, depth
    <3>2. QED BY <3>1 DEF LessOrEqual, top, all
  <2>6. (depth[1] * all) * size <= (top * depth[2]) * size
    BY <1>1, <1>2, <2>4, <2>5, CancelAFactor
  <2>7. (depth[1] * all) * size = (m * all) * depth[2]
    <3>1. (depth[1] * all) * size = (depth[1] * size) * all
      BY <1>1, <1>2, <2>4
    <3>2. (m * depth[2]) * all = (m * all) * depth[2]
      BY <1>1, <2>2, <2>4
    <3>3. QED BY <2>3, <3>1, <3>2
  <2>8. (top * depth[2]) * size = (top * size) * depth[2]
    BY <1>1, <1>2, <2>4
  <2>9. m * all <= top * size
    <3>1. m * all \in Int /\ top * size \in Int
      BY <1>1, <1>2, <2>2
    <3>2. (m * all) * depth[2] <= (top * size) * depth[2]
      BY <2>6, <2>7, <2>8
    <3>3. QED BY <2>4, <3>1, <3>2, CancelAFactor
  <2>10. m * all <= size * all
    BY <1>1, <1>2, <1>4, <2>2, <2>9
  <2>11. m <= size
    BY <1>1, <1>2, <2>2, <2>10, CancelAFactor
  <2>12. QED BY <1>2, <1>6, <2>11 DEF m, down, size
<1>7. QED BY <1>5, <1>6

\* A stop is placed on the losing side of the entry, at the floor or beyond.
LEMMA StopIsBeyond ==
    ASSUME NEW sweep, sweep.direction \in {"BUY", "SELL"}, sweep.extreme \in Int, NEW entry \in Int,
           IF sweep.direction = "BUY" THEN sweep.extreme <= entry ELSE entry <= sweep.extreme,
           NEW atr \in Decimals, atr[1] > 0
    PROVE  LET stop == Widened(sweep.direction, entry, BufferedStop(sweep, atr)) IN
           /\ stop \in Int /\ Abs(entry - stop) >= PolicyFloor
           /\ Abs(entry - stop) > 0 => IF sweep.direction = "BUY" THEN stop < entry ELSE entry < stop
<1> DEFINE buffer == Times(atr, StopBuffer)
           buffered == BufferedStop(sweep, atr)
           stop == Widened(sweep.direction, entry, buffered)
<1>1. buffer \in Decimals /\ buffer[1] >= 0
  <2>1. StopBuffer \in Decimals /\ StopBuffer[1] >= 0
    BY StrategyAssumption
  <2>2. atr[1] >= 0
    BY DecimalIs
  <2>3. QED BY <2>1, <2>2, TimesIs
<1>2. buffered = IF sweep.direction = "BUY" THEN RoundDown(Minus(Whole(sweep.extreme), buffer))
                                            ELSE RoundUp(Plus(Whole(sweep.extreme), buffer))
  BY DEF BufferedStop
<1> HIDE DEF buffer, buffered
<1>3. buffered \in Int /\ IF sweep.direction = "BUY" THEN buffered <= entry ELSE entry <= buffered
  <2>1. CASE sweep.direction = "BUY"
    <3>1. buffered \in Int /\ buffer[1] <= (sweep.extreme - buffered) * buffer[2]
      BY <1>1, <1>2, <2>1, RoundDownMinus
    <3>2. sweep.extreme - buffered >= 0
      BY <1>1, <3>1, DistanceIs
    <3>3. QED BY <2>1, <3>1, <3>2
  <2>2. CASE sweep.direction = "SELL"
    <3>1. buffered \in Int /\ buffer[1] <= (buffered - sweep.extreme) * buffer[2]
      BY <1>1, <1>2, <2>2, RoundUpPlus
    <3>2. buffered - sweep.extreme >= 0
      BY <1>1, <3>1, DistanceIs
    <3>3. QED BY <2>2, <3>1, <3>2
  <2>3. QED BY <2>1, <2>2
<1>4. PolicyFloor \in Int /\ PolicyFloor >= 0
  BY PolicyFloorIs
<1> HIDE DEF PolicyFloor
<1>5. /\ Abs(entry - buffered) >= PolicyFloor => stop = buffered
      /\ ~(Abs(entry - buffered) >= PolicyFloor)
            => stop = IF sweep.direction = "BUY" THEN entry - PolicyFloor ELSE entry + PolicyFloor
  BY DEF Widened
<1> HIDE DEF stop
<1>6. /\ stop \in Int /\ Abs(entry - stop) >= PolicyFloor
      /\ Abs(entry - stop) > 0 => IF sweep.direction = "BUY" THEN stop < entry ELSE entry < stop
  <2>1. CASE stop = buffered /\ Abs(entry - buffered) >= PolicyFloor
    BY <1>3, <1>4, <2>1 DEF Abs
  <2>2. CASE stop = IF sweep.direction = "BUY" THEN entry - PolicyFloor ELSE entry + PolicyFloor
    BY <1>4, <2>2 DEF Abs
  <2>3. QED BY <1>5, <2>1, <2>2
<1>7. QED BY <1>6 DEF stop, buffered

\* The nearest opposing pool lies beyond the entry, if there is one.
LEMMA LevelIsBeyond ==
    ASSUME NEW pools \in SUBSET Pools, IsFiniteSet(pools), NEW direction \in {"BUY", "SELL"},
           NEW entry \in Int, NEW distance, LiquidityTarget(pools, direction, entry, distance) # Nothing
    PROVE  LET level == LiquidityTarget(pools, direction, entry, distance) IN
           level \in Int /\ IF direction = "BUY" THEN entry < level ELSE level < entry
<1> DEFINE level == LiquidityTarget(pools, direction, entry, distance)
           price == [p \in pools |-> p.price]
           prices == {p.price : p \in pools}
           beyond == IF direction = "BUY" THEN {p \in prices : p > entry} ELSE {p \in prices : p < entry}
<1>1. level = NearestTarget(pools, entry, direction)
  BY DEF LiquidityTarget
<1>2. prices \in SUBSET Int
  BY DEF Pools
<1>3. IsFiniteSet(prices)
  <2>1. prices = {price[p] : p \in pools}
    OBVIOUS
  <2>2. DOMAIN price = pools /\ price = [p \in pools |-> price[p]]
    OBVIOUS
  <2> HIDE DEF price, prices
  <2>3. QED BY <2>1, <2>2, ImageIsFinite
<1>4. /\ beyond # {} /\ direction = "BUY" => level = Min(beyond)
      /\ beyond # {} /\ direction = "SELL" => level = Max(beyond)
      /\ beyond = {} => level = Nothing
  <2> HIDE DEF level
  <2>1. QED BY <1>1 DEF NearestTarget
<1>5. level # Nothing
  OBVIOUS
<1> HIDE DEF prices, level
<1>6. beyond \subseteq prices
  OBVIOUS
<1>7. beyond \in SUBSET Int /\ IsFiniteSet(beyond) /\ beyond # {}
  BY <1>2, <1>3, <1>4, <1>5, <1>6, FS_Subset
<1>8. \A p \in beyond : IF direction = "BUY" THEN entry < p ELSE p < entry
  BY <1>2
<1> HIDE DEF beyond
<1>9. level \in beyond
  BY <1>4, <1>7, MaxIs, MinIs
<1>10. QED BY <1>7, <1>8, <1>9 DEF level

\* A target is placed on the winning side of the entry.
LEMMA TargetIsBeyond ==
    ASSUME NEW level, NEW direction \in {"BUY", "SELL"}, NEW entry \in Int,
           NEW distance \in Int, distance > 0,
           level # Nothing => level \in Int /\ IF direction = "BUY" THEN entry < level ELSE level < entry
    PROVE  LET target == Target(level, direction, entry, distance) IN
           target \in Int /\ IF direction = "BUY" THEN entry < target ELSE target < entry
<1> DEFINE reward == Times(Whole(distance), FallbackReward)
           target == Target(level, direction, entry, distance)
<1>1. reward \in Decimals /\ reward[1] > 0
  <2>1. FallbackReward \in Decimals /\ FallbackReward[1] > 0
    BY StrategyAssumption
  <2>2. Whole(distance) \in Decimals /\ Whole(distance)[1] > 0
    BY DEF Whole, Decimals
  <2>3. QED BY <2>1, <2>2, TimesIs
<1>2. level = Nothing =>
        target = IF direction = "BUY" THEN RoundUp(Plus(Whole(entry), reward))
                                      ELSE RoundDown(Minus(Whole(entry), reward))
  BY DEF Target
<1>3. level # Nothing => target = level
  BY DEF Target
<1> HIDE DEF reward, target
<1>4. CASE level # Nothing
  BY <1>3, <1>4 DEF target
<1>5. CASE level = Nothing /\ direction = "BUY"
  <2>1. target \in Int /\ reward[1] <= (target - entry) * reward[2]
    BY <1>1, <1>2, <1>5, RoundUpPlus
  <2>2. target - entry > 0
    BY <1>1, <2>1, DistanceIs
  <2>3. QED BY <1>5, <2>1, <2>2 DEF target
<1>6. CASE level = Nothing /\ direction = "SELL"
  <2>1. target \in Int /\ reward[1] <= (entry - target) * reward[2]
    BY <1>1, <1>2, <1>6, RoundDownMinus
  <2>2. entry - target > 0
    BY <1>1, <2>1, DistanceIs
  <2>3. QED BY <1>6, <2>1, <2>2 DEF target
<1>7. QED BY <1>4, <1>5, <1>6

\* What an intent must be to pass the contract and the risk engine.
Protected(d) == d.side # "FLAT" => AcceptedIntent(d) /\ Abs(d.entry - d.stop) >= PolicyFloor

\* An entry of the ICT model is one that the contract accepts.
LEMMA IctIsProtected ==
    ASSUME NEW series \in Seq(Candles), NEW q \in Quotes, NEW sides
    PROVE  Protected(IctEvaluate(series, q, sides))
<1> DEFINE d == IctEvaluate(series, q, sides)
           structure == ReadStructure(series)
           sweep == SweepOf(series, structure)
           direction == sweep.direction
           entry == EntryPrice(q, direction)
           leg == ImpulseLeg(series, sweep)
           gap == AlignedGap(series, direction)
           atr == AverageTrueRange(series)
           stop == Widened(direction, entry, BufferedStop(sweep, atr))
           distance == Abs(entry - stop)
           opposing == IF direction = "BUY" THEN BuySidePools(series, structure.highs)
                                            ELSE SellSidePools(series, structure.lows)
           level == LiquidityTarget(opposing, direction, entry, distance)
           target == Target(level, direction, entry, distance)
<1> SUFFICES ASSUME d.side # "FLAT"
             PROVE  AcceptedIntent(d) /\ Abs(d.entry - d.stop) >= PolicyFloor
  BY DEF Protected
<1>1. ~(atr[1] <= 0) /\ sweep # Nothing /\ ~(leg.high <= leg.low) /\ InOte(direction, leg, entry)
  BY IctEntryIs
<1>2. PICK met : d = IctIntent(series, structure, sweep, gap, atr, entry, met)
  BY IctEntryIs
<1>3. opposing \in SUBSET Pools /\ IsFiniteSet(opposing)
  <2>1. structure.highs = SwingHighs(series) /\ structure.lows = SwingLows(series)
    BY DEF ReadStructure
  <2> HIDE DEF structure
  <2>2. /\ structure.highs \in SUBSET (1..Len(series)) /\ IsFiniteSet(structure.highs)
        /\ structure.lows \in SUBSET (1..Len(series)) /\ IsFiniteSet(structure.lows)
    BY <2>1, SwingsAreBars
  <2>3. QED BY <2>2, PoolsAre
<1>4. /\ direction \in {"BUY", "SELL"} /\ sweep.index \in 1..Len(series) /\ sweep.extreme \in Int
  BY <1>1, SweepIs
<1>5. entry \in Int
  BY EntryPriceIs
<1>6. atr \in Decimals /\ atr[1] > 0
  <2>1. atr \in Decimals
    BY AverageTrueRangeIs
  <2> HIDE DEF atr
  <2>2. QED BY <1>1, <2>1, DecimalIs
<1>7. /\ ~(distance <= 0)
      /\ d.side = direction /\ d.entry = entry /\ d.stop = stop /\ d.target = target
  <2>1. d = IF distance <= 0 THEN NoTrade("degenerate_stop")
            ELSE IF level = Nothing /\ "liquidity_target" \in Required THEN NoTrade("liquidity_target")
            ELSE IF target <= 0 \/ stop <= 0 THEN NoTrade("degenerate_price_levels")
            ELSE Intent(direction, entry, stop, target,
                        IctConfidence(met + (IF level = Nothing THEN 0 ELSE 1), gap, atr),
                        RegimeOf(structure))
    <3> HIDE DEF d, structure, sweep, gap, atr, entry
    <3>1. QED BY <1>2, Zenon DEF IctIntent
  <2> HIDE DEF d, structure, sweep, direction, gap, atr, entry, stop, distance, opposing, level, target
  <2>2. \A reason : NoTrade(reason).side = "FLAT"
    BY DEF NoTrade
  <2>3. QED BY <2>1, <2>2 DEF Intent
<1> HIDE DEF atr, gap, structure, entry, d
<1>8. IF direction = "BUY" THEN sweep.extreme <= entry ELSE entry <= sweep.extreme
  <2> HIDE DEF sweep
  <2>1. /\ leg.high \in Int /\ leg.low \in Int
        /\ IF direction = "BUY" THEN leg.low = sweep.extreme ELSE leg.high = sweep.extreme
    BY <1>4, ImpulseLegIs
  <2> HIDE DEF leg
  <2>2. IF direction = "BUY" THEN leg.low <= entry ELSE entry <= leg.high
    BY <1>1, <1>4, <1>5, <2>1, EntryIsInsideTheLeg
  <2>3. QED BY <2>1, <2>2
<1>9. /\ stop \in Int /\ distance >= PolicyFloor
      /\ distance > 0 => IF direction = "BUY" THEN stop < entry ELSE entry < stop
  <2> HIDE DEF sweep
  <2>1. QED BY <1>4, <1>5, <1>6, <1>8, StopIsBeyond
<1> HIDE DEF leg, sweep, opposing, stop
<1>10. distance \in Int /\ distance > 0
  <2>1. distance \in Int
    BY <1>5, <1>9 DEF Abs
  <2> HIDE DEF distance
  <2>2. QED BY <1>7, <2>1
<1> HIDE DEF distance, level
<1>11. level # Nothing => level \in Int /\ IF direction = "BUY" THEN entry < level ELSE level < entry
  BY <1>3, <1>4, <1>5, LevelIsBeyond DEF level
<1>12. target \in Int /\ IF direction = "BUY" THEN entry < target ELSE target < entry
  BY <1>4, <1>5, <1>10, <1>11, TargetIsBeyond
<1>13. QED
  <2> HIDE DEF target, direction, PolicyFloor, Abs
  <2>1. AcceptedIntent(d)
    BY <1>4, <1>7, <1>9, <1>10, <1>12 DEF AcceptedIntent
  <2>2. Abs(d.entry - d.stop) >= PolicyFloor
    BY <1>7, <1>9 DEF distance
  <2>3. QED BY <2>1, <2>2

\* An entry of the baseline is one that the contract accepts.
LEMMA BaselineIsProtected ==
    ASSUME NEW series \in Seq(Candles), NEW q \in Quotes, NEW sides
    PROVE  Protected(BaselineEvaluate(series, q, sides))
<1> DEFINE d == BaselineEvaluate(series, q, sides)
           features == ComputeFeatures(series)
           direction == IF features.trend[1] > 0 THEN "BUY" ELSE "SELL"
           volatility == Times(features.atr, StopMultiple)
           distance == IF Less(volatility, Whole(PolicyFloor)) THEN Whole(PolicyFloor) ELSE volatility
           reward == Times(distance, RewardMultiple)
           entry == EntryPrice(q, direction)
           stop == IF direction = "BUY" THEN RoundDown(Minus(Whole(entry), distance))
                                        ELSE RoundUp(Plus(Whole(entry), distance))
           target == IF direction = "BUY" THEN RoundUp(Plus(Whole(entry), reward))
                                          ELSE RoundDown(Minus(Whole(entry), reward))
<1> SUFFICES ASSUME d.side # "FLAT"
             PROVE  AcceptedIntent(d) /\ Abs(d.entry - d.stop) >= PolicyFloor
  BY DEF Protected
<1>1. \A reason : NoTrade(reason).side = "FLAT"
  BY DEF NoTrade
<1>2. features # Nothing /\ d = BaselineDecide(features, q, sides)
  <2> HIDE DEF features
  <2>1. QED BY <1>1 DEF BaselineEvaluate, features
<1>3. features.atr = AverageTrueRange(series)
  BY <1>2 DEF ComputeFeatures
<1> HIDE DEF features
<1>4. /\ ~(features.atr[1] <= 0)
      /\ d.side = direction /\ d.entry = entry /\ d.stop = stop /\ d.target = target
  <2>1. d = IF features.regime # "TREND" THEN NoTrade("regime_not_traded")
            ELSE IF direction \in sides THEN NoTrade("already_positioned")
            ELSE IF Less(MaxTrend, <<Abs(features.trend[1]), features.trend[2]>>)
                 THEN NoTrade("trend_overextended")
            ELSE IF features.atr[1] <= 0 THEN NoTrade("atr_unavailable")
            ELSE IF stop <= 0 \/ target <= 0 THEN NoTrade("degenerate_price_levels")
            ELSE Intent(direction, entry, stop, target,
                        BaselineConfidence(features.trend), features.regime)
    <3> HIDE DEF d
    <3>1. QED BY <1>2, Zenon DEF BaselineDecide
  <2> HIDE DEF d, direction, entry, stop, target
  <2>2. QED BY <1>1, <2>1 DEF Intent
<1>5. features.atr \in Decimals /\ features.atr[1] > 0
  <2>1. features.atr \in Decimals
    BY <1>3, AverageTrueRangeIs
  <2>2. QED BY <1>4, <2>1, DecimalIs
<1>6. volatility \in Decimals /\ volatility[1] > 0
  <2>1. StopMultiple \in Decimals /\ StopMultiple[1] > 0
    BY StrategyAssumption
  <2>2. QED BY <1>5, <2>1, TimesIs
<1>7. PolicyFloor \in Int /\ PolicyFloor >= 0
  BY PolicyFloorIs
<1> HIDE DEF volatility, PolicyFloor, d
<1>8. volatility[1] \in Int /\ volatility[2] \in Nat /\ volatility[2] > 0
  BY <1>6, DecimalIs
\* The distance is one, of the floor at least.
<1>9. /\ distance \in Decimals /\ distance[1] > 0
      /\ \A n \in Int : distance[1] <= n * distance[2] => n >= PolicyFloor
  <2>1. CASE Less(volatility, Whole(PolicyFloor))
    <3>1. volatility[1] < PolicyFloor * volatility[2]
      <4>1. volatility[1] * 1 = volatility[1]
        BY <1>8
      <4>2. QED BY <2>1, <4>1 DEF Less, Whole
    <3>2. PolicyFloor > 0
      <4>1. PolicyFloor = 0 => PolicyFloor * volatility[2] = 0
        BY <1>8
      <4>2. QED BY <1>6, <1>7, <1>8, <3>1, <4>1
    <3>3. distance = <<PolicyFloor, 1>>
      BY <2>1 DEF Whole
    <3> HIDE DEF distance
    <3>4. distance[1] = PolicyFloor /\ distance[2] = 1
      BY <3>3
    <3>5. distance \in Decimals
      BY <1>7, <3>3 DEF Decimals
    <3>6. QED BY <1>7, <3>2, <3>4, <3>5
  <2>2. CASE ~Less(volatility, Whole(PolicyFloor))
    <3>1. PolicyFloor * volatility[2] <= volatility[1]
      <4>1. volatility[1] * 1 = volatility[1]
        BY <1>8
      <4>2. ~(volatility[1] < PolicyFloor * volatility[2])
        BY <2>2, <4>1 DEF Less, Whole
      <4>3. PolicyFloor * volatility[2] \in Int
        BY <1>7, <1>8
      <4>4. QED BY <1>8, <4>2, <4>3
    <3>2. distance = volatility
      BY <2>2
    <3> HIDE DEF distance
    <3>3. ASSUME NEW n \in Int, distance[1] <= n * distance[2] PROVE n >= PolicyFloor
      <4>1. PolicyFloor * volatility[2] \in Int /\ n * volatility[2] \in Int
        BY <1>7, <1>8
      <4>2. PolicyFloor * volatility[2] <= n * volatility[2]
        BY <1>8, <3>1, <3>2, <3>3, <4>1
      <4>3. QED BY <1>7, <1>8, <4>2, CancelAFactor
    <3>4. QED BY <1>6, <3>2, <3>3
  <2>3. QED BY <2>1, <2>2
<1> HIDE DEF distance
<1>10. reward \in Decimals /\ reward[1] > 0
  <2>1. RewardMultiple \in Decimals /\ RewardMultiple[1] > 0
    BY StrategyAssumption
  <2>2. QED BY <1>9, <2>1, TimesIs
<1> HIDE DEF reward
<1>11. entry \in Int
  BY EntryPriceIs
<1> HIDE DEF entry
<1>12. CASE direction = "BUY"
  <2>1. stop \in Int /\ distance[1] <= (entry - stop) * distance[2]
    BY <1>9, <1>11, <1>12, RoundDownMinus
  <2>2. target \in Int /\ reward[1] <= (target - entry) * reward[2]
    BY <1>10, <1>11, <1>12, RoundUpPlus
  <2> HIDE DEF stop, target
  <2>3. entry - stop > 0 /\ entry - stop >= PolicyFloor
    BY <1>9, <1>11, <2>1, DistanceIs
  <2>4. target - entry > 0
    BY <1>10, <1>11, <2>2, DistanceIs
  <2>5. QED BY <1>4, <1>7, <1>11, <1>12, <2>1, <2>2, <2>3, <2>4 DEF AcceptedIntent, Abs
<1>13. CASE direction = "SELL"
  <2>1. stop \in Int /\ distance[1] <= (stop - entry) * distance[2]
    BY <1>9, <1>11, <1>13, RoundUpPlus
  <2>2. target \in Int /\ reward[1] <= (entry - target) * reward[2]
    BY <1>10, <1>11, <1>13, RoundDownMinus
  <2> HIDE DEF stop, target
  <2>3. stop - entry > 0 /\ stop - entry >= PolicyFloor
    BY <1>9, <1>11, <2>1, DistanceIs
  <2>4. entry - target > 0
    BY <1>10, <1>11, <2>2, DistanceIs
  <2>5. QED BY <1>4, <1>7, <1>11, <1>13, <2>1, <2>2, <2>3, <2>4 DEF AcceptedIntent, Abs
<1>14. QED BY <1>12, <1>13

\* Whatever series led up to it, an entry of either strategy has its stop on the
\* losing side, its target on the other and a distance that the risk engine
\* accepts: the TradeIntent contract never raises out of a decision window.
THEOREM EntriesAreProtected == StrategiesSpec => []IntentsAreProtected
<1>1. ASSUME Asked PROVE IntentsAreProtected
  <2>1. Protected(ict) /\ Protected(baseline)
    BY <1>1, IctIsProtected, BaselineIsProtected DEF Asked
  <2>2. QED BY <2>1 DEF IntentsAreProtected, Protected
<1>2. QED BY <1>1, AskedHolds, PTL

------------------------------------------------------------------------------
(* LiveReader                                                              *)

USE ReaderAssumption

------------------------------------------------------------------------------
(* Types                                                                   *)

ServerRecords ==
    [account : {"demo", "other"}, margin : {"hedging", "netting"}, symbol : BOOLEAN,
     open : BOOLEAN, version : {"v1", "v2"}, tickValue : {1, 2}, offset : {0, HalfHour}]

FeedTicks == [at : Nat, time : Int]

OptionalTimes == Int \cup {None}

\* A process that runs keeps all its fields; those that the proofs read have types.
Running(r) ==
    /\ r = [at |-> r.at, status |-> r.status, gateway |-> r.gateway, offset |-> r.offset,
            cursor |-> r.cursor, from |-> r.from, now |-> r.now, lastBar |-> r.lastBar,
            margin |-> r.margin, reconnectAt |-> r.reconnectAt, capturedAt |-> r.capturedAt,
            heartbeat |-> r.heartbeat, next |-> r.next]
    /\ r.offset \in OptionalTimes /\ r.cursor \in OptionalTimes /\ r.from \in OptionalTimes
    /\ r.cursor = None <=> r.from = None

\* The broker sends its ticks in order of time.
FeedIsOrdered ==
    /\ feed \in Seq(FeedTicks)
    /\ \A i \in DOMAIN feed : feed[i].at <= clock
    /\ \A i, j \in DOMAIN feed : i <= j => feed[i].at <= feed[j].at

ReaderTypeOK ==
    /\ clock \in Nat
    /\ FeedIsOrdered
    /\ server \in ServerRecords
    /\ reader = Off \/ Running(reader)
    /\ mistimed \in BOOLEAN

\* A conversion to UTC is by a whole number, once there is a tick or an offset.
LEMMA OffsetIsANumber ==
    ASSUME ReaderTypeOK, Running(reader), feed # <<>>
    PROVE  ClockOffset \in Int
<1>1. Len(feed) \in DOMAIN feed /\ feed[Len(feed)] \in FeedTicks
  BY DEF ReaderTypeOK, FeedIsOrdered
<1>2. QED BY <1>1 DEF ClockOffset, RawOffset, Running, OptionalTimes, ReaderTypeOK, FeedTicks

\* A market that receives one more tick, now, is in order.
LEMMA ArrivalIsOrdered ==
    ASSUME ReaderTypeOK, TickArrives
    PROVE  /\ FeedIsOrdered'
           /\ DOMAIN feed' = 1..(Len(feed) + 1) /\ DOMAIN feed = 1..Len(feed) /\ Len(feed) \in Nat
           /\ \A i \in DOMAIN feed : feed'[i] = feed[i]
           /\ feed'[Len(feed) + 1] = [at |-> clock, time |-> clock + server.offset]
<1> DEFINE t == [at |-> clock, time |-> clock + server.offset]
<1>1. t \in FeedTicks /\ t.at = clock
  BY DEF ReaderTypeOK, ServerRecords, FeedTicks
<1>2. feed' = Append(feed, t) /\ feed \in Seq(FeedTicks) /\ clock' = clock
  BY DEF TickArrives, ReaderTypeOK, FeedIsOrdered
<1> HIDE DEF t
<1>3. /\ feed' \in Seq(FeedTicks) /\ Len(feed) \in Nat
      /\ DOMAIN feed' = 1..(Len(feed) + 1) /\ DOMAIN feed = 1..Len(feed)
      /\ \A i \in DOMAIN feed : feed'[i] = feed[i]
      /\ feed'[Len(feed) + 1] = t
  BY <1>1, <1>2
<1>4. \A i \in DOMAIN feed' : i \in DOMAIN feed \/ i = Len(feed) + 1
  BY <1>3
<1>5. \A i \in DOMAIN feed : feed[i].at \in Nat
  <2>1. \A i \in DOMAIN feed : feed[i] \in FeedTicks
    BY <1>2
  <2>2. QED BY <2>1 DEF FeedTicks
<1>6. \A i \in DOMAIN feed' : feed'[i].at <= clock'
  BY <1>1, <1>2, <1>3, <1>4 DEF ReaderTypeOK, FeedIsOrdered
<1>7. \A i, j \in DOMAIN feed' : i <= j => feed'[i].at <= feed'[j].at
  <2> SUFFICES ASSUME NEW i \in DOMAIN feed', NEW j \in DOMAIN feed', i <= j
      PROVE  feed'[i].at <= feed'[j].at
    OBVIOUS
  <2>1. CASE j \in DOMAIN feed
    BY <1>3, <2>1 DEF ReaderTypeOK, FeedIsOrdered
  <2>2. CASE j = Len(feed) + 1
    BY <1>1, <1>2, <1>3, <1>6, <2>2
  <2>3. QED BY <1>4, <2>1, <2>2
<1>8. QED BY <1>3, <1>6, <1>7 DEF FeedIsOrdered, t

\* The newest of some ticks.
LEMMA NewestIs ==
    ASSUME ReaderTypeOK, Running(reader), NEW I \in SUBSET DOMAIN feed, I # {},
           NEW newest, newest = Max({ToUtc(feed[i].time) : i \in I})
    PROVE  /\ newest \in Int
           /\ \E i \in I : newest = ToUtc(feed[i].time)
           /\ \A i \in I : ToUtc(feed[i].time) <= newest
<1> DEFINE S == {ToUtc(feed[i].time) : i \in I}
           f == [i \in I |-> ToUtc(feed[i].time)]
<1>1. feed # <<>> /\ DOMAIN feed = 1..Len(feed) /\ Len(feed) \in Nat /\ \A i \in DOMAIN feed : feed[i].time \in Int
  <2>1. feed \in Seq(FeedTicks)
    BY DEF ReaderTypeOK, FeedIsOrdered
  <2>2. \A i \in DOMAIN feed : feed[i] \in FeedTicks
    BY <2>1
  <2>3. QED BY <2>1, <2>2 DEF FeedTicks
<1>2. \A i \in I : ToUtc(feed[i].time) \in Int
  BY <1>1, OffsetIsANumber DEF ToUtc
<1>3. IsFiniteSet(I)
  <2>1. IsFiniteSet(1..Len(feed))
    BY <1>1, FS_Interval
  <2>2. QED BY <1>1, <2>1, FS_Subset
<1>4. f \in Surjection(I, S)
  BY DEF Surjection
<1> HIDE DEF f
<1>5. IsFiniteSet(S)
  BY <1>3, <1>4, FS_Surjection
<1>6. S \in SUBSET Int /\ S # {}
  BY <1>2
<1>7. newest \in S /\ \A y \in S : newest >= y
  BY <1>5, <1>6, MaxIs
<1>8. QED BY <1>2, <1>7

------------------------------------------------------------------------------
(* What moves what                                                         *)

ProcessStep == ReaderStep \/ Start \/ ConnectFails \/ Acknowledge \/ Stop \/ Crash

MarketStep ==
    \/ Tick \/ TickArrives \/ LinkDrops
    \/ \E o \in RawOpens : LateTick(o)
    \/ \E s \in ServerStates : TerminalChanges(s)

\* The process does not move the market ...
LEMMA ProcessIsASpectator ==
    ASSUME ProcessStep
    PROVE  UNCHANGED <<clock, feed, late, revised, server>>
BY DEF ProcessStep, ReaderStep, Start, ConnectFails, Acknowledge, Stop, Crash, Refuse, Reconnect,
   CaptureAccount, CaptureBook, CaptureRaises, ReadFails, OffsetUnavailable, ReadTicks, ReadBars,
   DataConflict, EndPoll, market

\* ... and the market does not move the process, its tables or its file.
LEMMA MarketIsElsewhere ==
    ASSUME MarketStep
    PROVE  UNCHANGED <<reader, ticks, bars, file, polled, mistimed>>
BY DEF MarketStep, Tick, TickArrives, LinkDrops, LateTick, TerminalChanges, tables, history

\* A setting of the terminal that is changed has one of its values.
LEMMA ServersAreServers ==
    ASSUME server \in ServerRecords, NEW s \in ServerStates
    PROVE  s \in ServerRecords
<1>1. PICK f \in Changeable : \E v \in Values[f] : s = [server EXCEPT ![f] = v]
  BY DEF ServerStates
<1>2. CASE f = "account"
  BY <1>1, <1>2 DEF Values, ServerRecords
<1>3. CASE f = "margin"
  BY <1>1, <1>3 DEF Values, ServerRecords
<1>4. CASE f = "symbol"
  BY <1>1, <1>4 DEF Values, ServerRecords
<1>5. CASE f = "open"
  BY <1>1, <1>5 DEF Values, ServerRecords
<1>6. CASE f = "version"
  BY <1>1, <1>6 DEF Values, ServerRecords
<1>7. CASE f = "tickValue"
  BY <1>1, <1>7 DEF Values, ServerRecords
<1>8. CASE f = "offset"
  BY <1>1, <1>8 DEF Values, ServerRecords
<1>9. QED BY <1>1, <1>2, <1>3, <1>4, <1>5, <1>6, <1>7, <1>8

\* Time goes on, and the market stays in order.
LEMMA MarketTypes ==
    ASSUME ReaderTypeOK, MarketStep
    PROVE  /\ clock' \in Nat /\ clock' >= clock /\ FeedIsOrdered' /\ server' \in ServerRecords
           /\ feed' = feed \/ TickArrives
<1>1. CASE Tick
  <2>1. clock' = clock + 1 /\ feed' = feed /\ server' = server
    BY <1>1 DEF Tick
  <2>2. \A i \in DOMAIN feed : feed[i].at \in Nat
    <3>1. \A i \in DOMAIN feed : feed[i] \in FeedTicks
      BY DEF ReaderTypeOK, FeedIsOrdered
    <3>2. QED BY <3>1 DEF FeedTicks
  <2>3. QED BY <2>1, <2>2 DEF ReaderTypeOK, FeedIsOrdered
<1>2. CASE TickArrives
  <2>1. UNCHANGED <<clock, server>>
    BY <1>2 DEF TickArrives
  <2>2. QED BY <1>2, <2>1, ArrivalIsOrdered DEF ReaderTypeOK
<1>3. CASE LinkDrops \/ \E o \in RawOpens : LateTick(o)
  <2>1. UNCHANGED <<clock, feed, server>>
    BY <1>3 DEF LinkDrops, LateTick, market
  <2>2. QED BY <2>1 DEF ReaderTypeOK, FeedIsOrdered
<1>4. ASSUME NEW s \in ServerStates, TerminalChanges(s)
      PROVE  /\ clock' \in Nat /\ clock' >= clock /\ FeedIsOrdered' /\ server' \in ServerRecords
             /\ feed' = feed
  <2>1. UNCHANGED <<clock, feed>> /\ server' = s
    BY <1>4 DEF TerminalChanges, market
  <2>2. QED BY <2>1, ServersAreServers DEF ReaderTypeOK, FeedIsOrdered
<1>5. QED BY <1>1, <1>2, <1>3, <1>4 DEF MarketStep

------------------------------------------------------------------------------
(* How the process moves                                                   *)

\* It has stopped, has just begun or has kept its cursor.
KeepsItsCursor ==
    \/ reader' = Off \/ reader' = NewReader
    \/ /\ Running(reader) /\ Running(reader')
       /\ reader'.cursor = reader.cursor /\ reader'.from = reader.from
       /\ reader'.heartbeat = reader.heartbeat

\* A process that is somewhere runs.
LEMMA SomewhereIsRunning ==
    ASSUME ReaderTypeOK, reader.at # "off"
    PROVE  Running(reader)
BY DEF ReaderTypeOK, Off

\* The calls of a poll that read and write no tick.
LEMMA CallsKeepTheCursor ==
    ASSUME ReaderTypeOK, ProcessStep, ~ReadTicks, ~EndPoll
    PROVE  KeepsItsCursor
<1>1. CASE Start \/ Stop \/ Crash \/ CaptureRaises
  BY <1>1 DEF Start, Stop, Crash, CaptureRaises, KeepsItsCursor
<1>2. CASE ConnectFails \/ (\E m \in {server.margin, None} : Refuse(m)) \/ Acknowledge
  <2>1. Running(reader)
    BY <1>2, SomewhereIsRunning DEF ConnectFails, Refuse, Acknowledge, Connecting, At
  <2>2. CASE ConnectFails
    BY <2>1, <2>2 DEF ConnectFails, KeepsItsCursor, Running
  <2>3. ASSUME NEW m, Refuse(m) PROVE KeepsItsCursor
    BY <2>1, <2>3 DEF Refuse, KeepsItsCursor, Running
  <2>4. CASE Acknowledge
    BY <2>1, <2>4 DEF Acknowledge, KeepsItsCursor, Running, OptionalTimes
  <2>5. QED BY <1>2, <2>2, <2>3, <2>4
<1>3. ASSUME NEW m, NEW u, Reconnect(m, u) PROVE KeepsItsCursor
  <2>1. Running(reader)
    BY <1>3, SomewhereIsRunning DEF Reconnect, Connecting, At
  <2>2. QED BY <1>3, <2>1 DEF Reconnect, KeepsItsCursor, Running, OptionalTimes
<1>4. CASE CaptureAccount
  <2>1. Running(reader)
    BY <1>4, SomewhereIsRunning DEF CaptureAccount, At
  <2>2. QED BY <1>4, <2>1 DEF CaptureAccount, Continue, KeepsItsCursor, Running, OptionalTimes
<1>5. CASE CaptureBook
  <2>1. Running(reader)
    BY <1>5, SomewhereIsRunning DEF CaptureBook, At
  <2> DEFINE offset == IF linked /\ server.open THEN ClockOffset ELSE reader.offset
  <2>2. offset \in OptionalTimes
    <3>1. CASE reader.offset # None
      BY <2>1, <3>1 DEF ClockOffset, Running
    <3>2. CASE reader.offset = None /\ linked /\ server.open
      BY <1>5, <2>1, <3>2, OffsetIsANumber DEF CaptureBook, ClockOffsetKnown, Plausible, OptionalTimes
    <3>3. CASE reader.offset = None /\ ~(linked /\ server.open)
      BY <3>3 DEF OptionalTimes
    <3>4. QED BY <3>1, <3>2, <3>3
  <2>3. reader' = Continue([reader EXCEPT !.capturedAt = clock, !.offset = offset])
    BY <1>5, <2>1 DEF CaptureBook, Running
  <2> HIDE DEF offset
  <2>4. QED BY <2>1, <2>2, <2>3 DEF Continue, KeepsItsCursor, Running, OptionalTimes
<1>6. CASE ReadFails
  <2>1. Running(reader)
    BY <1>6, SomewhereIsRunning DEF ReadFails, Reading, At
  <2>2. QED BY <1>6, <2>1 DEF ReadFails, Disconnected, KeepsItsCursor, Running, OptionalTimes
<1>7. CASE OffsetUnavailable
  <2>1. Running(reader)
    BY <1>7, SomewhereIsRunning DEF OffsetUnavailable, Reading, At
  <2>2. QED BY <1>7, <2>1 DEF OffsetUnavailable, KeepsItsCursor, Running, OptionalTimes
<1>8. CASE ReadBars
  <2>1. Running(reader)
    BY <1>8, SomewhereIsRunning DEF ReadBars, At
  <2>2. PICK last, status, at, next :
          reader' = [[reader EXCEPT !.lastBar = last]
                        EXCEPT !.status = status, !.at = at, !.next = next, !.now = None]
    BY <1>8 DEF ReadBars
  <2>3. QED BY <2>1, <2>2 DEF KeepsItsCursor, Running, OptionalTimes
<1>9. CASE DataConflict
  <2>1. Running(reader)
    BY <1>9, SomewhereIsRunning DEF DataConflict, At
  <2>2. QED BY <1>9, <2>1 DEF DataConflict, KeepsItsCursor, Running, OptionalTimes
<1>10. QED BY <1>1, <1>2, <1>3, <1>4, <1>5, <1>6, <1>7, <1>8, <1>9 DEF ProcessStep, ReaderStep

\* The end of a poll stamps the heartbeat.
LEMMA EndPollStamps ==
    ASSUME ReaderTypeOK, EndPoll
    PROVE  /\ Running(reader) /\ Running(reader')
           /\ reader'.cursor = reader.cursor /\ reader'.from = reader.from
           /\ reader'.heartbeat = clock
           /\ polled' = clock /\ (file' = file \/ file' = HealthFile(reader'))
<1>1. Running(reader)
  BY SomewhereIsRunning DEF EndPoll, At
<1> DEFINE next == IF reader.status = "UNHEALTHY" THEN "halted" ELSE "sleep"
<1>2. reader' = [reader EXCEPT !.heartbeat = clock, !.at = next]
  BY DEF EndPoll
<1> HIDE DEF next
<1>3. QED BY <1>1, <1>2 DEF EndPoll, Running, OptionalTimes

\* A read of ticks moves the cursor to the newest of them, and starts from where the
\* first one did.
LEMMA ReadTicksMoves ==
    ASSUME ReaderTypeOK, ReadTicks
    PROVE  /\ Running(reader) /\ Running(reader')
           /\ reader'.heartbeat = reader.heartbeat
           /\ Ticks = {} => reader'.cursor = reader.cursor /\ reader'.from = reader.from
           /\ Ticks # {} => \E newest \in Int :
                /\ newest = Max({ToUtc(feed[i].time) : i \in Ticks})
                /\ \A i \in Ticks : ToUtc(feed[i].time) <= newest
                /\ \E i \in Ticks : ToUtc(feed[i].time) = newest
                /\ reader'.cursor = IF reader.cursor = None THEN newest
                                    ELSE Max({reader.cursor, newest})
                /\ reader'.from = IF reader.cursor = None THEN Since ELSE reader.from
<1>1. Running(reader)
  BY SomewhereIsRunning DEF ReadTicks, Reading, At
<1>2. ClockOffset \in Int
  <2>1. CASE reader.offset # None
    BY <1>1, <2>1 DEF ClockOffset, Running, OptionalTimes
  <2>2. CASE reader.offset = None
    BY <1>1, <2>2, OffsetIsANumber DEF ReadTicks, ClockOffsetKnown, Plausible
  <2>3. QED BY <2>1, <2>2
<1>0. PICK moved : moved = [reader EXCEPT !.at = "bars", !.now = clock, !.offset = ClockOffset]
  OBVIOUS
<1>3. /\ Running(moved) /\ moved.cursor = reader.cursor /\ moved.from = reader.from
      /\ moved.heartbeat = reader.heartbeat
  BY <1>0, <1>1, <1>2 DEF Running, OptionalTimes
<1>4. CASE Ticks = {}
  <2>1. reader' = moved
    BY <1>0, <1>4 DEF ReadTicks
  <2>2. QED BY <1>1, <1>3, <1>4, <2>1
<1>5. CASE Ticks # {}
  <2> DEFINE newest == Max({ToUtc(feed[i].time) : i \in Ticks})
             cursor == IF reader.cursor = None THEN newest ELSE Max({reader.cursor, newest})
             from == IF reader.cursor = None THEN Since ELSE reader.from
  <2>1. Ticks \subseteq DOMAIN feed
    BY DEF Ticks
  <2>2. /\ newest \in Int
        /\ \E i \in Ticks : newest = ToUtc(feed[i].time)
        /\ \A i \in Ticks : ToUtc(feed[i].time) <= newest
    BY <1>1, <1>5, <2>1, NewestIs
  <2>3. reader' = [moved EXCEPT !.cursor = cursor, !.from = from]
    BY <1>0, <1>5 DEF ReadTicks
  <2> HIDE DEF newest
  <2>4. cursor \in Int
    <3>1. CASE reader.cursor # None
      <4>1. reader.cursor \in Int
        BY <1>1, <3>1 DEF Running, OptionalTimes
      <4>2. {reader.cursor, newest} \in SUBSET Int /\ IsFiniteSet({reader.cursor, newest})
        <5>1. IsFiniteSet({reader.cursor} \cup {newest})
          BY FS_Singleton, FS_AddElement
        <5>2. {reader.cursor} \cup {newest} = {reader.cursor, newest}
          OBVIOUS
        <5>3. QED BY <2>2, <4>1, <5>1, <5>2
      <4>3. Max({reader.cursor, newest}) \in {reader.cursor, newest}
        BY <4>2, MaxIs
      <4>4. QED BY <3>1, <4>2, <4>3
    <3>2. QED BY <2>2, <3>1
  <2>5. from \in Int
    BY <1>1 DEF Since, Running, OptionalTimes, ReaderTypeOK
  <2>6. reader'.cursor = cursor /\ reader'.from = from /\ reader'.heartbeat = reader.heartbeat
    BY <1>3, <2>3 DEF Running
  <2>7. Running(reader')
    BY <1>3, <2>3, <2>4, <2>5 DEF Running, OptionalTimes
  <2>8. QED BY <1>1, <1>5, <2>2, <2>6, <2>7 DEF newest
<1>6. QED BY <1>4, <1>5

\* Types, at every step.
LEMMA NextTypes ==
    ASSUME ReaderTypeOK, [Next]_vars
    PROVE  ReaderTypeOK' /\ (mistimed => mistimed') /\ clock' >= clock
<1>1. CASE UNCHANGED vars
  BY <1>1 DEF vars, market, history, ReaderTypeOK, FeedIsOrdered, Running, Off
<1>2. CASE MarketStep
  <2>1. UNCHANGED <<reader, mistimed>>
    BY <1>2, MarketIsElsewhere
  <2>2. QED BY <1>2, <2>1, MarketTypes DEF ReaderTypeOK
<1>3. CASE ProcessStep
  <2>1. UNCHANGED <<clock, feed, server>>
    BY <1>3, ProcessIsASpectator
  <2>2. reader' = Off \/ Running(reader')
    <3>1. Running(NewReader)
      BY DEF NewReader, Running, OptionalTimes
    <3>2. QED BY <1>3, <3>1, CallsKeepTheCursor, EndPollStamps, ReadTicksMoves DEF KeepsItsCursor
  <2>3. mistimed' \in BOOLEAN /\ (mistimed => mistimed')
    BY <1>3 DEF ReaderTypeOK, ProcessStep, ReaderStep, Start, ConnectFails, Acknowledge, Stop, Crash, Refuse,
       Reconnect, CaptureAccount, CaptureBook, CaptureRaises, ReadFails, OffsetUnavailable, ReadTicks,
       ReadBars, DataConflict, EndPoll, history
  <2>4. QED BY <2>1, <2>2, <2>3 DEF ReaderTypeOK, FeedIsOrdered, Off
<1>4. QED BY <1>1, <1>2, <1>3 DEF Next, MarketStep, ProcessStep

------------------------------------------------------------------------------
(* The health file                                                         *)

\* A process that runs has more fields than one that is off.
LEMMA RunningIsNotOff ==
    ASSUME NEW r, Running(r)
    PROVE  r # Off
<1>1. "status" \in DOMAIN r
  BY DEF Running
<1>2. "status" \notin DOMAIN Off
  BY DEF Off
<1>3. QED BY <1>1, <1>2

\* A heartbeat is the end of some poll, so it is no later than that of the last one.
Beat(heartbeat) == heartbeat \in Nat /\ polled \in Nat /\ heartbeat <= polled

HeartbeatInv ==
    /\ polled # None => polled \in Nat /\ polled <= clock
    /\ file # None => Beat(file.heartbeat)
    /\ reader # Off /\ reader.heartbeat # None => Beat(reader.heartbeat)

\* Before the first poll there is neither file nor heartbeat.
LEMMA InitHeartbeat == Init => HeartbeatInv
BY DEF Init, HeartbeatInv

\* Only the end of a poll makes a heartbeat; a stop writes the last one once more.
LEMMA NextHeartbeat ==
    ASSUME ReaderTypeOK, HeartbeatInv, [Next]_vars
    PROVE  HeartbeatInv'
<1>1. clock \in Nat /\ clock' \in Nat /\ clock' >= clock
  BY NextTypes DEF ReaderTypeOK
<1>2. CASE UNCHANGED vars
  BY <1>2 DEF vars, market, history, HeartbeatInv, Beat
<1>3. CASE MarketStep
  <2>1. UNCHANGED <<reader, file, polled>>
    BY <1>3, MarketIsElsewhere
  <2>2. QED BY <1>1, <2>1 DEF HeartbeatInv, Beat
<1>4. CASE ProcessStep /\ ~EndPoll /\ ~Stop
  <2>1. UNCHANGED <<clock, file, polled>>
    BY <1>4, ProcessIsASpectator
    DEF ProcessStep, ReaderStep, Start, ConnectFails, Acknowledge, Crash, Refuse, Reconnect, CaptureAccount,
        CaptureBook, CaptureRaises, ReadFails, OffsetUnavailable, ReadTicks, ReadBars, DataConflict, history
  <2>2. \/ reader' = Off \/ reader' = NewReader
        \/ reader # Off /\ reader'.heartbeat = reader.heartbeat
    BY <1>4, CallsKeepTheCursor, ReadTicksMoves, RunningIsNotOff DEF KeepsItsCursor
  <2>3. NewReader.heartbeat = None
    BY DEF NewReader
  <2>4. QED BY <2>1, <2>2, <2>3 DEF HeartbeatInv, Beat
<1>5. CASE EndPoll
  <2>1. clock' = clock
    BY <1>5, ProcessIsASpectator DEF ProcessStep, ReaderStep
  <2>2. reader'.heartbeat = clock /\ polled' = clock
    BY <1>5, EndPollStamps
  <2>3. file' # None => file'.heartbeat \in Nat /\ file'.heartbeat <= clock
    <3>1. CASE file' = HealthFile(reader')
      BY <1>1, <2>2, <3>1 DEF HealthFile
    <3>2. CASE file' = file
      BY <1>1, <3>2 DEF HeartbeatInv, Beat
    <3>3. QED BY <1>5, <3>1, <3>2, EndPollStamps
  <2>4. QED BY <1>1, <2>1, <2>2, <2>3 DEF HeartbeatInv, Beat
<1>6. CASE Stop
  <2>1. /\ UNCHANGED <<clock, polled>> /\ reader' = Off
        /\ reader.at # "off" /\ reader.heartbeat # None /\ file' = HealthFile(reader)
    BY <1>6 DEF Stop, market, history
  <2>2. reader # Off
    BY <2>1 DEF Off
  <2>3. QED BY <2>1, <2>2 DEF HeartbeatInv, HealthFile, Beat
<1>7. QED BY <1>2, <1>3, <1>4, <1>5, <1>6 DEF Next, MarketStep, ProcessStep

\* Types, to begin with.
LEMMA InitTypes == Init => ReaderTypeOK
<1> SUFFICES ASSUME Init PROVE ReaderTypeOK
  OBVIOUS
<1>1. feed = <<>>
  BY DEF Init
<1>2. FeedIsOrdered
  BY <1>1 DEF FeedIsOrdered
<1>3. server \in ServerRecords
  BY DEF Init, ServerRecords
<1>4. QED BY <1>2, <1>3 DEF Init, ReaderTypeOK

\* The dashboard says CONNECTED only while polls end (heartbeat_max_age).
THEOREM DeadReadersAreDisbelieved == Spec => []ShownConnectedIsAlive
<1>1. Init => ReaderTypeOK /\ HeartbeatInv
  BY InitTypes, InitHeartbeat
<1>2. ReaderTypeOK /\ HeartbeatInv /\ [Next]_vars => (ReaderTypeOK /\ HeartbeatInv)'
  BY NextTypes, NextHeartbeat
<1>3. ReaderTypeOK /\ HeartbeatInv => ShownConnectedIsAlive
  <2> SUFFICES ASSUME ReaderTypeOK, HeartbeatInv, Connectivity = "CONNECTED"
      PROVE  clock - polled <= HeartbeatMaxAge
    BY DEF ShownConnectedIsAlive
  <2>1. file # None /\ ~HeartbeatExpired
    BY DEF Connectivity
  <2>2. HeartbeatMaxAge \in Int
    BY DEF HeartbeatMaxAge
  <2>3. QED BY <2>1, <2>2 DEF HeartbeatInv, Beat, HeartbeatExpired, ReaderTypeOK
<1>4. QED BY <1>1, <1>2, <1>3, PTL DEF Spec

------------------------------------------------------------------------------
(* The ticks                                                               *)

\* A cursor is the time of a tick read, so it is not in the future, and what lies
\* between it and the first read is in the table.
Contiguous(from, cursor, table) ==
    /\ cursor <= clock
    /\ \A i \in DOMAIN feed : feed[i].at \in from..(cursor - 1) => \E t \in table : t.i = i

CursorInv ==
    mistimed \/ reader = Off \/ reader.from = None \/ Contiguous(reader.from, reader.cursor, ticks)

\* A batch has every tick from its start up to, and without, the time of its newest:
\* one that the batch left out comes after all that it has.
LEMMA BatchesHaveNoHoles ==
    ASSUME ReaderTypeOK, Running(reader), ~Mistimed,
           NEW k \in Ticks, NEW i \in DOMAIN feed,
           feed[i].at >= Since, feed[i].at < feed[k].at
    PROVE  i \in Ticks
<1> DEFINE from == {j \in DOMAIN feed : feed[j].time >= Since + ClockOffset}
           before(n) == {j \in from : j < n}
<1>1. DOMAIN feed = 1..Len(feed) /\ Len(feed) \in Nat /\ feed # <<>>
  <2>1. feed \in Seq(FeedTicks)
    BY DEF ReaderTypeOK, FeedIsOrdered
  <2>2. QED BY <2>1
<1>2. k \in from /\ Cardinality(before(k)) < TickBatch
  BY DEF Ticks
<1>3. i \in from
  <2>1. feed[i] \in FeedTicks
    BY DEF ReaderTypeOK, FeedIsOrdered
  <2>2. feed[i].time - ClockOffset = feed[i].at
    BY DEF Mistimed, ToUtc
  <2>3. ClockOffset \in Int /\ Since \in Int
    BY <1>1, OffsetIsANumber DEF Since, Running, OptionalTimes, ReaderTypeOK
  <2>4. feed[i].time \in Int /\ feed[i].at \in Nat
    BY <2>1 DEF FeedTicks
  <2>5. feed[i].time >= Since + ClockOffset
    BY <2>2, <2>3, <2>4
  <2>6. QED BY <2>5
<1>4. i < k
  <2>1. feed[i].at \in Nat /\ feed[k].at \in Nat
    <3>1. feed[i] \in FeedTicks /\ feed[k] \in FeedTicks
      BY <1>2 DEF ReaderTypeOK, FeedIsOrdered
    <3>2. QED BY <3>1 DEF FeedTicks
  <2>2. k <= i => feed[k].at <= feed[i].at
    BY <1>2 DEF ReaderTypeOK, FeedIsOrdered
  <2>3. QED BY <1>1, <1>2, <2>1, <2>2
<1>5. before(i) \subseteq before(k)
  BY <1>1, <1>2, <1>4
<1>6. IsFiniteSet(before(k))
  <2>1. IsFiniteSet(1..Len(feed))
    BY <1>1, FS_Interval
  <2>2. before(k) \subseteq 1..Len(feed)
    BY <1>1
  <2> HIDE DEF before
  <2>3. QED BY <2>1, <2>2, FS_Subset
<1>7. Cardinality(before(i)) <= Cardinality(before(k)) /\ Cardinality(before(i)) \in Nat /\ Cardinality(before(k)) \in Nat
  <2> HIDE DEF before
  <2>1. QED BY <1>5, <1>6, FS_Subset, FS_CardinalityType
<1>8. Cardinality(before(i)) < TickBatch
  <2> HIDE DEF before
  <2>1. QED BY <1>2, <1>7
<1>9. QED BY <1>3, <1>8 DEF Ticks

\* A read of ticks keeps the table contiguous up to the cursor.
LEMMA ReadTicksIsContiguous ==
    ASSUME ReaderTypeOK, CursorInv, ReadTicks, ~mistimed'
    PROVE  reader'.from = None \/ Contiguous(reader'.from, reader'.cursor, ticks')
<1>1. ~mistimed /\ ~Mistimed /\ ticks' = ticks \cup {TickFromRaw(i) : i \in Ticks}
  BY DEF ReadTicks, RecordTicks
<1>2. Running(reader)
  BY ReadTicksMoves
<1>3. reader # Off
  BY <1>2, RunningIsNotOff
<1>4. CASE Ticks = {}
  <2>1. ticks' = ticks /\ reader'.cursor = reader.cursor /\ reader'.from = reader.from
    BY <1>1, <1>4, ReadTicksMoves
  <2>2. QED BY <1>1, <1>3, <2>1 DEF CursorInv
<1>5. CASE Ticks # {}
  <2>1. PICK newest \in Int :
          /\ \E k \in Ticks : ToUtc(feed[k].time) = newest
          /\ reader'.cursor = IF reader.cursor = None THEN newest ELSE Max({reader.cursor, newest})
          /\ reader'.from = IF reader.cursor = None THEN Since ELSE reader.from
    BY <1>5, ReadTicksMoves
  <2>2. PICK k \in Ticks : ToUtc(feed[k].time) = newest
    BY <2>1
  <2>3. k \in DOMAIN feed /\ feed[k].at = newest /\ newest <= clock
    BY <1>1, <2>2 DEF Ticks, Mistimed, ReaderTypeOK, FeedIsOrdered
  <2>4. \A i \in DOMAIN feed : feed[i].at \in Nat
    <3>1. \A i \in DOMAIN feed : feed[i] \in FeedTicks
      BY DEF ReaderTypeOK, FeedIsOrdered
    <3>2. QED BY <3>1 DEF FeedTicks
  <2>5. ASSUME NEW i \in DOMAIN feed, feed[i].at >= Since, feed[i].at < newest
        PROVE  \E t \in ticks' : t.i = i
    <3>1. i \in Ticks
      BY <1>1, <1>2, <2>3, <2>5, BatchesHaveNoHoles
    <3>2. TickFromRaw(i) \in ticks' /\ TickFromRaw(i).i = i
      BY <1>1, <3>1 DEF TickFromRaw
    <3>3. QED BY <3>2
  <2>6. CASE reader.cursor = None
    <3>1. reader'.cursor = newest /\ reader'.from = Since
      BY <2>1, <2>6
    <3>2. Since \in Int /\ clock \in Nat
      BY <2>6 DEF Since, ReaderTypeOK
    <3>3. ASSUME NEW i \in DOMAIN feed, feed[i].at \in Since..(newest - 1)
          PROVE  feed[i].at >= Since /\ feed[i].at < newest
      BY <2>4, <3>2, <3>3
    <3>4. QED BY <2>3, <2>5, <3>1, <3>3 DEF Contiguous
  <2>7. CASE reader.cursor # None
    <3>1. reader.cursor \in Int /\ reader.from \in Int /\ Since = reader.cursor /\ reader.from # None
      BY <1>2, <2>7 DEF Running, OptionalTimes, Since
    <3>2. Contiguous(reader.from, reader.cursor, ticks)
      BY <1>1, <1>3, <3>1 DEF CursorInv
    <3>3. /\ reader'.cursor \in {reader.cursor, newest} /\ reader'.cursor >= reader.cursor
          /\ reader'.cursor >= newest /\ reader'.from = reader.from
      BY <2>1, <2>7, <3>1, MaxOfTwo
    <3>4. reader'.cursor <= clock
      BY <2>3, <3>2, <3>3 DEF Contiguous
    <3>5. ASSUME NEW i \in DOMAIN feed, feed[i].at \in reader.from..(reader'.cursor - 1)
          PROVE  \E t \in ticks' : t.i = i
      <4>1. CASE feed[i].at < reader.cursor
        <5>1. feed[i].at \in reader.from..(reader.cursor - 1)
          BY <2>4, <3>1, <3>3, <3>5, <4>1
        <5>2. QED BY <1>1, <3>2, <5>1 DEF Contiguous
      <4>2. CASE feed[i].at >= reader.cursor
        <5>1. feed[i].at < newest
          BY <2>4, <3>1, <3>3, <3>5, <4>2
        <5>2. QED BY <2>5, <3>1, <4>2, <5>1
      <4>3. QED BY <2>4, <3>1, <4>1, <4>2
    <3>6. QED BY <3>3, <3>4, <3>5 DEF Contiguous
  <2>8. QED BY <2>6, <2>7
<1>6. QED BY <1>4, <1>5

\* A tick that arrives is not older than the cursor, and no other step than a read
\* moves the cursor.
LEMMA NextCursor ==
    ASSUME ReaderTypeOK, CursorInv, [Next]_vars
    PROVE  CursorInv'
<1>1. clock \in Nat /\ clock' \in Nat /\ clock' >= clock /\ (mistimed => mistimed')
  BY NextTypes DEF ReaderTypeOK
<1>2. reader # Off /\ reader.from # None => reader.cursor \in Int /\ reader.from \in Int
  BY DEF ReaderTypeOK, Running, OptionalTimes
<1>3. CASE UNCHANGED vars
  BY <1>3 DEF vars, market, tables, history, CursorInv, Contiguous
<1>4. CASE MarketStep
  <2>1. UNCHANGED <<reader, ticks, mistimed>>
    BY <1>4, MarketIsElsewhere
  <2> SUFFICES ASSUME ~mistimed, reader # Off, reader.from # None
      PROVE  Contiguous(reader.from, reader.cursor, ticks)'
    BY <2>1 DEF CursorInv
  <2>2. Contiguous(reader.from, reader.cursor, ticks)
    BY DEF CursorInv
  <2>3. CASE feed' = feed
    BY <1>1, <1>2, <2>1, <2>2, <2>3 DEF Contiguous
  <2>4. CASE TickArrives
    <3>1. /\ DOMAIN feed' = 1..(Len(feed) + 1) /\ DOMAIN feed = 1..Len(feed) /\ Len(feed) \in Nat
          /\ \A i \in DOMAIN feed : feed'[i] = feed[i]
          /\ feed'[Len(feed) + 1].at = clock
      BY <2>4, ArrivalIsOrdered
    <3>2. ASSUME NEW i \in DOMAIN feed', feed'[i].at \in reader.from..(reader.cursor - 1)
          PROVE  i \in DOMAIN feed /\ feed[i].at \in reader.from..(reader.cursor - 1)
      <4>1. i = Len(feed) + 1 => FALSE
        BY <1>1, <1>2, <2>2, <3>1, <3>2 DEF Contiguous
      <4>2. i \in DOMAIN feed
        BY <3>1, <4>1
      <4>3. QED BY <3>1, <3>2, <4>2
    <3>3. reader.cursor <= clock'
      BY <1>1, <1>2, <2>2 DEF Contiguous
    <3>4. QED BY <2>1, <2>2, <3>2, <3>3 DEF Contiguous
  <2>5. QED BY <1>4, <2>3, <2>4, MarketTypes
<1>5. CASE ProcessStep /\ ~ReadTicks
  <2>1. UNCHANGED <<clock, feed>>
    BY <1>5, ProcessIsASpectator
  <2>2. ticks' = ticks
    BY <1>5 DEF ProcessStep, ReaderStep, Start, ConnectFails, Acknowledge, Stop, Crash, Refuse, Reconnect,
       CaptureAccount, CaptureBook, CaptureRaises, ReadFails, OffsetUnavailable, ReadBars, DataConflict,
       EndPoll, tables
  <2>3. \/ reader' = Off \/ reader' = NewReader
        \/ reader # Off /\ reader'.cursor = reader.cursor /\ reader'.from = reader.from
    BY <1>5, CallsKeepTheCursor, EndPollStamps, RunningIsNotOff DEF KeepsItsCursor
  <2>4. NewReader.from = None
    BY DEF NewReader
  <2>5. QED BY <1>1, <2>1, <2>2, <2>3, <2>4 DEF CursorInv, Contiguous
<1>6. CASE ReadTicks
  <2>1. UNCHANGED <<clock, feed>>
    BY <1>6, ProcessIsASpectator DEF ProcessStep, ReaderStep
  <2>2. QED BY <1>6, <2>1, ReadTicksIsContiguous DEF CursorInv, Contiguous
<1>7. QED BY <1>3, <1>4, <1>5, <1>6 DEF Next, MarketStep, ProcessStep

\* Whatever batches a process reads and whenever a tick arrives, no tick between its
\* first read and its cursor is missing (LiveReader._read_and_persist).
THEOREM NoTickIsSkipped == Spec => []TicksAreContiguous
<1>1. Init => ReaderTypeOK /\ CursorInv
  <2>1. Init => CursorInv
    BY DEF Init, CursorInv
  <2>2. QED BY <2>1, InitTypes
<1>2. ReaderTypeOK /\ CursorInv /\ [Next]_vars => (ReaderTypeOK /\ CursorInv)'
  BY NextTypes, NextCursor
<1>3. CursorInv => TicksAreContiguous
  BY DEF CursorInv, Contiguous, TicksAreContiguous, At, Off
<1>4. QED BY <1>1, <1>2, <1>3, PTL DEF Spec

------------------------------------------------------------------------------
(* The bars                                                                *)

\* A moment lies in the interval of its bar.
LEMMA BucketsHoldTheirTicks ==
    ASSUME NEW t \in Int
    PROVE  /\ BucketStart(t) \in Int
           /\ BucketStart(t) <= t /\ t < BucketStart(t) + Interval
<1>1. t % Interval \in 0..(Interval - 1)
  OBVIOUS
<1>2. QED BY <1>1 DEF BucketStart

\* Half hours move a bucket by themselves.
LEMMA BucketsMove ==
    ASSUME NEW t \in Int, NEW c \in {0, HalfHour}, t - c \in Nat
    PROVE  BucketStart(t - c) = BucketStart(t) - c
<1>1. c \in Nat /\ t \in Nat /\ Interval \in Nat /\ Interval # 0 /\ HalfHour \in Nat
  OBVIOUS
<1>2. IsMultiple(c, Interval)
  <2>1. 0 = 0 * Interval
    BY <1>1
  <2>2. IsMultiple(0, Interval)
    BY <2>1 DEF IsMultiple
  <2>3. IsMultiple(HalfHour, Interval)
    <3>1. HalfHour \in Nat /\ Interval \in Nat /\ Interval > 0
      BY <1>1
    <3>2. HalfHour % Interval = 0
      BY TimeframeAssumption DEF TimeframeAssumption
    <3>3. HalfHour % Interval = 0 => IsMultiple(HalfHour, Interval)
      BY ONLY <3>1, MultipleIs
    <3>4. QED BY ONLY <3>2, <3>3
  <2>4. QED BY <2>2, <2>3
<1>3. StartOf(t - c, Interval) = StartOf(t, Interval) - c
  BY <1>1, <1>2, ShiftedStart
<1>4. QED BY <1>3 DEF BucketStart, StartOf

\* By the broker's clock the interval and the settle buffer of a bar are over.
Over(o) == o + Interval + Settle <= clock + server.offset

\* A tick was stamped by one of the clocks the broker may have.  Its bar is over,
\* unless the broker's clock has not been put back since.
StampedTicks ==
    \A i \in DOMAIN feed :
        LET o == BucketStart(feed[i].time)
            offset == feed[i].time - feed[i].at
        IN /\ offset \in {0, HalfHour}
           /\ o \in revised \/ Over(o) \/ offset <= server.offset

\* The bar that the tick i is in is over and stored as u with the broker's volume,
\* unless the broker revised it.
FinalAs(u, i) ==
    LET o == BucketStart(feed[i].time)
    IN /\ BucketStart(feed[i].at) = u
       /\ o \in revised \/ (Over(o) /\ bars[u].volume = RawVolume(o))

BarInv == StampedTicks /\ (mistimed \/ \A u \in DOMAIN bars : \E i \in DOMAIN feed : FinalAs(u, i))

\* Ticks and bars have times.
LEMMA RawOpensAreTimes ==
    ASSUME ReaderTypeOK
    PROVE  /\ \A i \in DOMAIN feed : feed[i].at \in Nat /\ feed[i].time \in Int
           /\ RawOpens \subseteq Int
           /\ clock \in Nat /\ server.offset \in {0, HalfHour}
<1>1. \A i \in DOMAIN feed : feed[i] \in FeedTicks
  BY DEF ReaderTypeOK, FeedIsOrdered
<1>2. \A i \in DOMAIN feed : feed[i].at \in Nat /\ feed[i].time \in Int
  BY <1>1 DEF FeedTicks
<1>3. clock \in Nat /\ server.offset \in {0, HalfHour}
  BY DEF ReaderTypeOK, ServerRecords
<1>4. QED BY <1>2, <1>3, BucketsHoldTheirTicks DEF RawOpens

\* A tick that arrives now belongs to no bar that is over.
LEMMA ArrivalsSpareStoredBars ==
    ASSUME ReaderTypeOK, BarInv, TickArrives
    PROVE  BarInv'
<1>1. /\ DOMAIN feed' = 1..(Len(feed) + 1) /\ DOMAIN feed = 1..Len(feed) /\ Len(feed) \in Nat
      /\ \A i \in DOMAIN feed : feed'[i] = feed[i]
      /\ feed'[Len(feed) + 1] = [at |-> clock, time |-> clock + server.offset]
  BY ArrivalIsOrdered
<1>2. UNCHANGED <<clock, late, revised, server, bars, mistimed>>
  BY DEF TickArrives, tables, history
<1>3. clock \in Int /\ server.offset \in {0, HalfHour}
  BY RawOpensAreTimes
<1>4. \A o : Over(o)' <=> Over(o)
  BY <1>2 DEF Over
<1>5. StampedTicks'
  <2> DEFINE Stamped(tick, o) ==
                /\ tick.time - tick.at \in {0, HalfHour}
                /\ o \in revised \/ Over(o) \/ tick.time - tick.at <= server.offset
  <2> SUFFICES ASSUME NEW i \in DOMAIN feed' PROVE Stamped(feed'[i], BucketStart(feed'[i].time))
    BY <1>2, <1>4 DEF StampedTicks, BucketStart
  <2>1. CASE i \in DOMAIN feed
    <3>1. Stamped(feed[i], BucketStart(feed[i].time))
      BY <2>1 DEF BarInv, StampedTicks
    <3>2. feed'[i] = feed[i]
      BY <1>1, <2>1
    <3> HIDE DEF Stamped
    <3>3. QED BY <3>1, <3>2
  <2>2. CASE i = Len(feed) + 1
    <3>1. feed'[i].time - feed'[i].at = server.offset
      BY <1>1, <1>3, <2>2
    <3>2. QED BY <1>3, <3>1
  <2>3. QED BY <1>1, <2>1, <2>2
<1>6. ASSUME NEW u \in DOMAIN bars, NEW i \in DOMAIN feed, FinalAs(u, i)
      PROVE  i \in DOMAIN feed' /\ FinalAs(u, i)'
  <2> DEFINE o == BucketStart(feed[i].time)
  <2>1. i \in DOMAIN feed' /\ feed'[i] = feed[i]
    BY <1>1
  <2>2. CASE o \in revised
    BY <1>2, <1>6, <2>1, <2>2 DEF FinalAs, BucketStart
  <2>3. CASE Over(o)
    <3>1. BucketStart(clock + server.offset) # o
      <4>1. clock + server.offset \in Int
        BY <1>3
      <4>2. /\ BucketStart(clock + server.offset) \in Int
            /\ clock + server.offset < BucketStart(clock + server.offset) + Interval
        BY <4>1, BucketsHoldTheirTicks
      <4> HIDE DEF o
      <4>3. QED BY <2>3, <4>1, <4>2 DEF Over
    <3>2. {j \in DOMAIN feed' : BucketStart(feed'[j].time) = o}
            = {j \in DOMAIN feed : BucketStart(feed[j].time) = o}
      <4> HIDE DEF o
      <4>1. \A j \in DOMAIN feed' : j \in DOMAIN feed \/ j = Len(feed) + 1
        BY <1>1
      <4>2. \A j \in DOMAIN feed : j \in DOMAIN feed'
        BY <1>1
      <4>3. QED BY <1>1, <3>1, <4>1, <4>2
    <3>3. RawVolume(o)' = RawVolume(o)
      BY <1>2, <2>1, <3>2 DEF RawVolume, BucketStart
    <3>4. QED BY <1>2, <1>4, <1>6, <2>1, <2>3, <3>3 DEF FinalAs, BucketStart
  <2>4. QED BY <1>6, <2>2, <2>3 DEF FinalAs
<1>7. QED BY <1>2, <1>5, <1>6 DEF BarInv

\* A late tick changes a stored bar only when the broker revises it.
LEMMA LateTicksReviseStoredBars ==
    ASSUME ReaderTypeOK, BarInv, NEW late_o \in RawOpens, LateTick(late_o)
    PROVE  BarInv'
<1>1. /\ UNCHANGED <<clock, feed, server, bars, mistimed>>
      /\ late' = late \cup {late_o} /\ revised \subseteq revised'
  BY DEF LateTick, tables, history
<1>2. \A o : Over(o)' <=> Over(o)
  BY <1>1 DEF Over
<1>3. StampedTicks'
  BY <1>1, <1>2 DEF BarInv, StampedTicks, BucketStart
<1>4. ASSUME NEW u \in DOMAIN bars, NEW i \in DOMAIN feed, FinalAs(u, i)
      PROVE  FinalAs(u, i)'
  <2> DEFINE o == BucketStart(feed[i].time)
  <2>1. CASE o \in revised
    BY <1>1, <1>4, <2>1 DEF FinalAs, BucketStart
  <2>2. CASE Over(o) /\ o = late_o
    <3>1. late_o \in Int /\ clock + server.offset \in Int
      BY RawOpensAreTimes
    <3>2. ~(clock + server.offset < late_o + Interval + Settle)
      BY <2>2, <3>1 DEF Over
    <3>3. o \in revised'
      BY <2>2, <3>2 DEF LateTick
    <3>4. QED BY <1>1, <1>4, <3>3 DEF FinalAs, BucketStart
  <2>3. CASE Over(o) /\ o # late_o
    <3>1. RawVolume(o)' = RawVolume(o)
      BY <1>1, <2>3 DEF RawVolume, BucketStart
    <3>2. QED BY <1>1, <1>2, <1>4, <2>3, <3>1 DEF FinalAs, BucketStart
  <2>4. QED BY <1>4, <2>1, <2>2, <2>3 DEF FinalAs
<1>5. QED BY <1>1, <1>3, <1>4 DEF BarInv

\* What a read of bars adds is over, and as the broker has it.
LEMMA ReadBarsAreFinal ==
    ASSUME ReaderTypeOK, BarInv, ReadBars
    PROVE  BarInv'
<1>1. UNCHANGED <<clock, feed, late, revised, server>>
  BY ProcessIsASpectator DEF ProcessStep, ReaderStep
<1>2. StampedTicks'
  BY <1>1 DEF BarInv, StampedTicks, BucketStart, Over
<1> SUFFICES ASSUME ~mistimed', NEW u \in DOMAIN bars'
    PROVE  \E i \in DOMAIN feed : FinalAs(u, i)'
  BY <1>1, <1>2 DEF BarInv
<1>3. ~mistimed /\ ~Mistimed /\ RecordBars(NormalizeBars(Bars)) /\ Running(reader)
  BY SomewhereIsRunning DEF ReadBars, At
<1> DEFINE new == NormalizeBars(Bars)
<1>4. /\ bars' = [v \in DOMAIN bars \cup DOMAIN new |-> IF v \in DOMAIN bars THEN bars[v] ELSE new[v]]
      /\ DOMAIN new = {ToUtc(o) : o \in Bars}
      /\ \A v \in DOMAIN new : new[v].volume = RawVolume(v + ClockOffset)
  BY <1>3 DEF RecordBars, NormalizeBars
<1> HIDE DEF new
<1>5. CASE u \in DOMAIN bars
  <2>1. PICK i \in DOMAIN feed : FinalAs(u, i)
    BY <1>3, <1>5 DEF BarInv
  <2>2. bars'[u] = bars[u]
    BY <1>4, <1>5
  <2>3. QED BY <1>1, <2>1, <2>2 DEF FinalAs, Over, RawVolume, BucketStart
<1>6. CASE u \notin DOMAIN bars
  <2>1. PICK o \in Bars : u = ToUtc(o)
    BY <1>4, <1>6
  <2>2. PICK i \in DOMAIN feed : o = BucketStart(feed[i].time)
    BY <2>1 DEF Bars, Window, RawOpens
  <2>3. feed[i].at \in Nat /\ feed[i].time \in Int /\ clock \in Int /\ server.offset \in Int /\ o \in Int
    BY <2>2, RawOpensAreTimes, BucketsHoldTheirTicks
  <2>4. ClockOffset \in Int
    BY <1>3, <2>2, OffsetIsANumber
  <2>5. feed[i].time - ClockOffset = feed[i].at
    BY <1>3 DEF Mistimed, ToUtc
  <2> DEFINE c == ClockOffset
  <2>6. c \in {0, HalfHour} /\ (o \in revised \/ Over(o) \/ c <= server.offset)
    <3>1. feed[i].time - feed[i].at = c
      BY <2>3, <2>4, <2>5
    <3>2. QED BY <2>2, <3>1 DEF BarInv, StampedTicks
  <2>7. u = o - c /\ u + Interval + Settle <= clock
    BY <2>1 DEF ToUtc, Bars
  <2> HIDE DEF c
  <2>8. BucketStart(feed[i].at) = u
    BY <2>2, <2>3, <2>5, <2>6, <2>7, BucketsMove DEF c
  <2>9. o \in revised \/ Over(o)
    <3>1. c <= server.offset => Over(o)
      BY <2>3, <2>6, <2>7 DEF Over
    <3>2. QED BY <2>6, <3>1
  <2>10. bars'[u].volume = RawVolume(o)
    <3>1. bars'[u] = new[u] /\ u \in DOMAIN new
      BY <1>4, <1>6
    <3>2. u + c = o
      BY <2>3, <2>6, <2>7
    <3>3. QED BY <1>4, <3>1, <3>2 DEF c
  <2>11. QED BY <1>1, <2>2, <2>8, <2>9, <2>10 DEF FinalAs, Over, RawVolume, BucketStart
<1>7. QED BY <1>5, <1>6

\* A clock that is put forward leaves what is over behind; put back, the broker
\* reopens what it leaves ahead.
LEMMA NewClocksSpareStoredBars ==
    ASSUME ReaderTypeOK, BarInv, NEW s \in ServerStates, TerminalChanges(s)
    PROVE  BarInv'
<1>1. /\ UNCHANGED <<clock, feed, late, bars, mistimed>> /\ server' = s
      /\ revised' = revised \cup Reopened(s)
  BY DEF TerminalChanges, tables, history
<1>2. clock \in Nat /\ server.offset \in Int /\ s.offset \in Int
  BY RawOpensAreTimes, ServersAreServers DEF ReaderTypeOK, ServerRecords
<1>3. \A i \in DOMAIN feed : BucketStart(feed[i].time) \in Int /\ BucketStart(feed[i].time) \in RawOpens
  BY RawOpensAreTimes, BucketsHoldTheirTicks DEF RawOpens
<1>4. CASE s.offset < server.offset
  <2>1. \A o \in RawOpens : o \in Int => o \in revised' \/ Over(o)'
    BY <1>1, <1>2, <1>4 DEF Reopened, Over
  <2>2. StampedTicks'
    BY <1>1, <1>3, <2>1 DEF BarInv, StampedTicks, BucketStart
  <2>3. ASSUME NEW u \in DOMAIN bars, NEW i \in DOMAIN feed, FinalAs(u, i) PROVE FinalAs(u, i)'
    BY <1>1, <1>3, <2>1, <2>3 DEF FinalAs, RawVolume, BucketStart
  <2>4. QED BY <1>1, <2>2, <2>3 DEF BarInv
<1>5. CASE server.offset <= s.offset
  <2>1. \A o \in Int : Over(o) => Over(o)'
    BY <1>1, <1>2, <1>5 DEF Over
  <2>2. StampedTicks'
    <3> SUFFICES ASSUME NEW i \in DOMAIN feed
        PROVE  LET o == BucketStart(feed[i].time)
                   offset == feed[i].time - feed[i].at
               IN /\ offset \in {0, HalfHour}
                  /\ o \in revised' \/ Over(o)' \/ offset <= s.offset
      BY <1>1 DEF StampedTicks, BucketStart
    <3>1. feed[i].time - feed[i].at \in {0, HalfHour}
      BY DEF BarInv, StampedTicks
    <3>2. QED BY <1>1, <1>2, <1>3, <1>5, <2>1, <3>1 DEF BarInv, StampedTicks
  <2>3. ASSUME NEW u \in DOMAIN bars, NEW i \in DOMAIN feed, FinalAs(u, i) PROVE FinalAs(u, i)'
    BY <1>1, <1>3, <2>1, <2>3 DEF FinalAs, RawVolume, BucketStart
  <2>4. QED BY <1>1, <2>2, <2>3 DEF BarInv
<1>6. QED BY <1>2, <1>4, <1>5

\* What is stored stays final, whatever the broker does with its clock.
LEMMA NextBars ==
    ASSUME ReaderTypeOK, BarInv, [Next]_vars
    PROVE  BarInv'
<1>1. clock \in Nat /\ clock' \in Nat /\ clock' >= clock /\ (mistimed => mistimed')
  BY NextTypes DEF ReaderTypeOK
<1>2. ASSUME UNCHANGED <<feed, late, revised, server, bars>> PROVE BarInv'
  <2>1. \A i \in DOMAIN feed : BucketStart(feed[i].time) \in Int
    BY RawOpensAreTimes, BucketsHoldTheirTicks
  <2>2. server.offset \in Int
    BY RawOpensAreTimes
  <2>3. \A o \in Int : Over(o) => Over(o)'
    BY <1>1, <1>2, <2>2 DEF Over
  <2>4. StampedTicks'
    BY <1>2, <2>1, <2>3 DEF BarInv, StampedTicks, BucketStart
  <2>5. ASSUME NEW u \in DOMAIN bars, NEW i \in DOMAIN feed, FinalAs(u, i) PROVE FinalAs(u, i)'
    BY <1>2, <2>1, <2>3, <2>5 DEF FinalAs, RawVolume, BucketStart
  <2>6. QED BY <1>1, <1>2, <2>4, <2>5 DEF BarInv
<1>3. CASE UNCHANGED vars \/ Tick \/ LinkDrops
  BY <1>2, <1>3 DEF vars, market, tables, Tick, LinkDrops
<1>4. CASE TickArrives
  BY <1>4, ArrivalsSpareStoredBars
<1>5. ASSUME NEW o \in RawOpens, LateTick(o) PROVE BarInv'
  BY <1>5, LateTicksReviseStoredBars
<1>6. ASSUME NEW s \in ServerStates, TerminalChanges(s) PROVE BarInv'
  BY <1>6, NewClocksSpareStoredBars
<1>7. CASE ReadBars
  BY <1>7, ReadBarsAreFinal
<1>8. CASE ProcessStep /\ ~ReadBars
  <2>1. bars' = bars
    BY <1>8 DEF ProcessStep, ReaderStep, Start, ConnectFails, Acknowledge, Stop, Crash, Refuse, Reconnect,
       CaptureAccount, CaptureBook, CaptureRaises, ReadFails, OffsetUnavailable, ReadTicks, DataConflict,
       EndPoll, tables
  <2>2. QED BY <1>2, <1>8, <2>1, ProcessIsASpectator
<1>9. QED BY <1>3, <1>4, <1>5, <1>6, <1>7, <1>8 DEF Next, ProcessStep

\* No poll stores a bar that is still forming or still receives late ticks, and no
\* tick falls into a stored one, even if the broker changes its clock before or
\* after a poll (ReadOnlyMt5Gateway.bars).
THEOREM StoredBarsAreFinal == Spec => []BarsAreFinal
<1>1. Init => ReaderTypeOK /\ BarInv
  <2>1. Init => BarInv
    BY DEF Init, BarInv, StampedTicks
  <2>2. QED BY <2>1, InitTypes
<1>2. ReaderTypeOK /\ BarInv /\ [Next]_vars => (ReaderTypeOK /\ BarInv)'
  BY NextTypes, NextBars
<1>3. BarInv => BarsAreFinal
  <2> SUFFICES ASSUME BarInv, ~mistimed, NEW u \in DOMAIN bars
      PROVE  \E i \in DOMAIN feed :
                /\ BucketStart(feed[i].at) = u
                /\ \/ bars[u].volume = RawVolume(BucketStart(feed[i].time))
                   \/ BucketStart(feed[i].time) \in revised
    BY DEF BarsAreFinal
  <2>1. PICK i \in DOMAIN feed : FinalAs(u, i)
    BY DEF BarInv
  <2>2. QED BY <2>1 DEF FinalAs
<1>4. QED BY <1>1, <1>2, <1>3, PTL DEF Spec
===============================================================================
