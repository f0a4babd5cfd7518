---------------------------- MODULE KhashProofs ----------------------------
(***************************************************************************)
(* Theorems about Khash for any hash function, any keys and values and     *)
(* tables of any size: the counters agree with the flags (CountsAgree) and *)
(* the table is a map (ImplementsMap).                                     *)
(***************************************************************************)
EXTENDS Khash, FiniteSetTheorems, WellFoundedInduction, TLAPS

(***************************************************************************)
(* Powers of two.                                                          *)
(***************************************************************************)

LEMMA SetInduction ==
  ASSUME NEW T, 0 \in T, \A n \in T \cap Nat : n + 1 \in T
  PROVE  Nat \subseteq T
<1> DEFINE R == OpToRel(<, Nat)
           U == Nat \ T
<1> SUFFICES ASSUME U # {} PROVE FALSE
  OBVIOUS
<1>1. IsWellFoundedOn(R, Nat)
  BY NatLessThanWellFounded
<1>2. U \subseteq Nat
  OBVIOUS
<1>3. PICK x \in U : \A y \in U : ~ (<<y, x>> \in R)
  <2> HIDE DEF R, U
  <2> QED BY <1>1, <1>2, WFMin
<1>4. \A y \in U : <<y, x>> \in R <=> y < x
  BY <1>2 DEF OpToRel
<1>5. \A y \in U : ~ (y < x)
  BY <1>3, <1>4
<1>6. x # 0 /\ x - 1 \in Nat /\ x - 1 < x
  OBVIOUS
<1>7. x - 1 \in T
  BY <1>5, <1>6
<1>8. (x - 1) + 1 \in T
  BY <1>6, <1>7
<1> QED BY <1>8

LEMMA Parity ==
  ASSUME NEW n \in Nat
  PROVE  \/ \E h \in Nat : n = 2 * h /\ n % 2 = 0
         \/ \E h \in Nat : n = 2 * h + 1 /\ n % 2 = 1
<1>1. PICK h \in Nat, r \in {0, 1} : n % 2 = r /\ n = 2 * h + r
  <2>1. n \div 2 \in Nat /\ n % 2 \in {0, 1} /\ n = 2 * (n \div 2) + (n % 2)
    OBVIOUS
  <2> QED
    BY <2>1
<1> QED
  BY <1>1

\* An odd product has odd factors.
LEMMA OddProduct ==
  ASSUME NEW a \in Nat, NEW b \in Nat, a % 2 = 1, b % 2 = 1
  PROVE  (a * b) % 2 = 1
<1>1. PICK g \in Nat : a = 2 * g + 1
  BY Parity
<1>2. PICK h \in Nat : b = 2 * h + 1
  BY Parity
<1>3. PICK x \in Nat : x = g * h
  OBVIOUS
<1>4. a * b = 2 * (2 * x + g + h) + 1
  BY <1>1, <1>2, <1>3
<1>5. PICK y \in Nat : y = a * b /\ y = 2 * (2 * x + g + h) + 1
  BY <1>4
<1> QED
  BY <1>5

LEMMA Half ==
  ASSUME NEW p \in Nat, p > 1, PowerOfTwo(p)
  PROVE  \E q \in Nat : p = 2 * q /\ q > 0 /\ PowerOfTwo(q)
<1>1. p \in 1..p /\ 1 \in 1..p /\ p * 1 = p
  OBVIOUS
<1>2. p % 2 = 0
  BY <1>1 DEF PowerOfTwo
<1>3. PICK q \in Nat : p = 2 * q
  BY <1>2, Parity
<1>4. ASSUME NEW d \in 1..q, NEW e \in 1..q, d * e = q
      PROVE  d = 1 \/ d % 2 = 0
  <2>1. d * (2 * e) = 2 * (d * e)
    OBVIOUS
  <2>2. d \in 1..p /\ 2 * e \in 1..p /\ d * (2 * e) = p
    BY <1>3, <1>4, <2>1
  <2> QED
    BY <2>2 DEF PowerOfTwo
<1>5. PowerOfTwo(q)
  BY <1>4 DEF PowerOfTwo
<1> QED
  BY <1>3, <1>5

LEMMA Double ==
  ASSUME NEW p \in Nat, p > 0, PowerOfTwo(p)
  PROVE  PowerOfTwo(2 * p)
<1> SUFFICES ASSUME NEW d \in 1..2 * p, NEW e \in 1..2 * p, d * e = 2 * p, d % 2 = 1
             PROVE  d = 1
  BY Parity DEF PowerOfTwo
<1>1. CASE e % 2 = 1
  <2>1. (d * e) % 2 = 1
    BY <1>1, OddProduct
  <2> QED
    BY <2>1
<1>2. CASE e % 2 = 0
  <2>1. PICK f \in Nat : e = 2 * f
    BY <1>2, Parity
  <2>2. d * (2 * f) = 2 * (d * f)
    OBVIOUS
  <2>3. d * f = p /\ f > 0
    BY <2>1, <2>2
  <2>4. d <= d * f /\ f <= d * f
    BY <2>3
  <2>5. d \in 1..p /\ f \in 1..p
    BY <2>3, <2>4
  <2> QED
    BY <2>3, <2>5 DEF PowerOfTwo
<1> QED
  BY <1>1, <1>2, Parity

LEMMA SmallPowers == PowerOfTwo(1) /\ PowerOfTwo(2) /\ PowerOfTwo(4)
<1>1. PowerOfTwo(1)
  BY DEF PowerOfTwo
<1>2. PowerOfTwo(2 * 1)
  BY <1>1, Double
<1>3. PowerOfTwo(2 * (2 * 1))
  BY <1>2, Double
<1> QED
  BY <1>1, <1>2, <1>3

\* An odd factor can be left out.
Divides(q, n) == \E f \in Nat : n = q * f

OddFactorGoes(q) == \A x, y \in Nat : Divides(q, x * y) /\ y % 2 = 1 => Divides(q, x)

LEMMA OddFactor ==
  ASSUME NEW p \in Nat, p > 0, PowerOfTwo(p), NEW a \in Nat, NEW b \in Nat, b % 2 = 1, Divides(p, a * b)
  PROVE  Divides(p, a)
<1> DEFINE T == {m \in Nat : \A q \in 1..m : PowerOfTwo(q) => OddFactorGoes(q)}
<1>1. 0 \in T
  OBVIOUS
<1>2. ASSUME NEW m \in T \cap Nat PROVE m + 1 \in T
  <2> SUFFICES ASSUME PowerOfTwo(m + 1) PROVE OddFactorGoes(m + 1)
    BY <1>2
  <2> SUFFICES ASSUME NEW x \in Nat, NEW y \in Nat, Divides(m + 1, x * y), y % 2 = 1
               PROVE  Divides(m + 1, x)
    BY DEF OddFactorGoes
  <2>1. CASE m = 0
    <3>1. x = (m + 1) * x
      BY <2>1
    <3> QED
      BY <3>1 DEF Divides
  <2>2. CASE m > 0
    <3>1. PICK h \in Nat : m + 1 = 2 * h /\ h > 0 /\ PowerOfTwo(h)
      BY <2>2, Half
    <3>2. h \in 1..m
      BY <2>2, <3>1
    <3>3. OddFactorGoes(h)
      BY <3>1, <3>2
    <3>4. PICK z \in Nat : x * y = (m + 1) * z
      BY DEF Divides
    <3>5. PICK v \in Nat : v = h * z
      OBVIOUS
    <3>6. x * y = 2 * v
      BY <3>1, <3>4, <3>5
    <3>7. x % 2 # 1
      <4> SUFFICES ASSUME x % 2 = 1 PROVE FALSE
        OBVIOUS
      <4>1. (x * y) % 2 = 1
        BY OddProduct
      <4> QED
        BY <3>6, <4>1
    <3>8. PICK w \in Nat : x = 2 * w
      BY <3>7, Parity
    <3>9. Divides(h, w * y)
      <4>1. PICK u \in Nat : u = w * y
        OBVIOUS
      <4>2. x * y = 2 * u
        BY <3>8, <4>1
      <4>3. u = v
        BY <3>6, <4>2
      <4> QED
        BY <3>5, <4>1, <4>3 DEF Divides
    <3>10. Divides(h, w)
      BY <3>3, <3>9 DEF OddFactorGoes
    <3>11. PICK f \in Nat : w = h * f
      BY <3>10 DEF Divides
    <3>12. (2 * h) * f = 2 * (h * f)
      OBVIOUS
    <3>13. x = (m + 1) * f
      BY <3>1, <3>8, <3>11, <3>12
    <3> QED
      BY <3>13 DEF Divides
  <2> QED
    BY <2>1, <2>2
<1>3. p \in T
  <2> HIDE DEF T
  <2> QED
    BY <1>1, <1>2, SetInduction
<1>4. OddFactorGoes(p)
  <2>1. p \in 1..p
    OBVIOUS
  <2> QED
    BY <1>3, <2>1
<1> QED
  BY <1>4 DEF OddFactorGoes

\* Between a power of two and its double there is none.
LEMMA NoneBetween ==
  ASSUME NEW p \in Nat, p > 0, PowerOfTwo(p), NEW q \in Nat, PowerOfTwo(q), p < q
  PROVE  2 * p <= q
<1> DEFINE T == {m \in Nat : \A x \in 1..m, y \in Nat :
                                PowerOfTwo(x) /\ PowerOfTwo(y) /\ x < y => 2 * x <= y}
<1>1. 0 \in T
  OBVIOUS
<1>2. ASSUME NEW m \in T \cap Nat PROVE m + 1 \in T
  <2> SUFFICES ASSUME NEW y \in Nat, PowerOfTwo(m + 1), PowerOfTwo(y), m + 1 < y
               PROVE  2 * (m + 1) <= y
    BY <1>2
  <2>1. CASE m = 0
    BY <2>1
  <2>2. CASE m > 0
    <3>1. PICK g \in Nat : m + 1 = 2 * g /\ g > 0 /\ PowerOfTwo(g)
      BY <2>2, Half
    <3>2. PICK h \in Nat : y = 2 * h /\ h > 0 /\ PowerOfTwo(h)
      BY Half
    <3>3. g \in 1..m /\ g < h
      BY <2>2, <3>1, <3>2
    <3>4. 2 * g <= h
      BY <3>1, <3>2, <3>3
    <3> QED
      BY <3>1, <3>2, <3>4
  <2> QED
    BY <2>1, <2>2
<1>3. p \in T
  <2> HIDE DEF T
  <2> QED
    BY <1>1, <1>2, SetInduction
<1> QED
  BY <1>3

(***************************************************************************)
(* Sizes, and the least and greatest of a set.                             *)
(***************************************************************************)

Capacity(n) == n \in Nat /\ n >= 4 /\ PowerOfTwo(n)

LEMMA RoundUpType ==
  ASSUME NEW n \in Nat
  PROVE  Capacity(RoundUp(n)) /\ n <= RoundUp(n)
<1> DEFINE Fits(m, p) == PowerOfTwo(p) /\ m <= p /\ (p = 4 \/ p < 2 * m)
           T == {m \in Nat : \E p \in 4..2 * m + 4 : Fits(m, p)}
<1>1. 0 \in T
  BY SmallPowers
<1>2. ASSUME NEW m \in T \cap Nat PROVE m + 1 \in T
  <2>1. PICK p \in 4..2 * m + 4 : Fits(m, p)
    OBVIOUS
  <2>2. CASE m + 1 <= p
    <3>1. p \in 4..2 * (m + 1) + 4 /\ Fits(m + 1, p)
      BY <2>1, <2>2
    <3> QED
      BY <3>1
  <2>3. CASE p = m
    <3>1. PowerOfTwo(2 * p)
      BY <2>1, Double
    <3>2. 2 * p \in 4..2 * (m + 1) + 4 /\ Fits(m + 1, 2 * p)
      BY <2>1, <2>3, <3>1
    <3> QED
      BY <3>2
  <2> QED
    BY <2>1, <2>2, <2>3
<1>3. n \in T
  <2> HIDE DEF T
  <2> QED
    BY <1>1, <1>2, SetInduction
<1>4. \E p \in 4..2 * n + 4 : Fits(n, p)
  BY <1>3
<1>5. RoundUp(n) \in 4..2 * n + 4 /\ Fits(n, RoundUp(n))
  BY <1>4 DEF RoundUp
<1> QED
  BY <1>5 DEF Capacity

\* A table has more buckets than entries in use may have.
LEMMA UpperBounds ==
  ASSUME NEW n \in Nat
  PROVE  /\ UpperBound(n) \in Nat /\ (n >= 4 => UpperBound(n) < n)
         /\ \A m \in Nat : m < UpperBound(n) <=> 100 * m + 100 <= 77 * n + 50
<1>1. PICK q \in Nat, r \in 0..99 : UpperBound(n) = q /\ 77 * n + 50 = 100 * q + r
  <2>1. PICK x \in Nat : x = 77 * n + 50
    OBVIOUS
  <2>2. x \div 100 \in Nat /\ x % 100 \in 0..99 /\ x = 100 * (x \div 100) + (x % 100)
    OBVIOUS
  <2> QED
    BY <2>1, <2>2 DEF UpperBound
<1> QED
  BY <1>1

LEMMA MinOf ==
  ASSUME NEW S, S \subseteq Nat, S # {}
  PROVE  Min(S) \in S /\ \A x \in S : Min(S) <= x
<1> DEFINE R == OpToRel(<, Nat)
<1>1. IsWellFoundedOn(R, Nat)
  BY NatLessThanWellFounded
<1>2. PICK x \in S : \A y \in S : ~ (<<y, x>> \in R)
  <2> HIDE DEF R
  <2> QED
    BY <1>1, WFMin
<1>3. \A y \in S : <<y, x>> \in R <=> y < x
  BY DEF OpToRel
<1>4. \A y \in S : x <= y
  <2> TAKE y \in S
  <2>1. ~ (y < x) /\ y \in Nat /\ x \in Nat
    <3> HIDE DEF R
    <3> QED
      BY <1>2, <1>3
  <2> QED
    BY <2>1
<1> QED
  BY <1>4 DEF Min

LEMMA MaxOf ==
  ASSUME NEW m \in Nat, NEW S, S \subseteq 0..m, S # {}
  PROVE  Max(S) \in S /\ \A x \in S : x <= Max(S)
<1> DEFINE D == {m - x : x \in S}
<1>1. D \subseteq Nat /\ D # {}
  <2>1. D \subseteq Nat
    OBVIOUS
  <2>2. PICK x : x \in S
    OBVIOUS
  <2>3. m - x \in D
    BY <2>2
  <2> QED
    BY <2>1, <2>3
<1>2. Min(D) \in D /\ \A y \in D : Min(D) <= y
  <2> HIDE DEF D
  <2> QED
    BY <1>1, MinOf
<1>3. PICK x \in S : Min(D) = m - x
  BY <1>2
<1>4. \A y \in S : y <= x
  <2> TAKE y \in S
  <2>1. m - x <= m - y
    BY <1>2, <1>3
  <2> QED
    BY <2>1
<1> QED
  BY <1>4 DEF Max

(***************************************************************************)
(* Triangular probing reaches every bucket: in a table whose size is a     *)
(* power of two, the first n steps of a probe are at n different buckets.  *)
(***************************************************************************)

LEMMA Triangle ==
  ASSUME NEW k \in Nat
  PROVE  \E t \in Nat : 2 * t = k * (k + 1) /\ (k * (k + 1)) \div 2 = t
<1>1. PICK t \in Nat : k * (k + 1) = 2 * t
  <2>1. CASE \E h \in Nat : k = 2 * h
    <3>1. PICK h \in Nat : k = 2 * h
      BY <2>1
    <3>2. h * (k + 1) \in Nat /\ (2 * h) * (k + 1) = 2 * (h * (k + 1))
      OBVIOUS
    <3> QED
      BY <3>1, <3>2
  <2>2. CASE \E h \in Nat : k = 2 * h + 1
    <3>1. PICK h \in Nat : k = 2 * h + 1
      BY <2>2
    <3>2. k * (h + 1) \in Nat /\ k * (2 * (h + 1)) = 2 * (k * (h + 1)) /\ k + 1 = 2 * (h + 1)
      BY <3>1
    <3> QED
      BY <3>2
  <2> QED
    BY <2>1, <2>2, Parity
<1>2. PICK y \in Nat : y = k * (k + 1)
  OBVIOUS
<1>3. y \div 2 = t
  BY <1>1, <1>2
<1> QED
  BY <1>1, <1>2, <1>3

LEMMA ProbeType ==
  ASSUME NEW n \in Nat, n > 0, NEW key \in Keys, NEW k \in Nat
  PROVE  /\ Probe(key, k, n) \in 0..n - 1
         /\ \E t, x \in Nat : 2 * t = k * (k + 1) /\ Hash[key] + t = n * x + Probe(key, k, n)
<1>1. PICK t \in Nat : 2 * t = k * (k + 1) /\ (k * (k + 1)) \div 2 = t
  BY Triangle
<1>2. PICK h \in Nat : h = Hash[key]
  BY TableAssumption
<1>3. Probe(key, k, n) = (h + t) % n
  BY <1>1, <1>2 DEF Probe
<1>4. PICK y \in Nat : y = h + t
  OBVIOUS
<1>5. y % n \in 0..n - 1 /\ y \div n \in Nat /\ y = n * (y \div n) + (y % n)
  OBVIOUS
<1> QED
  BY <1>1, <1>2, <1>3, <1>4, <1>5

\* The later of two steps at the same bucket.
LEMMA ProbeDiffers ==
  ASSUME NEW n, Capacity(n), NEW key \in Keys, NEW i \in 0..n - 1, NEW j \in 0..n - 1, j < i
  PROVE  Probe(key, i, n) # Probe(key, j, n)
<1> SUFFICES ASSUME Probe(key, i, n) = Probe(key, j, n) PROVE FALSE
  OBVIOUS
<1>1. n \in Nat /\ n > 0 /\ PowerOfTwo(n)
  BY DEF Capacity
<1>2. PICK r : r = Probe(key, i, n) /\ r = Probe(key, j, n)
  OBVIOUS
<1>3. PICK t \in Nat, x \in Nat : 2 * t = i * (i + 1) /\ Hash[key] + t = n * x + r
  <2>1. i \in Nat
    OBVIOUS
  <2>2. \E c, d \in Nat : 2 * c = i * (i + 1) /\ Hash[key] + c = n * d + Probe(key, i, n)
    BY <1>1, <2>1, ProbeType
  <2> QED
    BY <1>2, <2>2, Zenon
<1>4. PICK u \in Nat, y \in Nat : 2 * u = j * (j + 1) /\ Hash[key] + u = n * y + r
  <2>1. j \in Nat
    OBVIOUS
  <2>2. \E c, d \in Nat : 2 * c = j * (j + 1) /\ Hash[key] + c = n * d + Probe(key, j, n)
    BY <1>1, <2>1, ProbeType
  <2> QED
    BY <1>2, <2>2, Zenon
<1>5. r \in Nat /\ Hash[key] \in Nat
  BY <1>1, <1>2, ProbeType, TableAssumption
<1> DEFINE a == i - j
           b == i + j + 1
<1>6. PICK nx \in Nat, ny \in Nat : nx = n * x /\ ny = n * y
  BY <1>1
<1>7. t - u = nx - ny
  BY <1>3, <1>4, <1>5, <1>6
<1>8. a \in 1..n - 1 /\ b \in 1..2 * n - 2 /\ a + b = 2 * i + 1
  BY <1>1
<1>9. a * b = 2 * (t - u)
  <2>1. a * b = i * (i + 1) - j * (j + 1)
    BY <1>1
  <2> QED
    BY <1>3, <1>4, <2>1
<1>10. a * b > 0
  BY <1>8
<1>11. PICK z \in Nat : nx - ny = n * z
  <2>1. x > y
    <3> SUFFICES ASSUME x <= y PROVE FALSE
      OBVIOUS
    <3>1. PICK d \in Nat : y = x + d
      OBVIOUS
    <3>2. n * y = n * x + n * d /\ n * d \in Nat
      BY <1>1, <3>1
    <3> QED
      BY <1>6, <1>7, <1>9, <1>10, <3>2
  <2>2. PICK d \in Nat : x = y + d
    BY <2>1
  <2>3. n * x = n * y + n * d
    BY <1>1, <2>2
  <2>4. PICK nd \in Nat : nd = n * d
    BY <1>1
  <2>5. nx - ny = nd
    BY <1>6, <2>3, <2>4
  <2> QED
    BY <2>4, <2>5
<1>12. a * b = (2 * n) * z
  <2>1. (2 * n) * z = 2 * (n * z)
    BY <1>1
  <2> QED
    BY <1>7, <1>9, <1>11, <2>1
<1>13. PowerOfTwo(2 * n) /\ 2 * n \in Nat /\ 2 * n > 0
  BY <1>1, Double
<1>14. a \in Nat /\ b \in Nat
  BY <1>8
<1>15. CASE b % 2 = 1
  <2>1. Divides(2 * n, a * b)
    BY <1>12 DEF Divides
  <2>2. Divides(2 * n, a)
    <3> HIDE DEF a, b
    <3> QED
      BY <1>13, <1>14, <1>15, <2>1, OddFactor
  <2>3. PICK f \in Nat : a = (2 * n) * f
    BY <2>2 DEF Divides
  <2>4. f = 0 \/ (2 * n) * f >= 2 * n
    BY <1>1
  <2> QED
    BY <1>1, <1>8, <2>3, <2>4
<1>16. CASE a % 2 = 1
  <2>1. a * b = b * a
    BY <1>14
  <2>2. Divides(2 * n, b * a)
    BY <1>12, <2>1 DEF Divides
  <2>3. Divides(2 * n, b)
    <3> HIDE DEF a, b
    <3> QED
      BY <1>13, <1>14, <1>16, <2>2, OddFactor
  <2>4. PICK f \in Nat : b = (2 * n) * f
    BY <2>3 DEF Divides
  <2>5. f = 0 \/ (2 * n) * f >= 2 * n
    BY <1>1
  <2> QED
    BY <1>1, <1>8, <2>4, <2>5
<1>17. a % 2 = 1 \/ b % 2 = 1
  <2> HIDE DEF a, b
  <2> QED
    BY <1>8, <1>14
<1> QED
  BY <1>15, <1>16, <1>17

LEMMA ProbeReaches ==
  ASSUME NEW n, Capacity(n), NEW key \in Keys, NEW i \in 0..n - 1
  PROVE  \E k \in 0..n - 1 : Probe(key, k, n) = i
<1> DEFINE B == 0..n - 1
           f == [k \in B |-> Probe(key, k, n)]
<1>1. n \in Nat /\ n > 0
  BY DEF Capacity
<1>2. \A k \in B : f[k] \in B
  BY <1>1, ProbeType
<1>3. \A j, k \in B : f[j] = f[k] => j = k
  <2> TAKE j, k \in B
  <2>1. j < k \/ k < j \/ j = k
    BY <1>1
  <2> QED
    BY <2>1, ProbeDiffers
<1>4. f \in Injection(B, B)
  BY <1>2, <1>3 DEF Injection, IsInjective
<1>5. IsFiniteSet(B)
  BY <1>1, FS_Interval
<1>6. f \in Surjection(B, B)
  <2> HIDE DEF f, B
  <2> QED
    BY <1>4, <1>5, FS_Injection
<1>7. \E k \in B : f[k] = i
  BY <1>6 DEF Surjection
<1> QED
  BY <1>7

\* The size kh_put asks for has room for one entry more than there are.
LEMMA RoomAfterResize ==
  ASSUME NEW n, n = 0 \/ Capacity(n), NEW m \in Nat, n = 0 => m = 0, n # 0 => m < n
  PROVE  m < UpperBound(RoundUp(IF n > 2 * m THEN n - 1 ELSE n + 1))
<1>1. CASE n = 0
  <2>1. PICK p : p = RoundUp(n + 1)
    OBVIOUS
  <2>2. p \in Nat /\ p >= 4
    BY <1>1, <2>1, RoundUpType DEF Capacity
  <2>3. 0 < UpperBound(p)
    BY <2>2, UpperBounds
  <2> QED
    BY <1>1, <2>1, <2>3
<1>2. CASE n # 0 /\ n > 2 * m
  <2>1. n \in Nat /\ n >= 4 /\ PowerOfTwo(n)
    BY <1>2 DEF Capacity
  <2>2. PICK p : p = RoundUp(n - 1)
    OBVIOUS
  <2>3. p \in Nat /\ p >= 4 /\ PowerOfTwo(p) /\ n - 1 <= p
    BY <2>1, <2>2, RoundUpType DEF Capacity
  <2>4. n <= p
    <3> SUFFICES ASSUME p < n PROVE FALSE
      BY <2>1, <2>3
    <3>1. 2 * p <= n
      BY <2>1, <2>3, NoneBetween
    <3> QED
      BY <2>1, <2>3, <3>1
  <2>5. m < UpperBound(p)
    BY <1>2, <2>1, <2>3, <2>4, UpperBounds
  <2> QED
    BY <1>2, <2>2, <2>5
<1>3. CASE n # 0 /\ ~ (n > 2 * m)
  <2>1. n \in Nat /\ n >= 4 /\ PowerOfTwo(n)
    BY <1>3 DEF Capacity
  <2>2. PICK p : p = RoundUp(n + 1)
    OBVIOUS
  <2>3. p \in Nat /\ p >= 4 /\ PowerOfTwo(p) /\ n + 1 <= p
    BY <2>1, <2>2, RoundUpType DEF Capacity
  <2>4. 2 * n <= p
    BY <2>1, <2>3, NoneBetween
  <2>5. m < UpperBound(p)
    BY <1>3, <2>1, <2>3, <2>4, UpperBounds
  <2> QED
    BY <1>3, <2>2, <2>5
<1> QED
  BY <1>1, <1>2, <1>3

(***************************************************************************)
(* Tables.  Every entry can be reached: the buckets a probe for it meets   *)
(* before its own are not empty, so that no search ends at them.           *)
(***************************************************************************)

Entries == Keys \X Values
Cells   == {Empty, Deleted} \cup Entries

Path(b, key, k, n) == \A j \in 0..k - 1 : b[Probe(key, j, n)] # Empty

Reached(b, i, n) == \E k \in 0..n - 1 : Probe(b[i][1], k, n) = i /\ Path(b, b[i][1], k, n)

KeysDiffer(b) == \A i, j \in Used(b) : b[i][1] = b[j][1] => i = j

Table(b, n) ==
    /\ Capacity(n) /\ b \in [0..n - 1 -> Cells]
    /\ KeysDiffer(b) /\ (\A i \in Used(b) : Reached(b, i, n))
    /\ \E i \in 0..n - 1 : b[i] = Empty

LEMMA CellKinds ==
  /\ Empty \notin Entries /\ Deleted \notin Entries /\ Nothing \notin Entries /\ Empty # Deleted
  /\ \A c \in Cells : c \in Entries <=> c \notin {Empty, Deleted}
  /\ \A e \in Entries : e \in Cells /\ e[1] \in Keys /\ e[2] \in Values /\ e = <<e[1], e[2]>>
  /\ \A k \in Keys, v \in Values : <<k, v>> \in Entries /\ <<k, v>>[1] = k /\ <<k, v>>[2] = v
BY TableAssumption DEF Cells, Entries

LEMMA BucketCount ==
  ASSUME NEW n \in Nat, NEW b \in [0..n - 1 -> Cells]
  PROVE  Buckets(b) = n /\ DOMAIN b = 0..n - 1 /\ Used(b) = {i \in 0..n - 1 : b[i] \in Entries}
<1>1. Cardinality(0..n - 1) = n
  <2>1. Cardinality(0..n - 1) = IF 0 > n - 1 THEN 0 ELSE (n - 1) - 0 + 1
    BY FS_Interval
  <2> QED
    BY <2>1
<1>2. Used(b) = {i \in 0..n - 1 : b[i] \in Entries}
  BY CellKinds DEF Used
<1> QED
  BY <1>1, <1>2 DEF Buckets

LEMMA UsedEntries ==
  ASSUME NEW n, NEW b, Table(b, n), NEW i \in Used(b)
  PROVE  i \in 0..n - 1 /\ b[i] \in Entries /\ b[i] # Empty /\ b[i][1] \in Keys /\ b[i][2] \in Values
<1>1. n \in Nat /\ b \in [0..n - 1 -> Cells]
  BY DEF Table, Capacity
<1>2. i \in 0..n - 1 /\ b[i] \in Entries
  BY <1>1, BucketCount
<1> QED
  BY <1>2, CellKinds

\* A search ends at the bucket of the key or at an empty one.
LEMMA Search ==
  ASSUME NEW n, NEW b, Table(b, n), NEW key \in Keys
  PROVE  \E s \in 0..n - 1, x \in 0..n - 1 :
            /\ s = Steps(b, key) /\ x = Probe(key, s, n) /\ Path(b, key, s, n)
            /\ (b[x] = Empty \/ Holds(b, x, key))
            /\ \A i \in Used(b) : b[i][1] = key => x = i /\ Holds(b, x, key)
<1>1. n \in Nat /\ n >= 4 /\ Capacity(n) /\ b \in [0..n - 1 -> Cells]
  BY DEF Table, Capacity
<1>2. Buckets(b) = n /\ DOMAIN b = 0..n - 1
  BY <1>1, BucketCount
<1> DEFINE Ends(k) == b[Probe(key, k, n)] = Empty \/ Holds(b, Probe(key, k, n), key)
           S == {k \in 0..2 * n - 1 : Ends(k) \/ k = 2 * n - 1}
<1>3. Steps(b, key) = Min(S)
  BY <1>2 DEF Steps
<1>4. PICK e \in 0..n - 1 : Ends(e)
  <2>1. PICK i \in 0..n - 1 : b[i] = Empty
    BY DEF Table
  <2>2. PICK e \in 0..n - 1 : Probe(key, e, n) = i
    BY <1>1, ProbeReaches
  <2> QED
    BY <2>1, <2>2
<1>5. S \subseteq Nat /\ e \in S
  BY <1>1, <1>4
<1> HIDE DEF Ends
<1>6. PICK s : s = Min(S)
  OBVIOUS
<1>7. s \in S /\ \A k \in S : s <= k
  <2> HIDE DEF S
  <2> QED
    BY <1>5, <1>6, MinOf
<1>8. s \in 0..n - 1 /\ Ends(s)
  <2>1. s \in Nat /\ s <= e
    BY <1>5, <1>7
  <2>2. s \in 0..n - 1 /\ s # 2 * n - 1
    BY <1>1, <2>1
  <2> QED
    BY <1>7, <2>2
<1>9. \A k \in 0..s - 1 : ~Ends(k)
  <2> SUFFICES ASSUME NEW k \in 0..s - 1, Ends(k) PROVE FALSE
    OBVIOUS
  <2>1. k \in 0..2 * n - 1 /\ k < s
    BY <1>1, <1>8
  <2>2. k \in S
    BY <2>1
  <2>3. s <= k
    BY <1>7, <2>2
  <2> QED
    BY <1>8, <2>1, <2>3
<1>10. PICK x : x = Probe(key, s, n)
  OBVIOUS
<1>11. x \in 0..n - 1 /\ (b[x] = Empty \/ Holds(b, x, key))
  BY <1>1, <1>8, <1>10, ProbeType DEF Ends
<1>12. Path(b, key, s, n)
  BY <1>9 DEF Path, Ends
<1>13. ASSUME NEW i \in Used(b), b[i][1] = key
       PROVE  x = i /\ Holds(b, x, key)
  <2>1. b[i] # Empty /\ Holds(b, i, key)
    BY <1>13 DEF Used, Holds
  <2>2. PICK k \in 0..n - 1 : Probe(key, k, n) = i /\ Path(b, key, k, n)
    BY <1>13 DEF Table, Reached
  <2>3. Ends(k)
    BY <2>1, <2>2 DEF Ends
  <2>4. s <= k
    <3>1. k \in S
      BY <1>1, <2>3
    <3> QED
      BY <1>7, <3>1
  <2>5. CASE s = k
    BY <1>10, <2>1, <2>2, <2>5
  <2>6. CASE s # k
    <3>1. s \in 0..k - 1
      BY <1>8, <2>4, <2>6
    <3>2. b[x] # Empty
      BY <1>10, <2>2, <3>1 DEF Path
    <3>3. Holds(b, x, key)
      BY <1>11, <3>2
    <3>4. x \in Used(b) /\ b[x][1] = key
      BY <1>2, <1>11, <3>3 DEF Used, Holds
    <3>5. x = i
      BY <1>13, <3>4 DEF Table, KeysDiffer
    <3> QED
      BY <3>3, <3>5
  <2> QED
    BY <2>5, <2>6
<1> QED
  BY <1>3, <1>6, <1>8, <1>10, <1>11, <1>12, <1>13, Zenon

\* Where kh_put writes: the bucket of the key, or one without an entry that a probe reaches.
LEMMA SiteOf ==
  ASSUME NEW n, NEW b, Table(b, n), NEW key \in Keys
  PROVE  \E x \in 0..n - 1 :
            /\ x = Site(b, key)
            /\ \E k \in 0..n - 1 : Probe(key, k, n) = x /\ Path(b, key, k, n)
            /\ x \in Used(b) => b[x][1] = key
            /\ x \notin Used(b) => \A i \in Used(b) : b[i][1] # key
<1>1. n \in Nat /\ n >= 4 /\ Capacity(n) /\ b \in [0..n - 1 -> Cells]
  BY DEF Table, Capacity
<1>2. Buckets(b) = n /\ DOMAIN b = 0..n - 1
  BY <1>1, BucketCount
<1>3. PICK s \in 0..n - 1, x \in 0..n - 1 :
            /\ s = Steps(b, key) /\ x = Probe(key, s, n) /\ Path(b, key, s, n)
            /\ (b[x] = Empty \/ Holds(b, x, key))
            /\ \A i \in Used(b) : b[i][1] = key => x = i /\ Holds(b, x, key)
  BY Search
<1> DEFINE D == {k \in 0..s : b[Probe(key, k, n)] = Deleted}
<1>4. Site(b, key) = IF D # {} /\ ~Holds(b, x, key) THEN Probe(key, Max(D), n) ELSE x
  BY <1>2, <1>3 DEF Site
<1>5. CASE D # {} /\ ~Holds(b, x, key)
  <2>1. PICK m : m = Max(D)
    OBVIOUS
  <2>2. m \in D
    <3>1. D \subseteq 0..s /\ s \in Nat
      OBVIOUS
    <3>2. D # {}
      BY <1>5
    <3> HIDE DEF D
    <3>3. Max(D) \in D
      BY <3>1, <3>2, MaxOf
    <3> QED
      BY <2>1, <3>3
  <2>3. m \in 0..n - 1 /\ m <= s /\ b[Probe(key, m, n)] = Deleted
    BY <1>1, <1>3, <2>2
  <2>4. PICK y : y = Probe(key, m, n)
    OBVIOUS
  <2>5. y \in 0..n - 1 /\ y = Site(b, key)
    BY <1>1, <1>4, <1>5, <2>1, <2>3, <2>4, ProbeType
  <2>6. Path(b, key, m, n)
    BY <1>3, <2>3 DEF Path
  <2>7. y \notin Used(b)
    BY <2>3, <2>4 DEF Used
  <2>8. \A i \in Used(b) : b[i][1] # key
    BY <1>3, <1>5
  <2> QED
    BY <2>3, <2>4, <2>5, <2>6, <2>7, <2>8
<1>6. CASE ~ (D # {} /\ ~Holds(b, x, key))
  <2>1. x = Site(b, key)
    BY <1>4, <1>6
  <2>2. CASE Holds(b, x, key)
    <3>1. x \in Used(b) /\ b[x][1] = key
      BY <1>2, <2>2 DEF Used, Holds
    <3> QED
      BY <1>3, <2>1, <3>1
  <2>3. CASE ~Holds(b, x, key)
    <3>1. x \notin Used(b)
      BY <1>3, <2>3 DEF Used
    <3>2. \A i \in Used(b) : b[i][1] # key
      BY <1>3, <2>3
    <3> QED
      BY <1>3, <2>1, <3>1, <3>2
  <2> QED
    BY <2>2, <2>3
<1> QED
  BY <1>5, <1>6

(***************************************************************************)
(* What is in a table.                                                     *)
(***************************************************************************)

KeysOf(b) == {b[i][1] : i \in Used(b)}

LEMMA ContentsOf ==
  ASSUME NEW b, KeysDiffer(b)
  PROVE  /\ DOMAIN Contents(b) = KeysOf(b)
         /\ \A i \in Used(b) : Contents(b)[b[i][1]] = b[i][2]
         /\ Contents(b) = [k \in DOMAIN Contents(b) |-> Contents(b)[k]]
<1>1. ASSUME NEW i \in Used(b) PROVE Contents(b)[b[i][1]] = b[i][2]
  <2>1. PICK k : k = b[i][1]
    OBVIOUS
  <2>2. PICK j : j = CHOOSE h \in Used(b) : b[h][1] = k
    OBVIOUS
  <2>3. j \in Used(b) /\ b[j][1] = k
    BY <2>1, <2>2
  <2>4. j = i
    BY <2>1, <2>3 DEF KeysDiffer
  <2>5. Contents(b)[k] = b[j][2]
    BY <2>1, <2>2 DEF Contents
  <2> QED
    BY <2>1, <2>4, <2>5
<1>2. DOMAIN Contents(b) = KeysOf(b)
  BY DEF Contents, KeysOf
<1>3. Contents(b) = [k \in DOMAIN Contents(b) |-> Contents(b)[k]]
  BY DEF Contents
<1> QED
  BY <1>1, <1>2, <1>3

\* It depends only on the entries, not on where they are.
LEMMA SameContents ==
  ASSUME NEW b, KeysDiffer(b), NEW c, KeysDiffer(c), {b[i] : i \in Used(b)} = {c[i] : i \in Used(c)}
  PROVE  Contents(b) = Contents(c)
<1>1. \A i \in Used(b) : \E j \in Used(c) : b[i] = c[j]
  OBVIOUS
<1>2. \A j \in Used(c) : \E i \in Used(b) : b[i] = c[j]
  OBVIOUS
<1>3. KeysOf(b) = KeysOf(c)
  BY <1>1, <1>2 DEF KeysOf
<1>4. ASSUME NEW k \in KeysOf(b) PROVE Contents(b)[k] = Contents(c)[k]
  <2>1. PICK i \in Used(b) : k = b[i][1]
    BY DEF KeysOf
  <2>2. PICK j \in Used(c) : b[i] = c[j]
    BY <1>1
  <2>3. Contents(b)[b[i][1]] = b[i][2] /\ Contents(c)[c[j][1]] = c[j][2]
    BY ContentsOf
  <2> QED
    BY <2>1, <2>2, <2>3
<1>5. DOMAIN Contents(b) = KeysOf(b) /\ DOMAIN Contents(c) = KeysOf(c)
  BY ContentsOf
<1>6. Contents(b) = [k \in DOMAIN Contents(b) |-> Contents(b)[k]] /\ Contents(c) = [k \in DOMAIN Contents(c) |-> Contents(c)[k]]
  BY ContentsOf
<1> QED
  BY <1>3, <1>4, <1>5, <1>6

\* An entry is written where SiteOf says.
Replaced(b, c, x, e) == c = [b EXCEPT ![x] = e]

LEMMA Written ==
  ASSUME NEW n, NEW b, Table(b, n), NEW key \in Keys, NEW v \in Values, NEW x \in 0..n - 1,
         \E k \in 0..n - 1 : Probe(key, k, n) = x /\ Path(b, key, k, n),
         x \in Used(b) => b[x][1] = key, x \notin Used(b) => \A i \in Used(b) : b[i][1] # key,
         NEW y \in 0..n - 1, y # x, b[y] = Empty,
         NEW c, Replaced(b, c, x, <<key, v>>)
  PROVE  /\ Table(c, n) /\ Used(c) = Used(b) \cup {x}
         /\ Contents(c) = [k \in DOMAIN Contents(b) \cup {key} |-> IF k = key THEN v ELSE Contents(b)[k]]
         /\ x \in Used(b) <=> key \in DOMAIN Contents(b)
<1>1. n \in Nat /\ n > 0 /\ Capacity(n) /\ b \in [0..n - 1 -> Cells] /\ KeysDiffer(b)
  BY DEF Table, Capacity
<1>2. PICK e : e = <<key, v>> /\ e \in Entries /\ e \in Cells /\ e[1] = key /\ e[2] = v /\ e # Empty
  <2>1. PICK e : e = <<key, v>>
    OBVIOUS
  <2>2. e \in Entries /\ e[1] = key /\ e[2] = v
    BY <2>1, CellKinds
  <2>3. e \in Cells /\ e # Empty
    BY <2>2, CellKinds
  <2> QED
    BY <2>1, <2>2, <2>3
<1>3. c \in [0..n - 1 -> Cells] /\ c[x] = e /\ \A i \in 0..n - 1 : i # x => c[i] = b[i]
  BY <1>1, <1>2 DEF Replaced
<1>4. Used(b) = {i \in 0..n - 1 : b[i] \in Entries} /\ Used(c) = {i \in 0..n - 1 : c[i] \in Entries}
  BY <1>1, <1>3, BucketCount
<1>5. Used(c) = Used(b) \cup {x}
  BY <1>2, <1>3, <1>4
<1>6. \A i \in Used(b) : i # x => b[i][1] # key
  <2>1. CASE x \in Used(b)
    BY <1>1, <2>1 DEF KeysDiffer
  <2>2. CASE x \notin Used(b)
    BY <2>2
  <2> QED
    BY <2>1, <2>2
<1>7. KeysDiffer(c)
  <2> SUFFICES ASSUME NEW i \in Used(c), NEW j \in Used(c), c[i][1] = c[j][1] PROVE i = j
    BY DEF KeysDiffer
  <2>1. CASE i # x /\ j # x
    <3>1. i \in Used(b) /\ j \in Used(b) /\ b[i] = c[i] /\ b[j] = c[j]
      BY <1>3, <1>4, <1>5, <2>1
    <3> QED
      BY <1>1, <3>1 DEF KeysDiffer
  <2>2. CASE i = x /\ j # x
    <3>1. j \in Used(b) /\ b[j] = c[j]
      BY <1>3, <1>4, <1>5, <2>2
    <3> QED
      BY <1>2, <1>3, <1>6, <2>2, <3>1
  <2>3. CASE j = x /\ i # x
    <3>1. i \in Used(b) /\ b[i] = c[i]
      BY <1>3, <1>4, <1>5, <2>3
    <3> QED
      BY <1>2, <1>3, <1>6, <2>3, <3>1
  <2> QED
    BY <2>1, <2>2, <2>3
<1>8. \A k \in Keys, m \in 0..n - 1 : Path(b, k, m, n) => Path(c, k, m, n)
  <2> SUFFICES ASSUME NEW k \in Keys, NEW m \in 0..n - 1, Path(b, k, m, n)
               PROVE  Path(c, k, m, n)
    OBVIOUS
  <2> SUFFICES ASSUME NEW j \in 0..m - 1
               PROVE  c[Probe(k, j, n)] # Empty
    BY DEF Path
  <2>1. Probe(k, j, n) \in 0..n - 1
    <3>1. j \in Nat
      OBVIOUS
    <3> QED
      BY <1>1, <3>1, ProbeType
  <2>2. b[Probe(k, j, n)] # Empty
    BY DEF Path
  <2> QED
    BY <1>2, <1>3, <2>1, <2>2
<1>9. ASSUME NEW i \in Used(c) PROVE Reached(c, i, n)
  <2>1. CASE i = x
    <3>1. c[i][1] = key
      BY <1>2, <1>3, <2>1
    <3>2. PICK k \in 0..n - 1 : Probe(key, k, n) = x /\ Path(b, key, k, n)
      OBVIOUS
    <3>3. Path(c, key, k, n)
      BY <1>8, <3>2
    <3> QED
      BY <2>1, <3>1, <3>2, <3>3 DEF Reached
  <2>2. CASE i # x
    <3>1. i \in Used(b) /\ b[i] = c[i]
      BY <1>3, <1>4, <1>5, <2>2
    <3>2. PICK k \in 0..n - 1 : Probe(b[i][1], k, n) = i /\ Path(b, b[i][1], k, n)
      BY <3>1 DEF Table, Reached
    <3>3. Path(c, b[i][1], k, n)
      BY <1>8, <3>1, <3>2, UsedEntries
    <3> QED
      BY <3>1, <3>2, <3>3 DEF Reached
  <2> QED
    BY <2>1, <2>2
<1>10. c[y] = Empty
  BY <1>3
<1>11. Table(c, n)
  BY <1>1, <1>3, <1>7, <1>9, <1>10 DEF Table
<1>12. x \in Used(b) <=> key \in KeysOf(b)
  BY DEF KeysOf
<1> DEFINE F == [k \in KeysOf(b) \cup {key} |-> IF k = key THEN v ELSE Contents(b)[k]]
<1>13. DOMAIN Contents(b) = KeysOf(b) /\ \A i \in Used(b) : Contents(b)[b[i][1]] = b[i][2]
  BY <1>1, ContentsOf
<1>14. /\ DOMAIN Contents(c) = KeysOf(c) /\ Contents(c) = [k \in DOMAIN Contents(c) |-> Contents(c)[k]]
       /\ \A i \in Used(c) : Contents(c)[c[i][1]] = c[i][2]
  BY <1>7, ContentsOf
<1>15. ASSUME NEW i \in Used(b), i # x
       PROVE  i \in Used(c) /\ c[i] = b[i] /\ b[i][1] \in KeysOf(b) /\ b[i][1] # key
              /\ Contents(c)[b[i][1]] = Contents(b)[b[i][1]]
  <2>1. i \in Used(c) /\ c[i] = b[i]
    BY <1>3, <1>4, <1>5, <1>15
  <2>2. Contents(c)[c[i][1]] = c[i][2] /\ Contents(b)[b[i][1]] = b[i][2]
    BY <1>13, <1>14, <2>1
  <2>3. b[i][1] # key /\ b[i][1] \in KeysOf(b)
    BY <1>6, <1>15 DEF KeysOf
  <2> QED
    BY <2>1, <2>2, <2>3
<1>16. x \in Used(c) /\ Contents(c)[key] = v
  BY <1>2, <1>3, <1>5, <1>14
<1>17. KeysOf(c) = KeysOf(b) \cup {key}
  <2>1. ASSUME NEW k \in KeysOf(c) PROVE k \in KeysOf(b) \cup {key}
    <3>1. PICK i \in Used(c) : k = c[i][1]
      BY DEF KeysOf
    <3> QED
      BY <1>2, <1>3, <1>5, <1>15, <3>1
  <2>2. ASSUME NEW k \in KeysOf(b) PROVE k \in KeysOf(c)
    <3>1. PICK i \in Used(b) : k = b[i][1]
      BY DEF KeysOf
    <3>2. CASE i = x
      <4>1. k = key /\ c[x][1] = key
        BY <1>2, <1>3, <3>1, <3>2
      <4> QED
        BY <1>16, <4>1 DEF KeysOf
    <3>3. CASE i # x
      <4>1. i \in Used(c) /\ c[i] = b[i]
        BY <1>15, <3>3
      <4> QED
        BY <3>1, <4>1 DEF KeysOf
    <3> QED
      BY <3>2, <3>3
  <2>3. key \in KeysOf(c)
    BY <1>2, <1>3, <1>16 DEF KeysOf
  <2> QED
    BY <2>1, <2>2, <2>3
<1>18. ASSUME NEW k \in KeysOf(c) PROVE Contents(c)[k] = IF k = key THEN v ELSE Contents(b)[k]
  <2>1. CASE k = key
    BY <1>16, <2>1
  <2>2. CASE k # key
    <3>1. k \in KeysOf(b)
      BY <1>17, <2>2
    <3>2. PICK i \in Used(b) : k = b[i][1]
      BY <3>1 DEF KeysOf
    <3>3. i # x
      BY <2>2, <3>2
    <3>4. Contents(c)[b[i][1]] = Contents(b)[b[i][1]]
      BY <1>15, <3>3
    <3> QED
      BY <2>2, <3>2, <3>4
  <2> QED
    BY <2>1, <2>2
<1>19. Contents(c) = F
  BY <1>14, <1>17, <1>18
<1> QED
  BY <1>5, <1>11, <1>12, <1>13, <1>19

(***************************************************************************)
(* Rehashing.  In every turn one entry more is at its place in the new     *)
(* table; the others are where they were in the old one, but for the one   *)
(* that is carried.  total: the entries there are, entries: what they are, *)
(* D: the buckets of both tables.                                          *)
(***************************************************************************)

OnTheWay(mem, new, old, carried) == {mem[i] : i \in new \cup old} \cup ({carried} \ {Nothing})

InHand(carried) == IF carried = Nothing THEN 0 ELSE 1

Settled(mem, new, n, i) ==
    \E k \in 0..n - 1 : Probe(mem[i][1], k, n) = i /\ \A j \in 0..k - 1 : Probe(mem[i][1], j, n) \in new

Apart(mem, new, old, carried) ==
    /\ new \cap old = {}
    /\ \A i, j \in new \cup old : mem[i][1] = mem[j][1] => i = j
    /\ carried # Nothing => \A i \in new \cup old : mem[i][1] # carried[1]

Counted(new, old, carried, k, total) ==
    /\ IsFiniteSet(new) /\ Cardinality(new) = k
    /\ IsFiniteSet(old) /\ Cardinality(old) + InHand(carried) + k = total

TurnInv(mem, new, old, carried, k, n, D, total, entries) ==
    /\ mem \in [D -> Cells] /\ new \subseteq 0..n - 1 /\ old \subseteq D /\ carried \in Entries \cup {Nothing}
    /\ (\A i \in new \cup old : mem[i] \in Entries) /\ Apart(mem, new, old, carried)
    /\ OnTheWay(mem, new, old, carried) = entries
    /\ Counted(new, old, carried, k, total)
    /\ \A i \in new : Settled(mem, new, n, i)

\* An entry of the old table is taken up.
LEMMA TakenUp ==
  ASSUME NEW n, NEW D, NEW total \in Nat, NEW entries, NEW k \in Nat, NEW mem, NEW new, NEW old,
         TurnInv(mem, new, old, Nothing, k, n, D, total, entries), NEW first \in old
  PROVE  TurnInv(mem, new, old \ {first}, mem[first], k, n, D, total, entries)
<1> DEFINE rest == old \ {first}
           e == mem[first]
<1>1. /\ mem \in [D -> Cells] /\ new \subseteq 0..n - 1 /\ old \subseteq D
      /\ (\A i \in new \cup old : mem[i] \in Entries) /\ Apart(mem, new, old, Nothing)
      /\ OnTheWay(mem, new, old, Nothing) = entries
      /\ Counted(new, old, Nothing, k, total)
      /\ \A i \in new : Settled(mem, new, n, i)
  BY DEF TurnInv
<1>2. e \in Entries /\ e # Nothing
  BY <1>1, CellKinds
<1>3. Apart(mem, new, rest, e)
  BY <1>1 DEF Apart
<1>4. OnTheWay(mem, new, rest, e) = OnTheWay(mem, new, old, Nothing)
  BY <1>2 DEF OnTheWay
<1>5. Counted(new, rest, e, k, total)
  <2>1. IsFiniteSet(old) /\ Cardinality(old) \in Nat
    BY <1>1, FS_CardinalityType DEF Counted
  <2>2. IsFiniteSet(rest) /\ Cardinality(rest) = Cardinality(old) - 1
    BY <2>1, FS_RemoveElement
  <2>3. InHand(e) = 1 /\ InHand(Nothing) = 0
    BY <1>2 DEF InHand
  <2> HIDE DEF rest, e
  <2> QED
    BY <1>1, <2>1, <2>2, <2>3 DEF Counted
<1> QED
  BY <1>1, <1>2, <1>3, <1>4, <1>5 DEF TurnInv

\* The entry in hand is put down; one that was there is carried on.
LEMMA PutDown ==
  ASSUME NEW n \in Nat, NEW D, 0..n - 1 \subseteq D, NEW total \in Nat, NEW entries, NEW k \in Nat,
         NEW mem, NEW new, NEW old, NEW e \in Entries, TurnInv(mem, new, old, e, k, n, D, total, entries),
         NEW s \in 0..n - 1, NEW i \in 0..n - 1, i = Probe(e[1], s, n), i \notin new,
         \A j \in 0..s - 1 : Probe(e[1], j, n) \in new,
         NEW after, Replaced(mem, after, i, e), NEW kicked, kicked = IF i \in old THEN mem[i] ELSE Nothing
  PROVE  TurnInv(after, new \cup {i}, old \ {i}, kicked, k + 1, n, D, total, entries)
<1> DEFINE taken == new \cup {i}
           rest == old \ {i}
<1>1. /\ mem \in [D -> Cells] /\ new \subseteq 0..n - 1 /\ old \subseteq D
      /\ (\A j \in new \cup old : mem[j] \in Entries) /\ Apart(mem, new, old, e)
      /\ OnTheWay(mem, new, old, e) = entries
      /\ Counted(new, old, e, k, total)
      /\ \A j \in new : Settled(mem, new, n, j)
  BY DEF TurnInv
<1>2. e \in Cells /\ e # Nothing /\ e[1] \in Keys
  BY CellKinds
<1>3. after \in [D -> Cells] /\ after[i] = e /\ \A j \in D : j # i => after[j] = mem[j]
  BY <1>1, <1>2 DEF Replaced
<1>4. taken \subseteq 0..n - 1 /\ rest \subseteq D /\ taken \subseteq D
  BY <1>1
<1>5. kicked \in Entries \cup {Nothing}
  BY <1>1
<1>6. \A j \in taken \cup rest : j \in D /\ (j # i => j \in new \cup old /\ after[j] = mem[j])
  BY <1>1, <1>3
<1>7. \A j \in taken \cup rest : after[j] \in Entries
  BY <1>1, <1>3, <1>6
<1>8. Apart(after, taken, rest, kicked)
  <2>1. taken \cap rest = {}
    BY <1>1 DEF Apart
  <2>2. \A j, h \in taken \cup rest : after[j][1] = after[h][1] => j = h
    <3> SUFFICES ASSUME NEW j \in taken \cup rest, NEW h \in taken \cup rest, after[j][1] = after[h][1], j # h
                 PROVE  FALSE
      OBVIOUS
    <3>1. CASE j = i
      <4>1. h \in new \cup old /\ after[h] = mem[h] /\ after[j] = e
        BY <1>3, <1>6, <3>1
      <4> QED
        BY <1>1, <1>2, <4>1 DEF Apart
    <3>2. CASE h = i
      <4>1. j \in new \cup old /\ after[j] = mem[j] /\ after[h] = e
        BY <1>3, <1>6, <3>2
      <4> QED
        BY <1>1, <1>2, <4>1 DEF Apart
    <3>3. CASE j # i /\ h # i
      <4>1. j \in new \cup old /\ h \in new \cup old /\ after[j] = mem[j] /\ after[h] = mem[h]
        BY <1>6, <3>3
      <4> QED
        BY <1>1, <4>1 DEF Apart
    <3> QED
      BY <3>1, <3>2, <3>3
  <2>3. ASSUME kicked # Nothing, NEW j \in taken \cup rest PROVE after[j][1] # kicked[1]
    <3>1. i \in old /\ kicked = mem[i]
      BY <2>3
    <3>2. CASE j = i
      BY <1>1, <1>2, <1>3, <3>1, <3>2 DEF Apart
    <3>3. CASE j # i
      <4>1. j \in new \cup old /\ after[j] = mem[j]
        BY <1>6, <3>3
      <4> QED
        BY <1>1, <3>1, <3>3, <4>1 DEF Apart
    <3> QED
      BY <3>2, <3>3
  <2> QED
    BY <2>1, <2>2, <2>3 DEF Apart
<1>9. OnTheWay(after, taken, rest, kicked) = OnTheWay(mem, new, old, e)
  <2>1. ASSUME NEW x \in OnTheWay(after, taken, rest, kicked) PROVE x \in OnTheWay(mem, new, old, e)
    <3>1. CASE x = kicked /\ kicked # Nothing
      <4>1. i \in old /\ x = mem[i]
        BY <3>1
      <4> QED
        BY <4>1 DEF OnTheWay
    <3>2. CASE \E j \in taken \cup rest : x = after[j]
      <4>1. PICK j \in taken \cup rest : x = after[j]
        BY <3>2
      <4>2. CASE j = i
        BY <1>2, <1>3, <4>1, <4>2 DEF OnTheWay
      <4>3. CASE j # i
        <5>1. j \in new \cup old /\ x = mem[j]
          BY <1>6, <4>1, <4>3
        <5> QED
          BY <5>1 DEF OnTheWay
      <4> QED
        BY <4>2, <4>3
    <3> QED
      BY <2>1, <3>1, <3>2 DEF OnTheWay
  <2>2. ASSUME NEW x \in OnTheWay(mem, new, old, e) PROVE x \in OnTheWay(after, taken, rest, kicked)
    <3>1. CASE x = e
      BY <1>3, <3>1 DEF OnTheWay
    <3>2. CASE \E j \in new \cup old : x = mem[j]
      <4>1. PICK j \in new \cup old : x = mem[j]
        BY <3>2
      <4>2. CASE j = i
        <5>1. i \in old /\ kicked = x
          BY <4>1, <4>2
        <5>2. x # Nothing
          BY <1>1, <4>1, CellKinds
        <5> QED
          BY <5>1, <5>2 DEF OnTheWay
      <4>3. CASE j # i
        <5>1. j \in taken \cup rest /\ x = after[j]
          BY <1>1, <1>6, <4>1, <4>3
        <5> QED
          BY <5>1 DEF OnTheWay
      <4> QED
        BY <4>2, <4>3
    <3> QED
      BY <2>2, <3>1, <3>2 DEF OnTheWay
  <2> QED
    BY <2>1, <2>2
<1>10. Counted(taken, rest, kicked, k + 1, total)
  <2>1. /\ IsFiniteSet(old) /\ Cardinality(old) \in Nat /\ IsFiniteSet(new) /\ Cardinality(new) = k
        /\ Cardinality(old) + InHand(e) + k = total
    BY <1>1, FS_CardinalityType DEF Counted
  <2>2. IsFiniteSet(taken) /\ Cardinality(taken) = k + 1
    BY <2>1, FS_AddElement
  <2>3. IsFiniteSet(rest) /\ Cardinality(rest) = IF i \in old THEN Cardinality(old) - 1 ELSE Cardinality(old)
    BY <2>1, FS_RemoveElement
  <2>4. InHand(e) = 1
    BY <1>2 DEF InHand
  <2>5. InHand(kicked) = IF i \in old THEN 1 ELSE 0
    <3>1. i \in old => mem[i] # Nothing
      BY <1>1, CellKinds
    <3> QED
      BY <3>1 DEF InHand
  <2>6. Cardinality(rest) + InHand(kicked) + (k + 1) = total
    <3> HIDE DEF rest
    <3>1. CASE i \in old
      BY <2>1, <2>3, <2>4, <2>5, <3>1
    <3>2. CASE i \notin old
      BY <2>1, <2>3, <2>4, <2>5, <3>2
    <3> QED
      BY <3>1, <3>2
  <2> HIDE DEF rest, taken
  <2> QED
    BY <2>2, <2>3, <2>6 DEF Counted
<1>11. \A j \in taken : Settled(after, taken, n, j)
  <2> SUFFICES ASSUME NEW j \in taken PROVE Settled(after, taken, n, j)
    OBVIOUS
  <2>1. CASE j = i
    BY <1>3, <2>1 DEF Settled
  <2>2. CASE j # i
    <3>1. j \in new /\ after[j] = mem[j]
      BY <1>6, <2>2
    <3>2. Settled(mem, new, n, j)
      BY <1>1, <3>1
    <3> QED
      BY <3>1, <3>2 DEF Settled
  <2> QED
    BY <2>1, <2>2
<1> HIDE DEF taken, rest
<1>12. TurnInv(after, taken, rest, kicked, k + 1, n, D, total, entries)
  BY <1>1, <1>3, <1>4, <1>5, <1>7, <1>8, <1>9, <1>10, <1>11 DEF TurnInv
<1> QED
  BY <1>12 DEF taken, rest

TurnOf(t, k, n, D, total, entries) == TurnInv(t.mem, t.new, t.old, t.carried, k, n, D, total, entries)

\* A probe for a free bucket of the new table finds one.
LEMMA FreeBucket ==
  ASSUME NEW n, Capacity(n), NEW key \in Keys, NEW new, new \subseteq 0..n - 1, Cardinality(new) < n
  PROVE  \E s \in 0..n - 1 : /\ s = Min({k \in 0..n - 1 : Probe(key, k, n) \notin new})
                             /\ Probe(key, s, n) \in (0..n - 1) \ new
                             /\ \A j \in 0..s - 1 : Probe(key, j, n) \in new
<1>1. n \in Nat /\ n >= 4
  BY DEF Capacity
<1> DEFINE S == {k \in 0..n - 1 : Probe(key, k, n) \notin new}
<1>2. PICK i \in 0..n - 1 : i \notin new
  <2>1. Cardinality(0..n - 1) = n
    <3>1. Cardinality(0..n - 1) = IF 0 > n - 1 THEN 0 ELSE (n - 1) - 0 + 1
      BY <1>1, FS_Interval
    <3> QED
      BY <1>1, <3>1
  <2>2. new # 0..n - 1
    BY <1>1, <2>1
  <2> QED
    BY <2>2
<1>3. PICK e \in 0..n - 1 : Probe(key, e, n) = i
  BY ProbeReaches
<1>4. S \subseteq Nat /\ S # {}
  <2>1. e \in S
    BY <1>2, <1>3
  <2> QED
    BY <1>1, <2>1
<1>5. PICK s : s = Min(S)
  OBVIOUS
<1>6. s \in S /\ \A k \in S : s <= k
  <2> HIDE DEF S
  <2> QED
    BY <1>4, <1>5, MinOf
<1>7. s \in 0..n - 1 /\ Probe(key, s, n) \in (0..n - 1) \ new
  BY <1>1, <1>6, ProbeType
<1>8. \A j \in 0..s - 1 : Probe(key, j, n) \in new
  <2> SUFFICES ASSUME NEW j \in 0..s - 1, Probe(key, j, n) \notin new PROVE FALSE
    OBVIOUS
  <2>1. j \in 0..n - 1 /\ j < s
    BY <1>1, <1>7
  <2>2. j \in S
    BY <2>1
  <2>3. s <= j
    BY <1>6, <2>2
  <2> QED
    BY <1>7, <2>1, <2>3
<1> QED
  BY <1>5, <1>7, <1>8

LEMMA TurnGoesOn ==
  ASSUME NEW n, Capacity(n), NEW D, 0..n - 1 \subseteq D, D \subseteq Nat, NEW total \in Nat, total < n,
         NEW entries, NEW k \in Nat, k < total, NEW t, TurnOf(t, k, n, D, total, entries)
  PROVE  TurnOf(Moved(t, n), k + 1, n, D, total, entries)
<1>1. n \in Nat
  BY DEF Capacity
<1>2. TurnInv(t.mem, t.new, t.old, t.carried, k, n, D, total, entries)
  BY DEF TurnOf
<1>3. Counted(t.new, t.old, t.carried, k, total) /\ t.new \subseteq 0..n - 1 /\ t.old \subseteq D
  BY <1>2 DEF TurnInv
<1>4. ~ (t.old = {} /\ t.carried = Nothing)
  BY <1>3, FS_EmptySet DEF Counted, InHand
<1>5. Moved(t, n) = Turn(t, n)
  BY <1>4 DEF Moved
<1> DEFINE first == Min(t.old)
<1>6. PICK e, old : /\ e = IF t.carried # Nothing THEN t.carried ELSE t.mem[first]
                    /\ old = IF t.carried # Nothing THEN t.old ELSE t.old \ {first}
  OBVIOUS
<1>7. e \in Entries /\ TurnInv(t.mem, t.new, old, e, k, n, D, total, entries)
  <2>1. CASE t.carried # Nothing
    <3>1. e = t.carried /\ old = t.old
      BY <1>6, <2>1
    <3>2. t.carried \in Entries \cup {Nothing}
      BY <1>2 DEF TurnInv
    <3> QED
      BY <1>2, <2>1, <3>1, <3>2
  <2>2. CASE t.carried = Nothing
    <3>1. t.old # {} /\ t.old \subseteq Nat
      BY <1>3, <1>4, <2>2
    <3>2. first \in t.old
      BY <3>1, MinOf
    <3>3. e = t.mem[first] /\ old = t.old \ {first}
      BY <1>6, <2>2
    <3>4. TurnInv(t.mem, t.new, t.old, Nothing, k, n, D, total, entries)
      BY <1>2, <2>2
    <3>5. \A i \in t.new \cup t.old : t.mem[i] \in Entries
      BY <1>2 DEF TurnInv
    <3> HIDE DEF first
    <3>6. TurnInv(t.mem, t.new, t.old \ {first}, t.mem[first], k, n, D, total, entries)
      BY <3>2, <3>4, TakenUp
    <3> QED
      BY <3>2, <3>3, <3>5, <3>6
  <2> QED
    BY <2>1, <2>2
<1>8. e[1] \in Keys
  BY <1>7, CellKinds
<1>9. Cardinality(t.new) < n
  BY <1>1, <1>3 DEF Counted
<1>10. PICK s \in 0..n - 1 : /\ s = Min({j \in 0..n - 1 : Probe(e[1], j, n) \notin t.new})
                             /\ Probe(e[1], s, n) \in (0..n - 1) \ t.new
                             /\ \A j \in 0..s - 1 : Probe(e[1], j, n) \in t.new
  BY <1>3, <1>8, <1>9, FreeBucket
<1>11. PICK i \in 0..n - 1 : i = Probe(e[1], s, n) /\ i \notin t.new
  BY <1>10
<1>12. PICK after : after = [t.mem EXCEPT ![i] = e]
  OBVIOUS
<1>13. PICK kicked : kicked = IF i \in old THEN t.mem[i] ELSE Nothing
  OBVIOUS
<1>14. Turn(t, n) = [mem |-> after, new |-> t.new \cup {i}, old |-> old \ {i}, carried |-> kicked]
  <2>1. i = Probe(e[1], Min({j \in 0..n - 1 : Probe(e[1], j, n) \notin t.new}), n)
    BY <1>10, <1>11
  <2>2. kicked = Kicked(t, old, i)
    BY <1>13 DEF Kicked
  <2> HIDE DEF first
  <2> QED
    BY <1>6, <1>12, <2>1, <2>2 DEF Turn, first
<1>15. Replaced(t.mem, after, i, e)
  BY <1>12 DEF Replaced
<1>16. TurnInv(after, t.new \cup {i}, old \ {i}, kicked, k + 1, n, D, total, entries)
  BY <1>1, <1>7, <1>10, <1>11, <1>13, <1>15, PutDown
<1> QED
  BY <1>5, <1>14, <1>16 DEF TurnOf

\* Turns is what its recursion says.
LEMMA TurnsRecur ==
  ASSUME NEW n, size \in Nat
  PROVE  /\ Turns(n)[0] = Unmoved(n)
         /\ \A k \in 1..size : Turns(n)[k] = Moved(Turns(n)[k - 1], n)
<1> DEFINE Goes(f, m) == f = [k \in 0..m |-> IF k = 0 THEN Unmoved(n) ELSE Moved(f[k - 1], n)]
           T == {m \in Nat : \E f : Goes(f, m)}
<1>1. 0 \in T
  <2>1. Goes([k \in 0..0 |-> Unmoved(n)], 0)
    OBVIOUS
  <2> QED
    BY <2>1
<1>2. ASSUME NEW m \in T \cap Nat PROVE m + 1 \in T
  <2>1. PICK f : Goes(f, m)
    OBVIOUS
  <2> DEFINE g == [k \in 0..m + 1 |-> IF k = m + 1 THEN Moved(f[m], n) ELSE f[k]]
  <2>2. \A k \in 0..m : g[k] = f[k] /\ f[k] = IF k = 0 THEN Unmoved(n) ELSE Moved(f[k - 1], n)
    <3>1. ASSUME NEW k \in 0..m PROVE g[k] = f[k]
      OBVIOUS
    <3>2. ASSUME NEW k \in 0..m PROVE f[k] = IF k = 0 THEN Unmoved(n) ELSE Moved(f[k - 1], n)
      <4> HIDE DEF g
      <4> QED
        BY <2>1
    <3> QED
      BY <3>1, <3>2
  <2>3. g[m + 1] = Moved(f[m], n)
    OBVIOUS
  <2>4. g = [k \in 0..m + 1 |-> g[k]]
    OBVIOUS
  <2> HIDE DEF g
  <2>5. \A k \in 0..m + 1 : g[k] = IF k = 0 THEN Unmoved(n) ELSE Moved(g[k - 1], n)
    <3> TAKE k \in 0..m + 1
    <3>1. CASE k = m + 1
      <4>1. g[k - 1] = f[m] /\ k # 0
        BY <2>2, <3>1
      <4> QED
        BY <2>3, <3>1, <4>1
    <3>2. CASE k \in 1..m
      <4>1. g[k - 1] = f[k - 1] /\ g[k] = f[k] /\ k # 0
        BY <2>2, <3>2
      <4> QED
        BY <2>2, <3>2, <4>1
    <3>3. CASE k = 0
      BY <2>2, <3>3
    <3> QED
      BY <3>1, <3>2, <3>3
  <2>6. Goes(g, m + 1)
    BY <2>4, <2>5
  <2> QED
    BY <2>6
<1>3. size \in T
  <2> HIDE DEF T
  <2> QED
    BY <1>1, <1>2, SetInduction
<1>4. PICK f : f = [k \in 0..size |-> IF k = 0 THEN Unmoved(n) ELSE Moved(f[k - 1], n)]
  BY <1>3
<1> DEFINE t == Turns(n)
<1>5. t = [k \in 0..size |-> IF k = 0 THEN Unmoved(n) ELSE Moved(t[k - 1], n)]
  BY <1>4 DEF Turns
<1> HIDE DEF t
<1>6. t[0] = Unmoved(n) /\ \A k \in 1..size : t[k] = Moved(t[k - 1], n)
  BY <1>5
<1> QED
  BY <1>6 DEF t

\* A table, or what there is before the first put, with the number of its entries.
TableOrNone(b, n) == (n = 0 /\ b = <<>>) \/ Table(b, n)

LEMMA NoneIsEmpty == DOMAIN <<>> = {} /\ Used(<<>>) = {} /\ KeysDiffer(<<>>) /\ Buckets(<<>>) = 0
<1>1. DOMAIN <<>> = {}
  OBVIOUS
<1>2. Used(<<>>) = {}
  BY <1>1 DEF Used
<1> QED
  BY <1>1, <1>2, FS_EmptySet DEF KeysDiffer, Buckets

LEMMA TableKinds ==
  ASSUME NEW n, NEW b, TableOrNone(b, n)
  PROVE  /\ n \in Nat /\ DOMAIN b = 0..n - 1 /\ KeysDiffer(b) /\ Buckets(b) = n
         /\ Used(b) \subseteq 0..n - 1 /\ \A i \in Used(b) : b[i] \in Entries
         /\ \A i \in DOMAIN b : b[i] \in Cells
<1>1. CASE n = 0 /\ b = <<>>
  <2>1. 0..n - 1 = {}
    BY <1>1
  <2> QED
    BY <1>1, <2>1, NoneIsEmpty
<1>2. CASE Table(b, n)
  <2>1. n \in Nat /\ b \in [0..n - 1 -> Cells] /\ KeysDiffer(b)
    BY <1>2 DEF Table, Capacity
  <2> QED
    BY <2>1, BucketCount
<1> QED
  BY <1>1, <1>2 DEF TableOrNone

\* After rehashing the same entries are in a table of another size.
LEMMA RehashedTable ==
  ASSUME NEW o, TableOrNone(bucket, o), size \in Nat, Cardinality(Used(bucket)) = size,
         NEW n, Capacity(n), size < n
  PROVE  /\ Table(Rehashed(n), n) /\ Contents(Rehashed(n)) = Contents(bucket)
         /\ Cardinality(Used(Rehashed(n))) = size
         /\ {i \in 0..n - 1 : Rehashed(n)[i] = Empty} = (0..n - 1) \ Used(Rehashed(n))
<1> DEFINE D == (0..n - 1) \cup DOMAIN bucket
           entries == {bucket[i] : i \in Used(bucket)}
           mem == [i \in D |-> IF i \in DOMAIN bucket THEN bucket[i] ELSE Empty]
<1>1. n \in Nat /\ n > 0
  BY DEF Capacity
<1>2. /\ o \in Nat /\ DOMAIN bucket = 0..o - 1 /\ KeysDiffer(bucket)
      /\ Used(bucket) \subseteq DOMAIN bucket /\ (\A i \in Used(bucket) : bucket[i] \in Entries)
      /\ \A i \in DOMAIN bucket : bucket[i] \in Cells
  BY TableKinds
<1>3. 0..n - 1 \subseteq D /\ D \subseteq Nat
  BY <1>1, <1>2
<1>4. TurnOf(Unmoved(n), 0, n, D, size, entries)
  <2>1. mem \in [D -> Cells] /\ \A i \in Used(bucket) : mem[i] = bucket[i]
    BY <1>2 DEF Cells
  <2>2. Apart(mem, {}, Used(bucket), Nothing)
    <3> HIDE DEF mem
    <3> QED
      BY <1>2, <2>1 DEF Apart, KeysDiffer
  <2>3. OnTheWay(mem, {}, Used(bucket), Nothing) = entries
    <3> HIDE DEF mem
    <3> QED
      BY <2>1 DEF OnTheWay
  <2>4. Counted({}, Used(bucket), Nothing, 0, size)
    <3>1. IsFiniteSet(0..o - 1)
      BY <1>2, FS_Interval
    <3>2. IsFiniteSet(Used(bucket))
      BY <1>2, <3>1, FS_Subset
    <3> QED
      BY <3>2, FS_EmptySet DEF Counted, InHand
  <2>5. \A i \in Used(bucket) : mem[i] \in Entries
    <3> HIDE DEF mem
    <3> QED
      BY <1>2, <2>1
  <2>6. TurnInv(mem, {}, Used(bucket), Nothing, 0, n, D, size, entries)
    <3>1. {} \subseteq 0..n - 1 /\ Used(bucket) \subseteq D /\ \A i \in {} : Settled(mem, {}, n, i)
      BY <1>2
    <3> HIDE DEF mem, D, entries
    <3> QED
      BY <2>1, <2>2, <2>3, <2>4, <2>5, <3>1 DEF TurnInv
  <2>7. Unmoved(n) = [mem |-> mem, old |-> Used(bucket), new |-> {}, carried |-> Nothing]
    BY DEF Unmoved
  <2> HIDE DEF mem, D, entries
  <2> QED
    BY <2>6, <2>7 DEF TurnOf
<1> HIDE DEF mem, D, entries
<1> DEFINE T == {k \in Nat : k <= size => TurnOf(Turns(n)[k], k, n, D, size, entries)}
<1>5. 0 \in T
  BY <1>4, TurnsRecur
<1>6. ASSUME NEW k \in T \cap Nat PROVE k + 1 \in T
  <2> SUFFICES ASSUME k + 1 <= size PROVE TurnOf(Turns(n)[k + 1], k + 1, n, D, size, entries)
    OBVIOUS
  <2>1. TurnOf(Turns(n)[k], k, n, D, size, entries) /\ k < size
    OBVIOUS
  <2>2. Turns(n)[k + 1] = Moved(Turns(n)[k], n)
    <3>1. k + 1 \in 1..size /\ (k + 1) - 1 = k
      OBVIOUS
    <3> QED
      BY <3>1, TurnsRecur
  <2>3. TurnOf(Moved(Turns(n)[k], n), k + 1, n, D, size, entries)
    BY <1>3, <2>1, TurnGoesOn
  <2> QED
    BY <2>2, <2>3
<1>7. size \in T
  <2> HIDE DEF T
  <2> QED
    BY <1>5, <1>6, SetInduction
<1>8. PICK t : t = Turns(n)[size]
  OBVIOUS
<1>9. TurnInv(t.mem, t.new, t.old, t.carried, size, n, D, size, entries)
  BY <1>7, <1>8 DEF TurnOf
<1>10. PICK m, new : m = t.mem /\ new = t.new
  OBVIOUS
<1>11. /\ m \in [D -> Cells] /\ new \subseteq 0..n - 1 /\ (\A i \in new : m[i] \in Entries)
       /\ Apart(m, new, t.old, t.carried) /\ OnTheWay(m, new, t.old, t.carried) = entries
       /\ Counted(new, t.old, t.carried, size, size) /\ t.carried \in Entries \cup {Nothing}
       /\ \A i \in new : Settled(m, new, n, i)
  BY <1>9, <1>10 DEF TurnInv
<1>12. t.old = {} /\ t.carried = Nothing
  <2>1. IsFiniteSet(t.old) /\ Cardinality(t.old) \in Nat /\ Cardinality(t.old) + InHand(t.carried) + size = size
    BY <1>11, FS_CardinalityType DEF Counted
  <2>2. InHand(t.carried) \in {0, 1}
    BY DEF InHand
  <2>3. Cardinality(t.old) = 0 /\ InHand(t.carried) = 0
    BY <2>1, <2>2
  <2> QED
    BY <2>1, <2>3, FS_EmptySet DEF InHand
<1>13. PICK c : c = [i \in 0..n - 1 |-> IF i \in new THEN m[i] ELSE Empty]
  OBVIOUS
<1>14. Rehashed(n) = c
  BY <1>8, <1>10, <1>13 DEF Rehashed
<1>15. \A i \in 0..n - 1 : c[i] = IF i \in new THEN m[i] ELSE Empty
  BY <1>13
<1>16. c \in [0..n - 1 -> Cells]
  <2>1. \A i \in 0..n - 1 : c[i] \in Cells
    BY <1>11, <1>15, CellKinds DEF Cells
  <2> QED
    BY <1>13, <2>1
<1>17. Used(c) = new
  <2>1. Used(c) = {i \in 0..n - 1 : c[i] \in Entries}
    BY <1>1, <1>16, BucketCount
  <2> QED
    BY <1>11, <1>15, <2>1, CellKinds
<1>18. KeysDiffer(c)
  BY <1>11, <1>15, <1>17 DEF KeysDiffer, Apart
<1>19. ASSUME NEW i \in Used(c) PROVE Reached(c, i, n)
  <2>1. i \in new /\ c[i] = m[i] /\ c[i][1] \in Keys
    BY <1>11, <1>15, <1>17, CellKinds
  <2>2. PICK k \in 0..n - 1 : Probe(m[i][1], k, n) = i /\ \A j \in 0..k - 1 : Probe(m[i][1], j, n) \in new
    BY <1>11, <2>1 DEF Settled
  <2>3. \A j \in new : c[j] # Empty
    BY <1>11, <1>15, CellKinds
  <2>4. Path(c, c[i][1], k, n)
    BY <2>1, <2>2, <2>3 DEF Path
  <2> QED
    BY <2>1, <2>2, <2>4 DEF Reached
<1>20. {i \in 0..n - 1 : c[i] = Empty} = (0..n - 1) \ new
  BY <1>11, <1>15, CellKinds
<1>21. Cardinality(new) = size
  BY <1>11 DEF Counted
<1>22. \E i \in 0..n - 1 : c[i] = Empty
  <2>1. Cardinality(0..n - 1) = n
    <3>1. Cardinality(0..n - 1) = IF 0 > n - 1 THEN 0 ELSE (n - 1) - 0 + 1
      BY <1>1, FS_Interval
    <3> QED
      BY <1>1, <3>1
  <2>2. new # 0..n - 1
    BY <1>21, <2>1
  <2> QED
    BY <1>11, <1>20, <2>2
<1>23. Table(c, n)
  BY <1>16, <1>18, <1>19, <1>22 DEF Table
<1>24. {c[i] : i \in Used(c)} = {bucket[i] : i \in Used(bucket)}
  <2>1. OnTheWay(m, new, {}, Nothing) = {m[i] : i \in new}
    BY DEF OnTheWay
  <2>2. {m[i] : i \in new} = entries
    BY <1>11, <1>12, <2>1
  <2>3. \A i \in new : c[i] = m[i]
    BY <1>11, <1>15
  <2>4. {c[i] : i \in new} = {m[i] : i \in new}
    BY <2>3
  <2> QED
    BY <1>17, <2>2, <2>4 DEF entries
<1>25. Contents(c) = Contents(bucket)
  BY <1>2, <1>18, <1>24, SameContents
<1> QED
  BY <1>14, <1>17, <1>20, <1>21, <1>23, <1>25

(***************************************************************************)
(* The inductive invariant: CountsAgree does not say that the entries can  *)
(* be found, nor that the size is a power of two, which the probes need.   *)
(***************************************************************************)

Free(b, n) == {i \in 0..n - 1 : b[i] = Empty}

Counts(b, n, m, occupied) == m = Cardinality(Used(b)) /\ occupied = n - Cardinality(Free(b, n))

KhashInv == \E n \in Nat : TableOrNone(bucket, n) /\ Counts(bucket, n, size, n_occupied)

LEMMA Interval ==
  ASSUME NEW n \in Nat
  PROVE  IsFiniteSet(0..n - 1) /\ Cardinality(0..n - 1) = n
<1>1. IsFiniteSet(0..n - 1) /\ Cardinality(0..n - 1) = IF 0 > n - 1 THEN 0 ELSE (n - 1) - 0 + 1
  BY FS_Interval
<1> QED
  BY <1>1

\* What the invariant says of the numbers.
LEMMA Numbers ==
  ASSUME NEW n, NEW b, TableOrNone(b, n), NEW m, NEW occupied, Counts(b, n, m, occupied)
  PROVE  /\ n \in Nat /\ m \in Nat /\ occupied \in 0..n /\ m <= occupied
         /\ IsFiniteSet(Used(b)) /\ IsFiniteSet(Free(b, n))
         /\ n = 0 => m = 0
         /\ n # 0 => Table(b, n) /\ occupied < n
<1>1. n \in Nat /\ Used(b) \subseteq 0..n - 1 /\ (\A i \in Used(b) : b[i] \in Entries)
  BY TableKinds
<1>2. Free(b, n) \subseteq 0..n - 1
  BY DEF Free
<1>3. IsFiniteSet(Used(b)) /\ IsFiniteSet(Free(b, n))
  BY <1>1, <1>2, Interval, FS_Subset
<1>4. Used(b) \cap Free(b, n) = {}
  BY <1>1, CellKinds DEF Free
<1>5. Cardinality({}) = 0
  BY FS_EmptySet
<1> DEFINE u == Cardinality(Used(b))
           f == Cardinality(Free(b, n))
<1>6. u \in Nat /\ f \in Nat
  BY <1>3, FS_CardinalityType
<1>7. u + f <= n
  <2>1. Cardinality(Used(b) \cup Free(b, n)) = u + f - 0
    BY <1>3, <1>4, <1>5, FS_Union
  <2>2. Used(b) \cup Free(b, n) \in SUBSET (0..n - 1)
    BY <1>1, <1>2
  <2>3. Cardinality(Used(b) \cup Free(b, n)) <= n
    BY <1>1, <2>2, Interval, FS_Subset
  <2> HIDE DEF u, f
  <2> QED
    BY <1>6, <2>1, <2>3
<1>8. ASSUME n # 0 PROVE Table(b, n) /\ f > 0
  <2>1. Table(b, n)
    BY <1>8 DEF TableOrNone
  <2>2. PICK i \in 0..n - 1 : b[i] = Empty
    BY <2>1 DEF Table
  <2>3. Free(b, n) # {}
    BY <2>2 DEF Free
  <2>4. f # 0
    BY <1>3, <2>3, FS_EmptySet
  <2> HIDE DEF f
  <2> QED
    BY <1>6, <2>1, <2>4
<1>9. m = u /\ occupied = n - f
  BY DEF Counts
<1> HIDE DEF u, f
<1> QED
  BY <1>1, <1>3, <1>6, <1>7, <1>8, <1>9

LEMMA InitKhash == Init => KhashInv
<1> SUFFICES ASSUME Init PROVE KhashInv
  OBVIOUS
<1>1. bucket = <<>> /\ size = 0 /\ n_occupied = 0
  BY DEF Init
<1>2. Free(bucket, 0) = {}
  BY DEF Free
<1>3. Cardinality({}) = 0
  BY FS_EmptySet
<1>4. Counts(bucket, 0, size, n_occupied)
  <2>1. Used(bucket) = {}
    BY <1>1, NoneIsEmpty
  <2>2. Cardinality(Used(bucket)) = 0 /\ Cardinality(Free(bucket, 0)) = 0
    BY <1>2, <1>3, <2>1
  <2>3. size = 0 /\ n_occupied = 0
    BY <1>1
  <2> QED
    BY <2>2, <2>3 DEF Counts
<1> QED
  BY <1>1, <1>4 DEF KhashInv, TableOrNone

LEMMA KhashInvImplies == KhashInv => CountsAgree
<1> SUFFICES ASSUME KhashInv PROVE CountsAgree
  OBVIOUS
<1>1. PICK n \in Nat : TableOrNone(bucket, n) /\ Counts(bucket, n, size, n_occupied)
  BY DEF KhashInv
<1>2. Buckets(bucket) = n /\ DOMAIN bucket = 0..n - 1 /\ \A i \in DOMAIN bucket : bucket[i] \in Cells
  BY <1>1, TableKinds
<1>3. {i \in DOMAIN bucket : bucket[i] = Empty} = Free(bucket, n)
  BY <1>2 DEF Free
<1>4. bucket \in [0..n - 1 -> Cells]
  <2>1. CASE bucket = <<>> /\ n = 0
    BY <1>2, <2>1
  <2>2. CASE Table(bucket, n)
    BY <2>2 DEF Table
  <2> QED
    BY <1>1, <2>1, <2>2 DEF TableOrNone
<1>5. bucket # <<>> => Free(bucket, n) # {}
  <2> SUFFICES ASSUME bucket # <<>> PROVE Free(bucket, n) # {}
    OBVIOUS
  <2>1. \E i \in 0..n - 1 : bucket[i] = Empty
    BY <1>1 DEF TableOrNone, Table
  <2> QED
    BY <2>1 DEF Free
<1> QED
  BY <1>1, <1>2, <1>3, <1>4, <1>5 DEF CountsAgree, Counts, Cells, Entries

\* kh_resize keeps the entries.
LEMMA ResizeKeeps ==
  ASSUME NEW o \in Nat, TableOrNone(bucket, o), Counts(bucket, o, size, n_occupied), NEW request \in Nat
  PROVE  \E n \in Nat :
            /\ TableOrNone(Resized(request).bucket, n)
            /\ Counts(Resized(request).bucket, n, size, Resized(request).n_occupied)
            /\ Contents(Resized(request).bucket) = Contents(bucket)
            /\ size < UpperBound(RoundUp(request)) =>
                  Table(Resized(request).bucket, n) /\ Resized(request).n_occupied < UpperBound(n)
<1>1. PICK n : n = RoundUp(request)
  OBVIOUS
<1>2. Capacity(n) /\ n \in Nat /\ n >= 4
  BY <1>1, RoundUpType DEF Capacity
<1>3. size \in Nat /\ UpperBound(n) \in Nat /\ UpperBound(n) < n
  BY <1>2, Numbers, UpperBounds
<1>4. CASE size >= UpperBound(n)
  <2>1. Resized(request).bucket = bucket /\ Resized(request).n_occupied = n_occupied
    BY <1>1, <1>4 DEF Resized
  <2> QED
    BY <1>1, <1>3, <1>4, <2>1
<1>5. CASE size < UpperBound(n)
  <2>1. PICK c : c = Rehashed(n)
    OBVIOUS
  <2>2. Resized(request).bucket = c /\ Resized(request).n_occupied = size
    BY <1>1, <1>3, <1>5, <2>1 DEF Resized
  <2>3. Cardinality(Used(bucket)) = size /\ size < n
    BY <1>2, <1>3, <1>5 DEF Counts
  <2>4. /\ Table(c, n) /\ Contents(c) = Contents(bucket) /\ Cardinality(Used(c)) = size
        /\ {i \in 0..n - 1 : c[i] = Empty} = (0..n - 1) \ Used(c)
    BY <1>2, <1>3, <2>1, <2>3, RehashedTable
  <2>5. Cardinality(Free(c, n)) = n - size
    <3>1. Used(c) \subseteq 0..n - 1
      BY <2>4, TableKinds DEF TableOrNone
    <3>2. (0..n - 1) \cap Used(c) = Used(c)
      BY <3>1
    <3>3. Cardinality((0..n - 1) \ Used(c)) = Cardinality(0..n - 1) - Cardinality((0..n - 1) \cap Used(c))
      BY <1>2, Interval, FS_Difference
    <3> QED
      BY <1>2, <2>4, <3>2, <3>3, Interval DEF Free
  <2>6. Counts(c, n, size, size)
    BY <1>2, <1>3, <2>4, <2>5 DEF Counts
  <2> QED
    BY <1>2, <1>5, <2>2, <2>4, <2>6 DEF TableOrNone
<1> QED
  BY <1>2, <1>3, <1>4, <1>5

\* The counters after an entry is written at x.
LEMMA CountsAfterPut ==
  ASSUME NEW n, NEW b, Table(b, n), NEW m, NEW occupied, Counts(b, n, m, occupied),
         NEW x \in 0..n - 1, NEW e \in Entries, NEW c, Replaced(b, c, x, e), Used(c) = Used(b) \cup {x}
  PROVE  Counts(c, n, IF x \in Used(b) THEN m ELSE m + 1, IF b[x] = Empty THEN occupied + 1 ELSE occupied)
<1>1. /\ n \in Nat /\ m \in Nat /\ occupied \in 0..n /\ IsFiniteSet(Used(b)) /\ IsFiniteSet(Free(b, n))
  BY Numbers DEF TableOrNone
<1>2. b \in [0..n - 1 -> Cells]
  BY DEF Table
<1>3. c[x] = e /\ e # Empty /\ \A i \in 0..n - 1 : i # x => c[i] = b[i]
  BY <1>2, CellKinds DEF Replaced
<1>4. Free(c, n) = Free(b, n) \ {x}
  BY <1>3 DEF Free
<1>5. Cardinality(Used(c)) = IF x \in Used(b) THEN m ELSE m + 1
  BY <1>1, FS_AddElement DEF Counts
<1>6. Cardinality(Free(c, n)) = IF x \in Free(b, n) THEN Cardinality(Free(b, n)) - 1 ELSE Cardinality(Free(b, n))
  BY <1>1, <1>4, FS_RemoveElement
<1>7. x \in Free(b, n) <=> b[x] = Empty
  BY DEF Free
<1>8. occupied = n - Cardinality(Free(b, n)) /\ Cardinality(Free(b, n)) \in Nat
  BY <1>1, FS_CardinalityType DEF Counts
<1>9. n - Cardinality(Free(c, n)) = IF b[x] = Empty THEN occupied + 1 ELSE occupied
  <2>1. CASE b[x] = Empty
    BY <1>1, <1>6, <1>7, <1>8, <2>1
  <2>2. CASE b[x] # Empty
    BY <1>1, <1>6, <1>7, <1>8, <2>2
  <2> QED
    BY <2>1, <2>2
<1> QED
  BY <1>5, <1>9 DEF Counts

\* An empty bucket is left beside any bucket of a table that is not full.
LEMMA AnotherEmpty ==
  ASSUME NEW n, NEW b, Table(b, n), NEW m, NEW occupied, Counts(b, n, m, occupied),
         occupied < UpperBound(n), NEW x
  PROVE  \E y \in 0..n - 1 : y # x /\ b[y] = Empty
<1>1. n \in Nat /\ n >= 4
  BY DEF Table, Capacity
<1>2. IsFiniteSet(Free(b, n)) /\ occupied \in 0..n /\ occupied = n - Cardinality(Free(b, n))
  BY Numbers DEF TableOrNone, Counts
<1>3. UpperBound(n) \in Nat /\ UpperBound(n) < n
  BY <1>1, UpperBounds
<1>4. Cardinality(Free(b, n)) \in Nat
  BY <1>2, FS_CardinalityType
<1>5. Cardinality(Free(b, n)) >= 2
  BY <1>1, <1>2, <1>3, <1>4
<1>6. IsFiniteSet(Free(b, n) \ {x}) /\ Cardinality(Free(b, n) \ {x}) >= 1
  <2>1. IsFiniteSet(Free(b, n) \ {x})
        /\ Cardinality(Free(b, n) \ {x}) = IF x \in Free(b, n) THEN Cardinality(Free(b, n)) - 1 ELSE Cardinality(Free(b, n))
    BY <1>2, FS_RemoveElement
  <2> QED
    BY <1>4, <1>5, <2>1
<1>7. Free(b, n) \ {x} # {}
  BY <1>6, FS_EmptySet
<1> QED
  BY <1>7 DEF Free

LEMMA PutStep ==
  ASSUME KhashInv, NEW key \in Keys, NEW v \in Values, Put(key, v)
  PROVE  KhashInv' /\ Map!Put(key)
<1>1. PICK o \in Nat : TableOrNone(bucket, o) /\ Counts(bucket, o, size, n_occupied)
  BY DEF KhashInv
<1>2. Buckets(bucket) = o
  BY <1>1, TableKinds
<1>3. PICK t : t = IF Full THEN Resized(Wanted) ELSE [bucket |-> bucket, n_occupied |-> n_occupied]
  OBVIOUS
<1>4. PICK n, b, occupied :
         /\ b = t.bucket /\ occupied = t.n_occupied
         /\ Table(b, n) /\ Counts(b, n, size, occupied) /\ occupied < UpperBound(n)
         /\ Contents(b) = Contents(bucket)
  <2>1. CASE Full
    <3>1. PICK w : w = Wanted
      OBVIOUS
    <3>2. w = IF o > 2 * size THEN o - 1 ELSE o + 1
      BY <1>2, <3>1 DEF Wanted
    <3>3. (o = 0 => size = 0) /\ (o # 0 => Capacity(o) /\ size < o) /\ size \in Nat
      <4>1. o \in Nat /\ size \in Nat /\ size <= n_occupied /\ n_occupied \in 0..o
            /\ (o = 0 => size = 0) /\ (o # 0 => Table(bucket, o) /\ n_occupied < o)
        BY <1>1, Numbers
      <4> QED
        BY <4>1 DEF Table
    <3>4. size < UpperBound(RoundUp(w))
      <4>1. size < UpperBound(RoundUp(IF o > 2 * size THEN o - 1 ELSE o + 1))
        BY <3>3, RoomAfterResize
      <4> QED
        BY <3>2, <4>1
    <3>5. w \in Nat
      BY <3>2, <3>3
    <3>6. PICK n \in Nat :
            /\ TableOrNone(Resized(w).bucket, n)
            /\ Counts(Resized(w).bucket, n, size, Resized(w).n_occupied)
            /\ Contents(Resized(w).bucket) = Contents(bucket)
            /\ size < UpperBound(RoundUp(w)) =>
                  Table(Resized(w).bucket, n) /\ Resized(w).n_occupied < UpperBound(n)
      BY <1>1, <3>5, ResizeKeeps
    <3>7. t = Resized(w)
      BY <1>3, <2>1, <3>1
    <3> QED
      BY <3>4, <3>6, <3>7
  <2>2. CASE ~Full
    <3>1. t.bucket = bucket /\ t.n_occupied = n_occupied
      BY <1>3, <2>2
    <3>2. ~ (n_occupied >= UpperBound(o))
      BY <1>2, <2>2 DEF Full
    <3>3. n_occupied \in Nat /\ UpperBound(o) \in Nat /\ n_occupied < UpperBound(o)
      BY <1>1, <3>2, Numbers, UpperBounds
    <3>4. o # 0
      <4> SUFFICES ASSUME o = 0 PROVE FALSE
        OBVIOUS
      <4>1. \A m \in Nat : m < UpperBound(o) => 100 * m + 100 <= 77 * o + 50
        BY UpperBounds
      <4> QED
        BY <3>3, <4>1
    <3>5. Table(bucket, o)
      BY <1>1, <3>4 DEF TableOrNone
    <3> QED
      BY <1>1, <3>1, <3>3, <3>5
  <2> QED
    BY <2>1, <2>2
<1>5. PICK x \in 0..n - 1 :
            /\ x = Site(b, key)
            /\ \E k \in 0..n - 1 : Probe(key, k, n) = x /\ Path(b, key, k, n)
            /\ x \in Used(b) => b[x][1] = key
            /\ x \notin Used(b) => \A i \in Used(b) : b[i][1] # key
  BY <1>4, SiteOf
<1>6. PICK y \in 0..n - 1 : y # x /\ b[y] = Empty
  BY <1>4, AnotherEmpty
<1>7. /\ bucket' = [b EXCEPT ![x] = <<IF x \in Used(b) THEN @[1] ELSE key, v>>]
      /\ size' = IF x \in Used(b) THEN size ELSE size + 1
      /\ n_occupied' = IF b[x] = Empty THEN occupied + 1 ELSE occupied
      /\ answer' = IF x \in Used(b) THEN "present" ELSE "new"
  BY <1>3, <1>4, <1>5 DEF Put
<1>8. PICK c : c = bucket'
  OBVIOUS
<1>9. Replaced(b, c, x, <<key, v>>)
  <2>1. (IF x \in Used(b) THEN b[x][1] ELSE key) = key
    BY <1>5
  <2>2. x \in DOMAIN b
    BY <1>4 DEF Table
  <2> QED
    BY <1>7, <1>8, <2>1, <2>2 DEF Replaced
<1>10. /\ Table(c, n) /\ Used(c) = Used(b) \cup {x}
       /\ Contents(c) = [k \in DOMAIN Contents(b) \cup {key} |-> IF k = key THEN v ELSE Contents(b)[k]]
       /\ x \in Used(b) <=> key \in DOMAIN Contents(b)
  BY <1>4, <1>5, <1>6, <1>9, Written
<1>11. <<key, v>> \in Entries
  BY CellKinds
<1>12. Counts(c, n, size', n_occupied')
  <2>1. Counts(c, n, IF x \in Used(b) THEN size ELSE size + 1, IF b[x] = Empty THEN occupied + 1 ELSE occupied)
    BY <1>4, <1>9, <1>10, <1>11, CountsAfterPut
  <2> QED
    BY <1>7, <2>1
<1>13. KhashInv'
  <2>1. n \in Nat
    BY <1>4 DEF Table, Capacity
  <2>2. TableOrNone(c, n)
    BY <1>10 DEF TableOrNone
  <2>3. TableOrNone(bucket', n) /\ Counts(bucket', n, size', n_occupied')
    BY <1>8, <1>12, <2>2
  <2> QED
    BY <2>1, <2>3 DEF KhashInv
<1>14. Contents(c) = [k \in DOMAIN Contents(bucket) \cup {key} |-> IF k = key THEN v ELSE Contents(bucket)[k]]
       /\ answer' = IF key \in DOMAIN Contents(bucket) THEN "present" ELSE "new"
  BY <1>4, <1>7, <1>10
<1>15. Map!Put(key)
  BY <1>8, <1>14 DEF Map!Put
<1> QED
  BY <1>13, <1>15

\* What kh_get finds.
LEMMA FoundIs ==
  ASSUME NEW o, TableOrNone(bucket, o), NEW key \in Keys
  PROVE  \/ Found(key) = {} /\ key \notin DOMAIN Contents(bucket)
         \/ \E i \in Used(bucket) : /\ Found(key) = {i} /\ bucket[i][1] = key
                                   /\ key \in DOMAIN Contents(bucket) /\ Contents(bucket)[key] = bucket[i][2]
<1>1. /\ o \in Nat /\ DOMAIN bucket = 0..o - 1 /\ KeysDiffer(bucket) /\ Buckets(bucket) = o
  BY TableKinds
<1>2. DOMAIN Contents(bucket) = KeysOf(bucket) /\ \A i \in Used(bucket) : Contents(bucket)[bucket[i][1]] = bucket[i][2]
  BY <1>1, ContentsOf
<1>3. CASE bucket = <<>>
  <2>1. Used(bucket) = {}
    BY <1>3, NoneIsEmpty
  <2>2. KeysOf(bucket) = {}
    BY <2>1 DEF KeysOf
  <2>3. Found(key) = {}
    BY <1>3 DEF Found
  <2> QED
    BY <1>2, <2>2, <2>3
<1>4. CASE bucket # <<>>
  <2>1. Table(bucket, o)
    BY <1>4 DEF TableOrNone
  <2>2. PICK s \in 0..o - 1, x \in 0..o - 1 :
            /\ s = Steps(bucket, key) /\ x = Probe(key, s, o) /\ Path(bucket, key, s, o)
            /\ (bucket[x] = Empty \/ Holds(bucket, x, key))
            /\ \A i \in Used(bucket) : bucket[i][1] = key => x = i /\ Holds(bucket, x, key)
    BY <2>1, Search
  <2>3. Found(key) = {i \in {x} : Holds(bucket, i, key)}
    BY <1>1, <1>4, <2>2 DEF Found
  <2>4. CASE Holds(bucket, x, key)
    <3>1. x \in Used(bucket) /\ bucket[x][1] = key
      BY <1>1, <2>2, <2>4 DEF Used, Holds
    <3>2. Found(key) = {x}
      BY <2>3, <2>4
    <3>3. key \in KeysOf(bucket)
      BY <3>1 DEF KeysOf
    <3>4. Contents(bucket)[key] = bucket[x][2]
      BY <1>2, <3>1
    <3> QED
      BY <1>2, <3>1, <3>2, <3>3, <3>4
  <2>5. CASE ~Holds(bucket, x, key)
    <3>1. Found(key) = {}
      BY <2>3, <2>5
    <3>2. key \notin KeysOf(bucket)
      BY <2>2, <2>5 DEF KeysOf
    <3> QED
      BY <1>2, <3>1, <3>2
  <2> QED
    BY <2>4, <2>5
<1> QED
  BY <1>3, <1>4

LEMMA GetStep ==
  ASSUME KhashInv, NEW key \in Keys, Get(key)
  PROVE  KhashInv' /\ Map!Get(key)
<1>1. PICK o \in Nat : TableOrNone(bucket, o) /\ Counts(bucket, o, size, n_occupied)
  BY DEF KhashInv
<1>2. /\ answer' = IF Found(key) = {} THEN Absent ELSE bucket[CHOOSE i \in Found(key) : TRUE][2]
      /\ bucket' = bucket /\ size' = size /\ n_occupied' = n_occupied
  BY DEF Get
<1>3. KhashInv'
  BY <1>1, <1>2 DEF KhashInv
<1>4. answer' = IF key \in DOMAIN Contents(bucket) THEN Contents(bucket)[key] ELSE Absent
  <2>1. CASE Found(key) = {} /\ key \notin DOMAIN Contents(bucket)
    BY <1>2, <2>1
  <2>2. CASE \E i \in Used(bucket) : /\ Found(key) = {i} /\ bucket[i][1] = key
                                    /\ key \in DOMAIN Contents(bucket) /\ Contents(bucket)[key] = bucket[i][2]
    <3>1. PICK i \in Used(bucket) : /\ Found(key) = {i} /\ bucket[i][1] = key
                                    /\ key \in DOMAIN Contents(bucket) /\ Contents(bucket)[key] = bucket[i][2]
      BY <2>2
    <3>2. (CHOOSE j \in {i} : TRUE) = i
      OBVIOUS
    <3> QED
      BY <1>2, <3>1, <3>2
  <2> QED
    BY <1>1, <2>1, <2>2, FoundIs
<1>5. Map!Get(key)
  BY <1>2, <1>4 DEF Map!Get
<1> QED
  BY <1>3, <1>5

LEMMA DelStep ==
  ASSUME KhashInv, NEW key \in Keys, Del(key)
  PROVE  KhashInv' /\ Map!Del(key)
<1>1. PICK n \in Nat : TableOrNone(bucket, n) /\ Counts(bucket, n, size, n_occupied)
  BY DEF KhashInv
<1>2. /\ Found(key) # {}
      /\ bucket' = [i \in DOMAIN bucket |-> IF i \in Found(key) THEN Deleted ELSE bucket[i]]
      /\ size' = size - 1 /\ n_occupied' = n_occupied /\ answer' = answer
  BY DEF Del
<1>3. PICK x \in Used(bucket) : Found(key) = {x} /\ bucket[x][1] = key
  BY <1>1, <1>2, FoundIs
<1>4. Table(bucket, n)
  <2>1. n # 0
    BY <1>1, <1>3, TableKinds
  <2> QED
    BY <1>1, <2>1 DEF TableOrNone
<1>5. /\ Capacity(n) /\ n > 0 /\ bucket \in [0..n - 1 -> Cells] /\ KeysDiffer(bucket)
      /\ Used(bucket) = {i \in 0..n - 1 : bucket[i] \in Entries}
  BY <1>4, BucketCount DEF Table, Capacity
<1>6. PICK c : c = bucket'
  OBVIOUS
<1>7. /\ c \in [0..n - 1 -> Cells] /\ c[x] = Deleted /\ \A i \in 0..n - 1 : i # x => c[i] = bucket[i]
  BY <1>2, <1>3, <1>5, <1>6 DEF Cells
<1>8. Used(c) = {i \in 0..n - 1 : c[i] \in Entries}
  BY <1>5, <1>7, BucketCount
<1>9. Used(c) = Used(bucket) \ {x} /\ \A i \in Used(c) : c[i] = bucket[i]
  BY <1>5, <1>7, <1>8, CellKinds
<1>10. KeysDiffer(c)
  BY <1>5, <1>9 DEF KeysDiffer
<1>11. \A i \in 0..n - 1 : c[i] = Empty <=> bucket[i] = Empty
  BY <1>3, <1>5, <1>7, CellKinds
<1>12. ASSUME NEW i \in Used(c) PROVE Reached(c, i, n)
  <2>1. i \in Used(bucket) /\ c[i] = bucket[i]
    BY <1>9
  <2>2. bucket[i][1] \in Keys
    BY <1>4, <2>1, UsedEntries
  <2>3. PICK k \in 0..n - 1 : Probe(bucket[i][1], k, n) = i /\ Path(bucket, bucket[i][1], k, n)
    BY <1>4, <2>1 DEF Table, Reached
  <2>4. Path(c, bucket[i][1], k, n)
    <3> SUFFICES ASSUME NEW j \in 0..k - 1 PROVE c[Probe(bucket[i][1], j, n)] # Empty
      BY DEF Path
    <3>1. bucket[Probe(bucket[i][1], j, n)] # Empty
      BY <2>3 DEF Path
    <3>2. Probe(bucket[i][1], j, n) \in 0..n - 1
      <4>1. j \in Nat
        OBVIOUS
      <4> QED
        BY <1>5, <2>2, <4>1, ProbeType
    <3> QED
      BY <1>11, <3>1, <3>2
  <2> QED
    BY <2>1, <2>3, <2>4 DEF Reached
<1>13. Table(c, n)
  <2>1. \E i \in 0..n - 1 : c[i] = Empty
    BY <1>4, <1>11 DEF Table
  <2> QED
    BY <1>5, <1>7, <1>10, <1>12, <2>1 DEF Table
<1>14. Counts(c, n, size', n_occupied')
  <2>1. Free(c, n) = Free(bucket, n)
    BY <1>11 DEF Free
  <2>2. IsFiniteSet(Used(bucket))
    BY <1>1, Numbers
  <2>3. Cardinality(Used(c)) = Cardinality(Used(bucket)) - 1
    BY <1>9, <2>2, FS_RemoveElement
  <2> QED
    BY <1>1, <1>2, <2>1, <2>3 DEF Counts
<1>15. KhashInv'
  <2>1. TableOrNone(bucket', n) /\ Counts(bucket', n, size', n_occupied')
    BY <1>6, <1>13, <1>14 DEF TableOrNone
  <2> QED
    BY <2>1 DEF KhashInv
<1>16. Contents(c) = [k \in DOMAIN Contents(bucket) \ {key} |-> Contents(bucket)[k]]
  <2>1. DOMAIN Contents(bucket) = KeysOf(bucket) /\ \A i \in Used(bucket) : Contents(bucket)[bucket[i][1]] = bucket[i][2]
    BY <1>5, ContentsOf
  <2>2. /\ DOMAIN Contents(c) = KeysOf(c) /\ \A i \in Used(c) : Contents(c)[c[i][1]] = c[i][2]
        /\ Contents(c) = [k \in DOMAIN Contents(c) |-> Contents(c)[k]]
    BY <1>10, ContentsOf
  <2>3. \A i \in Used(bucket) : i # x => bucket[i][1] # key
    BY <1>3, <1>5 DEF KeysDiffer
  <2>4. KeysOf(c) = KeysOf(bucket) \ {key}
    BY <1>3, <1>9, <2>3 DEF KeysOf
  <2>5. ASSUME NEW k \in KeysOf(c) PROVE Contents(c)[k] = Contents(bucket)[k]
    <3>1. PICK i \in Used(c) : k = c[i][1]
      BY DEF KeysOf
    <3>2. i \in Used(bucket) /\ c[i] = bucket[i]
      BY <1>9
    <3> QED
      BY <2>1, <2>2, <3>1, <3>2
  <2> QED
    BY <2>1, <2>2, <2>4, <2>5
<1>17. Map!Del(key)
  BY <1>2, <1>6, <1>16 DEF Map!Del
<1> QED
  BY <1>15, <1>17

LEMMA ClearStep ==
  ASSUME KhashInv, Clear
  PROVE  KhashInv' /\ Map!Clear
<1>1. PICK n \in Nat : TableOrNone(bucket, n) /\ Counts(bucket, n, size, n_occupied)
  BY DEF KhashInv
<1>2. /\ bucket # <<>> /\ bucket' = [i \in DOMAIN bucket |-> Empty]
      /\ size' = 0 /\ n_occupied' = 0 /\ answer' = answer
  BY DEF Clear
<1>3. Capacity(n) /\ n \in Nat /\ n >= 4 /\ DOMAIN bucket = 0..n - 1
  BY <1>1, <1>2, TableKinds DEF TableOrNone, Table, Capacity
<1>4. PICK c : c = bucket'
  OBVIOUS
<1>5. c = [i \in 0..n - 1 |-> Empty]
  BY <1>2, <1>3, <1>4
<1>6. c \in [0..n - 1 -> Cells] /\ \A i \in 0..n - 1 : c[i] = Empty
  BY <1>5 DEF Cells
<1>7. Used(c) = {}
  BY <1>3, <1>6, BucketCount, CellKinds
<1>8. KeysDiffer(c)
  BY <1>7 DEF KeysDiffer
<1>9. Table(c, n)
  BY <1>3, <1>6, <1>7, <1>8 DEF Table
<1>10. Free(c, n) = 0..n - 1
  BY <1>6 DEF Free
<1>11. Counts(c, n, 0, 0)
  <2>1. Cardinality(Used(c)) = 0 /\ Cardinality(Free(c, n)) = n
    BY <1>3, <1>7, <1>10, FS_EmptySet, Interval
  <2> QED
    BY <1>3, <2>1 DEF Counts
<1>12. KhashInv'
  <2>1. TableOrNone(bucket', n) /\ Counts(bucket', n, size', n_occupied')
    BY <1>2, <1>4, <1>9, <1>11 DEF TableOrNone
  <2> QED
    BY <2>1 DEF KhashInv
<1>13. Contents(c) = <<>>
  BY <1>7 DEF Contents
<1>14. Map!Clear
  BY <1>2, <1>4, <1>13 DEF Map!Clear
<1> QED
  BY <1>12, <1>14

LEMMA ResizeStep ==
  ASSUME KhashInv, NEW request \in Requests, Resize(request)
  PROVE  KhashInv' /\ Contents(bucket') = Contents(bucket) /\ answer' = answer
<1>1. PICK o \in Nat : TableOrNone(bucket, o) /\ Counts(bucket, o, size, n_occupied)
  BY DEF KhashInv
<1>2. request \in Nat
  BY TableAssumption
<1>3. /\ bucket' = Resized(request).bucket /\ n_occupied' = Resized(request).n_occupied
      /\ size' = size /\ answer' = answer
  BY DEF Resize
<1>4. PICK n \in Nat :
         /\ TableOrNone(Resized(request).bucket, n)
         /\ Counts(Resized(request).bucket, n, size, Resized(request).n_occupied)
         /\ Contents(Resized(request).bucket) = Contents(bucket)
  BY <1>1, <1>2, ResizeKeeps
<1>5. TableOrNone(bucket', n) /\ Counts(bucket', n, size', n_occupied') /\ Contents(bucket') = Contents(bucket)
  BY <1>3, <1>4
<1> QED
  BY <1>3, <1>5 DEF KhashInv

LEMMA KhashStep ==
  ASSUME KhashInv, [Next]_vars
  PROVE  KhashInv' /\ [Map!Next]_<<Contents(bucket), answer>>
<1>1. CASE UNCHANGED vars
  <2>1. bucket' = bucket /\ size' = size /\ n_occupied' = n_occupied /\ answer' = answer
    BY <1>1 DEF vars
  <2> QED
    BY <2>1 DEF KhashInv
<1>2. CASE PutFails
  <2>1. bucket' = bucket /\ size' = size /\ n_occupied' = n_occupied /\ answer' = "failed"
    BY <1>2 DEF PutFails
  <2>2. KhashInv'
    BY <2>1 DEF KhashInv
  <2>3. Map!PutFails
    BY <2>1 DEF Map!PutFails
  <2> QED
    BY <2>2, <2>3 DEF Map!Next
<1>3. CASE Clear
  BY <1>3, ClearStep DEF Map!Next
<1>4. ASSUME NEW key \in Keys, Get(key)
      PROVE  KhashInv' /\ [Map!Next]_<<Contents(bucket), answer>>
  BY <1>4, GetStep DEF Map!Next
<1>5. ASSUME NEW key \in Keys, Del(key)
      PROVE  KhashInv' /\ [Map!Next]_<<Contents(bucket), answer>>
  BY <1>5, DelStep DEF Map!Next
<1>6. ASSUME NEW key \in Keys, NEW v \in Values, Put(key, v)
      PROVE  KhashInv' /\ [Map!Next]_<<Contents(bucket), answer>>
  BY <1>6, PutStep DEF Map!Next
<1>7. ASSUME NEW request \in Requests, Resize(request)
      PROVE  KhashInv' /\ [Map!Next]_<<Contents(bucket), answer>>
  BY <1>7, ResizeStep
<1> QED
  BY <1>1, <1>2, <1>3, <1>4, <1>5, <1>6, <1>7 DEF Next

(***************************************************************************)
(* Theorems.                                                               *)
(***************************************************************************)

LEMMA KhashInvHolds == Spec => []KhashInv
<1>1. KhashInv /\ [Next]_vars => KhashInv'
  BY KhashStep
<1> QED
  BY <1>1, InitKhash, PTL DEF Spec

\* The counters agree with the flags whatever is put, deleted and rehashed, and an empty
\* bucket is always left for the probes of kh_resize to end at (khash.h:279).
THEOREM CountersAgree == Spec => []CountsAgree
<1>1. KhashInv => CountsAgree
  BY KhashInvImplies
<1> QED
  BY <1>1, KhashInvHolds, PTL

\* A table of any size, with any hash function, is a map: kh_put, kh_get and kh_del work on
\* the entry of the key, and a rehash within the arrays of the old table loses none.
THEOREM TableIsMap == Spec => ImplementsMap
<1>1. Init => Map!Init
  <2> SUFFICES ASSUME Init PROVE Map!Init
    OBVIOUS
  <2>1. bucket = <<>> /\ answer = Absent
    BY DEF Init
  <2>2. Used(bucket) = {}
    BY <2>1, NoneIsEmpty
  <2>3. Contents(bucket) = <<>>
    BY <2>2 DEF Contents
  <2> QED
    BY <2>1, <2>3 DEF Map!Init
<1>2. KhashInv /\ [Next]_vars => [Map!Next]_<<Contents(bucket), answer>>
  BY KhashStep
<1> QED
  BY <1>1, <1>2, KhashInvHolds, PTL DEF Spec, ImplementsMap, Map!Spec
=============================================================================
