--------------------------- MODULE EncodingsProofs ---------------------------
(***************************************************************************)
(* Proofs about LengthEncoding: what is written is read back               *)
(* (LengthsReadBack), in its place (WritesOnlyItsBytes), and writeBack     *)
(* stores what write stores (RewriteChangesNothing); and about Serde:      *)
(* objects are read back (ReadsBack), a call fails only for want of room   *)
(* (FailsOnlyWhenShort), and none leaves its bounds (StaysInside).         *)
(***************************************************************************)
EXTENDS MCEncodings, Integers, SequenceTheorems, WellFoundedInduction, TLAPS

(***************************************************************************)
(* Induction, for a set and not for a predicate, and functions defined by  *)
(* recursion.                                                              *)
(***************************************************************************)

LEMMA SetInduction ==
  ASSUME NEW T, 0 \in T, \A n \in T \cap Nat : n + 1 \in T
  PROVE  Nat \subseteq T
<1> DEFINE R == OpToRel(<, Nat)
           U == Nat \ T
<1> SUFFICES ASSUME U # {} PROVE FALSE
  OBVIOUS
<1>1. IsWellFoundedOn(R, Nat)
  BY NatLessThanWellFounded
<1>2. U \subseteq Nat
  OBVIOUS
<1>3. PICK x \in U : \A y \in U : ~ (<<y, x>> \in R)
  <2> HIDE DEF R, U
  <2> QED BY <1>1, <1>2, WFMin
<1>4. \A y \in U : <<y, x>> \in R <=> y < x
  BY <1>2 DEF OpToRel
<1>5. \A y \in U : ~ (y < x)
  BY <1>3, <1>4
<1>6. x # 0 /\ x - 1 \in Nat /\ x - 1 < x
  OBVIOUS
<1>7. x - 1 \in T
  BY <1>5, <1>6
<1>8. (x - 1) + 1 \in T
  BY <1>6, <1>7
<1> QED BY <1>8

\* Induction up to n.
LEMMA UpTo ==
  ASSUME NEW n \in Nat, NEW T, 0 \in T, \A k \in 0..n - 1 : k \in T => k + 1 \in T
  PROVE  0..n \subseteq T
<1> DEFINE U == {k \in Nat : k <= n => k \in T}
<1>1. 0 \in U
  OBVIOUS
<1>2. \A k \in U \cap Nat : k + 1 \in U
  OBVIOUS
<1>3. Nat \subseteq U
  <2> HIDE DEF U
  <2> QED
    BY <1>1, <1>2, SetInduction
<1> QED
  BY <1>3

LEMMA Keeps ==
  ASSUME NEW n \in Nat, NEW V, NEW t, t[0] \in V, \A k \in 1..n : t[k - 1] \in V => t[k] \in V
  PROVE  \A k \in 0..n : t[k] \in V
<1> DEFINE T == {k \in 0..n : t[k] \in V}
<1>1. 0 \in T
  OBVIOUS
<1>2. ASSUME NEW k \in 0..n - 1, k \in T PROVE k + 1 \in T
  <2>1. k + 1 \in 1..n /\ (k + 1) - 1 = k
    OBVIOUS
  <2> QED
    BY <1>2, <2>1
<1>3. 0..n \subseteq T
  <2> HIDE DEF T
  <2> QED
    BY <1>1, <1>2, UpTo
<1> QED
  BY <1>3

\* f begins with x and goes on by the steps, up to m.
Goes(f, V, x, step, m) ==
    f \in [0..m -> V] /\ f[0] = x /\ \A k \in 1..m : f[k] = step[k][f[k - 1]]

LEMMA GoesOn ==
  ASSUME NEW V, NEW x \in V, NEW n \in Nat, NEW step \in [1..n -> [V -> V]],
         NEW m \in Nat, m + 1 <= n, NEW f, Goes(f, V, x, step, m)
  PROVE  \E g : Goes(g, V, x, step, m + 1)
<1>1. f \in [0..m -> V] /\ f[0] = x /\ \A k \in 1..m : f[k] = step[k][f[k - 1]]
  BY DEF Goes
<1>2. step[m + 1] \in [V -> V] /\ f[m] \in V
  BY <1>1
<1>3. PICK y \in V : y = step[m + 1][f[m]]
  BY <1>2
<1> DEFINE g == [k \in 0..m + 1 |-> IF k <= m THEN f[k] ELSE y]
<1>4. g[m + 1] = y /\ \A k \in 0..m : g[k] = f[k]
  <2>1. m + 1 \in 0..m + 1 /\ ~ (m + 1 <= m)
    OBVIOUS
  <2> QED
    BY <1>1, <2>1
<1>5. g = [k \in 0..m + 1 |-> g[k]]
  OBVIOUS
<1> HIDE DEF g
<1>6. \A k \in 0..m + 1 : k \in 0..m \/ k = m + 1
  OBVIOUS
<1>7. \A k \in 0..m + 1 : g[k] \in V
  BY <1>1, <1>3, <1>4, <1>6
<1>8. \A k \in 1..m + 1 : g[k] = step[k][g[k - 1]]
  <2> TAKE k \in 1..m + 1
  <2>1. k - 1 \in 0..m /\ (k \in 1..m \/ k = m + 1)
    OBVIOUS
  <2>2. g[k - 1] = f[k - 1]
    BY <1>4, <2>1
  <2>3. CASE k \in 1..m
    <3>1. f[k] = step[k][f[k - 1]] /\ k \in 0..m
      BY <1>1, <2>3
    <3> QED
      BY <1>4, <2>2, <3>1
  <2>4. CASE k = m + 1
    <3>1. k - 1 = m
      BY <2>4
    <3> QED
      BY <1>3, <1>4, <2>2, <2>4, <3>1, Zenon
  <2> QED
    BY <2>1, <2>3, <2>4
<1>9. g[0] = x
  <2>1. 0 \in 0..m
    OBVIOUS
  <2> QED
    BY <1>1, <1>4, <2>1
<1>10. g \in [0..m + 1 -> V]
  BY <1>5, <1>7
<1> QED
  BY <1>8, <1>9, <1>10 DEF Goes

LEMMA Recursion ==
  ASSUME NEW V, NEW x \in V, NEW n \in Nat, NEW step \in [1..n -> [V -> V]]
  PROVE  \E f : Goes(f, V, x, step, n)
<1> DEFINE T == {m \in 0..n : \E f : Goes(f, V, x, step, m)}
<1>1. 0 \in T
  <2>1. Goes([k \in 0..0 |-> x], V, x, step, 0)
    BY DEF Goes
  <2> QED
    BY <2>1
<1>2. ASSUME NEW m \in 0..n - 1, m \in T PROVE m + 1 \in T
  <2>1. PICK f : Goes(f, V, x, step, m)
    BY <1>2
  <2>2. \E g : Goes(g, V, x, step, m + 1)
    BY <2>1, GoesOn
  <2> QED
    BY <2>2
<1>3. n \in T
  <2>1. n \in 0..n
    OBVIOUS
  <2> HIDE DEF T
  <2> QED
    BY <1>1, <1>2, <2>1, UpTo
<1> QED
  BY <1>3

\* The function that a recursion defines.
Recurs(f, x, step, n) == f = [k \in 0..n |-> IF k = 0 THEN x ELSE step[k][f[k - 1]]]

LEMMA Recursive ==
  ASSUME NEW V, NEW x \in V, NEW n \in Nat, NEW step \in [1..n -> [V -> V]]
  PROVE  \E f \in [0..n -> V] : Recurs(f, x, step, n)
<1>1. PICK f : Goes(f, V, x, step, n)
  BY Recursion
<1>2. f \in [0..n -> V] /\ f[0] = x /\ \A k \in 1..n : f[k] = step[k][f[k - 1]]
  BY <1>1 DEF Goes
<1>3. \A k \in 0..n : f[k] = IF k = 0 THEN x ELSE step[k][f[k - 1]]
  BY <1>2
<1>4. f = [k \in 0..n |-> IF k = 0 THEN x ELSE step[k][f[k - 1]]]
  BY <1>2, <1>3
<1> QED
  BY <1>2, <1>4 DEF Recurs

(***************************************************************************)
(* Numbers.                                                                *)
(***************************************************************************)

LEMMA RadixType ==
  Quarter \in Nat /\ Quarter > 0 /\ Radix \in Nat /\ Radix > 0 /\ Quarter < Radix
BY EncodingAssumption DEF Radix

LEMMA Quotient ==
  ASSUME NEW r \in Nat, r > 0, NEW n \in Nat
  PROVE  n \div r \in Nat /\ n % r \in 0..r - 1 /\ n = r * (n \div r) + (n % r)
OBVIOUS

LEMMA Smaller ==
  ASSUME NEW r \in Nat, r > 0, NEW n \in Nat, NEW b \in Nat, n < r * b
  PROVE  n \div r < b
<1>1. PICK q \in Nat, m \in Nat : n \div r = q /\ n = r * q + m
  BY Quotient
<1>2. CASE q < b
  BY <1>1, <1>2
<1>3. CASE b <= q
  <2>1. PICK d \in Nat : q = b + d
    BY <1>3
  <2>2. n = r * b + r * d + m /\ r * d \in Nat
    BY <1>1, <2>1
  <2> QED
    BY <2>2
<1> QED
  BY <1>1, <1>2, <1>3

LEMMA SmallRemainder ==
  ASSUME NEW r \in Nat, NEW n \in Nat, n < r
  PROVE  n % r = n /\ n \div r = 0
OBVIOUS

LEMMA Products ==
  ASSUME NEW r \in Nat, r > 0, NEW b \in Nat, b > 0
  PROVE  r * b \in Nat /\ r * b > 0
OBVIOUS

\* Limit is what its recursion says.
LEMMA Limits ==
  /\ \A k \in 0..7 : Limit[k] \in Nat /\ Limit[k] > 0
  /\ Limit[0] = Quarter
  /\ \A k \in 1..7 : Limit[k] = Radix * Limit[k - 1]
<1> DEFINE step == [k \in 1..7 |-> [l \in Nat |-> Radix * l]]
<1>1. Quarter \in Nat /\ Quarter > 0 /\ Radix \in Nat /\ Radix > 0
  BY RadixType
<1>2. step \in [1..7 -> [Nat -> Nat]]
  BY <1>1
<1>3. PICK f : Goes(f, Nat, Quarter, step, 7)
  <2> HIDE DEF step
  <2> QED
    BY <1>1, <1>2, Recursion
<1>4. f \in [0..7 -> Nat] /\ f[0] = Quarter /\ \A k \in 1..7 : f[k] = Radix * f[k - 1]
  BY <1>3 DEF Goes
<1>5. f = [k \in 0..7 |-> IF k = 0 THEN Quarter ELSE Radix * f[k - 1]]
  BY <1>4
<1>6. Limit = [k \in 0..7 |-> IF k = 0 THEN Quarter ELSE Radix * Limit[k - 1]]
  BY <1>5 DEF Limit
<1>7. Limit[0] = Quarter /\ \A k \in 1..7 : Limit[k] = Radix * Limit[k - 1]
  BY <1>6
<1> DEFINE T == {k \in Nat : k <= 7 => Limit[k] \in Nat /\ Limit[k] > 0}
<1>8. 0 \in T
  BY <1>1, <1>7
<1>9. ASSUME NEW k \in T \cap Nat PROVE k + 1 \in T
  <2> SUFFICES ASSUME k + 1 <= 7 PROVE Limit[k + 1] \in Nat /\ Limit[k + 1] > 0
    OBVIOUS
  <2>1. Limit[k] \in Nat /\ Limit[k] > 0
    OBVIOUS
  <2>2. Limit[k + 1] = Radix * Limit[k]
    BY <1>7
  <2> QED
    BY <1>1, <2>1, <2>2, Products
<1>10. Nat \subseteq T
  <2> HIDE DEF T
  <2> QED
    BY <1>8, <1>9, SetInduction
<1> QED
  BY <1>7, <1>10

\* Shifted is what its recursion says.
LEMMA Shifts ==
  ASSUME NEW length \in Nat
  PROVE  /\ Shifted(length) \in [0..7 -> Nat]
         /\ Shifted(length)[0] = length
         /\ \A k \in 1..7 : Shifted(length)[k] = Shifted(length)[k - 1] \div Radix
<1> DEFINE step == [k \in 1..7 |-> [l \in Nat |-> l \div Radix]]
<1>1. Radix \in Nat /\ Radix > 0
  BY RadixType
<1>2. step \in [1..7 -> [Nat -> Nat]]
  <2>1. \A l \in Nat : l \div Radix \in Nat
    BY <1>1, Quotient
  <2> QED
    BY <2>1
<1>3. PICK f : Goes(f, Nat, length, step, 7)
  <2> HIDE DEF step
  <2> QED
    BY <1>2, Recursion
<1>4. f \in [0..7 -> Nat] /\ f[0] = length /\ \A k \in 1..7 : f[k] = f[k - 1] \div Radix
  BY <1>3 DEF Goes
<1>5. f = [k \in 0..7 |-> IF k = 0 THEN length ELSE f[k - 1] \div Radix]
  BY <1>4
<1> DEFINE s == Shifted(length)
<1>6. s = [k \in 0..7 |-> IF k = 0 THEN length ELSE s[k - 1] \div Radix]
  BY <1>5 DEF Shifted
<1> HIDE DEF s
<1>7. s[0] = length /\ \A k \in 1..7 : s[k] = s[k - 1] \div Radix
  BY <1>6
<1> DEFINE T == {k \in Nat : k <= 7 => s[k] \in Nat}
<1>8. 0 \in T
  BY <1>7
<1>9. ASSUME NEW k \in T \cap Nat PROVE k + 1 \in T
  <2> SUFFICES ASSUME k + 1 <= 7 PROVE s[k + 1] \in Nat
    OBVIOUS
  <2>1. s[k] \in Nat
    OBVIOUS
  <2>2. s[k + 1] = s[k] \div Radix
    BY <1>7
  <2> QED
    BY <1>1, <2>1, <2>2, Quotient
<1>10. Nat \subseteq T
  <2> HIDE DEF T
  <2> QED
    BY <1>8, <1>9, SetInduction
<1>11. \A k \in 0..7 : s[k] \in Nat
  BY <1>10
<1>12. s \in [0..7 -> Nat]
  BY <1>6, <1>11
<1> QED
  BY <1>7, <1>12 DEF s

LEMMA MemoryType ==
  ASSUME NEW length \in Nat
  PROVE  /\ Memory(length) \in [0..7 -> Bytes]
         /\ \A k \in 0..7 : Memory(length)[k] = Shifted(length)[k] % Radix
<1>1. Radix \in Nat /\ Radix > 0
  BY RadixType
<1>2. Shifted(length) \in [0..7 -> Nat]
  BY Shifts
<1>3. \A k \in 0..7 : Shifted(length)[k] % Radix \in Bytes
  <2> TAKE k \in 0..7
  <2>1. Shifted(length)[k] \in Nat
    BY <1>2
  <2> QED
    BY <1>1, <2>1, Quotient DEF Bytes
<1> QED
  BY <1>3 DEF Memory

\* The digits of a length in j + 1 bytes: the last leaves room for the tag, and none follows.
LEMMA Digits ==
  ASSUME NEW length \in Nat, NEW j \in 0..7, length < Limit[j]
  PROVE  Shifted(length)[j] < Quarter /\ \A k \in j + 1..7 : Shifted(length)[k] = 0
<1> DEFINE s == Shifted(length)
<1>1. s \in [0..7 -> Nat] /\ s[0] = length /\ \A k \in 1..7 : s[k] = s[k - 1] \div Radix
  BY Shifts
<1>2. \A k \in 0..7 : Limit[k] \in Nat
  BY Limits
<1>3. Limit[0] = Quarter /\ \A k \in 1..7 : Limit[k] = Radix * Limit[k - 1]
  BY Limits
<1>4. Radix \in Nat /\ Radix > 0 /\ Quarter \in Nat /\ Quarter < Radix
  BY RadixType
<1> HIDE DEF s
<1> DEFINE T == {k \in Nat : k <= j => s[k] < Limit[j - k]}
<1>5. 0 \in T
  BY <1>1
<1>6. ASSUME NEW k \in T \cap Nat PROVE k + 1 \in T
  <2> SUFFICES ASSUME k + 1 <= j PROVE s[k + 1] < Limit[j - (k + 1)]
    OBVIOUS
  <2>1. s[k] < Limit[j - k] /\ k \in 0..7 /\ k + 1 \in 1..7 /\ j - k \in 1..7 /\ j - (k + 1) \in 0..7
    OBVIOUS
  <2>2. s[k] \in Nat /\ s[k + 1] = s[k] \div Radix
    BY <1>1, <2>1
  <2>3. Limit[j - k] = Radix * Limit[j - (k + 1)] /\ Limit[j - (k + 1)] \in Nat
    BY <1>2, <1>3, <2>1
  <2> QED
    BY <1>4, <2>1, <2>2, <2>3, Smaller
<1>7. j \in T
  <2> HIDE DEF T
  <2> QED
    BY <1>5, <1>6, SetInduction
<1>8. s[j] < Quarter
  BY <1>3, <1>7
<1> DEFINE Z == {k \in Nat : j + 1 + k <= 7 => s[j + 1 + k] = 0}
<1>9. 0 \in Z
  <2> SUFFICES ASSUME j + 1 <= 7 PROVE s[j + 1] = 0
    OBVIOUS
  <2>1. s[j] \in Nat /\ s[j + 1] = s[j] \div Radix
    BY <1>1
  <2> QED
    BY <1>4, <1>8, <2>1, SmallRemainder
<1>10. ASSUME NEW k \in Z \cap Nat PROVE k + 1 \in Z
  <2> SUFFICES ASSUME j + 1 + (k + 1) <= 7 PROVE s[j + 1 + (k + 1)] = 0
    OBVIOUS
  <2>1. s[j + 1 + k] = 0
    OBVIOUS
  <2>2. s[j + 1 + (k + 1)] = s[j + 1 + k] \div Radix
    BY <1>1
  <2> QED
    BY <1>4, <2>1, <2>2, SmallRemainder
<1>11. Nat \subseteq Z
  <2> HIDE DEF Z
  <2> QED
    BY <1>9, <1>10, SetInduction
<1>12. ASSUME NEW k \in j + 1..7 PROVE s[k] = 0
  <2>1. k - j - 1 \in Nat /\ j + 1 + (k - j - 1) = k /\ k <= 7
    OBVIOUS
  <2>2. PICK i \in Z : i = k - j - 1
    <3> HIDE DEF Z
    <3> QED
      BY <1>11, <2>1
  <2> QED
    BY <2>1, <2>2
<1> QED
  BY <1>8, <1>12 DEF s

\* Number is what its recursion says.
LEMMA Numbers ==
  ASSUME NEW p \in [0..7 -> Nat]
  PROVE  \E v \in [0..8 -> Nat] :
            /\ Number(p) = v[0] /\ v[8] = 0
            /\ \A k \in 0..7 : v[k] = p[k] + Radix * v[k + 1]
<1> DEFINE step == [k \in 1..8 |-> [x \in Nat |-> p[8 - k] + Radix * x]]
           number == CHOOSE v : v = [k \in 0..8 |-> IF k = 8 THEN 0 ELSE p[k] + Radix * v[k + 1]]
<1>1. Radix \in Nat /\ Radix > 0
  BY RadixType
<1>2. step \in [1..8 -> [Nat -> Nat]]
  <2>1. \A k \in 1..8, x \in Nat : p[8 - k] + Radix * x \in Nat
    BY <1>1
  <2> QED
    BY <2>1
<1>3. PICK f : Goes(f, Nat, 0, step, 8)
  <2> HIDE DEF step
  <2> QED
    BY <1>2, Recursion
<1>4. f \in [0..8 -> Nat] /\ f[0] = 0 /\ \A k \in 1..8 : f[k] = p[8 - k] + Radix * f[k - 1]
  BY <1>3 DEF Goes
<1> DEFINE g == [k \in 0..8 |-> f[8 - k]]
<1>5. g = [k \in 0..8 |-> IF k = 8 THEN 0 ELSE p[k] + Radix * g[k + 1]]
  <2>1. ASSUME NEW k \in 0..8 PROVE g[k] = IF k = 8 THEN 0 ELSE p[k] + Radix * g[k + 1]
    <3>1. CASE k = 8
      BY <1>4, <3>1
    <3>2. CASE k # 8
      <4>1. 8 - k \in 1..8 /\ 8 - (8 - k) = k /\ 8 - k - 1 = 8 - (k + 1) /\ k + 1 \in 0..8
        BY <3>2
      <4>2. f[8 - k] = p[8 - (8 - k)] + Radix * f[8 - k - 1]
        BY <1>4, <4>1
      <4>3. g[k] = f[8 - k] /\ g[k + 1] = f[8 - (k + 1)]
        BY <4>1
      <4> HIDE DEF g
      <4> QED
        BY <3>2, <4>1, <4>2, <4>3
    <3> QED
      BY <3>1, <3>2
  <2> QED
    BY <2>1
<1>6. number = [k \in 0..8 |-> IF k = 8 THEN 0 ELSE p[k] + Radix * number[k + 1]]
  BY <1>5
<1>7. Number(p) = number[0]
  BY DEF Number
<1> HIDE DEF number, g, step
<1>8. number[8] = 0 /\ \A k \in 0..7 : number[k] = p[k] + Radix * number[k + 1]
  BY <1>6
<1> DEFINE T == {k \in Nat : k <= 8 => number[8 - k] \in Nat}
<1>9. 0 \in T
  BY <1>8
<1>10. ASSUME NEW k \in T \cap Nat PROVE k + 1 \in T
  <2> SUFFICES ASSUME k + 1 <= 8 PROVE number[8 - (k + 1)] \in Nat
    OBVIOUS
  <2>1. number[8 - k] \in Nat /\ 8 - (k + 1) \in 0..7 /\ 8 - (k + 1) + 1 = 8 - k
    OBVIOUS
  <2>2. number[8 - (k + 1)] = p[8 - (k + 1)] + Radix * number[8 - k]
    BY <1>8, <2>1
  <2> QED
    BY <1>1, <2>1, <2>2
<1>11. Nat \subseteq T
  <2> HIDE DEF T
  <2> QED
    BY <1>9, <1>10, SetInduction
<1>12. ASSUME NEW k \in 0..8 PROVE number[k] \in Nat
  <2>1. 8 - k \in Nat /\ 8 - (8 - k) = k
    OBVIOUS
  <2>2. PICK i \in T : i = 8 - k
    <3> HIDE DEF T
    <3> QED
      BY <1>11, <2>1
  <2> QED
    BY <2>1, <2>2
<1>13. number \in [0..8 -> Nat]
  BY <1>6, <1>12
<1> QED
  BY <1>7, <1>8, <1>13

\* The bytes of a length make up the length.
LEMMA NumberOfMemory ==
  ASSUME NEW length \in Nat, length < Limit[7]
  PROVE  Number(Memory(length)) = length
<1> DEFINE s == Shifted(length)
<1>1. s \in [0..7 -> Nat] /\ s[0] = length /\ \A k \in 1..7 : s[k] = s[k - 1] \div Radix
  BY Shifts
<1>2. Memory(length) \in [0..7 -> Nat] /\ \A k \in 0..7 : Memory(length)[k] = s[k] % Radix
  <2>1. \A b \in Bytes : b \in Nat
    BY DEF Bytes
  <2> QED
    BY <2>1, MemoryType
<1>3. PICK v \in [0..8 -> Nat] :
         /\ Number(Memory(length)) = v[0] /\ v[8] = 0
         /\ \A k \in 0..7 : v[k] = Memory(length)[k] + Radix * v[k + 1]
  BY <1>2, Numbers
<1>4. Radix \in Nat /\ Radix > 0 /\ Quarter \in Nat /\ Quarter < Radix
  BY RadixType
<1>5. s[7] < Quarter
  BY Digits
<1> HIDE DEF s
<1> DEFINE T == {k \in Nat : k <= 7 => v[7 - k] = s[7 - k]}
<1>6. 0 \in T
  <2>1. v[7] = (s[7] % Radix) + Radix * 0
    BY <1>2, <1>3
  <2>2. s[7] % Radix = s[7]
    BY <1>1, <1>4, <1>5, SmallRemainder
  <2> QED
    BY <1>1, <1>4, <2>1, <2>2
<1>7. ASSUME NEW k \in T \cap Nat PROVE k + 1 \in T
  <2> SUFFICES ASSUME k + 1 <= 7 PROVE v[7 - (k + 1)] = s[7 - (k + 1)]
    OBVIOUS
  <2>1. PICK i \in 0..6 : i = 7 - (k + 1) /\ i + 1 = 7 - k
    OBVIOUS
  <2>2. v[i + 1] = s[i + 1]
    BY <2>1
  <2>3. v[i] = (s[i] % Radix) + Radix * v[i + 1]
    BY <1>2, <1>3
  <2>4. s[i + 1] = s[i] \div Radix /\ s[i] \in Nat
    BY <1>1
  <2>5. s[i] = Radix * (s[i] \div Radix) + (s[i] % Radix) /\ s[i] % Radix \in Nat /\ s[i] \div Radix \in Nat
    BY <1>4, <2>4, Quotient
  <2>6. v[i] = (s[i] % Radix) + Radix * (s[i] \div Radix)
    BY <2>2, <2>3, <2>4
  <2>7. v[i] = s[i]
    BY <1>4, <2>5, <2>6
  <2> QED
    BY <2>1, <2>7
<1>8. 7 \in T
  <2> HIDE DEF T
  <2> QED
    BY <1>6, <1>7, SetInduction
<1> QED
  BY <1>1, <1>3, <1>8

(***************************************************************************)
(* One length in the buffer.                                               *)
(***************************************************************************)

Count(length) == TwoTo(ByteCountLog(length))

\* The bytes that write stores for the length are at their place in d.
InPlace(d, at, length) ==
    \A i \in 0..Count(length) - 1 : d[at + i] = Tagged(length, ByteCountLog(length))[i]

LEMMA Counts ==
  ASSUME NEW length \in 0..lengthMax
  PROVE  /\ \/ ByteCountLog(length) = 0 /\ Count(length) = 1
            \/ ByteCountLog(length) = 1 /\ Count(length) = 2
            \/ ByteCountLog(length) = 3 /\ Count(length) = 8
         /\ length \in Nat /\ length < Limit[Count(length) - 1] /\ length < Limit[7]
<1>1. Limit[0] \in Nat /\ Limit[0] > 0 /\ Limit[1] \in Nat /\ Limit[1] = Radix * Limit[0] /\ Limit[7] \in Nat
  BY Limits
<1>2. Radix \in Nat /\ Radix > 0
  BY RadixType
<1>3. Limit[0] <= Limit[1]
  BY <1>1, <1>2
<1>4. length \in Nat /\ length < Limit[7]
  BY <1>1 DEF lengthMax
<1>5. TwoTo(0) = 1 /\ TwoTo(1) = 2 /\ TwoTo(3) = 8
  BY DEF TwoTo
<1>6. CASE length < Limit[0]
  <2>1. ByteCountLog(length) = 0
    BY <1>1, <1>3, <1>4, <1>6 DEF ByteCountLog, shortLengthMax, byteLengthMax
  <2> QED
    BY <1>4, <1>5, <1>6, <2>1 DEF Count
<1>7. CASE ~ (length < Limit[0]) /\ length < Limit[1]
  <2>1. ByteCountLog(length) = 1
    BY <1>1, <1>4, <1>7 DEF ByteCountLog, shortLengthMax, byteLengthMax
  <2> QED
    BY <1>4, <1>5, <1>7, <2>1 DEF Count
<1>8. CASE ~ (length < Limit[1])
  <2>1. ByteCountLog(length) = 3
    BY <1>1, <1>3, <1>4, <1>8 DEF ByteCountLog, shortLengthMax, byteLengthMax
  <2> QED
    BY <1>4, <1>5, <2>1 DEF Count
<1> QED
  BY <1>6, <1>7, <1>8

\* What is stored: digits, and the tag over the most significant one, which leaves it room.
LEMMA Stores ==
  ASSUME NEW length \in 0..lengthMax
  PROVE  LET c == Count(length)
             stored == Tagged(length, ByteCountLog(length))
             digit == Memory(length)
         IN  /\ digit[c - 1] \in 0..Quarter - 1
             /\ stored[0] = digit[c - 1] + ByteCountLog(length) * Quarter
             /\ \A i \in 1..c - 1 : stored[i] = digit[c - 1 - i]
             /\ \A k \in c..7 : digit[k] = 0
             /\ \A i \in 0..c - 1 : stored[i] \in Bytes
<1> DEFINE c == Count(length)
           log == ByteCountLog(length)
           stored == Tagged(length, log)
           digit == Memory(length)
<1>1. (log = 0 /\ c = 1) \/ (log = 1 /\ c = 2) \/ (log = 3 /\ c = 8)
  BY Counts
<1>2. length \in Nat /\ length < Limit[c - 1]
  BY Counts
<1>3. Quarter \in Nat /\ Quarter > 0 /\ Radix \in Nat /\ Radix > 0 /\ Quarter < Radix
  BY RadixType
<1>4. Shifted(length) \in [0..7 -> Nat]
  BY <1>2, Shifts
<1>5. Shifted(length)[c - 1] < Quarter /\ \A k \in c..7 : Shifted(length)[k] = 0
  <2>1. PICK j \in 0..7 : j = c - 1 /\ j + 1 = c
    BY <1>1
  <2> QED
    BY <1>2, <2>1, Digits
<1>6. digit \in [0..7 -> Bytes] /\ \A k \in 0..7 : digit[k] = Shifted(length)[k] % Radix
  BY <1>2, MemoryType
<1>7. digit[c - 1] \in 0..Quarter - 1
  <2>1. c - 1 \in 0..7
    BY <1>1
  <2>2. PICK n \in Nat : n = Shifted(length)[c - 1] /\ digit[c - 1] = n % Radix
    BY <1>4, <1>6, <2>1
  <2>3. n < Radix
    BY <1>3, <1>5, <2>2
  <2>4. n % Radix = n
    BY <1>3, <2>3, SmallRemainder
  <2> QED
    BY <1>3, <1>5, <2>2, <2>4
<1>8. \A k \in c..7 : digit[k] = 0
  <2> TAKE k \in c..7
  <2>1. k \in 0..7
    BY <1>1
  <2>2. digit[k] = 0 % Radix
    BY <1>5, <1>6, <2>1
  <2> QED
    BY <1>3, <2>2, SmallRemainder
<1>9. stored = [i \in 0..c - 1 |-> digit[c - 1 - i] + (IF i = 0 THEN log * Quarter ELSE 0)]
  BY DEF Tagged, Count
<1> HIDE DEF c, log, stored, digit
<1>10. stored[0] = digit[c - 1] + log * Quarter
  BY <1>1, <1>9
<1>11. \A i \in 1..c - 1 : stored[i] = digit[c - 1 - i]
  <2> TAKE i \in 1..c - 1
  <2>1. i \in 0..c - 1 /\ i # 0 /\ c - 1 - i \in 0..7
    BY <1>1
  <2>2. digit[c - 1 - i] \in Nat
    BY <1>6, <2>1 DEF Bytes
  <2> QED
    BY <1>9, <2>1, <2>2
<1>12. ASSUME NEW i \in 0..c - 1 PROVE stored[i] \in Bytes
  <2>1. CASE i = 0
    BY <1>1, <1>3, <1>7, <1>10, <2>1 DEF Bytes, Radix
  <2>2. CASE i # 0
    <3>1. i \in 1..c - 1 /\ c - 1 - i \in 0..7
      BY <1>1, <2>2
    <3> QED
      BY <1>6, <1>11, <3>1
  <2> QED
    BY <2>1, <2>2
<1> QED
  BY <1>7, <1>8, <1>10, <1>11, <1>12 DEF c, log, stored, digit

\* read undoes write.
LEMMA ReadsWhatIsWritten ==
  ASSUME NEW length \in 0..lengthMax, NEW from \in Nat, InPlace(data, from, length)
  PROVE  ByteCount(from) = Count(length) /\ Decoded(from) = length
<1> DEFINE c == Count(length)
           log == ByteCountLog(length)
           stored == Tagged(length, log)
           digit == Memory(length)
           read == [k \in 0..7 |-> IF k < c - 1 THEN data[from + c - 1 - k]
                                   ELSE IF k = c - 1 THEN data[from] % Quarter ELSE 0]
<1>1. (log = 0 /\ c = 1) \/ (log = 1 /\ c = 2) \/ (log = 3 /\ c = 8)
  BY Counts
<1>2. length \in Nat /\ length < Limit[7]
  BY Counts
<1>3. Quarter \in Nat /\ Quarter > 0
  BY RadixType
<1>4. digit[c - 1] \in 0..Quarter - 1 /\ stored[0] = digit[c - 1] + log * Quarter
  BY Stores
<1>5. (\A i \in 1..c - 1 : stored[i] = digit[c - 1 - i]) /\ \A k \in c..7 : digit[k] = 0
  BY Stores
<1>6. \A i \in 0..c - 1 : data[from + i] = stored[i]
  BY DEF InPlace
<1>7. digit = [k \in 0..7 |-> digit[k]]
  BY DEF Memory
<1>8. c = TwoTo(log)
  BY DEF Count
<1> HIDE DEF c, log, stored, digit
<1>9. data[from] = digit[c - 1] + log * Quarter
  <2>1. 0 \in 0..c - 1 /\ from + 0 = from
    BY <1>1
  <2>2. data[from] = stored[0]
    BY <1>6, <2>1
  <2> QED
    BY <1>4, <2>2
<1>10. data[from] \div Quarter = log /\ data[from] % Quarter = digit[c - 1]
  BY <1>1, <1>3, <1>4, <1>9
<1>11. ByteCount(from) = c
  BY <1>8, <1>10 DEF ByteCount
<1>12. ASSUME NEW k \in 0..7 PROVE read[k] = digit[k]
  <2>1. CASE k < c - 1
    <3>1. c - 1 - k \in 0..c - 1 /\ c - 1 - k \in 1..c - 1 /\ c - 1 - (c - 1 - k) = k
      BY <1>1, <2>1
    <3>2. data[from + (c - 1 - k)] = stored[c - 1 - k]
      BY <1>6, <3>1
    <3>3. stored[c - 1 - k] = digit[c - 1 - (c - 1 - k)]
      BY <1>5, <3>1
    <3>4. from + (c - 1 - k) = from + c - 1 - k
      BY <1>1
    <3> QED
      BY <2>1, <3>1, <3>2, <3>3, <3>4
  <2>2. CASE k = c - 1
    <3>1. ~ (k < c - 1)
      BY <1>1, <2>2
    <3> QED
      BY <1>10, <2>2, <3>1
  <2>3. CASE k > c - 1
    <3>1. ~ (k < c - 1) /\ k # c - 1 /\ k \in c..7
      BY <1>1, <2>3
    <3> QED
      BY <1>5, <3>1
  <2> QED
    BY <1>1, <2>1, <2>2, <2>3
<1>13. read = digit
  BY <1>7, <1>12
<1>14. Decoded(from) = Number(read)
  BY <1>11 DEF Decoded
<1>15. Number(digit) = length
  BY <1>2, NumberOfMemory DEF digit
<1> QED
  BY <1>11, <1>13, <1>14, <1>15 DEF c

LEMMA Storing ==
  ASSUME data \in [0..Size - 1 -> Bytes], NEW length \in 0..lengthMax,
         NEW dest \in Nat, dest + Count(length) <= Size,
         NEW d, d = Stored(dest, length, ByteCountLog(length))
  PROVE  /\ d \in [0..Size - 1 -> Bytes]
         /\ InPlace(d, dest, length)
         /\ \A i \in 0..Size - 1 : i < dest \/ i >= dest + Count(length) => d[i] = data[i]
         /\ InPlace(data, dest, length) => d = data
<1> DEFINE c == Count(length)
           stored == Tagged(length, ByteCountLog(length))
<1>1. c \in {1, 2, 8}
  BY Counts
<1>2. \A i \in 0..c - 1 : stored[i] \in Bytes
  BY Stores
<1>3. Size \in Nat
  BY EncodingAssumption
<1>4. d = [i \in 0..Size - 1 |-> IF i \in dest..dest + c - 1 THEN stored[i - dest] ELSE data[i]]
  BY DEF Stored, Count
<1>5. dest + c <= Size
  OBVIOUS
<1>6. InPlace(data, dest, length) <=> \A i \in 0..c - 1 : data[dest + i] = stored[i]
  BY DEF InPlace
<1>7. InPlace(d, dest, length) <=> \A i \in 0..c - 1 : d[dest + i] = stored[i]
  BY DEF InPlace
<1> HIDE DEF c, stored
<1>8. ASSUME NEW i \in 0..Size - 1 PROVE d[i] \in Bytes
  <2>1. CASE i \in dest..dest + c - 1
    <3>1. i - dest \in 0..c - 1
      BY <1>1, <2>1
    <3> QED
      BY <1>2, <1>4, <2>1, <3>1
  <2>2. CASE i \notin dest..dest + c - 1
    BY <1>4, <2>2
  <2> QED
    BY <2>1, <2>2
<1>9. d \in [0..Size - 1 -> Bytes]
  BY <1>4, <1>8
<1>10. \A i \in 0..c - 1 : d[dest + i] = stored[i]
  <2> TAKE i \in 0..c - 1
  <2>1. dest + i \in 0..Size - 1 /\ dest + i \in dest..dest + c - 1 /\ dest + i - dest = i
    BY <1>1, <1>3, <1>5
  <2> QED
    BY <1>4, <2>1
<1>11. \A i \in 0..Size - 1 : i < dest \/ i >= dest + c => d[i] = data[i]
  <2> TAKE i \in 0..Size - 1
  <2> HAVE i < dest \/ i >= dest + c
  <2>1. i \notin dest..dest + c - 1
    BY <1>1
  <2> QED
    BY <1>4, <2>1
<1>12. ASSUME \A i \in 0..c - 1 : data[dest + i] = stored[i] PROVE d = data
  <2>1. ASSUME NEW i \in 0..Size - 1 PROVE d[i] = data[i]
    <3>1. CASE i \in dest..dest + c - 1
      <4>1. i - dest \in 0..c - 1 /\ dest + (i - dest) = i
        BY <1>1, <3>1
      <4>2. data[dest + (i - dest)] = stored[i - dest]
        BY <1>12, <4>1
      <4>3. d[i] = stored[i - dest]
        BY <1>4, <3>1
      <4> QED
        BY <4>1, <4>2, <4>3
    <3>2. CASE i \notin dest..dest + c - 1
      BY <1>4, <3>2
    <3> QED
      BY <3>1, <3>2
  <2>2. d = [i \in 0..Size - 1 |-> d[i]] /\ data = [i \in 0..Size - 1 |-> data[i]]
    BY <1>9
  <2> QED
    BY <2>1, <2>2
<1> QED
  BY <1>6, <1>7, <1>9, <1>10, <1>11, <1>12 DEF c

(***************************************************************************)
(* A region: lengths in their places, one behind the other.                *)
(***************************************************************************)

Numerals == Seq(0..lengthMax)

\* o[j] is where the first j lengths of s end.
Region(d, start, stop, s, o) ==
    /\ o \in [0..Len(s) -> start..stop]
    /\ o[0] = start /\ o[Len(s)] = stop
    /\ \A j \in 1..Len(s) : o[j] = o[j - 1] + Count(s[j]) /\ InPlace(d, o[j - 1], s[j])

\* Bytes outside a region may change.
LEMMA RegionKept ==
  ASSUME NEW d, NEW e, NEW start \in Nat, NEW stop \in Nat,
         NEW s \in Numerals, NEW o, Region(d, start, stop, s, o),
         \A i \in start..stop - 1 : e[i] = d[i]
  PROVE  Region(e, start, stop, s, o)
<1>1. o \in [0..Len(s) -> start..stop] /\ o[0] = start /\ o[Len(s)] = stop
  BY DEF Region
<1>2. \A j \in 1..Len(s) : o[j] = o[j - 1] + Count(s[j]) /\ InPlace(d, o[j - 1], s[j])
  BY DEF Region
<1>3. Len(s) \in Nat /\ \A j \in 1..Len(s) : s[j] \in 0..lengthMax
  BY ElementOfSeq, LenProperties DEF Numerals
<1>4. ASSUME NEW j \in 1..Len(s) PROVE InPlace(e, o[j - 1], s[j])
  <2>1. j - 1 \in 0..Len(s) /\ j \in 0..Len(s)
    BY <1>3
  <2>2. PICK at \in start..stop, next \in start..stop : at = o[j - 1] /\ next = o[j]
    BY <1>1, <2>1
  <2>3. PICK c \in Nat : c = Count(s[j])
    <3>1. s[j] \in 0..lengthMax
      BY <1>3
    <3> QED
      BY <3>1, Counts
  <2>7. next = at + c
    BY <1>2, <2>2, <2>3
  <2>4. InPlace(d, at, s[j])
    BY <1>2, <2>2
  <2>5. ASSUME NEW i \in 0..c - 1 PROVE e[at + i] = d[at + i]
    <3>1. at + i \in start..stop - 1
      BY <2>7
    <3> QED
      BY <3>1
  <2>6. InPlace(e, at, s[j])
    BY <2>3, <2>4, <2>5 DEF InPlace
  <2> QED
    BY <2>2, <2>6
<1> QED
  BY <1>1, <1>2, <1>4 DEF Region

\* t is s with the length behind it, or before it.
Longer(s, length, t) ==
    /\ Len(t) = Len(s) + 1 /\ t[Len(s) + 1] = length
    /\ \A j \in 1..Len(s) : t[j] = s[j]

LongerBefore(s, length, t) ==
    /\ Len(t) = Len(s) + 1 /\ t[1] = length
    /\ \A j \in 1..Len(s) : t[j + 1] = s[j]

LEMMA RegionAppended ==
  ASSUME NEW d, NEW start \in Nat, NEW stop \in Nat,
         NEW s \in Numerals, NEW o, Region(d, start, stop, s, o),
         NEW length \in 0..lengthMax, NEW t, Longer(s, length, t), InPlace(d, stop, length)
  PROVE  \E p : Region(d, start, stop + Count(length), t, p)
<1>1. o \in [0..Len(s) -> start..stop] /\ o[0] = start /\ o[Len(s)] = stop
  BY DEF Region
<1>2. \A j \in 1..Len(s) : o[j] = o[j - 1] + Count(s[j]) /\ InPlace(d, o[j - 1], s[j])
  BY DEF Region
<1>3. PICK n \in Nat : n = Len(s) /\ Len(t) = n + 1
  BY LenProperties DEF Numerals, Longer
<1>4. t[n + 1] = length /\ \A j \in 1..n : t[j] = s[j]
  BY <1>3 DEF Longer
<1>5. PICK c \in Nat : c = Count(length)
  BY Counts
<1>6. start <= stop
  <2>1. 0 \in 0..n /\ o[0] \in start..stop
    BY <1>1, <1>3
  <2> QED
    BY <2>1
<1> DEFINE p == [j \in 0..n + 1 |-> IF j <= n THEN o[j] ELSE stop + c]
<1>7. p[n + 1] = stop + c
  OBVIOUS
<1>8. ASSUME NEW j \in 0..n PROVE p[j] = o[j] /\ o[j] \in start..stop
  BY <1>1, <1>3
<1>9. p = [j \in 0..n + 1 |-> p[j]]
  OBVIOUS
<1> HIDE DEF p
<1>10. ASSUME NEW j \in 0..n + 1 PROVE p[j] \in start..stop + c
  <2>1. CASE j \in 0..n
    <3>1. p[j] \in start..stop
      BY <1>8, <2>1
    <3> QED
      BY <3>1
  <2>2. CASE j = n + 1
    BY <1>6, <1>7, <2>2
  <2> QED
    BY <2>1, <2>2
<1>11. p \in [0..n + 1 -> start..stop + c]
  BY <1>9, <1>10
<1>12. p[0] = start
  <2>1. 0 \in 0..n
    OBVIOUS
  <2> QED
    BY <1>1, <1>8, <2>1, Zenon
<1>13. ASSUME NEW j \in 1..n + 1 PROVE p[j] = p[j - 1] + Count(t[j]) /\ InPlace(d, p[j - 1], t[j])
  <2>1. CASE j \in 1..n
    <3>1. j \in 0..n /\ j - 1 \in 0..n
      BY <2>1
    <3>2. p[j] = o[j] /\ p[j - 1] = o[j - 1] /\ t[j] = s[j]
      BY <1>4, <1>8, <2>1, <3>1, Zenon
    <3>3. o[j] = o[j - 1] + Count(s[j]) /\ InPlace(d, o[j - 1], s[j])
      BY <1>2, <1>3, <2>1, Zenon
    <3> QED
      BY <3>2, <3>3, Zenon
  <2>2. CASE j = n + 1
    <3>1. j - 1 = n /\ n \in 0..n
      BY <2>2
    <3>2. p[n] = stop
      BY <1>1, <1>3, <1>8, <3>1, Zenon
    <3> QED
      BY <1>4, <1>5, <1>7, <2>2, <3>1, <3>2, Zenon
  <2> QED
    BY <2>1, <2>2
<1>14. Region(d, start, stop + c, t, p)
  BY <1>3, <1>7, <1>11, <1>12, <1>13, Zenon DEF Region
<1> QED
  BY <1>5, <1>14

LEMMA RegionPrepended ==
  ASSUME NEW d, NEW start \in Nat, NEW stop \in Nat,
         NEW s \in Numerals, NEW o, Region(d, start, stop, s, o),
         NEW length \in 0..lengthMax, NEW t, LongerBefore(s, length, t),
         NEW first \in Nat, first + Count(length) = start, InPlace(d, first, length)
  PROVE  \E p : Region(d, first, stop, t, p)
<1>1. o \in [0..Len(s) -> start..stop] /\ o[0] = start /\ o[Len(s)] = stop
  BY DEF Region
<1>2. \A j \in 1..Len(s) : o[j] = o[j - 1] + Count(s[j]) /\ InPlace(d, o[j - 1], s[j])
  BY DEF Region
<1>3. PICK n \in Nat : n = Len(s) /\ Len(t) = n + 1
  BY LenProperties DEF Numerals, LongerBefore
<1>4. t[1] = length /\ \A j \in 1..n : t[j + 1] = s[j]
  BY <1>3 DEF LongerBefore
<1>5. PICK c \in Nat : c = Count(length) /\ first + c = start
  BY Counts
<1>6. start <= stop
  <2>1. 0 \in 0..n /\ o[0] \in start..stop
    BY <1>1, <1>3
  <2> QED
    BY <2>1
<1> DEFINE p == [j \in 0..n + 1 |-> IF j = 0 THEN first ELSE o[j - 1]]
<1>7. p[0] = first
  OBVIOUS
<1>8. ASSUME NEW j \in 1..n + 1 PROVE p[j] = o[j - 1] /\ o[j - 1] \in start..stop /\ j - 1 \in 0..n
  <2>1. j - 1 \in 0..n /\ j # 0 /\ j \in 0..n + 1
    OBVIOUS
  <2>2. p[j] = o[j - 1]
    BY <2>1
  <2>3. o[j - 1] \in start..stop
    BY <1>1, <1>3, <2>1
  <2> QED
    BY <2>1, <2>2, <2>3
<1>9. p = [j \in 0..n + 1 |-> p[j]]
  OBVIOUS
<1> HIDE DEF p
<1>10. ASSUME NEW j \in 0..n + 1 PROVE p[j] \in first..stop
  <2>1. CASE j \in 1..n + 1
    <3>1. p[j] \in start..stop
      BY <1>8, <2>1
    <3> QED
      BY <1>5, <3>1
  <2>2. CASE j = 0
    BY <1>5, <1>6, <1>7, <2>2
  <2> QED
    BY <2>1, <2>2
<1>11. p \in [0..n + 1 -> first..stop]
  BY <1>9, <1>10
<1>12. p[n + 1] = stop
  <2>1. n + 1 \in 1..n + 1 /\ n + 1 - 1 = n
    OBVIOUS
  <2>2. p[n + 1] = o[n + 1 - 1]
    BY <1>8, <2>1
  <2> QED
    BY <1>1, <1>3, <2>1, <2>2, Zenon
<1>13. ASSUME NEW j \in 1..n + 1 PROVE p[j] = p[j - 1] + Count(t[j]) /\ InPlace(d, p[j - 1], t[j])
  <2>1. CASE j = 1
    <3>1. j - 1 = 0
      BY <2>1
    <3>2. p[j] = o[0]
      BY <1>8, <3>1
    <3>3. p[j] = first + c
      BY <1>1, <1>5, <3>2
    <3> QED
      BY <1>4, <1>5, <1>7, <2>1, <3>1, <3>3, Zenon
  <2>2. CASE j # 1
    <3>1. PICK i \in 1..n : i = j - 1 /\ j = i + 1
      BY <2>2
    <3>2. p[j] = o[i] /\ t[j] = s[i]
      BY <1>4, <1>8, <3>1, Zenon
    <3>3. i \in 1..n + 1
      OBVIOUS
    <3>4. p[i] = o[i - 1]
      BY <1>8, <3>3
    <3>5. o[i] = o[i - 1] + Count(s[i]) /\ InPlace(d, o[i - 1], s[i])
      BY <1>2, <1>3, <3>1, Zenon
    <3> QED
      BY <3>1, <3>2, <3>4, <3>5, Zenon
  <2> QED
    BY <2>1, <2>2
<1>14. Region(d, first, stop, t, p)
  BY <1>3, <1>7, <1>11, <1>12, <1>13, Zenon DEF Region
<1> QED
  BY <1>14

LEMMA LongerByAppend ==
  ASSUME NEW s \in Numerals, NEW length \in 0..lengthMax
  PROVE  Append(s, length) \in Numerals /\ Longer(s, length, Append(s, length))
BY AppendProperties DEF Numerals, Longer

LEMMA LongerByConcat ==
  ASSUME NEW s \in Numerals, NEW length \in 0..lengthMax
  PROVE  <<length>> \o s \in Numerals /\ LongerBefore(s, length, <<length>> \o s)
<1>1. <<length>> \in Seq(0..lengthMax) /\ Len(<<length>>) = 1 /\ <<length>>[1] = length
  OBVIOUS
<1> DEFINE t == <<length>> \o s
<1>2. s \in Seq(0..lengthMax) /\ Len(s) \in Nat
  BY LenProperties DEF Numerals
<1>3. /\ t \in Seq(0..lengthMax) /\ Len(t) = Len(<<length>>) + Len(s)
      /\ \A i \in 1..Len(<<length>>) + Len(s) :
            t[i] = IF i <= Len(<<length>>) THEN <<length>>[i] ELSE s[i - Len(<<length>>)]
  BY <1>1, <1>2, ConcatProperties
<1>4. \A i \in 1..1 + Len(s) : t[i] = IF i <= 1 THEN <<length>>[i] ELSE s[i - 1]
  BY <1>1, <1>3
<1> HIDE DEF t
<1>5. t[1] = length
  BY <1>1, <1>2, <1>4
<1>6. ASSUME NEW j \in 1..Len(s) PROVE t[j + 1] = s[j]
  <2>1. j + 1 \in 1..1 + Len(s) /\ ~ (j + 1 <= 1) /\ j + 1 - 1 = j
    BY <1>2
  <2> QED
    BY <1>4, <2>1
<1>7. Len(t) = Len(s) + 1
  BY <1>1, <1>2, <1>3
<1> QED
  BY <1>3, <1>5, <1>6, <1>7 DEF Numerals, LongerBefore, t

(***************************************************************************)
(* The invariant: the buffer holds two regions with free bytes between     *)
(* them, and what is being read is one of them, or was one, and is still   *)
(* where it was; the reads so far ended where a length does.               *)
(***************************************************************************)

BufferInv ==
    /\ data \in [0..Size - 1 -> Bytes]
    /\ front \in Nat /\ back \in Nat /\ front <= back /\ back <= Size
    /\ written \in Numerals /\ writtenBack \in Numerals
    /\ \E o : Region(data, 0, front, written, o)
    /\ \E o : Region(data, back, Size, writtenBack, o)

\* The lengths read are the first ones of the region.
Matches(s, t) ==
    /\ Len(s) <= Len(t)
    /\ \A j \in 1..Len(s) : s[j] = t[j]

ReadRegion(start, o) ==
    /\ limit <= front \/ back <= start
    /\ Region(data, start, limit, expected, o)
    /\ cursor = o[Len(got)]

ReaderInv ==
    /\ limit \in Nat /\ limit <= Size
    /\ expected \in Numerals /\ got \in Numerals /\ Matches(got, expected)
    /\ \E start \in Nat : \E o : ReadRegion(start, o)

EncodingInv == BufferInv /\ ReaderInv

LEMMA EmptyRegion ==
  ASSUME NEW d, NEW start \in Nat
  PROVE  \E o : Region(d, start, start, <<>>, o)
<1> DEFINE o == [j \in 0..0 |-> start]
<1>1. o \in [0..0 -> start..start] /\ o[0] = start
  OBVIOUS
<1> HIDE DEF o
<1>2. Region(d, start, start, <<>>, o)
  BY <1>1 DEF Region
<1> QED
  BY <1>2

LEMMA InitEncoding ==
  ASSUME Init
  PROVE  EncodingInv
<1>1. Size \in Nat /\ Fill \subseteq Bytes
  BY EncodingAssumption
<1>2. front = 0 /\ back = Size /\ written = <<>> /\ writtenBack = <<>>
  BY DEF Init
<1>3. cursor = 0 /\ limit = 0 /\ expected = <<>> /\ got = <<>>
  BY DEF Init
<1>4. <<>> \in Numerals /\ Len(<<>>) = 0
  BY EmptySeq DEF Numerals
<1>5. data \in [0..Size - 1 -> Bytes]
  <2>1. PICK b \in Fill : data = [i \in 0..Size - 1 |-> b]
    BY DEF Init
  <2>2. b \in Bytes
    BY <1>1
  <2> QED
    BY <2>1, <2>2
<1>6. BufferInv
  <2>1. \E o : Region(data, 0, front, written, o)
    BY <1>2, EmptyRegion
  <2>2. \E o : Region(data, back, Size, writtenBack, o)
    BY <1>1, <1>2, EmptyRegion
  <2>3. front \in Nat /\ back \in Nat /\ front <= back /\ back <= Size
    BY <1>1, <1>2
  <2> QED
    BY <1>2, <1>4, <1>5, <2>1, <2>2, <2>3 DEF BufferInv
<1>7. ReaderInv
  <2>1. PICK o : Region(data, 0, 0, <<>>, o)
    BY EmptyRegion
  <2>2. o[0] = 0
    BY <2>1 DEF Region
  <2>3. ReadRegion(0, o)
    BY <1>2, <1>3, <1>4, <2>1, <2>2 DEF ReadRegion
  <2>4. Matches(got, expected)
    BY <1>3, <1>4 DEF Matches
  <2> QED
    BY <1>1, <1>3, <1>4, <2>3, <2>4 DEF ReaderInv
<1> QED
  BY <1>6, <1>7 DEF EncodingInv

\* The bytes that differ between d and e are those from first up to last.
DiffersOnly(d, e, first, last) ==
    \A i \in 0..Size - 1 : i < first \/ i >= last => e[i] = d[i]

LEMMA RegionBeside ==
  ASSUME NEW d, NEW e, NEW first \in Nat, NEW last \in Nat, first <= last,
         DiffersOnly(d, e, first, last),
         NEW start \in Nat, NEW stop \in Nat, stop <= Size, stop <= first \/ last <= start,
         NEW s \in Numerals, NEW o, Region(d, start, stop, s, o)
  PROVE  Region(e, start, stop, s, o)
<1>1. ASSUME NEW i \in start..stop - 1 PROVE e[i] = d[i]
  <2>1. i \in 0..Size - 1 /\ (i < first \/ i >= last)
    BY EncodingAssumption
  <2> QED
    BY <2>1 DEF DiffersOnly
<1> QED
  BY <1>1, RegionKept

\* What a step that stores one length between the regions does to the buffer.
LEMMA Stored1 ==
  ASSUME BufferInv, NEW length \in 0..lengthMax,
         NEW dest \in Nat, dest >= front, dest + Count(length) <= back,
         NEW d, d = Stored(dest, length, ByteCountLog(length))
  PROVE  /\ d \in [0..Size - 1 -> Bytes]
         /\ InPlace(d, dest, length)
         /\ DiffersOnly(data, d, dest, dest + Count(length))
<1>1. data \in [0..Size - 1 -> Bytes] /\ back <= Size /\ back \in Nat
  BY DEF BufferInv
<1>2. Count(length) \in Nat /\ Size \in Nat
  BY Counts, EncodingAssumption
<1>3. dest + Count(length) <= Size
  BY <1>1, <1>2
<1> QED
  BY <1>1, <1>3, Storing DEF DiffersOnly

\* It leaves the region being read alone.
LEMMA ReaderBeside ==
  ASSUME BufferInv, ReaderInv, UNCHANGED reader,
         NEW first \in Nat, NEW last \in Nat, first <= last, front <= first, last <= back,
         DiffersOnly(data, data', first, last),
         front' \in Nat, back' \in Nat, front <= front', back' <= back
  PROVE  ReaderInv'
<1>1. UNCHANGED <<cursor, limit, expected, got>>
  BY DEF reader
<1>2. /\ limit \in Nat /\ limit <= Size
      /\ expected \in Numerals /\ got \in Numerals /\ Matches(got, expected)
  BY DEF ReaderInv
<1>10. PICK start \in Nat : \E o : ReadRegion(start, o)
  BY DEF ReaderInv
<1>3. PICK o : ReadRegion(start, o)
  BY <1>10
<1>4. /\ limit <= front \/ back <= start
      /\ Region(data, start, limit, expected, o)
      /\ cursor = o[Len(got)]
  BY <1>3 DEF ReadRegion
<1>5. front \in Nat /\ back \in Nat
  BY DEF BufferInv
<1>6. limit <= first \/ last <= start
  BY <1>2, <1>4, <1>5
<1>7. Region(data', start, limit, expected, o)
  BY <1>2, <1>4, <1>6, RegionBeside
<1>8. limit <= front' \/ back' <= start
  BY <1>2, <1>4, <1>5
<1>9. ReadRegion(start, o)'
  BY <1>1, <1>4, <1>7, <1>8 DEF ReadRegion
<1> QED
  BY <1>1, <1>2, <1>9 DEF ReaderInv, Matches

LEMMA WriteStep ==
  ASSUME EncodingInv, NEW length \in Lengths, Write(length)
  PROVE  EncodingInv' /\ DiffersOnly(data, data', front, front')
<1>1. length \in 0..lengthMax
  BY EncodingAssumption
<1>2. PICK c \in Nat : c = Count(length)
  BY <1>1, Counts
<1>3. /\ front + c <= back /\ data' = Stored(front, length, ByteCountLog(length))
      /\ front' = front + c /\ written' = Append(written, length)
      /\ UNCHANGED <<back, writtenBack, reader>>
  BY <1>2 DEF Write, Count
<1>4. BufferInv /\ ReaderInv
  BY DEF EncodingInv
<1>5. /\ front \in Nat /\ back \in Nat /\ back <= Size
      /\ written \in Numerals /\ writtenBack \in Numerals
  BY <1>4 DEF BufferInv
<1>6. data' \in [0..Size - 1 -> Bytes] /\ InPlace(data', front, length)
  BY <1>1, <1>2, <1>3, <1>4, <1>5, Stored1
<1>7. DiffersOnly(data, data', front, front + c)
  BY <1>1, <1>2, <1>3, <1>4, <1>5, Stored1
<1>8. front <= front + c /\ front + c \in Nat /\ Size \in Nat /\ front <= Size
  BY <1>3, <1>5, EncodingAssumption
<1>9. PICK o : Region(data, 0, front, written, o)
  BY <1>4 DEF BufferInv
<1>10. PICK b : Region(data, back, Size, writtenBack, b)
  BY <1>4 DEF BufferInv
<1>11. Region(data', 0, front, written, o)
  BY <1>5, <1>7, <1>8, <1>9, RegionBeside
<1>12. Region(data', back, Size, writtenBack, b)
  BY <1>3, <1>5, <1>7, <1>8, <1>10, RegionBeside
<1>13. written' \in Numerals /\ Longer(written, length, written')
  BY <1>1, <1>3, <1>5, LongerByAppend
<1>14. \E p : Region(data', 0, front + c, written', p)
  BY <1>1, <1>2, <1>5, <1>6, <1>11, <1>13, RegionAppended
<1>15. BufferInv'
  <2>1. front' \in Nat /\ back' \in Nat /\ front' <= back' /\ back' <= Size
    BY <1>3, <1>5, <1>8
  <2>2. \E p : Region(data', 0, front', written', p)
    BY <1>3, <1>14
  <2>3. writtenBack' \in Numerals /\ \E p : Region(data', back', Size, writtenBack', p)
    BY <1>3, <1>5, <1>12
  <2> QED
    BY <1>6, <1>13, <2>1, <2>2, <2>3 DEF BufferInv
<1>16. ReaderInv'
  BY <1>3, <1>4, <1>5, <1>7, <1>8, ReaderBeside
<1> QED
  BY <1>3, <1>7, <1>15, <1>16 DEF EncodingInv

LEMMA WriteBackStep ==
  ASSUME EncodingInv, NEW length \in Lengths, WriteBack(length)
  PROVE  EncodingInv' /\ DiffersOnly(data, data', back', back)
<1>1. length \in 0..lengthMax
  BY EncodingAssumption
<1>2. PICK c \in Nat : c = Count(length)
  BY <1>1, Counts
<1>3. /\ back - c >= front /\ data' = Stored(back - c, length, ByteCountLog(length))
      /\ back' = back - c /\ writtenBack' = <<length>> \o writtenBack
      /\ UNCHANGED <<front, written, reader>>
  BY <1>2 DEF WriteBack, StoredBack, Count
<1>4. BufferInv /\ ReaderInv
  BY DEF EncodingInv
<1>5. /\ front \in Nat /\ back \in Nat /\ back <= Size
      /\ written \in Numerals /\ writtenBack \in Numerals
  BY <1>4 DEF BufferInv
<1>6. PICK dest \in Nat : dest = back - c /\ dest + c = back
  BY <1>3, <1>5
<1>18. data' = Stored(dest, length, ByteCountLog(length)) /\ dest >= front /\ dest + Count(length) <= back
  BY <1>2, <1>3, <1>5, <1>6
<1>7. data' \in [0..Size - 1 -> Bytes] /\ InPlace(data', dest, length)
  BY <1>1, <1>4, <1>18, Stored1
<1>8. DiffersOnly(data, data', dest, back)
  BY <1>1, <1>2, <1>4, <1>6, <1>18, Stored1
<1>9. dest <= back /\ front <= dest /\ Size \in Nat /\ front <= Size /\ dest <= Size
  BY <1>3, <1>5, <1>6, EncodingAssumption
<1>10. PICK o : Region(data, 0, front, written, o)
  BY <1>4 DEF BufferInv
<1>11. PICK b : Region(data, back, Size, writtenBack, b)
  BY <1>4 DEF BufferInv
<1>12. Region(data', 0, front, written, o)
  BY <1>5, <1>8, <1>9, <1>10, RegionBeside
<1>13. Region(data', back, Size, writtenBack, b)
  BY <1>5, <1>8, <1>9, <1>11, RegionBeside
<1>14. writtenBack' \in Numerals /\ LongerBefore(writtenBack, length, writtenBack')
  BY <1>1, <1>3, <1>5, LongerByConcat
<1>15. \E p : Region(data', dest, Size, writtenBack', p)
  BY <1>1, <1>2, <1>5, <1>6, <1>7, <1>9, <1>13, <1>14, RegionPrepended
<1>16. BufferInv'
  <2>1. front' \in Nat /\ back' \in Nat /\ front' <= back' /\ back' <= Size
    BY <1>3, <1>5, <1>6, <1>9
  <2>2. \E p : Region(data', back', Size, writtenBack', p)
    BY <1>3, <1>6, <1>15
  <2>3. written' \in Numerals /\ \E p : Region(data', 0, front', written', p)
    BY <1>3, <1>5, <1>12
  <2> QED
    BY <1>7, <1>14, <2>1, <2>2, <2>3 DEF BufferInv
<1>17. ReaderInv'
  BY <1>3, <1>4, <1>5, <1>6, <1>8, <1>9, ReaderBeside
<1> QED
  BY <1>3, <1>6, <1>8, <1>16, <1>17 DEF EncodingInv

\* The last length of a region is in its place, at its end.
LEMMA LastInPlace ==
  ASSUME NEW d, NEW start \in Nat, NEW stop \in Nat,
         NEW s \in Numerals, s # <<>>, NEW o, Region(d, start, stop, s, o)
  PROVE  /\ Last(s) \in 0..lengthMax
         /\ \E at \in start..stop : at + Count(Last(s)) = stop /\ InPlace(d, at, Last(s))
<1>1. PICK n \in Nat : n = Len(s) /\ n > 0
  BY LenProperties, EmptySeq DEF Numerals
<1>2. n \in 1..Len(s) /\ n - 1 \in 0..Len(s)
  BY <1>1
<1>3. Last(s) = s[n]
  BY <1>1 DEF Last
<1>4. s[n] \in 0..lengthMax
  BY <1>2, ElementOfSeq DEF Numerals
<1>5. o \in [0..Len(s) -> start..stop] /\ o[Len(s)] = stop
  BY DEF Region
<1>6. o[n] = o[n - 1] + Count(s[n]) /\ InPlace(d, o[n - 1], s[n])
  BY <1>2 DEF Region
<1>7. o[n - 1] \in start..stop /\ o[n] = stop
  BY <1>1, <1>2, <1>5
<1> QED
  BY <1>3, <1>4, <1>6, <1>7

\* writeBack over a length finds its bytes there.
LEMMA RewriteStep ==
  ASSUME EncodingInv, Rewrite
  PROVE  UNCHANGED vars
<1>1. /\ written # <<>>
      /\ data' = StoredBack(front, Last(written)).data
      /\ front' = StoredBack(front, Last(written)).start + Count(Last(written))
      /\ UNCHANGED <<back, written, writtenBack, reader>>
  BY DEF Rewrite, Count
<1>2. BufferInv
  BY DEF EncodingInv
<1>3. /\ data \in [0..Size - 1 -> Bytes] /\ written \in Numerals
      /\ front \in Nat /\ back \in Nat /\ front <= back /\ back <= Size
  BY <1>2 DEF BufferInv
<1>4. PICK o : Region(data, 0, front, written, o)
  BY <1>2 DEF BufferInv
<1>5. PICK length \in 0..lengthMax, at \in 0..front :
         length = Last(written) /\ at + Count(length) = front /\ InPlace(data, at, length)
  BY <1>1, <1>3, <1>4, LastInPlace
<1>6. PICK c \in Nat : c = Count(length)
  BY <1>5, Counts
<1>7. at \in Nat /\ at = front - c
  BY <1>3, <1>5, <1>6
<1>8. /\ StoredBack(front, length).start = front - c
      /\ StoredBack(front, length).data = Stored(front - c, length, ByteCountLog(length))
  BY <1>6 DEF StoredBack, Count
<1>9. at + Count(length) <= Size /\ Size \in Nat
  BY <1>3, <1>5, EncodingAssumption
<1>10. data' = Stored(at, length, ByteCountLog(length))
  BY <1>1, <1>5, <1>7, <1>8
<1>11. data' = data
  BY <1>3, <1>5, <1>7, <1>9, <1>10, Storing
<1>12. front' = front
  <2>1. front' = (front - c) + c
    BY <1>1, <1>5, <1>6, <1>8
  <2> QED
    BY <1>3, <1>6, <2>1
<1> QED
  BY <1>1, <1>11, <1>12 DEF vars, buffer

LEMMA StartReadStep ==
  ASSUME EncodingInv, StartRead
  PROVE  EncodingInv'
<1>1. UNCHANGED <<data, front, back, written, writtenBack>> /\ got' = <<>>
  BY DEF StartRead, buffer
<1>2. BufferInv
  BY DEF EncodingInv
<1>3. BufferInv'
  BY <1>1, <1>2 DEF BufferInv
<1>4. /\ front \in Nat /\ back \in Nat /\ front <= back /\ back <= Size
      /\ written \in Numerals /\ writtenBack \in Numerals
  BY <1>2 DEF BufferInv
<1>5. got' \in Numerals /\ Len(got') = 0 /\ Size \in Nat
  BY <1>1, EmptySeq, EncodingAssumption DEF Numerals
<1>6. ASSUME NEW t, expected' = t, t \in Numerals PROVE Matches(got', expected')
  <2>1. Len(t) \in Nat
    BY <1>6, LenProperties DEF Numerals
  <2> QED
    BY <1>5, <1>6, <2>1 DEF Matches
<1>7. CASE cursor' = 0 /\ limit' = front /\ expected' = written
  <2>1. PICK o : Region(data, 0, front, written, o)
    BY <1>2 DEF BufferInv
  <2>2. o[0] = 0
    BY <2>1 DEF Region
  <2>3. ReadRegion(0, o)'
    BY <1>1, <1>4, <1>5, <1>7, <2>1, <2>2 DEF ReadRegion
  <2>4. limit' \in Nat /\ limit' <= Size
    BY <1>4, <1>5, <1>7
  <2>5. Matches(got', expected') /\ expected' \in Numerals
    BY <1>4, <1>6, <1>7
  <2>6. \E at \in Nat : \E p : ReadRegion(at, p)'
    BY <1>4, <2>3
  <2>7. ReaderInv'
    BY <1>5, <2>4, <2>5, <2>6 DEF ReaderInv
  <2> QED
    BY <1>3, <2>7 DEF EncodingInv
<1>8. CASE cursor' = back /\ limit' = Size /\ expected' = writtenBack
  <2>8. PICK start \in Nat : start = back
    BY <1>4
  <2>1. PICK o : Region(data, start, Size, writtenBack, o)
    BY <1>2, <2>8 DEF BufferInv
  <2>2. o[0] = start
    BY <2>1 DEF Region
  <2>3. ReadRegion(start, o)'
    BY <1>1, <1>4, <1>5, <1>8, <2>1, <2>2, <2>8 DEF ReadRegion
  <2>4. limit' \in Nat /\ limit' <= Size
    BY <1>5, <1>8
  <2>5. Matches(got', expected') /\ expected' \in Numerals
    BY <1>4, <1>6, <1>8
  <2>6. \E at \in Nat : \E p : ReadRegion(at, p)'
    BY <2>3
  <2>7. ReaderInv'
    BY <1>5, <2>4, <2>5, <2>6 DEF ReaderInv
  <2> QED
    BY <1>3, <2>7 DEF EncodingInv
<1> QED
  BY <1>7, <1>8 DEF StartRead

\* The place where the next length is read, unless the region is at its end.
LEMMA NextLength ==
  ASSUME EncodingInv, NEW start \in Nat, NEW o, ReadRegion(start, o)
  PROVE  /\ cursor = limit <=> Len(got) = Len(expected)
         /\ Len(got) < Len(expected) =>
               /\ expected[Len(got) + 1] \in 0..lengthMax
               /\ InPlace(data, cursor, expected[Len(got) + 1]) /\ cursor \in Nat
               /\ o[Len(got) + 1] = cursor + Count(expected[Len(got) + 1])
<1>1. /\ limit \in Nat /\ expected \in Numerals /\ got \in Numerals /\ Len(got) <= Len(expected)
  BY DEF EncodingInv, ReaderInv, Matches
<1>2. PICK n \in Nat, k \in Nat : n = Len(expected) /\ k = Len(got)
  BY <1>1, LenProperties DEF Numerals
<1>3. Region(data, start, limit, expected, o) /\ cursor = o[k]
  BY <1>2 DEF ReadRegion
<1>4. o \in [0..n -> start..limit] /\ o[n] = limit
  BY <1>2, <1>3 DEF Region
<1>5. k \in 0..n
  BY <1>1, <1>2
<1>6. cursor \in start..limit
  BY <1>3, <1>4, <1>5
<1>7. CASE k = n
  BY <1>2, <1>3, <1>4, <1>7
<1>8. CASE k < n
  <2>1. PICK j \in 1..n : j = k + 1 /\ j - 1 = k
    BY <1>8
  <2>2. o[j] = o[j - 1] + Count(expected[j]) /\ InPlace(data, o[j - 1], expected[j])
    BY <1>2, <1>3, <2>1 DEF Region
  <2>3. expected[j] \in 0..lengthMax
    BY <1>1, <1>2, <2>1, ElementOfSeq DEF Numerals
  <2>4. PICK c \in Nat : c = Count(expected[j]) /\ c > 0
    BY <2>3, Counts
  <2>5. o[j] = cursor + c /\ InPlace(data, cursor, expected[j])
    BY <1>3, <2>1, <2>2, <2>4
  <2>6. o[j] \in start..limit
    BY <1>4, <2>1
  <2>7. cursor # limit /\ cursor \in Nat
    BY <1>1, <1>6, <2>4, <2>5, <2>6
  <2> QED
    BY <1>2, <1>8, <2>1, <2>3, <2>4, <2>5, <2>7
<1> QED
  BY <1>5, <1>7, <1>8

LEMMA ReadStep ==
  ASSUME EncodingInv, Read
  PROVE  EncodingInv'
<1>1. /\ cursor < limit
      /\ got' = Append(got, Decoded(cursor))
      /\ cursor' = cursor + ByteCount(cursor)
      /\ UNCHANGED <<data, front, back, written, writtenBack, limit, expected>>
  BY DEF Read, buffer
<1>2. BufferInv /\ ReaderInv
  BY DEF EncodingInv
<1>3. BufferInv'
  BY <1>1, <1>2 DEF BufferInv
<1>4. /\ limit \in Nat /\ limit <= Size
      /\ expected \in Numerals /\ got \in Numerals /\ Matches(got, expected)
  BY <1>2 DEF ReaderInv
<1>5. PICK start \in Nat : \E o : ReadRegion(start, o)
  BY <1>2 DEF ReaderInv
<1>6. PICK o : ReadRegion(start, o)
  BY <1>5
<1>7. PICK n \in Nat, k \in Nat : n = Len(expected) /\ k = Len(got) /\ k <= n
  BY <1>4, LenProperties DEF Numerals, Matches
<1>8. cursor # limit
  <2>1. CASE cursor = limit
    BY <1>1, <1>4, <2>1
  <2> QED
    BY <2>1
<1>9. k < n
  <2>1. k # n
    BY <1>6, <1>7, <1>8, NextLength
  <2> QED
    BY <1>7, <2>1
<1>10. /\ expected[k + 1] \in 0..lengthMax
       /\ InPlace(data, cursor, expected[k + 1]) /\ cursor \in Nat
       /\ o[k + 1] = cursor + Count(expected[k + 1])
  BY <1>6, <1>7, <1>9, NextLength
<1>11. ByteCount(cursor) = Count(expected[k + 1]) /\ Decoded(cursor) = expected[k + 1]
  BY <1>10, ReadsWhatIsWritten
<1>12. got' \in Numerals /\ Longer(got, expected[k + 1], got')
  BY <1>1, <1>4, <1>10, <1>11, LongerByAppend
<1>13. Len(got') = k + 1
  BY <1>7, <1>12 DEF Longer
<1>14. Matches(got', expected)
  <2>1. ASSUME NEW j \in 1..k + 1 PROVE got'[j] = expected[j]
    <3>1. CASE j \in 1..k
      BY <1>4, <1>7, <1>12, <3>1 DEF Matches, Longer
    <3>2. CASE j = k + 1
      BY <1>7, <1>12, <3>2 DEF Longer
    <3> QED
      BY <3>1, <3>2
  <2> QED
    BY <1>7, <1>9, <1>13, <2>1 DEF Matches
<1>15. cursor' = o[Len(got')]
  BY <1>1, <1>10, <1>11, <1>13
<1>16. ReadRegion(start, o)'
  BY <1>1, <1>6, <1>15 DEF ReadRegion
<1>17. ReaderInv'
  BY <1>1, <1>4, <1>12, <1>14, <1>16 DEF ReaderInv
<1> QED
  BY <1>3, <1>17 DEF EncodingInv

LEMMA StutterEncoding ==
  ASSUME EncodingInv, UNCHANGED vars
  PROVE  EncodingInv'
BY DEF vars, buffer, reader, EncodingInv, BufferInv, ReaderInv, ReadRegion, Matches

LEMMA EncodingStep ==
  ASSUME EncodingInv, [Next]_vars
  PROVE  EncodingInv'
<1>1. CASE \E length \in Lengths : Write(length) \/ WriteBack(length)
  <2>1. PICK length \in Lengths : Write(length) \/ WriteBack(length)
    BY <1>1
  <2> QED
    BY <2>1, WriteStep, WriteBackStep
<1>2. CASE Rewrite
  BY <1>2, RewriteStep, StutterEncoding
<1>3. CASE StartRead
  BY <1>3, StartReadStep
<1>4. CASE Read
  BY <1>4, ReadStep
<1>5. CASE UNCHANGED vars
  BY <1>5, StutterEncoding
<1> QED
  BY <1>1, <1>2, <1>3, <1>4, <1>5 DEF Next

\* The two regions and the one being read keep every length in its place.
THEOREM EncodingInvariant == Spec => []EncodingInv
<1>1. Init => EncodingInv
  BY InitEncoding
<1>2. EncodingInv /\ [Next]_vars => EncodingInv'
  BY EncodingStep
<1> QED
  BY <1>1, <1>2, PTL DEF Spec

(***************************************************************************)
(* What the lengths promise.                                               *)
(***************************************************************************)

\* Reading a region yields the lengths written to it, in order and none besides: for bytes
\* of any number of values, every buffer and all lengths up to lengthMax.
THEOREM EveryLengthReadBack == Spec => []LengthsReadBack
<1>1. EncodingInv => LengthsReadBack
  <2> SUFFICES ASSUME EncodingInv PROVE LengthsReadBack
    OBVIOUS
  <2>1. expected \in Numerals /\ got \in Numerals /\ Matches(got, expected)
    BY DEF EncodingInv, ReaderInv
  <2>2. PICK start \in Nat : \E o : ReadRegion(start, o)
    BY DEF EncodingInv, ReaderInv
  <2>3. PICK o : ReadRegion(start, o)
    BY <2>2
  <2>4. cursor = limit <=> Len(got) = Len(expected)
    BY <2>3, NextLength
  <2>5. IsPrefix(got, expected) /\ (Len(got) = Len(expected) <=> got = expected)
    BY <2>1 DEF Numerals, Matches, IsPrefix
  <2> QED
    BY <2>4, <2>5 DEF LengthsReadBack
<1> QED
  BY <1>1, EncodingInvariant, PTL

\* write and writeBack touch the bytes they report as written and no others; reading and
\* writing a length again touch none.
THEOREM NothingElseWritten == Spec => WritesOnlyItsBytes
<1>1. EncodingInv /\ [Next]_vars =>
         [\A i \in DOMAIN data : data'[i] # data[i] => i \in front..front' - 1 \/ i \in back'..back - 1]_vars
  <2> SUFFICES ASSUME EncodingInv, Next, NEW i \in DOMAIN data, data'[i] # data[i]
               PROVE  i \in front..front' - 1 \/ i \in back'..back - 1
    OBVIOUS
  <2>1. /\ data \in [0..Size - 1 -> Bytes] /\ front \in Nat /\ back \in Nat
        /\ i \in 0..Size - 1
    BY DEF EncodingInv, BufferInv
  <2>2. ASSUME NEW length \in Lengths, Write(length) PROVE i \in front..front' - 1
    <3>1. EncodingInv' /\ DiffersOnly(data, data', front, front')
      BY <2>2, WriteStep
    <3>2. front' \in Nat
      BY <3>1 DEF EncodingInv, BufferInv
    <3>4. i \in Int /\ front \in Int /\ back \in Int
      BY <2>1
    <3>3. ~ (i < front) /\ ~ (i >= front')
      BY <2>1, <3>1 DEF DiffersOnly
    <3> QED
      BY <3>2, <3>3, <3>4
  <2>3. ASSUME NEW length \in Lengths, WriteBack(length) PROVE i \in back'..back - 1
    <3>1. EncodingInv' /\ DiffersOnly(data, data', back', back)
      BY <2>3, WriteBackStep
    <3>2. back' \in Nat
      BY <3>1 DEF EncodingInv, BufferInv
    <3>4. i \in Int /\ front \in Int /\ back \in Int
      BY <2>1
    <3>3. ~ (i < back') /\ ~ (i >= back)
      BY <2>1, <3>1 DEF DiffersOnly
    <3> QED
      BY <3>2, <3>3, <3>4
  <2>4. ~ Rewrite
    <3> SUFFICES ASSUME Rewrite PROVE FALSE
      OBVIOUS
    <3>1. data' = data
      BY RewriteStep DEF vars, buffer
    <3> QED
      BY <3>1
  <2>5. ~ StartRead /\ ~ Read
    BY DEF StartRead, Read, buffer
  <2>6. PICK length \in Lengths : Write(length) \/ WriteBack(length)
    BY <2>4, <2>5 DEF Next
  <2> QED
    BY <2>2, <2>3, <2>6
<1> QED
  BY <1>1, EncodingInvariant, PTL DEF Spec, WritesOnlyItsBytes

\* writeBack is write from the other end: over what write stored, to the pointer it
\* returned, it stores the same bytes and returns where write began.
THEOREM RewritingIsIdle == Spec => RewriteChangesNothing
<1>1. EncodingInv /\ [Next]_vars =>
         [written' = written /\ writtenBack' = writtenBack => UNCHANGED buffer]_vars
  <2> SUFFICES ASSUME EncodingInv, Next, written' = written, writtenBack' = writtenBack
               PROVE  UNCHANGED buffer
    OBVIOUS
  <2>1. written \in Numerals /\ writtenBack \in Numerals
    BY DEF EncodingInv, BufferInv
  <2>2. Len(written) \in Nat /\ Len(writtenBack) \in Nat
    BY <2>1, LenProperties DEF Numerals
  <2>3. ASSUME NEW length \in Lengths, Write(length) PROVE FALSE
    <3>1. written' = Append(written, length) /\ length \in 0..lengthMax
      BY <2>3, EncodingAssumption DEF Write
    <3>2. Longer(written, length, written')
      BY <2>1, <3>1, LongerByAppend
    <3> QED
      BY <2>2, <3>2 DEF Longer
  <2>4. ASSUME NEW length \in Lengths, WriteBack(length) PROVE FALSE
    <3>1. writtenBack' = <<length>> \o writtenBack /\ length \in 0..lengthMax
      BY <2>4, EncodingAssumption DEF WriteBack
    <3>2. LongerBefore(writtenBack, length, writtenBack')
      BY <2>1, <3>1, LongerByConcat
    <3> QED
      BY <2>2, <3>2 DEF LongerBefore
  <2>5. Rewrite \/ StartRead \/ Read
    BY <2>3, <2>4 DEF Next
  <2>6. CASE Rewrite
    BY <2>6, RewriteStep DEF vars
  <2>7. CASE StartRead \/ Read
    BY <2>7 DEF StartRead, Read
  <2> QED
    BY <2>5, <2>6, <2>7
<1> QED
  BY <1>1, EncodingInvariant, PTL DEF Spec, RewriteChangesNothing

(***************************************************************************)
(* Serde: the prefix of a list.                                            *)
(***************************************************************************)

LEMMA SerdeConstants ==
  /\ Base \in Nat /\ Base > 0 /\ PrefixBytes \in Nat /\ PrefixBytes > 0
  /\ Width \in Nat /\ Width > 0 /\ ObjectBuffer \in Nat /\ S!Bytes \subseteq Nat
BY InstanceAssumption DEF S!SerdeAssumption, S!Bytes

LEMMA PrefixLimits ==
  /\ S!Limit[0] = 1
  /\ \A k \in 0..PrefixBytes : S!Limit[k] \in Nat
  /\ \A k \in 1..PrefixBytes : S!Limit[k] = Base * S!Limit[k - 1]
<1> DEFINE step == [k \in 1..PrefixBytes |-> [l \in Nat |-> Base * l]]
<1>1. PrefixBytes \in Nat /\ Base \in Nat
  BY SerdeConstants
<1>2. step \in [1..PrefixBytes -> [Nat -> Nat]]
  BY <1>1
<1>3. PICK f \in [0..PrefixBytes -> Nat] : Recurs(f, 1, step, PrefixBytes)
  <2> HIDE DEF step
  <2> QED
    BY <1>1, <1>2, Recursive
<1>4. \A k \in 1..PrefixBytes, l \in Nat : step[k][l] = Base * l
  OBVIOUS
<1>5. f = [k \in 0..PrefixBytes |-> IF k = 0 THEN 1 ELSE Base * f[k - 1]]
  <2> HIDE DEF step
  <2>1. f = [k \in 0..PrefixBytes |-> IF k = 0 THEN 1 ELSE step[k][f[k - 1]]]
    BY <1>3 DEF Recurs
  <2>2. \A k \in 0..PrefixBytes : k # 0 => k \in 1..PrefixBytes /\ f[k - 1] \in Nat
    BY <1>1
  <2> QED
    BY <1>4, <2>1, <2>2
<1>6. S!Limit = [k \in 0..PrefixBytes |-> IF k = 0 THEN 1 ELSE Base * S!Limit[k - 1]]
  BY <1>5 DEF S!Limit
<1>7. S!Limit[0] = 1 /\ \A k \in 1..PrefixBytes : S!Limit[k] = Base * S!Limit[k - 1]
  BY <1>1, <1>6
<1>8. \A k \in 1..PrefixBytes : S!Limit[k - 1] \in Nat => S!Limit[k] \in Nat
  BY <1>1, <1>7
<1>9. S!Limit[0] \in Nat
  BY <1>7
<1>10. \A k \in 0..PrefixBytes : S!Limit[k] \in Nat
  BY <1>1, <1>8, <1>9, Keeps
<1> QED
  BY <1>7, <1>10

LEMMA PrefixShifts ==
  ASSUME NEW length \in Nat
  PROVE  /\ S!Shifted(length)[0] = length
         /\ \A k \in 0..PrefixBytes : S!Shifted(length)[k] \in Nat
         /\ \A k \in 1..PrefixBytes : S!Shifted(length)[k] = S!Shifted(length)[k - 1] \div Base
<1> DEFINE step == [k \in 1..PrefixBytes |-> [l \in Nat |-> l \div Base]]
<1>1. PrefixBytes \in Nat /\ Base \in Nat /\ Base > 0
  BY SerdeConstants
<1>2. step \in [1..PrefixBytes -> [Nat -> Nat]]
  <2>1. \A l \in Nat : l \div Base \in Nat
    BY <1>1, Quotient
  <2> QED
    BY <2>1
<1>3. PICK f \in [0..PrefixBytes -> Nat] : Recurs(f, length, step, PrefixBytes)
  <2> HIDE DEF step
  <2> QED
    BY <1>1, <1>2, Recursive
<1>4. \A k \in 1..PrefixBytes, l \in Nat : step[k][l] = l \div Base
  OBVIOUS
<1>5. f = [k \in 0..PrefixBytes |-> IF k = 0 THEN length ELSE f[k - 1] \div Base]
  <2> HIDE DEF step
  <2>1. f = [k \in 0..PrefixBytes |-> IF k = 0 THEN length ELSE step[k][f[k - 1]]]
    BY <1>3 DEF Recurs
  <2>2. \A k \in 0..PrefixBytes : k # 0 => k \in 1..PrefixBytes /\ f[k - 1] \in Nat
    BY <1>1
  <2> QED
    BY <1>4, <2>1, <2>2
<1> DEFINE s == S!Shifted(length)
<1>6. s = [k \in 0..PrefixBytes |-> IF k = 0 THEN length ELSE s[k - 1] \div Base]
  BY <1>5 DEF S!Shifted
<1> HIDE DEF s
<1>7. s[0] = length /\ \A k \in 1..PrefixBytes : s[k] = s[k - 1] \div Base
  BY <1>1, <1>6
<1>8. ASSUME NEW k \in 1..PrefixBytes, s[k - 1] \in Nat PROVE s[k] \in Nat
  <2>1. s[k - 1] \div Base \in Nat
    BY <1>1, <1>8, Quotient
  <2> QED
    BY <1>7, <2>1
<1>9. \A k \in 0..PrefixBytes : s[k] \in Nat
  BY <1>1, <1>7, <1>8, Keeps
<1> QED
  BY <1>7, <1>9 DEF s

\* ReadUint is what its recursion, which goes downwards, says.
LEMMA UintIs ==
  ASSUME NEW p, \A k \in 0..PrefixBytes - 1 : bytes[p + k] \in Nat
  PROVE  \E v \in [0..PrefixBytes -> Nat] :
            /\ S!ReadUint(p) = v[0] /\ v[PrefixBytes] = 0
            /\ \A k \in 0..PrefixBytes - 1 : v[k] = bytes[p + k] + Base * v[k + 1]
<1> DEFINE n == PrefixBytes
           step == [k \in 1..n |-> [x \in Nat |-> bytes[p + (n - k)] + Base * x]]
           number == CHOOSE v : v = [k \in 0..n |-> IF k = n THEN 0 ELSE bytes[p + k] + Base * v[k + 1]]
<1>1. n \in Nat /\ Base \in Nat /\ n > 0
  BY SerdeConstants
<1>2. step \in [1..n -> [Nat -> Nat]]
  <2>1. ASSUME NEW k \in 1..n, NEW x \in Nat PROVE bytes[p + (n - k)] + Base * x \in Nat
    <3>1. n - k \in 0..n - 1
      BY <1>1
    <3>2. bytes[p + (n - k)] \in Nat
      BY <3>1
    <3> QED
      BY <1>1, <3>2
  <2> QED
    BY <2>1
<1>3. \A k \in 1..n, x \in Nat : step[k][x] = bytes[p + (n - k)] + Base * x
  OBVIOUS
<1>4. PICK f \in [0..n -> Nat] : Recurs(f, 0, step, n)
  <2> HIDE DEF step
  <2> QED
    BY <1>1, <1>2, Recursive
<1>5. f[0] = 0 /\ \A k \in 1..n : f[k - 1] \in Nat /\ f[k] = bytes[p + (n - k)] + Base * f[k - 1]
  <2> HIDE DEF step
  <2>1. f = [k \in 0..n |-> IF k = 0 THEN 0 ELSE step[k][f[k - 1]]]
    BY <1>4 DEF Recurs
  <2>2. \A k \in 1..n : k # 0 /\ k \in 0..n /\ f[k - 1] \in Nat
    BY <1>1
  <2>3. f[0] = 0
    BY <1>1, <2>1
  <2>4. ASSUME NEW k \in 1..n PROVE f[k] = bytes[p + (n - k)] + Base * f[k - 1]
    <3>1. f[k] = step[k][f[k - 1]]
      BY <2>1, <2>2
    <3>2. step[k][f[k - 1]] = bytes[p + (n - k)] + Base * f[k - 1]
      BY <1>3, <2>2
    <3> QED
      BY <3>1, <3>2
  <2> QED
    BY <2>2, <2>3, <2>4
<1> DEFINE g == [k \in 0..n |-> f[n - k]]
<1>6. \A k \in 0..n : g[k] = f[n - k]
  OBVIOUS
<1>7. g = [k \in 0..n |-> g[k]]
  OBVIOUS
<1>8. ASSUME NEW k \in 0..n PROVE g[k] = IF k = n THEN 0 ELSE bytes[p + k] + Base * g[k + 1]
  <2> HIDE DEF g
  <2>1. CASE k = n
    BY <1>1, <1>5, <1>6, <2>1
  <2>2. CASE k # n
    <3>1. PICK j \in 1..n : j = n - k /\ n - j = k /\ j - 1 = n - (k + 1) /\ k + 1 \in 0..n
      BY <1>1, <2>2
    <3>2. f[j] = bytes[p + (n - j)] + Base * f[j - 1]
      BY <1>5
    <3>3. g[k] = f[j] /\ g[k + 1] = f[j - 1]
      BY <1>6, <3>1
    <3> QED
      BY <2>2, <3>1, <3>2, <3>3
  <2> QED
    BY <2>1, <2>2
<1>9. g = [k \in 0..n |-> IF k = n THEN 0 ELSE bytes[p + k] + Base * g[k + 1]]
  <2> HIDE DEF g
  <2> QED
    BY <1>7, <1>8
<1>10. number = [k \in 0..n |-> IF k = n THEN 0 ELSE bytes[p + k] + Base * number[k + 1]]
  <2> HIDE DEF g
  <2> QED
    BY <1>9
<1>11. S!ReadUint(p) = number[0]
  BY DEF S!ReadUint
<1> HIDE DEF number, g, step
<1>12. number[n] = 0 /\ \A k \in 0..n - 1 : number[k] = bytes[p + k] + Base * number[k + 1]
  BY <1>1, <1>10
<1> DEFINE T == {k \in 0..n : number[n - k] \in Nat}
<1>13. 0..n \subseteq T
  <2>1. 0 \in T
    BY <1>1, <1>12
  <2>2. ASSUME NEW k \in 0..n - 1, k \in T PROVE k + 1 \in T
    <3>1. PICK j \in 0..n - 1 : j = n - (k + 1) /\ j + 1 = n - k
      BY <1>1
    <3>2. number[j + 1] \in Nat
      <4>1. number[n - k] \in Nat
        BY <2>2
      <4> QED
        BY <3>1, <4>1
    <3>3. number[j] = bytes[p + j] + Base * number[j + 1]
      BY <1>12
    <3>4. bytes[p + j] \in Nat
      OBVIOUS
    <3>5. PICK a \in Nat, b \in Nat : a = bytes[p + j] /\ b = number[j + 1]
      BY <3>2, <3>4
    <3>6. number[j] \in Nat
      <4>1. number[j] = a + Base * b
        BY <3>3, <3>5
      <4>2. a + Base * b \in Nat
        BY <1>1
      <4> QED
        BY <4>1, <4>2
    <3> QED
      BY <1>1, <3>1, <3>6
  <2> HIDE DEF T
  <2> QED
    BY <1>1, <2>1, <2>2, UpTo
<1>14. ASSUME NEW k \in 0..n PROVE number[k] \in Nat
  <2>1. PICK j \in 0..n : j = n - k /\ n - j = k
    BY <1>1
  <2>2. j \in T
    <3> HIDE DEF T
    <3> QED
      BY <1>13
  <2> QED
    BY <2>1, <2>2
<1>15. number \in [0..n -> Nat]
  BY <1>10, <1>14
<1> QED
  BY <1>11, <1>12, <1>15

\* The bytes of a length are at p.
Prefixed(d, length, p) == \A i \in 0..PrefixBytes - 1 : d[p + i] = S!Shifted(length)[i] % Base

\* They make up the length.
LEMMA PrefixRead ==
  ASSUME NEW p, NEW length \in Nat, length < S!Limit[PrefixBytes], Prefixed(bytes, length, p)
  PROVE  S!ReadUint(p) = length
<1> DEFINE n == PrefixBytes
           s == S!Shifted(length)
           L == S!Limit
<1>1. n \in Nat /\ Base \in Nat /\ Base > 0 /\ n > 0
  BY SerdeConstants
<1>2. L[0] = 1 /\ (\A k \in 0..n : L[k] \in Nat) /\ \A k \in 1..n : L[k] = Base * L[k - 1]
  BY PrefixLimits
<1>3. s[0] = length /\ (\A k \in 0..n : s[k] \in Nat) /\ \A k \in 1..n : s[k] = s[k - 1] \div Base
  BY PrefixShifts
<1>4. \A k \in 0..n - 1 : bytes[p + k] = s[k] % Base
  BY DEF Prefixed
<1> HIDE DEF s, L
<1>5. ASSUME NEW k \in 0..n - 1 PROVE bytes[p + k] \in Nat
  <2>1. s[k] \in Nat
    BY <1>1, <1>3
  <2>2. s[k] % Base \in Nat
    BY <1>1, <2>1, Quotient
  <2> QED
    BY <1>4, <2>2
<1>6. PICK v \in [0..n -> Nat] :
         /\ S!ReadUint(p) = v[0] /\ v[n] = 0
         /\ \A k \in 0..n - 1 : v[k] = bytes[p + k] + Base * v[k + 1]
  BY <1>5, UintIs
<1> DEFINE T == {k \in 0..n : s[k] < L[n - k]}
<1>7. 0..n \subseteq T
  <2>1. 0 \in T
    BY <1>1, <1>3 DEF L
  <2>2. ASSUME NEW k \in 0..n - 1, k \in T PROVE k + 1 \in T
    <3>1. PICK j \in 1..n : j = n - k /\ j - 1 = n - (k + 1) /\ j - 1 \in 0..n
      BY <1>1
    <3>2. s[k] < L[j] /\ L[j] = Base * L[j - 1] /\ L[j - 1] \in Nat /\ s[k] \in Nat
      BY <1>1, <1>2, <1>3, <2>2, <3>1
    <3>3. s[k] \div Base < L[j - 1]
      BY <1>1, <3>2, Smaller
    <3>4. s[k + 1] = s[k] \div Base
      BY <1>1, <1>3
    <3> QED
      BY <1>1, <3>1, <3>3, <3>4
  <2> HIDE DEF T
  <2> QED
    BY <1>1, <2>1, <2>2, UpTo
<1>8. s[n] = 0
  <2>1. s[n] < 1 /\ s[n] \in Nat
    BY <1>1, <1>2, <1>3, <1>7
  <2> QED
    BY <2>1
<1> DEFINE E == {k \in 0..n : v[n - k] = s[n - k]}
<1>9. 0..n \subseteq E
  <2>1. 0 \in E
    BY <1>1, <1>6, <1>8
  <2>2. ASSUME NEW k \in 0..n - 1, k \in E PROVE k + 1 \in E
    <3>1. PICK j \in 0..n - 1 : j = n - (k + 1) /\ j + 1 = n - k
      BY <1>1
    <3>2. v[j + 1] = s[j + 1] /\ s[j + 1] = s[j] \div Base /\ s[j] \in Nat
      BY <1>1, <1>3, <2>2, <3>1
    <3>3. v[j] = (s[j] % Base) + Base * (s[j] \div Base)
      <4>1. bytes[p + j] = s[j] % Base
        BY <1>4
      <4>2. v[j] = bytes[p + j] + Base * v[j + 1]
        BY <1>6
      <4>3. v[j + 1] = s[j] \div Base
        BY <3>2
      <4> QED
        BY <4>1, <4>2, <4>3
    <3>4. /\ s[j] = Base * (s[j] \div Base) + (s[j] % Base)
          /\ s[j] % Base \in Nat /\ s[j] \div Base \in Nat
      <4>1. PICK q \in Nat : q = s[j]
        BY <3>2
      <4>2. q \div Base \in Nat /\ q % Base \in 0..Base - 1 /\ q = Base * (q \div Base) + (q % Base)
        BY <1>1, Quotient
      <4> QED
        BY <1>1, <4>1, <4>2
    <3>5. v[j] = s[j]
      BY <1>1, <3>3, <3>4
    <3> QED
      BY <1>1, <3>1, <3>5
  <2> HIDE DEF E
  <2> QED
    BY <1>1, <2>1, <2>2, UpTo
<1>10. v[0] = s[0]
  <2>1. n \in E
    <3>1. n \in 0..n
      BY <1>1
    <3> HIDE DEF E
    <3> QED
      BY <1>9, <3>1
  <2>2. n - n = 0
    BY <1>1
  <2> QED
    BY <2>1, <2>2
<1> QED
  BY <1>3, <1>6, <1>10

(***************************************************************************)
(* Serde: serialization of a list of bytes.                                *)
(***************************************************************************)

Mem == [0..ObjectBuffer - 1 -> S!Bytes]

\* d differs from m only in a..b - 1.
Only(m, d, a, b) == \A i \in 0..ObjectBuffer - 1 : i < a \/ i >= b => d[i] = m[i]

ListAt(d, s, p) == \A i \in 1..Len(s) : d[p + i - 1] = s[i]

\* The list s, of elements of width bytes, is serialized in a..b - 1.
EncodesBytes(d, s, width, a, b) ==
    /\ b = a + PrefixBytes + Len(s)
    /\ Prefixed(d, Len(s) \div width, a)
    /\ ListAt(d, s, a + PrefixBytes)

LEMMA WritesPrefix ==
  ASSUME NEW m \in Mem, NEW length \in Nat, NEW p \in Nat, p + PrefixBytes <= ObjectBuffer
  PROVE  \E d \in Mem : /\ d = S!writeUint(length, p, m)
                        /\ Prefixed(d, length, p) /\ Only(m, d, p, p + PrefixBytes)
<1> DEFINE s == S!Shifted(length)
           d == S!writeUint(length, p, m)
<1>1. /\ Base \in Nat /\ Base > 0 /\ PrefixBytes \in Nat /\ PrefixBytes > 0
      /\ ObjectBuffer \in Nat /\ S!Bytes = 0..Base - 1
  BY SerdeConstants DEF S!Bytes
<1>2. \A k \in 0..PrefixBytes : s[k] \in Nat
  BY PrefixShifts
<1>3. DOMAIN m = 0..ObjectBuffer - 1 /\ \A i \in 0..ObjectBuffer - 1 : m[i] \in S!Bytes
  BY DEF Mem
<1>4. d = [i \in 0..ObjectBuffer - 1 |->
              IF i \in p..p + PrefixBytes - 1 THEN s[i - p] % Base ELSE m[i]]
  BY <1>3 DEF S!writeUint
<1> HIDE DEF s, d
<1>5. ASSUME NEW i \in p..p + PrefixBytes - 1 PROVE s[i - p] % Base \in S!Bytes
  <2>1. s[i - p] \in Nat
    <3>1. i - p \in 0..PrefixBytes
      BY <1>1
    <3> QED
      BY <1>2, <3>1
  <2> QED
    BY <1>1, <2>1, Quotient
<1>6. d \in Mem
  BY <1>3, <1>4, <1>5 DEF Mem
<1>7. ASSUME NEW i \in 0..PrefixBytes - 1 PROVE d[p + i] = s[i] % Base
  <2>1. PICK j \in 0..ObjectBuffer - 1 : j = p + i /\ j - p = i /\ j \in p..p + PrefixBytes - 1
    BY <1>1
  <2>2. d[j] = s[j - p] % Base
    BY <1>4, <2>1
  <2> QED
    BY <2>1, <2>2
<1>8. Only(m, d, p, p + PrefixBytes)
  BY <1>1, <1>4 DEF Only
<1> QED
  BY <1>6, <1>7, <1>8 DEF Prefixed, d, s

LEMMA Copies ==
  ASSUME NEW m \in Mem, NEW s \in Seq(S!Bytes), NEW p \in Nat, p + Len(s) <= ObjectBuffer
  PROVE  \E d \in Mem : /\ d = S!memcpy(p, s, m)
                        /\ ListAt(d, s, p) /\ Only(m, d, p, p + Len(s))
<1> DEFINE d == S!memcpy(p, s, m)
<1>1. ObjectBuffer \in Nat /\ Len(s) \in Nat /\ \A i \in 1..Len(s) : s[i] \in S!Bytes
  BY SerdeConstants
<1>2. DOMAIN m = 0..ObjectBuffer - 1 /\ \A i \in 0..ObjectBuffer - 1 : m[i] \in S!Bytes
  BY DEF Mem
<1>3. d = [i \in 0..ObjectBuffer - 1 |-> IF i \in p..p + Len(s) - 1 THEN s[i - p + 1] ELSE m[i]]
  BY <1>2 DEF S!memcpy
<1> HIDE DEF d
<1>4. ASSUME NEW i \in p..p + Len(s) - 1 PROVE s[i - p + 1] \in S!Bytes
  <2>1. i - p + 1 \in 1..Len(s)
    BY <1>1
  <2> QED
    BY <1>1, <2>1
<1>5. d \in Mem
  BY <1>2, <1>3, <1>4 DEF Mem
<1>6. ASSUME NEW i \in 1..Len(s) PROVE d[p + i - 1] = s[i]
  <2>1. PICK j \in 0..ObjectBuffer - 1 : j = p + i - 1 /\ j - p + 1 = i /\ j \in p..p + Len(s) - 1
    BY <1>1
  <2>2. d[j] = s[j - p + 1]
    BY <1>3, <2>1
  <2> QED
    BY <2>1, <2>2
<1>7. Only(m, d, p, p + Len(s))
  BY <1>1, <1>3 DEF Only
<1> QED
  BY <1>5, <1>6, <1>7 DEF ListAt, d

LEMMA OnlyMore ==
  ASSUME NEW m, NEW d, NEW a \in Int, NEW b \in Int, NEW e \in Int, NEW f \in Int,
         Only(m, d, a, b), e <= a, b <= f
  PROVE  Only(m, d, e, f)
<1>1. ObjectBuffer \in Nat
  BY SerdeConstants
<1> QED
  BY <1>1 DEF Only

LEMMA OnlyBoth ==
  ASSUME NEW m, NEW c, NEW d, NEW a, NEW b, Only(m, c, a, b), Only(c, d, a, b)
  PROVE  Only(m, d, a, b)
BY DEF Only

\* A list stays where nothing is written over it.
LEMMA BytesKept ==
  ASSUME NEW m, NEW d, NEW s \in Seq(S!Bytes), NEW width \in Nat, NEW a \in Nat, NEW b \in Nat,
         EncodesBytes(m, s, width, a, b), \A i \in a..b - 1 : d[i] = m[i]
  PROVE  EncodesBytes(d, s, width, a, b)
<1>1. PrefixBytes \in Nat /\ Len(s) \in Nat
  BY SerdeConstants
<1>2. b = a + PrefixBytes + Len(s)
  BY DEF EncodesBytes
<1>3. ASSUME NEW i \in 0..PrefixBytes - 1 PROVE d[a + i] = m[a + i]
  <2>1. a + i \in a..b - 1
    BY <1>1, <1>2
  <2> QED
    BY <2>1
<1>4. ASSUME NEW i \in 1..Len(s) PROVE d[a + PrefixBytes + i - 1] = m[a + PrefixBytes + i - 1]
  <2>1. a + PrefixBytes + i - 1 \in a..b - 1
    BY <1>1, <1>2
  <2> QED
    BY <2>1
<1>5. Prefixed(d, Len(s) \div width, a)
  BY <1>3 DEF EncodesBytes, Prefixed
<1>6. ListAt(d, s, a + PrefixBytes)
  BY <1>4 DEF EncodesBytes, ListAt
<1> QED
  BY <1>2, <1>5, <1>6 DEF EncodesBytes

Outs == [p : Int, mem : Mem]

\* What a call leaves: d is where the list was serialized if it fits, and m otherwise.
Serializes(out, m, s, width, dest, destEnd) ==
    /\ out \in Outs
    /\ Only(m, out.mem, dest, destEnd)
    /\ dest + PrefixBytes + Len(s) > destEnd => out.p = -1
    /\ dest + PrefixBytes + Len(s) <= destEnd =>
          out.p = dest + PrefixBytes + Len(s) /\ EncodesBytes(out.mem, s, width, dest, out.p)

LEMMA BytesSerialized ==
  ASSUME NEW m \in Mem, NEW s \in Seq(S!Bytes), NEW width \in Nat, width > 0,
         NEW dest \in Nat, NEW destEnd \in dest..ObjectBuffer
  PROVE  Serializes(S!SerializeBytes(s, width, dest, destEnd, m), m, s, width, dest, destEnd)
<1> DEFINE out == S!SerializeBytes(s, width, dest, destEnd, m)
           stop == dest + PrefixBytes + Len(s)
<1> SUFFICES Serializes(out, m, s, width, dest, destEnd)
  OBVIOUS
<1>1. PrefixBytes \in Nat /\ Len(s) \in Nat /\ stop \in Nat /\ ObjectBuffer \in Nat /\ destEnd \in Nat
  BY SerdeConstants
<1>2. CASE stop > destEnd
  <2>1. out = [p |-> -1, mem |-> m]
    BY <1>2 DEF S!SerializeBytes, S!nullptr
  <2>2. Only(m, m, dest, destEnd)
    BY DEF Only
  <2>3. ~ (stop <= destEnd)
    BY <1>1, <1>2
  <2> HIDE DEF out
  <2>4. out \in Outs /\ out.p = -1 /\ out.mem = m
    BY <2>1 DEF Outs
  <2> QED
    BY <2>2, <2>3, <2>4 DEF Serializes
<1>3. CASE stop <= destEnd
  <2>1. Len(s) \div width \in Nat
    BY <1>1, Quotient
  <2>2. PICK length \in Nat : length = Len(s) \div width
    BY <2>1
  <2>3. dest + PrefixBytes \in Nat /\ dest + PrefixBytes <= ObjectBuffer
        /\ dest + PrefixBytes + Len(s) <= ObjectBuffer
    BY <1>1, <1>3
  <2>4. PICK c \in Mem : /\ c = S!writeUint(length, dest, m)
                         /\ Prefixed(c, length, dest) /\ Only(m, c, dest, dest + PrefixBytes)
    BY <2>3, WritesPrefix
  <2>5. PICK p \in Nat : p = dest + PrefixBytes
    BY <2>3
  <2>6. PICK d \in Mem : d = S!memcpy(p, s, c) /\ ListAt(d, s, p) /\ Only(c, d, p, p + Len(s))
    BY <2>3, <2>5, Copies
  <2>7. out = [p |-> stop, mem |-> d]
    <3>1. ~ (stop > destEnd)
      BY <1>1, <1>3
    <3>2. out = [p |-> stop,
                 mem |-> S!memcpy(dest + PrefixBytes, s, S!writeUint(Len(s) \div width, dest, m))]
      BY <3>1 DEF S!SerializeBytes
    <3> QED
      BY <2>2, <2>4, <2>5, <2>6, <3>2
  <2>8. Only(m, d, dest, destEnd)
    <3>1. Only(m, c, dest, destEnd)
      BY <1>1, <1>3, <2>3, <2>4, OnlyMore
    <3>2. Only(c, d, dest, destEnd)
      BY <1>1, <1>3, <2>3, <2>5, <2>6, OnlyMore
    <3> QED
      BY <3>1, <3>2, OnlyBoth
  <2>9. Prefixed(d, length, dest)
    <3>1. ASSUME NEW i \in 0..PrefixBytes - 1 PROVE d[dest + i] = c[dest + i]
      <4>1. dest + i \in 0..ObjectBuffer - 1 /\ dest + i < p
        BY <1>1, <2>3, <2>5
      <4> QED
        BY <2>6, <4>1 DEF Only
    <3> QED
      BY <2>4, <3>1 DEF Prefixed
  <2>10. EncodesBytes(d, s, width, dest, stop)
    BY <2>2, <2>5, <2>6, <2>9 DEF EncodesBytes
  <2>11. ~ (stop > destEnd)
    BY <1>1, <1>3
  <2> HIDE DEF out
  <2>12. out \in Outs /\ out.p = stop /\ out.mem = d
    BY <1>1, <2>7 DEF Outs
  <2> QED
    BY <2>8, <2>10, <2>11, <2>12 DEF Serializes
<1> QED
  BY <1>1, <1>2, <1>3

(***************************************************************************)
(* Serde: serialization of a list of strings.                              *)
(***************************************************************************)

Strings == Seq(Seq(S!Bytes))

\* f[k]: what the first k strings take.
Sizes(strings, f) ==
    /\ f \in [0..Len(strings) -> Nat] /\ f[0] = 0
    /\ \A k \in 1..Len(strings) : f[k] = f[k - 1] + PrefixBytes + Len(strings[k])

LEMMA StringSizes ==
  ASSUME NEW strings \in Strings
  PROVE  \E f : Sizes(strings, f) /\ S!StringsSize(strings) = f[Len(strings)]
<1> DEFINE n == Len(strings)
           lens == [k \in 1..n |-> Len(strings[k])]
           step == [k \in 1..n |-> [x \in Nat |-> x + PrefixBytes + lens[k]]]
           sizes == CHOOSE f : f = [k \in 0..n |->
                        IF k = 0 THEN 0 ELSE f[k - 1] + PrefixBytes + Len(strings[k])]
<1>1. n \in Nat /\ PrefixBytes \in Nat /\ \A k \in 1..n : strings[k] \in Seq(S!Bytes)
  BY SerdeConstants DEF Strings
<1>2. lens \in [1..n -> Nat] /\ \A k \in 1..n : lens[k] = Len(strings[k])
  <2>1. \A k \in 1..n : Len(strings[k]) \in Nat
    BY <1>1
  <2> QED
    BY <2>1
<1> HIDE DEF lens
<1>3. step \in [1..n -> [Nat -> Nat]]
  BY <1>1, <1>2
<1>4. \A k \in 1..n, x \in Nat : step[k][x] = x + PrefixBytes + lens[k]
  OBVIOUS
<1>5. PICK f \in [0..n -> Nat] : Recurs(f, 0, step, n)
  <2> HIDE DEF step
  <2> QED
    BY <1>1, <1>3, Recursive
<1>6. f = [k \in 0..n |-> IF k = 0 THEN 0 ELSE f[k - 1] + PrefixBytes + Len(strings[k])]
  <2> HIDE DEF step
  <2>1. f = [k \in 0..n |-> IF k = 0 THEN 0 ELSE step[k][f[k - 1]]]
    BY <1>5 DEF Recurs
  <2>2. ASSUME NEW k \in 0..n, k # 0 PROVE k \in 1..n /\ f[k - 1] \in Nat
    <3>1. n \in Nat
      BY <1>1
    <3>2. k \in 1..n /\ k - 1 \in 0..n
      BY <2>2, <3>1
    <3> QED
      BY <3>2
  <2>3. ASSUME NEW k \in 0..n, k # 0 PROVE step[k][f[k - 1]] = f[k - 1] + PrefixBytes + Len(strings[k])
    <3>1. PICK r \in Nat : r = f[k - 1]
      BY <2>2, <2>3
    <3>2. step[k][r] = r + PrefixBytes + Len(strings[k])
      BY <1>2, <1>4, <2>2, <2>3
    <3> QED
      BY <3>1, <3>2
  <2> QED
    BY <2>1, <2>3
<1>7. sizes = [k \in 0..n |-> IF k = 0 THEN 0 ELSE sizes[k - 1] + PrefixBytes + Len(strings[k])]
  BY <1>6
<1>8. S!StringsSize(strings) = sizes[n]
  BY DEF S!StringsSize
<1> HIDE DEF sizes, step
<1>9. sizes[0] = 0 /\ \A k \in 1..n : sizes[k] = sizes[k - 1] + PrefixBytes + Len(strings[k])
  BY <1>1, <1>7
<1>10. ASSUME NEW k \in 1..n, sizes[k - 1] \in Nat PROVE sizes[k] \in Nat
  <2>1. PICK r \in Nat, l \in Nat : r = sizes[k - 1] /\ l = Len(strings[k])
    BY <1>2, <1>10
  <2>2. r + PrefixBytes + l \in Nat
    BY <1>1
  <2> QED
    BY <1>9, <2>1, <2>2
<1>11. \A k \in 0..n : sizes[k] \in Nat
  <2>1. n \in Nat /\ sizes[0] \in Nat
    BY <1>1, <1>9
  <2>2. \A k \in 1..n : sizes[k - 1] \in Nat => sizes[k] \in Nat
    BY <1>10
  <2> HIDE DEF n
  <2> QED
    BY <2>1, <2>2, Keeps
<1>12. sizes \in [0..n -> Nat]
  BY <1>7, <1>11
<1> QED
  BY <1>8, <1>9, <1>12 DEF Sizes

LEMMA SizesGrow ==
  ASSUME NEW strings \in Strings, NEW f, Sizes(strings, f)
  PROVE  \A k \in 0..Len(strings) : \A j \in 0..k : f[j] <= f[k]
<1> DEFINE n == Len(strings)
           T == {k \in 0..n : \A j \in 0..k : f[j] <= f[k]}
<1>1. n \in Nat /\ PrefixBytes \in Nat /\ \A k \in 1..n : strings[k] \in Seq(S!Bytes)
  BY SerdeConstants DEF Strings
<1>2. f \in [0..n -> Nat] /\ \A k \in 1..n : f[k] = f[k - 1] + PrefixBytes + Len(strings[k])
  BY DEF Sizes
<1>3. 0 \in T
  BY <1>1, <1>2
<1>4. ASSUME NEW k \in 0..n - 1, k \in T PROVE k + 1 \in T
  <2>1. PICK l \in 1..n : l = k + 1 /\ l - 1 = k
    BY <1>1
  <2>2. f[l] = f[l - 1] + PrefixBytes + Len(strings[l]) /\ Len(strings[l]) \in Nat
    BY <1>1, <1>2
  <2>3. f[k] \in Nat /\ f[l] \in Nat /\ f[k] <= f[l]
    <3>1. k \in 0..n /\ l \in 0..n
      BY <1>1
    <3>2. PICK x \in Nat, y \in Nat, z \in Nat : x = f[k] /\ y = f[l] /\ z = Len(strings[l])
      BY <1>2, <2>2, <3>1
    <3>3. y = x + PrefixBytes + z
      BY <2>1, <2>2, <3>2
    <3>4. x <= y
      BY <1>1, <3>3
    <3> QED
      BY <3>2, <3>4
  <2>4. ASSUME NEW j \in 0..l PROVE f[j] <= f[l]
    <3>1. f[j] \in Nat
      BY <1>2
    <3>2. CASE j = l
      BY <2>3, <3>2
    <3>3. CASE j # l
      <4>1. j \in 0..k
        BY <2>1, <3>3
      <4>2. f[j] <= f[k]
        BY <1>4, <4>1
      <4> QED
        BY <2>3, <3>1, <4>2
    <3> QED
      BY <3>2, <3>3
  <2> QED
    BY <2>1, <2>4
<1>5. 0..n \subseteq T
  <2> HIDE DEF T
  <2> QED
    BY <1>1, <1>3, <1>4, UpTo
<1> QED
  BY <1>5

\* The first m strings are serialized behind one another from a on.
EncodesStrings(d, strings, f, a, m) ==
    \A k \in 1..m : EncodesBytes(d, strings[k], 1, a + f[k - 1], a + f[k])

\* What the first k calls leave.
Each(out, m, strings, f, a, destEnd, k) ==
    /\ out \in Outs
    /\ Only(m, out.mem, a, destEnd)
    /\ a + f[k] > destEnd => out.p = -1
    /\ a + f[k] <= destEnd => out.p = a + f[k] /\ EncodesStrings(out.mem, strings, f, a, k)

LEMMA NextSerialized ==
  ASSUME NEW m \in Mem, NEW strings \in Strings, NEW f, Sizes(strings, f),
         NEW a \in Nat, NEW destEnd \in a..ObjectBuffer, NEW k \in 1..Len(strings),
         NEW out, Each(out, m, strings, f, a, destEnd, k - 1)
  PROVE  Each(S!SerializeNext(out, strings[k], destEnd), m, strings, f, a, destEnd, k)
<1> DEFINE nxt == S!SerializeNext(out, strings[k], destEnd)
<1> SUFFICES Each(nxt, m, strings, f, a, destEnd, k)
  OBVIOUS
<1>1. /\ PrefixBytes \in Nat /\ ObjectBuffer \in Nat /\ destEnd \in Nat
      /\ strings[k] \in Seq(S!Bytes) /\ Len(strings) \in Nat
  BY SerdeConstants DEF Strings
<1>2. PICK s \in Seq(S!Bytes) : s = strings[k]
  BY <1>1
<1>3. PICK x \in Nat, y \in Nat : x = f[k - 1] /\ y = f[k] /\ y = x + PrefixBytes + Len(s)
  <2>1. k - 1 \in 0..Len(strings) /\ k \in 0..Len(strings)
    BY <1>1
  <2> QED
    BY <1>2, <2>1 DEF Sizes
<1>4. Len(s) \in Nat /\ y = x + PrefixBytes + Len(s)
  BY <1>3
<1>5. /\ out \in Outs /\ out.p \in Int /\ out.mem \in Mem
      /\ Only(m, out.mem, a, destEnd)
      /\ a + x > destEnd => out.p = -1
      /\ a + x <= destEnd => out.p = a + x /\ EncodesStrings(out.mem, strings, f, a, k - 1)
  BY <1>3 DEF Each, Outs
<1>6. CASE a + x > destEnd
  <2>1. nxt = out
    BY <1>5, <1>6 DEF S!SerializeNext, S!nullptr
  <2>2. a + y > destEnd /\ ~ (a + y <= destEnd)
    BY <1>1, <1>4, <1>6
  <2> HIDE DEF nxt
  <2> QED
    BY <1>3, <1>5, <1>6, <2>1, <2>2 DEF Each
<1>7. CASE a + x <= destEnd
  <2>1. PICK p \in Nat : p = a + x
    OBVIOUS
  <2>2. PICK c \in Mem : c = out.mem
    BY <1>5
  <2>3. out.p = p /\ p # -1 /\ destEnd \in p..ObjectBuffer
    BY <1>1, <1>5, <1>7, <2>1
  <2>4. nxt = S!SerializeBytes(s, 1, p, destEnd, c)
    BY <1>2, <2>2, <2>3 DEF S!SerializeNext, S!serializestring, S!nullptr
  <2>5. Serializes(nxt, c, s, 1, p, destEnd)
    BY <2>3, <2>4, BytesSerialized
  <2> HIDE DEF nxt
  <2>6. PICK d \in Mem : d = nxt.mem
    BY <2>5 DEF Serializes, Outs
  <2>7. nxt \in Outs /\ Only(m, nxt.mem, a, destEnd)
    <3>1. Only(c, d, p, destEnd)
      BY <2>5, <2>6 DEF Serializes
    <3>2. Only(c, d, a, destEnd)
      BY <1>1, <2>1, <3>1, OnlyMore
    <3>3. Only(m, d, a, destEnd)
      BY <1>5, <2>2, <3>2, OnlyBoth
    <3> QED
      BY <2>5, <2>6, <3>3 DEF Serializes
  <2>8. CASE a + y > destEnd
    <3>1. p + PrefixBytes + Len(s) > destEnd /\ ~ (a + y <= destEnd)
      BY <1>1, <1>4, <2>1, <2>8
    <3>2. nxt.p = -1
      BY <2>5, <3>1 DEF Serializes
    <3> QED
      BY <1>3, <2>7, <3>1, <3>2 DEF Each
  <2>9. CASE a + y <= destEnd
    <3>1. p + PrefixBytes + Len(s) <= destEnd /\ ~ (a + y > destEnd) /\ p + PrefixBytes + Len(s) = a + y
      BY <1>1, <1>4, <2>1, <2>9
    <3>2. nxt.p = a + y /\ EncodesBytes(d, s, 1, p, a + y)
      BY <2>5, <2>6, <3>1 DEF Serializes
    <3>3. ASSUME NEW j \in 1..k - 1
          PROVE  EncodesBytes(d, strings[j], 1, a + f[j - 1], a + f[j])
      <4>1. /\ j \in 1..Len(strings) /\ j - 1 \in 0..Len(strings)
            /\ j \in 0..Len(strings) /\ k - 1 \in 0..Len(strings) /\ j \in 0..k - 1
        BY <1>1
      <4>2. PICK v \in Nat, w \in Nat : v = a + f[j - 1] /\ w = a + f[j]
        <5>1. PICK x1 \in Nat, x2 \in Nat : x1 = f[j - 1] /\ x2 = f[j]
          BY <4>1 DEF Sizes
        <5>2. a + x1 \in Nat /\ a + x2 \in Nat
          OBVIOUS
        <5> QED
          BY <5>1, <5>2
      <4>3. w <= p
        <5>1. f[j] <= f[k - 1]
          BY <4>1, SizesGrow
        <5>2. f[j] \in Nat
          BY <4>1 DEF Sizes
        <5>3. PICK r \in Nat : r = f[j] /\ r <= x
          BY <1>3, <5>1, <5>2
        <5>4. w = a + r
          BY <4>2, <5>3
        <5>5. a + r <= a + x
          BY <5>3
        <5> QED
          BY <2>1, <5>4, <5>5
      <4>4. EncodesBytes(c, strings[j], 1, v, w)
        BY <1>5, <1>7, <2>2, <4>2 DEF EncodesStrings
      <4>5. strings[j] \in Seq(S!Bytes)
        BY <4>1 DEF Strings
      <4>6. w <= ObjectBuffer
        BY <1>1, <2>3, <4>3
      <4>7. Only(c, d, p, destEnd)
        BY <2>5, <2>6 DEF Serializes
      <4>8. \A i \in v..w - 1 : d[i] = c[i]
        BY <1>1, <4>3, <4>6, <4>7 DEF Only
      <4>9. EncodesBytes(d, strings[j], 1, v, w)
        BY <4>4, <4>5, <4>8, BytesKept
      <4> QED
        BY <4>2, <4>9
    <3>4. EncodesBytes(d, strings[k], 1, a + f[k - 1], a + f[k])
      BY <1>2, <1>3, <2>1, <3>2
    <3>5. EncodesStrings(d, strings, f, a, k)
      <4>1. \A j \in 1..k : j \in 1..k - 1 \/ j = k
        OBVIOUS
      <4> QED
        BY <3>3, <3>4, <4>1 DEF EncodesStrings
    <3> QED
      BY <1>3, <2>6, <2>7, <3>1, <3>2, <3>5 DEF Each
  <2>10. a + y > destEnd \/ a + y <= destEnd
    BY <1>1
  <2> QED
    BY <2>8, <2>9, <2>10
<1>8. a + x > destEnd \/ a + x <= destEnd
  BY <1>1
<1> QED
  BY <1>6, <1>7, <1>8

\* The pointer returned is nullptr or within the capacity.
Fits(destEnd) == [p : {-1} \cup 0..destEnd, mem : Mem]

LEMMA NextFits ==
  ASSUME NEW destEnd \in 0..ObjectBuffer, NEW s \in Seq(S!Bytes), NEW out \in Fits(destEnd)
  PROVE  S!SerializeNext(out, s, destEnd) \in Fits(destEnd)
<1> DEFINE nxt == S!SerializeNext(out, s, destEnd)
<1> SUFFICES nxt \in Fits(destEnd)
  OBVIOUS
<1>1. ObjectBuffer \in Nat /\ PrefixBytes \in Nat /\ destEnd \in Nat /\ Len(s) \in Nat
  BY SerdeConstants
<1>2. CASE out.p = -1
  BY <1>2 DEF S!SerializeNext, S!nullptr
<1>3. CASE out.p # -1
  <2>1. PICK p \in 0..destEnd, c \in Mem : p = out.p /\ c = out.mem
    BY <1>3 DEF Fits
  <2>2. destEnd \in p..ObjectBuffer /\ p \in Nat
    BY <1>1
  <2>3. nxt = S!SerializeBytes(s, 1, p, destEnd, c)
    BY <1>3, <2>1 DEF S!SerializeNext, S!serializestring, S!nullptr
  <2>4. Serializes(nxt, c, s, 1, p, destEnd)
    BY <2>2, <2>3, BytesSerialized
  <2> HIDE DEF nxt
  <2>5. nxt \in Outs
    BY <2>4 DEF Serializes
  <2>6. nxt.p \in {-1} \cup 0..destEnd
    <3>1. CASE p + PrefixBytes + Len(s) > destEnd
      BY <2>4, <3>1 DEF Serializes
    <3>2. CASE p + PrefixBytes + Len(s) <= destEnd
      <4>1. nxt.p = p + PrefixBytes + Len(s)
        BY <2>4, <3>2 DEF Serializes
      <4>2. p + PrefixBytes + Len(s) \in 0..destEnd
        BY <1>1, <3>2
      <4> QED
        BY <4>1, <4>2
    <3> QED
      BY <1>1, <3>1, <3>2
  <2> QED
    BY <2>5, <2>6 DEF Outs, Fits
<1> QED
  BY <1>2, <1>3

LEMMA EachSerialized ==
  ASSUME NEW m \in Mem, NEW strings \in Strings, NEW f, Sizes(strings, f),
         NEW a \in Nat, NEW destEnd \in a..ObjectBuffer
  PROVE  Each(S!SerializeEach(strings, destEnd, [p |-> a, mem |-> m]),
              m, strings, f, a, destEnd, Len(strings))
<1> DEFINE n == Len(strings)
           first == [p |-> a, mem |-> m]
           step == [k \in 1..n |-> [o \in Fits(destEnd) |-> S!SerializeNext(o, strings[k], destEnd)]]
           outs == CHOOSE g : g = [k \in 0..n |->
                       IF k = 0 THEN first ELSE S!SerializeNext(g[k - 1], strings[k], destEnd)]
<1>1. n \in Nat /\ ObjectBuffer \in Nat /\ destEnd \in 0..ObjectBuffer /\ a \in 0..destEnd
  BY SerdeConstants DEF Strings
<1>2. \A k \in 1..n : strings[k] \in Seq(S!Bytes)
  BY DEF Strings
<1>3. first \in Fits(destEnd)
  BY <1>1 DEF Fits
<1>4. step \in [1..n -> [Fits(destEnd) -> Fits(destEnd)]]
  BY <1>1, <1>2, NextFits
<1>5. \A k \in 1..n, o \in Fits(destEnd) : step[k][o] = S!SerializeNext(o, strings[k], destEnd)
  OBVIOUS
<1>6. PICK g \in [0..n -> Fits(destEnd)] : Recurs(g, first, step, n)
  <2> HIDE DEF step, first
  <2> QED
    BY <1>1, <1>3, <1>4, Recursive
<1>7. g = [k \in 0..n |-> IF k = 0 THEN first ELSE S!SerializeNext(g[k - 1], strings[k], destEnd)]
  <2> HIDE DEF step, first
  <2>1. g = [k \in 0..n |-> IF k = 0 THEN first ELSE step[k][g[k - 1]]]
    BY <1>6 DEF Recurs
  <2>2. ASSUME NEW k \in 0..n, k # 0
        PROVE  step[k][g[k - 1]] = S!SerializeNext(g[k - 1], strings[k], destEnd)
    <3>1. k \in 1..n /\ k - 1 \in 0..n
      BY <1>1, <2>2
    <3>2. g[k - 1] \in Fits(destEnd)
      BY <3>1
    <3> QED
      BY <1>5, <3>1, <3>2
  <2> QED
    BY <2>1, <2>2
<1>8. outs = [k \in 0..n |->
                 IF k = 0 THEN first ELSE S!SerializeNext(outs[k - 1], strings[k], destEnd)]
  <2> HIDE DEF first
  <2> QED
    BY <1>7
<1>9. S!SerializeEach(strings, destEnd, [p |-> a, mem |-> m]) = outs[n]
  BY DEF S!SerializeEach
<1> HIDE DEF outs, step
<1>10. outs[0] = first
       /\ \A k \in 1..n : outs[k] = S!SerializeNext(outs[k - 1], strings[k], destEnd)
  <2> HIDE DEF first
  <2>1. \A k \in 1..n : k # 0 /\ k \in 0..n
    BY <1>1
  <2>2. 0 \in 0..n
    BY <1>1
  <2> QED
    BY <1>8, <2>1, <2>2
<1> DEFINE T == {k \in 0..n : Each(outs[k], m, strings, f, a, destEnd, k)}
<1>11. 0 \in T
  <2>1. f[0] = 0
    BY DEF Sizes
  <2>2. a + f[0] = a /\ ~ (a + f[0] > destEnd)
    BY <1>1, <2>1
  <2>3. first \in Outs /\ first.p = a /\ first.mem = m
    BY DEF Outs
  <2> HIDE DEF first
  <2>4. Only(m, m, a, destEnd)
    BY DEF Only
  <2>5. \A k \in 1..0 : FALSE
    OBVIOUS
  <2>6. EncodesStrings(m, strings, f, a, 0)
    BY <2>5 DEF EncodesStrings
  <2> QED
    BY <1>1, <1>10, <2>2, <2>3, <2>4, <2>6 DEF Each
<1>12. ASSUME NEW k \in 0..n - 1, k \in T PROVE k + 1 \in T
  <2>1. PICK l \in 1..n : l = k + 1 /\ l - 1 = k
    BY <1>1
  <2>2. PICK o : o = outs[l - 1]
    OBVIOUS
  <2>3. Each(o, m, strings, f, a, destEnd, l - 1)
    BY <1>12, <2>1, <2>2
  <2>4. Each(S!SerializeNext(o, strings[l], destEnd), m, strings, f, a, destEnd, l)
    BY <2>3, NextSerialized
  <2>5. outs[l] = S!SerializeNext(o, strings[l], destEnd)
    BY <1>10, <2>2
  <2>6. Each(outs[l], m, strings, f, a, destEnd, l)
    BY <2>4, <2>5
  <2>7. l \in 0..n
    BY <1>1
  <2> QED
    BY <2>1, <2>6, <2>7
<1>13. 0..n \subseteq T
  <2> HIDE DEF T
  <2> QED
    BY <1>1, <1>11, <1>12, UpTo
<1>14. n \in T
  <2> HIDE DEF T
  <2> QED
    BY <1>1, <1>13
<1> QED
  BY <1>9, <1>14

(***************************************************************************)
(* Serde: serialization of an object.                                      *)
(***************************************************************************)

IsString(object) == object.type = "string" /\ object.value \in Seq(S!Bytes)
IsVector(object) == object.type = "vector" /\ object.value \in Seq(S!Bytes)
IsStrings(object) == object.type = "strings" /\ object.value \in Strings

LEMMA ObjectIs ==
  ASSUME NEW object \in Objects
  PROVE  \/ IsString(object) /\ Len(object.value) < S!Limit[PrefixBytes]
         \/ /\ IsVector(object) /\ Len(object.value) % Width = 0
            /\ Len(object.value) \div Width < S!Limit[PrefixBytes]
         \/ /\ IsStrings(object) /\ Len(object.value) < S!Limit[PrefixBytes]
            /\ \A k \in DOMAIN object.value : Len(object.value[k]) < S!Limit[PrefixBytes]
BY InstanceAssumption DEF S!SerdeAssumption, IsString, IsVector, IsStrings, Strings

\* The object is serialized in a..b - 1.
Encodes(d, object, a, b) ==
    \/ IsString(object) /\ EncodesBytes(d, object.value, 1, a, b)
    \/ IsVector(object) /\ EncodesBytes(d, object.value, Width, a, b)
    \/ /\ IsStrings(object) /\ Prefixed(d, Len(object.value), a)
       /\ \E f : /\ Sizes(object.value, f) /\ b = a + PrefixBytes + f[Len(object.value)]
                 /\ EncodesStrings(d, object.value, f, a + PrefixBytes, Len(object.value))

LEMMA ObjectSize ==
  ASSUME NEW object \in Objects
  PROVE  /\ S!EncodedSize(object) \in Nat
         /\ IsString(object) \/ IsVector(object) =>
               S!EncodedSize(object) = PrefixBytes + Len(object.value)
         /\ IsStrings(object) => S!EncodedSize(object) = PrefixBytes + S!StringsSize(object.value)
<1>1. PrefixBytes \in Nat
  BY SerdeConstants
<1>2. CASE IsString(object) \/ IsVector(object)
  <2>1. object.type # "strings" /\ Len(object.value) \in Nat /\ ~ IsStrings(object)
    BY <1>2 DEF IsString, IsVector, IsStrings
  <2>2. S!EncodedSize(object) = PrefixBytes + Len(object.value)
    BY <2>1 DEF S!EncodedSize
  <2> QED
    BY <1>1, <2>1, <2>2
<1>3. CASE IsStrings(object)
  <2>1. object.type = "strings" /\ ~ IsString(object) /\ ~ IsVector(object) /\ object.value \in Strings
    BY <1>3 DEF IsString, IsVector, IsStrings
  <2>2. S!EncodedSize(object) = PrefixBytes + S!StringsSize(object.value)
    BY <2>1 DEF S!EncodedSize
  <2>3. PICK f : Sizes(object.value, f) /\ S!StringsSize(object.value) = f[Len(object.value)]
    BY <2>1, StringSizes
  <2>4. S!StringsSize(object.value) \in Nat
    <3>1. Len(object.value) \in 0..Len(object.value)
      BY <2>1 DEF Strings
    <3> QED
      BY <2>3, <3>1 DEF Sizes
  <2> QED
    BY <1>1, <2>1, <2>2, <2>4
<1> QED
  BY <1>2, <1>3, ObjectIs

\* What a call to serialize leaves.
SerializesObject(out, m, object, dest, destEnd) ==
    /\ out \in Outs
    /\ Only(m, out.mem, dest, destEnd)
    /\ dest + S!EncodedSize(object) > destEnd => out.p = -1
    /\ dest + S!EncodedSize(object) <= destEnd =>
          out.p = dest + S!EncodedSize(object) /\ Encodes(out.mem, object, dest, out.p)

LEMMA BytesObject ==
  ASSUME bytes \in Mem, NEW object \in Objects, NEW dest \in Nat, NEW destEnd \in dest..ObjectBuffer,
         NEW width \in Nat, width > 0,
         \/ IsString(object) /\ width = 1
         \/ IsVector(object) /\ width = Width,
         NEW out, out = S!SerializeBytes(object.value, width, dest, destEnd, bytes)
  PROVE  SerializesObject(out, bytes, object, dest, destEnd)
<1>1. PICK s \in Seq(S!Bytes) : s = object.value
  BY DEF IsString, IsVector
<1>2. PICK m \in Mem : m = bytes
  OBVIOUS
<1>3. Serializes(out, m, s, width, dest, destEnd)
  BY <1>1, <1>2, BytesSerialized
<1>4. PICK size \in Nat : size = S!EncodedSize(object) /\ size = PrefixBytes + Len(s)
  BY <1>1, ObjectSize
<1>5. dest + PrefixBytes + Len(s) = dest + size
  BY <1>4, SerdeConstants
<1>6. Serializes(out, m, s, width, dest, destEnd) =>
         /\ out \in Outs /\ Only(m, out.mem, dest, destEnd)
         /\ dest + size > destEnd => out.p = -1
         /\ dest + size <= destEnd => out.p = dest + size /\ EncodesBytes(out.mem, s, width, dest, out.p)
  BY <1>5 DEF Serializes
<1>7. EncodesBytes(out.mem, s, width, dest, out.p) => Encodes(out.mem, object, dest, out.p)
  BY <1>1 DEF Encodes
<1> QED
  BY <1>2, <1>3, <1>4, <1>6, <1>7 DEF SerializesObject

LEMMA StringsObject ==
  ASSUME bytes \in Mem, NEW object \in Objects, NEW dest \in Nat, NEW destEnd \in dest..ObjectBuffer,
         IsStrings(object),
         NEW out, out = S!SerializeStrings(object.value, dest, destEnd, bytes)
  PROVE  SerializesObject(out, bytes, object, dest, destEnd)
<1>1. PICK strings \in Strings : strings = object.value
  BY DEF IsStrings
<1>2. PICK m \in Mem : m = bytes
  OBVIOUS
<1>3. PICK f : Sizes(strings, f) /\ S!StringsSize(strings) = f[Len(strings)]
  BY StringSizes
<1>4. PICK n \in Nat : n = Len(strings)
  BY DEF Strings
<1>5. PICK total \in Nat : total = f[n]
  BY <1>3, <1>4 DEF Sizes
<1>6. S!EncodedSize(object) = PrefixBytes + total
  BY <1>1, <1>3, <1>4, <1>5, ObjectSize
<1>7. PrefixBytes \in Nat /\ ObjectBuffer \in Nat /\ destEnd \in Nat /\ destEnd <= ObjectBuffer
  BY SerdeConstants
<1>8. CASE dest + PrefixBytes > destEnd
  <2>1. out = [p |-> -1, mem |-> m]
    BY <1>2, <1>8 DEF S!SerializeStrings, S!nullptr
  <2>2. out \in Outs /\ out.p = -1 /\ out.mem = m
    BY <2>1 DEF Outs
  <2>3. ~ (dest + (PrefixBytes + total) <= destEnd)
    BY <1>7, <1>8
  <2>4. Only(m, m, dest, destEnd)
    BY DEF Only
  <2> QED
    BY <1>2, <1>6, <2>2, <2>3, <2>4 DEF SerializesObject
<1>9. CASE dest + PrefixBytes <= destEnd
  <2>1. PICK a \in Nat : a = dest + PrefixBytes /\ a <= destEnd /\ a <= ObjectBuffer /\ a >= dest
    BY <1>7, <1>9
  <2>2. PICK c \in Mem : /\ c = S!writeUint(n, dest, m)
                         /\ Prefixed(c, n, dest) /\ Only(m, c, dest, a)
    BY <2>1, WritesPrefix
  <2>3. out = S!SerializeEach(strings, destEnd, [p |-> a, mem |-> c])
    <3>1. ~ (dest + PrefixBytes > destEnd)
      BY <1>7, <1>9
    <3> QED
      BY <1>1, <1>2, <1>4, <2>1, <2>2, <3>1 DEF S!SerializeStrings
  <2>4. destEnd \in a..ObjectBuffer
    BY <1>7, <2>1
  <2>5. Each(out, c, strings, f, a, destEnd, n)
    BY <1>3, <1>4, <2>3, <2>4, EachSerialized
  <2>6. /\ out \in Outs /\ Only(c, out.mem, a, destEnd)
        /\ a + total > destEnd => out.p = -1
        /\ a + total <= destEnd => out.p = a + total /\ EncodesStrings(out.mem, strings, f, a, n)
    BY <1>5, <2>5 DEF Each
  <2>7. Only(m, out.mem, dest, destEnd)
    <3>1. Only(m, c, dest, destEnd)
      BY <1>7, <2>1, <2>2, OnlyMore
    <3>2. Only(c, out.mem, dest, destEnd)
      BY <1>7, <2>1, <2>6, OnlyMore
    <3> QED
      BY <3>1, <3>2, OnlyBoth
  <2>8. Prefixed(out.mem, n, dest)
    <3>1. PICK d : d = out.mem
      OBVIOUS
    <3>2. Only(c, d, a, destEnd)
      BY <2>6, <3>1
    <3>3. ASSUME NEW i \in 0..PrefixBytes - 1 PROVE d[dest + i] = c[dest + i]
      <4>1. dest + i \in 0..ObjectBuffer - 1 /\ dest + i < a
        BY <1>7, <2>1
      <4> QED
        BY <3>2, <4>1 DEF Only
    <3> QED
      BY <2>2, <3>1, <3>3 DEF Prefixed
  <2>9. a + total = dest + (PrefixBytes + total) /\ a + total = dest + PrefixBytes + total
    BY <1>7, <2>1
  <2>10. a + total <= destEnd => Encodes(out.mem, object, dest, out.p)
    <3>1. ASSUME a + total <= destEnd PROVE Encodes(out.mem, object, dest, out.p)
      <4>1. out.p = dest + PrefixBytes + f[n] /\ EncodesStrings(out.mem, strings, f, dest + PrefixBytes, n)
        BY <1>5, <2>1, <2>6, <2>9, <3>1
      <4> QED
        BY <1>1, <1>3, <1>4, <2>8, <4>1 DEF Encodes
    <3> QED
      BY <3>1
  <2> QED
    BY <1>2, <1>6, <2>6, <2>7, <2>9, <2>10 DEF SerializesObject
<1> QED
  BY <1>7, <1>8, <1>9

LEMMA ObjectSerialized ==
  ASSUME bytes \in Mem, NEW object \in Objects, NEW dest \in Nat, NEW destEnd \in dest..ObjectBuffer
  PROVE  SerializesObject(S!Serialized(object, dest, destEnd), bytes, object, dest, destEnd)
<1>1. PICK out : out = S!Serialized(object, dest, destEnd)
  OBVIOUS
<1>2. CASE IsString(object)
  <2>1. out = S!SerializeBytes(object.value, 1, dest, destEnd, bytes)
    BY <1>1, <1>2 DEF S!Serialized, S!serializestring, IsString
  <2> QED
    BY <1>1, <1>2, <2>1, BytesObject
<1>3. CASE IsVector(object)
  <2>1. out = S!SerializeBytes(object.value, Width, dest, destEnd, bytes)
    BY <1>1, <1>3 DEF S!Serialized, IsVector
  <2> QED
    BY <1>1, <1>3, <2>1, BytesObject, SerdeConstants
<1>4. CASE IsStrings(object)
  <2>1. out = S!SerializeStrings(object.value, dest, destEnd, bytes)
    BY <1>1, <1>4 DEF S!Serialized, IsStrings
  <2> QED
    BY <1>1, <1>4, <2>1, StringsObject
<1> QED
  BY <1>2, <1>3, <1>4, ObjectIs

(***************************************************************************)
(* Serde: deserialization.                                                 *)
(***************************************************************************)

\* What a call to deserialize returns.
Ins(values, srcEnd) == [p : {-1} \cup 0..srcEnd, value : values, examined : 0..srcEnd]

LEMMA UintRead ==
  ASSUME bytes \in Mem, NEW from \in Nat, from + PrefixBytes <= ObjectBuffer
  PROVE  S!ReadUint(from) \in Nat
<1>1. ASSUME NEW k \in 0..PrefixBytes - 1 PROVE bytes[from + k] \in Nat
  <2>1. PICK j \in 0..ObjectBuffer - 1 : j = from + k
    BY SerdeConstants
  <2>2. bytes[j] \in S!Bytes
    BY DEF Mem
  <2> QED
    BY <2>1, <2>2, SerdeConstants
<1>2. PICK v \in [0..PrefixBytes -> Nat] : S!ReadUint(from) = v[0]
  BY <1>1, UintIs
<1>3. 0 \in 0..PrefixBytes
  BY SerdeConstants
<1> QED
  BY <1>2, <1>3

\* The list from begin to stop, as it is returned.
ListFrom(begin, stop) == [i \in 1..stop - begin |-> bytes[begin + i - 1]]

LEMMA ReadIs ==
  ASSUME bytes \in Mem, NEW begin \in Nat, NEW stop \in begin..ObjectBuffer
  PROVE  ListFrom(begin, stop) \in Seq(S!Bytes)
<1>1. PICK n \in Nat : n = stop - begin
  BY SerdeConstants
<1>2. ASSUME NEW i \in 1..n PROVE bytes[begin + i - 1] \in S!Bytes
  <2>1. PICK j \in 0..ObjectBuffer - 1 : j = begin + i - 1
    BY <1>1, SerdeConstants
  <2> QED
    BY <2>1 DEF Mem
<1>3. [i \in 1..n |-> bytes[begin + i - 1]] \in [1..n -> S!Bytes]
  BY <1>2
<1>4. [i \in 1..n |-> bytes[begin + i - 1]] \in Seq(S!Bytes)
  BY <1>3
<1> QED
  BY <1>1, <1>4 DEF ListFrom

LEMMA BytesDeserialized ==
  ASSUME bytes \in Mem, NEW width \in Nat, width > 0,
         NEW srcEnd \in 0..ObjectBuffer, NEW from \in 0..srcEnd
  PROVE  S!DeserializeBytes(width, from, srcEnd) \in Ins(Seq(S!Bytes), srcEnd)
<1> DEFINE in == S!DeserializeBytes(width, from, srcEnd)
<1> SUFFICES in \in Ins(Seq(S!Bytes), srcEnd)
  OBVIOUS
<1>1. PrefixBytes \in Nat /\ ObjectBuffer \in Nat /\ srcEnd \in Nat /\ from \in Nat
  BY SerdeConstants
<1>2. CASE from + PrefixBytes > srcEnd
  <2>1. in = [p |-> -1, value |-> <<>>, examined |-> from]
    BY <1>2 DEF S!DeserializeBytes, S!Failed, S!nullptr
  <2> QED
    BY <2>1 DEF Ins
<1>3. CASE from + PrefixBytes <= srcEnd
  <2>1. PICK begin \in 0..srcEnd : begin = from + PrefixBytes
    BY <1>1, <1>3
  <2>2. ~ (from + PrefixBytes > srcEnd) /\ from + PrefixBytes <= ObjectBuffer
    BY <1>1, <1>3
  <2>3. PICK length \in Nat : length = S!ReadUint(from)
    BY <1>1, <2>2, UintRead
  <2>4. PICK stop \in Nat : stop = begin + length * width /\ stop >= begin
    <3>1. length * width \in Nat
      OBVIOUS
    <3> QED
      BY <1>1, <3>1
  <2>5. in = IF stop > srcEnd THEN [p |-> -1, value |-> <<>>, examined |-> begin]
             ELSE [p |-> stop, value |-> ListFrom(begin, stop), examined |-> stop]
    BY <2>1, <2>2, <2>3, <2>4 DEF S!DeserializeBytes, S!Failed, S!nullptr, ListFrom
  <2> HIDE DEF in
  <2>6. CASE stop > srcEnd
    <3>1. in = [p |-> -1, value |-> <<>>, examined |-> begin]
      BY <2>5, <2>6
    <3> QED
      BY <3>1 DEF Ins
  <2>7. CASE stop <= srcEnd
    <3>1. stop \in 0..srcEnd /\ stop \in begin..ObjectBuffer /\ ~ (stop > srcEnd)
      BY <1>1, <2>4, <2>7
    <3>2. PICK value \in Seq(S!Bytes) : value = ListFrom(begin, stop)
      BY <1>1, <2>1, <3>1, ReadIs
    <3>3. in = [p |-> stop, value |-> value, examined |-> stop]
      BY <2>5, <3>1, <3>2
    <3> QED
      BY <3>1, <3>3 DEF Ins
  <2> QED
    BY <1>1, <2>6, <2>7
<1> QED
  BY <1>1, <1>2, <1>3

LEMMA BytesReadBack ==
  ASSUME bytes \in Mem, NEW width \in Nat, width > 0,
         NEW srcEnd \in 0..ObjectBuffer, NEW from \in 0..srcEnd,
         NEW s \in Seq(S!Bytes), NEW b, EncodesBytes(bytes, s, width, from, b),
         Len(s) % width = 0, Len(s) \div width < S!Limit[PrefixBytes],
         NEW in, in = S!DeserializeBytes(width, from, srcEnd), in.p # -1
  PROVE  in.p = b /\ in.value = s
<1>1. PrefixBytes \in Nat /\ ObjectBuffer \in Nat /\ srcEnd \in Nat /\ from \in Nat /\ Len(s) \in Nat
  BY SerdeConstants
<1>2. PICK length \in Nat : length = Len(s) \div width /\ length * width = Len(s)
  <2>1. PICK l \in Nat : l = Len(s)
    BY <1>1
  <2>2. PICK q \in Nat : q = l \div width /\ l = width * q + (l % width)
    BY Quotient
  <2>3. l % width = 0
    BY <2>1
  <2>4. l = q * width
    BY <2>2, <2>3
  <2> QED
    BY <2>1, <2>2, <2>4
<1>3. S!ReadUint(from) = length
  BY <1>2, PrefixRead DEF EncodesBytes
<1>4. PICK begin \in Nat : begin = from + PrefixBytes
  BY <1>1
<1>5. PICK stop \in Nat : stop = begin + length * width /\ stop - begin = Len(s) /\ b = stop
  <2>1. PICK l \in Nat : l = Len(s) /\ l = length * width
    BY <1>1, <1>2
  <2>2. b = from + PrefixBytes + l
    BY <2>1 DEF EncodesBytes
  <2>3. b = begin + l
    BY <1>4, <2>2
  <2>4. begin + l \in Nat /\ (begin + l) - begin = l
    OBVIOUS
  <2> QED
    BY <2>1, <2>3, <2>4
<1>6. in = [p |-> stop, value |-> ListFrom(begin, stop), examined |-> stop]
  BY <1>3, <1>4, <1>5 DEF S!DeserializeBytes, S!Failed, S!nullptr, ListFrom
<1>7. ListFrom(begin, stop) = s
  <2>1. ListFrom(begin, stop) = [i \in 1..Len(s) |-> bytes[begin + i - 1]]
    BY <1>5 DEF ListFrom
  <2>2. \A i \in 1..Len(s) : bytes[begin + i - 1] = s[i]
    BY <1>4 DEF EncodesBytes, ListAt
  <2>3. s = [i \in 1..Len(s) |-> s[i]]
    OBVIOUS
  <2> QED
    BY <2>1, <2>2, <2>3
<1> QED
  BY <1>5, <1>6, <1>7

LEMMA NextRead ==
  ASSUME bytes \in Mem, NEW srcEnd \in 0..ObjectBuffer, NEW in \in Ins(Strings, srcEnd)
  PROVE  S!DeserializeNext(in, srcEnd) \in Ins(Strings, srcEnd)
<1> DEFINE nxt == S!DeserializeNext(in, srcEnd)
<1> SUFFICES nxt \in Ins(Strings, srcEnd)
  OBVIOUS
<1>1. CASE in.p = -1
  BY <1>1 DEF S!DeserializeNext, S!nullptr
<1>2. CASE in.p # -1
  <2>1. PICK p \in 0..srcEnd, value \in Strings : p = in.p /\ value = in.value
    BY <1>2 DEF Ins
  <2>2. PICK s : s = S!DeserializeBytes(1, p, srcEnd)
    OBVIOUS
  <2>3. s \in Ins(Seq(S!Bytes), srcEnd)
    BY <2>2, BytesDeserialized
  <2>4. nxt = [p |-> s.p, value |-> Append(value, s.value), examined |-> s.examined]
    BY <1>2, <2>1, <2>2 DEF S!DeserializeNext, S!deserializestring, S!nullptr
  <2>5. PICK q \in {-1} \cup 0..srcEnd, t \in Seq(S!Bytes), e \in 0..srcEnd :
           q = s.p /\ t = s.value /\ e = s.examined
    BY <2>3 DEF Ins
  <2>6. PICK longer \in Strings : longer = Append(value, t)
    <3>1. Append(value, t) \in Strings
      <4>1. value \in Seq(Seq(S!Bytes)) /\ t \in Seq(S!Bytes)
        BY DEF Strings
      <4>2. Append(value, t) \in Seq(Seq(S!Bytes))
        BY <4>1, AppendProperties
      <4> QED
        BY <4>2 DEF Strings
    <3> QED
      BY <3>1
  <2>7. nxt = [p |-> q, value |-> longer, examined |-> e]
    BY <2>4, <2>5, <2>6
  <2> HIDE DEF nxt
  <2> QED
    BY <2>7 DEF Ins
<1> QED
  BY <1>1, <1>2

\* g: what DeserializeEach has after each string.
Reads(g, from, srcEnd) ==
    /\ g \in [0..S!ReadUint(from) -> Ins(Strings, srcEnd)]
    /\ g[0] = [p |-> from + PrefixBytes, value |-> <<>>, examined |-> from + PrefixBytes]
    /\ \A k \in 1..S!ReadUint(from) : g[k] = S!DeserializeNext(g[k - 1], srcEnd)

LEMMA EachRead ==
  ASSUME bytes \in Mem, NEW srcEnd \in 0..ObjectBuffer, NEW from \in 0..srcEnd,
         from + PrefixBytes <= srcEnd
  PROVE  \E g : Reads(g, from, srcEnd) /\ S!DeserializeEach(from, srcEnd) = g[S!ReadUint(from)]
<1>1. PrefixBytes \in Nat /\ ObjectBuffer \in Nat /\ srcEnd \in Nat /\ from \in Nat
  BY SerdeConstants
<1>2. PICK n \in Nat : n = S!ReadUint(from)
  <2>1. from + PrefixBytes <= ObjectBuffer
    BY <1>1
  <2> QED
    BY <1>1, <2>1, UintRead
<1> DEFINE V == Ins(Strings, srcEnd)
           first == [p |-> from + PrefixBytes, value |-> <<>>, examined |-> from + PrefixBytes]
           step == [k \in 1..n |-> [x \in V |-> S!DeserializeNext(x, srcEnd)]]
           ins == CHOOSE g : g = [k \in 0..n |->
                      IF k = 0 THEN first ELSE S!DeserializeNext(g[k - 1], srcEnd)]
<1>3. first \in V
  <2>1. from + PrefixBytes \in 0..srcEnd
    BY <1>1
  <2>2. PICK none \in Strings : none = <<>>
    <3>1. <<>> \in Strings
      BY DEF Strings
    <3> QED
      BY <3>1
  <2> QED
    BY <2>1, <2>2 DEF Ins
<1>4. step \in [1..n -> [V -> V]]
  BY NextRead
<1>5. \A k \in 1..n, x \in V : step[k][x] = S!DeserializeNext(x, srcEnd)
  OBVIOUS
<1>6. PICK g \in [0..n -> V] : Recurs(g, first, step, n)
  <2> HIDE DEF step, first, V
  <2> QED
    BY <1>3, <1>4, Recursive
<1>7. g = [k \in 0..n |-> IF k = 0 THEN first ELSE S!DeserializeNext(g[k - 1], srcEnd)]
  <2> HIDE DEF step, first, V
  <2>1. g = [k \in 0..n |-> IF k = 0 THEN first ELSE step[k][g[k - 1]]]
    BY <1>6 DEF Recurs
  <2>2. ASSUME NEW k \in 0..n, k # 0
        PROVE  step[k][g[k - 1]] = S!DeserializeNext(g[k - 1], srcEnd)
    <3>1. k \in 1..n /\ k - 1 \in 0..n
      BY <2>2
    <3>2. g[k - 1] \in V
      BY <3>1
    <3> QED
      BY <1>5, <3>1, <3>2
  <2> QED
    BY <2>1, <2>2
<1>8. ins = [k \in 0..n |-> IF k = 0 THEN first ELSE S!DeserializeNext(ins[k - 1], srcEnd)]
  <2> HIDE DEF first
  <2> QED
    BY <1>7
<1>9. S!DeserializeEach(from, srcEnd) = ins[n]
  BY <1>2 DEF S!DeserializeEach
<1> HIDE DEF ins, step
<1>10. ins[0] = first /\ \A k \in 1..n : ins[k] = S!DeserializeNext(ins[k - 1], srcEnd)
  <2> HIDE DEF first
  <2>1. \A k \in 1..n : k # 0 /\ k \in 0..n
    OBVIOUS
  <2>2. 0 \in 0..n
    OBVIOUS
  <2> QED
    BY <1>8, <2>1, <2>2
<1>11. \A k \in 1..n : ins[k - 1] \in V => ins[k] \in V
  BY <1>10, NextRead
<1>12. \A k \in 0..n : ins[k] \in V
  <2> HIDE DEF first, V
  <2>1. ins[0] \in V
    BY <1>3, <1>10
  <2> QED
    BY <1>11, <2>1, Keeps
<1>13. ins \in [0..n -> V]
  <2> HIDE DEF first, V
  <2> QED
    BY <1>8, <1>12
<1>14. Reads(ins, from, srcEnd)
  BY <1>2, <1>10, <1>13 DEF Reads
<1> QED
  BY <1>2, <1>9, <1>14

LEMMA StringsDeserialized ==
  ASSUME bytes \in Mem, NEW srcEnd \in 0..ObjectBuffer, NEW from \in 0..srcEnd
  PROVE  S!DeserializeStrings(from, srcEnd) \in Ins(Strings, srcEnd)
<1>1. PrefixBytes \in Nat /\ ObjectBuffer \in Nat /\ srcEnd \in Nat /\ from \in Nat
  BY SerdeConstants
<1>2. PICK in : in = S!DeserializeStrings(from, srcEnd)
  OBVIOUS
<1>3. CASE from + PrefixBytes > srcEnd
  <2>1. in = [p |-> -1, value |-> <<>>, examined |-> from]
    BY <1>2, <1>3 DEF S!DeserializeStrings, S!Failed, S!nullptr
  <2>2. PICK none \in Strings : none = <<>>
    <3>1. <<>> \in Strings
      BY DEF Strings
    <3> QED
      BY <3>1
  <2>3. in \in Ins(Strings, srcEnd)
    BY <2>1, <2>2 DEF Ins
  <2> QED
    BY <1>2, <2>3
<1>4. CASE from + PrefixBytes <= srcEnd
  <2>1. in = S!DeserializeEach(from, srcEnd)
    <3>1. ~ (from + PrefixBytes > srcEnd)
      BY <1>1, <1>4
    <3> QED
      BY <1>2, <3>1 DEF S!DeserializeStrings
  <2>2. PICK g : Reads(g, from, srcEnd) /\ in = g[S!ReadUint(from)]
    BY <1>4, <2>1, EachRead
  <2>3. PICK n \in Nat : n = S!ReadUint(from)
    <3>1. from + PrefixBytes <= ObjectBuffer
      BY <1>1, <1>4
    <3> QED
      BY <1>1, <3>1, UintRead
  <2>4. in \in Ins(Strings, srcEnd)
    <3>1. g \in [0..n -> Ins(Strings, srcEnd)] /\ in = g[n] /\ n \in 0..n
      BY <2>2, <2>3 DEF Reads
    <3> QED
      BY <3>1
  <2> QED
    BY <1>2, <2>4
<1> QED
  BY <1>1, <1>3, <1>4

\* v is the first k of the strings.
FirstOf(v, strings, k) == v \in Strings /\ Len(v) = k /\ \A i \in 1..k : v[i] = strings[i]

LEMMA OneMore ==
  ASSUME NEW strings \in Strings, NEW k \in 1..Len(strings), NEW v, FirstOf(v, strings, k - 1)
  PROVE  FirstOf(Append(v, strings[k]), strings, k)
<1>1. PICK s \in Seq(S!Bytes) : s = strings[k]
  BY DEF Strings
<1>2. v \in Seq(Seq(S!Bytes)) /\ Len(v) = k - 1 /\ k \in Nat /\ \A i \in 1..k - 1 : v[i] = strings[i]
  <2>1. Len(strings) \in Nat
    BY DEF Strings
  <2> QED
    BY <2>1 DEF FirstOf, Strings
<1>3. PICK w : w = Append(v, s)
  OBVIOUS
<1>4. w \in Seq(Seq(S!Bytes)) /\ Len(w) = k
  BY <1>2, <1>3
<1>5. (\A i \in 1..k - 1 : w[i] = v[i]) /\ w[k] = s
  BY <1>2, <1>3
<1>6. \A i \in 1..k : i \in 1..k - 1 \/ i = k
  BY <1>2
<1>7. \A i \in 1..k : w[i] = strings[i]
  BY <1>1, <1>2, <1>5, <1>6
<1> QED
  BY <1>1, <1>3, <1>4, <1>7 DEF FirstOf, Strings

LEMMA StringsReadBack ==
  ASSUME bytes \in Mem, NEW srcEnd \in 0..ObjectBuffer, NEW from \in 0..srcEnd,
         NEW strings \in Strings, NEW f, Sizes(strings, f),
         Len(strings) < S!Limit[PrefixBytes],
         \A k \in 1..Len(strings) : Len(strings[k]) < S!Limit[PrefixBytes],
         Prefixed(bytes, Len(strings), from),
         EncodesStrings(bytes, strings, f, from + PrefixBytes, Len(strings)),
         NEW in, in = S!DeserializeStrings(from, srcEnd), in.p # -1
  PROVE  in.p = from + PrefixBytes + f[Len(strings)] /\ in.value = strings
<1>1. PrefixBytes \in Nat /\ ObjectBuffer \in Nat /\ srcEnd \in Nat /\ from \in Nat
  BY SerdeConstants
<1>2. PICK n \in Nat : n = Len(strings)
  BY DEF Strings
<1>3. S!ReadUint(from) = n
  BY <1>2, PrefixRead
<1>4. from + PrefixBytes <= srcEnd /\ in = S!DeserializeEach(from, srcEnd)
  <2>1. CASE from + PrefixBytes > srcEnd
    <3>1. in = [p |-> -1, value |-> <<>>, examined |-> from]
      BY <2>1 DEF S!DeserializeStrings, S!Failed, S!nullptr
    <3> QED
      BY <3>1
  <2>2. CASE ~ (from + PrefixBytes > srcEnd)
    BY <1>1, <2>2 DEF S!DeserializeStrings
  <2> QED
    BY <2>1, <2>2
<1>5. PICK g : Reads(g, from, srcEnd) /\ in = g[n]
  BY <1>3, <1>4, EachRead
<1>6. PICK a \in Nat : a = from + PrefixBytes
  BY <1>1
<1>7. /\ g \in [0..n -> Ins(Strings, srcEnd)]
      /\ g[0] = [p |-> a, value |-> <<>>, examined |-> a]
      /\ \A k \in 1..n : g[k] = S!DeserializeNext(g[k - 1], srcEnd)
  BY <1>3, <1>5, <1>6 DEF Reads
<1> DEFINE Right(x, k) == x.p = -1 \/ (x.p = a + f[k] /\ FirstOf(x.value, strings, k))
           T == {k \in 0..n : Right(g[k], k)}
<1>8. 0 \in T
  <2>1. f[0] = 0
    BY DEF Sizes
  <2>2. g[0].p = a + f[0] /\ g[0].value = <<>>
    BY <1>7, <2>1
  <2>3. <<>> \in Strings /\ Len(<<>>) = 0
    BY DEF Strings
  <2>4. FirstOf(<<>>, strings, 0)
    BY <2>3 DEF FirstOf
  <2> QED
    BY <2>2, <2>4
<1>9. ASSUME NEW k \in 0..n - 1, k \in T PROVE k + 1 \in T
  <2>1. PICK l \in 1..n : l = k + 1 /\ l - 1 = k /\ l \in 0..n
    OBVIOUS
  <2>2. PICK x \in Ins(Strings, srcEnd) : x = g[k]
    BY <1>7
  <2>3. PICK y : y = g[l]
    OBVIOUS
  <2>4. y = S!DeserializeNext(x, srcEnd)
    BY <1>7, <2>1, <2>2, <2>3
  <2>5. Right(x, k)
    BY <1>9, <2>2
  <2>6. Right(y, l)
    <3>1. CASE x.p = -1
      <4>1. y = x
        BY <2>4, <3>1 DEF S!DeserializeNext, S!nullptr
      <4> QED
        BY <3>1, <4>1
    <3>2. CASE x.p # -1
      <4>1. PICK p \in 0..srcEnd : p = x.p
        BY <3>2 DEF Ins
      <4>2. p = a + f[l - 1] /\ FirstOf(x.value, strings, l - 1)
        BY <2>1, <2>5, <3>2, <4>1
      <4>3. PICK s \in Seq(S!Bytes) : s = strings[l]
        BY <1>2 DEF Strings
      <4>4. PICK r : r = S!DeserializeBytes(1, p, srcEnd)
        OBVIOUS
      <4>5. y = [p |-> r.p, value |-> Append(x.value, r.value), examined |-> r.examined]
        BY <2>4, <3>2, <4>1, <4>4 DEF S!DeserializeNext, S!deserializestring, S!nullptr
      <4>6. CASE r.p = -1
        BY <4>5, <4>6
      <4>7. CASE r.p # -1
        <5>1. EncodesBytes(bytes, s, 1, p, a + f[l])
          BY <1>2, <1>6, <4>2, <4>3 DEF EncodesStrings
        <5>2. Len(s) % 1 = 0 /\ Len(s) \div 1 < S!Limit[PrefixBytes]
          <6>1. PICK q \in Nat : q = Len(s) /\ q < S!Limit[PrefixBytes]
            BY <1>2, <4>3
          <6>2. q % 1 = 0 /\ q \div 1 = q
            OBVIOUS
          <6> QED
            BY <6>1, <6>2
        <5>3. r.p = a + f[l] /\ r.value = s
          BY <4>4, <4>7, <5>1, <5>2, BytesReadBack
        <5>4. FirstOf(Append(x.value, s), strings, l)
          BY <1>2, <4>2, <4>3, OneMore
        <5>5. y.p = a + f[l] /\ y.value = Append(x.value, s)
          BY <4>5, <5>3
        <5> QED
          BY <5>4, <5>5
      <4> QED
        BY <4>6, <4>7
    <3> QED
      BY <3>1, <3>2
  <2> QED
    BY <2>1, <2>3, <2>6
<1>10. 0..n \subseteq T
  <2> HIDE DEF T
  <2> QED
    BY <1>8, <1>9, UpTo
<1>11. in.p = a + f[n] /\ FirstOf(in.value, strings, n)
  <2>1. n \in T
    <3> HIDE DEF T
    <3> QED
      BY <1>10
  <2> QED
    BY <1>5, <2>1
<1>12. in.value = strings
  <2>1. in.value \in Seq(Seq(S!Bytes)) /\ Len(in.value) = n /\ \A i \in 1..n : in.value[i] = strings[i]
    BY <1>11 DEF FirstOf, Strings
  <2>2. strings \in Seq(Seq(S!Bytes)) /\ Len(strings) = n
    BY <1>2 DEF Strings
  <2> QED
    BY <2>1, <2>2
<1> QED
  BY <1>2, <1>6, <1>11, <1>12
Values == Seq(S!Bytes) \cup Strings

LEMMA ObjectRead ==
  ASSUME bytes \in Mem, NEW object \in Objects, NEW srcEnd \in 0..ObjectBuffer, NEW from \in 0..srcEnd,
         NEW in, in = S!Deserialized(object.type, from, srcEnd)
  PROVE  in \in Ins(Values, srcEnd)
<1>1. CASE IsString(object)
  <2>1. in = S!DeserializeBytes(1, from, srcEnd)
    BY <1>1 DEF S!Deserialized, S!deserializestring, IsString
  <2>2. in \in Ins(Seq(S!Bytes), srcEnd)
    BY <2>1, BytesDeserialized
  <2> QED
    BY <2>2 DEF Ins, Values
<1>2. CASE IsVector(object)
  <2>1. in = S!DeserializeBytes(Width, from, srcEnd)
    BY <1>2 DEF S!Deserialized, IsVector
  <2>2. in \in Ins(Seq(S!Bytes), srcEnd)
    BY <2>1, BytesDeserialized, SerdeConstants
  <2> QED
    BY <2>2 DEF Ins, Values
<1>3. CASE IsStrings(object)
  <2>1. in = S!DeserializeStrings(from, srcEnd)
    BY <1>3 DEF S!Deserialized, IsStrings
  <2>2. in \in Ins(Strings, srcEnd)
    BY <2>1, StringsDeserialized
  <2> QED
    BY <2>2 DEF Ins, Values
<1> QED
  BY <1>1, <1>2, <1>3, ObjectIs

\* A read that succeeds returns what was serialized there, and ends where it ends.
LEMMA ObjectReadBack ==
  ASSUME bytes \in Mem, NEW object \in Objects, NEW srcEnd \in 0..ObjectBuffer, NEW from \in 0..srcEnd,
         NEW b, Encodes(bytes, object, from, b),
         NEW in, in = S!Deserialized(object.type, from, srcEnd), in.p # -1
  PROVE  in.p = b /\ in.value = object.value
<1>1. CASE IsString(object)
  <2>1. in = S!DeserializeBytes(1, from, srcEnd)
    BY <1>1 DEF S!Deserialized, S!deserializestring, IsString
  <2>2. PICK s \in Seq(S!Bytes) : s = object.value
    BY <1>1 DEF IsString
  <2>3. EncodesBytes(bytes, s, 1, from, b)
    BY <1>1, <2>2 DEF Encodes, IsString, IsVector, IsStrings
  <2>4. Len(s) % 1 = 0 /\ Len(s) \div 1 < S!Limit[PrefixBytes]
    <3>1. Len(s) < S!Limit[PrefixBytes]
      BY <1>1, <2>2, ObjectIs DEF IsString, IsVector, IsStrings
    <3>2. PICK q \in Nat : q = Len(s)
      OBVIOUS
    <3>3. q % 1 = 0 /\ q \div 1 = q
      OBVIOUS
    <3> QED
      BY <3>1, <3>2, <3>3
  <2>5. in.p = b /\ in.value = s
    BY <2>1, <2>3, <2>4, BytesReadBack
  <2> QED
    BY <2>2, <2>5
<1>2. CASE IsVector(object)
  <2>1. in = S!DeserializeBytes(Width, from, srcEnd)
    BY <1>2 DEF S!Deserialized, IsVector
  <2>2. PICK s \in Seq(S!Bytes) : s = object.value
    BY <1>2 DEF IsVector
  <2>3. EncodesBytes(bytes, s, Width, from, b)
    BY <1>2, <2>2 DEF Encodes, IsString, IsVector, IsStrings
  <2>4. Len(s) % Width = 0 /\ Len(s) \div Width < S!Limit[PrefixBytes]
    BY <1>2, <2>2, ObjectIs DEF IsString, IsVector, IsStrings
  <2>5. Width \in Nat /\ Width > 0
    BY SerdeConstants
  <2>6. in.p = b /\ in.value = s
    BY <2>1, <2>3, <2>4, <2>5, BytesReadBack
  <2> QED
    BY <2>2, <2>6
<1>3. CASE IsStrings(object)
  <2>1. in = S!DeserializeStrings(from, srcEnd)
    BY <1>3 DEF S!Deserialized, IsStrings
  <2>2. PICK s \in Strings : s = object.value
    BY <1>3 DEF IsStrings
  <2>3. PICK f : /\ Prefixed(bytes, Len(s), from)
                 /\ Sizes(s, f) /\ b = from + PrefixBytes + f[Len(s)]
                 /\ EncodesStrings(bytes, s, f, from + PrefixBytes, Len(s))
    BY <1>3, <2>2 DEF Encodes, IsString, IsVector, IsStrings
  <2>4. Len(s) < S!Limit[PrefixBytes] /\ \A k \in 1..Len(s) : Len(s[k]) < S!Limit[PrefixBytes]
    <3>1. DOMAIN s = 1..Len(s)
      BY DEF Strings
    <3>2. Len(s) < S!Limit[PrefixBytes] /\ \A k \in DOMAIN s : Len(s[k]) < S!Limit[PrefixBytes]
      BY <1>3, <2>2, ObjectIs DEF IsString, IsVector, IsStrings
    <3> QED
      BY <3>1, <3>2
  <2> QED
    BY <2>1, <2>2, <2>3, <2>4, StringsReadBack
<1> QED
  BY <1>1, <1>2, <1>3, ObjectIs

\* An object stays where nothing is written over it.
LEMMA ObjectKept ==
  ASSUME NEW m, NEW d, NEW object \in Objects, NEW a \in Nat, NEW b \in Nat,
         Encodes(m, object, a, b), \A i \in a..b - 1 : d[i] = m[i]
  PROVE  Encodes(d, object, a, b)
<1>1. CASE IsString(object)
  <2>1. PICK s \in Seq(S!Bytes) : s = object.value
    BY <1>1 DEF IsString
  <2>2. EncodesBytes(m, s, 1, a, b)
    BY <1>1, <2>1 DEF Encodes, IsString, IsVector, IsStrings
  <2>3. EncodesBytes(d, s, 1, a, b)
    BY <2>2, BytesKept
  <2> QED
    BY <1>1, <2>1, <2>3 DEF Encodes
<1>2. CASE IsVector(object)
  <2>1. PICK s \in Seq(S!Bytes) : s = object.value
    BY <1>2 DEF IsVector
  <2>2. EncodesBytes(m, s, Width, a, b)
    BY <1>2, <2>1 DEF Encodes, IsString, IsVector, IsStrings
  <2>3. EncodesBytes(d, s, Width, a, b)
    BY <2>2, BytesKept, SerdeConstants
  <2> QED
    BY <1>2, <2>1, <2>3 DEF Encodes
<1>3. CASE IsStrings(object)
  <2>1. PICK s \in Strings : s = object.value
    BY <1>3 DEF IsStrings
  <2>2. PICK f : /\ Prefixed(m, Len(s), a)
                 /\ Sizes(s, f) /\ b = a + PrefixBytes + f[Len(s)]
                 /\ EncodesStrings(m, s, f, a + PrefixBytes, Len(s))
    BY <1>3, <2>1 DEF Encodes, IsString, IsVector, IsStrings
  <2>3. PICK n \in Nat, begin \in Nat : n = Len(s) /\ begin = a + PrefixBytes
    BY SerdeConstants DEF Strings
  <2>4. PICK total \in Nat : total = f[n] /\ b = begin + total
    BY <2>2, <2>3 DEF Sizes
  <2>5. Prefixed(d, n, a)
    <3>1. ASSUME NEW i \in 0..PrefixBytes - 1 PROVE d[a + i] = m[a + i]
      <4>1. a + i \in a..b - 1
        BY <2>3, <2>4, SerdeConstants
      <4> QED
        BY <4>1
    <3> QED
      BY <2>2, <2>3, <3>1 DEF Prefixed
  <2>6. ASSUME NEW k \in 1..n PROVE EncodesBytes(d, s[k], 1, begin + f[k - 1], begin + f[k])
    <3>1. k - 1 \in 0..n /\ k \in 0..n /\ n \in 0..n /\ k \in 0..n
      OBVIOUS
    <3>2. PICK v \in Nat, w \in Nat : v = begin + f[k - 1] /\ w = begin + f[k]
      <4>1. f[k - 1] \in Nat /\ f[k] \in Nat
        BY <2>2, <2>3, <3>1 DEF Sizes
      <4> QED
        BY <4>1
    <3>3. w <= b
      <4>1. f[k] <= f[n]
        BY <2>2, <2>3, <3>1, SizesGrow
      <4>2. PICK r \in Nat : r = f[k] /\ r <= total
        BY <2>2, <2>3, <2>4, <3>1, <4>1 DEF Sizes
      <4> QED
        BY <2>4, <3>2, <4>2
    <3>4. EncodesBytes(m, s[k], 1, v, w)
      BY <2>2, <2>3, <3>2 DEF EncodesStrings
    <3>5. v >= a
      <4>1. PICK r \in Nat : r = f[k - 1]
        BY <2>2, <2>3, <3>1 DEF Sizes
      <4> QED
        BY <2>3, <3>2, <4>1, SerdeConstants
    <3>6. \A i \in v..w - 1 : i \in a..b - 1
      BY <3>3, <3>5
    <3>7. s[k] \in Seq(S!Bytes)
      BY <2>3 DEF Strings
    <3>8. EncodesBytes(d, s[k], 1, v, w)
      BY <3>4, <3>6, <3>7, BytesKept
    <3> QED
      BY <3>2, <3>8
  <2>7. EncodesStrings(d, s, f, begin, n)
    BY <2>6 DEF EncodesStrings
  <2> QED
    BY <1>3, <2>1, <2>2, <2>3, <2>5, <2>7 DEF Encodes
<1> QED
  BY <1>1, <1>2, <1>3, ObjectIs

(***************************************************************************)
(* Serde: the objects in the buffer, and the theorems.                     *)
(***************************************************************************)

\* Ends is what its recursion says.
LEMMA EndsAre ==
  ASSUME NEW os \in Seq(Objects)
  PROVE  /\ S!Ends(os)[0] = 0
         /\ \A k \in 0..Len(os) : S!Ends(os)[k] \in Nat
         /\ \A k \in 1..Len(os) : S!Ends(os)[k] = S!Ends(os)[k - 1] + S!EncodedSize(os[k])
<1> DEFINE n == Len(os)
           sizes == [k \in 1..n |-> S!EncodedSize(os[k])]
           step == [k \in 1..n |-> [x \in Nat |-> x + sizes[k]]]
           ends == S!Ends(os)
<1>1. n \in Nat
  OBVIOUS
<1>2. sizes \in [1..n -> Nat] /\ \A k \in 1..n : sizes[k] = S!EncodedSize(os[k])
  <2>1. \A k \in 1..n : os[k] \in Objects
    OBVIOUS
  <2> QED
    BY <2>1, ObjectSize
<1> HIDE DEF sizes
<1>3. step \in [1..n -> [Nat -> Nat]]
  BY <1>2
<1>4. \A k \in 1..n, x \in Nat : step[k][x] = x + sizes[k]
  OBVIOUS
<1>5. PICK f \in [0..n -> Nat] : Recurs(f, 0, step, n)
  <2> HIDE DEF step
  <2> QED
    BY <1>1, <1>3, Recursive
<1>6. f = [k \in 0..n |-> IF k = 0 THEN 0 ELSE f[k - 1] + S!EncodedSize(os[k])]
  <2> HIDE DEF step
  <2>1. f = [k \in 0..n |-> IF k = 0 THEN 0 ELSE step[k][f[k - 1]]]
    BY <1>5 DEF Recurs
  <2>2. ASSUME NEW k \in 0..n, k # 0 PROVE step[k][f[k - 1]] = f[k - 1] + S!EncodedSize(os[k])
    <3>1. k \in 1..n /\ k - 1 \in 0..n
      BY <1>1, <2>2
    <3>2. PICK r \in Nat : r = f[k - 1]
      BY <3>1
    <3>3. step[k][r] = r + S!EncodedSize(os[k])
      BY <1>2, <1>4, <3>1
    <3> QED
      BY <3>2, <3>3
  <2> QED
    BY <2>1, <2>2
<1>7. ends = [k \in 0..n |-> IF k = 0 THEN 0 ELSE ends[k - 1] + S!EncodedSize(os[k])]
  BY <1>6 DEF S!Ends
<1> HIDE DEF ends, step
<1>8. ends[0] = 0 /\ \A k \in 1..n : ends[k] = ends[k - 1] + S!EncodedSize(os[k])
  BY <1>1, <1>7
<1>9. ASSUME NEW k \in 1..n, ends[k - 1] \in Nat PROVE ends[k] \in Nat
  <2>1. PICK r \in Nat, l \in Nat : r = ends[k - 1] /\ l = S!EncodedSize(os[k])
    BY <1>2, <1>9
  <2>2. r + l \in Nat
    OBVIOUS
  <2> QED
    BY <1>8, <2>1, <2>2
<1>10. \A k \in 0..n : ends[k] \in Nat
  <2>1. n \in Nat /\ ends[0] \in Nat
    BY <1>1, <1>8
  <2>2. \A k \in 1..n : ends[k - 1] \in Nat => ends[k] \in Nat
    BY <1>9
  <2> HIDE DEF n
  <2> QED
    BY <2>1, <2>2, Keeps
<1> QED
  BY <1>8, <1>10 DEF ends

LEMMA EndsGrow ==
  ASSUME NEW os \in Seq(Objects)
  PROVE  \A k \in 0..Len(os) : S!Ends(os)[k] <= S!Ends(os)[Len(os)]
<1> DEFINE n == Len(os)
           e == S!Ends(os)
           T == {k \in 0..n : e[n - k] <= e[n]}
<1>1. n \in Nat /\ \A k \in 0..n : e[k] \in Nat
  BY EndsAre
<1>2. \A k \in 1..n : e[k] = e[k - 1] + S!EncodedSize(os[k])
  BY EndsAre
<1>3. \A k \in 1..n : S!EncodedSize(os[k]) \in Nat
  <2>1. \A k \in 1..n : os[k] \in Objects
    OBVIOUS
  <2> QED
    BY <2>1, ObjectSize
<1> HIDE DEF e
<1>4. 0 \in T
  <2>1. n - 0 = n /\ e[n] \in Nat
    BY <1>1
  <2> QED
    BY <1>1, <2>1
<1>5. ASSUME NEW k \in 0..n - 1, k \in T PROVE k + 1 \in T
  <2>1. PICK j \in 1..n : j = n - k /\ j - 1 = n - (k + 1)
    BY <1>1
  <2>2. PICK x \in Nat, y \in Nat, z \in Nat, l \in Nat :
           x = e[j - 1] /\ y = e[j] /\ z = e[n] /\ l = S!EncodedSize(os[j])
    <3>1. j - 1 \in 0..n /\ j \in 0..n /\ n \in 0..n
      BY <1>1
    <3> QED
      BY <1>1, <1>3, <3>1
  <2>3. y = x + l
    BY <1>2, <2>2
  <2>4. y <= z
    BY <1>5, <2>1, <2>2
  <2>5. x <= z
    BY <2>3, <2>4
  <2> QED
    BY <1>1, <2>1, <2>2, <2>5
<1>6. 0..n \subseteq T
  <2> HIDE DEF T, n
  <2> QED
    BY <1>1, <1>4, <1>5, UpTo
<1>7. ASSUME NEW k \in 0..n PROVE e[k] <= e[n]
  <2>1. PICK j \in 0..n : j = n - k /\ n - j = k
    <3>1. n \in Nat
      BY <1>1
    <3> HIDE DEF n
    <3>2. n - k \in 0..n /\ n - (n - k) = k
      BY <3>1
    <3> QED
      BY <3>2
  <2>2. j \in T
    <3> HIDE DEF T
    <3> QED
      BY <1>6
  <2> QED
    BY <2>1, <2>2
<1> QED
  BY <1>7 DEF e

\* os is ps and, behind it, one more object.
OneMoreObject(ps, object, os) == os = Append(ps, object)

LEMMA EndsAppend ==
  ASSUME NEW ps \in Seq(Objects), NEW object \in Objects, NEW os, OneMoreObject(ps, object, os)
  PROVE  /\ os \in Seq(Objects) /\ Len(os) = Len(ps) + 1 /\ os[Len(ps) + 1] = object
         /\ \A k \in 1..Len(ps) : os[k] = ps[k]
         /\ \A k \in 0..Len(ps) : S!Ends(os)[k] = S!Ends(ps)[k]
         /\ S!Ends(os)[Len(ps) + 1] = S!Ends(ps)[Len(ps)] + S!EncodedSize(object)
<1> DEFINE n == Len(ps)
           e == S!Ends(os)
           f == S!Ends(ps)
           T == {k \in 0..n : e[k] = f[k]}
<1>1. /\ os \in Seq(Objects) /\ Len(os) = n + 1 /\ os[n + 1] = object
      /\ \A k \in 1..n : os[k] = ps[k]
  BY AppendProperties DEF OneMoreObject
<1>2. n \in Nat
  OBVIOUS
<1>3. e[0] = 0 /\ \A k \in 1..n + 1 : e[k] = e[k - 1] + S!EncodedSize(os[k])
  BY <1>1, EndsAre
<1>4. f[0] = 0 /\ \A k \in 1..n : f[k] = f[k - 1] + S!EncodedSize(ps[k])
  BY EndsAre
<1> HIDE DEF e, f
<1>5. 0 \in T
  BY <1>2, <1>3, <1>4
<1>6. ASSUME NEW k \in 0..n - 1, k \in T PROVE k + 1 \in T
  <2>1. PICK j \in 1..n : j = k + 1 /\ j - 1 = k /\ j \in 1..n + 1 /\ j \in 0..n
    BY <1>2
  <2>2. e[j - 1] = f[j - 1] /\ os[j] = ps[j]
    BY <1>1, <1>6, <2>1
  <2>3. e[j] = e[j - 1] + S!EncodedSize(os[j])
    BY <1>3, <2>1
  <2>4. f[j] = f[j - 1] + S!EncodedSize(ps[j])
    BY <1>4
  <2>5. e[j] = f[j]
    BY <2>2, <2>3, <2>4
  <2> QED
    BY <2>1, <2>5
<1>7. 0..n \subseteq T
  <2> HIDE DEF T, n
  <2> QED
    BY <1>2, <1>5, <1>6, UpTo
<1>8. \A k \in 0..n : e[k] = f[k]
  BY <1>7
<1>9. e[n + 1] = f[n] + S!EncodedSize(object)
  <2>1. PICK j : j = n + 1
    OBVIOUS
  <2>2. j \in 1..n + 1 /\ j - 1 = n /\ n \in 0..n
    BY <1>2, <2>1
  <2>3. e[j] = e[j - 1] + S!EncodedSize(os[j])
    BY <1>3, <2>2
  <2> QED
    BY <1>1, <1>8, <2>1, <2>2, <2>3
<1> QED
  BY <1>1, <1>8, <1>9 DEF e, f

\* The inductive invariant: what is serialized is in its place, and what was read is what is there.
SerdeOk(d, e, os, s, r) ==
    /\ d \in Mem /\ os \in Seq(Objects)
    /\ e \in 0..ObjectBuffer /\ e = S!Ends(os)[Len(os)]
    /\ \A k \in 1..Len(os) : Encodes(d, os[k], S!Ends(os)[k - 1], S!Ends(os)[k])
    /\ r \in Seq(Values) /\ Len(r) <= Len(os) /\ \A k \in 1..Len(r) : r[k] = os[k].value
    /\ s = S!Ends(os)[Len(r)]

\* A call to serialize failed only for want of room.
Short(w) == w.object # S!NoObject => (w.p = -1 <=> w.dest + S!EncodedSize(w.object) > w.destEnd)

SerdeInv == SerdeOk(bytes, end, objects, src, restored) /\ Short(ser) /\ de.examined <= de.srcEnd

LEMMA SerdeBegins ==
  ASSUME S!Init PROVE SerdeInv
<1>1. ObjectBuffer \in Nat /\ Base \in Nat /\ Base > 0
  BY SerdeConstants
<1>2. bytes \in Mem
  <2>1. Base - 1 \in S!Bytes
    BY <1>1 DEF S!Bytes
  <2>2. bytes = [i \in 0..ObjectBuffer - 1 |-> Base - 1]
    BY DEF S!Init
  <2> QED
    BY <2>1, <2>2 DEF Mem
<1>3. PICK os \in Seq(Objects) : os = <<>> /\ Len(os) = 0
  <2>1. <<>> \in Seq(Objects) /\ Len(<<>>) = 0
    OBVIOUS
  <2> QED
    BY <2>1
<1>4. PICK r \in Seq(Values) : r = <<>> /\ Len(r) = 0
  <2>1. <<>> \in Seq(Values) /\ Len(<<>>) = 0
    OBVIOUS
  <2> QED
    BY <2>1
<1>5. S!Ends(os)[0] = 0
  BY EndsAre
<1>6. objects = os /\ restored = r /\ end = 0 /\ src = 0
  BY <1>3, <1>4 DEF S!Init
<1>7. SerdeOk(bytes, 0, os, 0, r)
  BY <1>1, <1>2, <1>3, <1>4, <1>5 DEF SerdeOk
<1>8. Short(ser)
  BY DEF S!Init, Short
<1>9. de.examined <= de.srcEnd
  BY DEF S!Init
<1> QED
  BY <1>6, <1>7, <1>8, <1>9 DEF SerdeInv

\* What serialize does.
LEMMA SerializeIs ==
  ASSUME SerdeInv, NEW object \in Objects, NEW destEnd \in end..ObjectBuffer, S!Serialize(object, destEnd)
  PROVE  \E out \in Outs :
            /\ SerializesObject(out, bytes, object, end, destEnd)
            /\ bytes' = out.mem /\ restored' = restored /\ src' = src /\ de' = de
            /\ ser' = [object |-> object, dest |-> end, destEnd |-> destEnd, p |-> out.p]
            /\ \/ out.p = -1 /\ end' = end /\ objects' = objects
               \/ out.p # -1 /\ end' = out.p /\ OneMoreObject(objects, object, objects')
<1>1. bytes \in Mem /\ end \in Nat
  BY SerdeConstants DEF SerdeInv, SerdeOk
<1>2. PICK out : out = S!Serialized(object, end, destEnd)
  OBVIOUS
<1>3. SerializesObject(out, bytes, object, end, destEnd)
  BY <1>1, <1>2, ObjectSerialized
<1>4. out \in Outs
  BY <1>3 DEF SerializesObject
<1>5. /\ bytes' = out.mem /\ restored' = restored /\ src' = src /\ de' = de
      /\ ser' = [object |-> object, dest |-> end, destEnd |-> destEnd, p |-> out.p]
      /\ \/ out.p = -1 /\ end' = end /\ objects' = objects
         \/ out.p # -1 /\ end' = out.p /\ objects' = Append(objects, object)
  BY <1>2 DEF S!Serialize, S!nullptr
<1> QED
  BY <1>3, <1>4, <1>5 DEF OneMoreObject

LEMMA SerializeSteps ==
  ASSUME SerdeInv, NEW object \in Objects, NEW destEnd \in end..ObjectBuffer, S!Serialize(object, destEnd)
  PROVE  /\ SerdeInv'
         /\ \A i \in 0..ObjectBuffer - 1 : bytes'[i] # bytes[i] => i \in ser'.dest..ser'.destEnd - 1
<1>1. PICK out \in Outs :
         /\ SerializesObject(out, bytes, object, end, destEnd)
         /\ bytes' = out.mem /\ restored' = restored /\ src' = src /\ de' = de
         /\ ser' = [object |-> object, dest |-> end, destEnd |-> destEnd, p |-> out.p]
         /\ \/ out.p = -1 /\ end' = end /\ objects' = objects
            \/ out.p # -1 /\ end' = out.p /\ OneMoreObject(objects, object, objects')
  BY SerializeIs
<1>2. /\ bytes \in Mem /\ objects \in Seq(Objects)
      /\ end \in 0..ObjectBuffer /\ end = S!Ends(objects)[Len(objects)]
      /\ \A k \in 1..Len(objects) :
            Encodes(bytes, objects[k], S!Ends(objects)[k - 1], S!Ends(objects)[k])
      /\ restored \in Seq(Values) /\ Len(restored) <= Len(objects)
      /\ \A k \in 1..Len(restored) : restored[k] = objects[k].value
      /\ src = S!Ends(objects)[Len(restored)]
  BY DEF SerdeInv, SerdeOk
<1>3. PICK size \in Nat : size = S!EncodedSize(object)
  BY ObjectSize
<1>4. PICK d \in Mem : d = out.mem
  BY DEF Outs
<1>5. PICK e \in 0..ObjectBuffer : e = end
  BY <1>2
<1>6. ObjectBuffer \in Nat /\ destEnd \in Nat /\ destEnd <= ObjectBuffer /\ e <= destEnd
  BY <1>5, SerdeConstants
<1>7. /\ Only(bytes, d, e, destEnd)
      /\ e + size > destEnd => out.p = -1
      /\ e + size <= destEnd => out.p = e + size /\ Encodes(d, object, e, out.p)
  BY <1>1, <1>3, <1>4, <1>5 DEF SerializesObject
<1>8. PICK os \in Seq(Objects) : os = objects
  BY <1>2
<1>9. PICK n \in Nat : n = Len(os)
  OBVIOUS
<1>10. ASSUME NEW k \in 1..n PROVE Encodes(d, os[k], S!Ends(os)[k - 1], S!Ends(os)[k])
  <2>1. os[k] \in Objects /\ k - 1 \in 0..n /\ k \in 0..n
    BY <1>9
  <2>2. PICK a \in Nat, b \in Nat : a = S!Ends(os)[k - 1] /\ b = S!Ends(os)[k]
    BY <1>9, <2>1, EndsAre
  <2>3. b <= e
    BY <1>2, <1>5, <1>8, <1>9, <2>1, <2>2, EndsGrow
  <2>4. Encodes(bytes, os[k], a, b)
    BY <1>2, <1>8, <1>9, <2>2
  <2>5. \A i \in a..b - 1 : d[i] = bytes[i]
    BY <1>6, <1>7, <2>3 DEF Only
  <2>6. Encodes(d, os[k], a, b)
    BY <2>1, <2>4, <2>5, ObjectKept
  <2> QED
    BY <2>2, <2>6
<1>11. SerdeOk(bytes, end, objects, src, restored)'
  <2>1. CASE out.p = -1 /\ end' = end /\ objects' = objects
    <3>1. SerdeOk(d, end, os, src, restored)
      BY <1>2, <1>8, <1>9, <1>10 DEF SerdeOk
    <3> QED
      BY <1>1, <1>4, <1>8, <2>1, <3>1
  <2>2. CASE out.p # -1 /\ end' = out.p /\ OneMoreObject(objects, object, objects')
    <3>1. PICK ps : ps = objects'
      OBVIOUS
    <3>2. /\ ps \in Seq(Objects) /\ Len(ps) = n + 1 /\ ps[n + 1] = object
          /\ \A k \in 1..n : ps[k] = os[k]
          /\ \A k \in 0..n : S!Ends(ps)[k] = S!Ends(os)[k]
          /\ S!Ends(ps)[n + 1] = S!Ends(os)[n] + S!EncodedSize(object)
      BY <1>8, <1>9, <2>2, <3>1, EndsAppend
    <3>3. e + size <= destEnd
      BY <1>6, <1>7, <2>2
    <3>4. PICK p \in 0..ObjectBuffer : p = out.p /\ p = e + size /\ Encodes(d, object, e, p)
      BY <1>6, <1>7, <3>3
    <3>5. p = S!Ends(ps)[n + 1] /\ e = S!Ends(ps)[n]
      BY <1>2, <1>3, <1>5, <1>8, <1>9, <3>2, <3>4
    <3>6. ASSUME NEW k \in 1..n + 1 PROVE Encodes(d, ps[k], S!Ends(ps)[k - 1], S!Ends(ps)[k])
      <4>1. CASE k \in 1..n
        <5>1. k - 1 \in 0..n /\ k \in 0..n
          BY <4>1
        <5>2. Encodes(d, os[k], S!Ends(os)[k - 1], S!Ends(os)[k])
          BY <1>10, <4>1
        <5> QED
          BY <3>2, <4>1, <5>1, <5>2
      <4>2. CASE k = n + 1
        <5>1. k - 1 = n
          BY <4>2
        <5>2. ps[k] = object /\ S!Ends(ps)[k - 1] = e /\ S!Ends(ps)[k] = p
          BY <3>2, <3>5, <4>2, <5>1
        <5> QED
          BY <3>4, <5>2
      <4> QED
        BY <4>1, <4>2
    <3>7. Len(restored) \in 0..n
      BY <1>2, <1>8, <1>9
    <3>8. SerdeOk(d, p, ps, src, restored)
      <4>1. d \in Mem /\ ps \in Seq(Objects) /\ p \in 0..ObjectBuffer /\ p = S!Ends(ps)[Len(ps)]
        BY <3>2, <3>5
      <4>2. \A k \in 1..Len(ps) : Encodes(d, ps[k], S!Ends(ps)[k - 1], S!Ends(ps)[k])
        BY <3>2, <3>6
      <4>3. restored \in Seq(Values) /\ Len(restored) <= Len(ps)
        BY <1>2, <3>2, <3>7
      <4>4. \A k \in 1..Len(restored) : restored[k] = ps[k].value
        <5>1. \A k \in 1..Len(restored) : restored[k] = os[k].value
          BY <1>2, <1>8
        <5>2. \A k \in 1..Len(restored) : k \in 1..n
          BY <3>7
        <5> QED
          BY <3>2, <5>1, <5>2
      <4>5. src = S!Ends(ps)[Len(restored)]
        BY <1>2, <1>8, <3>2, <3>7
      <4> QED
        BY <4>1, <4>2, <4>3, <4>4, <4>5 DEF SerdeOk
    <3> QED
      BY <1>1, <1>4, <2>2, <3>1, <3>4, <3>8
  <2> QED
    BY <1>1, <2>1, <2>2
<1>12. Short(ser)'
  <2>1. PICK w : w = ser'
    OBVIOUS
  <2>2. w.object = object /\ w.dest = e /\ w.destEnd = destEnd /\ w.p = out.p
    BY <1>1, <1>5, <2>1
  <2>3. out.p = -1 <=> e + size > destEnd
    BY <1>6, <1>7
  <2>4. Short(w)
    BY <1>3, <2>2, <2>3 DEF Short
  <2> QED
    BY <2>1, <2>4
<1>13. (de.examined <= de.srcEnd)'
  BY <1>1 DEF SerdeInv
<1>14. \A i \in 0..ObjectBuffer - 1 : bytes'[i] # bytes[i] => i \in ser'.dest..ser'.destEnd - 1
  <2>1. ser'.dest = e /\ ser'.destEnd = destEnd
    BY <1>1, <1>5
  <2>2. ASSUME NEW i \in 0..ObjectBuffer - 1, d[i] # bytes[i] PROVE i \in e..destEnd - 1
    BY <1>6, <1>7, <2>2 DEF Only
  <2> QED
    BY <1>1, <1>4, <2>1, <2>2
<1> QED
  BY <1>11, <1>12, <1>13, <1>14 DEF SerdeInv

\* What deserialize does.
LEMMA DeserializeIs ==
  ASSUME SerdeInv, NEW srcEnd \in 0..ObjectBuffer, S!Deserialize(srcEnd)
  PROVE  \E in : /\ Len(restored) < Len(objects) /\ srcEnd >= src
                 /\ in = S!Deserialized(objects[Len(restored) + 1].type, src, srcEnd)
                 /\ bytes' = bytes /\ end' = end /\ objects' = objects /\ ser' = ser
                 /\ de' = [srcEnd |-> srcEnd, p |-> in.p, examined |-> in.examined]
                 /\ \/ in.p = -1 /\ src' = src /\ restored' = restored
                    \/ in.p # -1 /\ src' = in.p /\ restored' = Append(restored, in.value)
BY DEF S!Deserialize, S!nullptr

LEMMA DeserializeSteps ==
  ASSUME SerdeInv, NEW srcEnd \in 0..ObjectBuffer, S!Deserialize(srcEnd)
  PROVE  SerdeInv' /\ bytes' = bytes
<1>1. PICK in :
         /\ Len(restored) < Len(objects) /\ srcEnd >= src
         /\ in = S!Deserialized(objects[Len(restored) + 1].type, src, srcEnd)
         /\ bytes' = bytes /\ end' = end /\ objects' = objects /\ ser' = ser
         /\ de' = [srcEnd |-> srcEnd, p |-> in.p, examined |-> in.examined]
         /\ \/ in.p = -1 /\ src' = src /\ restored' = restored
            \/ in.p # -1 /\ src' = in.p /\ restored' = Append(restored, in.value)
  BY DeserializeIs
<1>2. /\ bytes \in Mem /\ objects \in Seq(Objects)
      /\ end \in 0..ObjectBuffer /\ end = S!Ends(objects)[Len(objects)]
      /\ \A k \in 1..Len(objects) :
            Encodes(bytes, objects[k], S!Ends(objects)[k - 1], S!Ends(objects)[k])
      /\ restored \in Seq(Values) /\ Len(restored) <= Len(objects)
      /\ \A k \in 1..Len(restored) : restored[k] = objects[k].value
      /\ src = S!Ends(objects)[Len(restored)]
  BY DEF SerdeInv, SerdeOk
<1>3. PICK os \in Seq(Objects) : os = objects
  BY <1>2
<1>4. PICK r \in Seq(Values) : r = restored
  BY <1>2
<1>5. PICK n \in Nat, m \in Nat : n = Len(os) /\ m = Len(r) /\ m + 1 \in 1..n /\ m < n
  BY <1>1, <1>3, <1>4
<1>6. PICK object \in Objects : object = os[m + 1]
  BY <1>5
<1>7. PICK from \in 0..srcEnd : from = src /\ from = S!Ends(os)[m]
  <2>1. S!Ends(os)[m] \in Nat
    BY <1>5, EndsAre
  <2>2. src = S!Ends(os)[m]
    BY <1>2, <1>3, <1>4, <1>5
  <2>3. srcEnd \in Nat
    BY SerdeConstants
  <2> QED
    BY <1>1, <2>1, <2>2, <2>3
<1>8. in = S!Deserialized(object.type, from, srcEnd)
  BY <1>1, <1>3, <1>4, <1>5, <1>6, <1>7
<1>9. in \in Ins(Values, srcEnd)
  BY <1>2, <1>8, ObjectRead
<1>10. SerdeOk(bytes, end, objects, src, restored)'
  <2>1. CASE in.p = -1 /\ src' = src /\ restored' = restored
    BY <1>1, <2>1 DEF SerdeInv
  <2>2. CASE in.p # -1 /\ src' = in.p /\ restored' = Append(restored, in.value)
    <3>1. PICK b : b = S!Ends(os)[m + 1]
      OBVIOUS
    <3>2. Encodes(bytes, object, from, b)
      <4>1. m + 1 \in 1..Len(os) /\ (m + 1) - 1 = m
        BY <1>5
      <4> QED
        BY <1>2, <1>3, <1>6, <1>7, <3>1, <4>1
    <3>3. in.p = b /\ in.value = object.value
      BY <1>2, <1>8, <2>2, <3>2, ObjectReadBack
    <3>4. PICK v \in Values : v = in.value
      BY <1>9 DEF Ins
    <3>5. PICK t : t = Append(r, v)
      OBVIOUS
    <3>6. t \in Seq(Values) /\ Len(t) = m + 1 /\ t[m + 1] = v /\ \A k \in 1..m : t[k] = r[k]
      BY <1>5, <3>5, AppendProperties
    <3>7. \A k \in 1..m + 1 : k \in 1..m \/ k = m + 1
      BY <1>5
    <3>8. \A k \in 1..m : t[k] = os[k].value
      BY <1>2, <1>3, <1>4, <1>5, <3>6
    <3>9. t[m + 1] = os[m + 1].value
      BY <1>6, <3>3, <3>4, <3>6
    <3>10. \A k \in 1..Len(t) : t[k] = os[k].value
      BY <3>6, <3>7, <3>8, <3>9
    <3>11. Len(t) <= Len(os) /\ b = S!Ends(os)[Len(t)]
      BY <1>5, <3>1, <3>6
    <3>12. SerdeOk(bytes, end, os, b, t)
      BY <1>2, <1>3, <3>6, <3>10, <3>11 DEF SerdeOk
    <3> QED
      BY <1>1, <1>3, <1>4, <2>2, <3>3, <3>4, <3>5, <3>12
  <2> QED
    BY <1>1, <2>1, <2>2
<1>11. Short(ser)'
  BY <1>1 DEF SerdeInv
<1>12. (de.examined <= de.srcEnd)'
  <2>1. PICK i : i = de'
    OBVIOUS
  <2>2. i.examined = in.examined /\ i.srcEnd = srcEnd
    BY <1>1, <2>1
  <2>3. in.examined \in 0..srcEnd
    BY <1>9 DEF Ins
  <2>4. i.examined <= i.srcEnd
    BY <2>2, <2>3, SerdeConstants
  <2> QED
    BY <2>1, <2>4
<1> QED
  BY <1>1, <1>10, <1>11, <1>12 DEF SerdeInv

\* A step of Serde, or none.
LEMMA SerdeSteps ==
  ASSUME SerdeInv, [EncodingsNext]_<<codec, vars, serdeVars>>
  PROVE  /\ SerdeInv'
         /\ UNCHANGED S!vars \/
            \A i \in 0..ObjectBuffer - 1 : bytes'[i] # bytes[i] => i \in ser'.dest..ser'.destEnd - 1
<1>1. CASE UNCHANGED serdeVars
  <2>1. /\ bytes' = bytes /\ end' = end /\ objects' = objects /\ src' = src
        /\ restored' = restored /\ ser' = ser /\ de' = de
    BY <1>1 DEF serdeVars
  <2>2. UNCHANGED S!vars
    BY <2>1 DEF S!vars
  <2>3. SerdeInv'
    BY <2>1 DEF SerdeInv
  <2> QED
    BY <2>2, <2>3
<1>2. ASSUME NEW object \in Objects, NEW destEnd \in end..ObjectBuffer, S!Serialize(object, destEnd)
      PROVE  /\ SerdeInv'
             /\ \A i \in 0..ObjectBuffer - 1 : bytes'[i] # bytes[i] => i \in ser'.dest..ser'.destEnd - 1
  BY <1>2, SerializeSteps
<1>3. ASSUME NEW srcEnd \in 0..ObjectBuffer, S!Deserialize(srcEnd)
      PROVE  SerdeInv' /\ bytes' = bytes
  BY <1>3, DeserializeSteps
<1>4. \/ UNCHANGED serdeVars
      \/ \E object \in Objects, destEnd \in end..ObjectBuffer : S!Serialize(object, destEnd)
      \/ \E srcEnd \in 0..ObjectBuffer : S!Deserialize(srcEnd)
  BY DEF EncodingsNext, S!Next, serdeVars
<1> QED
  BY <1>1, <1>2, <1>3, <1>4

LEMMA SerdeSafe == EncodingsSpec => []SerdeInv
<1>1. EncodingsInit => SerdeInv
  BY SerdeBegins DEF EncodingsInit
<1>2. SerdeInv /\ [EncodingsNext]_<<codec, vars, serdeVars>> => SerdeInv'
  BY SerdeSteps
<1> QED
  BY <1>1, <1>2, PTL DEF EncodingsSpec

\* Reading yields what was written, in order, and every read that succeeds consumes exactly the
\* bytes of one object, whatever objects are written and wherever the ends of the calls are.
THEOREM ObjectsReadBack == EncodingsSpec => []ReadsBack
<1>1. SerdeInv => ReadsBack
  <2> SUFFICES ASSUME SerdeInv PROVE ReadsBack
    OBVIOUS
  <2>1. /\ restored \in Seq(Values) /\ \A k \in 1..Len(restored) : restored[k] = objects[k].value
        /\ src = S!Ends(objects)[Len(restored)]
    BY DEF SerdeInv, SerdeOk
  <2>2. restored = [k \in 1..Len(restored) |-> restored[k]]
    BY <2>1
  <2>3. restored = [k \in 1..Len(restored) |-> objects[k].value]
    BY <2>1, <2>2
  <2> QED
    BY <2>1, <2>3 DEF ReadsBack, S!ReadsBack
<1> QED
  BY <1>1, SerdeSafe, PTL

\* A call to serialize fails if and only if the object does not fit the capacity it was given.
THEOREM ShortOnly == EncodingsSpec => []FailsOnlyWhenShort
<1>1. SerdeInv => FailsOnlyWhenShort
  BY DEF SerdeInv, Short, FailsOnlyWhenShort, S!FailsOnlyWhenShort, S!nullptr
<1> QED
  BY <1>1, SerdeSafe, PTL

\* No call looks at a byte behind the end of its source, and none changes a byte outside the
\* capacity it was given, also if it fails part way.
THEOREM BoundsKept == EncodingsSpec => StaysInside
<1>1. SerdeInv /\ SerdeInv' /\ [EncodingsNext]_<<codec, vars, serdeVars>> =>
         [/\ de'.examined <= de'.srcEnd
          /\ \A i \in DOMAIN bytes : bytes'[i] # bytes[i] => i \in ser'.dest..ser'.destEnd - 1]_S!vars
  <2> SUFFICES ASSUME SerdeInv, SerdeInv', [EncodingsNext]_<<codec, vars, serdeVars>>, ~ UNCHANGED S!vars
               PROVE  /\ de'.examined <= de'.srcEnd
                      /\ \A i \in DOMAIN bytes : bytes'[i] # bytes[i] => i \in ser'.dest..ser'.destEnd - 1
    OBVIOUS
  <2>1. de'.examined <= de'.srcEnd
    BY DEF SerdeInv
  <2>2. DOMAIN bytes = 0..ObjectBuffer - 1
    BY DEF SerdeInv, SerdeOk, Mem
  <2> QED
    BY <2>1, <2>2, SerdeSteps
<1> QED
  BY <1>1, SerdeSafe, PTL DEF EncodingsSpec, StaysInside, S!StaysInside
=============================================================================
