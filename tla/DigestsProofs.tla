----------------------------- MODULE DigestsProofs -----------------------------
(***************************************************************************)
(* Proofs about SHA1: the object stands for the bytes put (StandsForPut),  *)
(* and finish digests the padded message (ImplementsPaddedMessage); about  *)
(* CRC32: a result is the crc of the whole (CrcOfTheWhole); and about      *)
(* MessageInfo: infos that differ are hashed apart (HashTellsApart).       *)
(***************************************************************************)
EXTENDS MCDigests, Integers, SequenceTheorems, WellFoundedInduction, TLAPS

Unit  == Bytes \cup 0..WordValues - 1
Units == Seq(Unit)

(***************************************************************************)
(* Division.                                                               *)
(***************************************************************************)

\* A quotient and a remainder are determined by what they add up to.
LEMMA DivMod ==
  ASSUME NEW b \in Nat, b > 0, NEW q \in Nat, NEW r \in 0..b - 1, NEW n, n = b * q + r
  PROVE  n \in Nat /\ n \div b = q /\ n % b = r
  OBVIOUS

Divided(n, b) == \E q \in Nat, r \in 0..b - 1 : n = b * q + r /\ n \div b = q /\ n % b = r

LEMMA Division ==
  ASSUME NEW b \in Nat, b > 0, NEW n \in Nat
  PROVE  Divided(n, b)
<1>1. n \div b \in Nat /\ n % b \in 0..b - 1 /\ n = b * (n \div b) + (n % b)
  OBVIOUS
<1> QED
  BY <1>1 DEF Divided

(***************************************************************************)
(* The count.                                                              *)
(***************************************************************************)

\* x and y are the low and the high word of n.
TwoWords(W, x, y, n) == x \in 0..W - 1 /\ y \in 0..W - 1 /\ x + W * y = n % (W * W)

\* Words of W values hold whole blocks of B bytes.
HoldsBlocks(W, B) == W % (8 * B) = 0

Sum(W, x, m)        == (x + (m % W)) % W
SumHigh(W, y, u, m) == (y + (IF u < m % W THEN 1 ELSE 0) + m \div W) % W

\* The number of which x and y are the last two digits.
Parts(W, n, x, y) == \E q \in Nat : n = (W * q + y) * W + x

LEMMA CountsOf ==
  ASSUME NEW W \in Nat, W > 0, NEW n \in Nat, NEW x, NEW y, TwoWords(W, x, y, n)
  PROVE  Parts(W, n, x, y)
<1>0. x \in 0..W - 1 /\ y \in 0..W - 1 /\ x + W * y = n % (W * W)
  BY DEF TwoWords
<1>1. PICK w \in Nat : w = W * W /\ w > 0
  OBVIOUS
<1>2. Divided(n, w)
  BY <1>1, Division
<1>9. PICK q \in Nat, r \in Int : n = w * q + r /\ n % w = r
  BY <1>2 DEF Divided
<1>3. n = (W * W) * q + (x + W * y)
  <2>1. r = x + W * y
    BY <1>0, <1>1, <1>9
  <2> QED
    BY <1>1, <1>9, <2>1
<1>4. (W * W) * q = (W * q) * W
  OBVIOUS
<1>5. (W * q + y) * W = (W * q) * W + W * y
  <2>1. PICK p \in Int, v \in Int : p = W * q /\ v = y
    BY <1>0
  <2>2. (p + v) * W = p * W + W * v
    OBVIOUS
  <2> QED
    BY <2>1, <2>2
<1> QED
  <2>1. (W * q) * W \in Int /\ W * y \in Int /\ x \in Int
    BY <1>0
  <2>2. n = (W * q + y) * W + x
    BY <1>3, <1>4, <1>5, <2>1
  <2> QED
    BY <2>2 DEF Parts

LEMMA CountsFrom ==
  ASSUME NEW W \in Nat, W > 0, NEW x \in 0..W - 1, NEW y \in 0..W - 1,
         NEW n, Parts(W, n, x, y)
  PROVE  x + W * y = n % (W * W)
<1>0. PICK q \in Nat : n = (W * q + y) * W + x
  BY DEF Parts
<1>1. W * W \in Nat /\ W * W > 0
  OBVIOUS
<1>2. (W * q + y) * W = (W * W) * q + W * y
  OBVIOUS
<1>3. x + W * y \in 0..W * W - 1
  <2>1. W * y + W = W * (y + 1)
    OBVIOUS
  <2>2. W * (y + 1) <= W * W
    OBVIOUS
  <2> QED
    BY <2>1, <2>2
<1>4. PICK r, w : r = x + W * y /\ w = W * W
  OBVIOUS
<1>5. n = w * q + r /\ w \in Nat /\ w > 0 /\ r \in 0..w - 1
  BY <1>0, <1>1, <1>2, <1>3, <1>4
<1>6. n % w = r
  BY <1>5, DivMod
<1> QED
  BY <1>4, <1>6

\* Addition of two numbers, word by word with a carry.
LEMMA AddWords ==
  ASSUME NEW W \in Nat, W > 0, NEW n \in Nat, NEW m \in Nat,
         NEW x \in 0..W - 1, NEW y \in 0..W - 1, TwoWords(W, x, y, n),
         NEW u, u = Sum(W, x, m), NEW v, v = SumHigh(W, y, u, m)
  PROVE  TwoWords(W, u, v, n + m)
<1>0. x \in 0..W - 1 /\ y \in 0..W - 1 /\ x + W * y = n % (W * W)
  BY DEF TwoWords
<1>p. Parts(W, n, x, y)
  BY CountsOf
<1>1. PICK q \in Nat : n = (W * q + y) * W + x
  BY <1>p DEF Parts
<1>2. PICK a \in Nat, b \in 0..W - 1 : m = W * a + b /\ m \div W = a /\ m % W = b
  BY Division DEF Divided
<1>3. PICK c \in {0, 1} : x + b = W * c + u /\ u \in 0..W - 1 /\ c = IF u < b THEN 1 ELSE 0
  <2>1. CASE x + b < W
    <3>1. u = x + b
      BY <1>0, <1>2, <2>1 DEF Sum
    <3> QED
      BY <1>0, <2>1, <3>1
  <2>2. CASE x + b >= W
    <3>1. PICK s \in Nat, t \in 0..W - 1 : s = x + b /\ s = W * 1 + t /\ t = x + b - W
      <4>1. x + b - W \in 0..W - 1
        BY <2>2
      <4> QED
        BY <4>1
    <3>2. s % W = t
      <4>1. PICK k \in Nat : k = 1
        OBVIOUS
      <4>2. s = W * k + t
        BY <3>1, <4>1
      <4> QED
        BY <4>2, DivMod
    <3>3. u = x + b - W
      BY <1>2, <3>1, <3>2 DEF Sum
    <3> QED
      BY <3>1, <3>3
  <2> QED
    BY <1>0, <2>1, <2>2
<1>4. y + c + a \in Nat /\ v = (y + c + a) % W
  BY <1>0, <1>2, <1>3 DEF SumHigh
<1>5. PICK e \in Nat : y + c + a = W * e + v /\ v \in 0..W - 1
  BY <1>4, Division DEF Divided
<1>6. n + m = (W * (q + e) + v) * W + u
  <2>1. n + m = (W * q + y) * W + W * a + (x + b)
    BY <1>1, <1>2
  <2>2. n + m = (W * q + y) * W + W * a + W * c + u
    BY <1>3, <2>1
  <2>3. (W * q + y) * W + W * a + W * c = (W * q + (y + c + a)) * W
    OBVIOUS
  <2>4. W * q + (y + c + a) = W * (q + e) + v
    BY <1>5
  <2> QED
    BY <2>2, <2>3, <2>4
<1>7. PICK k \in Nat : k = q + e
  OBVIOUS
<1>8. n + m = (W * k + v) * W + u
  BY <1>6, <1>7
<1>9. Parts(W, n + m, u, v)
  BY <1>7, <1>8, Zenon DEF Parts
<1> QED
  BY <1>3, <1>5, <1>9, CountsFrom DEF TwoWords

LEMMA TwoDigits ==
  ASSUME NEW W \in Nat, W > 0, NEW n \in Nat,
         NEW x \in 0..W - 1, NEW y \in 0..W - 1, TwoWords(W, x, y, n)
  PROVE  n % W = x /\ (n \div W) % W = y
<1>p. Parts(W, n, x, y)
  BY CountsOf
<1>1. PICK q \in Nat : n = (W * q + y) * W + x
  BY <1>p DEF Parts
<1>2. PICK p \in Nat : p = W * q + y
  OBVIOUS
<1>3. n = W * p + x
  BY <1>1, <1>2
<1>4. n \div W = p /\ n % W = x
  BY <1>3, DivMod
<1>5. p % W = y
  BY <1>2, DivMod
<1> QED
  BY <1>4, <1>5

\* Of a length in bits, whose words hold whole blocks, the low word tells what is left of
\* the last block.
LEMMA LastBlock ==
  ASSUME NEW W \in Nat, W > 0, NEW B \in Nat, B > 0, HoldsBlocks(W, B), NEW n \in Nat,
         NEW x \in 0..W - 1, NEW y \in 0..W - 1, NEW m \in Nat, 8 * n = m, TwoWords(W, x, y, m)
  PROVE  (x \div 8) % B = n % B
<1>1. x \in 0..W - 1 /\ y \in 0..W - 1 /\ x + W * y = m % (W * W)
  BY DEF TwoWords
<1>p. Parts(W, m, x, y)
  BY CountsOf
<1>2. PICK q \in Nat : m = (W * q + y) * W + x
  BY <1>p DEF Parts
<1>3. PICK k \in Nat : W = (8 * B) * k
  <2>1. PICK b \in Nat : b = 8 * B /\ b > 0
    OBVIOUS
  <2>2. Divided(W, b)
    BY <2>1, Division
  <2>3. PICK k \in Nat, r \in Int : W = b * k + r /\ W % b = r
    BY <2>2 DEF Divided
  <2>4. r = 0
    BY <2>1, <2>3 DEF HoldsBlocks
  <2>5. W = b * k
    BY <2>1, <2>3, <2>4
  <2> QED
    BY <2>1, <2>5
<1>4. PICK g \in Nat : g = (W * q + y) * k
  OBVIOUS
<1>5. x = 8 * n - 8 * (B * g)
  <2>1. (W * q + y) * W = 8 * (B * g)
    <3>1. (W * q + y) * ((8 * B) * k) = 8 * (B * ((W * q + y) * k))
      OBVIOUS
    <3> QED
      BY <1>3, <1>4, <3>1
  <2> QED
    BY <1>1, <1>2, <2>1
<1>6. PICK h \in Nat : h = B * g
  OBVIOUS
<1>7. PICK z \in Nat : n = h + z /\ x = 8 * z
  <2>1. n - h \in Int /\ x = 8 * (n - h)
    BY <1>5, <1>6
  <2> QED
    BY <2>1
<1>8. x \div 8 = z
  BY <1>7
<1>9. PICK e \in Nat, r \in 0..B - 1 : z = B * e + r /\ z % B = r
  BY Division DEF Divided
<1>10. n = B * (g + e) + r
  BY <1>6, <1>7, <1>9
<1>11. PICK f \in Nat : f = g + e
  OBVIOUS
<1>12. n % B = r
  <2>1. n = B * f + r
    BY <1>10, <1>11
  <2> QED
    BY <2>1, DivMod
<1> QED
  BY <1>8, <1>9, <1>12

(***************************************************************************)
(* Sequences, with operators the provers do not look into.                 *)
(***************************************************************************)

Part(s, m, n) == SubSeq(s, m, n)
Cat(s, t)     == s \o t

LEMMA CatType ==
  ASSUME NEW S, NEW s \in Seq(S), NEW t \in Seq(S)
  PROVE  /\ Cat(s, t) \in Seq(S) /\ Len(Cat(s, t)) = Len(s) + Len(t)
  BY ConcatProperties DEF Cat

LEMMA CatAssociative ==
  ASSUME NEW S, NEW s \in Seq(S), NEW t \in Seq(S), NEW u \in Seq(S)
  PROVE  Cat(Cat(s, t), u) = Cat(s, Cat(t, u))
  BY ConcatAssociative DEF Cat

LEMMA PartType ==
  ASSUME NEW S, NEW s \in Seq(S), NEW m \in Nat, NEW n \in Nat, 0 < m, m <= n + 1, n <= Len(s)
  PROVE  /\ Part(s, m, n) \in Seq(S) /\ Len(Part(s, m, n)) = n - m + 1
         /\ \A k \in 1..n - m + 1 : Part(s, m, n)[k] = s[m + k - 1]
<1>1. \A k \in m..n : s[k] \in S
  BY ElementOfSeq
<1> QED
  BY <1>1, SubSeqProperties DEF Part

LEMMA PartsMeet ==
  ASSUME NEW S, NEW s \in Seq(S), NEW m \in Nat, NEW k \in Nat, NEW n \in Nat,
         0 < m, m <= k + 1, k <= n, n <= Len(s)
  PROVE  Part(s, m, n) = Cat(Part(s, m, k), Part(s, k + 1, n))
<1>1. m \in 1..Len(s) + 1 /\ k \in m - 1..Len(s) /\ n \in k..Len(s)
  BY LenProperties
<1> QED
  BY <1>1, ConcatAdjacentSubSeq DEF Part, Cat

LEMMA Whole ==
  ASSUME NEW S, NEW s \in Seq(S)
  PROVE  Part(s, 1, Len(s)) = s
  BY SubSeqFull DEF Part

\* Brackets moved from one end to the other.
LEMMA Regroup ==
  ASSUME NEW S, NEW s \in Seq(S), NEW v \in Seq(S), NEW x \in Seq(S), NEW y \in Seq(S), NEW z \in Seq(S)
  PROVE  Cat(Cat(s, v), Cat(x, Cat(y, z))) = Cat(Cat(s, Cat(Cat(v, x), y)), z)
<1>1. PICK t \in Seq(S) : t = Cat(y, z)
  BY CatType
<1>2. PICK u \in Seq(S) : u = Cat(v, x)
  BY CatType
<1>3. PICK w \in Seq(S) : w = Cat(x, t)
  BY CatType
<1>4. Cat(Cat(s, v), w) = Cat(s, Cat(v, w))
  BY CatAssociative
<1>5. Cat(v, w) = Cat(u, t)
  BY <1>2, <1>3, CatAssociative
<1>6. PICK q \in Seq(S) : q = Cat(u, y)
  BY CatType
<1>7. Cat(u, t) = Cat(q, z)
  BY <1>1, <1>6, CatAssociative
<1>8. Cat(s, Cat(q, z)) = Cat(Cat(s, q), z)
  BY CatAssociative
<1> QED
  BY <1>1, <1>2, <1>3, <1>4, <1>5, <1>6, <1>7, <1>8

(***************************************************************************)
(* The buffer.                                                             *)
(***************************************************************************)

Buffers(S) == [1..BlockBytes -> S]

LEMMA BlockType == BlockBytes \in Nat /\ BlockBytes > 2
  BY DigestAssumption

LEMMA BufferIsSeq ==
  ASSUME NEW S, NEW b \in Buffers(S)
  PROVE  b \in Seq(S) /\ Len(b) = BlockBytes
  BY BlockType DEF Buffers

LEMMA CopiedType ==
  ASSUME NEW S, NEW b \in Buffers(S), NEW d \in Seq(S), NEW j \in Nat
  PROVE  Copied(b, j, d) \in Buffers(S)
<1> SUFFICES ASSUME NEW k \in 1..BlockBytes, k \in j + 1..j + Len(d)
             PROVE  d[k - j] \in S
  BY DEF Buffers, Copied
<1>1. Len(d) \in Nat /\ k - j \in 1..Len(d)
  BY BlockType, LenProperties
<1> QED
  BY <1>1, ElementOfSeq

\* What is copied to the buffer is found behind what was there.
Room(d, n, j, k) == Len(d) = n /\ j + n = k /\ k <= BlockBytes

LEMMA CopiedBehind ==
  ASSUME NEW S, NEW b \in Buffers(S), NEW d \in Seq(S),
         NEW n \in Nat, NEW j \in Nat, NEW k \in Nat, Room(d, n, j, k)
  PROVE  Part(Copied(b, j, d), 1, k) = Cat(Part(b, 1, j), d)
<1>0. Len(d) = n /\ j + n = k /\ k <= BlockBytes
  BY DEF Room
<1>1. PICK c : c = Copied(b, j, d)
  OBVIOUS
<1>2. c \in Seq(S) /\ Len(c) = BlockBytes /\ b \in Seq(S) /\ Len(b) = BlockBytes
  BY <1>0, <1>1, BufferIsSeq, CopiedType, LenProperties
<1>3. \A l \in 1..k : c[l] = IF l <= j THEN b[l] ELSE d[l - j]
  BY <1>0, <1>1, <1>2, BlockType DEF Copied
<1>4. PICK u, v : u = Part(c, 1, k) /\ v = Part(b, 1, j)
  OBVIOUS
<1>5. /\ u \in Seq(S) /\ Len(u) = k
      /\ \A l \in 1..k : u[l] = c[l]
  BY <1>0, <1>2, <1>4, BlockType DEF Part
<1>6. /\ v \in Seq(S) /\ Len(v) = j
      /\ \A l \in 1..j : v[l] = b[l]
  BY <1>0, <1>2, <1>4, BlockType DEF Part
<1>7. /\ v \o d \in Seq(S) /\ Len(v \o d) = k
      /\ \A l \in 1..k : (v \o d)[l] = IF l <= j THEN v[l] ELSE d[l - j]
  BY <1>0, <1>6, ConcatProperties
<1>8. \A l \in 1..k : u[l] = (v \o d)[l]
  BY <1>0, <1>3, <1>5, <1>6, <1>7
<1>9. u = v \o d
  BY <1>0, <1>5, <1>7, <1>8, SeqEqual
<1> QED
  BY <1>0, <1>1, <1>4, <1>9 DEF Cat

\* A put that does not fill the buffer.
Fits(S, s, b, d, j, k) ==
    /\ s \in Seq(S) /\ b \in Buffers(S) /\ d \in Seq(S) /\ j \in Nat /\ k \in Nat
    /\ j + Len(d) = k /\ k <= BlockBytes

LEMMA PutFits ==
  ASSUME NEW S, NEW s, NEW b, NEW d, NEW j, NEW k, Fits(S, s, b, d, j, k)
  PROVE  Cat(Cat(s, Part(b, 1, j)), d) = Cat(s, Part(Copied(b, j, d), 1, k))
<1>0. PICK n \in Nat : Len(d) = n /\ j + n = k
  BY LenProperties DEF Fits
<1>9. s \in Seq(S) /\ b \in Buffers(S) /\ d \in Seq(S) /\ j \in Nat /\ k \in Nat /\ k <= BlockBytes
  BY DEF Fits
<1>1. PICK v, w : v = Part(b, 1, j) /\ w = Part(Copied(b, j, d), 1, k)
  OBVIOUS
<1>2. w = Cat(v, d)
  <2>0. Room(d, n, j, k)
    BY <1>0, <1>9 DEF Room
  <2>2. s \in Seq(S) /\ b \in Buffers(S) /\ d \in Seq(S) /\ j \in Nat /\ k \in Nat
    BY <1>9
  <2>1. Part(Copied(b, j, d), 1, k) = Cat(Part(b, 1, j), d)
    BY <2>0, <2>2, CopiedBehind
  <2> QED
    BY <1>1, <2>1
<1>3. v \in Seq(S)
  <2>1. b \in Seq(S) /\ Len(b) = BlockBytes
    BY <1>9, BufferIsSeq
  <2> QED
    BY <1>0, <1>1, <1>9, <2>1, BlockType DEF Part
<1>4. Cat(Cat(s, v), d) = Cat(s, Cat(v, d))
  BY <1>3, <1>9, CatAssociative
<1> QED
  BY <1>1, <1>2, <1>4

\* One that fills it and goes on: what fills the buffer, whole blocks, and a rest.
Spills(d, n, j, h, i, r) ==
    Len(d) = n /\ j + h = BlockBytes /\ h <= i /\ i <= n /\ i + r = n /\ r <= BlockBytes

Pieces(b, d, n, j, h, i, x, y, z, full) ==
    /\ x = Part(d, 1, h) /\ y = Part(d, h + 1, i) /\ z = Part(d, i + 1, n)
    /\ full = Copied(b, j, x)

AfterSpill(S, s, b, d, j, i, r, y, z, full) ==
    /\ Cat(full, y) \in Seq(S) /\ Len(Cat(full, y)) = j + i
    /\ Copied(full, 0, z) \in Buffers(S)
    /\ Cat(Cat(s, Part(b, 1, j)), d) = Cat(Cat(s, Cat(full, y)), Part(Copied(full, 0, z), 1, r))

LEMMA PutSpills ==
  ASSUME NEW S, NEW s \in Seq(S), NEW b \in Buffers(S), NEW d \in Seq(S),
         NEW n \in Nat, NEW j \in Nat, NEW h \in Nat, NEW i \in Nat, NEW r \in Nat, Spills(d, n, j, h, i, r),
         NEW x, NEW y, NEW z, NEW full, Pieces(b, d, n, j, h, i, x, y, z, full)
  PROVE  AfterSpill(S, s, b, d, j, i, r, y, z, full)
<1>0. Len(d) = n /\ j + h = BlockBytes /\ h <= i /\ i <= n /\ i + r = n /\ r <= BlockBytes
  BY DEF Spills
<1>14. x = Part(d, 1, h) /\ y = Part(d, h + 1, i) /\ z = Part(d, i + 1, n) /\ full = Copied(b, j, x)
  BY DEF Pieces
<1>1. PICK v : v = Part(b, 1, j)
  OBVIOUS
<1>2. v \in Seq(S) /\ Len(v) = j
  <2>1. b \in Seq(S) /\ Len(b) = BlockBytes
    BY <1>0, BufferIsSeq
  <2> QED
    BY <1>0, <1>1, <2>1, BlockType DEF Part
<1>3. x \in Seq(S) /\ Len(x) = h
  BY <1>0, <1>14 DEF Part
<1>4. y \in Seq(S) /\ Len(y) = i - h
  BY <1>0, <1>14 DEF Part
<1>5. z \in Seq(S) /\ Len(z) = r
  BY <1>0, <1>14 DEF Part
<1>6. d = Cat(x, Cat(y, z))
  <2>1. d = Part(d, 1, n)
    BY <1>0, Whole
  <2>2. Part(d, 1, n) = Cat(x, Part(d, h + 1, n))
    BY <1>0, <1>14, PartsMeet
  <2>3. Part(d, h + 1, n) = Cat(y, z)
    BY <1>0, <1>14, PartsMeet
  <2> QED
    BY <1>0, <2>1, <2>2, <2>3
<1>7. full \in Buffers(S)
  BY <1>0, <1>3, <1>14, CopiedType
<1>8. full \in Seq(S) /\ Len(full) = BlockBytes
  BY <1>0, <1>7, BufferIsSeq
<1>9. full = Cat(v, x)
  <2>2. Room(x, h, j, BlockBytes)
    BY <1>0, <1>3, BlockType DEF Room
  <2>1. Part(full, 1, BlockBytes) = Cat(v, x)
    <3>1. Part(Copied(b, j, x), 1, BlockBytes) = Cat(Part(b, 1, j), x)
      BY <1>3, <2>2, BlockType, CopiedBehind
    <3> QED
      BY <1>1, <1>14, <3>1
  <2> QED
    BY <1>0, <1>8, <2>1, Whole
<1>10. Cat(full, y) \in Seq(S) /\ Len(Cat(full, y)) = j + i
  <2>1. Cat(full, y) \in Seq(S) /\ Len(Cat(full, y)) = Len(full) + Len(y)
    BY <1>0, <1>4, <1>8, CatType
  <2> QED
    BY <1>0, <1>4, <1>8, <2>1, BlockType
<1>11. Copied(full, 0, z) \in Buffers(S)
  BY <1>0, <1>5, <1>7, CopiedType
<1>12. Part(Copied(full, 0, z), 1, r) = z
  <2>1. Part(Copied(full, 0, z), 1, r) = Cat(Part(full, 1, 0), z)
    BY <1>0, <1>5, <1>7, CopiedBehind DEF Room
  <2>2. Part(full, 1, 0) = <<>>
    BY <1>0, SubSeqEmpty DEF Part
  <2> QED
    BY <1>0, <1>5, <2>1, <2>2, ConcatEmptySeq DEF Cat
<1>13. Cat(Cat(s, v), d) = Cat(Cat(s, Cat(full, y)), z)
  BY <1>0, <1>2, <1>3, <1>4, <1>5, <1>6, <1>9, Regroup
<1> QED
  BY <1>1, <1>10, <1>11, <1>12, <1>13 DEF AfterSpill

(***************************************************************************)
(* The invariant.                                                          *)
(***************************************************************************)

Objects ==
    /\ all \in Units /\ state \in Units /\ buffer \in Buffers(Unit)
    /\ pc \in {"idle", "padding"}
    /\ pc = "padding" => finalcount \in Units

LEMMA Words32 == WordValues \in Nat /\ WordValues > 0 /\ WordValues % (8 * BlockBytes) = 0
  BY DigestAssumption

\* c counts n bytes.
CountStands(c, n) ==
    /\ c \in (0..WordValues - 1) \X (0..WordValues - 1)
    /\ c[1] + WordValues * c[2] = (8 * n) % (WordValues * WordValues)

\* The buffer holds what is left of the last block.
LEMMA FilledIs ==
  ASSUME NEW c, NEW n \in Nat, CountStands(c, n)
  PROVE  (c[1] \div 8) % BlockBytes = n % BlockBytes
<1>1. PICK x \in 0..WordValues - 1, y \in 0..WordValues - 1 : c[1] = x /\ c[2] = y
  BY DEF CountStands
<1>2. PICK m \in Nat : 8 * n = m
  OBVIOUS
<1>3. TwoWords(WordValues, x, y, m)
  BY <1>1, <1>2 DEF CountStands, TwoWords
<1>4. HoldsBlocks(WordValues, BlockBytes)
  BY Words32 DEF HoldsBlocks
<1>5. (x \div 8) % BlockBytes = n % BlockBytes
  BY <1>2, <1>3, <1>4, Words32, BlockType, LastBlock
<1> QED
  BY <1>1, <1>5

LEMMA CountKept ==
  ASSUME NEW n \in Nat, CountStands(count, n), NEW m \in Nat
  PROVE  CountStands(Counted(m), n + m)
<1>1. PICK x \in 0..WordValues - 1, y \in 0..WordValues - 1 : count[1] = x /\ count[2] = y
  BY DEF CountStands
<1>2. PICK a \in Nat, b \in Nat : a = 8 * n /\ b = 8 * m
  OBVIOUS
<1>3. TwoWords(WordValues, x, y, a)
  BY <1>1, <1>2 DEF CountStands, TwoWords
<1>4. PICK u, v : u = Sum(WordValues, x, b) /\ v = SumHigh(WordValues, y, u, b)
  OBVIOUS
<1>5. TwoWords(WordValues, u, v, a + b)
  BY <1>3, <1>4, Words32, AddWords
<1>6. Counted(m) = <<u, v>>
  BY <1>1, <1>2, <1>4 DEF Counted, Sum, SumHigh
<1>7. 8 * (n + m) = a + b
  BY <1>2
<1> QED
  BY <1>5, <1>6, <1>7 DEF TwoWords, CountStands

\* StandsForPut, in the terms of the lemmas.
Stands ==
    /\ CountStands(count, Len(all))
    /\ \E m \in Nat : Len(state) = BlockBytes * m
    /\ all = Cat(state, Part(buffer, 1, Len(all) % BlockBytes))

LEMMA StandsIs ==
  ASSUME Objects, ~ wrapped
  PROVE  Stands <=> StandsForPut
<1>1. PICK n \in Nat, l \in Nat : n = Len(all) /\ l = Len(state)
  BY LenProperties DEF Objects, Units
<1>2. CountStands(count, n) => Filled = n % BlockBytes
  BY FilledIs DEF Filled
<1>3. (\E m \in Nat : l = BlockBytes * m) <=> l % BlockBytes = 0
  <2>1. Divided(l, BlockBytes)
    BY BlockType, Division
  <2>2. PICK q \in Nat, r \in 0..BlockBytes - 1 : l = BlockBytes * q + r /\ l % BlockBytes = r
    BY <2>1 DEF Divided
  <2>3. r = 0 => l = BlockBytes * q
    BY <2>2, BlockType
  <2>4. ASSUME NEW m \in Nat, l = BlockBytes * m
        PROVE  l % BlockBytes = 0
    BY <2>4, BlockType
  <2> QED
    BY <2>2, <2>3, <2>4
<1>4. CountStands(count, n) <=>
         /\ count \in (0..WordValues - 1) \X (0..WordValues - 1)
         /\ count[1] + WordValues * count[2] = (8 * Len(all)) % (WordValues * WordValues)
  BY <1>1 DEF CountStands
<1> QED
  BY <1>1, <1>2, <1>3, <1>4, Zenon DEF Stands, StandsForPut, Cat, Part

LEMMA PutIs ==
  ASSUME NEW d, PutBytes(d), NEW i, NEW j, NEW l, Taken(d) = i, Filled = j, Len(d) = l,
         NEW h, h = BlockBytes - j
  PROVE  /\ i > 0 => LET full == Copied(buffer, j, Part(d, 1, h))
                     IN  /\ state' = Cat(state, Cat(full, Part(d, h + 1, i)))
                         /\ buffer' = Copied(full, 0, Part(d, i + 1, l))
         /\ ~(i > 0) => state' = state /\ buffer' = Copied(buffer, j, Part(d, i + 1, l))
  BY Zenon DEF PutBytes, transform, Part, Cat

\* What a put does to the object, unless j + len wraps.
LEMMA PutKeeps ==
  ASSUME Objects, Stands, NEW d \in Units, PutBytes(d), ~ wrapped'
  PROVE  /\ all' = Cat(all, d) /\ Len(all') = Len(all) + Len(d)
         /\ all' \in Units /\ state' \in Units /\ buffer' \in Buffers(Unit)
         /\ Stands'
<1>1. PICK n \in Nat, l \in Nat : Len(all) = n /\ Len(d) = l
  <2>1. Len(all) \in Nat /\ Len(d) \in Nat
    BY LenProperties DEF Objects, Units
  <2> QED
    BY <2>1
<1>2. PICK m \in Nat, j \in 0..BlockBytes - 1 : n = BlockBytes * m + j /\ n % BlockBytes = j
  <2>1. Divided(n, BlockBytes)
    BY BlockType, Division
  <2> QED
    BY <2>1, Zenon DEF Divided
<1>3. Filled = j
  BY <1>1, <1>2, FilledIs DEF Filled, Stands
<1>4. PICK v : v = Part(buffer, 1, j)
  OBVIOUS
<1>5. all = Cat(state, v)
  BY <1>1, <1>2, <1>4 DEF Stands
<1>6. v \in Units /\ Len(v) = j
  <2>1. buffer \in Seq(Unit) /\ Len(buffer) = BlockBytes
    BY BufferIsSeq DEF Objects
  <2> QED
    BY <1>4, <2>1, BlockType DEF Part, Units
<1>7. PICK k \in Nat : Len(state) = BlockBytes * k
  BY DEF Stands
<1>8. all' = Cat(all, d) /\ all' \in Units /\ Len(all') = n + l
  <2>1. all' = Cat(all, d)
    BY DEF PutBytes, Cat
  <2> QED
    BY <1>1, <2>1, CatType DEF Objects, Units
<1>9. CountStands(count', n + l)
  <2>1. count' = Counted(l)
    BY <1>1 DEF PutBytes
  <2> QED
    BY <1>1, <2>1, CountKept DEF Stands
<1>w. (j + l) % WordValues = j + l
  <2>1. ~ (j + l >= WordValues)
    BY <1>1, <1>3 DEF PutBytes
  <2>2. PICK t \in Nat, w \in Nat : t = j + l /\ w = WordValues
    BY BlockType, Words32
  <2> QED
    BY <2>1, <2>2
<1>10. CASE j + l < BlockBytes
  <2>1. Taken(d) = 0
    BY <1>1, <1>3, <1>10, <1>w, BlockType DEF Taken
  <2>2. Part(d, 0 + 1, l) = d
    BY <1>1, SubSeqFull DEF Units, Part
  <2>3. buffer' = Copied(buffer, j, d) /\ state' = state
    <3>1. PICK h : h = BlockBytes - j
      OBVIOUS
    <3>2. buffer' = Copied(buffer, j, Part(d, 0 + 1, l)) /\ state' = state
      BY <1>1, <1>3, <2>1, <3>1, PutIs
    <3> QED
      BY <2>2, <3>2
  <2>4. buffer' \in Buffers(Unit)
    BY <2>3, CopiedType DEF Objects, Units
  <2>5. PICK r \in Nat : j + l = r /\ r < BlockBytes
    BY <1>10
  <2>6. (n + l) % BlockBytes = r
    <3>1. n + l = BlockBytes * m + r /\ r \in 0..BlockBytes - 1
      BY <1>2, <2>5, BlockType
    <3>2. PICK t : t = n + l
      OBVIOUS
    <3>3. t = BlockBytes * m + r
      BY <3>1, <3>2
    <3>4. r \in 0..BlockBytes - 1
      BY <2>5, BlockType
    <3>5. t % BlockBytes = r
      BY <3>3, <3>4, BlockType, DivMod
    <3> QED
      BY <3>2, <3>5
  <2>7. Cat(Cat(state, v), d) = Cat(state, Part(Copied(buffer, j, d), 1, r))
    <3>1. r <= BlockBytes
      BY <2>5, BlockType
    <3>2. state \in Seq(Unit) /\ d \in Seq(Unit) /\ buffer \in Buffers(Unit) /\ Len(d) = l
      BY <1>1 DEF Objects, Units
    <3>4. Fits(Unit, state, buffer, d, j, r)
      BY <2>5, <3>1, <3>2 DEF Fits
    <3>3. Cat(Cat(state, Part(buffer, 1, j)), d) = Cat(state, Part(Copied(buffer, j, d), 1, r))
      BY <3>4, PutFits
    <3> QED
      BY <1>4, <3>3
  <2>8. all' = Cat(state', Part(buffer', 1, r))
    BY <1>5, <1>8, <2>3, <2>7
  <2> QED
    BY <1>1, <1>7, <1>8, <1>9, <2>3, <2>4, <2>6, <2>8 DEF Stands, Objects
<1>11. CASE j + l >= BlockBytes
  <2>1. PICK h \in Nat : h = BlockBytes - j /\ j + h = BlockBytes /\ h <= l /\ h > 0
    BY <1>11, BlockType
  <2>2. PICK q \in Nat, r \in 0..BlockBytes - 1 :
           l - h = BlockBytes * q + r /\ (l - h) \div BlockBytes = q
    <3>1. PICK t \in Nat : t = l - h
      BY <2>1
    <3>2. Divided(t, BlockBytes)
      BY BlockType, Division
    <3> QED
      BY <3>1, <3>2 DEF Divided
  <2>3. PICK b \in Nat : b = BlockBytes * q
    BY BlockType
  <2>4. PICK i \in Nat : i = h + b /\ i + r = l /\ h <= i /\ i <= l /\ i > 0
    <3>1. l - h = b + r
      BY <2>2, <2>3
    <3> QED
      BY <2>1, <3>1, BlockType
  <2>5. Taken(d) = i
    <3>1. j + l > BlockBytes - 1 /\ j + l - BlockBytes = l - h
      BY <1>11, <2>1, BlockType
    <3>2. Taken(d) = BlockBytes - j + BlockBytes * ((j + l - BlockBytes) \div BlockBytes)
      BY <1>1, <1>3, <1>w, <3>1 DEF Taken
    <3>3. (j + l - BlockBytes) \div BlockBytes = q
      BY <2>2, <3>1
    <3> QED
      BY <2>1, <2>3, <2>4, <3>2, <3>3
  <2>6. PICK x, y, z, full : /\ x = Part(d, 1, h) /\ y = Part(d, h + 1, i) /\ z = Part(d, i + 1, l)
                             /\ full = Copied(buffer, j, x)
    OBVIOUS
  <2>7. state' = Cat(state, Cat(full, y)) /\ buffer' = Copied(full, 0, z)
    <3>1. h = BlockBytes - j
      BY <2>1
    <3>2. i > 0
      BY <2>4
    <3>3. LET f == Copied(buffer, j, Part(d, 1, h))
          IN  /\ state' = Cat(state, Cat(f, Part(d, h + 1, i)))
              /\ buffer' = Copied(f, 0, Part(d, i + 1, l))
      BY <1>1, <1>3, <2>5, <3>1, <3>2, PutIs
    <3> QED
      BY <2>6, <3>3
  <2>8. /\ Cat(full, y) \in Seq(Unit) /\ Len(Cat(full, y)) = j + i
        /\ Copied(full, 0, z) \in Buffers(Unit)
        /\ Cat(Cat(state, Part(buffer, 1, j)), d) =
             Cat(Cat(state, Cat(full, y)), Part(Copied(full, 0, z), 1, r))
    <3>1. r \in Nat /\ r <= BlockBytes /\ j \in Nat
      BY BlockType
    <3>2. state \in Seq(Unit) /\ d \in Seq(Unit) /\ buffer \in Buffers(Unit) /\ Len(d) = l
      BY <1>1 DEF Objects, Units
    <3>3. j + h = BlockBytes /\ h <= i /\ i <= l /\ i + r = l
      BY <2>1, <2>4
    <3>4. Spills(d, l, j, h, i, r)
      BY <3>1, <3>2, <3>3 DEF Spills
    <3>5. Pieces(buffer, d, l, j, h, i, x, y, z, full)
      BY <2>6 DEF Pieces
    <3>6. AfterSpill(Unit, state, buffer, d, j, i, r, y, z, full)
      BY <3>1, <3>2, <3>4, <3>5, PutSpills
    <3> QED
      BY <3>6 DEF AfterSpill
  <2>9. all' = Cat(state', Part(buffer', 1, r))
    BY <1>4, <1>5, <1>8, <2>7, <2>8
  <2>10. state' \in Units /\ Len(state') = BlockBytes * (k + 1 + q)
    <3>0. state \in Seq(Unit)
      BY DEF Objects, Units
    <3>5. PICK w \in Seq(Unit) : w = Cat(full, y) /\ Len(w) = j + i
      BY <2>8
    <3>6. Cat(state, w) \in Seq(Unit) /\ Len(Cat(state, w)) = Len(state) + Len(w)
      BY <3>0, CatType
    <3>1. state' \in Units /\ Len(state') = Len(state) + (j + i)
      BY <2>7, <3>5, <3>6 DEF Units
    <3>2. BlockBytes * (k + 1 + q) = BlockBytes * k + BlockBytes + BlockBytes * q
      BY BlockType
    <3> QED
      BY <1>7, <2>1, <2>3, <2>4, <3>1, <3>2, BlockType
  <2>11. (n + l) % BlockBytes = r
    <3>1. PICK t, u \in Nat : t = n + l /\ u = m + 1 + q
      OBVIOUS
    <3>2. BlockBytes * u = BlockBytes * m + BlockBytes + BlockBytes * q
      BY <3>1, BlockType
    <3>3. t = BlockBytes * u + r
      BY <1>2, <2>1, <2>2, <3>1, <3>2, BlockType
    <3>4. t % BlockBytes = r
      BY <3>3, BlockType, DivMod
    <3> QED
      BY <3>1, <3>4
  <2>12. k + 1 + q \in Nat
    OBVIOUS
  <2> QED
    BY <1>1, <1>8, <1>9, <2>7, <2>8, <2>9, <2>10, <2>11, <2>12 DEF Stands, Objects
<1> QED
  BY <1>10, <1>11, BlockType

(***************************************************************************)
(* The padding.                                                            *)
(***************************************************************************)

Run(z) == [i \in 1..z |-> Nought]

\* k zeros behind n bytes and the 1 bit leave the last block room for the length.
Leaves(n, k) == (n + 1 + k + 2) % BlockBytes = 0

LEMMA RunType ==
  ASSUME NEW z \in Nat
  PROVE  Run(z) \in Units /\ Len(Run(z)) = z
<1>1. Nought \in Unit
  BY DigestAssumption DEF Unit
<1> QED
  BY <1>1 DEF Run, Units

LEMMA RunGrows ==
  ASSUME NEW z \in Nat
  PROVE  Cat(Run(z), <<Nought>>) = Run(z + 1)
<1>1. PICK u, v : u = Run(z) /\ v = Run(z + 1)
  OBVIOUS
<1>2. /\ u \in Units /\ Len(u) = z /\ v \in Units /\ Len(v) = z + 1
      /\ <<Nought>> \in Units /\ Len(<<Nought>>) = 1
  <2>1. Nought \in Unit
    BY DigestAssumption DEF Unit
  <2>2. z + 1 \in Nat
    OBVIOUS
  <2> QED
    BY <1>1, <2>1, <2>2, RunType DEF Units
<1>3. (\A i \in 1..z : u[i] = Nought) /\ (\A i \in 1..z + 1 : v[i] = Nought)
  BY <1>1 DEF Run
<1>4. /\ u \o <<Nought>> \in Seq(Unit) /\ Len(u \o <<Nought>>) = z + 1
      /\ \A i \in 1..z + 1 : (u \o <<Nought>>)[i] = Nought
  BY <1>2, <1>3, ConcatProperties DEF Units
<1>5. v \in Seq(Unit) /\ Len(v) = z + 1
  BY <1>2 DEF Units
<1>6. u \o <<Nought>> = v
  BY <1>3, <1>4, <1>5, SeqEqual
<1> QED
  BY <1>1, <1>6 DEF Cat

\* The loop that pads stops where the length ends the block.
LEMMA DoneIs ==
  ASSUME NEW t \in Nat
  PROVE  t % BlockBytes = BlockBytes - 2 <=> (t + 2) % BlockBytes = 0
<1>1. PICK q \in Nat, r \in 0..BlockBytes - 1 : t = BlockBytes * q + r /\ t % BlockBytes = r
  BY BlockType, Division DEF Divided
<1>2. PICK u \in Nat : u = t + 2
  OBVIOUS
<1>3. CASE r = BlockBytes - 2
  <2>1. BlockBytes * (q + 1) = BlockBytes * q + BlockBytes
    BY BlockType
  <2>2. PICK p \in Nat : p = q + 1
    OBVIOUS
  <2>3. u = BlockBytes * p + 0
    BY <1>1, <1>2, <1>3, <2>1, <2>2, BlockType
  <2>4. u % BlockBytes = 0
    BY <2>3, BlockType
  <2> QED
    BY <1>1, <1>2, <1>3, <2>4
<1>4. CASE r = BlockBytes - 1
  <2>1. BlockBytes * (q + 1) = BlockBytes * q + BlockBytes
    BY BlockType
  <2>2. PICK p \in Nat, o \in 0..BlockBytes - 1 : p = q + 1 /\ o = 1
    BY BlockType
  <2>3. u = BlockBytes * p + o
    BY <1>1, <1>2, <1>4, <2>1, <2>2, BlockType
  <2>4. u % BlockBytes = o
    BY <2>3, BlockType, DivMod
  <2> QED
    BY <1>1, <1>2, <1>4, <2>2, <2>4, BlockType
<1>5. CASE r < BlockBytes - 2
  <2>1. PICK o \in 0..BlockBytes - 1 : o = r + 2
    BY <1>5, BlockType
  <2>2. u = BlockBytes * q + o
    BY <1>1, <1>2, <2>1, BlockType
  <2>3. u % BlockBytes = o
    BY <2>2, BlockType, DivMod
  <2> QED
    BY <1>1, <1>2, <1>5, <2>1, <2>3, BlockType
<1> QED
  BY <1>3, <1>4, <1>5, BlockType

LEMMA SomeLeaves ==
  ASSUME NEW n \in Nat
  PROVE  \E k \in 0..BlockBytes - 1 : Leaves(n, k)
<1>1. PICK m \in Nat : m = n + 3
  OBVIOUS
<1>2. PICK q \in Nat, r \in 0..BlockBytes - 1 : m = BlockBytes * q + r /\ m % BlockBytes = r
  <2>1. Divided(m, BlockBytes)
    BY BlockType, Division
  <2> QED
    BY <2>1 DEF Divided
<1>3. CASE r = 0
  <2>1. n + 1 + 0 + 2 = m
    BY <1>1
  <2>2. Leaves(n, 0)
    BY <1>2, <1>3, <2>1 DEF Leaves
  <2> QED
    BY <2>2, BlockType
<1>4. CASE r > 0
  <2>1. PICK k \in 0..BlockBytes - 1 : k = BlockBytes - r
    BY <1>4, BlockType
  <2>2. BlockBytes * (q + 1) = BlockBytes * q + BlockBytes
    BY BlockType
  <2>3. PICK p \in Nat : p = q + 1
    OBVIOUS
  <2>4. n + 1 + k + 2 = BlockBytes * p
    BY <1>1, <1>2, <2>1, <2>2, <2>3, BlockType
  <2>5. (BlockBytes * p) % BlockBytes = 0
    BY BlockType
  <2>6. Leaves(n, k)
    BY <2>4, <2>5 DEF Leaves
  <2> QED
    BY <2>6
<1> QED
  BY <1>3, <1>4, BlockType

LEMMA OneLeaves ==
  ASSUME NEW n \in Nat, NEW k \in 0..BlockBytes - 1, NEW l \in 0..BlockBytes - 1, Leaves(n, k), Leaves(n, l)
  PROVE  k = l
<1>1. PICK i \in Nat, j \in Nat : i = n + 1 + k + 2 /\ j = n + 1 + l + 2
  BY BlockType
<1>2. i % BlockBytes = 0 /\ j % BlockBytes = 0
  BY <1>1 DEF Leaves
<1>3. PICK p \in Nat : i = BlockBytes * p
  <2>1. Divided(i, BlockBytes)
    BY BlockType, Division
  <2>2. PICK o \in Nat, r \in Int : i = BlockBytes * o + r /\ i % BlockBytes = r
    BY <2>1 DEF Divided
  <2>3. r = 0
    BY <1>2, <2>2
  <2>4. i = BlockBytes * o
    BY <2>2, <2>3, BlockType
  <2> QED
    BY <2>4
<1>4. PICK q \in Nat : j = BlockBytes * q
  <2>1. Divided(j, BlockBytes)
    BY BlockType, Division
  <2>2. PICK o \in Nat, r \in Int : j = BlockBytes * o + r /\ j % BlockBytes = r
    BY <2>1 DEF Divided
  <2>3. r = 0
    BY <1>2, <2>2
  <2>4. j = BlockBytes * o
    BY <2>2, <2>3, BlockType
  <2> QED
    BY <2>4
<1>5. i - j < BlockBytes /\ j - i < BlockBytes
  BY <1>1, BlockType
<1>6. ~ (p < q)
  <2>1. p < q => BlockBytes * (p + 1) <= BlockBytes * q
    BY BlockType
  <2>2. BlockBytes * (p + 1) = BlockBytes * p + BlockBytes
    BY BlockType
  <2> QED
    BY <1>3, <1>4, <1>5, <2>1, <2>2, BlockType
<1>7. ~ (q < p)
  <2>1. q < p => BlockBytes * (q + 1) <= BlockBytes * p
    BY BlockType
  <2>2. BlockBytes * (q + 1) = BlockBytes * q + BlockBytes
    BY BlockType
  <2> QED
    BY <1>3, <1>4, <1>5, <2>1, <2>2, BlockType
<1>8. i = j
  BY <1>3, <1>4, <1>6, <1>7
<1> QED
  BY <1>1, <1>8, BlockType

\* The first number of zeros that leaves room is the one of the standard.
LEMMA LeastLeaves ==
  ASSUME NEW n \in Nat, NEW z \in Nat, \A k \in 0..z - 1 : ~ Leaves(n, k), Leaves(n, z)
  PROVE  z = Message!Zeros(n)
<1>1. PICK k \in 0..BlockBytes - 1 : Leaves(n, k)
  BY SomeLeaves
<1>2. z \in 0..BlockBytes - 1
  <2>1. ~ (k < z)
    BY <1>1, BlockType
  <2> QED
    BY <2>1, BlockType
<1>3. \A l \in 0..BlockBytes - 1 : Leaves(n, l) => l = z
  BY <1>2, OneLeaves
<1>4. PICK y : y = CHOOSE l \in 0..BlockBytes - 1 : Leaves(n, l)
  OBVIOUS
<1>5. y \in 0..BlockBytes - 1 /\ Leaves(n, y)
  BY <1>1, <1>4
<1>6. y = z
  BY <1>3, <1>5
<1> QED
  BY <1>4, <1>6 DEF Message!Zeros, Leaves

LEMMA WordsAre ==
  ASSUME NEW n \in Nat, CountStands(count, n)
  PROVE  /\ <<count[2], count[1]>> = Message!Words(8 * n)
         /\ <<count[2], count[1]>> \in Units /\ Len(<<count[2], count[1]>>) = 2
<1>1. PICK x \in 0..WordValues - 1, y \in 0..WordValues - 1 : count[1] = x /\ count[2] = y
  BY DEF CountStands
<1>2. PICK m \in Nat : m = 8 * n
  OBVIOUS
<1>3. TwoWords(WordValues, x, y, m)
  BY <1>1, <1>2 DEF CountStands, TwoWords
<1>4. m % WordValues = x /\ (m \div WordValues) % WordValues = y
  BY <1>3, Words32, TwoDigits
<1>9. <<y, x>> = Message!Words(m)
  BY <1>4 DEF Message!Words
<1>10. x \in Unit /\ y \in Unit
  BY DEF Unit
<1>11. <<y, x>> \in Units /\ Len(<<y, x>>) = 2
  BY <1>10 DEF Units
<1> QED
  BY <1>1, <1>2, <1>9, <1>11

LEMMA OnesType == <<One>> \in Units /\ Len(<<One>>) = 1 /\ <<Nought>> \in Units /\ Len(<<Nought>>) = 1
  BY DigestAssumption DEF Units, Unit

LEMMA EmptyUnits == <<>> \in Units /\ Len(<<>>) = 0
  BY EmptySeq DEF Units

\* Where finish is: behind the bytes put before it and the 1 bit, z zeros, none too many.
Padding ==
    pc = "padding" =>
       /\ begun \in Units /\ finalcount = Message!Words(8 * Len(begun))
       /\ finalcount \in Units /\ Len(finalcount) = 2
       /\ \E z \in Nat : /\ all = Cat(Cat(begun, <<One>>), Run(z))
                         /\ \A k \in 0..z - 1 : ~ Leaves(Len(begun), k)

DigestInv == Objects /\ Stands /\ Padding

\* The object after start.
LEMMA NothingStands ==
  /\ CountStands(<<0, 0>>, Len(<<>>))
  /\ \E m \in Nat : Len(<<>>) = BlockBytes * m
  /\ \A b : <<>> = Cat(<<>>, Part(b, 1, Len(<<>>) % BlockBytes))
<1>1. 0 + WordValues * 0 = (8 * 0) % (WordValues * WordValues)
  <2>1. PICK w \in Nat : w = WordValues * WordValues /\ w > 0
    BY Words32
  <2>2. 0 % w = 0
    BY <2>1
  <2> QED
    BY <2>1, <2>2, Words32
<1>2. CountStands(<<0, 0>>, 0)
  BY <1>1, Words32 DEF CountStands
<1>3. 0 = BlockBytes * 0 /\ 0 % BlockBytes = 0
  BY BlockType
<1>4. \A b : Part(b, 1, 0) = <<>>
  BY SubSeqEmpty DEF Part
<1>5. Cat(<<>>, <<>>) = <<>>
  BY EmptyUnits, ConcatEmptySeq DEF Cat, Units
<1> QED
  BY <1>2, <1>3, <1>4, <1>5, EmptyUnits

LEMMA DigestInvInit == Init => DigestInv
<1> SUFFICES ASSUME Init PROVE DigestInv
  OBVIOUS
<1>1. PICK b \in Bytes : buffer = [i \in 1..BlockBytes |-> b]
  BY DEF Init
<1>2. all = <<>> /\ state = <<>> /\ count = <<0, 0>> /\ pc = "idle"
  BY DEF Init
<1>3. Objects
  <2>1. buffer \in Buffers(Unit)
    BY <1>1 DEF Buffers, Unit
  <2> QED
    BY <1>2, <2>1, EmptyUnits DEF Objects
<1>4. Stands
  BY <1>2, NothingStands DEF Stands
<1> QED
  BY <1>2, <1>3, <1>4 DEF DigestInv, Padding

LEMMA DigestInvStart == DigestInv /\ Start => DigestInv'
<1> SUFFICES ASSUME DigestInv, Start PROVE DigestInv'
  OBVIOUS
<1>1. all' = <<>> /\ state' = <<>> /\ count' = <<0, 0>> /\ pc' = "idle" /\ buffer' = buffer
  BY DEF Start
<1>2. Objects'
  BY <1>1, EmptyUnits DEF Objects, DigestInv
<1>3. Stands'
  BY <1>1, NothingStands DEF Stands
<1> QED
  BY <1>1, <1>2, <1>3 DEF DigestInv, Padding

LEMMA PutsAreUnits ==
  ASSUME NEW n \in Nat, NEW d \in [1..n -> Bytes]
  PROVE  d \in Units
<1>1. d \in [1..n -> Unit]
  BY DEF Unit
<1> QED
  BY <1>1 DEF Units

LEMMA DigestInvPut ==
  ASSUME DigestInv, NEW d \in Units, Put(d), ~ wrapped'
  PROVE  DigestInv'
<1>1. pc' = "idle" /\ PutBytes(d)
  BY DEF Put
<1>2. all' \in Units /\ state' \in Units /\ buffer' \in Buffers(Unit) /\ Stands'
  BY <1>1, PutKeeps DEF DigestInv
<1> QED
  BY <1>1, <1>2 DEF DigestInv, Objects, Padding

\* finish puts one or two units at a time, which wraps nothing.
LEMMA FinishFits ==
  ASSUME DigestInv, NEW d \in Units, Len(d) <= 2, PutBytes(d)
  PROVE  ~ wrapped'
<1>1. PICK n \in Nat, l \in Nat : Len(all) = n /\ Len(d) = l /\ l <= 2
  BY LenProperties DEF DigestInv, Objects, Units
<1>2. PICK j \in 0..BlockBytes - 1 : Filled = j
  <2>1. Filled = n % BlockBytes
    BY <1>1, FilledIs DEF Filled, DigestInv, Stands
  <2> QED
    BY <2>1, BlockType
<1>3. WordValues >= 8 * BlockBytes
  <2>1. PICK w \in Nat, b \in Nat : w = WordValues /\ b = 8 * BlockBytes /\ w > 0 /\ b > 0 /\ w % b = 0
    BY Words32, BlockType
  <2>2. w >= b
    BY <2>1
  <2> QED
    BY <2>1, <2>2
<1>4. ~ (j + l >= WordValues)
  BY <1>1, <1>3, BlockType, Words32
<1> QED
  BY <1>1, <1>2, <1>4, Zenon DEF PutBytes

LEMMA DigestInvFinishBegins ==
  ASSUME DigestInv, FinishBegins
  PROVE  DigestInv'
<1>1. /\ pc' = "padding" /\ begun' = all /\ finalcount' = <<count[2], count[1]>> /\ PutBytes(<<One>>)
      /\ begun' \in Units
  BY DEF FinishBegins, DigestInv, Objects
<1>2. /\ all' \in Units /\ state' \in Units /\ buffer' \in Buffers(Unit) /\ Stands'
      /\ all' = Cat(all, <<One>>)
  <2>1. ~ wrapped'
    <3>1. Len(<<One>>) <= 2 /\ Len(<<Nought>>) <= 2
      BY OnesType
    <3> QED
      BY <1>1, <3>1, OnesType, FinishFits, Zenon
  <2>2. Objects /\ Stands
    BY DEF DigestInv
  <2> QED
    BY <1>1, <2>1, <2>2, OnesType, PutKeeps, Zenon
<1>3. /\ finalcount' = Message!Words(8 * Len(begun'))
      /\ finalcount' \in Units /\ Len(finalcount') = 2
  <2>1. PICK n \in Nat : n = Len(all) /\ CountStands(count, n)
    BY LenProperties DEF DigestInv, Objects, Units, Stands
  <2> QED
    BY <1>1, <2>1, WordsAre
<1>4. all' = Cat(Cat(begun', <<One>>), Run(0))
  <2>1. Run(0) = <<>>
    <3>1. Run(0) \in Units /\ Len(Run(0)) = 0
      BY RunType
    <3> QED
      BY <3>1 DEF Units
  <2>2. Cat(all', <<>>) = all'
    BY <1>2, ConcatEmptySeq DEF Cat, Units
  <2> QED
    BY <1>1, <1>2, <2>1, <2>2
<1>5. \A k \in 0..0 - 1 : ~ Leaves(Len(begun'), k)
  OBVIOUS
<1>6. \E z \in Nat : /\ all' = Cat(Cat(begun', <<One>>), Run(z))
                     /\ \A k \in 0..z - 1 : ~ Leaves(Len(begun'), k)
  BY <1>4, <1>5
<1> QED
  BY <1>1, <1>2, <1>3, <1>6 DEF DigestInv, Objects, Padding

\* How many bytes the padding takes so far.
LEMMA PaddedLength ==
  ASSUME NEW b \in Units, NEW z \in Nat
  PROVE  /\ Len(b) \in Nat /\ Len(Cat(Cat(b, <<One>>), Run(z))) = Len(b) + 1 + z
         /\ Cat(b, <<One>>) \in Units /\ Cat(Cat(b, <<One>>), Run(z)) \in Units
<1>1. Len(b) \in Nat
  BY LenProperties DEF Units
<1>2. PICK c : c = Cat(b, <<One>>)
  OBVIOUS
<1>3. c \in Units /\ Len(c) = Len(b) + 1
  BY <1>2, OnesType, CatType DEF Units
<1>4. Run(z) \in Seq(Unit) /\ c \in Seq(Unit) /\ Len(Run(z)) = z
  BY <1>3, RunType DEF Units
<1>5. Cat(c, Run(z)) \in Seq(Unit) /\ Len(Cat(c, Run(z))) = Len(c) + Len(Run(z))
  BY <1>4, CatType
<1> QED
  BY <1>1, <1>2, <1>3, <1>4, <1>5 DEF Units

LEMMA PaddingDoneIs ==
  ASSUME DigestInv, NEW n \in Nat, NEW z \in Nat, Len(all) = n + 1 + z
  PROVE  PaddingDone <=> Leaves(n, z)
<1>1. PICK t \in Nat : t = n + 1 + z
  OBVIOUS
<1>2. Filled = t % BlockBytes
  BY <1>1, FilledIs DEF Filled, DigestInv, Stands
<1>3. n + 1 + z + 2 = t + 2
  BY <1>1
<1> QED
  BY <1>2, <1>3, DoneIs DEF PaddingDone, Leaves

LEMMA DigestInvPutZero ==
  ASSUME DigestInv, PutZero
  PROVE  DigestInv'
<1>1. /\ pc = "padding" /\ pc' = "padding" /\ begun' = begun /\ finalcount' = finalcount
      /\ ~ PaddingDone /\ PutBytes(<<Nought>>)
  BY DEF PutZero
<1>2. /\ all' \in Units /\ state' \in Units /\ buffer' \in Buffers(Unit) /\ Stands'
      /\ all' = Cat(all, <<Nought>>)
  <2>1. ~ wrapped'
    <3>1. Len(<<One>>) <= 2 /\ Len(<<Nought>>) <= 2
      BY OnesType
    <3> QED
      BY <1>1, <3>1, OnesType, FinishFits, Zenon
  <2>2. Objects /\ Stands
    BY DEF DigestInv
  <2> QED
    BY <1>1, <2>1, <2>2, OnesType, PutKeeps, Zenon
<1>3. PICK z \in Nat : /\ all = Cat(Cat(begun, <<One>>), Run(z))
                       /\ \A k \in 0..z - 1 : ~ Leaves(Len(begun), k)
  BY <1>1 DEF DigestInv, Padding
<1>4. begun \in Units
  BY <1>1 DEF DigestInv, Padding
<1>5. PICK n \in Nat, c \in Units : n = Len(begun) /\ c = Cat(begun, <<One>>) /\ Len(all) = n + 1 + z
  BY <1>3, <1>4, PaddedLength
<1>6. ~ Leaves(n, z)
  BY <1>1, <1>5, PaddingDoneIs
<1>7. \A k \in 0..(z + 1) - 1 : ~ Leaves(n, k)
  BY <1>3, <1>5, <1>6
<1>8. all' = Cat(c, Run(z + 1))
  <2>1. PICK r \in Seq(Unit), o \in Seq(Unit) : r = Run(z) /\ o = <<Nought>>
    BY RunType, OnesType DEF Units
  <2>2. Cat(Cat(c, r), o) = Cat(c, Cat(r, o))
    BY CatAssociative DEF Units
  <2>3. Cat(Cat(c, Run(z)), <<Nought>>) = Cat(c, Cat(Run(z), <<Nought>>))
    BY <2>1, <2>2
  <2> QED
    BY <1>2, <1>3, <1>5, <2>3, RunGrows
<1>9. PICK y \in Nat : y = z + 1
  OBVIOUS
<1>10. /\ all' = Cat(Cat(begun', <<One>>), Run(y))
       /\ \A k \in 0..y - 1 : ~ Leaves(Len(begun'), k)
  BY <1>1, <1>5, <1>7, <1>8, <1>9
<1>11. Padding'
  BY <1>1, <1>10 DEF DigestInv, Padding
<1> QED
  BY <1>1, <1>2, <1>11 DEF DigestInv, Objects

LEMMA DigestInvFinishReturns ==
  ASSUME DigestInv, FinishReturns
  PROVE  /\ DigestInv'
         /\ all' = Message!Padded(begun) /\ state' = Message!Padded(begun)
<1>1. pc = "padding" /\ pc' = "idle" /\ PaddingDone /\ PutBytes(finalcount)
  BY DEF FinishReturns
<1>2. finalcount \in Units /\ Len(finalcount) = 2 /\ begun \in Units
  BY <1>1 DEF DigestInv, Padding
<1>3. /\ all' \in Units /\ state' \in Units /\ buffer' \in Buffers(Unit) /\ Stands'
      /\ all' = Cat(all, finalcount) /\ Len(all') = Len(all) + 2
  <2>1. ~ wrapped'
    <3>1. Len(finalcount) <= 2
      BY <1>2
    <3> QED
      BY <1>1, <1>2, <3>1, FinishFits, Zenon
  <2>2. Objects /\ Stands
    BY DEF DigestInv
  <2>3. all' = Cat(all, finalcount) /\ Len(all') = Len(all) + Len(finalcount)
    BY <1>1, <1>2, <2>1, <2>2, PutKeeps, Zenon
  <2> QED
    BY <1>1, <1>2, <2>1, <2>2, <2>3, PutKeeps, Zenon
<1>4. PICK z \in Nat : /\ all = Cat(Cat(begun, <<One>>), Run(z))
                       /\ \A k \in 0..z - 1 : ~ Leaves(Len(begun), k)
  BY <1>1 DEF DigestInv, Padding
<1>5. PICK n \in Nat : n = Len(begun) /\ Len(all) = n + 1 + z
  BY <1>2, <1>4, PaddedLength
<1>6. Leaves(n, z)
  BY <1>1, <1>5, PaddingDoneIs
<1>7. z = Message!Zeros(n)
  BY <1>4, <1>5, <1>6, LeastLeaves
<1>8. all' = Message!Padded(begun)
  <2>1. finalcount = Message!Words(8 * n)
    BY <1>1, <1>5 DEF DigestInv, Padding
  <2> QED
    BY <1>3, <1>4, <1>5, <1>7, <2>1, Zenon DEF Message!Padded, Cat, Run
<1>9. all' = state'
  <2>1. Len(all') % BlockBytes = 0
    <3>1. Len(all') = n + 1 + z + 2
      BY <1>3, <1>5
    <3> QED
      BY <1>6, <3>1 DEF Leaves
  <2>2. all' = Cat(state', Part(buffer', 1, 0))
    BY <1>3, <2>1 DEF Stands
  <2>3. Part(buffer', 1, 0) = <<>>
    BY SubSeqEmpty DEF Part
  <2>4. Cat(state', <<>>) = state'
    BY <1>3, ConcatEmptySeq DEF Cat, Units
  <2> QED
    BY <2>2, <2>3, <2>4
<1>10. DigestInv'
  BY <1>1, <1>3 DEF DigestInv, Objects, Padding
<1> QED
  BY <1>8, <1>9, <1>10

\* The puts of Next.
LEMMA PutsOfNext ==
  ASSUME \/ \E n \in 0..MaxPut : Len(all) + n <= MaxBytes /\ \E d \in [1..n -> Bytes] : Put(d)
         \/ \E n \in LongPuts, b \in Bytes : Len(all) <= MaxBytes /\ Put([i \in 1..n |-> b])
  PROVE  \E n \in Nat : \E d \in [1..n -> Bytes] : Put(d)
<1>1. 0..MaxPut \subseteq Nat /\ LongPuts \subseteq Nat
  BY DigestAssumption
<1>2. ASSUME NEW n \in LongPuts, NEW b \in Bytes PROVE [i \in 1..n |-> b] \in [1..n -> Bytes]
  OBVIOUS
<1> QED
  BY <1>1, <1>2, Zenon

LEMMA DigestInvNext == (wrapped \/ DigestInv) /\ [Next]_vars => (wrapped \/ DigestInv)'
<1> SUFFICES ASSUME wrapped \/ DigestInv, [Next]_vars, ~ wrapped' PROVE DigestInv'
  OBVIOUS
<1>0. CASE Next
  <2>0. DigestInv
    BY <1>0 DEF Next
  <2>1. CASE Start
    BY <2>0, <2>1, DigestInvStart
  <2>2. ASSUME NEW n \in Nat, NEW d \in [1..n -> Bytes], Put(d)
        PROVE  DigestInv'
    BY <2>0, <2>2, PutsAreUnits, DigestInvPut
  <2>3. CASE FinishBegins
    BY <2>0, <2>3, DigestInvFinishBegins
  <2>4. CASE PutZero
    BY <2>0, <2>4, DigestInvPutZero
  <2>5. CASE FinishReturns
    BY <2>0, <2>5, DigestInvFinishReturns
  <2> QED
    BY <1>0, <2>1, <2>2, <2>3, <2>4, <2>5, PutsOfNext DEF Next
<1>6. CASE UNCHANGED vars
  BY <1>6 DEF vars, object, DigestInv, Objects, Stands, Padding
<1> QED
  BY <1>0, <1>6

LEMMA DigestInvariant == Spec => [](wrapped \/ DigestInv)
<1>1. Init => wrapped \/ DigestInv
  BY DigestInvInit
<1> QED
  BY <1>1, DigestInvNext, PTL DEF Spec

\* However a stream is cut into puts, the count, the blocks given to transform and the
\* filled part of the buffer stand for exactly the bytes put, until j + len of a put wraps:
\* a put of at least 2^32 - 63 bytes to a buffer that is not empty.
THEOREM NothingSkipped == Spec => []StandsForPut
<1>1. wrapped \/ DigestInv => StandsForPut
  <2>1. CASE wrapped
    BY <2>1 DEF StandsForPut
  <2>2. CASE ~ wrapped
    BY <2>2, StandsIs DEF DigestInv
  <2> QED
    BY <2>1, <2>2
<1> QED
  BY <1>1, DigestInvariant, PTL

\* What a put adds is bytes, wrapped or not.
LEMMA PutAppends ==
  ASSUME all \in Units, NEW n \in Nat, NEW d \in [1..n -> Bytes], Put(d)
  PROVE  Message!Put
<1>1. d \in Units /\ Len(d) = n
  BY PutsAreUnits
<1>2. pc = "idle" /\ pc' = "idle" /\ digested' = digested /\ all' = all \o d
  BY DEF Put, PutBytes
<1>3. PICK m \in Nat : Len(all) = m
  BY LenProperties DEF Units
<1>5. /\ all \o d \in Seq(Unit) /\ Len(all \o d) = m + n
      /\ \A i \in 1..m + n : (all \o d)[i] = IF i <= m THEN all[i] ELSE d[i - m]
  BY <1>1, <1>3, ConcatProperties DEF Units
<1>4. Len(all') = m + n
  BY <1>2, <1>5
<1>6. SubSeq(all', 1, m) = all
  <2>1. PICK a, s : a \in Seq(Unit) /\ a = all' /\ s = SubSeq(a, 1, m)
    BY <1>2, <1>5
  <2>2. Len(a) = m + n /\ \A i \in 1..m : a[i] = all[i]
    BY <1>3, <1>2, <1>5, <2>1
  <2>3. s \in Seq(Unit) /\ Len(s) = m /\ \A i \in 1..m : s[i] = a[i]
    BY <2>1, <2>2
  <2>4. s = all
    BY <1>3, <2>2, <2>3, SeqEqual DEF Units
  <2> QED
    BY <2>1, <2>4
<1>7. \A i \in m + 1..m + n : all'[i] \in Bytes
  <2>1. SUFFICES ASSUME NEW i \in m + 1..m + n PROVE all'[i] \in Bytes
    OBVIOUS
  <2>2. i \in 1..m + n /\ ~ (i <= m) /\ i - m \in 1..n
    OBVIOUS
  <2>3. all'[i] = d[i - m]
    BY <1>2, <1>5, <2>2
  <2> QED
    BY <2>2, <2>3
<1> QED
  BY <1>1, <1>2, <1>3, <1>4, <1>6, <1>7 DEF Message!Put

\* finish digests the message padded as the standard says: nothing finishes once a put has
\* wrapped.
THEOREM DigestsPadded == Spec => ImplementsPaddedMessage
<1>1. Init => Message!Init
  BY DEF Init, Message!Init
<1>2. (wrapped \/ DigestInv) /\ [Next]_vars
        => [Message!Next]_<<IF pc = "idle" THEN all ELSE begun, digested>>
  <2> SUFFICES ASSUME wrapped \/ DigestInv, [Next]_vars
               PROVE  [Message!Next]_<<IF pc = "idle" THEN all ELSE begun, digested>>
    OBVIOUS
  <2>0. CASE Next
    <3>0. DigestInv /\ all \in Units
      BY <2>0 DEF Next, DigestInv, Objects
    <3>1. CASE Start
      BY <3>1 DEF Start, Message!Next, Message!Start
    <3>2. ASSUME NEW n \in Nat, NEW d \in [1..n -> Bytes], Put(d)
          PROVE  Message!Put
      BY <3>0, <3>2, PutAppends
    <3>3. CASE FinishBegins
      BY <3>3 DEF FinishBegins
    <3>4. CASE PutZero
      BY <3>4 DEF PutZero
    <3>5. CASE FinishReturns
      <4>1. all' = Message!Padded(begun) /\ state' = Message!Padded(begun)
        BY <3>0, <3>5, DigestInvFinishReturns
      <4> QED
        BY <3>5, <4>1 DEF FinishReturns, Message!Next, Message!Finish
    <3> QED
      BY <2>0, <3>1, <3>2, <3>3, <3>4, <3>5, PutsOfNext DEF Next, Message!Next
  <2>6. CASE UNCHANGED vars
    BY <2>6 DEF vars, object
  <2> QED
    BY <2>0, <2>6
<1> QED
  BY <1>1, <1>2, DigestInvariant, PTL DEF Spec, ImplementsPaddedMessage, Message!Spec

(***************************************************************************)
(* Induction, for a set and not for a predicate, and functions defined by  *)
(* recursion.                                                              *)
(***************************************************************************)

LEMMA SetInduction ==
  ASSUME NEW T, 0 \in T, \A n \in T \cap Nat : n + 1 \in T
  PROVE  Nat \subseteq T
<1> DEFINE R == OpToRel(<, Nat)
           U == Nat \ T
<1> SUFFICES ASSUME U # {} PROVE FALSE
  OBVIOUS
<1>1. IsWellFoundedOn(R, Nat)
  BY NatLessThanWellFounded
<1>2. U \subseteq Nat
  OBVIOUS
<1>3. PICK x \in U : \A y \in U : ~ (<<y, x>> \in R)
  <2> HIDE DEF R, U
  <2> QED BY <1>1, <1>2, WFMin
<1>4. \A y \in U : <<y, x>> \in R <=> y < x
  BY <1>2 DEF OpToRel
<1>5. \A y \in U : ~ (y < x)
  BY <1>3, <1>4
<1>6. x # 0 /\ x - 1 \in Nat /\ x - 1 < x
  OBVIOUS
<1>7. x - 1 \in T
  BY <1>5, <1>6
<1>8. (x - 1) + 1 \in T
  BY <1>6, <1>7
<1> QED BY <1>8

\* Induction up to n.
LEMMA UpTo ==
  ASSUME NEW n \in Nat, NEW T, 0 \in T, \A k \in 0..n - 1 : k \in T => k + 1 \in T
  PROVE  0..n \subseteq T
<1> DEFINE U == {k \in Nat : k <= n => k \in T}
<1>1. 0 \in U
  OBVIOUS
<1>2. \A k \in U \cap Nat : k + 1 \in U
  OBVIOUS
<1>3. Nat \subseteq U
  <2> HIDE DEF U
  <2> QED
    BY <1>1, <1>2, SetInduction
<1> QED
  BY <1>3

LEMMA Keeps ==
  ASSUME NEW n \in Nat, NEW S, NEW t, t[0] \in S, \A k \in 1..n : t[k - 1] \in S => t[k] \in S
  PROVE  \A k \in 0..n : t[k] \in S
<1> DEFINE T == {k \in 0..n : t[k] \in S}
<1>1. 0 \in T
  OBVIOUS
<1>2. ASSUME NEW k \in 0..n - 1, k \in T PROVE k + 1 \in T
  <2>1. k + 1 \in 1..n /\ (k + 1) - 1 = k
    OBVIOUS
  <2> QED
    BY <1>2, <2>1
<1>3. 0..n \subseteq T
  <2> HIDE DEF T
  <2> QED
    BY <1>1, <1>2, UpTo
<1> QED
  BY <1>3

\* f begins with x and goes on by the steps, up to m.
Goes(f, S, x, step, m) ==
    f \in [0..m -> S] /\ f[0] = x /\ \A k \in 1..m : f[k] = step[k][f[k - 1]]

LEMMA GoesOn ==
  ASSUME NEW S, NEW x \in S, NEW n \in Nat, NEW step \in [1..n -> [S -> S]],
         NEW m \in Nat, m + 1 <= n, NEW f, Goes(f, S, x, step, m)
  PROVE  \E g : Goes(g, S, x, step, m + 1)
<1>1. f \in [0..m -> S] /\ f[0] = x /\ \A k \in 1..m : f[k] = step[k][f[k - 1]]
  BY DEF Goes
<1>2. step[m + 1] \in [S -> S] /\ f[m] \in S
  BY <1>1
<1>3. PICK y \in S : y = step[m + 1][f[m]]
  BY <1>2
<1> DEFINE g == [k \in 0..m + 1 |-> IF k <= m THEN f[k] ELSE y]
<1>4. g[m + 1] = y /\ \A k \in 0..m : g[k] = f[k]
  <2>1. m + 1 \in 0..m + 1 /\ ~ (m + 1 <= m)
    OBVIOUS
  <2> QED
    BY <1>1, <2>1
<1>5. g = [k \in 0..m + 1 |-> g[k]]
  OBVIOUS
<1> HIDE DEF g
<1>6. \A k \in 0..m + 1 : k \in 0..m \/ k = m + 1
  OBVIOUS
<1>7. \A k \in 0..m + 1 : g[k] \in S
  BY <1>1, <1>3, <1>4, <1>6
<1>8. \A k \in 1..m + 1 : g[k] = step[k][g[k - 1]]
  <2> TAKE k \in 1..m + 1
  <2>1. k - 1 \in 0..m /\ (k \in 1..m \/ k = m + 1)
    OBVIOUS
  <2>2. g[k - 1] = f[k - 1]
    BY <1>4, <2>1
  <2>3. CASE k \in 1..m
    <3>1. f[k] = step[k][f[k - 1]] /\ k \in 0..m
      BY <1>1, <2>3
    <3> QED
      BY <1>4, <2>2, <3>1
  <2>4. CASE k = m + 1
    <3>1. k - 1 = m
      BY <2>4
    <3> QED
      BY <1>3, <1>4, <2>2, <2>4, <3>1, Zenon
  <2> QED
    BY <2>1, <2>3, <2>4
<1>9. g[0] = x
  <2>1. 0 \in 0..m
    OBVIOUS
  <2> QED
    BY <1>1, <1>4, <2>1
<1>10. g \in [0..m + 1 -> S]
  BY <1>5, <1>7
<1> QED
  BY <1>8, <1>9, <1>10 DEF Goes

LEMMA Recursion ==
  ASSUME NEW S, NEW x \in S, NEW n \in Nat, NEW step \in [1..n -> [S -> S]]
  PROVE  \E f : Goes(f, S, x, step, n)
<1> DEFINE T == {m \in 0..n : \E f : Goes(f, S, x, step, m)}
<1>1. 0 \in T
  <2>1. Goes([k \in 0..0 |-> x], S, x, step, 0)
    BY DEF Goes
  <2> QED
    BY <2>1
<1>2. ASSUME NEW m \in 0..n - 1, m \in T PROVE m + 1 \in T
  <2>1. PICK f : Goes(f, S, x, step, m)
    BY <1>2
  <2>2. \E g : Goes(g, S, x, step, m + 1)
    BY <2>1, GoesOn
  <2> QED
    BY <2>2
<1>3. n \in T
  <2>1. n \in 0..n
    OBVIOUS
  <2> HIDE DEF T
  <2> QED
    BY <1>1, <1>2, <2>1, UpTo
<1> QED
  BY <1>3

\* The function that a recursion defines.
Recurs(f, x, step, n) == f = [k \in 0..n |-> IF k = 0 THEN x ELSE step[k][f[k - 1]]]

LEMMA Recursive ==
  ASSUME NEW S, NEW x \in S, NEW n \in Nat, NEW step \in [1..n -> [S -> S]]
  PROVE  \E f \in [0..n -> S] : Recurs(f, x, step, n)
<1>1. PICK f : Goes(f, S, x, step, n)
  BY Recursion
<1>2. f \in [0..n -> S] /\ f[0] = x /\ \A k \in 1..n : f[k] = step[k][f[k - 1]]
  BY <1>1 DEF Goes
<1>3. \A k \in 0..n : f[k] = IF k = 0 THEN x ELSE step[k][f[k - 1]]
  BY <1>2
<1>4. f = [k \in 0..n |-> IF k = 0 THEN x ELSE step[k][f[k - 1]]]
  BY <1>2, <1>3
<1> QED
  BY <1>2, <1>4 DEF Recurs

(***************************************************************************)
(* MessageInfo.                                                            *)
(***************************************************************************)

LEMMA InfoConstants ==
  /\ SizeBytes \in Nat /\ ByteValues \in Nat /\ ByteValues > 1
  /\ Names \subseteq Seq(0..ByteValues - 1) /\ Sizes \subseteq 0..M!Limit[SizeBytes] - 1
BY InstanceAssumption DEF M!InfoAssumption

LEMMA InfoLimits ==
  /\ M!Limit[0] = 1
  /\ \A k \in 0..SizeBytes : M!Limit[k] \in Nat
  /\ \A k \in 1..SizeBytes : M!Limit[k] = ByteValues * M!Limit[k - 1]
<1> DEFINE step == [k \in 1..SizeBytes |-> [l \in Nat |-> ByteValues * l]]
<1>1. SizeBytes \in Nat /\ ByteValues \in Nat
  BY InfoConstants
<1>2. step \in [1..SizeBytes -> [Nat -> Nat]]
  BY <1>1
<1>3. PICK f \in [0..SizeBytes -> Nat] : Recurs(f, 1, step, SizeBytes)
  <2> HIDE DEF step
  <2> QED
    BY <1>1, <1>2, Recursive
<1>4. \A k \in 1..SizeBytes, l \in Nat : step[k][l] = ByteValues * l
  OBVIOUS
<1>5. f = [k \in 0..SizeBytes |-> IF k = 0 THEN 1 ELSE ByteValues * f[k - 1]]
  <2> HIDE DEF step
  <2>1. f = [k \in 0..SizeBytes |-> IF k = 0 THEN 1 ELSE step[k][f[k - 1]]]
    BY <1>3 DEF Recurs
  <2>2. \A k \in 0..SizeBytes : k # 0 => k \in 1..SizeBytes /\ f[k - 1] \in Nat
    BY <1>1
  <2> QED
    BY <1>4, <2>1, <2>2
<1>6. M!Limit = [k \in 0..SizeBytes |-> IF k = 0 THEN 1 ELSE ByteValues * M!Limit[k - 1]]
  BY <1>5 DEF M!Limit
<1>7. M!Limit[0] = 1 /\ \A k \in 1..SizeBytes : M!Limit[k] = ByteValues * M!Limit[k - 1]
  BY <1>1, <1>6
<1>8. \A k \in 1..SizeBytes : M!Limit[k - 1] \in Nat => M!Limit[k] \in Nat
  BY <1>1, <1>7
<1>9. M!Limit[0] \in Nat
  BY <1>7
<1>10. \A k \in 0..SizeBytes : M!Limit[k] \in Nat
  BY <1>1, <1>8, <1>9, Keeps
<1> QED
  BY <1>7, <1>10

LEMMA InfoShifts ==
  ASSUME NEW size \in Nat
  PROVE  /\ M!Shifted(size)[0] = size
         /\ \A k \in 0..SizeBytes : M!Shifted(size)[k] \in Nat
         /\ \A k \in 1..SizeBytes : M!Shifted(size)[k] = M!Shifted(size)[k - 1] \div ByteValues
<1> DEFINE step == [k \in 1..SizeBytes |-> [l \in Nat |-> l \div ByteValues]]
<1>1. SizeBytes \in Nat /\ ByteValues \in Nat /\ ByteValues > 0
  BY InfoConstants
<1>2. step \in [1..SizeBytes -> [Nat -> Nat]]
  <2>1. \A l \in Nat : l \div ByteValues \in Nat
    BY <1>1, Division DEF Divided
  <2> QED
    BY <2>1
<1>3. PICK f \in [0..SizeBytes -> Nat] : Recurs(f, size, step, SizeBytes)
  <2> HIDE DEF step
  <2> QED
    BY <1>1, <1>2, Recursive
<1>4. \A k \in 1..SizeBytes, l \in Nat : step[k][l] = l \div ByteValues
  OBVIOUS
<1>5. f = [k \in 0..SizeBytes |-> IF k = 0 THEN size ELSE f[k - 1] \div ByteValues]
  <2> HIDE DEF step
  <2>1. f = [k \in 0..SizeBytes |-> IF k = 0 THEN size ELSE step[k][f[k - 1]]]
    BY <1>3 DEF Recurs
  <2>2. \A k \in 0..SizeBytes : k # 0 => k \in 1..SizeBytes /\ f[k - 1] \in Nat
    BY <1>1
  <2> QED
    BY <1>4, <2>1, <2>2
<1> DEFINE s == M!Shifted(size)
<1>6. s = [k \in 0..SizeBytes |-> IF k = 0 THEN size ELSE s[k - 1] \div ByteValues]
  BY <1>5 DEF M!Shifted
<1> HIDE DEF s
<1>7. s[0] = size /\ \A k \in 1..SizeBytes : s[k] = s[k - 1] \div ByteValues
  BY <1>1, <1>6
<1>8. ASSUME NEW k \in 1..SizeBytes, s[k - 1] \in Nat PROVE s[k] \in Nat
  <2>1. s[k - 1] \div ByteValues \in Nat
    BY <1>1, <1>8, Division DEF Divided
  <2> QED
    BY <1>7, <2>1
<1>9. \A k \in 0..SizeBytes : s[k] \in Nat
  BY <1>1, <1>7, <1>8, Keeps
<1> QED
  BY <1>7, <1>9 DEF s

\* What is below a product, divided by the one factor, is below the other.
LEMMA BelowProduct ==
  ASSUME NEW b \in Nat, b > 0, NEW n \in Nat, NEW l \in Nat, n < b * l
  PROVE  n \div b < l
<1>1. PICK q \in Nat, r \in 0..b - 1 : n = b * q + r /\ n \div b = q
  BY Division DEF Divided
<1>2. CASE q >= l
  <2>1. PICK d \in Nat : q = l + d
    BY <1>2
  <2>2. b * q = b * l + b * d /\ b * d \in Nat /\ b * l \in Nat
    BY <2>1
  <2> QED
    BY <1>1, <2>2
<1> QED
  BY <1>1, <1>2

\* The bytes of a size tell it from every other.
LEMMA SizesApart ==
  ASSUME NEW x \in Sizes, NEW y \in Sizes, M!SizeBytesOf(x) = M!SizeBytesOf(y)
  PROVE  x = y
<1> DEFINE s == M!Shifted(x)
           t == M!Shifted(y)
           L == M!Limit
<1>1. SizeBytes \in Nat /\ ByteValues \in Nat /\ ByteValues > 0
  BY InfoConstants
<1>2. L[0] = 1 /\ \A k \in 0..SizeBytes : L[k] \in Nat
  BY InfoLimits
<1>3. \A k \in 1..SizeBytes : L[k] = ByteValues * L[k - 1]
  BY InfoLimits
<1>4. x \in Nat /\ y \in Nat /\ x < L[SizeBytes] /\ y < L[SizeBytes]
  BY <1>1, <1>2, InfoConstants
<1>5. s[0] = x /\ t[0] = y /\ \A k \in 0..SizeBytes : s[k] \in Nat /\ t[k] \in Nat
  BY <1>4, InfoShifts
<1>6. \A k \in 1..SizeBytes : s[k] = s[k - 1] \div ByteValues /\ t[k] = t[k - 1] \div ByteValues
  BY <1>4, InfoShifts
<1>7. \A k \in 0..SizeBytes - 1 : s[k] % ByteValues = t[k] % ByteValues
  <2> TAKE k \in 0..SizeBytes - 1
  <2>1. PICK i \in 1..SizeBytes : i = SizeBytes - k /\ SizeBytes - i = k
    BY <1>1
  <2>2. \A v : M!SizeBytesOf(v)[i] = M!Shifted(v)[SizeBytes - i] % ByteValues
    BY DEF M!SizeBytesOf
  <2> QED
    BY <2>1, <2>2
<1> HIDE DEF s, t, L
<1> DEFINE T == {k \in 0..SizeBytes : s[k] < L[SizeBytes - k] /\ t[k] < L[SizeBytes - k]}
<1>8. 0..SizeBytes \subseteq T
  <2>1. 0 \in T
    BY <1>1, <1>4, <1>5
  <2>2. ASSUME NEW k \in 0..SizeBytes - 1, k \in T PROVE k + 1 \in T
    <3>1. PICK m \in Nat : m = L[SizeBytes - (k + 1)] /\ L[SizeBytes - k] = ByteValues * m
      <4>1. SizeBytes - k \in 1..SizeBytes /\ SizeBytes - k - 1 = SizeBytes - (k + 1)
        BY <1>1
      <4>2. SizeBytes - (k + 1) \in 0..SizeBytes
        BY <1>1
      <4>3. L[SizeBytes - k] = ByteValues * L[SizeBytes - k - 1]
        BY <1>3, <4>1
      <4> QED
        BY <1>2, <4>1, <4>2, <4>3
    <3>2. s[k] \in Nat /\ t[k] \in Nat /\ s[k] < ByteValues * m /\ t[k] < ByteValues * m
      BY <1>1, <1>5, <2>2, <3>1
    <3>3. s[k + 1] = s[k] \div ByteValues /\ t[k + 1] = t[k] \div ByteValues
      BY <1>1, <1>6
    <3>4. s[k] \div ByteValues < m /\ t[k] \div ByteValues < m
      BY <1>1, <3>2, BelowProduct
    <3> QED
      BY <1>1, <3>1, <3>3, <3>4
  <2> HIDE DEF T
  <2> QED
    BY <1>1, <2>1, <2>2, UpTo
<1>9. s[SizeBytes] = t[SizeBytes]
  <2>1. s[SizeBytes] < 1 /\ t[SizeBytes] < 1
    BY <1>1, <1>2, <1>8
  <2> QED
    BY <1>1, <1>5, <2>1
<1> DEFINE E == {k \in 0..SizeBytes : s[SizeBytes - k] = t[SizeBytes - k]}
<1>10. 0..SizeBytes \subseteq E
  <2>1. 0 \in E
    BY <1>1, <1>9
  <2>2. ASSUME NEW k \in 0..SizeBytes - 1, k \in E PROVE k + 1 \in E
    <3>1. PICK j \in 1..SizeBytes : j = SizeBytes - k /\ j - 1 = SizeBytes - (k + 1) /\ j - 1 \in 0..SizeBytes - 1
      BY <1>1
    <3>2. s[j] = t[j] /\ s[j - 1] \in Nat /\ t[j - 1] \in Nat
      BY <1>1, <1>5, <2>2, <3>1
    <3>3. s[j] = s[j - 1] \div ByteValues /\ t[j] = t[j - 1] \div ByteValues
      BY <1>6
    <3>4. s[j - 1] % ByteValues = t[j - 1] % ByteValues
      BY <1>7, <3>1
    <3>5. \A n \in Nat : n = ByteValues * (n \div ByteValues) + (n % ByteValues)
      BY <1>1, Division DEF Divided
    <3>6. s[j - 1] = t[j - 1]
      BY <3>2, <3>3, <3>4, <3>5, Zenon
    <3> QED
      BY <1>1, <3>1, <3>6
  <2> HIDE DEF E
  <2> QED
    BY <1>1, <2>1, <2>2, UpTo
<1>11. s[0] = t[0]
  <2>1. SizeBytes \in E /\ SizeBytes - SizeBytes = 0
    BY <1>1, <1>10
  <2> QED
    BY <2>1
<1> QED
  BY <1>5, <1>11

\* Two sequences of equal length behind two others, where both add up to the same.
LEMMA CatSplits ==
  ASSUME NEW S, NEW a \in Seq(S), NEW b \in Seq(S), NEW c \in Seq(S), NEW d \in Seq(S),
         Len(c) = Len(d), Cat(a, c) = Cat(b, d)
  PROVE  a = b /\ c = d
<1>1. PICK m \in Nat, n \in Nat : /\ Len(a) = m /\ Len(c) = n /\ Len(d) = n /\ Len(b) = m
  <2>1. Len(Cat(a, c)) = Len(a) + Len(c) /\ Len(Cat(b, d)) = Len(b) + Len(d)
    BY CatType
  <2>2. Len(a) \in Nat /\ Len(b) \in Nat /\ Len(c) \in Nat
    BY LenProperties
  <2> QED
    BY <2>1, <2>2
<1>2. \A s \in Seq(S), t \in Seq(S), i \in 1..m :
          Len(s) = m /\ Len(t) = n => Cat(s, t)[i] = s[i]
  BY ConcatProperties DEF Cat
<1>3. \A s \in Seq(S), t \in Seq(S), i \in 1..n :
          Len(s) = m /\ Len(t) = n => Cat(s, t)[m + i] = t[i]
  <2> TAKE s \in Seq(S), t \in Seq(S), i \in 1..n
  <2> HAVE Len(s) = m /\ Len(t) = n
  <2>1. m + i \in 1..m + n /\ ~ (m + i <= m) /\ m + i - m = i
    OBVIOUS
  <2>2. Cat(s, t)[m + i] = IF m + i <= Len(s) THEN s[m + i] ELSE t[m + i - Len(s)]
    <3>1. m + i \in 1..Len(s) + Len(t)
      BY <2>1
    <3> QED
      BY <3>1, ConcatProperties DEF Cat
  <2> QED
    BY <2>1, <2>2
<1>4. \A i \in 1..m : a[i] = b[i]
  BY <1>1, <1>2
<1>5. \A i \in 1..n : c[i] = d[i]
  BY <1>1, <1>3
<1> QED
  BY <1>1, <1>4, <1>5, SeqEqual

LEMMA HashesApart ==
  ASSUME NEW i \in M!Infos, NEW j \in M!Infos, M!constructHash(i) = M!constructHash(j)
  PROVE  i = j
<1> DEFINE flag(k)  == <<IF k.isVariableSize THEN 1 ELSE 0>>
           bytes(k) == M!SizeBytesOf(k.size)
<1>1. \A k \in M!Infos : /\ k.name \in Seq(Nat) /\ k.size \in Sizes /\ k.isVariableSize \in BOOLEAN
                         /\ k = [name |-> k.name, size |-> k.size, isVariableSize |-> k.isVariableSize]
  <2> TAKE k \in M!Infos
  <2>1. /\ k.name \in Names /\ k.size \in Sizes /\ k.isVariableSize \in BOOLEAN
        /\ k = [name |-> k.name, size |-> k.size, isVariableSize |-> k.isVariableSize]
    BY DEF M!Infos
  <2>2. k.name \in Seq(0..ByteValues - 1)
    BY <2>1, InfoConstants
  <2>3. 0..ByteValues - 1 \subseteq Nat
    BY InfoConstants
  <2>4. k.name \in Seq(Nat)
    <3>1. /\ Len(k.name) \in Nat /\ k.name = [e \in 1..Len(k.name) |-> k.name[e]]
          /\ \A e \in 1..Len(k.name) : k.name[e] \in 0..ByteValues - 1
      BY <2>2, LenProperties, ElementOfSeq
    <3> QED
      BY <2>3, <3>1, IsASeq
  <2> QED
    BY <2>1, <2>4
<1>2. \A k \in M!Infos : flag(k) \in Seq(Nat) /\ Len(flag(k)) = 1
  OBVIOUS
<1>3. \A k \in M!Infos : bytes(k) \in Seq(Nat) /\ Len(bytes(k)) = SizeBytes
  <2> TAKE k \in M!Infos
  <2>1. k.size \in Nat /\ SizeBytes \in Nat /\ ByteValues \in Nat /\ ByteValues > 0
    <3>1. k.size \in 0..M!Limit[SizeBytes] - 1
      BY <1>1, InfoConstants
    <3> QED
      BY <3>1, InfoConstants, InfoLimits
  <2>2. \A e \in 1..SizeBytes : M!Shifted(k.size)[SizeBytes - e] % ByteValues \in Nat
    <3> TAKE e \in 1..SizeBytes
    <3>1. M!Shifted(k.size)[SizeBytes - e] \in Nat
      BY <2>1, InfoShifts
    <3> QED
      BY <2>1, <3>1, Division DEF Divided
  <2>3. bytes(k) \in [1..SizeBytes -> Nat]
    BY <2>2 DEF M!SizeBytesOf
  <2> QED
    BY <2>1, <2>3
<1>4. \A k \in M!Infos : M!constructHash(k) = Cat(Cat(k.name, flag(k)), bytes(k))
  BY DEF M!constructHash, Cat
<1>5. \A k \in M!Infos : Cat(k.name, flag(k)) \in Seq(Nat)
  <2> HIDE DEF flag
  <2> QED
    BY <1>1, <1>2, CatType
<1>6. Cat(i.name, flag(i)) = Cat(j.name, flag(j)) /\ bytes(i) = bytes(j)
  <2> HIDE DEF flag, bytes
  <2> QED
    BY <1>3, <1>4, <1>5, CatSplits
<1>7. i.name = j.name /\ flag(i) = flag(j)
  <2> HIDE DEF flag
  <2> QED
    BY <1>1, <1>2, <1>6, CatSplits
<1>8. i.isVariableSize = j.isVariableSize
  <2>1. flag(i)[1] = flag(j)[1]
    BY <1>7
  <2>2. (IF i.isVariableSize THEN 1 ELSE 0) = (IF j.isVariableSize THEN 1 ELSE 0)
    BY <2>1
  <2> QED
    BY <1>1, <2>2
<1>9. i.size = j.size
  BY <1>1, <1>6, SizesApart
<1> QED
  BY <1>1, <1>7, <1>8, <1>9

InfoInv == infos \subseteq M!Infos /\ hashed = [i \in infos |-> M!constructHash(i)]

LEMMA InfoInvariant == DigestsSpec => []InfoInv
<1>1. DigestsInit => InfoInv
  BY DEF DigestsInit, M!Init, InfoInv
<1>2. InfoInv /\ [DigestsNext]_<<digest, vars, crcVars, infoVars>> => InfoInv'
  <2> SUFFICES ASSUME InfoInv, [DigestsNext]_<<digest, vars, crcVars, infoVars>> PROVE InfoInv'
    OBVIOUS
  <2>1. ASSUME NEW info \in M!Infos, M!Construct(info) PROVE InfoInv'
    BY <2>1 DEF M!Construct, InfoInv
  <2>2. CASE UNCHANGED infoVars
    BY <2>2 DEF infoVars, InfoInv
  <2> QED
    BY <2>1, <2>2 DEF DigestsNext, M!Next
<1> QED
  BY <1>1, <1>2, PTL DEF DigestsSpec

\* Whatever infos are constructed, those that differ are hashed from different bytes: the
\* flag and the size, of a number of bytes that does not depend on them, end the name.
THEOREM InfosHashedApart == DigestsSpec => []HashTellsApart
<1>1. InfoInv => HashTellsApart
  <2> SUFFICES ASSUME InfoInv, NEW i \in infos, NEW j \in infos, hashed[i] = hashed[j]
               PROVE  i = j
    BY DEF HashTellsApart, M!HashTellsApart
  <2>1. i \in M!Infos /\ j \in M!Infos /\ M!constructHash(i) = M!constructHash(j)
    BY DEF InfoInv
  <2> QED
    BY <2>1, HashesApart
<1> QED
  BY <1>1, InfoInvariant, PTL

(***************************************************************************)
(* CRC32.                                                                  *)
(***************************************************************************)

LEMMA CrcConstants ==
  /\ ByteBits \in Nat /\ WordBits \in Nat /\ C!Byte \subseteq C!Word /\ C!Word \subseteq Nat
  /\ Polynomial \subseteq C!Word
  /\ \A k \in 0..ByteBits - 1 : k \in C!Byte /\ 0 \in C!Word
<1>1. /\ ByteBits \in Nat /\ WordBits \in Nat /\ ByteBits <= WordBits /\ Polynomial \subseteq C!Word
  BY InstanceAssumption DEF C!CrcAssumption
<1> QED
  BY <1>1 DEF C!Byte, C!Word

LEMMA ShiftIn ==
  ASSUME NEW x \in SUBSET Nat, NEW n \in Nat
  PROVE  /\ C!ShiftRight(x, n) \in SUBSET Nat
         /\ \A b \in Nat : b \in C!ShiftRight(x, n) <=> b + n \in x
<1>1. ASSUME NEW b \in C!ShiftRight(x, n) PROVE b \in Nat /\ b + n \in x
  <2>1. PICK c \in x : c >= n /\ b = c - n
    BY DEF C!ShiftRight
  <2> QED
    BY <2>1
<1>2. ASSUME NEW b \in Nat, b + n \in x PROVE b \in C!ShiftRight(x, n)
  <2>1. PICK c \in x : c = b + n
    BY <1>2
  <2>2. c >= n /\ b = c - n
    BY <2>1
  <2> QED
    BY <2>2 DEF C!ShiftRight
<1> QED
  BY <1>1, <1>2

LEMMA XorIn == \A x, y, b : b \in C!Xor(x, y) <=> ~ (b \in x <=> b \in y)
  BY DEF C!Xor

LEMMA ShiftXor ==
  ASSUME NEW x \in SUBSET Nat, NEW y \in SUBSET Nat
  PROVE  C!ShiftRight(C!Xor(x, y), 1) = C!Xor(C!ShiftRight(x, 1), C!ShiftRight(y, 1))
<1>1. C!Xor(x, y) \in SUBSET Nat
  BY DEF C!Xor
<1>2. \A b : b \in C!ShiftRight(C!Xor(x, y), 1) => b \in Nat
  BY <1>1, ShiftIn
<1>3. \A b : b \in C!Xor(C!ShiftRight(x, 1), C!ShiftRight(y, 1)) => b \in Nat
  BY ShiftIn DEF C!Xor
<1>4. ASSUME NEW b \in Nat
      PROVE  b \in C!ShiftRight(C!Xor(x, y), 1) <=> b \in C!Xor(C!ShiftRight(x, 1), C!ShiftRight(y, 1))
  <2>1. b \in C!ShiftRight(C!Xor(x, y), 1) <=> b + 1 \in C!Xor(x, y)
    BY <1>1, ShiftIn
  <2>2. b \in C!ShiftRight(x, 1) <=> b + 1 \in x
    BY ShiftIn
  <2>3. b \in C!ShiftRight(y, 1) <=> b + 1 \in y
    BY ShiftIn
  <2> QED
    BY <2>1, <2>2, <2>3, XorIn
<1> QED
  BY <1>2, <1>3, <1>4

LEMMA DividedType ==
  ASSUME NEW r \in SUBSET C!Word
  PROVE  C!Divided(r) \in SUBSET C!Word
<1>1. C!ShiftRight(r, 1) \in SUBSET C!Word
  <2> SUFFICES ASSUME NEW b \in C!ShiftRight(r, 1) PROVE b \in C!Word
    OBVIOUS
  <2>1. PICK c \in r : c >= 1 /\ b = c - 1
    BY DEF C!ShiftRight
  <2> QED
    BY <2>1, CrcConstants DEF C!Word
<1> QED
  BY <1>1, CrcConstants DEF C!Divided, C!Xor

\* What is added without bit 0 is only shifted.
LEMMA DividedXor ==
  ASSUME NEW a \in SUBSET Nat, NEW s \in SUBSET Nat, 0 \notin s
  PROVE  C!Divided(C!Xor(a, s)) = C!Xor(C!Divided(a), C!ShiftRight(s, 1))
<1>1. 0 \in C!Xor(a, s) <=> 0 \in a
  BY XorIn
<1>2. C!ShiftRight(C!Xor(a, s), 1) = C!Xor(C!ShiftRight(a, 1), C!ShiftRight(s, 1))
  BY ShiftXor
<1>3. \A x, y, z : C!Xor(C!Xor(x, y), z) = C!Xor(C!Xor(x, z), y)
  BY DEF C!Xor
<1>4. CASE 0 \in a
  <2>1. C!Divided(C!Xor(a, s)) = C!Xor(C!ShiftRight(C!Xor(a, s), 1), Polynomial)
    BY <1>1, <1>4 DEF C!Divided
  <2>2. C!Divided(a) = C!Xor(C!ShiftRight(a, 1), Polynomial)
    BY <1>4 DEF C!Divided
  <2> QED
    BY <1>2, <1>3, <2>1, <2>2
<1>5. CASE 0 \notin a
  <2>1. C!Divided(C!Xor(a, s)) = C!ShiftRight(C!Xor(a, s), 1) /\ C!Divided(a) = C!ShiftRight(a, 1)
    BY <1>1, <1>5 DEF C!Divided
  <2> QED
    BY <1>2, <2>1
<1> QED
  BY <1>4, <1>5

\* An entry of the table is the division of its index, bit by bit.
LEMMA TableIs ==
  ASSUME NEW v \in SUBSET C!Byte
  PROVE  \E f \in [0..ByteBits -> SUBSET C!Word] :
            /\ C!crc32Table[v] = f[ByteBits] /\ f[0] = v
            /\ \A k \in 1..ByteBits : f[k] = C!Divided(f[k - 1])
<1> DEFINE step  == [k \in 1..ByteBits |-> [r \in SUBSET C!Word |-> C!Divided(r)]]
           table == CHOOSE d : d = [k \in 0..ByteBits |-> IF k = 0 THEN v ELSE C!Divided(d[k - 1])]
<1>1. ByteBits \in Nat /\ v \in SUBSET C!Word
  BY CrcConstants
<1>2. step \in [1..ByteBits -> [SUBSET C!Word -> SUBSET C!Word]]
  BY DividedType
<1>3. \A k \in 1..ByteBits, r \in SUBSET C!Word : step[k][r] = C!Divided(r)
  OBVIOUS
<1>4. PICK f \in [0..ByteBits -> SUBSET C!Word] : f = [k \in 0..ByteBits |-> IF k = 0 THEN v ELSE C!Divided(f[k - 1])]
  <2> HIDE DEF step
  <2>1. PICK f \in [0..ByteBits -> SUBSET C!Word] : Recurs(f, v, step, ByteBits)
    BY <1>1, <1>2, Recursive
  <2>2. f = [k \in 0..ByteBits |-> IF k = 0 THEN v ELSE step[k][f[k - 1]]]
    BY <2>1 DEF Recurs
  <2>3. \A k \in 0..ByteBits : k # 0 => k \in 1..ByteBits /\ f[k - 1] \in SUBSET C!Word
    BY <1>1
  <2>4. f = [k \in 0..ByteBits |-> IF k = 0 THEN v ELSE C!Divided(f[k - 1])]
    BY <1>3, <2>2, <2>3
  <2> QED
    BY <2>4
<1>5. table = [k \in 0..ByteBits |-> IF k = 0 THEN v ELSE C!Divided(table[k - 1])]
  BY <1>4
<1>6. C!crc32Table[v] = table[ByteBits]
  BY DEF C!crc32Table
<1> HIDE DEF table, step
<1>7. table[0] = v /\ \A k \in 1..ByteBits : table[k] = C!Divided(table[k - 1])
  BY <1>1, <1>5
<1>8. ASSUME NEW k \in 1..ByteBits, table[k - 1] \in SUBSET C!Word PROVE table[k] \in SUBSET C!Word
  BY <1>7, <1>8, DividedType
<1>9. \A k \in 0..ByteBits : table[k] \in SUBSET C!Word
  BY <1>1, <1>7, <1>8, Keeps
<1>10. table \in [0..ByteBits -> SUBSET C!Word]
  BY <1>5, <1>9
<1> QED
  BY <1>6, <1>7, <1>10

\* r with bit k of v, if it is set, added to its lowest.
WithBit(r, v, k) == IF k \in v THEN C!Xor(r, {0}) ELSE r

LEMMA WithBitType ==
  ASSUME NEW r \in SUBSET C!Word, NEW v, NEW k \in 0..ByteBits - 1
  PROVE  WithBit(r, v, k) \in SUBSET C!Word
BY CrcConstants DEF WithBit, C!Xor

\* What the division of r and v leaves after each bit.
BitsDivided(f, r, v) ==
    /\ f \in [0..ByteBits -> SUBSET C!Word] /\ f[0] = r
    /\ \A k \in 1..ByteBits : f[k] = C!Divided(WithBit(f[k - 1], v, k - 1))

LEMMA DividedByteIs ==
  ASSUME NEW r \in SUBSET C!Word, NEW v
  PROVE  \E f : BitsDivided(f, r, v) /\ C!DividedByte(r, v) = f[ByteBits]
<1> DEFINE step   == [k \in 1..ByteBits |-> [q \in SUBSET C!Word |-> C!Divided(WithBit(q, v, k - 1))]]
           divided == CHOOSE d : d = [k \in 0..ByteBits |->
                         IF k = 0 THEN r ELSE C!Divided(IF k - 1 \in v THEN C!Xor(d[k - 1], {0}) ELSE d[k - 1])]
<1>1. ByteBits \in Nat
  BY CrcConstants
<1>2. step \in [1..ByteBits -> [SUBSET C!Word -> SUBSET C!Word]]
  <2>1. ASSUME NEW k \in 1..ByteBits, NEW q \in SUBSET C!Word
        PROVE  C!Divided(WithBit(q, v, k - 1)) \in SUBSET C!Word
    <3>1. k - 1 \in 0..ByteBits - 1
      BY <1>1
    <3> QED
      BY <3>1, WithBitType, DividedType
  <2> QED
    BY <2>1
<1>3. \A k \in 1..ByteBits, q \in SUBSET C!Word : step[k][q] = C!Divided(WithBit(q, v, k - 1))
  OBVIOUS
<1>4. PICK f \in [0..ByteBits -> SUBSET C!Word] :
          f = [k \in 0..ByteBits |-> IF k = 0 THEN r ELSE C!Divided(WithBit(f[k - 1], v, k - 1))]
  <2> HIDE DEF step
  <2>1. PICK f \in [0..ByteBits -> SUBSET C!Word] : Recurs(f, r, step, ByteBits)
    BY <1>1, <1>2, Recursive
  <2>2. f = [k \in 0..ByteBits |-> IF k = 0 THEN r ELSE step[k][f[k - 1]]]
    BY <2>1 DEF Recurs
  <2>3. \A k \in 0..ByteBits : k # 0 => k \in 1..ByteBits /\ f[k - 1] \in SUBSET C!Word
    BY <1>1
  <2>4. f = [k \in 0..ByteBits |-> IF k = 0 THEN r ELSE C!Divided(WithBit(f[k - 1], v, k - 1))]
    BY <1>3, <2>2, <2>3
  <2> QED
    BY <2>4
<1>5. divided = [k \in 0..ByteBits |->
                    IF k = 0 THEN r ELSE C!Divided(IF k - 1 \in v THEN C!Xor(divided[k - 1], {0}) ELSE divided[k - 1])]
  BY <1>4 DEF WithBit
<1>6. C!DividedByte(r, v) = divided[ByteBits]
  BY DEF C!DividedByte
<1> HIDE DEF divided, step
<1>7. divided[0] = r /\ \A k \in 1..ByteBits : divided[k] = C!Divided(WithBit(divided[k - 1], v, k - 1))
  BY <1>1, <1>5 DEF WithBit
<1>8. ASSUME NEW k \in 1..ByteBits, divided[k - 1] \in SUBSET C!Word PROVE divided[k] \in SUBSET C!Word
  <2>1. k - 1 \in 0..ByteBits - 1
    BY <1>1
  <2> QED
    BY <1>7, <1>8, <2>1, WithBitType, DividedType
<1>9. \A k \in 0..ByteBits : divided[k] \in SUBSET C!Word
  BY <1>1, <1>7, <1>8, Keeps
<1>10. divided \in [0..ByteBits -> SUBSET C!Word]
  BY <1>5, <1>9
<1>11. BitsDivided(divided, r, v)
  BY <1>7, <1>10 DEF BitsDivided
<1> QED
  BY <1>6, <1>11

\* What is left to add of e behind its first k bits, added with bit k in front of it.
LEMMA BitByBit ==
  ASSUME NEW f \in SUBSET Nat, NEW e \in SUBSET Nat, NEW v, NEW k \in Nat, k \in e <=> k \in v,
         WithBit(f, v, k) \in SUBSET Nat
  PROVE  C!Divided(C!Xor(f, C!ShiftRight(e, k))) =
            C!Xor(C!Divided(WithBit(f, v, k)), C!ShiftRight(e, k + 1))
<1> DEFINE s == C!ShiftRight(e, k) \ {0}
<1>1. 0 \in C!ShiftRight(e, k) <=> k \in v
  <2>1. 0 \in C!ShiftRight(e, k) <=> 0 + k \in e
    BY ShiftIn
  <2> QED
    BY <2>1
<1>2. C!Xor(f, C!ShiftRight(e, k)) = C!Xor(WithBit(f, v, k), s)
  BY <1>1 DEF WithBit, C!Xor
<1>3. s \in SUBSET Nat /\ 0 \notin s
  BY ShiftIn
<1>4. C!ShiftRight(s, 1) = C!ShiftRight(e, k + 1)
  <2>1. PICK j \in Nat : j = k + 1
    OBVIOUS
  <2>2. C!ShiftRight(s, 1) \in SUBSET Nat /\ C!ShiftRight(e, j) \in SUBSET Nat
    <3>1. C!ShiftRight(e, j) \in SUBSET Nat
      BY ShiftIn
    <3> HIDE DEF s
    <3> QED
      BY <1>3, <3>1, ShiftIn
  <2>3. ASSUME NEW b \in Nat PROVE b \in C!ShiftRight(s, 1) <=> b \in C!ShiftRight(e, j)
    <3>1. PICK c \in Nat : c = b + 1 /\ c # 0 /\ c + k = b + j
      BY <2>1
    <3>2. c \in s <=> c \in C!ShiftRight(e, k)
      BY <3>1
    <3>3. c \in C!ShiftRight(e, k) <=> c + k \in e
      BY ShiftIn
    <3>4. b \in C!ShiftRight(e, j) <=> b + j \in e
      BY ShiftIn
    <3> HIDE DEF s
    <3>5. b \in C!ShiftRight(s, 1) <=> b + 1 \in s
      BY <1>3, ShiftIn
    <3> QED
      BY <3>1, <3>2, <3>3, <3>4, <3>5
  <2> HIDE DEF s
  <2> QED
    BY <2>1, <2>2, <2>3
<1> HIDE DEF s
<1> QED
  BY <1>2, <1>3, <1>4, DividedXor

\* The table does what the division of a byte does bit by bit.
LEMMA AfterDivides ==
  ASSUME NEW r \in SUBSET C!Word, NEW v \in SUBSET C!Byte
  PROVE  C!After(r, v) = C!DividedByte(r, v) /\ C!After(r, v) \in SUBSET C!Word
<1> DEFINE low == C!Xor(v, r \cap C!Byte)
           e   == v \cup (r \ C!Byte)
<1>1. ByteBits \in Nat /\ C!Byte \subseteq C!Word /\ C!Word \subseteq Nat
  BY CrcConstants
<1>2. low \in SUBSET C!Byte /\ e \in SUBSET Nat /\ r \in SUBSET Nat
  BY <1>1 DEF C!Xor
<1>3. PICK h \in [0..ByteBits -> SUBSET C!Word] :
          /\ C!crc32Table[low] = h[ByteBits] /\ h[0] = low
          /\ \A k \in 1..ByteBits : h[k] = C!Divided(h[k - 1])
  <2> HIDE DEF low
  <2> QED
    BY <1>2, TableIs
<1>14. PICK f : BitsDivided(f, r, v) /\ C!DividedByte(r, v) = f[ByteBits]
  BY DividedByteIs
<1>4. /\ f \in [0..ByteBits -> SUBSET C!Word] /\ C!DividedByte(r, v) = f[ByteBits] /\ f[0] = r
      /\ \A k \in 1..ByteBits : f[k] = C!Divided(WithBit(f[k - 1], v, k - 1))
  BY <1>14 DEF BitsDivided
<1> DEFINE T == {k \in 0..ByteBits : h[k] = C!Xor(f[k], C!ShiftRight(e, k))}
<1>5. 0 \in T
  <2>1. \A b \in Nat : b \in C!ShiftRight(e, 0) <=> b + 0 \in e
    BY <1>2, ShiftIn
  <2>2. C!ShiftRight(e, 0) \in SUBSET Nat
    BY <1>2, ShiftIn
  <2>3. \A b \in Nat : b + 0 = b
    OBVIOUS
  <2>4. C!ShiftRight(e, 0) = e
    <3> HIDE DEF e
    <3>1. \A b \in Nat : b \in C!ShiftRight(e, 0) <=> b \in e
      BY <2>1, <2>3
    <3> QED
      BY <1>2, <2>2, <3>1
  <2>5. low = C!Xor(r, e)
    BY DEF C!Xor
  <2>6. 0 \in 0..ByteBits
    BY <1>1
  <2> HIDE DEF low, e
  <2> QED
    BY <1>3, <1>4, <2>4, <2>5, <2>6
<1>6. ASSUME NEW k \in 0..ByteBits - 1, k \in T PROVE k + 1 \in T
  <2>1. k + 1 \in 1..ByteBits /\ (k + 1) - 1 = k /\ k \in 0..ByteBits /\ k + 1 \in 0..ByteBits
    BY <1>1
  <2>2. k \in e <=> k \in v
    BY CrcConstants
  <2>3. f[k] \in SUBSET C!Word /\ WithBit(f[k], v, k) \in SUBSET C!Word
    <3>1. f[k] \in SUBSET C!Word
      BY <1>4, <2>1
    <3> QED
      BY <3>1, WithBitType
  <2>4. f[k] \in SUBSET Nat /\ WithBit(f[k], v, k) \in SUBSET Nat /\ k \in Nat
    <3>1. \A x \in SUBSET C!Word : x \in SUBSET Nat
      BY <1>1
    <3>2. k \in Nat
      BY <1>1
    <3> QED
      BY <2>3, <3>1, <3>2
  <2> HIDE DEF low, e
  <2>5. h[k + 1] = C!Divided(h[k]) /\ f[k + 1] = C!Divided(WithBit(f[k], v, k))
    BY <1>3, <1>4, <2>1
  <2>6. h[k] = C!Xor(f[k], C!ShiftRight(e, k))
    BY <1>6
  <2>7. h[k + 1] = C!Xor(f[k + 1], C!ShiftRight(e, k + 1))
    BY <1>2, <2>2, <2>4, <2>5, <2>6, BitByBit
  <2> QED
    BY <2>1, <2>7
<1>7. 0..ByteBits \subseteq T
  <2> HIDE DEF T
  <2> QED
    BY <1>1, <1>5, <1>6, UpTo
<1>8. h[ByteBits] = C!Xor(f[ByteBits], C!ShiftRight(e, ByteBits))
  <2>1. ByteBits \in 0..ByteBits
    BY <1>1
  <2> QED
    BY <1>7, <2>1
<1>9. C!ShiftRight(e, ByteBits) = C!ShiftRight(r, ByteBits)
  <2>1. C!ShiftRight(e, ByteBits) \in SUBSET Nat /\ C!ShiftRight(r, ByteBits) \in SUBSET Nat
    BY <1>1, <1>2, ShiftIn
  <2>2. ASSUME NEW b \in Nat PROVE b \in C!ShiftRight(e, ByteBits) <=> b \in C!ShiftRight(r, ByteBits)
    <3>1. b + ByteBits \notin C!Byte
      BY <1>1 DEF C!Byte
    <3>2. b + ByteBits \in e <=> b + ByteBits \in r
      BY <3>1
    <3> HIDE DEF e
    <3> QED
      BY <1>1, <1>2, <3>2, ShiftIn
  <2> QED
    BY <2>1, <2>2
<1>10. \A x, y : C!Xor(C!Xor(x, y), y) = x
  BY DEF C!Xor
<1>11. C!After(r, v) = C!Xor(C!crc32Table[low], C!ShiftRight(r, ByteBits))
  BY DEF C!After
<1>12. C!After(r, v) = f[ByteBits]
  <2> HIDE DEF low, e
  <2> QED
    BY <1>3, <1>8, <1>9, <1>10, <1>11
<1>13. f[ByteBits] \in SUBSET C!Word
  BY <1>1, <1>4
<1> QED
  BY <1>4, <1>12, <1>13

\* The crcs of the beginnings of s.
Feeds(f, s, n) ==
    /\ f \in [0..n -> SUBSET C!Word] /\ f[0] = C!Word
    /\ \A k \in 1..n : f[k] = C!After(f[k - 1], s[k])

LEMMA FeedsAlike ==
  ASSUME NEW n \in Nat, NEW m \in Nat, n <= m, NEW s, NEW t, \A k \in 1..n : s[k] = t[k],
         NEW f, NEW g, Feeds(f, s, n), Feeds(g, t, m)
  PROVE  f[n] = g[n]
<1> DEFINE T == {k \in 0..n : f[k] = g[k]}
<1>1. 0 \in T
  BY DEF Feeds
<1>2. ASSUME NEW k \in 0..n - 1, k \in T PROVE k + 1 \in T
  <2>1. k + 1 \in 1..n /\ k + 1 \in 1..m /\ (k + 1) - 1 = k
    OBVIOUS
  <2>2. f[k + 1] = C!After(f[k], s[k + 1]) /\ g[k + 1] = C!After(g[k], t[k + 1])
    BY <2>1 DEF Feeds
  <2>3. f[k + 1] = g[k + 1]
    BY <1>2, <2>1, <2>2
  <2> QED
    BY <2>1, <2>3
<1>3. 0..n \subseteq T
  <2> HIDE DEF T
  <2> QED
    BY <1>1, <1>2, UpTo
<1>4. n \in 0..n
  OBVIOUS
<1> QED
  BY <1>3, <1>4

LEMMA RemainderIs ==
  ASSUME NEW n \in Nat, NEW bytes \in Seq(SUBSET C!Byte), Len(bytes) = n
  PROVE  \E f : Feeds(f, bytes, n) /\ C!Remainder(bytes) = f[n]
<1> DEFINE step == [k \in 1..n |-> [r \in SUBSET C!Word |-> C!DividedByte(r, bytes[k])]]
           remainders == CHOOSE d : d = [k \in 0..Len(bytes) |->
                            IF k = 0 THEN C!Word ELSE C!DividedByte(d[k - 1], bytes[k])]
<1>1. ASSUME NEW k \in 1..n, NEW r \in SUBSET C!Word
      PROVE  C!DividedByte(r, bytes[k]) = C!After(r, bytes[k]) /\ C!After(r, bytes[k]) \in SUBSET C!Word
  <2>1. bytes[k] \in SUBSET C!Byte
    BY ElementOfSeq
  <2> QED
    BY <2>1, AfterDivides
<1>2. step \in [1..n -> [SUBSET C!Word -> SUBSET C!Word]]
  <2>1. \A k \in 1..n, r \in SUBSET C!Word : C!DividedByte(r, bytes[k]) \in SUBSET C!Word
    BY <1>1
  <2> QED
    BY <2>1
<1>3. \A k \in 1..n, r \in SUBSET C!Word : step[k][r] = C!DividedByte(r, bytes[k])
  OBVIOUS
<1>4. PICK f \in [0..n -> SUBSET C!Word] :
          f = [k \in 0..n |-> IF k = 0 THEN C!Word ELSE C!DividedByte(f[k - 1], bytes[k])]
  <2> HIDE DEF step
  <2>1. PICK f \in [0..n -> SUBSET C!Word] : Recurs(f, C!Word, step, n)
    BY <1>2, Recursive
  <2>2. f = [k \in 0..n |-> IF k = 0 THEN C!Word ELSE step[k][f[k - 1]]]
    BY <2>1 DEF Recurs
  <2>3. \A k \in 0..n : k # 0 => k \in 1..n /\ f[k - 1] \in SUBSET C!Word
    OBVIOUS
  <2>4. f = [k \in 0..n |-> IF k = 0 THEN C!Word ELSE C!DividedByte(f[k - 1], bytes[k])]
    BY <1>3, <2>2, <2>3
  <2> QED
    BY <2>4
<1>5. remainders = [k \in 0..n |-> IF k = 0 THEN C!Word ELSE C!DividedByte(remainders[k - 1], bytes[k])]
  BY <1>4
<1>6. C!Remainder(bytes) = remainders[n]
  BY DEF C!Remainder
<1> HIDE DEF remainders, step
<1>7. remainders[0] = C!Word /\ \A k \in 1..n : remainders[k] = C!DividedByte(remainders[k - 1], bytes[k])
  BY <1>5
<1>8. ASSUME NEW k \in 1..n, remainders[k - 1] \in SUBSET C!Word PROVE remainders[k] \in SUBSET C!Word
  <2>1. PICK r \in SUBSET C!Word : r = remainders[k - 1]
    BY <1>8
  <2>2. C!DividedByte(r, bytes[k]) \in SUBSET C!Word
    BY <1>1
  <2> QED
    BY <1>7, <2>1, <2>2
<1>9. \A k \in 0..n : remainders[k] \in SUBSET C!Word
  BY <1>7, <1>8, Keeps
<1>10. remainders \in [0..n -> SUBSET C!Word]
  BY <1>5, <1>9
<1>11. \A k \in 1..n : remainders[k] = C!After(remainders[k - 1], bytes[k])
  <2> TAKE k \in 1..n
  <2>1. remainders[k - 1] \in SUBSET C!Word
    BY <1>9
  <2> QED
    BY <1>1, <1>7, <2>1
<1>12. Feeds(remainders, bytes, n)
  BY <1>7, <1>10, <1>11 DEF Feeds
<1> QED
  BY <1>6, <1>12

LEMMA CrcOfIs ==
  ASSUME NEW n \in Nat, NEW bytes \in Seq(SUBSET C!Byte), Len(bytes) = n
  PROVE  \E f : Feeds(f, bytes, n) /\ C!CrcOf(bytes) = f[n]
<1> DEFINE crcs == CHOOSE d : d = [k \in 0..Len(bytes) |->
                      IF k = 0 THEN C!Seeded({}) ELSE C!After(d[k - 1], bytes[k])]
<1>1. C!Seeded({}) = C!Word
  BY DEF C!Seeded, C!Not
<1>2. PICK f : Feeds(f, bytes, n)
  BY RemainderIs
<1>3. f = [k \in 0..n |-> IF k = 0 THEN C!Seeded({}) ELSE C!After(f[k - 1], bytes[k])]
  <2>1. /\ f \in [0..n -> SUBSET C!Word] /\ f[0] = C!Word
        /\ \A k \in 1..n : f[k] = C!After(f[k - 1], bytes[k])
    BY <1>2 DEF Feeds
  <2>2. \A k \in 0..n : f[k] = IF k = 0 THEN C!Seeded({}) ELSE C!After(f[k - 1], bytes[k])
    BY <1>1, <2>1
  <2> QED
    BY <2>1, <2>2
<1>4. crcs = [k \in 0..n |-> IF k = 0 THEN C!Seeded({}) ELSE C!After(crcs[k - 1], bytes[k])]
  BY <1>3
<1>5. C!CrcOf(bytes) = crcs[n]
  BY DEF C!CrcOf
<1> HIDE DEF crcs
<1>6. crcs[0] = C!Word /\ \A k \in 1..n : crcs[k] = C!After(crcs[k - 1], bytes[k])
  BY <1>1, <1>4
<1>7. ASSUME NEW k \in 1..n, crcs[k - 1] \in SUBSET C!Word PROVE crcs[k] \in SUBSET C!Word
  <2>1. bytes[k] \in SUBSET C!Byte
    BY ElementOfSeq
  <2> QED
    BY <1>6, <1>7, <2>1, AfterDivides
<1>8. \A k \in 0..n : crcs[k] \in SUBSET C!Word
  BY <1>6, <1>7, Keeps
<1>9. crcs \in [0..n -> SUBSET C!Word]
  BY <1>4, <1>8
<1>10. Feeds(crcs, bytes, n)
  BY <1>6, <1>9 DEF Feeds
<1> QED
  BY <1>5, <1>10

LEMMA CrcIsRemainder ==
  ASSUME NEW bytes \in Seq(SUBSET C!Byte)
  PROVE  C!CrcOf(bytes) = C!Remainder(bytes) /\ C!Remainder(bytes) \in SUBSET C!Word
<1>1. PICK n \in Nat : Len(bytes) = n
  BY LenProperties
<1>2. PICK f : Feeds(f, bytes, n) /\ C!Remainder(bytes) = f[n]
  BY <1>1, RemainderIs
<1>3. PICK g : Feeds(g, bytes, n) /\ C!CrcOf(bytes) = g[n]
  BY <1>1, CrcOfIs
<1>4. f[n] = g[n]
  BY <1>2, <1>3, FeedsAlike
<1>5. f[n] \in SUBSET C!Word
  BY <1>2 DEF Feeds
<1> QED
  BY <1>2, <1>3, <1>4, <1>5

LEMMA RemainderGrows ==
  ASSUME NEW bytes \in Seq(SUBSET C!Byte), NEW v \in SUBSET C!Byte
  PROVE  /\ Append(bytes, v) \in Seq(SUBSET C!Byte)
         /\ C!Remainder(Append(bytes, v)) = C!After(C!Remainder(bytes), v)
<1>1. PICK n \in Nat : Len(bytes) = n
  BY LenProperties
<1>2. PICK longer : longer = Append(bytes, v)
  OBVIOUS
<1>3. /\ longer \in Seq(SUBSET C!Byte) /\ Len(longer) = n + 1 /\ longer[n + 1] = v
      /\ \A k \in 1..n : bytes[k] = longer[k]
  BY <1>1, <1>2, AppendProperties
<1>4. PICK m \in Nat : m = n + 1 /\ m - 1 = n
  OBVIOUS
<1>5. PICK f : Feeds(f, bytes, n) /\ C!Remainder(bytes) = f[n]
  BY <1>1, RemainderIs
<1>6. PICK g : Feeds(g, longer, m) /\ C!Remainder(longer) = g[m]
  BY <1>3, <1>4, RemainderIs
<1>7. f[n] = g[n]
  BY <1>3, <1>4, <1>5, <1>6, FeedsAlike
<1>8. g[m] = C!After(g[m - 1], longer[m])
  <2>1. m \in 1..m
    BY <1>4
  <2> QED
    BY <1>6, <2>1 DEF Feeds
<1>9. C!Remainder(longer) = C!After(C!Remainder(bytes), v)
  BY <1>3, <1>4, <1>5, <1>6, <1>7, <1>8
<1> QED
  BY <1>2, <1>3, <1>9

LEMMA NothingRemains ==
  <<>> \in Seq(SUBSET C!Byte) /\ C!Remainder(<<>>) = C!Word
<1>1. PICK s \in Seq(SUBSET C!Byte) : s = <<>> /\ Len(s) = 0
  BY EmptySeq
<1>2. PICK f : Feeds(f, s, 0) /\ C!Remainder(s) = f[0]
  BY <1>1, RemainderIs
<1> QED
  BY <1>1, <1>2 DEF Feeds

LEMMA NotNot == \A x \in SUBSET C!Word : C!Not(x) \in SUBSET C!Word /\ C!Not(C!Not(x)) = x
  BY DEF C!Not

\* The crc, the result and the bytes they stand for.
CrcInv ==
    /\ fed \in Seq(SUBSET C!Byte) /\ covered \in Seq(SUBSET C!Byte)
    /\ crc = C!Remainder(fed) /\ result = C!Not(C!Remainder(covered))

LEMMA CrcInvInit == C!Init => CrcInv
<1>1. C!Seeded({}) = C!Word /\ C!Not(C!Word) = {}
  BY DEF C!Seeded, C!Not
<1> QED
  BY <1>1, NothingRemains DEF C!Init, CrcInv

LEMMA CrcInvNext ==
  ASSUME CrcInv, C!Next
  PROVE  CrcInv'
<1>1. /\ fed \in Seq(SUBSET C!Byte) /\ covered \in Seq(SUBSET C!Byte)
      /\ crc = C!Remainder(fed) /\ result = C!Not(C!Remainder(covered))
  BY DEF CrcInv
<1>2. C!Seeded(result) = C!Remainder(covered)
  BY <1>1, CrcIsRemainder, NotNot DEF C!Seeded
<1>3. \A v \in Feed : v \in SUBSET C!Byte
  BY InstanceAssumption DEF C!CrcAssumption
<1>4. CASE C!Continue
  BY <1>1, <1>2, <1>4 DEF C!Continue, CrcInv
<1>5. CASE C!Peek
  BY <1>1, <1>5 DEF C!Peek, CrcInv
<1>6. CASE C!Finish
  <2>1. C!Renewed = C!Word
    BY DEF C!Renewed, C!Seeded, C!Not
  <2> QED
    BY <1>1, <1>6, <2>1, NothingRemains DEF C!Finish, CrcInv
<1>7. ASSUME NEW v \in Feed, C!Put(v) PROVE CrcInv'
  <2>1. Append(fed, v) \in Seq(SUBSET C!Byte) /\ C!Remainder(Append(fed, v)) = C!After(crc, v)
    BY <1>1, <1>3, RemainderGrows
  <2>2. /\ crc' = C!After(crc, v) /\ fed' = Append(fed, v) /\ result' = result /\ covered' = covered
    BY <1>7 DEF C!Put
  <2> QED
    BY <1>1, <2>1, <2>2 DEF CrcInv
<1>8. ASSUME NEW v \in Feed, C!AddIndex(v) PROVE CrcInv'
  <2>1. /\ Append(covered, v) \in Seq(SUBSET C!Byte)
        /\ C!Remainder(Append(covered, v)) = C!After(C!Seeded(result), v)
    BY <1>1, <1>2, <1>3, RemainderGrows
  <2>2. /\ result' = C!Not(C!After(C!Seeded(result), v)) /\ covered' = Append(covered, v)
        /\ crc' = crc /\ fed' = fed
    BY <1>8 DEF C!AddIndex
  <2> QED
    BY <1>1, <2>1, <2>2 DEF CrcInv
<1>9. ASSUME NEW text \in PrettyFunctions, C!TypeHash(text) PROVE CrcInv'
  <2>1. PICK name \in Seq(DOMAIN Code) : name = C!Name(text)
    BY InstanceAssumption DEF C!CrcAssumption
  <2>2. C!BytesOf(name) \in Seq(SUBSET C!Byte)
    <3>1. PICK n \in Nat : Len(name) = n
      BY LenProperties
    <3>2. \A i \in 1..n : Code[name[i]] \in SUBSET C!Byte
      <4> TAKE i \in 1..n
      <4>1. name[i] \in DOMAIN Code
        BY <3>1, ElementOfSeq
      <4> QED
        BY <4>1, InstanceAssumption DEF C!CrcAssumption
    <3>3. C!BytesOf(name) \in [1..n -> SUBSET C!Byte]
      BY <3>1, <3>2 DEF C!BytesOf
    <3> QED
      BY <3>3
  <2>3. /\ result' = C!Not(C!CrcOf(C!BytesOf(name))) /\ covered' = C!BytesOf(name)
        /\ crc' = crc /\ fed' = fed
    BY <1>9, <2>1 DEF C!TypeHash
  <2> QED
    BY <1>1, <2>2, <2>3, CrcIsRemainder DEF CrcInv
<1> QED
  BY <1>4, <1>5, <1>6, <1>7, <1>8, <1>9 DEF C!Next

LEMMA CrcInvariant == DigestsSpec => []CrcInv
<1>1. DigestsInit => CrcInv
  BY CrcInvInit DEF DigestsInit
<1>2. CrcInv /\ [DigestsNext]_<<digest, vars, crcVars, infoVars>> => CrcInv'
  <2> SUFFICES ASSUME CrcInv, [DigestsNext]_<<digest, vars, crcVars, infoVars>> PROVE CrcInv'
    OBVIOUS
  <2>1. CASE C!Next
    BY <2>1, CrcInvNext
  <2>2. CASE UNCHANGED crcVars
    BY <2>2 DEF crcVars, CrcInv
  <2> QED
    BY <2>1, <2>2 DEF DigestsNext
<1> QED
  BY <1>1, <1>2, PTL DEF DigestsSpec

\* However a stream is cut, its crc, computed byte by byte with the table, is the remainder
\* of all its bytes' bits, for every polynomial and word size.
THEOREM CrcOfAllBytes == DigestsSpec => []CrcOfTheWhole
<1>1. CrcInv => CrcOfTheWhole
  BY DEF CrcInv, CrcOfTheWhole, C!CrcOfTheWhole
<1> QED
  BY <1>1, CrcInvariant, PTL
===============================================================================
