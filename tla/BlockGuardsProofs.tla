------------------------- MODULE BlockGuardsProofs -------------------------
(***************************************************************************)
(* Theorems about BlockStore and BlockGuards.  First the stores, for any   *)
(* number of objects, any block sizes and any width of size_t: memory is   *)
(* neither leaked nor shared nor touched where it is not allocated, as     *)
(* long as the application neither moves objects that hold memory, nor     *)
(* sets a capacity of 0, nor asks for one whose bytes wrap size_t.  Then,  *)
(* for any finite number of guards of any class, what it means for the     *)
(* guards.                                                                 *)
(***************************************************************************)
EXTENDS BlockGuards, SequenceTheorems, FiniteSetTheorems, TLAPS

(***************************************************************************)
(* Arithmetic of size_t: what realloc does not refuse was not wrapped.     *)
(***************************************************************************)

LEMMA Products ==
  ASSUME NEW s \in Stores, NEW n \in Nat
  PROVE  /\ BlockSize[s] * n \in Nat /\ (BlockSize[s] * n) \div BlockSize[s] = n
         /\ BlockSize[s] * n < SizeValues => Bytes(s, n) = BlockSize[s] * n
         /\ BlockSize[s] * 1 < SizeValues
         /\ n # 0 => BlockSize[s] * n # 0
<1>1. /\ BlockSize[s] \in Nat \ {0} /\ BlockSize[s] < SizeValues /\ SizeValues \in Nat
  BY StoreAssumption
<1>2. PICK k \in Nat \ {0} : k = BlockSize[s]
  BY <1>1
<1>3. k * n \in Nat /\ (k * n) \div k = n
  OBVIOUS
<1>4. k * n < SizeValues => (k * n) % SizeValues = k * n
  BY <1>1, <1>2, <1>3
<1>5. k * 1 < SizeValues
  BY <1>1, <1>2
<1>6. n # 0 => k * n # 0
  OBVIOUS
<1> QED
  BY <1>2, <1>3, <1>4, <1>5, <1>6 DEF Bytes

LEMMA Doubled ==
  ASSUME NEW s \in Stores, NEW n \in Nat, BlockSize[s] * n <= HeapMax
  PROVE  (2 * n) % SizeValues = 2 * n /\ BlockSize[s] * (2 * n) < SizeValues
<1>1. /\ BlockSize[s] \in Nat \ {0} /\ SizeValues \in Nat /\ HeapMax \in Nat /\ 2 * HeapMax < SizeValues
  BY StoreAssumption
<1>2. PICK k \in Nat \ {0} : k = BlockSize[s]
  BY <1>1
<1>3. k * n <= HeapMax
  BY <1>2
<1>4. k * (2 * n) < SizeValues /\ 2 * n < SizeValues
  BY <1>1, <1>3
<1>5. (2 * n) % SizeValues = 2 * n
  BY <1>1, <1>4
<1> QED
  BY <1>2, <1>4, <1>5

(***************************************************************************)
(* The inductive invariant.  MemoryOwned speaks of the blocks there are;   *)
(* it also takes that keys handed out are below the capacity, that the     *)
(* bytes of a capacity were not refused, and that free blocks are zero.    *)
(***************************************************************************)

StoreTypes ==
    /\ life \in [Stores -> {"none", "alive", "destroyed"}]
    /\ mem \in [Stores -> Addresses \cup {NullPtr}]
    /\ length \in [Stores -> Nat] /\ capacity \in [Stores -> Nat]
    /\ loaded \in Values /\ undefined = FALSE /\ wrapped = FALSE

\* What is allocated is held, by one object each.
HeapHeld ==
    /\ DOMAIN heap \subseteq Addresses
    /\ \A a \in DOMAIN heap : \E s \in Stores : mem[s] = a
    /\ \A s, r \in Stores : mem[s] = mem[r] => s = r \/ mem[s] = NullPtr

StoreBlocks(s) ==
    /\ life[s] # "alive" => mem[s] = NullPtr
    /\ life[s] = "none" => length[s] = 0 /\ capacity[s] = 0
    /\ life[s] = "alive" => length[s] <= capacity[s] /\ BlockSize[s] * capacity[s] <= HeapMax
    /\ life[s] = "alive" /\ mem[s] = NullPtr => capacity[s] = 0
    /\ mem[s] # NullPtr =>
          /\ mem[s] \in DOMAIN heap /\ heap[mem[s]] \in [1..capacity[s] -> Values]
          /\ \A i \in 1..capacity[s] : i > length[s] => heap[mem[s]][i] = Zero

StoreInv == StoreTypes /\ HeapHeld /\ \A s \in Stores : StoreBlocks(s)

\* The blocks of the keys handed out stay as they are.
BlocksKept == \A s \in Stores : \A i \in 1..length[s] : Contents(s)'[i] = Contents(s)[i]

LEMMA ContentsOf ==
  ASSUME StoreInv, NEW s \in Stores
  PROVE  /\ mem[s] = NullPtr => Contents(s) = <<>>
         /\ mem[s] # NullPtr => Contents(s) = heap[mem[s]]
         /\ life[s] = "alive" => Contents(s) \in [1..capacity[s] -> Values] /\ Len(Contents(s)) = capacity[s]
         /\ life[s] # "alive" => Len(Contents(s)) = 0
<1>1. NullPtr \notin DOMAIN heap
  BY StoreAssumption DEF StoreInv, HeapHeld
<1>2. mem[s] = NullPtr => Contents(s) = <<>>
  BY <1>1 DEF Contents
<1>3. mem[s] # NullPtr => Contents(s) = heap[mem[s]]
  BY DEF Contents, StoreInv, StoreBlocks
<1>4. <<>> \in [1..0 -> Values] /\ Len(<<>>) = 0
  OBVIOUS
<1>5. capacity[s] \in Nat
  BY DEF StoreInv, StoreTypes
<1>6. ASSUME life[s] = "alive" PROVE Contents(s) \in [1..capacity[s] -> Values]
  BY <1>2, <1>3, <1>4, <1>6 DEF StoreInv, StoreBlocks
<1>7. ASSUME life[s] = "alive" PROVE Len(Contents(s)) = capacity[s]
  <2>1. PICK n \in Nat : n = capacity[s]
    BY <1>5
  <2>2. \A f \in [1..n -> Values] : Len(f) = n
    OBVIOUS
  <2> QED
    BY <1>6, <1>7, <2>1, <2>2
<1> QED
  BY <1>2, <1>3, <1>4, <1>6, <1>7 DEF StoreInv, StoreBlocks

LEMMA OwnedIsImplied == StoreInv => MemoryOwned
<1> SUFFICES ASSUME StoreInv PROVE MemoryOwned
  OBVIOUS
<1>1. NoUndefined
  BY DEF NoUndefined, StoreInv, StoreTypes
<1>2. DOMAIN heap = {mem[s] : s \in {r \in Stores : life[r] = "alive"}} \ {NullPtr}
  <2>1. NullPtr \notin DOMAIN heap
    BY StoreAssumption DEF StoreInv, HeapHeld
  <2>2. \A a \in DOMAIN heap : \E s \in Stores : mem[s] = a /\ life[s] = "alive"
    BY <2>1 DEF StoreInv, HeapHeld, StoreBlocks
  <2>3. \A s \in Stores : mem[s] # NullPtr => mem[s] \in DOMAIN heap
    BY DEF StoreInv, StoreBlocks
  <2> QED
    BY <2>1, <2>2, <2>3
<1>3. \A s \in Stores : Len(Contents(s)) = IF life[s] = "alive" THEN capacity[s] ELSE 0
  BY ContentsOf
<1> QED
  BY <1>1, <1>2, <1>3 DEF MemoryOwned, StoreInv, HeapHeld

LEMMA StoreInit == Init => StoreInv
<1> SUFFICES ASSUME Init PROVE StoreInv
  OBVIOUS
<1>1. StoreTypes /\ HeapHeld
  BY StoreAssumption DEF Init, StoreTypes, HeapHeld
<1>2. ASSUME NEW s \in Stores PROVE StoreBlocks(s)
  BY DEF Init, StoreBlocks
<1> QED
  BY <1>1, <1>2 DEF StoreInv

LEMMA ConstructInv ==
  ASSUME StoreInv, NEW s \in Stores, Construct(s)
  PROVE  StoreInv' /\ BlocksKept
<1>1. /\ life[s] = "none" /\ life' = [life EXCEPT ![s] = "alive"]
      /\ UNCHANGED <<mem, length, capacity, heap, loaded, undefined, wrapped>>
  BY DEF Construct, fields
<1>2. StoreTypes' /\ HeapHeld'
  BY <1>1 DEF StoreInv, StoreTypes, HeapHeld
<1>3. ASSUME NEW r \in Stores PROVE StoreBlocks(r)'
  <2>1. CASE r = s
    <3>1. capacity[s] = 0 /\ length[s] = 0 /\ mem[s] = NullPtr
      BY <1>1 DEF StoreInv, StoreBlocks
    <3>2. BlockSize[s] * 0 <= HeapMax
      <4>1. BlockSize[s] \in Nat /\ HeapMax \in Nat
        BY StoreAssumption
      <4> QED
        BY <4>1
    <3> QED
      BY <1>1, <2>1, <3>1, <3>2 DEF StoreBlocks
  <2>2. CASE r # s
    BY <1>1, <2>2 DEF StoreInv, StoreTypes, StoreBlocks
  <2> QED
    BY <2>1, <2>2
<1> QED
  BY <1>1, <1>2, <1>3 DEF StoreInv, BlocksKept, Contents

\* What realloc and zeroOutFreeTailMemory leave.
LEMMA Reallocation ==
  ASSUME StoreInv, NEW s \in Stores, life[s] = "alive", NEW n \in Nat, n # 0,
         length[s] <= n, BlockSize[s] * n < SizeValues, Reallocate(s, n)
  PROVE  \E a \in Addresses, blocks \in [1..n -> Values] :
            /\ mem' = [mem EXCEPT ![s] = a] /\ capacity' = [capacity EXCEPT ![s] = n]
            /\ undefined' = FALSE /\ wrapped' = FALSE /\ BlockSize[s] * n <= HeapMax
            /\ a = mem[s] \/ a \notin DOMAIN heap
            /\ heap' = [b \in (DOMAIN heap \ {mem[s]}) \cup {a} |-> IF b = a THEN blocks ELSE heap[b]]
            /\ \A i \in 1..n : i > length[s] => blocks[i] = Zero
            /\ \A i \in 1..length[s] : blocks[i] = Contents(s)[i]
<1>1. Bytes(s, n) = BlockSize[s] * n /\ Bytes(s, n) \div BlockSize[s] = n /\ Bytes(s, n) # 0
  BY Products
<1>2. PICK a \in Addresses, raw \in Reallocated(Contents(s), n) :
         /\ a = mem[s] \/ a \notin DOMAIN heap
         /\ mem' = [mem EXCEPT ![s] = a]
         /\ heap' = [b \in (DOMAIN heap \ {mem[s]}) \cup {a} |->
                        IF b = a THEN ZeroOutFreeTailMemory(raw, s) ELSE heap[b]]
  BY <1>1 DEF Reallocate
<1>3. PICK blocks : blocks = ZeroOutFreeTailMemory(raw, s)
  OBVIOUS
<1>4. PICK l \in Nat : l = length[s]
  BY DEF StoreInv, StoreTypes
<1>5. PICK k \in Nat : k = capacity[s] /\ l <= k
  BY <1>4 DEF StoreInv, StoreTypes, StoreBlocks
<1>o. PICK old : old = Contents(s) /\ old \in [1..k -> Values]
  BY <1>5, ContentsOf
<1>6. raw \in [1..n -> Values] /\ \A i \in 1..k : i <= n => raw[i] = old[i]
  BY <1>2, <1>o DEF Reallocated
<1>7. blocks = [i \in 1..n |-> IF i > l THEN Zero ELSE raw[i]]
  BY <1>3, <1>4, <1>6 DEF ZeroOutFreeTailMemory
<1>8. /\ blocks \in [1..n -> Values] /\ \A i \in 1..n : i > l => blocks[i] = Zero
      /\ \A i \in 1..l : blocks[i] = old[i]
  <2>1. Zero \in Values
    BY StoreAssumption
  <2>2. \A i \in 1..l : i \in 1..n /\ i \in 1..k /\ i <= n /\ ~(i > l)
    BY <1>4, <1>5
  <2> QED
    BY <1>6, <1>7, <2>1, <2>2
<1>9. capacity' = [capacity EXCEPT ![s] = n] /\ BlockSize[s] * n <= HeapMax
  BY <1>1 DEF Reallocate
<1>10. undefined' = FALSE
  <2>1. ~Dangling(s) /\ Bytes(s, n) # 0 /\ ~(Bytes(s, n) \div BlockSize[s] < length[s])
    BY <1>1, <1>4 DEF Dangling, StoreInv, StoreBlocks
  <2>2. undefined' = (\/ Dangling(s) \/ Bytes(s, n) \div BlockSize[s] < length[s]
                      \/ (Bytes(s, n) = 0 /\ mem[s] # NullPtr))
    BY DEF Reallocate
  <2> QED
    BY <2>1, <2>2, Zenon
<1>11. wrapped' = FALSE
  <2>1. wrapped' = (wrapped \/ BlockSize[s] * n >= SizeValues) /\ wrapped = FALSE
    BY DEF Reallocate, StoreInv, StoreTypes
  <2>2. PICK m \in Nat : m = BlockSize[s] * n
    BY Products
  <2>3. ~(m >= SizeValues)
    BY <2>2, StoreAssumption
  <2>4. ~(BlockSize[s] * n >= SizeValues)
    BY <2>2, <2>3, Zenon
  <2> QED
    BY <2>1, <2>4, Zenon
<1> QED
  BY <1>2, <1>3, <1>4, <1>o, <1>8, <1>9, <1>10, <1>11

\* Growing or shrinking s to n blocks, with l keys handed out after it.
LEMMA ReallocateInv ==
  ASSUME StoreInv, NEW s \in Stores, life[s] = "alive", NEW n \in Nat, n # 0,
         length[s] <= n, BlockSize[s] * n < SizeValues, Reallocate(s, n),
         NEW l \in Nat, length' = [length EXCEPT ![s] = l], length[s] <= l, l <= n,
         UNCHANGED <<life, loaded>>
  PROVE  /\ StoreInv' /\ BlocksKept
         /\ \A i \in 1..l : i > length[s] => Contents(s)'[i] = Zero
<1>1. PICK a \in Addresses, blocks \in [1..n -> Values] :
         /\ mem' = [mem EXCEPT ![s] = a] /\ capacity' = [capacity EXCEPT ![s] = n]
         /\ undefined' = FALSE /\ wrapped' = FALSE /\ BlockSize[s] * n <= HeapMax
         /\ a = mem[s] \/ a \notin DOMAIN heap
         /\ heap' = [b \in (DOMAIN heap \ {mem[s]}) \cup {a} |-> IF b = a THEN blocks ELSE heap[b]]
         /\ \A i \in 1..n : i > length[s] => blocks[i] = Zero
         /\ \A i \in 1..length[s] : blocks[i] = Contents(s)[i]
  BY Reallocation
<1>2. a # NullPtr
  BY StoreAssumption
<1>3. StoreTypes'
  BY <1>1 DEF StoreInv, StoreTypes
<1>4. /\ mem'[s] = a /\ heap'[a] = blocks /\ capacity'[s] = n /\ length'[s] = l /\ a \in DOMAIN heap'
      /\ \A r \in Stores : r # s => /\ mem'[r] = mem[r] /\ capacity'[r] = capacity[r]
                                   /\ length'[r] = length[r]
  BY <1>1 DEF StoreInv, StoreTypes
<1>5. \A r \in Stores : r # s /\ mem[r] # NullPtr =>
         mem[r] # a /\ mem[r] \in DOMAIN heap' /\ heap'[mem[r]] = heap[mem[r]]
  BY <1>1 DEF StoreInv, HeapHeld, StoreBlocks
<1>6. HeapHeld'
  <2>1. DOMAIN heap' = (DOMAIN heap \ {mem[s]}) \cup {a}
    BY <1>1
  <2>2. \A r \in Stores : r # s => mem'[r] # a
    BY <1>2, <1>4, <1>5
  <2>3. \A b \in DOMAIN heap' : \E r \in Stores : mem'[r] = b
    BY <1>4, <2>1 DEF StoreInv, HeapHeld
  <2> QED
    BY <1>4, <2>1, <2>2, <2>3 DEF StoreInv, HeapHeld
<1>7. \A r \in Stores : StoreBlocks(r)'
  <2> SUFFICES ASSUME NEW r \in Stores PROVE StoreBlocks(r)'
    OBVIOUS
  <2>1. CASE r = s
    <3>1. \A i \in 1..n : i > l => blocks[i] = Zero
      <4>1. PICK k \in Nat : k = length[s]
        BY DEF StoreInv, StoreTypes
      <4>2. \A i \in 1..n : i > l => i > k
        BY <4>1
      <4> QED
        BY <1>1, <4>1, <4>2
    <3> QED
      BY <1>1, <1>2, <1>4, <2>1, <3>1 DEF StoreBlocks
  <2>2. CASE r # s
    BY <1>4, <1>5, <2>2 DEF StoreInv, StoreBlocks
  <2> QED
    BY <2>1, <2>2
<1>8. StoreInv'
  BY <1>3, <1>6, <1>7 DEF StoreInv
<1>9. Contents(s)' = blocks
  BY <1>4 DEF Contents
<1>10. ASSUME NEW r \in Stores, r # s PROVE Contents(r)' = Contents(r)
  <2>1. CASE mem[r] = NullPtr
    BY <1>4, <1>8, <1>10, <2>1, ContentsOf, StoreAssumption DEF Contents, StoreInv, HeapHeld
  <2>2. CASE mem[r] # NullPtr
    BY <1>4, <1>5, <1>10, <2>2 DEF Contents, StoreInv, StoreBlocks
  <2> QED
    BY <2>1, <2>2
<1>11. BlocksKept
  BY <1>1, <1>9, <1>10 DEF BlocksKept
<1>12. \A i \in 1..l : i \in 1..n
  OBVIOUS
<1> QED
  BY <1>1, <1>8, <1>9, <1>11, <1>12

\* No capacity that the application asks for wraps.
RequestsFit == \A n \in Requests, s \in Stores : BlockSize[s] * n < SizeValues

LEMMA SetCapacityInv ==
  ASSUME StoreInv, NEW s \in Stores, NEW n \in Requests, n # 0, SetCapacity(s, n),
         RequestsFit \/ ~wrapped'
  PROVE  StoreInv' /\ BlocksKept
<1>1. PICK k \in Nat : k = n
  BY StoreAssumption
<1>2. BlockSize[s] * n < SizeValues
  <2>1. CASE RequestsFit
    BY <2>1 DEF RequestsFit
  <2>2. CASE ~wrapped'
    <3>1. PICK m \in Nat : m = BlockSize[s] * n
      BY <1>1, Products
    <3>2. ~(BlockSize[s] * n >= SizeValues)
      BY <2>2 DEF SetCapacity, Reallocate
    <3>3. ~(m >= SizeValues)
      BY <3>1, <3>2, Zenon
    <3>4. m < SizeValues
      BY <3>3, StoreAssumption
    <3> QED
      BY <3>1, <3>4
  <2> QED
    BY <2>1, <2>2
<1>3. PICK l \in Nat : l = length[s]
  BY DEF StoreInv, StoreTypes
<1>4. length' = [length EXCEPT ![s] = l]
  BY <1>3 DEF SetCapacity, StoreInv, StoreTypes
<1>5. l <= k /\ l <= l /\ life[s] = "alive" /\ Reallocate(s, n) /\ UNCHANGED <<life, loaded>>
  BY <1>1, <1>3 DEF SetCapacity, Alive
<1> QED
  BY <1>1, <1>2, <1>3, <1>4, <1>5, ReallocateInv

\* The new key is the old length, and its block is zero.
LEMMA AllocBlockInv ==
  ASSUME StoreInv, NEW s \in Stores, AllocBlock(s)
  PROVE  StoreInv' /\ BlocksKept /\ Contents(s)'[length[s] + 1] = Zero
<1>1. PICK l \in Nat, c \in Nat : l = length[s] /\ c = capacity[s]
  BY DEF StoreInv, StoreTypes
<1>2. /\ life[s] = "alive" /\ length' = [length EXCEPT ![s] = l + 1] /\ UNCHANGED <<life, loaded>>
      /\ l <= c /\ BlockSize[s] * c <= HeapMax
  BY <1>1 DEF AllocBlock, Alive, StoreInv, StoreBlocks
<1>3. CASE l = c
  <2>1. PICK n \in Nat : /\ n = IF c # 0 THEN (2 * c) % SizeValues ELSE 1
                         /\ n # 0 /\ l + 1 <= n /\ BlockSize[s] * n < SizeValues
    <3>1. CASE c = 0
      <4>1. BlockSize[s] * 1 < SizeValues /\ 1 \in Nat /\ l + 1 <= 1
        BY <1>1, <1>3, <3>1, Products
      <4> QED
        BY <3>1, <4>1
    <3>2. CASE c # 0
      <4>1. (2 * c) % SizeValues = 2 * c /\ BlockSize[s] * (2 * c) < SizeValues
        BY <1>1, <1>2, Doubled
      <4>2. 2 * c \in Nat /\ 2 * c # 0 /\ l + 1 <= 2 * c
        BY <1>1, <1>3, <3>2
      <4> QED
        BY <3>2, <4>1, <4>2
    <3> QED
      BY <3>1, <3>2
  <2>2. Reallocate(s, n)
    BY <1>1, <1>3, <2>1 DEF AllocBlock, Grown
  <2>3. l + 1 \in Nat /\ l <= l + 1 /\ l <= n /\ l + 1 \in 1..l + 1 /\ l + 1 > l
    BY <1>1, <2>1
  <2> QED
    BY <1>1, <1>2, <2>1, <2>2, <2>3, ReallocateInv
<1>4. CASE l # c
  <2>1. /\ l + 1 <= c /\ l + 1 \in 1..c /\ l + 1 > l /\ \A i \in 1..c : i > l + 1 => i > l
    BY <1>1, <1>2, <1>4
  <2>2. UNCHANGED <<mem, capacity, heap, undefined, wrapped>>
    BY <1>1, <1>4 DEF AllocBlock
  <2>3. StoreTypes' /\ HeapHeld'
    BY <1>1, <1>2, <2>2 DEF StoreInv, StoreTypes, HeapHeld
  <2>4. ASSUME NEW r \in Stores PROVE StoreBlocks(r)'
    <3>1. CASE r = s
      <4>1. length'[s] = l + 1
        BY <1>2 DEF StoreInv, StoreTypes
      <4> QED
        BY <1>1, <1>2, <2>1, <2>2, <3>1, <4>1 DEF StoreInv, StoreBlocks
    <3>2. CASE r # s
      BY <1>2, <2>2, <3>2 DEF StoreInv, StoreTypes, StoreBlocks
    <3> QED
      BY <3>1, <3>2
  <2>5. Contents(s)'[l + 1] = Zero
    <3>1. mem[s] # NullPtr
      BY <1>1, <1>2, <2>1 DEF StoreInv, StoreBlocks
    <3>2. heap[mem[s]][l + 1] = Zero /\ mem[s] \in DOMAIN heap
      BY <1>1, <2>1, <3>1 DEF StoreInv, StoreBlocks
    <3> QED
      BY <2>2, <3>2 DEF Contents
  <2> QED
    BY <1>1, <2>2, <2>3, <2>4, <2>5 DEF StoreInv, BlocksKept, Contents
<1> QED
  BY <1>3, <1>4

\* A key below the length has its block.
LEMMA KeyHasBlock ==
  ASSUME StoreInv, NEW s \in Stores, NEW key \in Nat, Accesses(s, key)
  PROVE  /\ undefined' = FALSE /\ life[s] = "alive"
         /\ mem[s] # NullPtr /\ mem[s] \in DOMAIN heap /\ Contents(s) = heap[mem[s]]
         /\ key + 1 \in 1..length[s] /\ key + 1 \in 1..capacity[s]
         /\ heap[mem[s]] \in [1..capacity[s] -> Values]
<1>1. PICK l \in Nat, c \in Nat : l = length[s] /\ c = capacity[s]
  BY DEF StoreInv, StoreTypes
<1>2. life[s] = "alive" /\ key < l /\ l <= c
  BY <1>1 DEF Accesses, Alive, StoreInv, StoreBlocks
<1>3. Len(Contents(s)) = c
  BY <1>1, <1>2, ContentsOf
<1>4. undefined' = FALSE
  <2>1. undefined' = (key >= Len(Contents(s)))
    BY DEF Accesses
  <2>2. PICK n : n = Len(Contents(s))
    OBVIOUS
  <2>3. ~(key >= n)
    BY <1>1, <1>2, <1>3, <2>2
  <2>4. (key >= n) = FALSE
    BY <2>3
  <2> QED
    BY <2>1, <2>2, <2>4, Zenon
<1>5. c # 0 /\ key + 1 \in 1..l /\ key + 1 \in 1..c
  BY <1>1, <1>2
<1>6. mem[s] # NullPtr
  BY <1>1, <1>2, <1>5 DEF StoreInv, StoreBlocks
<1> QED
  BY <1>1, <1>2, <1>4, <1>5, <1>6, ContentsOf DEF StoreInv, StoreBlocks

LEMMA LoadInv ==
  ASSUME StoreInv, NEW s \in Stores, NEW key \in Nat, Load(s, key)
  PROVE  /\ StoreInv' /\ loaded' = Contents(s)[key + 1]
         /\ UNCHANGED <<life, mem, length, capacity, heap, wrapped>>
<1>1. Accesses(s, key)
  BY DEF Load
<1>2. /\ undefined' = FALSE /\ Contents(s) = heap[mem[s]] /\ key + 1 \in 1..capacity[s]
      /\ heap[mem[s]] \in [1..capacity[s] -> Values]
  BY <1>1, KeyHasBlock
<1>3. loaded' = heap[mem[s]][key + 1] /\ UNCHANGED <<life, mem, length, capacity, heap, wrapped>>
  BY <1>2 DEF Load, fields
<1>4. loaded' \in Values
  BY <1>2, <1>3
<1> QED
  BY <1>2, <1>3, <1>4 DEF StoreInv, StoreTypes, HeapHeld, StoreBlocks

\* Of all the blocks, only that of the key changes.
LEMMA StoreStepInv ==
  ASSUME StoreInv, NEW s \in Stores, NEW key \in Nat, NEW v \in Values, Store(s, key, v)
  PROVE  /\ StoreInv'
         /\ Contents(s)'[key + 1] = v
         /\ \A r \in Stores : \A i \in 1..length[r] :
               r # s \/ i # key + 1 => Contents(r)'[i] = Contents(r)[i]
         /\ UNCHANGED <<life, mem, length, capacity, loaded, wrapped>>
<1>1. Accesses(s, key)
  BY DEF Store
<1>2. /\ undefined' = FALSE /\ mem[s] # NullPtr /\ mem[s] \in DOMAIN heap
      /\ key + 1 \in 1..length[s] /\ key + 1 \in 1..capacity[s]
      /\ heap[mem[s]] \in [1..capacity[s] -> Values]
  BY <1>1, KeyHasBlock
<1>3. PICK i : i = key + 1
  OBVIOUS
<1>4. PICK blocks : blocks = [heap[mem[s]] EXCEPT ![i] = v]
  OBVIOUS
<1>5. heap' = [heap EXCEPT ![mem[s]] = blocks] /\ UNCHANGED <<life, mem, length, capacity, loaded, wrapped>>
  BY <1>2, <1>3, <1>4 DEF Store, fields
<1>6. /\ DOMAIN heap' = DOMAIN heap /\ heap'[mem[s]] = blocks
      /\ \A a \in DOMAIN heap : a # mem[s] => heap'[a] = heap[a]
  BY <1>2, <1>5
<1>7. /\ blocks \in [1..capacity[s] -> Values] /\ blocks[i] = v
      /\ \A j \in 1..capacity[s] : j # i => blocks[j] = heap[mem[s]][j]
  BY <1>2, <1>3, <1>4
<1>8. \A r \in Stores : r # s => mem[r] # mem[s]
  BY <1>2 DEF StoreInv, HeapHeld
<1>9. StoreTypes' /\ HeapHeld'
  BY <1>2, <1>5, <1>6 DEF StoreInv, StoreTypes, HeapHeld
<1>10. ASSUME NEW r \in Stores PROVE StoreBlocks(r)'
  <2>1. CASE r = s
    <3>1. PICK l \in Nat : l = length[s]
      BY DEF StoreInv, StoreTypes
    <3>2. \A j \in 1..capacity[s] : j > l => j # i
      BY <1>2, <1>3, <3>1
    <3>3. \A j \in 1..capacity[s] : j > l => blocks[j] = Zero
      BY <1>2, <1>7, <3>1, <3>2 DEF StoreInv, StoreBlocks
    <3> QED
      BY <1>2, <1>5, <1>6, <1>7, <2>1, <3>1, <3>3 DEF StoreInv, StoreBlocks
  <2>2. CASE r # s
    BY <1>5, <1>6, <1>8, <2>2 DEF StoreInv, StoreBlocks
  <2> QED
    BY <2>1, <2>2
<1>11. Contents(s)' = blocks /\ Contents(s) = heap[mem[s]]
  BY <1>2, <1>5, <1>6 DEF Contents
<1>12. \A r \in Stores : r # s => Contents(r)' = Contents(r)
  BY <1>5, <1>6, <1>8 DEF Contents
<1>13. \A j \in 1..length[s] : j \in 1..capacity[s]
  <2>1. PICK l \in Nat, c \in Nat : l = length[s] /\ c = capacity[s]
    BY DEF StoreInv, StoreTypes
  <2>2. l <= c
    BY <1>2, <2>1, KeyHasBlock, <1>1 DEF StoreInv, StoreBlocks
  <2> QED
    BY <2>1, <2>2
<1> QED
  BY <1>3, <1>5, <1>7, <1>9, <1>10, <1>11, <1>12, <1>13 DEF StoreInv

LEMMA MoveInv ==
  ASSUME StoreInv, ~MoveFull, NEW s \in Stores, NEW r \in Stores, Move(s, r)
  PROVE  StoreInv'
<1>1. /\ life[s] = "alive" /\ life[r] = "none" /\ mem[s] = NullPtr /\ mem[r] = NullPtr
      /\ capacity[s] = 0 /\ length[s] = 0 /\ capacity[r] = 0 /\ length[r] = 0
  <2>1. life[s] = "alive" /\ life[r] = "none" /\ mem[s] = NullPtr
    BY DEF Move, Alive
  <2>2. capacity[s] = 0 /\ length[s] <= capacity[s] /\ length[s] \in Nat
    BY <2>1 DEF StoreInv, StoreTypes, StoreBlocks
  <2> QED
    BY <2>1, <2>2 DEF StoreInv, StoreBlocks
<1>2. /\ life' = [life EXCEPT ![r] = "alive"]
      /\ UNCHANGED <<mem, length, capacity, heap, loaded, undefined, wrapped>>
  BY <1>1 DEF Move, StoreInv, StoreTypes
<1>3. StoreTypes' /\ HeapHeld'
  BY <1>2 DEF StoreInv, StoreTypes, HeapHeld
<1>4. ASSUME NEW x \in Stores PROVE StoreBlocks(x)'
  <2>1. CASE x = r
    <3>1. BlockSize[r] * 0 <= HeapMax
      <4>1. BlockSize[r] \in Nat /\ HeapMax \in Nat
        BY StoreAssumption
      <4> QED
        BY <4>1
    <3> QED
      BY <1>1, <1>2, <2>1, <3>1 DEF StoreBlocks
  <2>2. CASE x # r
    BY <1>2, <2>2 DEF StoreInv, StoreTypes, StoreBlocks
  <2> QED
    BY <2>1, <2>2
<1> QED
  BY <1>3, <1>4 DEF StoreInv

\* The destructors of a set of objects.
LEMMA DestroyInv ==
  ASSUME StoreInv, NEW D \in SUBSET Stores, \A s \in D : life[s] = "alive",
         life' = [s \in Stores |-> IF s \in D THEN "destroyed" ELSE life[s]],
         mem' = [s \in Stores |-> IF s \in D THEN NullPtr ELSE mem[s]],
         heap' = [a \in DOMAIN heap \ {mem[s] : s \in D} |-> heap[a]],
         UNCHANGED <<length, capacity, loaded, wrapped>>, undefined' = FALSE
  PROVE  StoreInv'
<1>1. \A s \in Stores \ D : mem[s] # NullPtr => mem[s] \in DOMAIN heap' /\ heap'[mem[s]] = heap[mem[s]]
  <2> SUFFICES ASSUME NEW s \in Stores \ D, mem[s] # NullPtr
               PROVE  mem[s] \in DOMAIN heap \ {mem[r] : r \in D}
    OBVIOUS
  <2>1. mem[s] \in DOMAIN heap
    BY DEF StoreInv, StoreBlocks
  <2>2. \A r \in D : mem[r] # mem[s]
    BY DEF StoreInv, HeapHeld
  <2> QED
    BY <2>1, <2>2
<1>2. StoreTypes'
  BY DEF StoreInv, StoreTypes
<1>3. HeapHeld'
  <2>1. DOMAIN heap' \subseteq DOMAIN heap
    OBVIOUS
  <2>2. \A a \in DOMAIN heap' : \E s \in Stores \ D : mem[s] = a
    BY DEF StoreInv, HeapHeld
  <2>3. \A a \in DOMAIN heap' : \E s \in Stores : mem'[s] = a
    BY <2>2
  <2>4. \A s, r \in Stores : mem'[s] = mem'[r] => s = r \/ mem'[s] = NullPtr
    BY DEF StoreInv, HeapHeld
  <2> QED
    BY <2>1, <2>3, <2>4 DEF StoreInv, HeapHeld
<1>4. ASSUME NEW s \in Stores PROVE StoreBlocks(s)'
  <2>1. CASE s \in D
    BY <2>1 DEF StoreBlocks
  <2>2. CASE s \notin D
    <3>1. mem'[s] = mem[s] /\ life'[s] = life[s]
      BY <2>2
    <3> QED
      BY <1>1, <2>2, <3>1 DEF StoreInv, StoreBlocks
  <2> QED
    BY <2>1, <2>2
<1> QED
  BY <1>2, <1>3, <1>4 DEF StoreInv

\* For objects of any number and size, with no object moved that holds memory and no
\* capacity set to 0: until the bytes of a capacity that the application asks for wrap,
\* nothing is leaked, shared, or touched where it is not allocated, and what doubling
\* asks for does not wrap.
THEOREM Ownership ==
  ASSUME ~MoveFull, 0 \notin Requests
  PROVE  Spec => []MemoryOwned
<1>1. StoreInv /\ ~wrapped' /\ [Next]_vars => StoreInv'
  <2> SUFFICES ASSUME StoreInv, ~wrapped', [Next]_vars PROVE StoreInv'
    OBVIOUS
  <2>1. ASSUME NEW s \in Stores, Construct(s) PROVE StoreInv'
    BY <2>1, ConstructInv
  <2>2. ASSUME NEW s \in Stores, Destroy(s) PROVE StoreInv'
    <3>1. PICK D : D = {s} /\ D \in SUBSET Stores
      OBVIOUS
    <3>2. mem[s] # NullPtr => mem[s] \in DOMAIN heap
      BY DEF StoreInv, StoreBlocks
    <3>3. life[s] = "alive" /\ UNCHANGED <<length, capacity, loaded, wrapped>> /\ undefined' = FALSE
      BY <2>2, <3>2 DEF Destroy, Alive, FreeMemory, Free, Dangling, StoreInv, StoreTypes
    <3>4. /\ life' = [x \in Stores |-> IF x \in D THEN "destroyed" ELSE life[x]]
          /\ mem' = [x \in Stores |-> IF x \in D THEN NullPtr ELSE mem[x]]
      BY <2>2, <3>1 DEF Destroy, FreeMemory, StoreInv, StoreTypes
    <3>5. heap' = [a \in DOMAIN heap \ {mem[x] : x \in D} |-> heap[a]]
      <4>1. {mem[x] : x \in D} = {mem[s]}
        BY <3>1
      <4> QED
        BY <2>2, <4>1 DEF Destroy, FreeMemory, Free, Without
    <3> QED
      BY <3>1, <3>3, <3>4, <3>5, DestroyInv
  <2>3. ASSUME NEW s \in Stores, AllocBlock(s) PROVE StoreInv'
    BY <2>3, AllocBlockInv
  <2>4. ASSUME NEW s \in Stores, NEW n \in Requests, SetCapacity(s, n) PROVE StoreInv'
    BY <2>4, SetCapacityInv
  <2>5. ASSUME NEW s \in Stores, NEW key \in 0..length[s], Load(s, key) PROVE StoreInv'
    BY <2>5, LoadInv
  <2>6. ASSUME NEW s \in Stores, NEW key \in 0..length[s], NEW v \in Values, Store(s, key, v)
        PROVE  StoreInv'
    BY <2>6, StoreStepInv
  <2>7. ASSUME NEW s \in Stores, NEW r \in Stores, Move(s, r) PROVE StoreInv'
    BY <2>7, MoveInv
  <2>8. CASE UNCHANGED vars
    BY <2>8 DEF vars, fields, StoreInv, StoreTypes, HeapHeld, StoreBlocks
  <2> QED
    BY <2>1, <2>2, <2>3, <2>4, <2>5, <2>6, <2>7, <2>8 DEF Next
<1>2. wrapped /\ [Next]_vars => wrapped'
  BY DEF Next, Construct, Destroy, AllocBlock, SetCapacity, Reallocate, Load, Store, Move, vars
<1>3. Init => wrapped \/ StoreInv
  BY StoreInit
<1>4. (wrapped \/ StoreInv) /\ [Next]_vars => (wrapped \/ StoreInv)'
  BY <1>1, <1>2
<1>5. wrapped \/ StoreInv => MemoryOwned
  BY OwnedIsImplied DEF MemoryOwned
<1> QED
  BY <1>3, <1>4, <1>5, PTL DEF Spec

-----------------------------------------------------------------------------
(* Guards.                                                                  *)

(***************************************************************************)
(* The inductive invariant.  A guard's key is below the length of its      *)
(* store, which lives, and no two guards have the same key of a store.     *)
(***************************************************************************)

Stored(g) == Kind[g] # "fake"

StoresManaged ==
    \A size \in DOMAIN stores :
       stores[size] \in Stores /\ life[stores[size]] = "alive" /\ BlockSize[stores[size]] = size

GuardRecord(g) ==
    /\ guards[g] \in [store : Stores \cup {NullPtr}, key : Nat \cup Values]
    /\ Stored(g) => /\ guards[g].store \in Stores /\ life[guards[g].store] = "alive"
                    /\ guards[g].key \in Nat /\ guards[g].key + 1 \in 1..length[guards[g].store]
    /\ ~Stored(g) => guards[g].key \in Values

KeysDiffer ==
    \A g, h \in DOMAIN guards :
       Stored(g) /\ Stored(h) /\ guards[g].store = guards[h].store /\ guards[g].key = guards[h].key => g = h

GuardInv ==
    /\ StoreInv /\ StoresManaged
    /\ DOMAIN guards \subseteq Guards /\ (\A g \in DOMAIN guards : GuardRecord(g)) /\ KeysDiffer
    /\ pointers \in [Pointers -> Values]

\* What block of GuardedBlocks stands for.
BlockOf == [g \in DOMAIN guards |-> Block(g)]

LEMMA BlockValue ==
  ASSUME GuardInv, NEW g \in DOMAIN guards
  PROVE  /\ Block(g) \in Values
         /\ ~Stored(g) => Block(g) = guards[g].key
         /\ Stored(g) => Block(g) = Contents(guards[g].store)[guards[g].key + 1]
<1>1. ~Stored(g) => Block(g) = guards[g].key
  BY DEF Block, Stored
<1>2. Stored(g) => Block(g) = Contents(guards[g].store)[guards[g].key + 1]
  BY DEF Block, Stored
<1>3. ASSUME Stored(g) PROVE Contents(guards[g].store)[guards[g].key + 1] \in Values
  <2>1. PICK s \in Stores, i \in Nat : s = guards[g].store /\ i = guards[g].key + 1
    BY <1>3 DEF GuardInv, GuardRecord
  <2>2. PICK l \in Nat, c \in Nat : l = length[s] /\ c = capacity[s]
    BY DEF GuardInv, StoreInv, StoreTypes
  <2>3. life[s] = "alive" /\ i \in 1..l
    BY <1>3, <2>1, <2>2 DEF GuardInv, GuardRecord
  <2>4. l <= c /\ Contents(s) \in [1..c -> Values]
    BY <2>2, <2>3, ContentsOf DEF GuardInv, StoreInv, StoreBlocks
  <2>5. i \in 1..c
    BY <2>3, <2>4
  <2> QED
    BY <2>1, <2>4, <2>5
<1> QED
  BY <1>1, <1>2, <1>3 DEF GuardInv, GuardRecord

\* The stores change, but not what the guards have there.
LEMMA GuardsKept ==
  ASSUME GuardInv, BlocksKept, guards' = guards
  PROVE  BlockOf' = BlockOf
<1>1. ASSUME NEW g \in DOMAIN guards PROVE Block(g)' = Block(g)
  <2>1. CASE ~Stored(g)
    BY <2>1 DEF Block, Stored
  <2>2. CASE Stored(g)
    <3>1. guards[g].store \in Stores /\ guards[g].key + 1 \in 1..length[guards[g].store]
      BY <2>2 DEF GuardInv, GuardRecord
    <3>2. Contents(guards[g].store)'[guards[g].key + 1] = Contents(guards[g].store)[guards[g].key + 1]
      BY <3>1 DEF BlocksKept
    <3> QED
      BY <2>2, <3>2 DEF Block, Stored
  <2> QED
    BY <2>1, <2>2
<1> QED
  BY <1>1 DEF BlockOf

\* What the records of the guards say of the stores stays true.
LEMMA RecordsKept ==
  ASSUME GuardInv, UNCHANGED <<stores, guards>>, \A s \in Stores : life[s] = "alive" => life'[s] = "alive",
         \A s \in Stores : length'[s] \in Nat /\ length[s] <= length'[s]
  PROVE  StoresManaged' /\ KeysDiffer' /\ \A g \in DOMAIN guards' : GuardRecord(g)'
<1>1. \A s \in Stores : \A i \in 1..length[s] : i \in 1..length'[s]
  <2> SUFFICES ASSUME NEW s \in Stores, NEW i \in 1..length[s] PROVE i \in 1..length'[s]
    OBVIOUS
  <2>1. PICK k \in Nat, l \in Nat : k = length[s] /\ l = length'[s] /\ k <= l
    BY DEF GuardInv, StoreInv, StoreTypes
  <2> QED
    BY <2>1
<1> QED
  BY <1>1 DEF GuardInv, StoresManaged, KeysDiffer, GuardRecord

LEMMA GuardInitInv == GuardInit => GuardInv /\ BlockOf = <<>>
<1> SUFFICES ASSUME GuardInit PROVE GuardInv /\ BlockOf = <<>>
  OBVIOUS
<1>1. StoreInv
  BY StoreInit DEF GuardInit
<1>2. DOMAIN guards = {} /\ DOMAIN stores = {}
  BY DEF GuardInit
<1>3. pointers \in [Pointers -> Values]
  BY StoreAssumption DEF GuardInit
<1>4. [g \in {} |-> Block(g)] = <<>>
  OBVIOUS
<1> QED
  BY <1>1, <1>2, <1>3, <1>4 DEF GuardInv, StoresManaged, KeysDiffer, BlockOf

-----------------------------------------------------------------------------
(* The manager and the capacity.                                            *)

LEMMA ResizeInv ==
  ASSUME GuardInv, 0 \notin Requests, RequestsFit \/ ~wrapped', NEW s \in Stores, Resize(s)
  PROVE  GuardInv' /\ BlockOf' = BlockOf /\ UNCHANGED <<guards, pointers, useCount, loaded>>
<1>1. PICK n \in Requests : SetCapacity(s, n)
  BY DEF Resize
<1>2. StoreInv' /\ BlocksKept
  BY <1>1, SetCapacityInv DEF GuardInv
<1>3. UNCHANGED <<life, length, loaded, stores, guards, pointers, useCount>>
  BY <1>1 DEF Resize, SetCapacity
<1>4. \A r \in Stores : length'[r] \in Nat /\ length[r] <= length'[r]
  BY <1>3 DEF GuardInv, StoreInv, StoreTypes
<1> QED
  BY <1>2, <1>3, <1>4, RecordsKept, GuardsKept DEF GuardInv

LEMMA InstanceInv ==
  ASSUME GuardInv, NEW size, Instance(size)
  PROVE  GuardInv' /\ BlockOf' = BlockOf /\ UNCHANGED <<guards, pointers, useCount, loaded>>
<1>1. PICK s \in Stores : /\ size \notin DOMAIN stores /\ BlockSize[s] = size /\ Construct(s)
                          /\ stores' = With(stores, size, s)
                          /\ UNCHANGED <<guards, pointers, useCount>>
  BY DEF Instance
<1>2. StoreInv' /\ BlocksKept
  BY <1>1, ConstructInv DEF GuardInv
<1>3. /\ life' = [life EXCEPT ![s] = "alive"] /\ length' = length /\ loaded' = loaded
  BY <1>1 DEF Construct, fields
<1>4. \A r \in Stores : life[r] = "alive" => life'[r] = "alive"
  BY <1>3 DEF GuardInv, StoreInv, StoreTypes
<1>5. StoresManaged'
  <2>1. life'[s] = "alive"
    BY <1>3 DEF GuardInv, StoreInv, StoreTypes
  <2> QED
    BY <1>1, <1>4, <2>1 DEF GuardInv, StoresManaged, With
<1>6. KeysDiffer' /\ \A g \in DOMAIN guards' : GuardRecord(g)'
  BY <1>1, <1>3, <1>4 DEF GuardInv, KeysDiffer, GuardRecord
<1> QED
  BY <1>1, <1>2, <1>3, <1>5, <1>6, GuardsKept DEF GuardInv

LEMMA DeleteAllInstancesInv ==
  ASSUME GuardInv, DeleteAllInstances
  PROVE  GuardInv' /\ BlockOf' = BlockOf /\ UNCHANGED <<guards, pointers, useCount, loaded>>
<1>1. PICK D : D = Managed
  OBVIOUS
<1>2. D \in SUBSET Stores /\ \A s \in D : life[s] = "alive"
  BY <1>1 DEF Managed, GuardInv, StoresManaged
<1>3. /\ life' = [s \in Stores |-> IF s \in D THEN "destroyed" ELSE life[s]]
      /\ mem' = [s \in Stores |-> IF s \in D THEN NullPtr ELSE mem[s]]
      /\ heap' = [a \in DOMAIN heap \ {mem[s] : s \in D} |-> heap[a]]
      /\ UNCHANGED <<length, capacity, loaded, wrapped>> /\ undefined' = FALSE
      /\ DOMAIN guards = {} /\ UNCHANGED <<guards, pointers, useCount>> /\ stores' = <<>>
  BY <1>1 DEF DeleteAllInstances, GuardInv, StoreInv, StoreTypes
<1>4. StoreInv'
  BY <1>2, <1>3, DestroyInv DEF GuardInv
<1>5. DOMAIN stores' = {}
  BY <1>3
<1>6. BlockOf' = BlockOf
  BY <1>3 DEF BlockOf
<1> QED
  BY <1>3, <1>4, <1>5, <1>6 DEF GuardInv, StoresManaged, KeysDiffer

-----------------------------------------------------------------------------
(* A guard's block.                                                         *)

\* A new guard in a state of the stores with a zero block for it.
LEMMA ConstructFakeInv ==
  ASSUME GuardInv, NEW g \in Guards, ConstructFake(g)
  PROVE  /\ GuardInv' /\ BlockOf' = With(BlockOf, g, Zero)
         /\ DOMAIN guards' = DOMAIN guards \cup {g} /\ g \notin DOMAIN guards
         /\ UNCHANGED <<pointers, useCount, loaded>>
<1>1. /\ ~Stored(g) /\ g \notin DOMAIN guards
      /\ guards' = With(guards, g, [store |-> NullPtr, key |-> Zero])
      /\ UNCHANGED <<life, mem, length, capacity, heap, loaded, undefined, wrapped, stores, pointers, useCount>>
  BY DEF ConstructFake, Stored, vars, fields
<1>2. /\ DOMAIN guards' = DOMAIN guards \cup {g} /\ guards'[g] = [store |-> NullPtr, key |-> Zero]
      /\ \A h \in DOMAIN guards : guards'[h] = guards[h]
  BY <1>1 DEF With
<1>3. StoreInv' /\ StoresManaged'
  BY <1>1 DEF GuardInv, StoreInv, StoreTypes, HeapHeld, StoreBlocks, StoresManaged
<1>4. \A h \in DOMAIN guards' : GuardRecord(h)'
  <2>1. GuardRecord(g)'
    BY <1>1, <1>2, StoreAssumption DEF GuardRecord, Stored
  <2>2. \A h \in DOMAIN guards : GuardRecord(h)'
    BY <1>1, <1>2 DEF GuardInv, GuardRecord, Stored
  <2> QED
    BY <1>2, <2>1, <2>2
<1>5. KeysDiffer'
  BY <1>1, <1>2 DEF GuardInv, KeysDiffer, Stored
<1>6. BlockOf' = With(BlockOf, g, Zero)
  <2>1. Block(g)' = Zero
    BY <1>1, <1>2 DEF Block, Stored
  <2>2. \A h \in DOMAIN guards : Block(h)' = Block(h)
    BY <1>1, <1>2 DEF Block, Contents
  <2> QED
    BY <1>2, <2>1, <2>2 DEF BlockOf, With
<1> QED
  BY <1>1, <1>2, <1>3, <1>4, <1>5, <1>6 DEF GuardInv

LEMMA ConstructGuardInv ==
  ASSUME GuardInv, NEW g \in Guards, ConstructGuard(g)
  PROVE  /\ GuardInv' /\ BlockOf' = With(BlockOf, g, Zero)
         /\ DOMAIN guards' = DOMAIN guards \cup {g} /\ g \notin DOMAIN guards
         /\ UNCHANGED <<pointers, useCount, loaded>>
<1>1. PICK s \in Stores : /\ s = stores[GuardSize[g]] /\ AllocBlock(s) /\ life[s] = "alive"
                          /\ guards' = With(guards, g, [store |-> s, key |-> length[s]])
  BY DEF ConstructGuard, GuardInv, StoresManaged
<1>2. Stored(g) /\ g \notin DOMAIN guards /\ UNCHANGED <<stores, pointers, useCount>>
  BY DEF ConstructGuard, Stored
<1>3. StoreInv' /\ BlocksKept /\ Contents(s)'[length[s] + 1] = Zero
  BY <1>1, AllocBlockInv DEF GuardInv
<1>4. PICK l \in Nat : l = length[s]
  BY DEF GuardInv, StoreInv, StoreTypes
<1>5. length' = [length EXCEPT ![s] = l + 1] /\ UNCHANGED <<life, loaded>>
  BY <1>1, <1>4 DEF AllocBlock
<1>6. length'[s] = l + 1 /\ \A r \in Stores : r # s => length'[r] = length[r]
  BY <1>5 DEF GuardInv, StoreInv, StoreTypes
<1>7. \A r \in Stores : \A i \in 1..length[r] : i \in 1..length'[r]
  <2>1. \A i \in 1..l : i \in 1..l + 1
    BY <1>4
  <2> QED
    BY <1>4, <1>6, <2>1
<1>8. /\ DOMAIN guards' = DOMAIN guards \cup {g} /\ guards'[g] = [store |-> s, key |-> l]
      /\ \A h \in DOMAIN guards : guards'[h] = guards[h]
  BY <1>1, <1>2, <1>4 DEF With
<1>9. StoresManaged'
  BY <1>2, <1>5 DEF GuardInv, StoresManaged
<1>10. \A h \in DOMAIN guards' : GuardRecord(h)'
  <2>1. GuardRecord(g)'
    <3>1. l + 1 \in 1..length'[s]
      BY <1>4, <1>6
    <3>2. guards'[g].store = s /\ guards'[g].key = l
      BY <1>8
    <3>3. guards'[g] \in [store : Stores \cup {NullPtr}, key : Nat \cup Values]
      BY <1>4, <1>8
    <3>4. Stored(g)' /\ life'[s] = "alive"
      BY <1>1, <1>2, <1>5 DEF Stored
    <3> QED
      BY <1>4, <3>1, <3>2, <3>3, <3>4 DEF GuardRecord
  <2>2. \A h \in DOMAIN guards : GuardRecord(h)'
    BY <1>5, <1>7, <1>8 DEF GuardInv, GuardRecord, Stored
  <2> QED
    BY <1>8, <2>1, <2>2
<1>11. KeysDiffer'
  <2>1. \A h \in DOMAIN guards : Stored(h) /\ guards[h].store = s => guards[h].key # l
    <3> SUFFICES ASSUME NEW h \in DOMAIN guards, Stored(h), guards[h].store = s, guards[h].key = l
                 PROVE  FALSE
      OBVIOUS
    <3>1. l + 1 \in 1..l
      BY <1>4 DEF GuardInv, GuardRecord
    <3> QED
      BY <1>4, <3>1
  <2> QED
    BY <1>8, <2>1 DEF GuardInv, KeysDiffer, Stored
<1>12. BlockOf' = With(BlockOf, g, Zero)
  <2>1. Block(g)' = Zero
    BY <1>2, <1>3, <1>4, <1>8 DEF Block, Stored
  <2>2. ASSUME NEW h \in DOMAIN guards PROVE Block(h)' = Block(h)
    <3>1. CASE ~Stored(h)
      BY <1>8, <3>1 DEF Block, Stored
    <3>2. CASE Stored(h)
      <4>1. PICK r \in Stores, k \in Int : r = guards[h].store /\ k = guards[h].key /\ k + 1 \in 1..length[r]
        BY <3>2 DEF GuardInv, GuardRecord
      <4>2. Contents(r)'[k + 1] = Contents(r)[k + 1]
        BY <1>3, <4>1 DEF BlocksKept
      <4> QED
        BY <1>8, <3>2, <4>1, <4>2 DEF Block, Stored
    <3> QED
      BY <3>1, <3>2
  <2> QED
    BY <1>8, <2>1, <2>2 DEF BlockOf, With
<1> QED
  BY <1>2, <1>3, <1>5, <1>8, <1>9, <1>10, <1>11, <1>12 DEF GuardInv

\* The stores do not change; the record of a FakeBlockGuard does.
LEMMA FakeStoreInv ==
  ASSUME GuardInv, NEW g \in Guards, NEW v \in Values, FakeStore(g, v)
  PROVE  /\ GuardInv' /\ g \in DOMAIN guards /\ ~Stored(g) /\ BlockOf' = [BlockOf EXCEPT ![g] = v]
         /\ DOMAIN guards' = DOMAIN guards /\ UNCHANGED <<pointers, useCount, loaded>>
<1>1. /\ g \in DOMAIN guards /\ ~Stored(g) /\ guards' = [guards EXCEPT ![g].key = v]
      /\ UNCHANGED <<life, mem, length, capacity, heap, loaded, undefined, wrapped, stores, pointers, useCount>>
  BY DEF FakeStore, Living, Stored, vars, fields
<1>2. /\ DOMAIN guards' = DOMAIN guards /\ guards'[g].key = v
      /\ guards'[g] \in [store : Stores \cup {NullPtr}, key : Nat \cup Values]
      /\ \A h \in DOMAIN guards : h # g => guards'[h] = guards[h]
  BY <1>1 DEF GuardInv, GuardRecord
<1>3. StoreInv' /\ StoresManaged'
  BY <1>1 DEF GuardInv, StoreInv, StoreTypes, HeapHeld, StoreBlocks, StoresManaged
<1>4. \A h \in DOMAIN guards' : GuardRecord(h)'
  BY <1>1, <1>2 DEF GuardInv, GuardRecord, Stored
<1>5. KeysDiffer'
  BY <1>1, <1>2 DEF GuardInv, KeysDiffer, Stored
<1>6. BlockOf' = [BlockOf EXCEPT ![g] = v]
  <2>1. Block(g)' = v
    BY <1>1, <1>2 DEF Block, Stored
  <2>2. \A h \in DOMAIN guards : h # g => Block(h)' = Block(h)
    BY <1>1, <1>2 DEF Block, Contents
  <2> QED
    BY <1>1, <1>2, <2>1, <2>2 DEF BlockOf
<1> QED
  BY <1>1, <1>2, <1>3, <1>4, <1>5, <1>6 DEF GuardInv

LEMMA LoadStep ==
  ASSUME GuardInv, NEW g \in DOMAIN guards, Stored(g), Load(guards[g].store, guards[g].key),
         UNCHANGED <<stores, guards>>, pointers' \in [Pointers -> Values]
  PROVE  GuardInv' /\ BlockOf' = BlockOf /\ loaded' = Block(g)
<1>1. PICK s \in Stores, k \in Nat : s = guards[g].store /\ k = guards[g].key
  BY DEF GuardInv, GuardRecord
<1>2. /\ StoreInv' /\ loaded' = Contents(s)[k + 1] /\ UNCHANGED <<life, mem, length, capacity, heap, wrapped>>
  BY <1>1, LoadInv DEF GuardInv
<1>3. BlocksKept
  BY <1>2 DEF BlocksKept, Contents
<1>4. \A r \in Stores : length'[r] \in Nat /\ length[r] <= length'[r]
  BY <1>2 DEF GuardInv, StoreInv, StoreTypes
<1>5. loaded' = Block(g)
  BY <1>1, <1>2, BlockValue
<1> QED
  BY <1>2, <1>3, <1>4, <1>5, RecordsKept, GuardsKept DEF GuardInv

\* Storing through a guard changes the block of no other guard.
LEMMA StoreStep ==
  ASSUME GuardInv, NEW g \in DOMAIN guards, Stored(g), NEW v \in Values,
         Store(guards[g].store, guards[g].key, v)
  PROVE  /\ StoreInv' /\ UNCHANGED <<life, length, loaded>>
         /\ guards' = guards => BlockOf' = [BlockOf EXCEPT ![g] = v]
         /\ \A h \in DOMAIN guards : h # g /\ guards'[h] = guards[h] => Block(h)' = Block(h)
<1>1. PICK s \in Stores, k \in Nat : s = guards[g].store /\ k = guards[g].key
  BY DEF GuardInv, GuardRecord
<1>2. /\ StoreInv' /\ Contents(s)'[k + 1] = v
      /\ \A r \in Stores : \A i \in 1..length[r] :
            r # s \/ i # k + 1 => Contents(r)'[i] = Contents(r)[i]
      /\ UNCHANGED <<life, mem, length, capacity, loaded, wrapped>>
  BY <1>1, StoreStepInv DEF GuardInv
<1>3. ASSUME NEW h \in DOMAIN guards, h # g, guards'[h] = guards[h] PROVE Block(h)' = Block(h)
  <2>1. CASE ~Stored(h)
    BY <1>3, <2>1 DEF Block, Stored
  <2>2. CASE Stored(h)
    <3>1. PICK r \in Stores, i \in Nat : r = guards[h].store /\ i = guards[h].key /\ i + 1 \in 1..length[r]
      BY <2>2 DEF GuardInv, GuardRecord
    <3>2. r # s \/ i # k
      BY <1>1, <1>3, <2>2, <3>1 DEF GuardInv, KeysDiffer
    <3>3. i # k => i + 1 # k + 1
      OBVIOUS
    <3>4. Contents(r)'[i + 1] = Contents(r)[i + 1]
      BY <1>2, <3>1, <3>2, <3>3
    <3> QED
      BY <1>3, <2>2, <3>1, <3>4 DEF Block, Stored
  <2> QED
    BY <2>1, <2>2
<1>4. ASSUME guards' = guards PROVE BlockOf' = [BlockOf EXCEPT ![g] = v]
  <2>1. Block(g)' = v
    BY <1>1, <1>2, <1>4 DEF Block, Stored
  <2> QED
    BY <1>3, <1>4, <2>1 DEF BlockOf
<1> QED
  BY <1>2, <1>3, <1>4

LEMMA StoreStepGuards ==
  ASSUME GuardInv, NEW g \in DOMAIN guards, Stored(g), NEW v \in Values,
         Store(guards[g].store, guards[g].key, v),
         UNCHANGED <<stores, guards, pointers>>
  PROVE  GuardInv' /\ BlockOf' = [BlockOf EXCEPT ![g] = v] /\ UNCHANGED loaded
<1>1. StoreInv' /\ UNCHANGED <<life, length, loaded>> /\ BlockOf' = [BlockOf EXCEPT ![g] = v]
  BY StoreStep
<1>2. \A r \in Stores : length'[r] \in Nat /\ length[r] <= length'[r]
  BY <1>1 DEF GuardInv, StoreInv, StoreTypes
<1> QED
  BY <1>1, <1>2, RecordsKept DEF GuardInv

LEMMA DestroyGuardInv ==
  ASSUME GuardInv, NEW g \in Guards, DestroyGuard(g)
  PROVE  /\ GuardInv' /\ g \in DOMAIN guards /\ DOMAIN guards' = DOMAIN guards \ {g}
         /\ BlockOf' = [h \in DOMAIN BlockOf \ {g} |-> BlockOf[h]]
         /\ UNCHANGED <<pointers, loaded>>
<1>1. /\ g \in DOMAIN guards /\ guards' = [h \in DOMAIN guards \ {g} |-> guards[h]]
      /\ UNCHANGED <<stores, pointers>>
  BY DEF DestroyGuard
<1>2. /\ StoreInv' /\ UNCHANGED <<life, length, loaded>>
      /\ \A h \in DOMAIN guards : h # g /\ guards'[h] = guards[h] => Block(h)' = Block(h)
  <2>1. CASE Kind[g] = "shared"
    <3>1. Store(guards[g].store, guards[g].key, Zero) /\ Stored(g) /\ Zero \in Values
      BY <2>1, StoreAssumption DEF DestroyGuard, Stored
    <3> QED
      BY <1>1, <3>1, StoreStep
  <2>2. CASE Kind[g] # "shared"
    <3>1. UNCHANGED <<life, mem, length, capacity, heap, loaded, undefined, wrapped>>
      BY <2>2 DEF DestroyGuard, vars, fields
    <3>2. StoreInv'
      BY <3>1 DEF GuardInv, StoreInv, StoreTypes, HeapHeld, StoreBlocks
    <3> QED
      BY <3>1, <3>2 DEF Block, Contents
  <2> QED
    BY <2>1, <2>2
<1>3. StoresManaged' /\ KeysDiffer' /\ \A h \in DOMAIN guards' : GuardRecord(h)'
  BY <1>1, <1>2 DEF GuardInv, StoresManaged, KeysDiffer, GuardRecord, Stored
<1>4. BlockOf' = [h \in DOMAIN BlockOf \ {g} |-> BlockOf[h]]
  <2>1. \A h \in DOMAIN guards' : Block(h)' = Block(h)
    BY <1>1, <1>2
  <2> QED
    BY <1>1, <2>1 DEF BlockOf
<1> QED
  BY <1>1, <1>2, <1>3, <1>4 DEF GuardInv

-----------------------------------------------------------------------------
(* All the steps.                                                           *)

\* What a step does to the blocks, to what was loaded, and to the pointers.
Quiet     == UNCHANGED <<guards, loaded>> /\ BlockOf' = BlockOf
Created   == \E g \in Guards : /\ g \notin DOMAIN guards /\ BlockOf' = With(BlockOf, g, Zero)
                               /\ DOMAIN guards' = DOMAIN guards \cup {g}
                               /\ UNCHANGED <<pointers, useCount, loaded>>
Dropped   == \E g \in DOMAIN guards : /\ BlockOf' = [h \in DOMAIN BlockOf \ {g} |-> BlockOf[h]]
                                      /\ DOMAIN guards' = DOMAIN guards \ {g}
                                      /\ useCount' = IF Kind[g] = "shared" THEN Assigned(Block(g), Zero)
                                                                           ELSE useCount
                                      /\ UNCHANGED <<pointers, loaded>>
Read(g)   == BlockOf' = BlockOf /\ loaded' = Block(g) /\ UNCHANGED guards
Written(g, v) == /\ BlockOf' = [BlockOf EXCEPT ![g] = v] /\ DOMAIN guards' = DOMAIN guards
                 /\ UNCHANGED <<pointers, loaded>>

\* pointers[p] is assigned what o points to.
Pointed(p, o) == pointers' = [pointers EXCEPT ![p] = o] /\ useCount' = Assigned(pointers[p], o)
NotPointed    == UNCHANGED <<pointers, useCount>>

LEMMA GuardSteps ==
  ASSUME GuardInv, 0 \notin Requests, RequestsFit \/ ~wrapped', GuardNext
  PROVE  /\ GuardInv'
         /\ \/ Quiet /\ (NotPointed \/ \E p \in Pointers, o \in Values : Pointed(p, o))
            \/ Created \/ Dropped
            \/ \E g \in DOMAIN guards :
                  \/ Read(g) /\ NotPointed
                  \/ Read(g) /\ \E p \in Pointers : Pointed(p, Block(g))
                  \/ \E v \in Values : /\ Written(g, v)
                                       /\ useCount' = IF Kind[g] = "shared" THEN Assigned(Block(g), v)
                                                                            ELSE useCount
<1>1. ASSUME NEW s \in Stores, Resize(s) PROVE GuardInv' /\ Quiet /\ NotPointed
  BY <1>1, ResizeInv DEF Quiet, NotPointed
<1>2. ASSUME NEW s \in Stores, Instance(BlockSize[s]) PROVE GuardInv' /\ Quiet /\ NotPointed
  BY <1>2, InstanceInv DEF Quiet, NotPointed
<1>3. CASE DeleteAllInstances
  BY <1>3, DeleteAllInstancesInv DEF Quiet, NotPointed
<1>4. ASSUME NEW g \in Guards, ConstructFake(g) PROVE GuardInv' /\ Created
  BY <1>4, ConstructFakeInv DEF Created
<1>5. ASSUME NEW g \in Guards, ConstructGuard(g) PROVE GuardInv' /\ Created
  BY <1>5, ConstructGuardInv DEF Created
<1>6. ASSUME NEW g \in Guards, DestroyGuard(g) PROVE GuardInv' /\ Dropped
  <2>1. useCount' = IF Kind[g] = "shared" THEN Assigned(Block(g), Zero) ELSE useCount
    BY <1>6 DEF DestroyGuard
  <2> QED
    BY <1>6, <2>1, DestroyGuardInv DEF Dropped
<1>7. ASSUME NEW g \in Guards, FakeLoad(g) PROVE GuardInv' /\ g \in DOMAIN guards /\ Read(g) /\ NotPointed
  <2>1. /\ g \in DOMAIN guards /\ ~Stored(g) /\ loaded' = guards[g].key
        /\ UNCHANGED <<life, mem, length, capacity, heap, undefined, wrapped, stores, guards, pointers, useCount>>
    BY <1>7 DEF FakeLoad, Living, Stored, fields
  <2>2. loaded' = Block(g) /\ loaded' \in Values
    BY <2>1, BlockValue
  <2>3. StoreInv' /\ BlocksKept
    BY <2>1, <2>2 DEF GuardInv, StoreInv, StoreTypes, HeapHeld, StoreBlocks, BlocksKept, Contents
  <2>4. \A r \in Stores : length'[r] \in Nat /\ length[r] <= length'[r]
    BY <2>1 DEF GuardInv, StoreInv, StoreTypes
  <2> QED
    BY <2>1, <2>2, <2>3, <2>4, GuardsKept, RecordsKept DEF Read, NotPointed, GuardInv
<1>8. ASSUME NEW g \in Guards, GuardLoad(g) PROVE GuardInv' /\ g \in DOMAIN guards /\ Read(g) /\ NotPointed
  <2>1. /\ g \in DOMAIN guards /\ Stored(g) /\ Load(guards[g].store, guards[g].key)
        /\ UNCHANGED <<stores, guards, pointers, useCount>>
    BY <1>8 DEF GuardLoad, Living, Stored
  <2> QED
    BY <2>1, LoadStep DEF Read, NotPointed, GuardInv
<1>9. ASSUME NEW g \in Guards, NEW v \in Values, FakeStore(g, v)
      PROVE  GuardInv' /\ g \in DOMAIN guards /\ Written(g, v) /\ Kind[g] # "shared" /\ UNCHANGED useCount
  BY <1>9, FakeStoreInv DEF Written, Stored
<1>10. ASSUME NEW g \in Guards, NEW v \in Values, GuardStore(g, v)
       PROVE  GuardInv' /\ g \in DOMAIN guards /\ Written(g, v) /\ Kind[g] # "shared" /\ UNCHANGED useCount
  <2>1. /\ g \in DOMAIN guards /\ Stored(g) /\ Store(guards[g].store, guards[g].key, v)
        /\ UNCHANGED <<stores, guards, pointers, useCount>> /\ Kind[g] # "shared"
    BY <1>10 DEF GuardStore, Living, Stored
  <2> QED
    BY <2>1, StoreStepGuards DEF Written
<1>11. ASSUME NEW g \in Guards, NEW p \in Pointers, SharedLoad(g, p)
       PROVE  GuardInv' /\ g \in DOMAIN guards /\ Read(g) /\ Pointed(p, Block(g))
  <2>1. /\ g \in DOMAIN guards /\ Stored(g) /\ Load(guards[g].store, guards[g].key)
        /\ UNCHANGED <<stores, guards>> /\ Pointed(p, Block(g))
    BY <1>11 DEF SharedLoad, Living, Stored, Pointed
  <2>2. pointers' \in [Pointers -> Values]
    BY <2>1, BlockValue DEF Pointed, GuardInv
  <2> QED
    BY <2>1, <2>2, LoadStep DEF Read
<1>12. ASSUME NEW g \in Guards, NEW p \in Pointers, SharedStore(g, p)
       PROVE  /\ GuardInv' /\ g \in DOMAIN guards /\ Written(g, pointers[p]) /\ pointers[p] \in Values
              /\ Kind[g] = "shared" /\ useCount' = Assigned(Block(g), pointers[p])
  <2>1. /\ g \in DOMAIN guards /\ Stored(g) /\ Store(guards[g].store, guards[g].key, pointers[p])
        /\ UNCHANGED <<stores, guards, pointers>> /\ Kind[g] = "shared"
        /\ useCount' = Assigned(Block(g), pointers[p])
    BY <1>12 DEF SharedStore, Living, Stored
  <2>2. pointers[p] \in Values
    BY DEF GuardInv
  <2> QED
    BY <2>1, <2>2, StoreStepGuards DEF Written
<1>13. ASSUME UNCHANGED <<vars, stores, guards>>, pointers' \in [Pointers -> Values]
       PROVE  GuardInv' /\ Quiet
  <2>1. UNCHANGED <<life, mem, length, capacity, heap, loaded, undefined, wrapped, stores, guards>>
    BY <1>13 DEF vars, fields
  <2> QED
    BY <1>13, <2>1
       DEF GuardInv, StoreInv, StoreTypes, HeapHeld, StoreBlocks, StoresManaged, GuardRecord, KeysDiffer,
           Quiet, BlockOf, Block, Contents
<1>14. ASSUME NEW p \in Pointers, Reset(p) PROVE GuardInv' /\ Quiet /\ Pointed(p, Zero) /\ Zero \in Values
  <2>1. Zero \in Values
    BY StoreAssumption
  <2>2. pointers' \in [Pointers -> Values]
    BY <1>14, <2>1 DEF Reset, GuardInv
  <2> QED
    BY <1>13, <1>14, <2>1, <2>2 DEF Reset, Pointed
<1>15. ASSUME NEW p \in Pointers, NEW o \in Objects, MakeShared(p, o)
       PROVE  GuardInv' /\ Quiet /\ Pointed(p, o) /\ o \in Values
  <2>1. o \in Values
    BY GuardAssumption
  <2>2. pointers' \in [Pointers -> Values]
    BY <1>15, <2>1 DEF MakeShared, GuardInv
  <2> QED
    BY <1>13, <1>15, <2>1, <2>2 DEF MakeShared, Pointed
<1> QED
  BY <1>1, <1>2, <1>3, <1>4, <1>5, <1>6, <1>7, <1>8, <1>9, <1>10, <1>11, <1>12, <1>14, <1>15 DEF GuardNext

LEMMA GuardStutter ==
  ASSUME GuardInv, UNCHANGED guardVars
  PROVE  GuardInv' /\ UNCHANGED <<BlockOf, loaded, guards, pointers, useCount>>
<1>1. /\ UNCHANGED <<life, mem, length, capacity, heap, loaded, undefined, wrapped, stores, guards>>
      /\ UNCHANGED <<pointers, useCount>>
  BY DEF guardVars, vars, fields
<1> QED
  BY <1>1 DEF GuardInv, StoreInv, StoreTypes, HeapHeld, StoreBlocks, StoresManaged, GuardRecord,
              KeysDiffer, BlockOf, Block, Contents

LEMMA GuardInvariant ==
  ASSUME 0 \notin Requests, RequestsFit
  PROVE  GuardSpec => []GuardInv
<1>1. GuardInv /\ [GuardNext]_guardVars => GuardInv'
  BY GuardSteps, GuardStutter
<1> QED
  BY <1>1, GuardInitInv, PTL DEF GuardSpec

\* Under the guards, too, memory is owned by one store each and none is leaked, until the
\* bytes of a capacity that the application asks for wrap: what the constructors of guards
\* ask for by doubling never wraps, and every key handed out has its block.
THEOREM GuardsOwnMemory ==
  ASSUME 0 \notin Requests
  PROVE  GuardSpec => []MemoryOwned
<1>1. GuardInv /\ ~wrapped' /\ [GuardNext]_guardVars => GuardInv'
  BY GuardSteps, GuardStutter
<1>2. wrapped /\ [GuardNext]_guardVars => wrapped'
  <2> SUFFICES ASSUME wrapped, GuardNext \/ UNCHANGED guardVars PROVE wrapped'
    OBVIOUS
  <2>1. ASSUME NEW s \in Stores, Resize(s) \/ Instance(BlockSize[s]) PROVE wrapped'
    BY <2>1 DEF Resize, Instance, Construct, SetCapacity, Reallocate
  <2>2. ASSUME NEW g \in Guards, ConstructFake(g) \/ ConstructGuard(g) \/ DestroyGuard(g)
        PROVE  wrapped'
    BY <2>2 DEF ConstructFake, ConstructGuard, DestroyGuard, AllocBlock, Reallocate, Store, vars
  <2>3. ASSUME NEW g \in Guards, FakeLoad(g) \/ GuardLoad(g) PROVE wrapped'
    BY <2>3 DEF FakeLoad, GuardLoad, Load
  <2>4. ASSUME NEW g \in Guards, NEW v \in Values, FakeStore(g, v) \/ GuardStore(g, v) PROVE wrapped'
    BY <2>4 DEF FakeStore, GuardStore, Store, vars
  <2>5. ASSUME NEW g \in Guards, NEW p \in Pointers, SharedLoad(g, p) \/ SharedStore(g, p)
        PROVE  wrapped'
    BY <2>5 DEF SharedLoad, SharedStore, Load, Store
  <2>6. ASSUME NEW p \in Pointers, Reset(p) \/ \E o \in Objects : MakeShared(p, o) PROVE wrapped'
    BY <2>6 DEF Reset, MakeShared, vars
  <2>7. CASE DeleteAllInstances
    BY <2>7 DEF DeleteAllInstances
  <2>8. CASE UNCHANGED guardVars
    BY <2>8 DEF guardVars, vars
  <2> QED
    BY <2>1, <2>2, <2>3, <2>4, <2>5, <2>6, <2>7, <2>8 DEF GuardNext
<1>3. (wrapped \/ GuardInv) /\ [GuardNext]_guardVars => (wrapped \/ GuardInv)'
  BY <1>1, <1>2
<1>4. wrapped \/ GuardInv => MemoryOwned
  BY OwnedIsImplied DEF GuardInv, MemoryOwned
<1>5. GuardInit => wrapped \/ GuardInv
  BY GuardInitInv
<1> QED
  BY <1>3, <1>4, <1>5, PTL DEF GuardSpec

\* Every guard has a block of its own, zero at first, that keeps what was stored last
\* through it, while other guards come and go and the store is moved and resized to
\* capacities whose bytes do not wrap.
THEOREM GuardsAreBlocks ==
  ASSUME 0 \notin Requests, RequestsFit
  PROVE  GuardSpec => OwnBlocks
<1>1. GuardInit => Blocks!Init
  BY GuardInitInv DEF GuardInit, Init, Blocks!Init, BlockOf
<1>2. GuardInv /\ [GuardNext]_guardVars => [Blocks!Next]_<<BlockOf, loaded>>
  <2> SUFFICES ASSUME GuardInv, [GuardNext]_guardVars PROVE [Blocks!Next]_<<BlockOf, loaded>>
    OBVIOUS
  <2>d. DOMAIN BlockOf = DOMAIN guards /\ \A g \in DOMAIN guards : BlockOf[g] = Block(g)
    BY DEF BlockOf
  <2>1. CASE UNCHANGED guardVars
    BY <2>1, GuardStutter
  <2>2. CASE Quiet
    BY <2>2 DEF Quiet
  <2>3. CASE Created
    <3>1. PICK g \in Guards : g \notin DOMAIN guards /\ BlockOf' = With(BlockOf, g, Zero) /\ UNCHANGED loaded
      BY <2>3 DEF Created
    <3>2. Blocks!New(g)
      BY <2>d, <3>1 DEF With, Blocks!New, BlockOf
    <3> QED
      BY <3>2 DEF Blocks!Next
  <2>4. CASE Dropped
    <3>1. PICK g \in DOMAIN guards : BlockOf' = [h \in DOMAIN BlockOf \ {g} |-> BlockOf[h]] /\ UNCHANGED loaded
      BY <2>4 DEF Dropped
    <3>2. Blocks!Drop(g)
      BY <3>1 DEF Blocks!Drop, BlockOf
    <3> QED
      BY <2>d, <3>2 DEF Blocks!Next, BlockOf
  <2>5. ASSUME NEW g \in DOMAIN guards, Read(g) PROVE Blocks!Next
    <3>1. Blocks!Load(g)
      BY <2>5, <2>d DEF Read, Blocks!Load, BlockOf
    <3> QED
      BY <2>d, <3>1 DEF Blocks!Next, BlockOf
  <2>6. ASSUME NEW g \in DOMAIN guards, NEW v \in Values, Written(g, v) PROVE Blocks!Next
    <3>1. Blocks!Store(g)
      BY <2>6 DEF Written, Blocks!Store, BlockOf
    <3> QED
      BY <2>d, <3>1 DEF Blocks!Next, BlockOf
  <2>7. CASE 0 \notin Requests /\ RequestsFit /\ GuardNext
    BY <2>2, <2>3, <2>4, <2>5, <2>6, <2>7, GuardSteps
  <2> QED
    BY <2>1, <2>7
<1> QED
  BY <1>1, <1>2, GuardInvariant, PTL DEF GuardSpec, OwnBlocks, Blocks!Spec, BlockOf

(***************************************************************************)
(* Use counts.                                                             *)
(***************************************************************************)

Class(S, f, o) == {y \in S : f[y] = o}

\* h is f but at x.
MovesOne(S, f, h, x) == IsFiniteSet(S) /\ x \in S /\ \A y \in S : y # x => h[y] = f[y]

Recounted(S, f, h, x, o) ==
    Cardinality(Class(S, h, o)) =
        Cardinality(Class(S, f, o)) + (IF o = h[x] THEN 1 ELSE 0) - (IF o = f[x] THEN 1 ELSE 0)

\* Changing a function at x moves x from one of its classes to another.
LEMMA Recount ==
  ASSUME NEW S, NEW f, NEW h, NEW x, NEW o, MovesOne(S, f, h, x)
  PROVE  Recounted(S, f, h, x, o)
<1>0. IsFiniteSet(S) /\ x \in S /\ \A y \in S : y # x => h[y] = f[y]
  BY DEF MovesOne
<1>1. PICK A, B : A = Class(S, f, o) /\ B = Class(S, h, o)
  OBVIOUS
<1>2. IsFiniteSet(A) /\ IsFiniteSet(B)
  BY <1>0, <1>1, FS_Subset DEF Class
<1>3. Cardinality(A) \in Nat /\ Cardinality(B) \in Nat
  BY <1>2, FS_CardinalityType
<1>4. CASE h[x] = o <=> f[x] = o
  <2>1. A = B
    BY <1>0, <1>1, <1>4 DEF Class
  <2> QED
    BY <1>1, <1>3, <1>4, <2>1 DEF Recounted
<1>5. CASE h[x] = o /\ f[x] # o
  <2>1. B = A \cup {x} /\ x \notin A
    BY <1>0, <1>1, <1>5 DEF Class
  <2>2. Cardinality(B) = Cardinality(A) + 1
    BY <1>2, <2>1, FS_AddElement
  <2> QED
    BY <1>1, <1>3, <1>5, <2>2 DEF Recounted
<1>6. CASE h[x] # o /\ f[x] = o
  <2>1. B = A \ {x} /\ x \in A
    BY <1>0, <1>1, <1>6 DEF Class
  <2>2. Cardinality(B) = Cardinality(A) - 1
    BY <1>2, <2>1, FS_RemoveElement
  <2> QED
    BY <1>1, <1>3, <1>6, <2>2 DEF Recounted
<1> QED
  BY <1>4, <1>5, <1>6

Pointing(o) == {p \in Pointers : pointers[p] = o}
Sharing(o)  == {g \in Living("shared") : Block(g) = o}

UsesInv ==
    \A o \in Objects : useCount[o] = Cardinality(Pointing(o)) + Cardinality(Sharing(o))

LEMMA UsesAgree == UsesInv <=> UseCountsAgree
  BY DEF UsesInv, UseCountsAgree, Pointing, Sharing

LEMMA CountTypes ==
  ASSUME GuardInv, NEW o
  PROVE  /\ IsFiniteSet(Living("shared")) /\ IsFiniteSet(Pointers)
         /\ Cardinality(Pointing(o)) \in Nat /\ Cardinality(Sharing(o)) \in Nat
<1>1. IsFiniteSet(Guards) /\ IsFiniteSet(Pointers)
  BY GuardAssumption
<1>2. Living("shared") \subseteq Guards
  BY DEF Living, GuardInv
<1>3. IsFiniteSet(Living("shared"))
  BY <1>1, <1>2, FS_Subset
<1>4. IsFiniteSet(Pointing(o)) /\ IsFiniteSet(Sharing(o))
  BY <1>1, <1>3, FS_Subset DEF Pointing, Sharing
<1> QED
  BY <1>1, <1>3, <1>4, FS_CardinalityType

LEMMA SharingKept ==
  ASSUME NEW o, Living("shared")' = Living("shared"), \A g \in Living("shared") : Block(g)' = Block(g)
  PROVE  Sharing(o)' = Sharing(o)
  BY DEF Sharing

LEMMA UsesKept ==
  ASSUME UsesInv, UNCHANGED <<pointers, useCount>>, \A o \in Objects : Sharing(o)' = Sharing(o)
  PROVE  UsesInv'
  BY DEF UsesInv, Pointing

\* A variable of the application points elsewhere.
LEMMA UsesPointed ==
  ASSUME GuardInv, UsesInv, NEW p \in Pointers, NEW v \in Values, Pointed(p, v),
         \A o \in Objects : Sharing(o)' = Sharing(o)
  PROVE  UsesInv'
<1> SUFFICES ASSUME NEW o \in Objects
             PROVE  useCount'[o] = Cardinality(Pointing(o)') + Cardinality(Sharing(o))
  BY DEF UsesInv
<1>1. /\ pointers'[p] = v /\ \A q \in Pointers : q # p => pointers'[q] = pointers[q]
  BY DEF Pointed, GuardInv
<1>2. Cardinality(Pointing(o)') =
         Cardinality(Pointing(o)) + (IF o = v THEN 1 ELSE 0) - (IF o = pointers[p] THEN 1 ELSE 0)
  <2>1. PICK S, x, f, h : S = Pointers /\ x = p /\ f = pointers /\ h = pointers'
    OBVIOUS
  <2>2. IsFiniteSet(S) /\ x \in S /\ \A q \in S : q # x => h[q] = f[q]
    BY <1>1, <2>1, CountTypes
  <2>3. Recounted(S, f, h, x, o)
    BY <2>2, Recount DEF MovesOne
  <2>4. Pointing(o)' = Class(S, h, o) /\ Pointing(o) = Class(S, f, o)
    BY <2>1 DEF Pointing, Class
  <2> QED
    BY <1>1, <2>1, <2>3, <2>4 DEF Recounted
<1>3. useCount'[o] = useCount[o] + (IF o = v THEN 1 ELSE 0) - (IF o = pointers[p] THEN 1 ELSE 0)
  BY DEF Pointed, Assigned
<1>4. PICK i \in Nat, j \in Nat : i = Cardinality(Pointing(o)) /\ j = Cardinality(Sharing(o))
  BY CountTypes
<1>5. useCount[o] = i + j
  BY <1>4 DEF UsesInv
<1> QED
  BY <1>2, <1>3, <1>4, <1>5

\* A block holds v instead, or, with v = Zero, its guard is gone.
LEMMA UsesAssigned ==
  ASSUME GuardInv, UsesInv, NEW g \in Living("shared"), NEW v, useCount' = Assigned(Block(g), v),
         UNCHANGED pointers, NEW h, h[g] = v, \A x \in Living("shared") : x # g => h[x] = Block(x),
         \A o \in Objects : Sharing(o)' = Class(Living("shared"), h, o)
  PROVE  UsesInv'
<1> SUFFICES ASSUME NEW o \in Objects
             PROVE  useCount'[o] = Cardinality(Pointing(o)) + Cardinality(Class(Living("shared"), h, o))
  BY DEF UsesInv, Pointing
<1>1. PICK f : f = BlockOf /\ \A x \in Living("shared") : f[x] = Block(x)
  <2>1. \A x \in DOMAIN guards : BlockOf[x] = Block(x)
    BY DEF BlockOf
  <2>2. Living("shared") \subseteq DOMAIN guards
    BY DEF Living
  <2> QED
    BY <2>1, <2>2
<1>2. Sharing(o) = Class(Living("shared"), f, o)
  BY <1>1 DEF Sharing, Class
<1>3. \A x \in Living("shared") : x # g => h[x] = f[x]
  BY <1>1
<1>4. Cardinality(Class(Living("shared"), h, o)) =
         Cardinality(Sharing(o)) + (IF o = h[g] THEN 1 ELSE 0) - (IF o = f[g] THEN 1 ELSE 0)
  <2>1. IsFiniteSet(Living("shared"))
    BY CountTypes
  <2>2. Recounted(Living("shared"), f, h, g, o)
    BY <1>3, <2>1, Recount DEF MovesOne
  <2> QED
    BY <1>2, <2>2 DEF Recounted
<1>5. useCount'[o] = useCount[o] + (IF o = v THEN 1 ELSE 0) - (IF o = Block(g) THEN 1 ELSE 0)
  BY DEF Assigned
<1>6. PICK i \in Nat, j \in Nat : i = Cardinality(Pointing(o)) /\ j = Cardinality(Sharing(o))
  BY CountTypes
<1>7. useCount[o] = i + j
  BY <1>6 DEF UsesInv
<1> QED
  BY <1>1, <1>4, <1>5, <1>6, <1>7

\* An object lives exactly as long as a variable of the application or the block of a
\* living guard points to it, and is counted once for each, whatever is constructed,
\* copied and destroyed, as long as no capacity asked for wraps.
THEOREM UseCounts ==
  ASSUME 0 \notin Requests, RequestsFit
  PROVE  GuardSpec => []UseCountsAgree
<1>1. GuardInit => UsesInv
  <2> SUFFICES ASSUME GuardInit, NEW o \in Objects
               PROVE  useCount[o] = Cardinality(Pointing(o)) + Cardinality(Sharing(o))
    BY DEF UsesInv
  <2>1. Pointing(o) = {} /\ Sharing(o) = {} /\ useCount[o] = 0
    <3>1. DOMAIN guards = {} /\ Zero \notin Objects
      BY GuardAssumption DEF GuardInit
    <3> QED
      BY <3>1 DEF GuardInit, Pointing, Sharing, Living
  <2>2. Cardinality({}) = 0
    BY FS_EmptySet
  <2> QED
    BY <2>1, <2>2
<1>2. GuardInv /\ UsesInv /\ [GuardNext]_guardVars => UsesInv'
  <2> SUFFICES ASSUME GuardInv, UsesInv, [GuardNext]_guardVars PROVE UsesInv'
    OBVIOUS
  <2>d. \A g \in DOMAIN guards : BlockOf[g] = Block(g)
    BY DEF BlockOf
  <2>e. \A g \in DOMAIN guards' : BlockOf'[g] = Block(g)'
    BY DEF BlockOf
  <2>z. Zero \in Values /\ Zero \notin Objects
    BY GuardAssumption
  <2>k. ASSUME guards' = guards, BlockOf' = BlockOf PROVE \A o \in Objects : Sharing(o)' = Sharing(o)
    <3>1. Living("shared")' = Living("shared") /\ Living("shared") \subseteq DOMAIN guards
      BY <2>k DEF Living
    <3>2. \A g \in Living("shared") : Block(g)' = Block(g)
      BY <2>k, <2>d, <2>e, <3>1
    <3> QED
      BY <3>1, <3>2, SharingKept
  <2>1. CASE UNCHANGED guardVars
    BY <2>1, <2>k, GuardStutter, UsesKept
  <2>2. CASE Quiet /\ (NotPointed \/ \E p \in Pointers, o \in Values : Pointed(p, o))
    BY <2>2, <2>k, UsesKept, UsesPointed DEF Quiet, NotPointed
  <2>3. CASE Created
    <3>1. PICK g \in Guards : /\ g \notin DOMAIN guards /\ BlockOf' = With(BlockOf, g, Zero)
                              /\ DOMAIN guards' = DOMAIN guards \cup {g}
                              /\ UNCHANGED <<pointers, useCount>>
      BY <2>3 DEF Created
    <3>2. Block(g)' = Zero /\ \A h \in DOMAIN guards : Block(h)' = Block(h)
      BY <2>d, <2>e, <3>1 DEF With, BlockOf
    <3>3. \A o \in Objects : Sharing(o)' = Sharing(o)
      BY <2>z, <3>1, <3>2 DEF Sharing, Living
    <3> QED
      BY <3>1, <3>3, UsesKept
  <2>4. CASE Dropped
    <3>1. PICK g \in DOMAIN guards :
             /\ BlockOf' = [h \in DOMAIN BlockOf \ {g} |-> BlockOf[h]] /\ DOMAIN guards' = DOMAIN guards \ {g}
             /\ useCount' = IF Kind[g] = "shared" THEN Assigned(Block(g), Zero) ELSE useCount
             /\ UNCHANGED pointers
      BY <2>4 DEF Dropped
    <3>2. \A h \in DOMAIN guards \ {g} : Block(h)' = Block(h)
      BY <2>d, <2>e, <3>1 DEF BlockOf
    <3>3. CASE Kind[g] # "shared"
      <4>1. \A o \in Objects : Sharing(o)' = Sharing(o)
        BY <3>1, <3>2, <3>3 DEF Sharing, Living
      <4> QED
        BY <3>1, <3>3, <4>1, UsesKept
    <3>4. CASE Kind[g] = "shared"
      <4>1. PICK h : h = [x \in DOMAIN guards |-> IF x = g THEN Zero ELSE Block(x)]
        OBVIOUS
      <4>2. /\ g \in Living("shared") /\ h[g] = Zero
            /\ \A x \in Living("shared") : x # g => h[x] = Block(x)
        BY <3>4, <4>1 DEF Living
      <4>3. \A o \in Objects : Sharing(o)' = Class(Living("shared"), h, o)
        BY <2>z, <3>1, <3>2, <4>1 DEF Sharing, Living, Class
      <4> QED
        BY <3>1, <3>4, <4>2, <4>3, UsesAssigned
    <3> QED
      BY <3>3, <3>4
  <2>5. ASSUME NEW g \in DOMAIN guards, Read(g), NotPointed \/ \E p \in Pointers : Pointed(p, Block(g))
        PROVE  UsesInv'
    BY <2>5, <2>k, BlockValue, UsesKept, UsesPointed DEF Read, NotPointed
  <2>6. ASSUME NEW g \in DOMAIN guards, NEW v \in Values, Written(g, v),
               useCount' = IF Kind[g] = "shared" THEN Assigned(Block(g), v) ELSE useCount
        PROVE  UsesInv'
    <3>1. DOMAIN guards' = DOMAIN guards /\ BlockOf' = [BlockOf EXCEPT ![g] = v] /\ UNCHANGED pointers
      BY <2>6 DEF Written
    <3>2. Block(g)' = v /\ \A h \in DOMAIN guards : h # g => Block(h)' = Block(h)
      BY <2>d, <2>e, <3>1 DEF BlockOf
    <3>3. Living("shared")' = Living("shared") /\ Living("shared") \subseteq DOMAIN guards
      BY <3>1 DEF Living
    <3>4. CASE Kind[g] # "shared"
      <4>1. g \notin Living("shared")
        BY <3>4 DEF Living
      <4>2. \A h \in Living("shared") : Block(h)' = Block(h)
        BY <3>2, <3>3, <4>1
      <4> QED
        BY <2>6, <3>1, <3>3, <3>4, <4>2, SharingKept, UsesKept
    <3>5. CASE Kind[g] = "shared"
      <4>1. PICK h : h = [x \in DOMAIN guards |-> IF x = g THEN v ELSE Block(x)]
        OBVIOUS
      <4>2. /\ g \in Living("shared") /\ h[g] = v
            /\ \A x \in Living("shared") : x # g => h[x] = Block(x)
        BY <3>5, <4>1 DEF Living
      <4>3. \A x \in Living("shared") : Block(x)' = h[x]
        BY <3>2, <3>3, <4>1, <4>2
      <4>4. \A o \in Objects : Sharing(o)' = Class(Living("shared"), h, o)
        BY <3>3, <4>3 DEF Sharing, Class
      <4> QED
        BY <2>6, <3>1, <3>5, <4>2, <4>4, UsesAssigned
    <3> QED
      BY <3>4, <3>5
  <2> QED
    BY <2>1, <2>2, <2>3, <2>4, <2>5, <2>6, GuardSteps
<1> QED
  BY <1>1, <1>2, UsesAgree, GuardInvariant, PTL DEF GuardSpec
=============================================================================
