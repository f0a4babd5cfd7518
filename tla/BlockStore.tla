----------------------------- MODULE BlockStore -----------------------------
(***************************************************************************)
(* BlockStore and AtomicBlockStore of util/blockstore.cpp, whose code is   *)
(* the same but for the block size: objects that hand out blocks of one    *)
(* growing allocation.  Blocks are values, the allocation a sequence of    *)
(* them at an address of the heap.  A call that throws (a capacity below   *)
(* the length, a failed realloc, freeBlock) changes nothing and is no      *)
(* step.                                                                   *)
(***************************************************************************)
EXTENDS Naturals, Sequences, FiniteSets

CONSTANTS
    Stores,      \* objects
    Addresses,   \* of the heap
    NullPtr,     \* nullptr
    Values,      \* contents of a block
    Zero,        \* an all zero block
    BlockSize,   \* _blockSize of each, in bytes
    SizeValues,  \* size_t counts modulo this
    HeapMax,     \* realloc fails above it: half of the address space (PTRDIFF_MAX)
    Requests,    \* arguments of setCapacity
    MoveFull     \* the application moves objects that hold memory, not only fresh ones

ASSUME StoreAssumption ==
    /\ NullPtr \notin Addresses /\ Zero \in Values
    /\ SizeValues \in Nat /\ HeapMax \in Nat
    /\ \A s \in Stores : BlockSize[s] \in 1..SizeValues - 1
    /\ 2 * HeapMax < SizeValues
    /\ Requests \subseteq 0..SizeValues - 1
    /\ MoveFull \in BOOLEAN

VARIABLES
    life,       \* per object: "none" before its constructor, "alive", "destroyed"
    mem,        \* mem
    length,     \* _length
    capacity,   \* _capacity
    heap,       \* the live allocations: address |-> blocks
    loaded,     \* what the last load returned
    undefined,  \* memory was accessed or freed that is not allocated, or another key's
    wrapped     \* the bytes of some capacity asked of realloc wrapped size_t

fields == <<mem, length, capacity>>
vars   == <<life, fields, heap, loaded, undefined, wrapped>>

Init ==
    /\ life = [s \in Stores |-> "none"]
    /\ mem = [s \in Stores |-> NullPtr]
    /\ length = [s \in Stores |-> 0]
    /\ capacity = [s \in Stores |-> 0]
    /\ heap = <<>>
    /\ loaded = Zero
    /\ undefined = FALSE /\ wrapped = FALSE

Contents(s) == IF mem[s] \in DOMAIN heap THEN heap[mem[s]] ELSE <<>>

Without(a) == [b \in DOMAIN heap \ {a} |-> heap[b]]

\* After undefined behaviour nothing more is said of the program.
Alive(s) == life[s] = "alive" /\ ~undefined

Construct(s) ==
    /\ ~undefined /\ life[s] = "none"
    /\ life' = [life EXCEPT ![s] = "alive"]
    /\ UNCHANGED <<fields, heap, loaded, undefined, wrapped>>

Dangling(s) == mem[s] # NullPtr /\ mem[s] \notin DOMAIN heap

\* Mutant: the memory of an object is not freed.
FreeNothing(s) == UNCHANGED <<heap, undefined>>

\* free(mem): nothing for nullptr, undefined for what is not allocated.
Free(s) ==
    /\ heap' = Without(mem[s])
    /\ undefined' = Dangling(s)

FreeMemory(s) ==
    /\ Free(s)
    /\ mem' = [mem EXCEPT ![s] = NullPtr]

\* realloc: the old blocks as far as they fit, the rest indeterminate.
Reallocated(old, count) ==
    {new \in [1..count -> Values] : \A i \in DOMAIN old : i <= count => new[i] = old[i]}

\* Mutant: the new blocks are left as realloc returned them.
TailNotZeroed(blocks, s) == blocks

ZeroOutFreeTailMemory(blocks, s) ==
    [i \in DOMAIN blocks |-> IF i > length[s] THEN Zero ELSE blocks[i]]

Bytes(s, n) == (BlockSize[s] * n) % SizeValues

\* The part of setCapacity from realloc on.  Nothing checks that the bytes of n blocks
\* did not wrap: then fewer blocks are allocated than _capacity says, and the memset of
\* those that are free writes behind them if not even the keys handed out have theirs.
\* realloc to no bytes frees, and setCapacity throws with mem left as it is: from there
\* on every use is undefined, at the latest the free of the destructor.
Reallocate(s, n) ==
    /\ Bytes(s, n) <= HeapMax
    /\ \E a \in Addresses, blocks \in Reallocated(Contents(s), Bytes(s, n) \div BlockSize[s]) :
          /\ a = mem[s] \/ a \notin DOMAIN heap
          /\ mem' = [mem EXCEPT ![s] = a]
          /\ heap' = [b \in (DOMAIN heap \ {mem[s]}) \cup {a} |->
                         IF b = a THEN ZeroOutFreeTailMemory(blocks, s) ELSE heap[b]]
    /\ capacity' = [capacity EXCEPT ![s] = n]
    /\ undefined' = \/ Dangling(s)
                     \/ Bytes(s, n) \div BlockSize[s] < length[s]
                     \/ (Bytes(s, n) = 0 /\ mem[s] # NullPtr)
    /\ wrapped' = (wrapped \/ BlockSize[s] * n >= SizeValues)

SetCapacity(s, n) ==
    /\ Alive(s)
    /\ n >= length[s] /\ n # capacity[s]
    /\ IF n = 0 THEN FreeMemory(s) /\ UNCHANGED <<capacity, wrapped>> ELSE Reallocate(s, n)
    /\ UNCHANGED <<life, length, loaded>>

Grown(s) == IF capacity[s] = 0 THEN 1 ELSE (2 * capacity[s]) % SizeValues

\* The doubled capacity differs from the present one; one that wraps is below the
\* length, and setCapacity throws.
AllocBlock(s) ==
    /\ Alive(s)
    /\ IF length[s] = capacity[s]
       THEN Grown(s) >= length[s] /\ Reallocate(s, Grown(s))
       ELSE UNCHANGED <<mem, capacity, heap, undefined, wrapped>>
    /\ length' = [length EXCEPT ![s] = @ + 1]
    /\ UNCHANGED <<life, loaded>>

\* load and store assert only that the key is below the length.  A key behind the last
\* block leaves the allocation, or, where its offset wraps too, is another key's block.
Accesses(s, key) ==
    /\ Alive(s)
    /\ key < length[s]
    /\ undefined' = (key >= Len(Contents(s)))

Load(s, key) ==
    /\ Accesses(s, key)
    /\ loaded' = IF undefined' THEN loaded ELSE heap[mem[s]][key + 1]
    /\ UNCHANGED <<life, fields, heap, wrapped>>

Store(s, key, v) ==
    /\ Accesses(s, key)
    /\ heap' = IF undefined' THEN heap ELSE [heap EXCEPT ![mem[s]][key + 1] = v]
    /\ UNCHANGED <<life, fields, loaded, wrapped>>

\* The defaulted move constructor copies pointer and numbers.
Move(from, to) ==
    /\ Alive(from) /\ life[to] = "none"
    /\ MoveFull \/ mem[from] = NullPtr
    /\ life' = [life EXCEPT ![to] = "alive"]
    /\ mem' = [mem EXCEPT ![to] = mem[from]]
    /\ length' = [length EXCEPT ![to] = length[from]]
    /\ capacity' = [capacity EXCEPT ![to] = capacity[from]]
    /\ UNCHANGED <<heap, loaded, undefined, wrapped>>

Destroy(s) ==
    /\ Alive(s)
    /\ life' = [life EXCEPT ![s] = "destroyed"]
    /\ FreeMemory(s)
    /\ UNCHANGED <<length, capacity, loaded, wrapped>>

Next ==
    \E s \in Stores :
       \/ Construct(s) \/ Destroy(s)
       \/ AllocBlock(s)
       \/ \E n \in Requests : SetCapacity(s, n)
       \/ \E key \in 0..length[s] : Load(s, key) \/ \E v \in Values : Store(s, key, v)
       \/ \E to \in Stores : Move(s, to)

Spec == Init /\ [][Next]_vars
-----------------------------------------------------------------------------
(* Properties.                                                              *)

\* load, store, realloc and free only ever touch memory that is allocated: a key handed
\* out has its block behind it.
NoUndefined == ~undefined

\* As long as the bytes of no capacity asked for wrapped size_t (nothing checks them):
\* no access to memory that is not allocated, and what is allocated is what the live
\* objects hold, each its own and as large as its capacity says: growing, shrinking and
\* destroying leak nothing and share nothing, and doubling wraps neither the capacity
\* nor its bytes.
MemoryOwned ==
    ~wrapped =>
       /\ NoUndefined
       /\ DOMAIN heap = {mem[s] : s \in {r \in Stores : life[r] = "alive"}} \ {NullPtr}
       /\ \A s \in Stores : Len(Contents(s)) = IF life[s] = "alive" THEN capacity[s] ELSE 0
       /\ \A s, r \in Stores : mem[s] = mem[r] => s = r \/ mem[s] = NullPtr
=============================================================================
