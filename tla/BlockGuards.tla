---------------------------- MODULE BlockGuards ----------------------------
(***************************************************************************)
(* The guards of util/blockstore.cpp over the stores BlockStoreManager     *)
(* hands out: each guard owns one block of a store that grows, and so      *)
(* moves, under it.  The block of a SharedPtrBlockGuard is a shared_ptr,   *)
(* that is moved by realloc and counted by its copies.  Calls of one       *)
(* thread; the lock of LockingBlockGuard is the subject of its own module. *)
(* A guard whose constructor throws is no guard, and no step.              *)
(***************************************************************************)
EXTENDS BlockStore

CONSTANTS
    Guards,      \* guard objects
    Kind,        \* their classes
    GuardSize,   \* their sizes: the block size each asks the manager for
    Pointers,    \* shared_ptr variables of the application
    Objects      \* what they point to; Zero is the empty shared_ptr

Kinds == {"fake", "atomic", "locking", "shared"}

ASSUME GuardAssumption ==
    /\ Kind \in [Guards -> Kinds]
    /\ Values = Objects \cup {Zero} /\ Zero \notin Objects
    /\ IsFiniteSet(Guards) /\ IsFiniteSet(Pointers)

VARIABLES
    stores,      \* BlockStoreManager::stores: block size |-> object
    guards,      \* the living guards: guard |-> its _store and key
    pointers,    \* the application's variables
    useCount     \* per object; 0 once it is deleted

With(f, x, v) == [y \in DOMAIN f \cup {x} |-> IF y = x THEN v ELSE f[y]]

guardVars == <<vars, stores, guards, pointers, useCount>>

GuardInit ==
    /\ Init
    /\ stores = <<>> /\ guards = <<>>
    /\ pointers = [p \in Pointers |-> Zero]
    /\ useCount = [o \in Objects |-> 0]

-----------------------------------------------------------------------------
(* BlockStoreManager                                                        *)

\* instance for a size seen the first time; afterwards it only looks up.
Instance(size) ==
    \E s \in Stores :
       /\ size \notin DOMAIN stores
       /\ BlockSize[s] = size /\ Construct(s)
       /\ stores' = With(stores, size, s)
       /\ UNCHANGED <<guards, pointers, useCount>>

Managed == {stores[size] : size \in DOMAIN stores}

\* Mutant: the destructor of a store does not free.
DeleteAllLeaking ==
    /\ DOMAIN guards = {} /\ Managed # {} /\ ~undefined
    /\ life' = [s \in Stores |-> IF s \in Managed THEN "destroyed" ELSE life[s]]
    /\ stores' = <<>>
    /\ UNCHANGED <<fields, heap, loaded, undefined, wrapped, guards, pointers, useCount>>

\* stores.clear(), when no guard is left ("for unittest").
DeleteAllInstances ==
    /\ DOMAIN guards = {} /\ Managed # {} /\ ~undefined
    /\ life' = [s \in Stores |-> IF s \in Managed THEN "destroyed" ELSE life[s]]
    /\ heap' = [a \in DOMAIN heap \ {mem[s] : s \in Managed} |-> heap[a]]
    /\ mem' = [s \in Stores |-> IF s \in Managed THEN NullPtr ELSE mem[s]]
    /\ stores' = <<>>
    /\ UNCHANGED <<length, capacity, loaded, undefined, wrapped, guards, pointers, useCount>>

-----------------------------------------------------------------------------
(* The guards                                                               *)

\* FakeBlockGuard keeps its value in the key.
ConstructFake(g) ==
    /\ Kind[g] = "fake" /\ g \notin DOMAIN guards
    /\ guards' = With(guards, g, [store |-> NullPtr, key |-> Zero])
    /\ UNCHANGED <<vars, stores, pointers, useCount>>

\* The other constructors.
ConstructGuard(g) ==
    /\ Kind[g] # "fake" /\ g \notin DOMAIN guards /\ GuardSize[g] \in DOMAIN stores
    /\ LET s == stores[GuardSize[g]] IN
       /\ AllocBlock(s)
       /\ guards' = With(guards, g, [store |-> s, key |-> length[s]])
    /\ UNCHANGED <<stores, pointers, useCount>>

Living(kind) == {g \in DOMAIN guards : Kind[g] = kind}

Block(g) == IF Kind[g] = "fake" THEN guards[g].key
                                ELSE Contents(guards[g].store)[guards[g].key + 1]

\* FakeBlockGuard<0> copies nothing: no step.
FakeLoad(g) ==
    /\ g \in Living("fake") /\ GuardSize[g] # 0
    /\ loaded' = guards[g].key
    /\ UNCHANGED <<life, fields, heap, undefined, wrapped, stores, guards, pointers, useCount>>

FakeStore(g, v) ==
    /\ g \in Living("fake") /\ GuardSize[g] # 0
    /\ guards' = [guards EXCEPT ![g].key = v]
    /\ UNCHANGED <<vars, stores, pointers, useCount>>

\* AtomicBlockGuard, and LockingBlockGuard between taking and leaving its lock.
GuardLoad(g) ==
    /\ g \in Living("atomic") \cup Living("locking")
    /\ Load(guards[g].store, guards[g].key)
    /\ UNCHANGED <<stores, guards, pointers, useCount>>

GuardStore(g, v) ==
    /\ g \in Living("atomic") \cup Living("locking")
    /\ Store(guards[g].store, guards[g].key, v)
    /\ UNCHANGED <<stores, guards, pointers, useCount>>

-----------------------------------------------------------------------------
(* shared_ptr                                                               *)

\* Assigning new to a shared_ptr that held old.
Assigned(old, new) ==
    [o \in Objects |-> useCount[o] + (IF o = new THEN 1 ELSE 0) - (IF o = old THEN 1 ELSE 0)]

MakeShared(p, o) ==
    /\ pointers[p] = Zero /\ useCount[o] = 0
    /\ pointers' = [pointers EXCEPT ![p] = o]
    /\ useCount' = Assigned(Zero, o)
    /\ UNCHANGED <<vars, stores, guards>>

Reset(p) ==
    /\ pointers[p] # Zero
    /\ pointers' = [pointers EXCEPT ![p] = Zero]
    /\ useCount' = Assigned(pointers[p], Zero)
    /\ UNCHANGED <<vars, stores, guards>>

SharedLoad(g, p) ==
    /\ g \in Living("shared")
    /\ Load(guards[g].store, guards[g].key)
    /\ pointers' = [pointers EXCEPT ![p] = Block(g)]
    /\ useCount' = Assigned(pointers[p], Block(g))
    /\ UNCHANGED <<stores, guards>>

SharedStore(g, p) ==
    /\ g \in Living("shared")
    /\ Store(guards[g].store, guards[g].key, pointers[p])
    /\ useCount' = Assigned(Block(g), pointers[p])
    /\ UNCHANGED <<stores, guards, pointers>>

\* Mutant: the destructor leaves the shared_ptr in the block.
DestroyWithoutInit(g) ==
    /\ g \in DOMAIN guards
    /\ guards' = [h \in DOMAIN guards \ {g} |-> guards[h]]
    /\ UNCHANGED <<vars, stores, pointers, useCount>>

\* The block is not given back, freeBlock "not implemented"; a shared_ptr is emptied.
DestroyGuard(g) ==
    /\ g \in DOMAIN guards
    /\ guards' = [h \in DOMAIN guards \ {g} |-> guards[h]]
    /\ IF Kind[g] = "shared"
       THEN /\ Store(guards[g].store, guards[g].key, Zero)
            /\ useCount' = Assigned(Block(g), Zero)
       ELSE UNCHANGED <<vars, useCount>>
    /\ UNCHANGED <<stores, pointers>>

-----------------------------------------------------------------------------

\* ICapacityControl of a store in use.
Resize(s) ==
    /\ \E n \in Requests : SetCapacity(s, n)
    /\ UNCHANGED <<stores, guards, pointers, useCount>>

GuardNext ==
    \/ \E s \in Stores : Resize(s) \/ Instance(BlockSize[s])
    \/ DeleteAllInstances
    \/ \E g \in Guards :
          \/ ConstructFake(g) \/ ConstructGuard(g) \/ DestroyGuard(g)
          \/ FakeLoad(g) \/ GuardLoad(g)
          \/ \E v \in Values : FakeStore(g, v) \/ GuardStore(g, v)
          \/ \E p \in Pointers : SharedLoad(g, p) \/ SharedStore(g, p)
    \/ \E p \in Pointers : Reset(p) \/ \E o \in Objects : MakeShared(p, o)

GuardSpec == GuardInit /\ [][GuardNext]_guardVars
-----------------------------------------------------------------------------
(* Properties.                                                              *)

\* An object lives exactly as long as a variable of the application or the block of a
\* living guard points to it, and is counted once for each: growth of the store moves
\* the shared_ptr without copying it, a new block is an empty one, and the destructor
\* of a guard lets go of its object although the block stays.
UseCountsAgree ==
    \A o \in Objects :
        useCount[o] = Cardinality({p \in Pointers : pointers[p] = o})
                    + Cardinality({g \in Living("shared") : Block(g) = o})

\* A guard of any class is a block of its own, zero at first, that keeps what was
\* stored last through it, whatever happens to other guards and to the store.
Blocks == INSTANCE GuardedBlocks WITH block <- [g \in DOMAIN guards |-> Block(g)]
OwnBlocks == Blocks!Spec
=============================================================================
