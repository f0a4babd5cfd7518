------------------------- MODULE LockingBlockGuard -------------------------
(***************************************************************************)
(* LockingBlockGuard of util/blockstore.cpp: threads load and store one    *)
(* block of several words under a readers-writer lock kept in one byte.    *)
(* The low values of the byte count readers, WriterBit marks the writer.   *)
(* Atomic operations are single steps on the latest value of the byte;     *)
(* what their memory orders leave open is in LockingBlockGuardOrder.       *)
(***************************************************************************)
EXTENDS Naturals, FiniteSets

CONSTANTS
    Threads,     \* callers of load and store
    Words,       \* words of the block, copied one by one in some order
    Values,      \* contents: a store writes one value into every word
    ReaderMask,  \* 7: a reader joins if at most this many are inside
    WriterBit,   \* 0x80
    LockValues,  \* 256: the lock is a uint8_t
    MaxOps       \* bound: calls of each thread

ASSUME GuardAssumption ==
    /\ IsFiniteSet(Threads)
    /\ Words # {} /\ Values # {}
    /\ ReaderMask \in Nat /\ WriterBit \in Nat /\ LockValues \in Nat
    /\ ReaderMask + 1 < WriterBit /\ WriterBit < LockValues
    /\ MaxOps \in Nat

VARIABLES
    lock,      \* _lock
    pc,        \* where each thread is in load or store
    expected,  \* local of LockGuardLoad's constructor and destructor
    todo,      \* words the thread has not copied yet
    value,     \* value the thread stores
    mem,       \* the block in the store
    buffer,    \* v of the thread's load
    ops        \* calls the thread has begun

vars == <<lock, pc, expected, todo, value, mem, buffer, ops>>

LoadStates  == {"peek", "join", "copyOut", "count", "leave"}
StoreStates == {"claim", "copyIn", "release"}
PcStates    == LoadStates \cup StoreStates \cup {"idle"}

\* Threads that hold the lock for reading or writing.
Readers == {t \in Threads : pc[t] \in {"copyOut", "count", "leave"}}
Writers == {t \in Threads : pc[t] \in {"copyIn", "release"}}

Init ==
    /\ lock = 0
    /\ pc = [t \in Threads |-> "idle"]
    /\ expected = [t \in Threads |-> 0]
    /\ todo = [t \in Threads |-> {}]
    /\ \E v \in Values :
          /\ value = [t \in Threads |-> v]
          /\ mem = [w \in Words |-> v]
          /\ buffer = [t \in Threads |-> mem]
    /\ ops = [t \in Threads |-> 0]

\* uint8_t arithmetic.
Incremented == IF lock + 1 = LockValues THEN 0 ELSE lock + 1
Decremented == IF lock = 0 THEN LockValues - 1 ELSE lock - 1

Goto(t, from, to) == pc[t] = from /\ pc' = [pc EXCEPT ![t] = to]

-----------------------------------------------------------------------------
(* load                                                                     *)

CallLoad(t) ==
    /\ Goto(t, "idle", "peek")
    /\ ops[t] < MaxOps /\ ops' = [ops EXCEPT ![t] = @ + 1]
    /\ UNCHANGED <<lock, expected, todo, value, mem, buffer>>

\* Mutant: the mask is dropped, a reader joins whatever the byte says.
PeekUnmasked(t) ==
    /\ Goto(t, "peek", "join")
    /\ expected' = [expected EXCEPT ![t] = lock]
    /\ UNCHANGED <<lock, todo, value, mem, buffer, ops>>

\* lock.load(memory_order_acquire) & 7
Peek(t) ==
    /\ Goto(t, "peek", "join")
    /\ expected' = [expected EXCEPT ![t] = lock % (ReaderMask + 1)]
    /\ UNCHANGED <<lock, todo, value, mem, buffer, ops>>

Join(t) ==
    /\ lock = expected[t]
    /\ Goto(t, "join", "copyOut")
    /\ lock' = Incremented
    /\ todo' = [todo EXCEPT ![t] = Words]
    /\ UNCHANGED <<expected, value, mem, buffer, ops>>

\* The weak exchange fails on another value, and may fail spuriously.
JoinFails(t) ==
    /\ Goto(t, "join", "peek")
    /\ UNCHANGED <<lock, expected, todo, value, mem, buffer, ops>>

CopyOut(t, w) ==
    /\ pc[t] = "copyOut" /\ w \in todo[t]
    /\ buffer' = [buffer EXCEPT ![t][w] = mem[w]]
    /\ todo' = [todo EXCEPT ![t] = @ \ {w}]
    /\ pc' = [pc EXCEPT ![t] = IF todo'[t] = {} THEN "count" ELSE "copyOut"]
    /\ UNCHANGED <<lock, expected, value, mem, ops>>

Count(t) ==
    /\ Goto(t, "count", "leave")
    /\ expected' = [expected EXCEPT ![t] = lock]
    /\ UNCHANGED <<lock, todo, value, mem, buffer, ops>>

\* Mutant: the reader stores the decremented count without comparing.
LeaveByStore(t) ==
    /\ Goto(t, "leave", "idle")
    /\ lock' = expected[t] - 1
    /\ UNCHANGED <<expected, todo, value, mem, buffer, ops>>

Leave(t) ==
    /\ lock = expected[t]
    /\ Goto(t, "leave", "idle")
    /\ lock' = Decremented
    /\ UNCHANGED <<expected, todo, value, mem, buffer, ops>>

LeaveFails(t) ==
    /\ Goto(t, "leave", "count")
    /\ UNCHANGED <<lock, expected, todo, value, mem, buffer, ops>>

-----------------------------------------------------------------------------
(* store.  The constructor of LockGuardStore retries in place.              *)

CallStore(t, v) ==
    /\ Goto(t, "idle", "claim")
    /\ value' = [value EXCEPT ![t] = v]
    /\ ops[t] < MaxOps /\ ops' = [ops EXCEPT ![t] = @ + 1]
    /\ UNCHANGED <<lock, expected, todo, mem, buffer>>

Claim(t) ==
    /\ lock = 0
    /\ Goto(t, "claim", "copyIn")
    /\ lock' = WriterBit
    /\ todo' = [todo EXCEPT ![t] = Words]
    /\ UNCHANGED <<expected, value, mem, buffer, ops>>

CopyIn(t, w) ==
    /\ pc[t] = "copyIn" /\ w \in todo[t]
    /\ mem' = [mem EXCEPT ![w] = value[t]]
    /\ todo' = [todo EXCEPT ![t] = @ \ {w}]
    /\ pc' = [pc EXCEPT ![t] = IF todo'[t] = {} THEN "release" ELSE "copyIn"]
    /\ UNCHANGED <<lock, expected, value, buffer, ops>>

\* Mutant: the writer leaves its bit set.
ReleaseKeepsBit(t) ==
    /\ Goto(t, "release", "idle")
    /\ UNCHANGED <<lock, expected, todo, value, mem, buffer, ops>>

Release(t) ==
    /\ Goto(t, "release", "idle")
    /\ lock' = 0
    /\ UNCHANGED <<expected, todo, value, mem, buffer, ops>>

Call(t) == CallLoad(t) \/ \E v \in Values : CallStore(t, v)

Step(t) ==
    \/ Peek(t) \/ Join(t) \/ JoinFails(t)
    \/ \E w \in Words : CopyOut(t, w) \/ CopyIn(t, w)
    \/ Count(t) \/ Leave(t) \/ LeaveFails(t)
    \/ Claim(t) \/ Release(t)

Next == \E t \in Threads : Call(t) \/ Step(t)

Spec == Init /\ [][Next]_vars

\* Threads keep running, and a weak exchange that finds the value it expects again
\* and again does not fail spuriously for ever.
LiveSpec ==
    /\ Spec
    /\ \A t \in Threads : WF_vars(Step(t)) /\ SF_vars(Join(t)) /\ SF_vars(Leave(t))
-----------------------------------------------------------------------------
(* Properties.                                                              *)

TypeOK ==
    /\ lock \in 0..LockValues - 1
    /\ pc \in [Threads -> PcStates]
    /\ expected \in [Threads -> 0..LockValues - 1]
    /\ todo \in [Threads -> SUBSET Words]
    /\ value \in [Threads -> Values]
    /\ mem \in [Words -> Values]
    /\ buffer \in [Threads -> [Words -> Values]]
    /\ ops \in [Threads -> 0..MaxOps]

\* The byte says who is inside: WriterBit for one writer without readers, or the
\* number of readers, which never reaches the writer's bit nor wraps.
LockCountsHolders ==
    /\ Writers = {} => lock = Cardinality(Readers) /\ lock <= ReaderMask + 1
    /\ Writers # {} => lock = WriterBit /\ Readers = {} /\ Cardinality(Writers) = 1

\* The guard implements an atomic register.  A store takes effect when it claims
\* the lock, a load when it joins the readers.
Uniform(v) == [w \in Words |-> v]

Block == IF \E t \in Threads : pc[t] = "copyIn"
         THEN Uniform(value[CHOOSE t \in Threads : pc[t] = "copyIn"])
         ELSE mem

Loaded == [t \in Threads |-> IF pc[t] = "copyOut" THEN mem ELSE buffer[t]]

Register == INSTANCE BlockRegister
                WITH Blocks <- {Uniform(v) : v \in Values}, block <- Block, loaded <- Loaded
ImplementsRegister == Register!Spec

\* Every load and store returns when calls do not keep arriving (MaxOps): no thread
\* is left spinning on a byte that nobody will change.
CallsReturn == \A t \in Threads : pc[t] # "idle" ~> pc[t] = "idle"
=============================================================================
