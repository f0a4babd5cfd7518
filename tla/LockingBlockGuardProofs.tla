---------------------- MODULE LockingBlockGuardProofs ----------------------
(***************************************************************************)
(* Theorems about LockingBlockGuard for any finite set of threads, any     *)
(* block size and any lock whose reader values stay below the writer bit.  *)
(***************************************************************************)
EXTENDS LockingBlockGuard, FiniteSetTheorems, TLAPS

(***************************************************************************)
(* Type correctness.                                                       *)
(***************************************************************************)

LEMMA MaskedIsSmall ==
    ASSUME NEW x \in Nat, NEW n \in Nat \ {0}
    PROVE  x % n \in 0..n - 1
  OBVIOUS

\* Every variable keeps its type; in particular the lock stays a byte.
LEMMA Typing == Spec => []TypeOK
<1>1. Init => TypeOK
  BY GuardAssumption DEF Init, TypeOK, PcStates
<1>2. TypeOK /\ [Next]_vars => TypeOK'
  <2> SUFFICES ASSUME TypeOK, [Next]_vars PROVE TypeOK'
    OBVIOUS
  <2> USE GuardAssumption DEF TypeOK, PcStates, LoadStates, StoreStates, Goto
  <2>1. ASSUME NEW t \in Threads, CallLoad(t) PROVE TypeOK'
    BY <2>1 DEF CallLoad
  <2>2. ASSUME NEW t \in Threads, NEW v \in Values, CallStore(t, v) PROVE TypeOK'
    BY <2>2 DEF CallStore
  <2>3. ASSUME NEW t \in Threads, Peek(t) PROVE TypeOK'
    <3>1. lock % (ReaderMask + 1) \in 0..LockValues - 1
      <4>1. ReaderMask + 1 \in Nat \ {0}
        OBVIOUS
      <4>2. lock % (ReaderMask + 1) \in 0..ReaderMask + 1 - 1
        BY <4>1, MaskedIsSmall
      <4> QED
        BY <4>2
    <3> QED
      BY <2>3, <3>1 DEF Peek
  <2>4. ASSUME NEW t \in Threads, Join(t) PROVE TypeOK'
    <3>1. Incremented \in 0..LockValues - 1
      BY DEF Incremented
    <3> QED
      BY <2>4, <3>1 DEF Join
  <2>5. ASSUME NEW t \in Threads, JoinFails(t) PROVE TypeOK'
    BY <2>5 DEF JoinFails
  <2>6. ASSUME NEW t \in Threads, NEW w \in Words, CopyOut(t, w) PROVE TypeOK'
    BY <2>6 DEF CopyOut
  <2>7. ASSUME NEW t \in Threads, NEW w \in Words, CopyIn(t, w) PROVE TypeOK'
    BY <2>7 DEF CopyIn
  <2>8. ASSUME NEW t \in Threads, Count(t) PROVE TypeOK'
    BY <2>8 DEF Count
  <2>9. ASSUME NEW t \in Threads, Leave(t) PROVE TypeOK'
    <3>1. Decremented \in 0..LockValues - 1
      BY DEF Decremented
    <3> QED
      BY <2>9, <3>1 DEF Leave
  <2>10. ASSUME NEW t \in Threads, LeaveFails(t) PROVE TypeOK'
    BY <2>10 DEF LeaveFails
  <2>11. ASSUME NEW t \in Threads, Claim(t) PROVE TypeOK'
    BY <2>11 DEF Claim
  <2>12. ASSUME NEW t \in Threads, Release(t) PROVE TypeOK'
    BY <2>12 DEF Release
  <2>13. ASSUME UNCHANGED vars PROVE TypeOK'
    BY <2>13 DEF vars
  <2> QED
    BY <2>1, <2>2, <2>3, <2>4, <2>5, <2>6, <2>7, <2>8, <2>9, <2>10, <2>11, <2>12, <2>13
    DEF Next, Call, Step
<1> QED
  BY <1>1, <1>2, PTL DEF Spec

(***************************************************************************)
(* The lock.  LockCountsHolders is not inductive alone: a thread joins on  *)
(* the value it peeked, which has to be a reader count within the mask.    *)
(***************************************************************************)

PeekedIsCount == \A t \in Threads : pc[t] = "join" => expected[t] \in 0..ReaderMask

OneWriter == \A s, t \in Writers : s = t

LockByte ==
    /\ Writers = {} => lock = Cardinality(Readers) /\ lock <= ReaderMask + 1
    /\ Writers # {} => lock = WriterBit /\ Readers = {}

LockInv == PeekedIsCount /\ OneWriter /\ LockByte

LEMMA ReadersFinite == IsFiniteSet(Readers) /\ Cardinality(Readers) \in Nat
  <1>1. Readers \in SUBSET Threads
    BY DEF Readers
  <1>2. IsFiniteSet(Readers)
    BY <1>1, FS_Subset, GuardAssumption
  <1> QED
    BY <1>2, FS_CardinalityType

LEMMA LockInvInit == Init => LockInv
  <1> SUFFICES ASSUME Init PROVE LockInv
    OBVIOUS
  <1>1. Readers = {} /\ Writers = {}
    BY DEF Init, Readers, Writers
  <1> QED
    BY <1>1, FS_EmptySet, GuardAssumption DEF Init, LockInv, PeekedIsCount, OneWriter, LockByte

\* A step that moves no thread into or out of the critical sections.
LEMMA LockInvKept ==
  ASSUME LockInv, Readers' = Readers, Writers' = Writers, lock' = lock, PeekedIsCount'
  PROVE  LockInv'
  BY DEF LockInv, OneWriter, LockByte

LEMMA LockInvStep == TypeOK /\ LockInv /\ [Next]_vars => LockInv'
  <1> SUFFICES ASSUME TypeOK, LockInv, [Next]_vars PROVE LockInv'
    OBVIOUS
  <1> USE GuardAssumption DEF TypeOK, Goto
  <1>1. ASSUME NEW t \in Threads, CallLoad(t) \/ \E v \in Values : CallStore(t, v) PROVE LockInv'
    <2>1. Readers' = Readers /\ Writers' = Writers /\ lock' = lock
      BY <1>1 DEF CallLoad, CallStore, Readers, Writers
    <2>2. PeekedIsCount'
      BY <1>1 DEF CallLoad, CallStore, PeekedIsCount, LockInv
    <2> QED
      BY <2>1, <2>2, LockInvKept
  <1>2. ASSUME NEW t \in Threads, Peek(t) PROVE LockInv'
    <2>1. Readers' = Readers /\ Writers' = Writers /\ lock' = lock
      BY <1>2 DEF Peek, Readers, Writers
    <2>2. lock % (ReaderMask + 1) \in 0..ReaderMask
      <3>1. ReaderMask + 1 \in Nat \ {0} /\ lock \in Nat
        OBVIOUS
      <3>2. lock % (ReaderMask + 1) \in 0..ReaderMask + 1 - 1
        BY <3>1, MaskedIsSmall
      <3> QED
        BY <3>2
    <2>3. PeekedIsCount'
      BY <1>2, <2>2 DEF Peek, PeekedIsCount, LockInv
    <2> QED
      BY <2>1, <2>3, LockInvKept
  <1>3. ASSUME NEW t \in Threads, Join(t) PROVE LockInv'
    <2>1. lock \in 0..ReaderMask
      BY <1>3 DEF Join, LockInv, PeekedIsCount
    <2>2. Writers = {} /\ lock = Cardinality(Readers)
      BY <2>1 DEF LockInv, LockByte
    <2>3. Readers' = Readers \cup {t} /\ Writers' = Writers /\ t \notin Readers
      BY <1>3 DEF Join, Readers, Writers
    <2>4. Cardinality(Readers') = lock + 1
      BY <2>2, <2>3, ReadersFinite, FS_AddElement
    <2>5. lock' = lock + 1
      BY <1>3, <2>1 DEF Join, Incremented
    <2>6. PeekedIsCount'
      BY <1>3 DEF Join, PeekedIsCount, LockInv
    <2> QED
      BY <2>1, <2>2, <2>3, <2>4, <2>5, <2>6 DEF LockInv, OneWriter, LockByte
  <1>4. ASSUME NEW t \in Threads, JoinFails(t) \/ LeaveFails(t) \/ Count(t) PROVE LockInv'
    <2>1. Readers' = Readers /\ Writers' = Writers /\ lock' = lock
      BY <1>4 DEF JoinFails, LeaveFails, Count, Readers, Writers
    <2>2. PeekedIsCount'
      BY <1>4 DEF JoinFails, LeaveFails, Count, PeekedIsCount, LockInv
    <2> QED
      BY <2>1, <2>2, LockInvKept
  <1>5. ASSUME NEW t \in Threads, NEW w \in Words, CopyOut(t, w) \/ CopyIn(t, w) PROVE LockInv'
    <2>1. Readers' = Readers /\ Writers' = Writers /\ lock' = lock
      BY <1>5 DEF CopyOut, CopyIn, Readers, Writers
    <2>2. PeekedIsCount'
      BY <1>5 DEF CopyOut, CopyIn, PeekedIsCount, LockInv
    <2> QED
      BY <2>1, <2>2, LockInvKept
  <1>6. ASSUME NEW t \in Threads, Leave(t) PROVE LockInv'
    <2>1. t \in Readers
      BY <1>6 DEF Leave, Readers
    <2>2. Writers = {} /\ lock = Cardinality(Readers) /\ lock <= ReaderMask + 1
      BY <2>1 DEF LockInv, LockByte
    <2>3. Readers' = Readers \ {t} /\ Writers' = Writers
      BY <1>6 DEF Leave, Readers, Writers
    <2>4. lock # 0
      BY <2>1, <2>2, ReadersFinite, FS_EmptySet
    <2>5. Cardinality(Readers') = lock - 1
      BY <2>1, <2>2, <2>3, ReadersFinite, FS_RemoveElement
    <2>6. lock' = lock - 1
      BY <1>6, <2>4 DEF Leave, Decremented
    <2>7. PeekedIsCount'
      BY <1>6 DEF Leave, PeekedIsCount, LockInv
    <2> QED
      BY <2>2, <2>3, <2>5, <2>6, <2>7 DEF LockInv, OneWriter, LockByte
  <1>7. ASSUME NEW t \in Threads, Claim(t) PROVE LockInv'
    <2>1. Writers = {} /\ Cardinality(Readers) = 0
      BY <1>7 DEF Claim, LockInv, LockByte
    <2>2. Readers = {}
      BY <2>1, ReadersFinite, FS_EmptySet
    <2>3. Readers' = Readers /\ Writers' = {t}
      BY <1>7, <2>1 DEF Claim, Readers, Writers
    <2>4. PeekedIsCount'
      BY <1>7 DEF Claim, PeekedIsCount, LockInv
    <2> QED
      BY <1>7, <2>2, <2>3, <2>4 DEF Claim, LockInv, OneWriter, LockByte
  <1>8. ASSUME NEW t \in Threads, Release(t) PROVE LockInv'
    <2>1. t \in Writers
      BY <1>8 DEF Release, Writers
    <2>2. Readers = {} /\ \A s \in Writers : s = t
      BY <2>1 DEF LockInv, LockByte, OneWriter
    <2>3. Readers' = {} /\ Writers' = {}
      BY <1>8, <2>2 DEF Release, Readers, Writers
    <2>4. PeekedIsCount'
      BY <1>8 DEF Release, PeekedIsCount, LockInv
    <2> QED
      BY <1>8, <2>3, <2>4, FS_EmptySet DEF Release, LockInv, OneWriter, LockByte
  <1>9. ASSUME UNCHANGED vars PROVE LockInv'
    <2>1. Readers' = Readers /\ Writers' = Writers /\ lock' = lock
      BY <1>9 DEF vars, Readers, Writers
    <2>2. PeekedIsCount'
      BY <1>9 DEF vars, PeekedIsCount, LockInv
    <2> QED
      BY <2>1, <2>2, LockInvKept
  <1> QED
    BY <1>1, <1>2, <1>3, <1>4, <1>5, <1>6, <1>7, <1>8, <1>9 DEF Next, Call, Step

\* Readers exclude the writer and writers each other: at every moment the lock byte
\* is the number of readers inside, at most one above the mask, or the writer bit
\* with exactly one writer inside.
THEOREM LockCounts == Spec => []LockCountsHolders
<1>1. TypeOK /\ LockInv => LockCountsHolders
  <2> SUFFICES ASSUME TypeOK, LockInv, Writers # {} PROVE Cardinality(Writers) = 1
    BY DEF LockInv, LockByte, LockCountsHolders
  <2>1. PICK t \in Writers : Writers = {t}
    BY DEF LockInv, OneWriter
  <2> QED
    BY <2>1, FS_Singleton
<1> QED
  BY <1>1, LockInvInit, LockInvStep, Typing, PTL DEF Spec

(***************************************************************************)
(* The refinement.  What the lock protects: copies in progress agree with  *)
(* the block, and no torn block is left behind.                            *)
(***************************************************************************)

Blocks == {Uniform(v) : v \in Values}

CopyingOut == \A t \in Threads : pc[t] = "copyOut" =>
                  \A w \in Words \ todo[t] : buffer[t][w] = mem[w]
CopyingIn  == \A t \in Threads : pc[t] = "copyIn" =>
                  \A w \in Words \ todo[t] : mem[w] = value[t]
WholeBlock == (\A t \in Threads : pc[t] # "copyIn") => mem \in Blocks

DataInv == CopyingOut /\ CopyingIn /\ WholeBlock

\* While a thread copies in, nobody else is in a critical section.
LEMMA WriterIsAlone ==
  ASSUME LockInv, NEW t \in Threads, pc[t] = "copyIn"
  PROVE  \A s \in Threads : /\ pc[s] # "copyOut"
                            /\ pc[s] = "copyIn" => s = t
  BY DEF LockInv, LockByte, OneWriter, Readers, Writers

\* A lock value within the mask, or zero, means that no thread copies in.
LEMMA CountMeansNoWriter ==
  ASSUME LockInv, lock \in 0..ReaderMask
  PROVE  \A s \in Threads : pc[s] # "copyIn"
  BY GuardAssumption DEF LockInv, LockByte, Writers

LEMMA ZeroMeansNoHolder ==
  ASSUME LockInv, lock = 0
  PROVE  \A s \in Threads : pc[s] \notin {"copyIn", "copyOut"}
  <1>1. Writers = {} /\ Cardinality(Readers) = 0
    BY GuardAssumption DEF LockInv, LockByte
  <1>2. Readers = {}
    BY <1>1, ReadersFinite, FS_EmptySet
  <1> QED
    BY <1>1, <1>2 DEF Readers, Writers

LEMMA DataInvInit == Init => DataInv
  BY DEF Init, DataInv, CopyingOut, CopyingIn, WholeBlock, Blocks, Uniform

LEMMA DataInvStep == TypeOK /\ LockInv /\ DataInv /\ [Next]_vars => DataInv'
  <1> SUFFICES ASSUME TypeOK, LockInv, DataInv, [Next]_vars PROVE DataInv'
    OBVIOUS
  <1> USE DEF TypeOK, Goto, DataInv, CopyingOut, CopyingIn, WholeBlock
  <1>1. ASSUME NEW t \in Threads,
               CallLoad(t) \/ Peek(t) \/ JoinFails(t) \/ Count(t) \/ Leave(t) \/ LeaveFails(t)
                  \/ Release(t) \/ \E v \in Values : CallStore(t, v)
        PROVE  DataInv'
    <2>1. UNCHANGED <<mem, buffer, todo>>
      BY <1>1 DEF CallLoad, Peek, JoinFails, Count, Leave, LeaveFails, Release, CallStore
    <2>2. \A s \in Threads : /\ pc'[s] = "copyOut" <=> pc[s] = "copyOut"
                             /\ pc'[s] = "copyIn" <=> pc[s] = "copyIn"
      BY <1>1 DEF CallLoad, Peek, JoinFails, Count, Leave, LeaveFails, Release, CallStore
    <2>3. \A s \in Threads : pc[s] = "copyIn" => value'[s] = value[s]
      BY <1>1 DEF CallLoad, Peek, JoinFails, Count, Leave, LeaveFails, Release, CallStore
    <2> QED
      BY <2>1, <2>2, <2>3
  <1>2. ASSUME NEW t \in Threads, Join(t) PROVE DataInv'
    BY <1>2 DEF Join
  <1>3. ASSUME NEW t \in Threads, NEW w \in Words, CopyOut(t, w) PROVE DataInv'
    <2>1. CopyingOut'
      BY <1>3 DEF CopyOut
    <2> QED
      BY <1>3, <2>1 DEF CopyOut
  <1>4. ASSUME NEW t \in Threads, Claim(t) PROVE DataInv'
    <2>1. CopyingOut' /\ CopyingIn'
      BY <1>4 DEF Claim
    <2> QED
      BY <1>4, <2>1 DEF Claim
  <1>5. ASSUME NEW t \in Threads, NEW w \in Words, CopyIn(t, w) PROVE DataInv'
    <2>1. \A s \in Threads : pc[s] # "copyOut" /\ (pc[s] = "copyIn" => s = t)
      BY <1>5, WriterIsAlone DEF CopyIn
    <2>2. CopyingOut'
      BY <1>5, <2>1 DEF CopyIn
    <2>3. CopyingIn'
      BY <1>5, <2>1 DEF CopyIn
    <2>4. CASE todo'[t] = {}
      <3>1. mem' = Uniform(value[t])
        BY <1>5, <2>4 DEF CopyIn, Uniform
      <3> QED
        BY <2>2, <2>3, <3>1 DEF Blocks
    <2>5. CASE todo'[t] # {}
      BY <1>5, <2>2, <2>3, <2>5 DEF CopyIn
    <2> QED
      BY <2>4, <2>5
  <1>6. ASSUME UNCHANGED vars PROVE DataInv'
    BY <1>6 DEF vars
  <1> QED
    BY <1>1, <1>2, <1>3, <1>4, <1>5, <1>6 DEF Next, Call, Step

LEMMA BlockWhileCopying ==
  ASSUME OneWriter, NEW t \in Threads, pc[t] = "copyIn"
  PROVE  Block = Uniform(value[t])
  <1>1. \A s \in Threads : pc[s] = "copyIn" => s = t
    BY DEF OneWriter, Writers
  <1>2. (CHOOSE s \in Threads : pc[s] = "copyIn") = t
    BY <1>1
  <1> QED
    BY <1>2 DEF Block

LEMMA BlockAtRest ==
  ASSUME \A t \in Threads : pc[t] # "copyIn"
  PROVE  Block = mem
  BY DEF Block

LEMMA RegisterInit == Init => Register!Init
  BY DEF Init, Register!Init, Block, Loaded, Uniform

LEMMA RegisterStep ==
  ASSUME TypeOK, LockInv, LockInv', DataInv, [Next]_vars
  PROVE  [Register!Next]_<<Block, Loaded>>
  <1> USE DEF TypeOK, Goto
  <1>1. ASSUME NEW t \in Threads,
               CallLoad(t) \/ Peek(t) \/ JoinFails(t) \/ Count(t) \/ Leave(t) \/ LeaveFails(t)
                  \/ Release(t)
        PROVE  UNCHANGED <<Block, Loaded>>
    <2>1. UNCHANGED <<value, mem, buffer>>
      BY <1>1 DEF CallLoad, Peek, JoinFails, Count, Leave, LeaveFails, Release
    <2>2. /\ pc[t] \notin {"copyIn", "copyOut"} /\ pc'[t] \notin {"copyIn", "copyOut"}
          /\ \A r \in Threads : r # t => pc'[r] = pc[r]
      BY <1>1 DEF CallLoad, Peek, JoinFails, Count, Leave, LeaveFails, Release
    <2>3. \A r \in Threads : pc'[r] = "copyIn" <=> pc[r] = "copyIn"
      BY <2>2
    <2>4. UNCHANGED Block
      BY <2>1, <2>3 DEF Block
    <2>5. UNCHANGED Loaded
      BY <2>1, <2>2 DEF Loaded
    <2> QED
      BY <2>4, <2>5
  <1>2. ASSUME NEW t \in Threads, NEW v \in Values, CallStore(t, v)
        PROVE  UNCHANGED <<Block, Loaded>>
    <2>1. \A s \in Threads : pc'[s] = "copyIn" <=> pc[s] = "copyIn"
      BY <1>2 DEF CallStore
    <2>2. \A s \in Threads : pc[s] = "copyIn" => value'[s] = value[s]
      BY <1>2 DEF CallStore
    <2>3. Block' = Block
      <3>1. CASE \A s \in Threads : pc[s] # "copyIn"
        BY <1>2, <2>1, <3>1 DEF CallStore, Block
      <3>2. ASSUME NEW s \in Threads, pc[s] = "copyIn" PROVE Block' = Block
        <4>1. Block = Uniform(value[s])
          BY <3>2, BlockWhileCopying DEF LockInv
        <4>2. \A r \in Threads : pc'[r] = "copyIn" => r = s
          BY <2>1, <3>2, WriterIsAlone
        <4>3. (CHOOSE r \in Threads : pc'[r] = "copyIn") = s
          BY <2>1, <3>2, <4>2
        <4> QED
          BY <2>1, <2>2, <3>2, <4>1, <4>3 DEF Block, Uniform
      <3> QED
        BY <3>1, <3>2
    <2> QED
      BY <1>2, <2>3 DEF CallStore, Loaded
  <1>3. ASSUME NEW t \in Threads, Join(t) PROVE Register!Load(t)
    <2>1. \A s \in Threads : pc[s] # "copyIn"
      BY <1>3, CountMeansNoWriter DEF Join, LockInv, PeekedIsCount
    <2>2. Block = mem /\ Block' = mem
      BY <1>3, <2>1 DEF Join, Block
    <2>3. Loaded' = [Loaded EXCEPT ![t] = mem]
      BY <1>3 DEF Join, Loaded
    <2> QED
      BY <2>2, <2>3 DEF Register!Load
  <1>4. ASSUME NEW t \in Threads, NEW w \in Words, CopyOut(t, w)
        PROVE  UNCHANGED <<Block, Loaded>>
    <2>1. Block' = Block
      BY <1>4 DEF CopyOut, Block
    <2>2. CASE todo'[t] = {}
      <3>1. \A x \in Words : buffer'[t][x] = mem[x]
        BY <1>4, <2>2 DEF CopyOut, DataInv, CopyingOut
      <3>2. buffer'[t] = mem
        BY <1>4, <3>1 DEF CopyOut
      <3> QED
        BY <1>4, <2>1, <2>2, <3>2 DEF CopyOut, Loaded
    <2>3. CASE todo'[t] # {}
      BY <1>4, <2>1, <2>3 DEF CopyOut, Loaded
    <2> QED
      BY <2>2, <2>3
  <1>5. ASSUME NEW t \in Threads, Claim(t) PROVE Register!Store
    <2>1. \A s \in Threads : pc[s] \notin {"copyIn", "copyOut"}
      BY <1>5, ZeroMeansNoHolder DEF Claim
    <2>2. OneWriter' /\ pc'[t] = "copyIn"
      BY <1>5 DEF LockInv, Claim
    <2>3. Block' = Uniform(value[t])
      <3>1. \A s \in Threads : pc'[s] = "copyIn" <=> s = t
        BY <1>5, <2>1 DEF Claim
      <3>2. (CHOOSE s \in Threads : pc'[s] = "copyIn") = t
        BY <3>1
      <3> QED
        BY <1>5, <3>1, <3>2 DEF Claim, Block, Uniform
    <2>4. Loaded' = Loaded
      BY <1>5, <2>1 DEF Claim, Loaded
    <2> QED
      BY <2>3, <2>4 DEF Register!Store
  <1>6. ASSUME NEW t \in Threads, NEW w \in Words, CopyIn(t, w)
        PROVE  UNCHANGED <<Block, Loaded>>
    <2>1. \A s \in Threads : pc[s] # "copyOut" /\ (pc[s] = "copyIn" => s = t)
      BY <1>6, WriterIsAlone DEF CopyIn
    <2>2. Block = Uniform(value[t])
      BY <1>6, BlockWhileCopying DEF CopyIn, LockInv
    <2>3. Loaded' = Loaded
      BY <1>6, <2>1 DEF CopyIn, Loaded
    <2>4. CASE todo'[t] = {}
      <3>1. mem' = Uniform(value[t])
        BY <1>6, <2>4 DEF CopyIn, Uniform, DataInv, CopyingIn
      <3>2. \A s \in Threads : pc'[s] # "copyIn"
        BY <1>6, <2>1, <2>4 DEF CopyIn
      <3> QED
        BY <2>2, <2>3, <3>1, <3>2 DEF Block
    <2>5. CASE todo'[t] # {}
      <3>1. \A s \in Threads : pc'[s] = "copyIn" <=> s = t
        BY <1>6, <2>1, <2>5 DEF CopyIn
      <3>2. (CHOOSE s \in Threads : pc'[s] = "copyIn") = t
        BY <3>1
      <3> QED
        BY <1>6, <2>2, <2>3, <3>1, <3>2 DEF CopyIn, Block, Uniform
    <2> QED
      BY <2>4, <2>5
  <1>7. ASSUME UNCHANGED vars PROVE UNCHANGED <<Block, Loaded>>
    BY <1>7 DEF vars, Block, Loaded
  <1> QED
    BY <1>1, <1>2, <1>3, <1>4, <1>5, <1>6, <1>7 DEF Next, Call, Step, Register!Next

\* LockingBlockGuard implements an atomic register for any number of threads and
\* words: no load returns a block that no single store has left.
THEOREM Refinement == Spec => ImplementsRegister
<1>1. Init => TypeOK
  BY GuardAssumption DEF Init, TypeOK, PcStates
<1> QED
  BY RegisterInit, RegisterStep, LockInvInit, LockInvStep, DataInvInit, DataInvStep, Typing, PTL
  DEF Spec, ImplementsRegister, Register!Spec
=============================================================================
