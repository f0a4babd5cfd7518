------------------------ MODULE NadamSessionProofs ------------------------
(***************************************************************************)
(* Theorems about NadamSession for any message table, any delegates and    *)
(* any supply of thread ids.                                               *)
(***************************************************************************)
EXTENDS NadamSession, TLAPS

(***************************************************************************)
(* Type correctness.                                                       *)
(***************************************************************************)

LEMMA EntryType ==
  ASSUME NEW d \in Delegates \cup {NullDelegate}
  PROVE  Entry(d) \in [Fields -> Delegates \cup {NullDelegate, Stock}]
  BY SessionAssumption DEF Entry, BufferOf, Fields

LEMMA NoSettingType == NoSetting \in [name : Names, delegate : Delegates \cup {NullDelegate}]
  BY SessionAssumption DEF NoSetting

\* Every variable keeps its type; in particular no length above HASH_LENGTH_MAX,
\* for which recvWorker's hash[] would be too short, enters mbr.hashLength.
LEMMA Typing == Spec => []TypeOK
<1>1. Init => TypeOK
  <2> SUFFICES ASSUME Init PROVE TypeOK
    OBVIOUS
  <2>1. setting \in [name : Names, delegate : Delegates \cup {NullDelegate}]
    BY NoSettingType DEF Init
  <2>2. delegates \in [Names -> [Fields -> Delegates \cup {NullDelegate, Stock}]]
    BY EntryType DEF Init
  <2>3. NoSetting.name \in Names
    BY SessionAssumption DEF NoSetting
  <2>4. index \in [Threads -> Names]
    BY <2>3 DEF Init
  <2>5. /\ usable \in BOOLEAN /\ isThreadRunning \in BOOLEAN
        /\ receiving \in BOOLEAN /\ aborted \in Assertions \cup {"no"}
    BY DEF Init
  <2>6. pc \in PcStates /\ api \in {"init", "initiate", "stop"}
    BY DEF Init, PcStates
  <2>7. worker \in [Threads -> WorkerStates] /\ hash \in [Threads -> 0..HashLengthMax]
    BY SessionAssumption DEF Init, WorkerStates
  <2>8. /\ unset \subseteq Fields /\ members \subseteq AllMembers /\ hashKeyMap \subseteq Names
        /\ cancelled \subseteq Threads \cup {NoThread}
        /\ recvStart \subseteq Delegates \cup {NullDelegate, Stock}
        /\ hashLength \in 0..HashLengthMax
    BY SessionAssumption DEF Init
  <2>9. /\ threadId \in Threads \cup {NoThread}
        /\ buffer \in [Threads -> Delegates \cup {NullDelegate, Stock}]
        /\ called \in [Threads -> Delegates \cup {NullDelegate, Stock}]
    BY DEF Init
  <2> QED
    BY <2>1, <2>2, <2>4, <2>5, <2>6, <2>7, <2>8, <2>9 DEF TypeOK
<1>2. TypeOK /\ [Next]_vars => TypeOK'
  <2> SUFFICES ASSUME TypeOK, [Next]_vars PROVE TypeOK'
    OBVIOUS
  <2> USE SessionAssumption DEF TypeOK
  <2>1. ASSUME App PROVE TypeOK'
    <3> USE DEF PcStates, app, mbr, thread, locals
    <3>1. CASE CallInit \/ CallStop \/ CallInitiate
      BY <3>1 DEF CallInit, CallStop, CallInitiate, CancelOrSkip, AfterCancel
    <3>2. ASSUME NEW n \in Names, NEW d \in Delegates \cup {NullDelegate}, CallSetDelegate(n, d)
          PROVE  TypeOK'
      BY <3>2 DEF CallSetDelegate
    <3>3. ASSUME NEW f \in Fields, StoreField(f) PROVE TypeOK'
      <4>1. Entry(setting.delegate)[f] \in Delegates \cup {NullDelegate, Stock}
        <5>1. setting.delegate \in Delegates \cup {NullDelegate}
          OBVIOUS
        <5>2. Entry(setting.delegate) \in [Fields -> Delegates \cup {NullDelegate, Stock}]
          BY <5>1, EntryType
        <5> QED
          BY <5>2
      <4>2. delegates' \in [Names -> [Fields -> Delegates \cup {NullDelegate, Stock}]]
        BY <3>3, <4>1 DEF StoreField
      <4>3. setting' \in [name : Names, delegate : Delegates \cup {NullDelegate}]
        BY <3>3, NoSettingType DEF StoreField
      <4> QED
        BY <3>3, <4>2, <4>3 DEF StoreField
    <3>4. CASE HandshakeSendHashLength \/ HandshakeHandleHashLengthRecv \/ ClearHashMap
      BY <3>4 DEF HandshakeSendHashLength, HandshakeHandleHashLengthRecv, ClearHashMap
    <3>5. ASSUME NEW n \in Names, FillHashMap(n) PROVE TypeOK'
      BY <3>5 DEF FillHashMap, CancelOrSkip, AfterCancel
    <3>6. CASE CancelRecvThread
      BY <3>6 DEF CancelRecvThread
    <3>7. CASE JoinRecvThread
      BY <3>7 DEF JoinRecvThread, AfterCancel, WorkerStates
    <3>8. CASE FreeMembers
      <4>1. /\ usable' \in BOOLEAN /\ isThreadRunning' \in BOOLEAN
            /\ receiving' \in BOOLEAN /\ aborted' \in Assertions \cup {"no"}
        BY <3>8 DEF FreeMembers
      <4>2. hashLength' \in 0..HashLengthMax
        BY <3>8 DEF FreeMembers
      <4> QED
        BY <3>8, <4>1, <4>2 DEF FreeMembers
    <3>9. CASE AllocateMembers
      BY <3>9, EntryType DEF AllocateMembers, AllMembers
    <3>10. ASSUME NEW t \in Threads, CreateRecvThread(t) PROVE TypeOK'
      <4>1. /\ usable' \in BOOLEAN /\ isThreadRunning' \in BOOLEAN
            /\ receiving' \in BOOLEAN /\ aborted' \in Assertions \cup {"no"}
        BY <3>10 DEF CreateRecvThread
      <4>2. worker' \in [Threads -> WorkerStates] /\ threadId' \in Threads \cup {NoThread}
        BY <3>10 DEF CreateRecvThread, WorkerStates, UsesMembers
      <4>3. pc' \in PcStates
        BY <3>10 DEF CreateRecvThread
      <4> QED
        BY <3>10, <4>1, <4>2, <4>3 DEF CreateRecvThread
    <3>11. CASE InitiateReturns
      BY <3>11 DEF InitiateReturns
    <3>12. CASE PutFails \/ CreateFails \/ CancelFails
      BY <3>12 DEF PutFails, CreateFails, CancelFails, Abort, Assertions
    <3> QED
      BY <2>1, <3>1, <3>2, <3>3, <3>4, <3>5, <3>6, <3>7, <3>8, <3>9, <3>10, <3>11, <3>12 DEF App
  <2>2. ASSUME NEW t \in Threads, Receiver(t) PROVE TypeOK'
    <3> USE DEF WorkerStep, WorkerStates, UsesMembers, RecvStates, app, mbr, thread, locals
    <3>1. ASSUME OutOfScope(t)
          PROVE  /\ hash' \in [Threads -> 0..HashLengthMax] /\ index' \in [Threads -> Names]
                 /\ buffer' \in [Threads -> Delegates \cup {NullDelegate, Stock}]
                 /\ called' \in [Threads -> Delegates \cup {NullDelegate, Stock}]
      <4>1. NoSetting.name \in Names
        BY DEF NoSetting
      <4> QED
        BY <3>1, <4>1 DEF OutOfScope
    <3>2. CASE HashReceived(t) \/ GetMessageSize(t) \/ PayloadReceived(t)
      BY <3>2 DEF HashReceived, GetMessageSize, PayloadReceived
    <3>11. CASE RecvHash(t)
      BY <3>11 DEF RecvHash
    <3>3. ASSUME NEW n \in Names, GetIndexForHash(t, n) PROVE TypeOK'
      BY <3>3 DEF GetIndexForHash
    <3>4. CASE ReadBuffer(t)
      <4>1. delegates[index[t]]["buffer"] \in Delegates \cup {NullDelegate, Stock}
        BY DEF Fields
      <4> QED
        BY <3>4, <4>1 DEF ReadBuffer
    <3>5. CASE SetRecvStart(t)
      <4>1. delegates[index[t]]["recvStart"] \in Delegates \cup {NullDelegate, Stock}
        BY DEF Fields
      <4> QED
        BY <3>5, <4>1 DEF SetRecvStart
    <3>6. CASE CallDelegate(t)
      <4>1. delegates[index[t]]["delegate"] \in Delegates \cup {NullDelegate, Stock}
        BY DEF Fields
      <4> QED
        BY <3>6, <4>1 DEF CallDelegate
    <3>7. CASE DelegateReturns(t)
      BY <3>1, <3>7 DEF DelegateReturns
    <3>8. CASE RecvFails(t)
      <4>1. PICK from \in RecvStates \cup {"lookup"} : ReportError(t, from)
        BY <3>8 DEF RecvFails
      <4>2. receiving' \in BOOLEAN
        BY <4>1 DEF ReportError
      <4> QED
        BY <3>1, <4>1, <4>2 DEF ReportError
    <3>9. CASE ErrorDelegateReturns(t)
      BY <3>9 DEF ErrorDelegateReturns
    <3>10. CASE ActOnCancel(t)
      BY <3>1, <3>10 DEF ActOnCancel
    <3> QED
      BY <2>2, <3>2, <3>3, <3>4, <3>5, <3>6, <3>7, <3>8, <3>9, <3>10, <3>11 DEF Receiver
  <2>3. ASSUME NEW t \in Threads, InDelegate(t) PROVE TypeOK'
    <3> USE DEF WorkerStates, app, mbr, thread, locals
    <3>1. CASE ClearRecvStart(t)
      BY <3>1 DEF ClearRecvStart
    <3>2. ASSUME NEW n \in Names, NEW d \in Delegates \cup {NullDelegate},
                 SetDelegateInDelegate(t, n, d)
          PROVE  TypeOK'
      BY <3>2, EntryType DEF SetDelegateInDelegate
    <3>3. CASE StopInDelegateCall(t)
      <4>1. /\ usable' \in BOOLEAN /\ isThreadRunning' \in BOOLEAN
            /\ receiving' \in BOOLEAN /\ aborted' \in Assertions \cup {"no"}
        BY <3>3 DEF StopInDelegateCall
      <4>2. worker' \in [Threads -> WorkerStates] /\ cancelled' \subseteq Threads \cup {NoThread}
        <5>1. CASE isThreadRunning
          BY <3>3, <5>1 DEF StopInDelegateCall
        <5>2. CASE ~isThreadRunning
          BY <3>3, <5>2 DEF StopInDelegateCall
        <5> QED
          BY <5>1, <5>2
      <4> QED
        BY <3>3, <4>1, <4>2 DEF StopInDelegateCall
    <3>4. CASE SelfJoinFails(t)
      BY <3>4 DEF SelfJoinFails, Abort, Assertions
    <3> QED
      BY <2>3, <3>1, <3>2, <3>3, <3>4 DEF InDelegate
  <2>4. ASSUME UNCHANGED vars PROVE TypeOK'
    BY <2>4 DEF vars, app, mbr, thread, locals
  <2> QED
    BY <2>1, <2>2, <2>3, <2>4 DEF Next
<1> QED
  BY <1>1, <1>2, PTL DEF Spec

(***************************************************************************)
(* One receive thread at a time, and what it reads is allocated.  The      *)
(* strengthening says which thread there is (the one of threadId), when    *)
(* isThreadRunning lags behind (between pthread_create and the assignment  *)
(* after it), and at which stages of a call the tables exist.              *)
(***************************************************************************)

OneThread    == \A t \in Threads : worker[t] # "none" => t = threadId
ThreadIsSeen == \A t \in Threads : worker[t] # "none" => isThreadRunning \/ pc = "created"
Stages ==
    /\ pc \in {"free", "alloc", "create", "created"} => ~isThreadRunning
    /\ pc \in {"cancel", "join"} => isThreadRunning
    /\ pc \in {"handshakeSend", "handshakeRecv", "clear", "fill"} => api = "initiate"
Tables ==
    /\ usable => members = AllMembers
    /\ pc = "alloc" => ~usable
    /\ pc \in {"handshakeSend", "handshakeRecv", "clear", "fill", "create", "created"} => usable
    /\ pc \in {"cancel", "join"} /\ api = "initiate" => usable
    /\ \A t \in Threads : worker[t] # "none" => usable

SessionInv == OneThread /\ ThreadIsSeen /\ Stages /\ Tables

\* Without stop in a delegate: what the application may assume is right.
NoSelfJoin == \A t \in Threads : worker[t] # "selfJoin"
Done == ~receiving => \A t \in Threads : worker[t] \in {"none", "error", "exited"}

QuietInv == NoSelfJoin /\ Done

\* Without setDelegate while receiving, either: every entry is one registration's.
SetsAlone == pc = "set" => ~receiving
WholeEntries ==
    \A n \in Names :
        IF pc = "set" /\ n = setting.name
        THEN \A f \in Fields \ unset : delegates[n][f] = Entry(setting.delegate)[f]
        ELSE delegates[n] = Entry(delegates[n]["delegate"])
BufferIsEntrys ==
    \A t \in Threads : worker[t] \in {"mark", "recvPayload", "call"} =>
                           buffer[t] = delegates[index[t]]["buffer"]

EntryInv == SetsAlone /\ WholeEntries /\ BufferIsEntrys /\ DelegateGetsItsBuffer
LEMMA SessionInvInit == Init => SessionInv
  BY DEF Init, SessionInv, OneThread, ThreadIsSeen, Stages, Tables

\* A step of recvWorker, or of a delegate, leaves the application's side alone and
\* neither creates nor removes a thread.
LEMMA SessionInvWorker ==
  ASSUME TypeOK, SessionInv, NEW t \in Threads, worker[t] # "none",
         \A s \in Threads : s # t => worker'[s] = worker[s],
         UNCHANGED <<pc, api, usable, members, threadId, isThreadRunning>>
  PROVE  SessionInv'
  BY DEF SessionInv, OneThread, ThreadIsSeen, Stages, Tables

\* A step of the application that leaves the threads and the tables alone.
LEMMA SessionInvApp ==
  ASSUME TypeOK, SessionInv, Stages',
         pc # "created", pc' \notin {"created", "alloc"},
         UNCHANGED <<worker, usable, members, threadId, isThreadRunning>>,
         pc' \in {"handshakeSend", "handshakeRecv", "clear", "fill", "create"} => usable,
         pc' \in {"cancel", "join"} /\ api' = "initiate" => usable
  PROVE  SessionInv'
  BY DEF SessionInv, OneThread, ThreadIsSeen, Tables

LEMMA SessionInvStep == TypeOK /\ SessionInv /\ [Next]_vars => SessionInv'
  <1> SUFFICES ASSUME TypeOK, SessionInv, [Next]_vars PROVE SessionInv'
    OBVIOUS
  <1> USE DEF app, mbr, thread
  <1>1. CASE CallInit \/ CallStop \/ CallInitiate
    <2>1. Stages'
      BY <1>1 DEF CallInit, CallStop, CallInitiate, CancelOrSkip, AfterCancel, SessionInv, Stages
    <2> QED
      BY <1>1, <2>1, SessionInvApp
      DEF CallInit, CallStop, CallInitiate, CancelOrSkip, AfterCancel
  <1>2. ASSUME NEW n \in Names, NEW d \in Delegates \cup {NullDelegate}, CallSetDelegate(n, d)
        PROVE  SessionInv'
    <2>1. Stages'
      BY <1>2 DEF CallSetDelegate, Stages
    <2> QED
      BY <1>2, <2>1, SessionInvApp DEF CallSetDelegate
  <1>3. ASSUME NEW f \in Fields, StoreField(f) PROVE SessionInv'
    <2>1. Stages'
      BY <1>3 DEF StoreField, Stages
    <2> QED
      BY <1>3, <2>1, SessionInvApp DEF StoreField
  <1>4. CASE HandshakeSendHashLength \/ HandshakeHandleHashLengthRecv \/ ClearHashMap
    <2>1. Stages'
      BY <1>4 DEF HandshakeSendHashLength, HandshakeHandleHashLengthRecv, ClearHashMap,
                  SessionInv, Stages
    <2>2. usable
      BY <1>4 DEF HandshakeSendHashLength, HandshakeHandleHashLengthRecv, ClearHashMap,
                  SessionInv, Tables
    <2> QED
      BY <1>4, <2>1, <2>2, SessionInvApp
      DEF HandshakeSendHashLength, HandshakeHandleHashLengthRecv, ClearHashMap
  <1>5. ASSUME NEW n \in Names, FillHashMap(n) PROVE SessionInv'
    <2>1. Stages'
      BY <1>5 DEF FillHashMap, CancelOrSkip, AfterCancel, SessionInv, Stages
    <2>2. usable
      BY <1>5 DEF FillHashMap, SessionInv, Tables
    <2> QED
      BY <1>5, <2>1, <2>2, SessionInvApp DEF FillHashMap, CancelOrSkip, AfterCancel
  <1>6. CASE CancelRecvThread
    <2>1. Stages'
      BY <1>6 DEF CancelRecvThread, SessionInv, Stages
    <2>2. api = "initiate" => usable
      BY <1>6 DEF CancelRecvThread, SessionInv, Tables
    <2> QED
      BY <1>6, <2>1, <2>2, SessionInvApp DEF CancelRecvThread
  <1>7. CASE JoinRecvThread
    <2>1. \A t \in Threads : worker'[t] = "none"
      BY <1>7 DEF JoinRecvThread, SessionInv, OneThread, TypeOK
    <2>2. api = "initiate" => usable
      BY <1>7 DEF JoinRecvThread, SessionInv, Tables
    <2>3. Stages'
      BY <1>7 DEF JoinRecvThread, AfterCancel, Stages
    <2>4. Tables'
      BY <1>7, <2>1, <2>2 DEF JoinRecvThread, AfterCancel, SessionInv, Tables
    <2> QED
      BY <2>1, <2>3, <2>4 DEF SessionInv, OneThread, ThreadIsSeen
  <1>8. CASE FreeMembers \/ AllocateMembers
    <2>1. \A t \in Threads : worker[t] = "none"
      BY <1>8 DEF FreeMembers, AllocateMembers, SessionInv, ThreadIsSeen, Stages
    <2>2. Stages'
      BY <1>8 DEF FreeMembers, AllocateMembers, SessionInv, Stages
    <2>3. Tables'
      BY <1>8, <2>1 DEF FreeMembers, AllocateMembers, SessionInv, Tables
    <2> QED
      BY <1>8, <2>1, <2>2, <2>3
      DEF FreeMembers, AllocateMembers, SessionInv, OneThread, ThreadIsSeen
  <1>9. ASSUME NEW t \in Threads, CreateRecvThread(t) PROVE SessionInv'
    <2>1. ~isThreadRunning /\ usable
      BY <1>9 DEF CreateRecvThread, SessionInv, Stages, Tables
    <2>2. \A s \in Threads : worker[s] = "none"
      BY <1>9, <2>1 DEF CreateRecvThread, SessionInv, ThreadIsSeen
    <2>3. \A s \in Threads : s # t => worker'[s] = "none"
      BY <1>9, <2>1, <2>2 DEF CreateRecvThread, TypeOK
    <2> QED
      BY <1>9, <2>1, <2>3
      DEF CreateRecvThread, SessionInv, OneThread, ThreadIsSeen, Stages, Tables
  <1>10. CASE InitiateReturns
    BY <1>10 DEF InitiateReturns, SessionInv, OneThread, ThreadIsSeen, Stages, Tables
  <1>14. CASE PutFails \/ CreateFails \/ CancelFails
    BY <1>14 DEF PutFails, CreateFails, CancelFails, Abort, SessionInv, OneThread, ThreadIsSeen,
                 Stages, Tables
  <1>11. ASSUME NEW t \in Threads, Receiver(t) PROVE SessionInv'
    <2>1. worker[t] # "none"
      BY <1>11 DEF Receiver, RecvHash, HashReceived, GetIndexForHash, GetMessageSize, ReadBuffer,
                   SetRecvStart, PayloadReceived, CallDelegate, DelegateReturns, RecvFails,
                   ReportError, ErrorDelegateReturns, ActOnCancel, WorkerStep, RecvStates,
                   CallbackStates
    <2>2. /\ \A s \in Threads : s # t => worker'[s] = worker[s]
          /\ UNCHANGED <<pc, api, usable, members, threadId, isThreadRunning>>
      BY <1>11 DEF Receiver, RecvHash, HashReceived, GetIndexForHash, GetMessageSize, ReadBuffer,
                   SetRecvStart, PayloadReceived, CallDelegate, DelegateReturns, RecvFails,
                   ReportError, ErrorDelegateReturns, ActOnCancel, WorkerStep, TypeOK
    <2> QED
      BY <2>1, <2>2, SessionInvWorker
  <1>12. ASSUME NEW t \in Threads, InDelegate(t) PROVE SessionInv'
    <2>1. worker[t] # "none"
      BY <1>12 DEF InDelegate, ClearRecvStart, SetDelegateInDelegate, StopInDelegateCall,
                   SelfJoinFails, Abort
    <2>2. /\ \A s \in Threads : s # t => worker'[s] = worker[s]
          /\ UNCHANGED <<pc, api, usable, members, threadId, isThreadRunning>>
      BY <1>12 DEF InDelegate, ClearRecvStart, SetDelegateInDelegate, StopInDelegateCall,
                   SelfJoinFails, Abort, TypeOK
    <2> QED
      BY <2>1, <2>2, SessionInvWorker
  <1>13. CASE UNCHANGED vars
    BY <1>13 DEF vars, SessionInv, OneThread, ThreadIsSeen, Stages, Tables
  <1> QED
    BY <1>1, <1>2, <1>3, <1>4, <1>5, <1>6, <1>7, <1>8, <1>9, <1>10, <1>11, <1>12, <1>13,
       <1>14 DEF Next, App

LEMMA SessionInvariant == Spec => [](TypeOK /\ SessionInv)
  BY Typing, SessionInvInit, SessionInvStep, PTL DEF Spec

\* Whatever the application calls, even stop from a delegate or initiate over a live
\* connection, there are never two receive threads.
THEOREM SingleReceiver == Spec => []AtMostOneReceiver
<1>1. SessionInv => AtMostOneReceiver
  BY DEF SessionInv, OneThread, AtMostOneReceiver, Live
<1> QED
  BY <1>1, SessionInvariant, PTL

\* A receive thread never reads a table or writes a buffer that init has freed.
THEOREM MemorySafety == Spec => []NoUseAfterFree
<1>1. TypeOK /\ SessionInv => NoUseAfterFree
  BY DEF SessionInv, Tables, NoUseAfterFree, UsesMembers, RecvStates
<1> QED
  BY <1>1, SessionInvariant, PTL

(***************************************************************************)
(* The assertions.  A thread that stop, init or initiate will cancel is    *)
(* there, joined by nobody, and one that has ended told so: it called the  *)
(* error delegate, or was cancelled, by itself when not by the call.       *)
(***************************************************************************)

ThreadIsThere == isThreadRunning \/ pc = "created" => worker[threadId] # "none" /\ threadId \in Threads
ErrorIsTold   == \A t \in Threads : worker[t] = "error" => ~receiving
EndIsTold     == \A t \in Threads : worker[t] = "exited" => ~receiving \/ t \in cancelled
JoinsItself   == \A t \in Threads : worker[t] = "selfJoin" => StopInDelegate /\ t \in cancelled

AssertInv == ThreadIsThere /\ ErrorIsTold /\ EndIsTold /\ JoinsItself /\ AssertionsFailOnlyWhen

\* No assertion fails in the step, and no thread ends.
LEMMA AssertKept ==
  ASSUME AssertInv, ThreadIsThere', aborted' = "no", cancelled \subseteq cancelled',
         receiving' => receiving,
         \A t \in Threads : worker'[t] \in {"error", "exited", "selfJoin"} => worker'[t] = worker[t]
  PROVE  AssertInv'
  BY DEF AssertInv, ErrorIsTold, EndIsTold, JoinsItself, AssertionsFailOnlyWhen

LEMMA AssertInvApp ==
  ASSUME TypeOK, SessionInv, AssertInv, aborted = "no", App
  PROVE  AssertInv'
  <1> USE DEF app, mbr, thread
  <1>1. CASE CallInit \/ CallStop \/ CallInitiate
    <2>1. ThreadIsThere'
      BY <1>1 DEF CallInit, CallStop, CallInitiate, CancelOrSkip, AfterCancel, AssertInv, ThreadIsThere
    <2> QED
      BY <1>1, <2>1, AssertKept DEF CallInit, CallStop, CallInitiate, CancelOrSkip
  <1>2. ASSUME NEW n \in Names, NEW d \in Delegates \cup {NullDelegate}, CallSetDelegate(n, d)
        PROVE  AssertInv'
    <2>1. ThreadIsThere'
      BY <1>2 DEF CallSetDelegate, AssertInv, ThreadIsThere
    <2> QED
      BY <1>2, <2>1, AssertKept DEF CallSetDelegate
  <1>3. ASSUME NEW f \in Fields, StoreField(f) PROVE AssertInv'
    <2>1. ThreadIsThere'
      BY <1>3 DEF StoreField, AssertInv, ThreadIsThere
    <2> QED
      BY <1>3, <2>1, AssertKept DEF StoreField
  <1>4. CASE HandshakeSendHashLength \/ HandshakeHandleHashLengthRecv \/ ClearHashMap
    <2> USE DEF HandshakeSendHashLength, HandshakeHandleHashLengthRecv, ClearHashMap
    <2>1. ThreadIsThere'
      BY <1>4 DEF AssertInv, ThreadIsThere
    <2> QED
      BY <1>4, <2>1, AssertKept
  <1>5. ASSUME NEW n \in Names, FillHashMap(n) PROVE AssertInv'
    <2>1. ThreadIsThere'
      BY <1>5 DEF FillHashMap, CancelOrSkip, AfterCancel, AssertInv, ThreadIsThere
    <2> QED
      BY <1>5, <2>1, AssertKept DEF FillHashMap, CancelOrSkip
  <1>6. CASE CancelRecvThread
    <2>1. ThreadIsThere'
      BY <1>6 DEF CancelRecvThread, AssertInv, ThreadIsThere
    <2> QED
      BY <1>6, <2>1, AssertKept DEF CancelRecvThread
  <1>7. CASE JoinRecvThread
    <2>1. \A t \in Threads : worker'[t] = "none"
      BY <1>7 DEF JoinRecvThread, SessionInv, OneThread, TypeOK
    <2>2. ThreadIsThere'
      BY <1>7 DEF JoinRecvThread, AfterCancel, ThreadIsThere
    <2>3. aborted' = "no"
      BY <1>7 DEF JoinRecvThread
    <2> QED
      BY <2>1, <2>2, <2>3 DEF AssertInv, ErrorIsTold, EndIsTold, JoinsItself, AssertionsFailOnlyWhen
  <1>8. CASE FreeMembers \/ AllocateMembers
    <2>1. ThreadIsThere'
      BY <1>8 DEF FreeMembers, AllocateMembers, SessionInv, Stages, ThreadIsThere
    <2> QED
      BY <1>8, <2>1, AssertKept DEF FreeMembers, AllocateMembers
  <1>9. ASSUME NEW t \in Threads, CreateRecvThread(t) PROVE AssertInv'
    <2>1. \A s \in Threads : worker[s] = "none"
      BY <1>9 DEF CreateRecvThread, SessionInv, ThreadIsSeen
    <2>2. \A s \in Threads : worker'[s] \in {"none", "loop"}
      BY <1>9, <2>1 DEF CreateRecvThread, TypeOK
    <2>3. ThreadIsThere' /\ aborted' = "no"
      BY <1>9 DEF CreateRecvThread, ThreadIsThere, TypeOK
    <2> QED
      BY <2>2, <2>3 DEF AssertInv, ErrorIsTold, EndIsTold, JoinsItself, AssertionsFailOnlyWhen
  <1>10. CASE InitiateReturns
    <2>1. ThreadIsThere'
      BY <1>10 DEF InitiateReturns, AssertInv, ThreadIsThere
    <2> QED
      BY <1>10, <2>1, AssertKept DEF InitiateReturns
  <1>11. CASE PutFails \/ CreateFails \/ CancelFails
    <2>1. UNCHANGED <<pc, worker, threadId, isThreadRunning, cancelled, receiving>>
      BY <1>11 DEF PutFails, CreateFails, CancelFails, Abort
    <2>2. aborted' # "join" /\ (aborted' = "cancel" => CancelFails)
      BY <1>11 DEF PutFails, CreateFails, CancelFails, Abort
    <2>3. aborted' # "running"
      BY <1>11 DEF PutFails, CreateFails, CancelFails, Abort, SessionInv, Stages
    <2>4. CancelFails => worker[threadId] = "exited" /\ threadId \in Threads
      BY DEF CancelFails, SessionInv, Stages, AssertInv, ThreadIsThere
    <2>5. AssertionsFailOnlyWhen'
      BY <2>1, <2>2, <2>3, <2>4 DEF AssertionsFailOnlyWhen, AssertInv, EndIsTold
    <2> QED
      BY <2>1, <2>5 DEF AssertInv, ThreadIsThere, ErrorIsTold, EndIsTold, JoinsItself
  <1> QED
    BY <1>1, <1>2, <1>3, <1>4, <1>5, <1>6, <1>7, <1>8, <1>9, <1>10, <1>11 DEF App

LEMMA AssertInvReceiver ==
  ASSUME TypeOK, SessionInv, AssertInv, aborted = "no", NEW t \in Threads, Receiver(t)
  PROVE  AssertInv'
  <1> USE DEF app, mbr, thread, WorkerStep, TypeOK
  <1>1. CASE RecvHash(t) \/ HashReceived(t) \/ GetMessageSize(t) \/ ReadBuffer(t)
                \/ SetRecvStart(t) \/ PayloadReceived(t) \/ CallDelegate(t) \/ DelegateReturns(t)
                \/ \E n \in Names : GetIndexForHash(t, n)
    <2> USE DEF RecvHash, HashReceived, GetMessageSize, ReadBuffer, SetRecvStart,
                PayloadReceived, CallDelegate, DelegateReturns, GetIndexForHash
    <2>1. /\ UNCHANGED <<pc, threadId, isThreadRunning, cancelled, receiving>> /\ aborted' = "no"
          /\ worker'[t] \notin {"none", "error", "exited", "selfJoin"}
          /\ \A s \in Threads : s # t => worker'[s] = worker[s]
      BY <1>1
    <2>2. ThreadIsThere'
      BY <2>1 DEF AssertInv, ThreadIsThere
    <2> QED
      BY <2>1, <2>2, AssertKept
  <1>2. CASE RecvFails(t)
    <2>1. PICK from \in RecvStates \cup {"lookup"} : ReportError(t, from)
      BY <1>2 DEF RecvFails
    <2>2. /\ UNCHANGED <<pc, threadId, isThreadRunning, cancelled>> /\ ~receiving' /\ aborted' = "no"
          /\ worker' = [worker EXCEPT ![t] = "error"]
      BY <2>1 DEF ReportError
    <2> QED
      BY <2>2 DEF AssertInv, ThreadIsThere, ErrorIsTold, EndIsTold, JoinsItself,
                  AssertionsFailOnlyWhen
  <1>3. CASE ErrorDelegateReturns(t) \/ ActOnCancel(t)
    <2>1. /\ UNCHANGED <<pc, threadId, isThreadRunning, cancelled, receiving>> /\ aborted' = "no"
          /\ worker' = [worker EXCEPT ![t] = "exited"]
          /\ worker[t] = "error" \/ t \in cancelled
      BY <1>3 DEF ErrorDelegateReturns, ActOnCancel
    <2>2. ~receiving \/ t \in cancelled
      BY <2>1 DEF AssertInv, ErrorIsTold
    <2>3. \A s \in Threads : s # t => worker'[s] = worker[s]
      BY <2>1
    <2>4. worker'[t] = "exited"
      BY <2>1
    <2>5. ThreadIsThere'
      BY <2>1, <2>3, <2>4 DEF AssertInv, ThreadIsThere
    <2> QED
      BY <2>1, <2>2, <2>3, <2>4, <2>5 DEF AssertInv, ErrorIsTold, EndIsTold, JoinsItself,
                                          AssertionsFailOnlyWhen
  <1> QED
    BY <1>1, <1>2, <1>3 DEF Receiver

LEMMA AssertInvDelegate ==
  ASSUME TypeOK, SessionInv, AssertInv, aborted = "no", NEW t \in Threads, InDelegate(t)
  PROVE  AssertInv'
  <1> USE DEF app, mbr, thread
  <1>1. CASE ClearRecvStart(t)
              \/ \E n \in Names, d \in Delegates \cup {NullDelegate} : SetDelegateInDelegate(t, n, d)
    <2>1. UNCHANGED <<pc, worker, threadId, isThreadRunning, cancelled, receiving, aborted>>
      BY <1>1 DEF ClearRecvStart, SetDelegateInDelegate
    <2> QED
      BY <2>1 DEF AssertInv, ThreadIsThere, ErrorIsTold, EndIsTold, JoinsItself,
                  AssertionsFailOnlyWhen
  <1>2. CASE StopInDelegateCall(t)
    <2>1. /\ UNCHANGED <<pc, threadId, isThreadRunning, aborted>> /\ StopInDelegate
          /\ cancelled \subseteq cancelled' /\ (receiving' => receiving)
          /\ \/ UNCHANGED worker
             \/ worker' = [worker EXCEPT ![t] = "selfJoin"] /\ t \in cancelled'
      BY <1>2 DEF StopInDelegateCall
    <2> QED
      BY <2>1 DEF AssertInv, ThreadIsThere, ErrorIsTold, EndIsTold, JoinsItself,
                  AssertionsFailOnlyWhen, TypeOK
  <1>3. CASE SelfJoinFails(t)
    <2>1. /\ UNCHANGED <<pc, worker, threadId, isThreadRunning, cancelled, receiving>>
          /\ aborted' = "join" /\ worker[t] = "selfJoin"
      BY <1>3 DEF SelfJoinFails, Abort
    <2>2. t = threadId
      BY <2>1 DEF SessionInv, OneThread
    <2> QED
      BY <2>1, <2>2 DEF AssertInv, ThreadIsThere, ErrorIsTold, EndIsTold, JoinsItself,
                        AssertionsFailOnlyWhen
  <1> QED
    BY <1>1, <1>2, <1>3 DEF InDelegate

\* Whatever the application and the delegates call: createRecvThread finds the previous
\* thread gone, only a thread that is not joined is cancelled, one that has ended only
\* after the error delegate was called or it stopped itself, and only a thread that
\* stops itself is told by pthread_join that it cannot be joined.
THEOREM AssertionsExplained == Spec => []AssertionsFailOnlyWhen
<1>1. Init => AssertInv
  BY DEF Init, AssertInv, ThreadIsThere, ErrorIsTold, EndIsTold, JoinsItself,
         AssertionsFailOnlyWhen
<1>2. TypeOK /\ SessionInv /\ AssertInv /\ [Next]_vars => AssertInv'
  <2> SUFFICES ASSUME TypeOK, SessionInv, AssertInv, [Next]_vars PROVE AssertInv'
    OBVIOUS
  <2>1. CASE UNCHANGED vars
    BY <2>1 DEF vars, app, thread, AssertInv, ThreadIsThere, ErrorIsTold, EndIsTold, JoinsItself,
                AssertionsFailOnlyWhen
  <2> QED
    BY <2>1, AssertInvApp, AssertInvReceiver, AssertInvDelegate DEF Next
<1>3. AssertInv => AssertionsFailOnlyWhen
  BY DEF AssertInv
<1> QED
  BY <1>1, <1>2, <1>3, SessionInvariant, PTL DEF Spec

(***************************************************************************)
(* Without stop in a delegate: after stop or an error nothing is           *)
(* delivered.                                                              *)
(***************************************************************************)

LEMMA QuietInvStep ==
  ASSUME ~StopInDelegate
  PROVE  TypeOK /\ SessionInv /\ QuietInv /\ [Next]_vars => QuietInv'
  <1> SUFFICES ASSUME TypeOK, SessionInv, QuietInv, [Next]_vars PROVE QuietInv'
    OBVIOUS
  <1> USE DEF app, mbr, thread, QuietInv
  <1>1. CASE CallInit \/ CallStop
    <2>1. ~isThreadRunning => \A t \in Threads : worker[t] = "none"
      BY <1>1 DEF CallInit, CallStop, SessionInv, ThreadIsSeen
    <2> QED
      BY <1>1, <2>1 DEF CallInit, CallStop, CancelOrSkip, NoSelfJoin, Done
  <1>2. CASE CallInitiate \/ HandshakeSendHashLength \/ HandshakeHandleHashLengthRecv \/ ClearHashMap
                \/ CancelRecvThread \/ InitiateReturns \/ FreeMembers \/ AllocateMembers
    BY <1>2 DEF CallInitiate, HandshakeSendHashLength, HandshakeHandleHashLengthRecv, ClearHashMap,
                CancelRecvThread, InitiateReturns, FreeMembers, AllocateMembers, NoSelfJoin, Done
  <1>3. ASSUME NEW n \in Names, NEW d \in Delegates \cup {NullDelegate}, CallSetDelegate(n, d)
        PROVE  QuietInv'
    BY <1>3 DEF CallSetDelegate, NoSelfJoin, Done
  <1>4. ASSUME NEW f \in Fields, StoreField(f) PROVE QuietInv'
    BY <1>4 DEF StoreField, NoSelfJoin, Done
  <1>5. ASSUME NEW n \in Names, FillHashMap(n) PROVE QuietInv'
    <2>1. ~isThreadRunning => \A t \in Threads : worker[t] = "none"
      BY <1>5 DEF FillHashMap, SessionInv, ThreadIsSeen
    <2> QED
      BY <1>5, <2>1 DEF FillHashMap, CancelOrSkip, NoSelfJoin, Done
  <1>6. CASE JoinRecvThread
    <2>1. \A t \in Threads : worker'[t] = "none"
      BY <1>6 DEF JoinRecvThread, SessionInv, OneThread, TypeOK
    <2> QED
      BY <1>6, <2>1 DEF JoinRecvThread, NoSelfJoin, Done
  <1>7. ASSUME NEW t \in Threads, CreateRecvThread(t) PROVE QuietInv'
    <2>1. receiving' /\ worker' = [worker EXCEPT ![t] = "loop"]
      BY <1>7 DEF CreateRecvThread
    <2> QED
      BY <2>1 DEF NoSelfJoin, Done, TypeOK
  <1>8. ASSUME NEW t \in Threads, Receiver(t) PROVE QuietInv'
    <2> USE DEF WorkerStep, TypeOK, NoSelfJoin, Done
    <2>1. CASE RecvHash(t) \/ HashReceived(t) \/ GetMessageSize(t) \/ ReadBuffer(t)
                  \/ SetRecvStart(t) \/ PayloadReceived(t) \/ CallDelegate(t) \/ DelegateReturns(t)
                  \/ \E n \in Names : GetIndexForHash(t, n)
      <3> USE DEF RecvHash, HashReceived, GetMessageSize, ReadBuffer, SetRecvStart,
                  PayloadReceived, CallDelegate, DelegateReturns, GetIndexForHash
      <3>1. UNCHANGED receiving
        BY <2>1
      <3>2. worker[t] \notin {"none", "error", "exited"}
        BY <2>1
      <3>3. worker'[t] # "selfJoin" /\ \A s \in Threads : s # t => worker'[s] = worker[s]
        BY <2>1
      <3> QED
        BY <3>1, <3>2, <3>3
    <2>2. CASE RecvFails(t)
      <3>1. PICK from \in RecvStates \cup {"lookup"} : ReportError(t, from)
        BY <2>2 DEF RecvFails
      <3>2. worker[t] # "none" /\ worker' = [worker EXCEPT ![t] = "error"]
        BY <3>1 DEF ReportError, RecvStates
      <3>3. \A s \in Threads : s # t => worker[s] = "none"
        BY <3>2 DEF SessionInv, OneThread
      <3> QED
        BY <3>2, <3>3
    <2>3. CASE ErrorDelegateReturns(t) \/ ActOnCancel(t)
      BY <2>3 DEF ErrorDelegateReturns, ActOnCancel
    <2> QED
      BY <1>8, <2>1, <2>2, <2>3 DEF Receiver
  <1>9. ASSUME NEW t \in Threads, InDelegate(t) PROVE QuietInv'
    BY <1>9 DEF InDelegate, ClearRecvStart, SetDelegateInDelegate, StopInDelegateCall,
                SelfJoinFails, Abort, NoSelfJoin, Done
  <1>11. CASE PutFails \/ CreateFails \/ CancelFails
    BY <1>11 DEF PutFails, CreateFails, CancelFails, Abort, NoSelfJoin, Done
  <1>10. CASE UNCHANGED vars
    BY <1>10 DEF vars, NoSelfJoin, Done
  <1> QED
    BY <1>1, <1>2, <1>3, <1>4, <1>5, <1>6, <1>7, <1>8, <1>9, <1>10, <1>11 DEF Next, App

LEMMA QuietInvariant ==
  ASSUME ~StopInDelegate
  PROVE  Spec => [](TypeOK /\ SessionInv /\ QuietInv)
<1>1. Init => QuietInv
  BY DEF Init, QuietInv, NoSelfJoin, Done
<1>2. TypeOK /\ SessionInv /\ QuietInv /\ [Next]_vars => QuietInv'
  BY QuietInvStep
<1> QED
  BY <1>1, <1>2, SessionInvariant, PTL DEF Spec

\* When no delegate calls stop, no delegate is called after stop has returned or
\* after the error delegate was called, until the next initiate.
THEOREM StopIsFinal == ASSUME ~StopInDelegate PROVE Spec => StoppedStaysStopped
<1> DEFINE Delivery == \A t \in Threads : worker[t] # "delegate" /\ worker'[t] = "delegate"
                                              => receiving
<1>1. TypeOK /\ SessionInv /\ QuietInv /\ [Next]_vars => [Delivery]_vars
  <2> SUFFICES ASSUME TypeOK, SessionInv, QuietInv, Next,
                      NEW t \in Threads, worker[t] # "delegate", worker'[t] = "delegate"
               PROVE  receiving
    BY DEF vars
  <2>1. worker[t] \notin {"none", "error", "exited"}
    <3> USE DEF TypeOK
    <3>1. CASE App
      BY <3>1 DEF App, CallInit, CallStop, CallInitiate, CallSetDelegate, StoreField,
                  HandshakeSendHashLength, HandshakeHandleHashLengthRecv, ClearHashMap, FillHashMap,
                  CancelRecvThread, JoinRecvThread, FreeMembers, AllocateMembers, CreateRecvThread,
                  InitiateReturns, PutFails, CreateFails, CancelFails, Abort
    <3>2. ASSUME NEW s \in Threads, Receiver(s) PROVE worker[t] \notin {"none", "error", "exited"}
      BY <3>2 DEF Receiver, RecvHash, HashReceived, GetIndexForHash, GetMessageSize, ReadBuffer,
                  SetRecvStart, PayloadReceived, CallDelegate, DelegateReturns, RecvFails,
                  ReportError, ErrorDelegateReturns, ActOnCancel, WorkerStep
    <3>3. ASSUME NEW s \in Threads, InDelegate(s) PROVE worker[t] \notin {"none", "error", "exited"}
      BY <3>3 DEF InDelegate, ClearRecvStart, SetDelegateInDelegate, StopInDelegateCall,
                  SelfJoinFails, Abort
    <3> QED
      BY <3>1, <3>2, <3>3 DEF Next
  <2> QED
    BY <2>1 DEF QuietInv, Done
<1> QED
  BY <1>1, QuietInvariant, PTL DEF Spec, StoppedStaysStopped
(***************************************************************************)
(* Registrations.  setDelegate by the application overlaps no receiving    *)
(* thread, setDelegate in a delegate overlaps no other one.                *)
(***************************************************************************)

\* A step that changes neither the entries nor what the receivers hold of them.
LEMMA EntryInvKept ==
  ASSUME EntryInv, SetsAlone', pc' = "set" <=> pc = "set",
         UNCHANGED <<delegates, setting, unset, buffer, index, called>>,
         \A t \in Threads :
            /\ worker'[t] \in {"mark", "recvPayload", "call"} =>
                   worker[t] \in {"mark", "recvPayload", "call"}
            /\ worker'[t] = "delegate" => worker[t] = "delegate"
  PROVE  EntryInv'
  BY DEF EntryInv, WholeEntries, BufferIsEntrys, DelegateGetsItsBuffer

\* The worker states in which the entries matter are states of receiving.
LEMMA NobodyReceives ==
  ASSUME QuietInv, ~receiving
  PROVE  \A t \in Threads : worker[t] \notin {"bind", "mark", "recvPayload", "call", "delegate"}
  BY DEF QuietInv, Done

LEMMA EntryFields ==
  ASSUME NEW d
  PROVE  /\ Entry(d)["buffer"] = BufferOf(d) /\ Entry(d)["delegate"] = d
         /\ Entry(d) = Entry(Entry(d)["delegate"])
  BY DEF Entry, Fields

LEMMA EntryInvApp ==
  ASSUME ~SetWhileReceiving, TypeOK, SessionInv, QuietInv, EntryInv, App
  PROVE  EntryInv'
  <1> USE DEF app, mbr, thread, locals
  <1>1. CASE CallInit \/ CallStop \/ CallInitiate \/ HandshakeSendHashLength
                \/ HandshakeHandleHashLengthRecv \/ ClearHashMap \/ CancelRecvThread
                \/ InitiateReturns
    <2>1. pc # "set" /\ pc' # "set"
      BY <1>1 DEF CallInit, CallStop, CallInitiate, CancelOrSkip, AfterCancel,
                  HandshakeSendHashLength, HandshakeHandleHashLengthRecv, ClearHashMap,
                  CancelRecvThread, InitiateReturns
    <2>2. UNCHANGED <<delegates, setting, unset, buffer, index, called, worker>>
      BY <1>1 DEF CallInit, CallStop, CallInitiate, HandshakeSendHashLength,
                  HandshakeHandleHashLengthRecv, ClearHashMap, CancelRecvThread, InitiateReturns
    <2> QED
      BY <2>1, <2>2, EntryInvKept DEF SetsAlone
  <1>2. ASSUME NEW n \in Names, FillHashMap(n) PROVE EntryInv'
    <2>1. pc # "set" /\ pc' # "set"
      BY <1>2 DEF FillHashMap, CancelOrSkip, AfterCancel
    <2>2. UNCHANGED <<delegates, setting, unset, buffer, index, called, worker>>
      BY <1>2 DEF FillHashMap
    <2> QED
      BY <2>1, <2>2, EntryInvKept DEF SetsAlone
  <1>3. ASSUME NEW n \in Names, NEW d \in Delegates \cup {NullDelegate}, CallSetDelegate(n, d)
        PROVE  EntryInv'
    <2>1. ~receiving /\ ~receiving' /\ pc # "set"
      BY <1>3 DEF CallSetDelegate
    <2>2. UNCHANGED <<worker, delegates, buffer, index, called>> /\ unset' = Fields
      BY <1>3 DEF CallSetDelegate
    <2>3. WholeEntries'
      BY <2>1, <2>2 DEF EntryInv, WholeEntries
    <2> QED
      BY <2>1, <2>2, <2>3 DEF EntryInv, SetsAlone, BufferIsEntrys, DelegateGetsItsBuffer
  <1>4. ASSUME NEW f \in Fields, StoreField(f) PROVE EntryInv'
    <2>1. ~receiving /\ UNCHANGED <<receiving, worker>>
      BY <1>4 DEF StoreField, EntryInv, SetsAlone
    <2>2. \A t \in Threads : worker'[t] \notin {"mark", "recvPayload", "call", "delegate"}
      BY <2>1, NobodyReceives
    <2>3. /\ \A n \in Names : n # setting.name => delegates'[n] = delegates[n]
          /\ \A g \in Fields : g # f => delegates'[setting.name][g] = delegates[setting.name][g]
          /\ delegates'[setting.name][f] = Entry(setting.delegate)[f]
          /\ delegates'[setting.name] \in [Fields -> Delegates \cup {NullDelegate, Stock}]
      <3>1. setting.name \in Names /\ setting.delegate \in Delegates \cup {NullDelegate}
        BY DEF TypeOK
      <3>2. Entry(setting.delegate)[f] \in Delegates \cup {NullDelegate, Stock}
        BY <3>1, EntryType
      <3> QED
        BY <1>4, <3>1, <3>2 DEF StoreField, TypeOK
    <2>4. \A g \in Fields \ unset' : delegates'[setting.name][g] = Entry(setting.delegate)[g]
      BY <1>4, <2>3 DEF StoreField, EntryInv, WholeEntries, TypeOK
    <2>5. WholeEntries'
      <3>1. CASE unset' = {}
        <4>1. setting.delegate \in Delegates \cup {NullDelegate}
          BY DEF TypeOK
        <4>2. Entry(setting.delegate) \in [Fields -> Delegates \cup {NullDelegate, Stock}]
          BY <4>1, EntryType
        <4>3. delegates'[setting.name] = Entry(setting.delegate)
          BY <2>3, <2>4, <3>1, <4>2
        <4>4. pc' # "set"
          BY <1>4, <3>1 DEF StoreField
        <4>5. \A n \in Names : n # setting.name => delegates'[n] = Entry(delegates'[n]["delegate"])
          BY <1>4, <2>3 DEF StoreField, EntryInv, WholeEntries
        <4> QED
          BY <4>3, <4>4, <4>5, EntryFields DEF WholeEntries
      <3>2. CASE unset' # {}
        BY <1>4, <2>3, <2>4, <3>2 DEF StoreField, EntryInv, WholeEntries
      <3> QED
        BY <3>1, <3>2
    <2> QED
      BY <2>1, <2>2, <2>5 DEF EntryInv, SetsAlone, BufferIsEntrys, DelegateGetsItsBuffer
  <1>5. CASE JoinRecvThread
    <2>1. pc # "set" /\ pc' # "set"
      BY <1>5 DEF JoinRecvThread, AfterCancel
    <2>2. UNCHANGED <<delegates, setting, unset, buffer, index, called>>
      BY <1>5 DEF JoinRecvThread
    <2>3. \A t \in Threads : worker'[t] = "none"
      BY <1>5 DEF JoinRecvThread, SessionInv, OneThread, TypeOK
    <2> QED
      BY <2>1, <2>2, <2>3, EntryInvKept DEF SetsAlone
  <1>6. CASE FreeMembers
    <2>1. pc # "set" /\ pc' # "set" /\ UNCHANGED worker
          /\ UNCHANGED <<delegates, setting, unset, buffer, index, called>>
      BY <1>6 DEF FreeMembers
    <2> QED
      BY <2>1, EntryInvKept DEF SetsAlone
  <1>7. CASE AllocateMembers
    <2>1. pc # "set" /\ pc' # "set" /\ UNCHANGED worker
      BY <1>7 DEF AllocateMembers
    <2>2. \A t \in Threads : worker'[t] = "none"
      BY <1>7, <2>1 DEF AllocateMembers, SessionInv, ThreadIsSeen, Stages
    <2>3. WholeEntries'
      <3>1. CASE UNCHANGED delegates
        BY <2>1, <3>1 DEF EntryInv, WholeEntries
      <3>2. CASE delegates' = [n \in Names |-> Entry(NullDelegate)]
        BY <2>1, <3>2, EntryFields DEF WholeEntries
      <3> QED
        BY <1>7, <3>1, <3>2 DEF AllocateMembers
    <2> QED
      BY <2>1, <2>2, <2>3 DEF EntryInv, SetsAlone, BufferIsEntrys, DelegateGetsItsBuffer
  <1>8. ASSUME NEW t \in Threads, CreateRecvThread(t) PROVE EntryInv'
    <2>1. pc # "set" /\ pc' # "set"
      BY <1>8 DEF CreateRecvThread
    <2>2. UNCHANGED <<delegates, setting, unset, buffer, index, called>>
      BY <1>8 DEF CreateRecvThread
    <2>3. \A s \in Threads : worker'[s] = worker[s] \/ worker'[s] = "loop"
      BY <1>8 DEF CreateRecvThread, TypeOK
    <2> QED
      BY <2>1, <2>2, <2>3, EntryInvKept DEF SetsAlone
  <1>9. CASE PutFails \/ CreateFails \/ CancelFails
    BY <1>9, EntryInvKept DEF PutFails, CreateFails, CancelFails, Abort, EntryInv, SetsAlone
  <1> QED
    BY <1>1, <1>2, <1>3, <1>4, <1>5, <1>6, <1>7, <1>8, <1>9 DEF App

LEMMA EntryInvReceiver ==
  ASSUME TypeOK, SessionInv, QuietInv, EntryInv, NEW t \in Threads, Receiver(t)
  PROVE  EntryInv'
  <1> USE DEF app, mbr, thread, locals, WorkerStep
  <1>1. CASE RecvHash(t) \/ HashReceived(t) \/ GetMessageSize(t) \/ SetRecvStart(t)
                \/ PayloadReceived(t) \/ \E n \in Names : GetIndexForHash(t, n)
    <2> USE DEF RecvHash, HashReceived, GetMessageSize, SetRecvStart, PayloadReceived,
                GetIndexForHash
    <2>1. UNCHANGED <<pc, receiving, delegates, setting, unset, buffer, called>>
      BY <1>1
    <2>2. \A s \in Threads :
             /\ worker'[s] \in {"mark", "recvPayload", "call"} =>
                    worker[s] \in {"mark", "recvPayload", "call"} /\ index'[s] = index[s]
             /\ worker'[s] = "delegate" => worker[s] = "delegate"
      BY <1>1 DEF TypeOK
    <2> QED
      BY <2>1, <2>2 DEF EntryInv, SetsAlone, WholeEntries, BufferIsEntrys, DelegateGetsItsBuffer
  <1>2. CASE ReadBuffer(t)
    BY <1>2 DEF ReadBuffer, TypeOK, EntryInv, SetsAlone, WholeEntries, BufferIsEntrys,
                DelegateGetsItsBuffer
  <1>3. CASE CallDelegate(t)
    <2>1. worker[t] = "call" /\ receiving
      BY <1>3, NobodyReceives DEF CallDelegate
    <2>2. delegates[index[t]] = Entry(delegates[index[t]]["delegate"])
      BY <2>1 DEF EntryInv, SetsAlone, WholeEntries, TypeOK
    <2>3. buffer[t] = BufferOf(delegates[index[t]]["delegate"])
      BY <2>1, <2>2, EntryFields DEF EntryInv, BufferIsEntrys
    <2> QED
      BY <1>3, <2>3
      DEF CallDelegate, TypeOK, EntryInv, SetsAlone, WholeEntries, BufferIsEntrys,
          DelegateGetsItsBuffer
  <1>4. CASE DelegateReturns(t) \/ RecvFails(t) \/ ErrorDelegateReturns(t) \/ ActOnCancel(t)
    <2> USE DEF DelegateReturns, RecvFails, ReportError, ErrorDelegateReturns, ActOnCancel,
                OutOfScope
    <2>1. UNCHANGED <<pc, delegates, setting, unset>> /\ (receiving' => receiving)
      BY <1>4
    <2>2. worker'[t] \in {"loop", "error", "exited"}
      BY <1>4 DEF TypeOK
    <2>3. \A s \in Threads : s # t => /\ worker'[s] = worker[s] /\ buffer'[s] = buffer[s]
                                      /\ index'[s] = index[s] /\ called'[s] = called[s]
      BY <1>4 DEF TypeOK
    <2> QED
      BY <2>1, <2>2, <2>3
      DEF EntryInv, SetsAlone, WholeEntries, BufferIsEntrys, DelegateGetsItsBuffer
  <1> QED
    BY <1>1, <1>2, <1>3, <1>4 DEF Receiver

LEMMA EntryInvDelegate ==
  ASSUME ~StopInDelegate, TypeOK, SessionInv, QuietInv, EntryInv,
         NEW t \in Threads, InDelegate(t)
  PROVE  EntryInv'
  <1> USE DEF app, mbr, thread, locals
  <1>1. CASE ClearRecvStart(t)
    BY <1>1, EntryInvKept DEF ClearRecvStart, EntryInv, SetsAlone
  <1>2. ASSUME NEW n \in Names, NEW d \in Delegates \cup {NullDelegate},
               SetDelegateInDelegate(t, n, d)
        PROVE  EntryInv'
    <2>1. worker[t] = "delegate" /\ receiving /\ pc # "set"
      BY <1>2, NobodyReceives DEF SetDelegateInDelegate, EntryInv, SetsAlone
    <2>2. \A s \in Threads : worker[s] \notin {"mark", "recvPayload", "call"}
      BY <2>1 DEF SessionInv, OneThread
    <2>3. UNCHANGED <<pc, receiving, setting, unset, worker, buffer, index, called>>
          /\ delegates' = [delegates EXCEPT ![n] = Entry(d)]
      BY <1>2 DEF SetDelegateInDelegate
    <2>4. WholeEntries'
      BY <2>1, <2>3, EntryFields DEF EntryInv, WholeEntries, TypeOK
    <2> QED
      BY <2>1, <2>2, <2>3, <2>4
      DEF EntryInv, SetsAlone, BufferIsEntrys, DelegateGetsItsBuffer
  <1>3. CASE SelfJoinFails(t)
    BY <1>3 DEF SelfJoinFails, Abort, QuietInv, NoSelfJoin
  <1> QED
    BY <1>1, <1>2, <1>3 DEF InDelegate, StopInDelegateCall

LEMMA EntryInvariant ==
  ASSUME ~SetWhileReceiving, ~StopInDelegate
  PROVE  Spec => [](TypeOK /\ SessionInv /\ QuietInv /\ EntryInv)
<1>1. Init => EntryInv
  BY EntryFields
  DEF Init, EntryInv, SetsAlone, WholeEntries, BufferIsEntrys, DelegateGetsItsBuffer
<1>2. TypeOK /\ SessionInv /\ QuietInv /\ EntryInv /\ [Next]_vars => EntryInv'
  <2> SUFFICES ASSUME TypeOK, SessionInv, QuietInv, EntryInv, [Next]_vars PROVE EntryInv'
    OBVIOUS
  <2>1. CASE UNCHANGED vars
    BY <2>1, EntryInvKept DEF vars, app, mbr, locals, EntryInv, SetsAlone
  <2> QED
    BY <2>1, EntryInvApp, EntryInvReceiver, EntryInvDelegate DEF Next
<1> QED
  BY <1>1, <1>2, QuietInvariant, PTL DEF Spec

\* When delegates are set by the application only while it does not receive, and by
\* delegates at any time, no delegate is ever handed another one's buffer.
THEOREM BufferOfDelegate ==
  ASSUME ~SetWhileReceiving, ~StopInDelegate
  PROVE  Spec => []DelegateGetsItsBuffer
<1>1. EntryInv => DelegateGetsItsBuffer
  BY DEF EntryInv
<1> QED
  BY <1>1, EntryInvariant, PTL

(***************************************************************************)
(* The flag of a buffer.  It is the one of the entry the buffer was read   *)
(* from, and the only thread that could clear it is the one that receives. *)
(***************************************************************************)

\* A step that clears no flag of a delegate and brings no thread to "recvPayload".
LEMMA FlagKept ==
  ASSUME OverwriteIsFlagged, UNCHANGED buffer, recvStart \cap Delegates \subseteq recvStart',
         \A t \in Threads : worker'[t] \in {"recvPayload", "call"} =>
                                worker[t] \in {"recvPayload", "call"}
  PROVE  OverwriteIsFlagged'
  BY SessionAssumption DEF OverwriteIsFlagged

LEMMA FlagStep ==
  ASSUME ~StopInDelegate, TypeOK, SessionInv, QuietInv, EntryInv, OverwriteIsFlagged, [Next]_vars
  PROVE  OverwriteIsFlagged'
  <1> USE DEF app, mbr, thread, locals
  <1>1. CASE App
    <2>1. UNCHANGED buffer /\ recvStart \cap Delegates \subseteq recvStart'
      BY <1>1, SessionAssumption
      DEF App, CallInit, CallStop, CallInitiate, CallSetDelegate, StoreField,
          HandshakeSendHashLength, HandshakeHandleHashLengthRecv, ClearHashMap, FillHashMap,
          CancelRecvThread, JoinRecvThread, FreeMembers, AllocateMembers, CreateRecvThread,
          InitiateReturns, PutFails, CreateFails, CancelFails, Abort
    <2>2. \A t \in Threads : worker'[t] \in {worker[t], "none", "loop"}
      BY <1>1
      DEF App, CallInit, CallStop, CallInitiate, CallSetDelegate, StoreField,
          HandshakeSendHashLength, HandshakeHandleHashLengthRecv, ClearHashMap, FillHashMap,
          CancelRecvThread, JoinRecvThread, FreeMembers, AllocateMembers, CreateRecvThread,
          InitiateReturns, PutFails, CreateFails, CancelFails, Abort, TypeOK
    <2> QED
      BY <2>1, <2>2, FlagKept
  <1>2. ASSUME NEW t \in Threads, Receiver(t) PROVE OverwriteIsFlagged'
    <2> USE DEF WorkerStep, TypeOK
    <2>1. CASE SetRecvStart(t)
      <3>1. worker[t] = "mark" /\ receiving
        BY <2>1, NobodyReceives DEF SetRecvStart
      <3>2. delegates[index[t]] = Entry(delegates[index[t]]["delegate"])
        BY <3>1 DEF EntryInv, SetsAlone, WholeEntries
      <3>3. delegates[index[t]]["recvStart"] = delegates[index[t]]["buffer"]
        BY <3>2 DEF Entry, Fields
      <3>4. buffer[t] = delegates[index[t]]["recvStart"]
        BY <3>1, <3>3 DEF EntryInv, BufferIsEntrys
      <3> QED
        BY <2>1, <3>4 DEF SetRecvStart, OverwriteIsFlagged
    <2>2. CASE ReadBuffer(t)
      BY <2>2 DEF ReadBuffer, OverwriteIsFlagged
    <2>3. CASE RecvHash(t) \/ HashReceived(t) \/ GetMessageSize(t) \/ PayloadReceived(t)
                  \/ CallDelegate(t) \/ \E n \in Names : GetIndexForHash(t, n)
      <3> USE DEF RecvHash, HashReceived, GetMessageSize, PayloadReceived, CallDelegate,
                  GetIndexForHash
      <3>1. UNCHANGED <<buffer, recvStart>>
        BY <2>3
      <3>2. \A s \in Threads : worker'[s] \in {"recvPayload", "call"} =>
                                   worker[s] \in {"recvPayload", "call"}
        BY <2>3
      <3> QED
        BY <3>1, <3>2, FlagKept
    <2>4. CASE DelegateReturns(t) \/ RecvFails(t) \/ ErrorDelegateReturns(t) \/ ActOnCancel(t)
      <3> USE DEF DelegateReturns, RecvFails, ReportError, ErrorDelegateReturns, ActOnCancel,
                  OutOfScope
      <3>1. worker'[t] \in {"loop", "error", "exited"} /\ UNCHANGED recvStart
        BY <2>4
      <3>2. \A s \in Threads : s # t => worker'[s] = worker[s] /\ buffer'[s] = buffer[s]
        BY <2>4
      <3> QED
        BY <3>1, <3>2 DEF OverwriteIsFlagged
    <2> QED
      BY <1>2, <2>1, <2>2, <2>3, <2>4 DEF Receiver
  <1>3. ASSUME NEW t \in Threads, InDelegate(t) PROVE OverwriteIsFlagged'
    <2>1. worker[t] = "delegate"
      BY <1>3 DEF InDelegate, ClearRecvStart, SetDelegateInDelegate, StopInDelegateCall,
                  SelfJoinFails, Abort, QuietInv, NoSelfJoin
    <2>2. \A s \in Threads : worker[s] \notin {"recvPayload", "call"}
      BY <2>1 DEF SessionInv, OneThread
    <2>3. UNCHANGED worker
      BY <1>3 DEF InDelegate, ClearRecvStart, SetDelegateInDelegate, StopInDelegateCall,
                  SelfJoinFails, Abort
    <2> QED
      BY <2>2, <2>3 DEF OverwriteIsFlagged
  <1>4. CASE UNCHANGED vars
    BY <1>4, FlagKept DEF vars
  <1> QED
    BY <1>1, <1>2, <1>3, <1>4 DEF Next

\* As long as the application sets no delegate while it receives, and delegates do not
\* stop, no buffer of its own is written behind a flag that it could still find clear.
THEOREM FlagsPrecedeWrites ==
  ASSUME ~SetWhileReceiving, ~StopInDelegate
  PROVE  Spec => []OverwriteIsFlagged
<1>1. Init => OverwriteIsFlagged
  BY DEF Init, OverwriteIsFlagged
<1>2. TypeOK /\ SessionInv /\ QuietInv /\ EntryInv /\ OverwriteIsFlagged /\ [Next]_vars
         => OverwriteIsFlagged'
  BY FlagStep
<1> QED
  BY <1>1, <1>2, EntryInvariant, PTL DEF Spec

(***************************************************************************)
(* The handshake and the table it fills, when the application initiates no *)
(* connection on top of one it receives from.                              *)
(***************************************************************************)

Quiet == {"handshakeSend", "handshakeRecv", "clear", "fill", "free", "alloc"}

\* While the table or the length changes nobody receives, and whoever receives, or is
\* about to, has the whole table and the length it was filled with.
NotReceiving == pc \in Quiet => ~receiving
WholeTable ==
    pc \in {"create", "created"} \/ (pc \in {"cancel", "join"} /\ api = "initiate") \/ receiving
        => hashKeyMap = Names
OwnLength == \A t \in Threads : worker[t] \in {"recvHash", "lookup"} => hash[t] = hashLength

TableInv == NotReceiving /\ WholeTable /\ OwnLength

LEMMA TableInvApp ==
  ASSUME ~ReinitiateWhileReceiving, TypeOK, SessionInv, QuietInv, TableInv, App
  PROVE  TableInv'
  <1> USE DEF app, mbr, thread, locals
  <1>1. CASE CallInit \/ CallStop
    BY <1>1 DEF CallInit, CallStop, CancelOrSkip, AfterCancel, Quiet, TableInv, NotReceiving,
                WholeTable, OwnLength
  <1>2. CASE CallInitiate
    BY <1>2 DEF CallInitiate, Quiet, TableInv, NotReceiving, WholeTable, OwnLength
  <1>3. ASSUME NEW n \in Names, NEW d \in Delegates \cup {NullDelegate}, CallSetDelegate(n, d)
        PROVE  TableInv'
    BY <1>3 DEF CallSetDelegate, Quiet, TableInv, NotReceiving, WholeTable, OwnLength
  <1>4. ASSUME NEW f \in Fields, StoreField(f) PROVE TableInv'
    BY <1>4 DEF StoreField, Quiet, TableInv, NotReceiving, WholeTable, OwnLength
  <1>5. CASE HandshakeSendHashLength \/ HandshakeHandleHashLengthRecv \/ ClearHashMap
    <2>1. ~receiving /\ UNCHANGED <<worker, receiving, hash>>
          /\ pc' \in {"handshakeRecv", "clear", "fill", "idle"}
      BY <1>5 DEF HandshakeSendHashLength, HandshakeHandleHashLengthRecv, ClearHashMap, Quiet,
                  TableInv, NotReceiving
    <2>2. \A t \in Threads : worker'[t] \in {"none", "error", "exited"}
      BY <2>1 DEF QuietInv, Done
    <2> QED
      BY <2>1, <2>2 DEF TableInv, NotReceiving, WholeTable, OwnLength
  <1>6. ASSUME NEW n \in Names, FillHashMap(n) PROVE TableInv'
    <2>1. ~receiving /\ ~receiving' /\ api = "initiate" /\ UNCHANGED <<worker, hash, hashLength>>
      BY <1>6 DEF FillHashMap, CancelOrSkip, Quiet, TableInv, NotReceiving, SessionInv, Stages
    <2>2. pc' = "fill" \/ (hashKeyMap' = Names /\ pc' \in {"cancel", "create"})
      BY <1>6 DEF FillHashMap, CancelOrSkip, AfterCancel
    <2> QED
      BY <2>1, <2>2 DEF TableInv, NotReceiving, WholeTable, OwnLength
  <1>7. CASE CancelRecvThread
    BY <1>7 DEF CancelRecvThread, Quiet, TableInv, NotReceiving, WholeTable, OwnLength
  <1>8. CASE JoinRecvThread
    <2>1. \A t \in Threads : worker'[t] = "none"
      BY <1>8 DEF JoinRecvThread, SessionInv, OneThread, TypeOK
    <2> QED
      BY <1>8, <2>1 DEF JoinRecvThread, AfterCancel, TableInv, NotReceiving, WholeTable, OwnLength,
                        TypeOK
  <1>9. CASE FreeMembers \/ AllocateMembers
    <2>1. ~receiving /\ ~receiving' /\ pc' \in {"alloc", "idle"}
      BY <1>9 DEF FreeMembers, AllocateMembers, Quiet, TableInv, NotReceiving
    <2>2. \A t \in Threads : worker'[t] = "none"
      BY <1>9 DEF FreeMembers, AllocateMembers, SessionInv, ThreadIsSeen, Stages
    <2> QED
      BY <2>1, <2>2 DEF TableInv, NotReceiving, WholeTable, OwnLength
  <1>10. ASSUME NEW t \in Threads, CreateRecvThread(t) PROVE TableInv'
    <2>1. hashKeyMap' = Names /\ UNCHANGED <<hash, hashLength>> /\ pc' \notin Quiet
      BY <1>10 DEF CreateRecvThread, TableInv, WholeTable, Quiet
    <2>2. \A s \in Threads : worker'[s] \in {worker[s], "loop"}
      BY <1>10 DEF CreateRecvThread, TypeOK
    <2> QED
      BY <2>1, <2>2 DEF TableInv, NotReceiving, WholeTable, OwnLength
  <1>11. CASE InitiateReturns
    BY <1>11 DEF InitiateReturns, Quiet, TableInv, NotReceiving, WholeTable, OwnLength
  <1>12. CASE PutFails \/ CreateFails \/ CancelFails
    BY <1>12 DEF PutFails, CreateFails, CancelFails, Abort, TableInv, NotReceiving, WholeTable,
                 OwnLength
  <1> QED
    BY <1>1, <1>2, <1>3, <1>4, <1>5, <1>6, <1>7, <1>8, <1>9, <1>10, <1>11, <1>12 DEF App

LEMMA TableInvWorker ==
  ASSUME ~StopInDelegate, TypeOK, TableInv, NEW t \in Threads, Receiver(t) \/ InDelegate(t)
  PROVE  TableInv'
  <1> USE DEF app, mbr, thread, locals
  <1>1. UNCHANGED <<pc, api, hashLength, hashKeyMap>> /\ (receiving' => receiving)
    BY DEF Receiver, RecvHash, HashReceived, GetIndexForHash, GetMessageSize, ReadBuffer,
           SetRecvStart, PayloadReceived, CallDelegate, DelegateReturns, RecvFails, ReportError,
           ErrorDelegateReturns, ActOnCancel, WorkerStep, InDelegate, ClearRecvStart,
           SetDelegateInDelegate, StopInDelegateCall, SelfJoinFails, Abort
  <1>2. OwnLength'
    <2>1. CASE RecvHash(t)
      BY <2>1 DEF RecvHash, WorkerStep, TypeOK, TableInv, OwnLength
    <2>2. CASE HashReceived(t)
      BY <2>2 DEF HashReceived, WorkerStep, TypeOK, TableInv, OwnLength
    <2>3. CASE ~RecvHash(t) /\ ~HashReceived(t)
      <3>1. \A s \in Threads : worker'[s] \in {"recvHash", "lookup"} =>
                                   worker'[s] = worker[s] /\ hash'[s] = hash[s]
        BY <2>3 DEF Receiver, GetIndexForHash, GetMessageSize, ReadBuffer, SetRecvStart,
                    PayloadReceived, CallDelegate, DelegateReturns, RecvFails, ReportError,
                    ErrorDelegateReturns, ActOnCancel, WorkerStep, OutOfScope, InDelegate,
                    ClearRecvStart, SetDelegateInDelegate, StopInDelegateCall, SelfJoinFails,
                    Abort, TypeOK
      <3> QED
        BY <1>1, <3>1 DEF TableInv, OwnLength
    <2> QED
      BY <2>1, <2>2, <2>3
  <1> QED
    BY <1>1, <1>2 DEF TableInv, NotReceiving, WholeTable

LEMMA TableInvariant ==
  ASSUME ~ReinitiateWhileReceiving, ~StopInDelegate
  PROVE  Spec => [](QuietInv /\ TableInv)
<1>1. Init => TableInv
  BY DEF Init, Quiet, TableInv, NotReceiving, WholeTable, OwnLength
<1>2. TypeOK /\ SessionInv /\ QuietInv /\ TableInv /\ [Next]_vars => TableInv'
  <2> SUFFICES ASSUME TypeOK, SessionInv, QuietInv, TableInv, [Next]_vars PROVE TableInv'
    OBVIOUS
  <2>1. CASE UNCHANGED vars
    BY <2>1 DEF vars, app, mbr, locals, TableInv, NotReceiving, WholeTable, OwnLength
  <2> QED
    BY <2>1, TableInvApp, TableInvWorker DEF Next
<1> QED
  BY <1>1, <1>2, QuietInvariant, PTL DEF Spec

\* The byte of a handshake is not read by the receive thread of an earlier connection,
\* unless the application initiates while it receives or a delegate stops.
THEOREM HandshakeIsAlone ==
  ASSUME ~ReinitiateWhileReceiving, ~StopInDelegate
  PROVE  Spec => []HandshakeAlone
<1>1. QuietInv /\ TableInv => HandshakeAlone
  BY DEF QuietInv, Done, TableInv, NotReceiving, Quiet, HandshakeAlone, UsesMembers, RecvStates
<1> QED
  BY <1>1, TableInvariant, PTL

\* Under the same condition no received hash is looked up in a table that is being
\* filled, or under another length than it was received with.
THEOREM WholeTableSeen ==
  ASSUME ~ReinitiateWhileReceiving, ~StopInDelegate
  PROVE  Spec => []LookupSeesWholeTable
<1>1. QuietInv /\ TableInv => LookupSeesWholeTable
  BY DEF QuietInv, Done, TableInv, WholeTable, OwnLength, LookupSeesWholeTable
<1> QED
  BY <1>1, TableInvariant, PTL
=============================================================================
