--------------------------- MODULE NadamSession ---------------------------
(***************************************************************************)
(* One nadam endpoint: the static struct mbr of nadam/c/nadam.cpp, the     *)
(* application thread that calls init, setDelegate, initiate and stop, and *)
(* the receive threads createRecvThread starts.  What travels on the wire  *)
(* is the subject of NadamLink; here a receive simply succeeds, fails or   *)
(* has not returned yet.                                                   *)
(*                                                                         *)
(* The API has one caller at a time: pc and api are the control point of   *)
(* that caller.  A delegate runs on the receive thread and may itself      *)
(* register a delegate (same thread as the reader of mbr.delegates) and,   *)
(* when StopInDelegate holds, call stop.                                   *)
(***************************************************************************)
EXTENDS Naturals, FiniteSets

CONSTANTS
    Names,                     \* names of mbr.messageInfos
    VariableNames,             \* those whose MessageInfo isVariableSize
    Delegates,                 \* receive delegates the application registers
    OwnBuffer,                 \* those set with a buffer and a recvStart flag of
                               \* their own, both identified with the delegate
    NullDelegate,              \* nullDelegate
    Stock,                     \* mbr.commonRecvBuffer and mbr.nullRecvStart
    Threads,                   \* ids pthread_create hands out; reused after a join
    NoThread,                  \* mbr.threadId before the first pthread_create
    HashLengthMax,             \* HASH_LENGTH_MAX
    SetWhileReceiving,         \* the application calls setDelegate while it receives
    ReinitiateWhileReceiving,  \* the application calls initiate while it receives
    StopInDelegate             \* a delegate calls stop

ASSUME SessionAssumption ==
    /\ Names # {} /\ VariableNames \subseteq Names
    /\ OwnBuffer \subseteq Delegates
    /\ NullDelegate \notin Delegates /\ Stock \notin Delegates /\ NullDelegate # Stock
    /\ NoThread \notin Threads
    /\ HashLengthMax \in Nat \ {0}
    /\ {SetWhileReceiving, ReinitiateWhileReceiving, StopInDelegate} \subseteq BOOLEAN

VARIABLES
    pc,               \* where the API call in progress is; "idle" between calls
    api,              \* the last init, initiate or stop: who called cancelRecvThread
    setting,          \* [name, delegate] of the setDelegate call in progress
    unset,            \* fields of that entry not yet stored
    members,          \* the heap objects of mbr that are allocated
    usable,           \* the last init returned 0
    hashLength,       \* mbr.hashLength; 0 after the memset
    hashKeyMap,       \* names whose hash is a key of mbr.hashKeyMap
    delegates,        \* mbr.delegates
    threadId,         \* mbr.threadId
    isThreadRunning,  \* mbr.isThreadRunning
    worker,           \* control point of each receive thread
    hash,             \* how many bytes of the worker's hash[] its recv filled
    index,            \* message the worker is receiving
    buffer,           \* the worker's copy of delegate->buffer
    called,           \* delegate the worker called
    cancelled,        \* threads with a pending pthread_cancel
    recvStart,        \* flags (by delegate, Stock for nullRecvStart) that are true
    receiving,        \* a receive thread was created, and since then neither stop
                      \* nor init returned nor was the error delegate called
    aborted           \* the assertion of the code that failed, or "no"

app    == <<pc, api, setting, unset>>
mbr    == <<members, usable, hashLength, hashKeyMap, delegates>>
thread == <<threadId, isThreadRunning, cancelled>>
locals == <<hash, index, buffer, called>>
vars   == <<app, mbr, thread, worker, locals, recvStart, receiving, aborted>>

AllMembers == {"commonRecvBuffer", "delegates", "nameKeyMap", "hashKeyMap"}
Fields     == {"recvStart", "buffer", "delegate"}

PcStates == {"idle", "handshakeSend", "handshakeRecv", "clear", "fill", "cancel",
             "join", "free", "alloc", "create", "created", "set"}

\* Control points of recvWorker.  The worker is blocked in mbr.recv in the three
\* recv states, and inside a callback in "delegate" and "error".
RecvStates     == {"recvHash", "recvSize", "recvPayload"}
CallbackStates == {"delegate", "error"}
UsesMembers    == RecvStates \cup {"loop", "lookup", "bind", "mark", "call", "delegate"}
WorkerStates   == UsesMembers \cup {"none", "error", "selfJoin", "exited"}

\* By what it is about: the result of kh_put, isThreadRunning, or the result of
\* pthread_create, pthread_cancel and pthread_join.
Assertions == {"put", "running", "create", "cancel", "join"}

\* The entry of a delegate as the setters and getDelegateInit fill it in.
BufferOf(d) == IF d \in OwnBuffer THEN d ELSE Stock
Entry(d)    == [f \in Fields |-> IF f = "delegate" THEN d ELSE BufferOf(d)]

Live(t) == worker[t] \notin {"none", "exited"}

\* What a variable holds while nothing reads it.
NoSetting == [name |-> CHOOSE n \in Names : TRUE, delegate |-> NullDelegate]

\* The locals of recvWorker go out of scope.
OutOfScope(t) ==
    /\ hash' = [hash EXCEPT ![t] = 0]
    /\ index' = [index EXCEPT ![t] = NoSetting.name]
    /\ buffer' = [buffer EXCEPT ![t] = Stock]
    /\ called' = [called EXCEPT ![t] = NullDelegate]

Init ==
    /\ pc = "idle" /\ api = "stop"
    /\ setting = NoSetting /\ unset = {}
    /\ members = {} /\ usable = FALSE
    /\ hashLength = 0 /\ hashKeyMap = {}
    /\ delegates = [n \in Names |-> Entry(NullDelegate)]
    /\ threadId = NoThread /\ isThreadRunning = FALSE /\ cancelled = {}
    /\ worker = [t \in Threads |-> "none"]
    /\ hash = [t \in Threads |-> 0]
    /\ index = [t \in Threads |-> NoSetting.name]
    /\ buffer = [t \in Threads |-> Stock]
    /\ called = [t \in Threads |-> NullDelegate]
    /\ recvStart = {} /\ receiving = FALSE /\ aborted = "no"

-----------------------------------------------------------------------------
(* API calls.  Calls that return -1 on their arguments (testInitIn, unknown *)
(* name, NULL buffer, NULL callback) change nothing and are not steps.      *)

\* init, initiate and stop all go through cancelRecvThread: its early return
\* when no thread is running takes the caller to the statement after the call.
AfterCancel(call) == CASE call = "init"     -> "free"
                       [] call = "initiate" -> "create"
                       [] OTHER             -> "idle"

CancelOrSkip(call) ==
    IF isThreadRunning
    THEN pc' = "cancel" /\ UNCHANGED receiving
    ELSE pc' = AfterCancel(call) /\ receiving' = FALSE

\* Mutant: init frees without cancelRecvThread.
CallInitNoCancel ==
    /\ pc = "idle"
    /\ api' = "init" /\ pc' = "free"
    /\ UNCHANGED <<setting, unset, mbr, thread, worker, locals, recvStart, receiving, aborted>>

CallInit ==
    /\ pc = "idle"
    /\ api' = "init"
    /\ CancelOrSkip("init")
    /\ UNCHANGED <<setting, unset, mbr, thread, worker, locals, recvStart, aborted>>

CallStop ==
    /\ pc = "idle"
    /\ api' = "stop"
    /\ CancelOrSkip("stop")
    /\ UNCHANGED <<setting, unset, mbr, thread, worker, locals, recvStart, aborted>>

\* The application initiates a usable endpoint, and unless
\* ReinitiateWhileReceiving not on top of a connection it still receives from.
CallInitiate ==
    /\ pc = "idle" /\ usable
    /\ ReinitiateWhileReceiving \/ ~receiving
    /\ api' = "initiate" /\ pc' = "handshakeSend"
    /\ UNCHANGED <<setting, unset, mbr, thread, worker, locals, recvStart, receiving, aborted>>

\* setDelegate, setDelegateWithRecvBuffer, or the removal of a delegate.
CallSetDelegate(n, d) ==
    /\ pc = "idle" /\ usable
    /\ SetWhileReceiving \/ ~receiving
    /\ pc' = "set"
    /\ setting' = [name |-> n, delegate |-> d] /\ unset' = Fields
    /\ UNCHANGED <<api, mbr, thread, worker, locals, recvStart, receiving, aborted>>

\* The fields are plain members: another thread may see the stores in any order.
StoreField(f) ==
    /\ pc = "set" /\ f \in unset
    /\ delegates' = [delegates EXCEPT ![setting.name][f] = Entry(setting.delegate)[f]]
    /\ unset' = unset \ {f}
    /\ IF unset' = {} THEN pc' = "idle" /\ setting' = NoSetting
                      ELSE UNCHANGED <<pc, setting>>
    /\ UNCHANGED <<api, members, usable, hashLength, hashKeyMap, thread, worker,
                   locals, recvStart, receiving, aborted>>

HandshakeSendHashLength ==
    /\ pc = "handshakeSend"
    /\ pc' \in {"handshakeRecv", "idle"}     \* "idle": the send failed
    /\ UNCHANGED <<api, setting, unset, mbr, thread, worker, locals, recvStart, receiving, aborted>>

\* Mutant: a received length of HASH_LENGTH_MAX + 1 is accepted.
HandshakeOffByOne ==
    /\ pc = "handshakeRecv" /\ pc' = "clear"
    /\ \E peer \in 0..HashLengthMax + 1 :
          hashLength' = IF peer > hashLength THEN peer ELSE hashLength
    /\ UNCHANGED <<api, setting, unset, members, usable, hashKeyMap, delegates, thread, worker,
                   locals, recvStart, receiving, aborted>>

\* The peer's length is whatever byte arrives: above HashLengthMax it is refused
\* as a failed receive is.
HandshakeHandleHashLengthRecv ==
    /\ pc = "handshakeRecv"
    /\ \/ pc' = "idle" /\ UNCHANGED hashLength
       \/ /\ pc' = "clear"
          /\ \E peer \in 0..HashLengthMax :
                hashLength' = IF peer > hashLength THEN peer ELSE hashLength
    /\ UNCHANGED <<api, setting, unset, members, usable, hashKeyMap, delegates, thread, worker,
                   locals, recvStart, receiving, aborted>>

ClearHashMap ==
    /\ pc = "clear"
    /\ hashKeyMap' = {} /\ pc' = "fill"
    /\ UNCHANGED <<api, setting, unset, members, usable, hashLength, delegates, thread, worker,
                   locals, recvStart, receiving, aborted>>

\* Mutant: the loop stops one message short.
FillHashMapShort(n) ==
    /\ pc = "fill" /\ n \notin hashKeyMap
    /\ hashKeyMap' = hashKeyMap \cup {n}
    /\ IF Cardinality(hashKeyMap') >= Cardinality(Names) - 1
       THEN CancelOrSkip("initiate")
       ELSE UNCHANGED <<pc, receiving>>
    /\ UNCHANGED <<api, setting, unset, members, usable, hashLength, delegates, thread, worker,
                   locals, recvStart, aborted>>

\* One kh_put per message; the last one moves on to cancelRecvThread.
FillHashMap(n) ==
    /\ pc = "fill" /\ n \notin hashKeyMap
    /\ hashKeyMap' = hashKeyMap \cup {n}
    /\ IF hashKeyMap' = Names THEN CancelOrSkip("initiate")
                              ELSE UNCHANGED <<pc, receiving>>
    /\ UNCHANGED <<api, setting, unset, members, usable, hashLength, delegates, thread, worker,
                   locals, recvStart, aborted>>

Abort(assertion) ==
    /\ aborted' = assertion
    /\ UNCHANGED <<app, mbr, thread, worker, locals, recvStart, receiving>>

\* The assertions in fillNameMap and fillHashMap: the table cannot grow.
PutFails == pc \in {"alloc", "fill"} /\ Abort("put")

\* Mutant: the thread is cancelled but not joined.
CancelWithoutJoin ==
    /\ pc = "cancel"
    /\ cancelled' = cancelled \cup {threadId}
    /\ isThreadRunning' = FALSE /\ receiving' = FALSE
    /\ pc' = AfterCancel(api)
    /\ UNCHANGED <<api, setting, unset, mbr, threadId, worker, locals, recvStart, aborted>>

\* Mutant: the thread is joined without having been cancelled.
JoinWithoutCancel ==
    /\ pc = "cancel" /\ pc' = "join"
    /\ UNCHANGED <<api, setting, unset, mbr, thread, worker, locals, recvStart, receiving, aborted>>

CancelRecvThread ==
    /\ pc = "cancel" /\ worker[threadId] # "none"
    /\ cancelled' = cancelled \cup {threadId}
    /\ pc' = "join"
    /\ UNCHANGED <<api, setting, unset, mbr, threadId, isThreadRunning, worker, locals, recvStart,
                   receiving, aborted>>

\* The assertion on pthread_cancel: some libcs report a thread that has returned, though
\* it is not joined yet (ESRCH), others do not; after the join the id names none.
CancelFails ==
    /\ pc = "cancel" /\ worker[threadId] \in {"none", "exited"}
    /\ Abort("cancel")

\* Mutant: isThreadRunning is not reset.
JoinKeepsRunning ==
    /\ pc = "join" /\ worker[threadId] = "exited"
    /\ worker' = [worker EXCEPT ![threadId] = "none"]
    /\ cancelled' = cancelled \ {threadId}
    /\ receiving' = FALSE
    /\ pc' = AfterCancel(api)
    /\ UNCHANGED <<api, setting, unset, mbr, threadId, isThreadRunning, locals, recvStart, aborted>>

\* pthread_join returns once the thread has returned or acted on the cancellation.
JoinRecvThread ==
    /\ pc = "join" /\ worker[threadId] = "exited"
    /\ worker' = [worker EXCEPT ![threadId] = "none"]
    /\ cancelled' = cancelled \ {threadId}
    /\ isThreadRunning' = FALSE /\ receiving' = FALSE
    /\ pc' = AfterCancel(api)
    /\ UNCHANGED <<api, setting, unset, mbr, threadId, locals, recvStart, aborted>>

\* freeMembers, the memset of mbr, and the three assignments after it.
FreeMembers ==
    /\ pc = "free"
    /\ members' = {} /\ usable' = FALSE /\ hashKeyMap' = {}
    /\ hashLength' \in 1..HashLengthMax
    /\ threadId' = NoThread /\ isThreadRunning' = FALSE
    /\ recvStart' = recvStart \ {Stock}
    /\ pc' = "alloc"
    /\ UNCHANGED <<api, setting, unset, delegates, cancelled, worker, locals, receiving, aborted>>

\* init fails on either malloc, leaving what it had allocated, or in fillNameMap
\* on a name collision, with everything allocated.
AllocateMembers ==
    /\ pc = "alloc" /\ pc' = "idle"
    /\ \/ members' \in {{}, {"commonRecvBuffer"}} /\ UNCHANGED <<usable, delegates>>
       \/ /\ members' = AllMembers
          /\ delegates' = [n \in Names |-> Entry(NullDelegate)]
          /\ usable' \in BOOLEAN
    /\ UNCHANGED <<api, setting, unset, hashLength, hashKeyMap, thread, worker, locals, recvStart,
                   receiving, aborted>>

\* createRecvThread up to the return of pthread_create: the thread may run before
\* isThreadRunning is set.
CreateRecvThread(t) ==
    /\ pc = "create" /\ ~isThreadRunning /\ worker[t] = "none"
    /\ worker' = [worker EXCEPT ![t] = "loop"]
    /\ threadId' = t
    /\ receiving' = TRUE
    /\ pc' = "created"
    /\ UNCHANGED <<api, setting, unset, mbr, isThreadRunning, cancelled, locals, recvStart, aborted>>

\* The assertions of createRecvThread; pthread_create may find no resources for a thread.
CreateFails == pc = "create" /\ Abort(IF isThreadRunning THEN "running" ELSE "create")

InitiateReturns ==
    /\ pc = "created"
    /\ isThreadRunning' = TRUE
    /\ pc' = "idle"
    /\ UNCHANGED <<api, setting, unset, mbr, threadId, cancelled, worker, locals, recvStart,
                   receiving, aborted>>

App ==
    \/ CallInit \/ CallStop \/ CallInitiate
    \/ \E n \in Names, d \in Delegates \cup {NullDelegate} : CallSetDelegate(n, d)
    \/ \E f \in Fields : StoreField(f)
    \/ HandshakeSendHashLength \/ HandshakeHandleHashLengthRecv
    \/ ClearHashMap \/ \E n \in Names : FillHashMap(n)
    \/ CancelRecvThread \/ JoinRecvThread
    \/ PutFails \/ CreateFails \/ CancelFails
    \/ FreeMembers \/ AllocateMembers
    \/ \E t \in Threads : CreateRecvThread(t)
    \/ InitiateReturns
-----------------------------------------------------------------------------
(* recvWorker, one action per access to state it shares with the API.       *)

WorkerStep(t, from, to) ==
    /\ worker[t] = from
    /\ worker' = [worker EXCEPT ![t] = to]
    /\ UNCHANGED <<app, mbr, thread, aborted>>

\* mbr.errorDelegate is called and recvWorker returns after it.
ReportError(t, from) ==
    /\ WorkerStep(t, from, "error")
    /\ receiving' = FALSE
    /\ OutOfScope(t)
    /\ UNCHANGED recvStart

RecvHash(t) ==
    /\ WorkerStep(t, "loop", "recvHash")
    /\ hash' = [hash EXCEPT ![t] = hashLength]
    /\ UNCHANGED <<index, buffer, called, recvStart, receiving>>

HashReceived(t) ==
    /\ WorkerStep(t, "recvHash", "lookup")
    /\ UNCHANGED <<locals, recvStart, receiving>>

\* getIndexForHash: a received hash is that of some key of the map, or unknown
\* (ReportError).  Bytes of another length than hashLength could match any key.
GetIndexForHash(t, n) ==
    /\ n \in hashKeyMap
    /\ WorkerStep(t, "lookup", IF n \in VariableNames THEN "recvSize" ELSE "bind")
    /\ index' = [index EXCEPT ![t] = n]
    /\ UNCHANGED <<hash, buffer, called, recvStart, receiving>>

GetMessageSize(t) ==
    /\ WorkerStep(t, "recvSize", "bind")
    /\ UNCHANGED <<locals, recvStart, receiving>>

ReadBuffer(t) ==
    /\ WorkerStep(t, "bind", "mark")
    /\ buffer' = [buffer EXCEPT ![t] = delegates[index[t]]["buffer"]]
    /\ UNCHANGED <<hash, index, called, recvStart, receiving>>

\* Mutant: the flag is not set before the receive.
RecvWithoutStart(t) ==
    /\ WorkerStep(t, "mark", "recvPayload")
    /\ UNCHANGED <<locals, recvStart, receiving>>

SetRecvStart(t) ==
    /\ WorkerStep(t, "mark", "recvPayload")
    /\ recvStart' = recvStart \cup {delegates[index[t]]["recvStart"]}
    /\ UNCHANGED <<locals, receiving>>

PayloadReceived(t) ==
    /\ WorkerStep(t, "recvPayload", "call")
    /\ UNCHANGED <<locals, recvStart, receiving>>

CallDelegate(t) ==
    /\ WorkerStep(t, "call", "delegate")
    /\ called' = [called EXCEPT ![t] = delegates[index[t]]["delegate"]]
    /\ UNCHANGED <<hash, index, buffer, recvStart, receiving>>

DelegateReturns(t) ==
    /\ WorkerStep(t, "delegate", "loop")
    /\ OutOfScope(t)
    /\ UNCHANGED <<recvStart, receiving>>

\* Mutant: recvWorker returns without calling the error delegate.
ReturnSilently(t) ==
    \E from \in RecvStates \cup {"lookup"} :
       WorkerStep(t, from, "exited") /\ OutOfScope(t) /\ UNCHANGED <<recvStart, receiving>>

\* Receives, the lookup of the hash and the size check can fail.
RecvFails(t) == \E from \in RecvStates \cup {"lookup"} : ReportError(t, from)

\* Mutant: recvWorker goes on after reporting an error.
ContinueAfterError(t) ==
    /\ WorkerStep(t, "error", "loop")
    /\ UNCHANGED <<locals, recvStart, receiving>>

ErrorDelegateReturns(t) ==
    /\ WorkerStep(t, "error", "exited")
    /\ UNCHANGED <<locals, recvStart, receiving>>

\* The cancellation is deferred: it takes effect where recv or a callback blocks.
ActOnCancel(t) ==
    /\ t \in cancelled
    /\ \E from \in RecvStates \cup CallbackStates \cup {"selfJoin"} : WorkerStep(t, from, "exited")
    /\ OutOfScope(t)
    /\ UNCHANGED <<recvStart, receiving>>

(* What a delegate of the application may do besides returning.             *)

\* Consume the message: the flag tells later that the buffer is overwritten.
ClearRecvStart(t) ==
    /\ worker[t] = "delegate" /\ called[t] \in OwnBuffer
    /\ recvStart' = recvStart \ {called[t]}
    /\ UNCHANGED <<app, mbr, thread, worker, locals, receiving, aborted>>

\* Register or remove a delegate; no other thread reads the entry.
SetDelegateInDelegate(t, n, d) ==
    /\ worker[t] = "delegate" /\ called[t] # NullDelegate
    /\ delegates' = [delegates EXCEPT ![n] = Entry(d)]
    /\ UNCHANGED <<app, members, usable, hashLength, hashKeyMap, thread, worker, locals, recvStart,
                   receiving, aborted>>

\* stop, also in the error delegate: the early return when isThreadRunning is not set
\* yet; otherwise the thread cancels itself and joins itself, which fails (assert) or
\* acts on the cancellation.
StopInDelegateCall(t) ==
    /\ StopInDelegate
    /\ worker[t] = "error" \/ (worker[t] = "delegate" /\ called[t] # NullDelegate)
    /\ pc \in {"idle", "created"}
    /\ IF isThreadRunning
       THEN /\ cancelled' = cancelled \cup {t}
            /\ worker' = [worker EXCEPT ![t] = "selfJoin"]
            /\ UNCHANGED receiving
       ELSE /\ receiving' = FALSE
            /\ UNCHANGED <<cancelled, worker>>
    /\ UNCHANGED <<app, mbr, threadId, isThreadRunning, locals, recvStart, aborted>>

SelfJoinFails(t) ==
    /\ worker[t] = "selfJoin"
    /\ Abort("join")

Receiver(t) ==
    \/ RecvHash(t) \/ HashReceived(t)
    \/ \E n \in Names : GetIndexForHash(t, n)
    \/ GetMessageSize(t) \/ ReadBuffer(t) \/ SetRecvStart(t) \/ PayloadReceived(t)
    \/ CallDelegate(t) \/ DelegateReturns(t)
    \/ RecvFails(t) \/ ErrorDelegateReturns(t)
    \/ ActOnCancel(t)

InDelegate(t) ==
    \/ ClearRecvStart(t)
    \/ \E n \in Names, d \in Delegates \cup {NullDelegate} : SetDelegateInDelegate(t, n, d)
    \/ StopInDelegateCall(t) \/ SelfJoinFails(t)

Next == aborted = "no" /\ (App \/ \E t \in Threads : Receiver(t) \/ InDelegate(t))

Spec == Init /\ [][Next]_vars

\* The steps of cancelRecvThread are ordinary code of the caller.  A running
\* receive thread keeps taking steps between two blocking calls, callbacks return,
\* and a receive or callback that keeps being entered with a cancellation pending
\* acts on it.  Nothing is assumed of the peer or of the calls made.
BetweenRecvs(t) ==
    \/ RecvHash(t) \/ \E n \in Names : GetIndexForHash(t, n) \/ ReportError(t, "lookup")
    \/ ReadBuffer(t) \/ SetRecvStart(t) \/ CallDelegate(t) \/ DelegateReturns(t)
    \/ ErrorDelegateReturns(t)

LiveSpec ==
    /\ Spec
    /\ WF_vars(aborted = "no" /\ (CancelRecvThread \/ JoinRecvThread))
    /\ \A t \in Threads :
          WF_vars(aborted = "no" /\ BetweenRecvs(t)) /\ SF_vars(aborted = "no" /\ ActOnCancel(t))

-----------------------------------------------------------------------------
(* Properties.                                                              *)

TypeOK ==
    /\ pc \in PcStates /\ api \in {"init", "initiate", "stop"}
    /\ setting \in [name : Names, delegate : Delegates \cup {NullDelegate}]
    /\ unset \subseteq Fields /\ members \subseteq AllMembers
    /\ usable \in BOOLEAN /\ isThreadRunning \in BOOLEAN
    /\ receiving \in BOOLEAN /\ aborted \in Assertions \cup {"no"}
    /\ hashLength \in 0..HashLengthMax /\ hashKeyMap \subseteq Names
    /\ delegates \in [Names -> [Fields -> Delegates \cup {NullDelegate, Stock}]]
    /\ threadId \in Threads \cup {NoThread} /\ cancelled \subseteq Threads \cup {NoThread}
    /\ worker \in [Threads -> WorkerStates]
    /\ hash \in [Threads -> 0..HashLengthMax] /\ index \in [Threads -> Names]
    /\ buffer \in [Threads -> Delegates \cup {NullDelegate, Stock}]
    /\ called \in [Threads -> Delegates \cup {NullDelegate, Stock}]
    /\ recvStart \subseteq Delegates \cup {NullDelegate, Stock}

\* init frees and initiate starts a second thread only after the old one is gone:
\* two receive threads never run, whatever sequence of calls and errors.
AtMostOneReceiver == \A s, t \in Threads : Live(s) /\ Live(t) => s = t

\* A thread inside recvWorker has all four objects it reads allocated: init joins
\* it (cancelRecvThread) before freeMembers, and a failed init starts none.
NoUseAfterFree == \A t \in Threads : worker[t] \in UsesMembers => members = AllMembers

\* Which assertions on the thread can fail, and then why.  That on isThreadRunning in
\* createRecvThread does not.  That on pthread_cancel does only where the thread, not
\* joined yet, has ended by itself: it has called the error delegate, or acted on its
\* own stop; stop, init and initiate never cancel one that is joined, and one that
\* reported nothing is there to be cancelled.  That on pthread_join does only in a stop
\* that the receive thread itself is in.
AssertionsFailOnlyWhen ==
    /\ aborted # "running"
    /\ aborted = "cancel" => worker[threadId] = "exited" /\ (receiving => threadId \in cancelled)
    /\ aborted = "join" => StopInDelegate /\ worker[threadId] = "selfJoin"

\* Without a setDelegate racing the receiver, the delegate is called with a payload
\* that was received into the buffer registered with it, never into another one.
DelegateGetsItsBuffer ==
    \A t \in Threads : worker[t] = "delegate" => buffer[t] = BufferOf(called[t])

\* A buffer of the application's own is written only after its recvStart flag was
\* set, so a reader that finds the flag still clear has read an unharmed message.
OverwriteIsFlagged ==
    \A t \in Threads : worker[t] \in {"recvPayload", "call"} /\ buffer[t] \in OwnBuffer
                          => buffer[t] \in recvStart

\* Unless the application initiates over a live connection, the handshake byte is
\* not taken by a receive thread of an earlier connection.
HandshakeAlone ==
    pc \in {"handshakeSend", "handshakeRecv"} =>
        \A t \in Threads : worker[t] \notin UsesMembers \ {"delegate"}

\* Under the same condition a lookup sees every message of the table under the
\* negotiated length, which is the length of the hash it received.
LookupSeesWholeTable ==
    \A t \in Threads : worker[t] = "lookup" => hashKeyMap = Names /\ hash[t] = hashLength

\* "if the error delegate gets called, no new messages will be received" and stop
\* "stops receiving" (nadam.h): a delegate is called only while receiving.
StoppedStaysStopped ==
    [][\A t \in Threads : worker[t] # "delegate" /\ worker'[t] = "delegate" => receiving]_vars

\* cancelRecvThread returns: the thread it cancels exits, and init, initiate and
\* stop do not hang in the join (unless an assertion aborts the program meanwhile).
CancelCompletes == pc \in {"cancel", "join"} ~> pc \notin {"cancel", "join"} \/ aborted # "no"
=============================================================================
