----------------------------- MODULE NadamLink -----------------------------
(***************************************************************************)
(* Two nadam endpoints over a connection: the handshake, the three calls   *)
(* of mbr.send that make a frame, and the recvWorker of the other side     *)
(* that cuts the byte stream back into messages.                           *)
(*                                                                         *)
(* The connection is the application's: send_t and recv_t move units one   *)
(* at a time through a buffer of Capacity units per direction.  A unit is  *)
(* a byte, except that the four bytes of a size travel as one unit.  Units *)
(* carry no tag, so a receiver that loses the frame boundary reads what it *)
(* finds.                                                                  *)
(***************************************************************************)
EXTENDS Naturals, Sequences, SequencesExt, FiniteSets

CONSTANTS
    Peers,          \* the two endpoints
    Table,          \* messageInfos of each peer: ids of (name, size, isVariableSize)
    Hash,           \* MessageInfo.hash of an id: constructHash covers all three
    IsVariable,     \* MessageInfo.isVariableSize
    Size,           \* MessageInfo.size, or maxSize
    Payloads,       \* contents the application sends
    HashLengthMax,  \* HASH_LENGTH_MAX of each peer's build
    MinLengths,     \* hashLengthMin arguments of each peer's init
    Capacity,       \* units in flight per direction
    Failures,       \* of connections that are not reliable: "closing", a failed one
                    \* stays failed; "transient", send_t may fail and work again
    MaxSessions,    \* bound: connections opened
    MaxSends,       \* bound: send() calls of each peer per connection
    NoId            \* no message

Ids == UNION {Table[p] : p \in Peers}

HashPrefix(n, length) == SubSeq(Hash[n], 1, length)

\* Units are numbers, a hash is at least as long as HASH_LENGTH_MAX, and a table has a
\* largest message.  "let's assume that all hashes can be uniquely distinguished by the
\* first 4 bytes" (nadam.cpp), here by the shortest length the peers can agree on.
ASSUME LinkAssumption ==
    /\ \E p, q \in Peers : p # q /\ Peers = {p, q}
    /\ \A p \in Peers :
          /\ HashLengthMax[p] \in Nat /\ MinLengths[p] \subseteq 1..HashLengthMax[p]
          /\ \E n \in Table[p] : \A m \in Table[p] : Size[m] <= Size[n]
          /\ \A n \in Ids : Hash[n] \in Seq(Nat) /\ HashLengthMax[p] <= Len(Hash[n])
    /\ \A n \in Ids : Size[n] \in Nat /\ IsVariable[n] \in BOOLEAN
    /\ Payloads \subseteq Seq(Nat)
    /\ Failures \in {"closing", "transient"}
    /\ Capacity \in Nat \ {0} /\ MaxSessions \in Nat
    /\ \A m, n \in Ids, p \in Peers : \A l \in MinLengths[p] :
          HashPrefix(m, l) = HashPrefix(n, l) => m = n

VARIABLES
    session,         \* connections opened so far
    reliable,        \* the present one will neither fail nor be closed
    phase,           \* per peer: "closed", "connected" (initiate begins), "recvLength", "up"
    hashLength,      \* mbr.hashLength
    wire,            \* units in flight from p
    writable,        \* p's send_t has not failed for good on this connection
    out,             \* buffers p still has to hand to mbr.send, the current one first
    errorCollector,  \* errorCollector of p's send() in progress
    sent,            \* messages p's send() was called with on this connection
    accepted,        \* how many of these calls returned 0 (of the application's)
    recv,            \* recvWorker: the recv it is in ("hash", "size", "payload"; "error"
                     \* after errorDelegate), the units read so far, the message and
                     \* the payload size being received
    delivered        \* messages p's delegates were called with on this connection

sending   == <<wire, writable, out, errorCollector, sent, accepted>>
receiving == <<recv, delivered>>
vars      == <<session, reliable, phase, hashLength, sending, receiving>>

Other(p) == CHOOSE q \in Peers : q # p

MaxMessageSize(p) == CHOOSE s \in {Size[n] : n \in Table[p]} : \A n \in Table[p] : Size[n] <= s

Fits(n, m) == IF IsVariable[n] THEN Len(m) <= Size[n] ELSE Len(m) = Size[n]

Messages == {x \in Ids \X Payloads : Fits(x[1], x[2])}

All(value) == [p \in Peers |-> value]

In(state, n, s) == [state |-> state, got |-> <<>>, index |-> n, size |-> s]
AtHash  == In("hash", NoId, 0)
AtError == In("error", NoId, 0)

Init ==
    /\ session = 0 /\ reliable = FALSE
    /\ phase = All("closed")
    /\ hashLength \in {h \in [Peers -> UNION {MinLengths[p] : p \in Peers}] :
                          \A p \in Peers : h[p] \in MinLengths[p]}
    /\ wire = All(<<>>) /\ writable = All(TRUE)
    /\ out = All(<<>>) /\ errorCollector = All(FALSE)
    /\ sent = All(<<>>) /\ accepted = All(0)
    /\ recv = All(AtError)
    /\ delivered = All(<<>>)

-----------------------------------------------------------------------------
(* The connection, opened and closed by the applications.                   *)

Connect ==
    /\ session < MaxSessions /\ session' = session + 1 /\ reliable' \in BOOLEAN
    /\ phase = All("closed") /\ phase' = All("connected")
    /\ wire' = All(<<>>) /\ writable' = All(TRUE)
    /\ out' = All(<<>>) /\ errorCollector' = All(FALSE)
    /\ sent' = All(<<>>) /\ accepted' = All(0)
    /\ recv' = All(AtError)
    /\ delivered' = All(<<>>)
    /\ UNCHANGED hashLength

\* init on an endpoint that is not connected.
InitEndpoint(p) ==
    /\ phase[p] = "closed"
    /\ \E length \in MinLengths[p] : hashLength' = [hashLength EXCEPT ![p] = length]
    /\ UNCHANGED <<session, reliable, phase, sending, receiving>>

\* stop and close: the receive thread is gone; of the units in flight the peer
\* may get a part only.
Leave(p) ==
    /\ phase' = [phase EXCEPT ![p] = "closed"]
    /\ recv' = [recv EXCEPT ![p] = AtError]
    /\ out' = [out EXCEPT ![p] = <<>>]

Close(p) ==
    /\ ~reliable /\ phase[p] # "closed" /\ out[p] = <<>>
    /\ Leave(p)
    /\ \E k \in 0..Len(wire[p]) : wire' = [wire EXCEPT ![p] = SubSeq(@, 1, k)]
    /\ UNCHANGED <<session, reliable, hashLength, writable, errorCollector, sent, accepted, delivered>>

-----------------------------------------------------------------------------
(* initiate: both sides send their hash length first, then read the other's *)

\* Mutant: the length is sent as an answer to the peer's.
HandshakeAnswer(p) ==
    /\ phase[p] = "connected" /\ wire[Other(p)] # <<>>
    /\ wire' = [wire EXCEPT ![p] = Append(@, hashLength[p])]
    /\ phase' = [phase EXCEPT ![p] = "recvLength"]
    /\ UNCHANGED <<session, reliable, hashLength, writable, out, errorCollector, sent, accepted, receiving>>

HandshakeSendHashLength(p) ==
    /\ phase[p] = "connected"
    /\ wire' = [wire EXCEPT ![p] = Append(@, hashLength[p])]
    /\ phase' = [phase EXCEPT ![p] = "recvLength"]
    /\ UNCHANGED <<session, reliable, hashLength, writable, out, errorCollector, sent, accepted, receiving>>

\* Mutant: a length above HASH_LENGTH_MAX is not refused.
AcceptsAny(p, length) == TRUE

Accepts(p, length) == length <= HashLengthMax[p]

\* Mutant: the peer's length replaces the own one instead of their maximum.
PeersLength(p, length) == length

AgreedLength(p, length) == Max({hashLength[p], length})

HandshakeHandleHashLengthRecv(p) ==
    LET q == Other(p) IN
    /\ phase[p] = "recvLength" /\ wire[q] # <<>>
    /\ wire' = [wire EXCEPT ![q] = Tail(@)]
    /\ IF ~Accepts(p, Head(wire[q]))
       THEN Leave(p) /\ UNCHANGED hashLength
       ELSE /\ hashLength' = [hashLength EXCEPT ![p] = AgreedLength(p, Head(wire[q]))]
            /\ phase' = [phase EXCEPT ![p] = "up"]
            /\ recv' = [recv EXCEPT ![p] = AtHash]
            /\ UNCHANGED out
    /\ UNCHANGED <<session, reliable, writable, errorCollector, sent, accepted, delivered>>

-----------------------------------------------------------------------------
(* send, sendUmi                                                            *)

\* Mutant: the size of a variable size message is not sent.
PiecesNoSize(p, n, m) == <<HashPrefix(n, hashLength[p]), m>>

\* Mutant: a size is sent of every message.
PiecesAllSized(p, n, m) == <<HashPrefix(n, hashLength[p]), <<Len(m)>>, m>>

\* The buffers sendFixedSize and sendVariableSize hand to mbr.send.
Pieces(p, n, m) ==
    IF IsVariable[n] THEN <<HashPrefix(n, hashLength[p]), <<Len(m)>>, m>>
                     ELSE <<HashPrefix(n, hashLength[p]), m>>

Send(p, n, m) ==
    /\ phase[p] = "up" /\ out[p] = <<>> /\ Len(sent[p]) < MaxSends[p]
    /\ n \in Table[p] /\ Fits(n, m)
    /\ out' = [out EXCEPT ![p] = Pieces(p, n, m)]
    /\ errorCollector' = [errorCollector EXCEPT ![p] = FALSE]
    /\ sent' = [sent EXCEPT ![p] = Append(@, <<n, m>>)]
    /\ UNCHANGED <<session, reliable, phase, hashLength, wire, writable, accepted, receiving>>

WriteUnit(p) ==
    /\ out[p] # <<>> /\ Head(out[p]) # <<>>
    /\ writable[p] /\ Len(wire[p]) < Capacity
    /\ wire' = [wire EXCEPT ![p] = Append(@, Head(Head(out[p])))]
    /\ out' = [out EXCEPT ![p][1] = Tail(@)]
    /\ UNCHANGED <<session, reliable, phase, hashLength, writable, errorCollector, sent, accepted, receiving>>

\* Mutant: the results of mbr.send are not collected.
NotCollected(p, error) == FALSE

Collected(p, error) == errorCollector[p] \/ error

\* mbr.send returns; send() goes on with its next buffer whatever the result, and
\* returns 0 after the last one if none failed.
SendReturns(p, error) ==
    /\ out' = [out EXCEPT ![p] = Tail(@)]
    /\ errorCollector' = [errorCollector EXCEPT ![p] = Collected(p, error)]
    /\ accepted' = IF out'[p] = <<>> /\ ~errorCollector'[p]
                   THEN [accepted EXCEPT ![p] = @ + 1] ELSE accepted
    /\ UNCHANGED <<session, reliable, phase, hashLength, wire, sent, receiving>>

PieceSent(p) ==
    /\ out[p] # <<>> /\ Head(out[p]) = <<>> /\ writable[p]
    /\ SendReturns(p, FALSE)
    /\ UNCHANGED writable

PieceFails(p) ==
    /\ ~reliable /\ out[p] # <<>>
    /\ SendReturns(p, TRUE)
    /\ writable' = [writable EXCEPT ![p] = Failures = "transient"]

-----------------------------------------------------------------------------
(* recvWorker: each mbr.recv succeeds when it has all the units it asked for *)

Wanted(p) == CASE recv[p].state = "hash"    -> hashLength[p]
               [] recv[p].state = "size"    -> 1
               [] recv[p].state = "payload" -> recv[p].size
               [] OTHER                     -> 0

ReadUnit(p) ==
    LET q == Other(p) IN
    /\ Len(recv[p].got) < Wanted(p) /\ wire[q] # <<>>
    /\ recv' = [recv EXCEPT ![p].got = Append(@, Head(wire[q]))]
    /\ wire' = [wire EXCEPT ![q] = Tail(@)]
    /\ UNCHANGED <<session, reliable, phase, hashLength, writable, out, errorCollector, sent, accepted,
                   delivered>>

\* A recv of recvWorker has returned 0.
Received(p, state) == recv[p].state = state /\ Len(recv[p].got) = Wanted(p)

Continue(p, next) ==
    /\ recv' = [recv EXCEPT ![p] = next]
    /\ UNCHANGED <<session, reliable, phase, hashLength, sending>>

Known(p) == {n \in Table[p] : HashPrefix(n, hashLength[p]) = recv[p].got}

GetIndexForHash(p) ==
    /\ Received(p, "hash")
    /\ \/ \E n \in Known(p) : Continue(p, IF IsVariable[n] THEN In("size", n, 0)
                                                           ELSE In("payload", n, Size[n]))
       \/ Known(p) = {} /\ Continue(p, AtError)       \* NADAM_ERROR_UNKNOWN_HASH
    /\ UNCHANGED delivered

\* Mutant: the received size is not compared with maxSize.
NeverTooLarge(n, size) == FALSE

\* Mutant: a size equal to maxSize is refused.
TooLargeAtMax(n, size) == size >= Size[n]

TooLarge(n, size) == size > Size[n]

GetMessageSize(p) ==
    LET n == recv[p].index
        s == recv[p].got[1] IN
    /\ Received(p, "size")
    /\ Continue(p, IF TooLarge(n, s) THEN AtError ELSE In("payload", n, s))
    /\ UNCHANGED delivered

CallDelegate(p) ==
    /\ Received(p, "payload")
    /\ delivered' = [delivered EXCEPT ![p] = Append(@, <<recv[p].index, recv[p].got>>)]
    /\ Continue(p, AtHash)

RecvFails(p) ==
    /\ ~reliable /\ recv[p].state # "error"
    /\ Continue(p, AtError)
    /\ UNCHANGED delivered

Sender(p)   == WriteUnit(p) \/ PieceSent(p)
Receiver(p) == ReadUnit(p) \/ GetIndexForHash(p) \/ GetMessageSize(p) \/ CallDelegate(p)

Next ==
    \/ Connect
    \/ \E p \in Peers :
          \/ InitEndpoint(p) \/ Close(p)
          \/ HandshakeSendHashLength(p) \/ HandshakeHandleHashLengthRecv(p)
          \/ \E n \in Ids, m \in Payloads : Send(p, n, m)
          \/ Sender(p) \/ PieceFails(p)
          \/ Receiver(p) \/ RecvFails(p)

Spec == Init /\ [][Next]_vars

\* initiate runs to its end and send_t and recv_t complete when the connection has
\* room and data; nothing is assumed of the applications' calls.
LiveSpec ==
    /\ Spec
    /\ \A p \in Peers :
          /\ WF_vars(HandshakeSendHashLength(p)) /\ WF_vars(HandshakeHandleHashLengthRecv(p))
          /\ WF_vars(Sender(p)) /\ WF_vars(Receiver(p))
-----------------------------------------------------------------------------
(* Properties.                                                              *)

TypeOK ==
    /\ session \in 0..MaxSessions /\ reliable \in BOOLEAN
    /\ phase \in [Peers -> {"closed", "connected", "recvLength", "up"}]
    /\ hashLength \in [Peers -> Nat] /\ wire \in [Peers -> Seq(Nat)]
    /\ writable \in [Peers -> BOOLEAN] /\ errorCollector \in [Peers -> BOOLEAN]
    /\ out \in [Peers -> Seq(Seq(Nat))] /\ accepted \in [Peers -> Nat]
    /\ sent \in [Peers -> Seq(Messages)] /\ delivered \in [Peers -> Seq(Ids \X Seq(Nat))]
    /\ recv \in [Peers -> [state : {"hash", "size", "payload", "error"}, got : Seq(Nat),
                            index : Ids \cup {NoId}, size : Nat]]
    /\ \A p \in Peers :
          /\ hashLength[p] \in 1..HashLengthMax[p]
          /\ Len(wire[p]) <= Capacity + 1
          /\ out[p] # <<>> => phase[p] = "up"
          /\ accepted[p] <= Len(sent[p])
          /\ recv[p].state # "error" => phase[p] = "up"
          /\ recv[p].state \in {"size", "payload"} => recv[p].index \in Table[p]
          /\ Len(recv[p].got) <= Wanted(p)

\* When initiate has succeeded on both sides they cut and compare hashes at the
\* same length, whatever lengths they started from and kept from earlier sessions.
HashLengthAgreement ==
    (\A p \in Peers : phase[p] = "up") =>
        \A p, q \in Peers : hashLength[p] = hashLength[q]

\* A payload is received only if it fits the common buffer of getMaxMessageSize,
\* also when the framing was lost and the size is an arbitrary number.
RecvFitsBuffer ==
    \A p \in Peers : recv[p].state = "payload" => recv[p].size <= MaxMessageSize(p)

\* On a connection that does not lose data in the middle, a send() that returned 0
\* is not lost silently: when the receiver waits at a message boundary with nothing
\* in flight, it has delivered at least the messages whose send() returned 0.
NoSilentLoss ==
    \A p \in Peers : LET q == Other(p) IN
        /\ phase[p] = "up" /\ wire[p] = <<>>
        /\ recv[q] = AtHash
        => Len(delivered[q]) >= accepted[p]

\* The endpoints implement the channel: per direction the delivered messages are
\* a prefix of those sent, through handshakes, failures and new connections.
Channel == INSTANCE MessageChannel
ImplementsChannel == Channel!Spec

\* Over a reliable connection both initiate calls return: sending first on both sides
\* cannot deadlock, and one that goes on as the other refuses its length is no hang.
HandshakeCompletes ==
    reliable /\ (\A p \in Peers : phase[p] = "connected") ~>
        (\A p \in Peers : phase[p] \in {"closed", "up"})

\* Over a reliable connection messages the peer knows are eventually delivered, also
\* through a buffer smaller than a frame, and while nobody else sends.
SentIsDelivered ==
    \A p \in Peers : \A k \in 1..MaxSends[p] :
        /\ reliable /\ \A q \in Peers : phase[q] = "up"
        /\ Len(sent[p]) >= k /\ \A i \in 1..k : sent[p][i][1] \in Table[Other(p)]
        ~> Len(delivered[Other(p)]) >= k
=============================================================================
