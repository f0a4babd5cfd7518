-------------------------- MODULE NadamReplyProofs --------------------------
(***************************************************************************)
(* Theorems about endpoints whose delegates answer, for any two builds,    *)
(* tables, payloads, number of requests and capacity.  They rest on those  *)
(* of NadamLink, of which the endpoints are seen in two ways: what the     *)
(* receive threads read, on every connection, and, on one with locks       *)
(* around send(), everything.                                              *)
(***************************************************************************)
EXTENDS NadamReply, SequenceTheorems, TLAPS

(***************************************************************************)
(* A receive thread in a delegate that answers is between two messages.    *)
(***************************************************************************)

recvs == [p \in Peers |-> IF recv[p].state = "reply" THEN AtHash ELSE recv[p]]

\* What the receive threads read: units, wherever they come from.
Reader == INSTANCE NadamLinkProofs WITH
              recv <- recvs, out <- All(<<>>), sent <- All(<<>>), delivered <- All(<<>>),
              accepted <- All(0), writable <- All(TRUE), errorCollector <- All(FALSE)

LEMMA ReaderAssumed == Reader!LinkAssumption
  BY LinkAssumption DEF Reader!LinkAssumption, Reader!Ids, Ids, Reader!HashPrefix, HashPrefix

Answering == In("reply", Request, 0)

\* The buffers of a send() are sequences of units; a peer that sends is up, and one that
\* answers is in a delegate.
ReplyTypes ==
    /\ recv \in [Peers -> Reader!Recvs \cup {Answering}]
    /\ out \in [Peers -> Seq(Seq(Nat))] /\ reply \in [Peers -> Seq(Seq(Nat))]
    /\ \A p \in Peers : /\ out[p] # <<>> => phase[p] = "up"
                        /\ reply[p] # <<>> => recv[p] = Answering

ReaderInv == ReplyTypes /\ Reader!TypeInv /\ Reader!RecvFitsBuffer /\ Reader!LongEnough

LEMMA States ==
  /\ AtHash.state = "hash" /\ AtHash.got = <<>> /\ AtError.state = "error" /\ AtError.got = <<>>
  /\ Answering.state = "reply" /\ Answering.got = <<>>
  /\ \A n, k : /\ In("size", n, k).state = "size" /\ In("payload", n, k).state = "payload"
               /\ In("size", n, k).got = <<>> /\ In("payload", n, k).got = <<>>
  BY DEF AtHash, AtError, Answering, In

LEMMA RecvsAre ==
  /\ AtHash \in Reader!Recvs /\ AtError \in Reader!Recvs
  /\ \A n \in Ids, k \in Nat : In("size", n, k) \in Reader!Recvs /\ In("payload", n, k) \in Reader!Recvs
  BY EmptySeq DEF Reader!Recvs, Reader!Units, Reader!Ids, Ids, AtHash, AtError, In

LEMMA RecvsSet ==
  ASSUME ReplyTypes, NEW p \in Peers, NEW r, recv' = [recv EXCEPT ![p] = r]
  PROVE  recvs' = [recvs EXCEPT ![p] = IF r.state = "reply" THEN AtHash ELSE r]
  BY DEF ReplyTypes, recvs

LEMMA RecvsKept ==
  ASSUME recv' = recv
  PROVE  recvs' = recvs
  BY DEF recvs

LEMMA NotAnswering ==
  ASSUME NEW p \in Peers, recv[p].state # "reply"
  PROVE  recvs[p] = recv[p]
  BY DEF recvs

LEMMA IsAnswering ==
  ASSUME ReplyTypes, NEW p \in Peers, recv[p].state = "reply"
  PROVE  recv[p] = Answering /\ recvs[p] = AtHash
  BY DEF ReplyTypes, recvs, Reader!Recvs

(***************************************************************************)
(* The steps as the reader sees them.                                      *)
(***************************************************************************)

SameReader == UNCHANGED <<session, reliable, phase, hashLength, wire, recvs>>

LEMMA SameReaderSteps == SameReader => UNCHANGED Reader!vars
  BY DEF SameReader, Reader!vars, Reader!sending, Reader!receiving, All

LEMMA ReadsUnit ==
  ASSUME ReplyTypes, NEW p \in Peers, ReadUnit(p)
  PROVE  Reader!ReadUnit(p)
<1>1. recv[p].state # "reply"
  <2>1. Wanted(p) # 0
    <3>1. ASSUME recv[p].state = "reply" PROVE Len(recv[p].got) = 0
      BY <3>1, IsAnswering, States
    <3> QED
      BY <3>1 DEF ReadUnit, Wanted
  <2> QED
    BY <2>1 DEF Wanted
<1>2. recvs[p] = recv[p]
  BY <1>1, NotAnswering
<1>3. Reader!Wanted(p) = Wanted(p)
  BY <1>2 DEF Reader!Wanted, Wanted
<1>4. PICK g : g = Append(recv[p].got, Head(wire[Other(p)]))
  OBVIOUS
<1>5. recv' = [recv EXCEPT ![p] = [recv[p] EXCEPT !.got = g]]
  BY <1>4 DEF ReadUnit
<1>6. [recv[p] EXCEPT !.got = g].state = recv[p].state
  BY DEF ReplyTypes, Reader!Recvs, Answering, In
<1>7. recvs' = [recvs EXCEPT ![p] = [recv[p] EXCEPT !.got = g]]
  BY <1>1, <1>5, <1>6, RecvsSet
<1> QED
  BY <1>2, <1>3, <1>4, <1>7 DEF ReadUnit, Reader!ReadUnit, Reader!Other, Other, All

\* The reader goes on to r.
LEMMA Continues ==
  ASSUME ReplyTypes, NEW p \in Peers, NEW r, Continue(p, r), r.state # "reply"
  PROVE  Reader!Continue(p, r)
  BY RecvsSet DEF Continue, Reader!Continue, sending, Reader!sending, All

LEMMA GetsIndex ==
  ASSUME ReplyTypes, NEW p \in Peers, GetIndexForHash(p)
  PROVE  Reader!GetIndexForHash(p)
<1>1. recv[p].state = "hash" /\ recvs[p] = recv[p]
  BY NotAnswering DEF GetIndexForHash, Received
<1>2. Reader!Received(p, "hash") /\ Reader!Known(p) = Known(p)
  BY <1>1 DEF GetIndexForHash, Received, Reader!Received, Wanted, Reader!Wanted, Known, Reader!Known,
              HashPrefix, Reader!HashPrefix
<1>3. \A n : /\ Continue(p, In("size", n, 0)) => Reader!Continue(p, In("size", n, 0))
             /\ Continue(p, In("payload", n, Size[n])) => Reader!Continue(p, In("payload", n, Size[n]))
             /\ Continue(p, AtError) => Reader!Continue(p, AtError)
  BY Continues, States
<1>4. Reader!AtError = AtError /\ \A s, n, k : Reader!In(s, n, k) = In(s, n, k)
  BY DEF Reader!AtError, AtError, Reader!In, In
<1> QED
  BY <1>2, <1>3, <1>4 DEF GetIndexForHash, Reader!GetIndexForHash, All

LEMMA GetsSize ==
  ASSUME ReplyTypes, NEW p \in Peers, GetMessageSize(p)
  PROVE  Reader!GetMessageSize(p)
<1>1. recv[p].state = "size" /\ recvs[p] = recv[p]
  BY NotAnswering DEF GetMessageSize, Received
<1>2. Reader!Received(p, "size")
  BY <1>1 DEF GetMessageSize, Received, Reader!Received, Wanted, Reader!Wanted
<1>3. \A n, s : /\ Continue(p, In("payload", n, s)) => Reader!Continue(p, In("payload", n, s))
                /\ Continue(p, AtError) => Reader!Continue(p, AtError)
  BY Continues, States
<1>4. Reader!AtError = AtError /\ \A s, n, k : Reader!In(s, n, k) = In(s, n, k)
  BY DEF Reader!AtError, AtError, Reader!In, In
<1> QED
  BY <1>1, <1>2, <1>3, <1>4 DEF GetMessageSize, Reader!GetMessageSize, TooLarge, Reader!TooLarge, All

LEMMA Greets ==
  ASSUME NEW p \in Peers, HandshakeSendHashLength(p)
  PROVE  Reader!HandshakeSendHashLength(p)
<1>1. UNCHANGED recvs
  BY RecvsKept DEF HandshakeSendHashLength, receiving
<1> QED
  BY <1>1 DEF HandshakeSendHashLength, Reader!HandshakeSendHashLength, Reader!receiving, All

LEMMA IsGreeted ==
  ASSUME ReplyTypes, NEW p \in Peers, HandshakeHandleHashLengthRecv(p)
  PROVE  Reader!HandshakeHandleHashLengthRecv(p)
<1>1. /\ Reader!AtError = AtError /\ Reader!AtHash = AtHash /\ Reader!Other(p) = Other(p)
      /\ \A l : /\ Reader!Accepts(p, l) = Accepts(p, l)
                /\ Reader!AgreedLength(p, l) = AgreedLength(p, l)
  BY DEF Reader!AtError, AtError, Reader!AtHash, AtHash, Reader!In, In, Reader!Other, Other,
         Reader!Accepts, Accepts, Reader!AgreedLength, AgreedLength, Reader!Max, Max
<1>2. All(<<>>)' = [All(<<>>) EXCEPT ![p] = <<>>]
  BY DEF All
<1>3. recv' = [recv EXCEPT ![p] = AtError] => recvs' = [recvs EXCEPT ![p] = AtError]
  BY States, RecvsSet
<1>4. recv' = [recv EXCEPT ![p] = AtHash] => recvs' = [recvs EXCEPT ![p] = AtHash]
  BY States, RecvsSet
<1>5. CASE Accepts(p, Head(wire[Other(p)]))
  BY <1>1, <1>4, <1>5 DEF HandshakeHandleHashLengthRecv, Reader!HandshakeHandleHashLengthRecv, All
<1>6. CASE ~Accepts(p, Head(wire[Other(p)]))
  BY <1>1, <1>2, <1>3, <1>6
     DEF HandshakeHandleHashLengthRecv, Reader!HandshakeHandleHashLengthRecv, Leave, Reader!Leave, All
<1> QED
  BY <1>5, <1>6

(***************************************************************************)
(* The invariant of every connection.                                      *)
(***************************************************************************)

LEMMA ReaderInit == ReplyInit => ReaderInv
<1> SUFFICES ASSUME ReplyInit PROVE ReaderInv
  OBVIOUS
<1>1. recv = All(AtError) /\ recvs = All(AtError)
  BY States DEF ReplyInit, Init, recvs, All
<1>2. Reader!Init
  <2>1. Reader!AtError = AtError
    BY DEF Reader!AtError, AtError, Reader!In, In
  <2> QED
    BY <1>1, <2>1 DEF ReplyInit, Init, Reader!Init, Reader!All, All
<1>3. Reader!TypeInv /\ Reader!LongEnough
  BY <1>2, ReaderAssumed, Reader!TypeInvInit, Reader!AgreementInit DEF Reader!Agreement
<1>4. Reader!RecvFitsBuffer
  BY <1>1, States DEF Reader!RecvFitsBuffer, All
<1>5. ReplyTypes
  BY <1>1, RecvsAre, EmptySeq DEF ReplyInit, Init, ReplyTypes, All
<1> QED
  BY <1>3, <1>4, <1>5 DEF ReaderInv

\* A step of NadamLink's.
LEMMA ReaderSteps ==
  ASSUME ReaderInv, [Reader!Next]_Reader!vars
  PROVE  Reader!TypeInv' /\ Reader!RecvFitsBuffer' /\ Reader!LongEnough'
  BY ReaderAssumed, Reader!TypeInvStep, Reader!LongEnoughKept, Reader!BufferStep DEF ReaderInv

\* A payload goes to a delegate.
LEMMA ReaderCalls ==
  ASSUME ReaderInv, NEW p \in Peers, Reader!Continue(p, AtHash), recvs[p].state = "payload"
  PROVE  Reader!TypeInv' /\ Reader!RecvFitsBuffer' /\ Reader!LongEnough'
<1>1. All(<<>>)' \in [Peers -> Seq(Reader!Ids \X Reader!Units)]
  BY EmptySeq DEF All
<1>2. Reader!TypeInv'
  BY <1>1, ReaderAssumed, Reader!TypeInvContinue, RecvsAre, States DEF ReaderInv
<1>3. Reader!RecvFitsBuffer'
  BY ReaderAssumed, Reader!BufferContinue, States DEF ReaderInv
<1>4. Reader!LongEnough'
  BY DEF ReaderInv, Reader!LongEnough, Reader!Continue
<1> QED
  BY <1>2, <1>3, <1>4

\* A send() of p puts a unit on the wire.
LEMMA ReaderPuts ==
  ASSUME ReaderInv, NEW p \in Peers, NEW u \in Nat, phase[p] = "up", Len(wire[p]) < Capacity,
         wire' = [wire EXCEPT ![p] = Append(wire[p], u)],
         UNCHANGED <<session, reliable, phase, hashLength, recvs>>
  PROVE  Reader!TypeInv' /\ Reader!RecvFitsBuffer' /\ Reader!LongEnough'
<1>1. wire \in [Peers -> Seq(Nat)]
  BY DEF ReaderInv, Reader!TypeInv, Reader!Shapes, Reader!Units
<1>2. Append(wire[p], u) \in Seq(Nat) /\ Len(Append(wire[p], u)) = Len(wire[p]) + 1 /\ Len(wire[p]) \in Nat
  BY <1>1
<1>3. All(<<>>)' = All(<<>>) /\ All(0)' = All(0)
  BY DEF All
<1>4. Reader!Shapes'
  BY <1>1, <1>2, <1>3 DEF ReaderInv, Reader!TypeInv, Reader!Shapes, Reader!Units
<1>5. Reader!SendBounds'
  <2>1. \A q \in Peers : q # p => wire'[q] = wire[q]
    BY <1>1
  <2>2. wire'[p] = Append(wire[p], u) /\ Len(wire'[p]) <= Capacity + 1
    BY <1>1, <1>2, ReaderAssumed, Reader!Bounds
  <2> QED
    BY <1>3, <2>1, <2>2 DEF ReaderInv, Reader!TypeInv, Reader!SendBounds
<1>6. Reader!RecvBounds'
  BY DEF ReaderInv, Reader!TypeInv, Reader!RecvBounds, Reader!Wanted
<1>7. Reader!RecvFitsBuffer' /\ Reader!LongEnough'
  BY DEF ReaderInv, Reader!RecvFitsBuffer, Reader!LongEnough
<1> QED
  BY <1>4, <1>5, <1>6, <1>7 DEF Reader!TypeInv

LEMMA PiecesAre ==
  ASSUME Reader!TypeInv, NEW p \in Peers, NEW n \in Ids, NEW m \in Payloads
  PROVE  Pieces(p, n, m) \in Seq(Seq(Nat)) /\ Pieces(p, n, m) # <<>>
<1>1. Reader!Pieces(p, n, m) = Pieces(p, n, m) /\ Reader!Ids = Ids
  BY DEF Reader!Pieces, Pieces, Reader!HashPrefix, HashPrefix, Reader!Ids, Ids
<1>2. hashLength[p] \in 1..HashLengthMax[p]
  BY DEF Reader!TypeInv, Reader!SendBounds
<1> QED
  BY <1>1, <1>2, ReaderAssumed, Reader!PiecesType

\* The buffers of a send() in progress: the next one is handed over, or loses a unit.
LEMMA BuffersAre ==
  ASSUME NEW s \in Seq(Seq(Nat)), s # <<>>
  PROVE  /\ Tail(s) \in Seq(Seq(Nat))
         /\ Head(s) # <<>> => /\ Head(Head(s)) \in Nat
                              /\ [s EXCEPT ![1] = Tail(@)] \in Seq(Seq(Nat))
                              /\ [s EXCEPT ![1] = Tail(@)] # <<>>
<1>1. Tail(s) \in Seq(Seq(Nat)) /\ Head(s) \in Seq(Nat)
  BY HeadTailProperties
<1>2. ASSUME Head(s) # <<>>
      PROVE  Head(Head(s)) \in Nat /\ Tail(Head(s)) \in Seq(Nat)
  BY <1>1, <1>2, HeadTailProperties
<1>3. 1 \in 1..Len(s) /\ s[1] = Head(s)
  BY EmptySeq
<1>4. ASSUME NEW x \in Seq(Nat)
      PROVE  [s EXCEPT ![1] = x] \in Seq(Seq(Nat)) /\ [s EXCEPT ![1] = x] # <<>>
  BY <1>3, ExceptSeq, EmptySeq
<1> QED
  BY <1>1, <1>2, <1>3, <1>4

LEMMA Asks ==
  /\ Request \in Ids /\ Reply \in Ids /\ Question \in Payloads /\ Answer \in Payloads
  /\ <<Request, Question>> \in Messages /\ <<Reply, Answer>> \in Messages
  /\ \A p \in Peers : Request \in Table[p] /\ Reply \in Table[p]
  BY ReplyAssumption DEF Messages

LEMMA AnswersUp ==
  ASSUME ReaderInv, NEW p \in Peers, phase[p] # "up"
  PROVE  recv[p].state # "reply" /\ reply[p] = <<>> /\ out[p] = <<>>
<1>1. recvs[p].state = "error"
  BY DEF ReaderInv, Reader!TypeInv, Reader!RecvBounds
<1>2. recv[p].state # "reply"
  BY <1>1, IsAnswering, States DEF ReaderInv
<1> QED
  BY <1>2, States DEF ReaderInv, ReplyTypes

\* Only recv[p] changes, and the reader finds its type in order.
LEMMA ReplyTypesRecv ==
  ASSUME ReaderInv, Reader!TypeInv', NEW p \in Peers, NEW r, recv' = [recv EXCEPT ![p] = r],
         r = Answering \/ r.state # "reply", reply[p] = <<>> \/ r = Answering,
         UNCHANGED <<phase, out, reply>>
  PROVE  ReplyTypes'
<1>1. recv \in [Peers -> Reader!Recvs \cup {Answering}]
  BY DEF ReaderInv, ReplyTypes
<1>2. recvs'[p] \in Reader!Recvs
  BY DEF Reader!TypeInv, Reader!Shapes
<1>3. r \in Reader!Recvs \cup {Answering}
  <2>1. CASE r = Answering
    BY <2>1
  <2>2. CASE r.state # "reply"
    BY <1>1, <1>2, <2>2 DEF recvs
  <2> QED
    BY <2>1, <2>2
<1>4. recv' \in [Peers -> Reader!Recvs \cup {Answering}]
  BY <1>1, <1>3
<1>5. \A q \in Peers : reply[q] # <<>> => recv'[q] = Answering
  BY <1>1 DEF ReaderInv, ReplyTypes
<1> QED
  BY <1>4, <1>5 DEF ReaderInv, ReplyTypes

LEMMA StepConnect ==
  ASSUME ReaderInv, Connect, UNCHANGED reply
  PROVE  ReaderInv'
<1>1. \A p \in Peers : reply[p] = <<>>
  BY AnswersUp DEF Connect, All
<1>2. recvs' = All(AtError) /\ recv' = All(AtError)
  BY States DEF Connect, recvs, All
<1>3. Reader!Connect
  <2>1. Reader!AtError = AtError
    BY DEF Reader!AtError, AtError, Reader!In, In
  <2> QED
    BY <1>2, <2>1 DEF Connect, Reader!Connect, Reader!All, All
<1>4. Reader!TypeInv' /\ Reader!RecvFitsBuffer' /\ Reader!LongEnough'
  BY <1>3, ReaderSteps DEF Reader!Next
<1>5. ReplyTypes'
  <2>1. out' \in [Peers -> Seq(Seq(Nat))] /\ recv' \in [Peers -> Reader!Recvs \cup {Answering}]
    BY <1>2, RecvsAre, EmptySeq DEF Connect, All
  <2> QED
    BY <1>1, <2>1 DEF Connect, All, ReaderInv, ReplyTypes
<1> QED
  BY <1>4, <1>5 DEF ReaderInv

LEMMA StepGreets ==
  ASSUME ReaderInv, NEW p \in Peers, HandshakeSendHashLength(p), UNCHANGED reply
  PROVE  ReaderInv'
<1>1. Reader!TypeInv' /\ Reader!RecvFitsBuffer' /\ Reader!LongEnough'
  BY Greets, ReaderSteps DEF Reader!Next
<1>2. /\ phase[p] = "connected" /\ \A q \in Peers : q # p => phase'[q] = phase[q]
      /\ UNCHANGED <<recv, out>>
  BY DEF HandshakeSendHashLength, receiving, ReaderInv, Reader!TypeInv, Reader!Shapes
<1>3. ReplyTypes'
  BY <1>2 DEF ReaderInv, ReplyTypes
<1> QED
  BY <1>1, <1>3 DEF ReaderInv

LEMMA StepIsGreeted ==
  ASSUME ReaderInv, NEW p \in Peers, HandshakeHandleHashLengthRecv(p), UNCHANGED reply
  PROVE  ReaderInv'
<1>1. Reader!TypeInv' /\ Reader!RecvFitsBuffer' /\ Reader!LongEnough'
  BY IsGreeted, ReaderSteps DEF ReaderInv, Reader!Next
<1>2. out[p] = <<>> /\ reply[p] = <<>>
  BY AnswersUp DEF HandshakeHandleHashLengthRecv
<1>3. /\ \A q \in Peers : q # p => phase'[q] = phase[q] /\ recv'[q] = recv[q]
      /\ recv' \in [Peers -> Reader!Recvs \cup {Answering}]
  <2>1. phase' = [phase EXCEPT ![p] = "closed"] \/ phase' = [phase EXCEPT ![p] = "up"]
    BY DEF HandshakeHandleHashLengthRecv, Leave
  <2>2. recv' = [recv EXCEPT ![p] = AtError] \/ recv' = [recv EXCEPT ![p] = AtHash]
    BY DEF HandshakeHandleHashLengthRecv, Leave
  <2>3. recv \in [Peers -> Reader!Recvs \cup {Answering}] /\ phase = [q \in Peers |-> phase[q]]
    BY DEF ReaderInv, ReplyTypes, Reader!TypeInv, Reader!Shapes
  <2> QED
    BY <2>1, <2>2, <2>3, RecvsAre
<1>4. out' = out
  BY <1>2 DEF HandshakeHandleHashLengthRecv, Leave, ReaderInv, ReplyTypes
<1>5. ReplyTypes'
  BY <1>2, <1>3, <1>4 DEF ReaderInv, ReplyTypes
<1> QED
  BY <1>1, <1>5 DEF ReaderInv

\* recvWorker of NadamLink goes on; one that reads or decides is in no delegate.
LEMMA StepReads ==
  ASSUME ReaderInv, NEW p \in Peers, ReadUnit(p) \/ GetIndexForHash(p) \/ GetMessageSize(p),
         UNCHANGED reply
  PROVE  ReaderInv'
<1>1. Reader!ReadUnit(p) \/ Reader!GetIndexForHash(p) \/ Reader!GetMessageSize(p)
  BY ReadsUnit, GetsIndex, GetsSize DEF ReaderInv
<1>2. Reader!TypeInv' /\ Reader!RecvFitsBuffer' /\ Reader!LongEnough'
  BY <1>1, ReaderSteps DEF Reader!Next, Reader!Receiver
<1>3. recv[p].state # "reply"
  <2>1. CASE ReadUnit(p)
    BY <2>1, IsAnswering, States DEF ReadUnit, Wanted, ReaderInv
  <2> QED
    BY <2>1 DEF GetIndexForHash, GetMessageSize, Received
<1>4. reply[p] = <<>>
  BY <1>3, States DEF ReaderInv, ReplyTypes
<1>5. \E r : recv' = [recv EXCEPT ![p] = r] /\ r.state # "reply"
  <2>1. CASE ReadUnit(p)
    <3>1. recv' = [recv EXCEPT ![p] = [recv[p] EXCEPT !.got = Append(recv[p].got, Head(wire[Other(p)]))]]
      BY <2>1 DEF ReadUnit
    <3>2. \A g : [recv[p] EXCEPT !.got = g].state = recv[p].state
      BY DEF ReaderInv, ReplyTypes, Reader!Recvs, Answering, In
    <3> QED
      BY <1>3, <3>1, <3>2
  <2>2. CASE GetIndexForHash(p) \/ GetMessageSize(p)
    BY <2>2, States DEF GetIndexForHash, GetMessageSize, Continue
  <2> QED
    BY <2>1, <2>2
<1>6. UNCHANGED <<phase, out>>
  BY DEF ReadUnit, GetIndexForHash, GetMessageSize, Continue, sending
<1>7. ReplyTypes'
  BY <1>2, <1>4, <1>5, <1>6, ReplyTypesRecv
<1> QED
  BY <1>2, <1>7 DEF ReaderInv

\* A delegate is called, of requests or of something else.
Calls(p) ==
    \/ CallReplyingDelegate(p)
    \/ CallDelegate(p) /\ UNCHANGED reply

LEMMA StepCalls ==
  ASSUME ReaderInv, NEW p \in Peers, Calls(p)
  PROVE  ReaderInv'
<1>1. /\ recv[p].state = "payload" /\ recvs[p] = recv[p] /\ UNCHANGED <<phase, out, reply>>
      /\ Continue(p, AtHash) \/ Continue(p, Answering)
  BY NotAnswering DEF Calls, CallReplyingDelegate, CallDelegate, Received, Continue, sending, Answering
<1>2. Reader!Continue(p, AtHash)
  BY <1>1, RecvsSet, States
     DEF ReaderInv, Continue, Reader!Continue, sending, Reader!sending, All
<1>3. Reader!TypeInv' /\ Reader!RecvFitsBuffer' /\ Reader!LongEnough'
  BY <1>1, <1>2, ReaderCalls
<1>4. reply[p] = <<>>
  BY <1>1, States DEF ReaderInv, ReplyTypes
<1>5. ReplyTypes'
  <2>1. ASSUME NEW r, Continue(p, r), r = AtHash \/ r = Answering PROVE ReplyTypes'
    BY <1>1, <1>3, <1>4, <2>1, ReplyTypesRecv, States DEF Continue
  <2> QED
    BY <1>1, <2>1
<1> QED
  BY <1>3, <1>5 DEF ReaderInv

\* The reader sees nothing of a send() that begins or goes on with its next buffer.
LEMMA StepUnseen ==
  ASSUME ReaderInv, SameReader, ReplyTypes'
  PROVE  ReaderInv'
  BY SameReaderSteps, ReaderSteps DEF ReaderInv

LEMMA StepAsks ==
  ASSUME ReaderInv, NEW p \in Peers, Ask(p)
  PROVE  ReaderInv'
<1>1. Pieces(p, Request, Question) \in Seq(Seq(Nat))
  BY Asks, PiecesAre DEF ReaderInv
<1>2. /\ phase[p] = "up" /\ out' = [out EXCEPT ![p] = Pieces(p, Request, Question)]
      /\ UNCHANGED <<session, reliable, phase, hashLength, wire, recv, reply>>
  BY DEF Ask, Send, receiving
<1>3. ReplyTypes'
  BY <1>1, <1>2 DEF ReaderInv, ReplyTypes
<1> QED
  BY <1>2, <1>3, RecvsKept, StepUnseen DEF SameReader

LEMMA StepReturns ==
  ASSUME ReaderInv, NEW p \in Peers, PieceSent(p) \/ PieceFails(p), UNCHANGED reply
  PROVE  ReaderInv'
<1>1. out[p] # <<>> /\ out[p] \in Seq(Seq(Nat))
  BY DEF PieceSent, PieceFails, ReaderInv, ReplyTypes
<1>2. /\ out' = [out EXCEPT ![p] = Tail(out[p])]
      /\ UNCHANGED <<session, reliable, phase, hashLength, wire, recv>>
  BY DEF PieceSent, PieceFails, SendReturns, receiving
<1>3. ReplyTypes'
  BY <1>1, <1>2, BuffersAre DEF ReaderInv, ReplyTypes
<1> QED
  BY <1>2, <1>3, RecvsKept, StepUnseen DEF SameReader

LEMMA StepReplyBegins ==
  ASSUME ReaderInv, NEW p \in Peers, ReplyBegins(p)
  PROVE  ReaderInv'
<1>1. Pieces(p, Reply, Answer) \in Seq(Seq(Nat))
  BY Asks, PiecesAre DEF ReaderInv
<1>2. /\ recv[p].state = "reply" /\ reply' = [reply EXCEPT ![p] = Pieces(p, Reply, Answer)]
      /\ UNCHANGED <<session, reliable, phase, hashLength, wire, out, recv>>
  BY DEF ReplyBegins, receiving
<1>3. recv[p] = Answering
  BY <1>2, IsAnswering DEF ReaderInv
<1>4. ReplyTypes'
  BY <1>1, <1>2, <1>3 DEF ReaderInv, ReplyTypes
<1> QED
  BY <1>2, <1>4, RecvsKept, StepUnseen DEF SameReader

LEMMA ReplyPieceUnseen ==
  ASSUME ReaderInv, NEW p \in Peers, ReplyPiece(p)
  PROVE  UNCHANGED recvs
<1>1. recv[p] = Answering /\ (recv' = recv \/ recv' = [recv EXCEPT ![p] = AtHash])
  BY DEF ReplyPiece, ReaderInv, ReplyTypes
<1>2. recvs[p] = AtHash /\ recvs = [recvs EXCEPT ![p] = AtHash]
  BY <1>1, States DEF recvs
<1>3. CASE recv' = [recv EXCEPT ![p] = AtHash]
  BY <1>2, <1>3, RecvsSet, States DEF ReaderInv
<1> QED
  BY <1>1, <1>3, RecvsKept

LEMMA StepReplyPiece ==
  ASSUME ReaderInv, NEW p \in Peers, ReplyPiece(p)
  PROVE  ReaderInv'
<1>1. /\ reply[p] # <<>> /\ reply[p] \in Seq(Seq(Nat)) /\ recv[p] = Answering
      /\ recv \in [Peers -> Reader!Recvs \cup {Answering}] /\ reply \in [Peers -> Seq(Seq(Nat))]
  BY DEF ReplyPiece, ReaderInv, ReplyTypes
<1>2. /\ reply' = [reply EXCEPT ![p] = Tail(reply[p])]
      /\ UNCHANGED <<session, reliable, phase, hashLength, wire, out>>
      /\ recv' = IF reply'[p] = <<>> THEN [recv EXCEPT ![p] = AtHash] ELSE recv
  BY DEF ReplyPiece, sending
<1>3. UNCHANGED recvs
  BY ReplyPieceUnseen
<1>4. recv' \in [Peers -> Reader!Recvs \cup {Answering}] /\ \A q \in Peers : q # p => recv'[q] = recv[q]
  BY <1>1, <1>2, RecvsAre
<1>5. reply' \in [Peers -> Seq(Seq(Nat))] /\ \A q \in Peers : q # p => reply'[q] = reply[q]
  BY <1>1, <1>2, BuffersAre
<1>6. reply'[p] # <<>> => recv'[p] = Answering
  BY <1>1, <1>2
<1>7. ReplyTypes'
  BY <1>2, <1>4, <1>5, <1>6 DEF ReaderInv, ReplyTypes
<1> QED
  BY <1>2, <1>3, <1>7, StepUnseen DEF SameReader

LEMMA StepWrites ==
  ASSUME ReaderInv, NEW p \in Peers, (WriteUnit(p) /\ UNCHANGED reply) \/ ReplyUnit(p)
  PROVE  ReaderInv'
<1>1. PICK b \in Seq(Seq(Nat)) :
         /\ b # <<>> /\ Head(b) # <<>> /\ Len(wire[p]) < Capacity
         /\ wire' = [wire EXCEPT ![p] = Append(wire[p], Head(Head(b)))]
         /\ \/ b = out[p] /\ out' = [out EXCEPT ![p] = [b EXCEPT ![1] = Tail(@)]] /\ reply' = reply
            \/ b = reply[p] /\ reply' = [reply EXCEPT ![p] = [b EXCEPT ![1] = Tail(@)]] /\ out' = out
         /\ UNCHANGED <<session, reliable, phase, hashLength, recv>>
  BY DEF WriteUnit, ReplyUnit, receiving, ReaderInv, ReplyTypes
<1>2. Head(Head(b)) \in Nat /\ [b EXCEPT ![1] = Tail(@)] \in Seq(Seq(Nat))
  BY <1>1, BuffersAre
<1>3. phase[p] = "up"
  BY <1>1, AnswersUp
<1>4. Reader!TypeInv' /\ Reader!RecvFitsBuffer' /\ Reader!LongEnough'
  BY <1>1, <1>2, <1>3, RecvsKept, ReaderPuts
<1>5. ReplyTypes'
  BY <1>1, <1>2, <1>3 DEF ReaderInv, ReplyTypes
<1> QED
  BY <1>4, <1>5 DEF ReaderInv

LEMMA ReaderStep == ReaderInv /\ [ReplyNext]_replyVars => ReaderInv'
<1> SUFFICES ASSUME ReaderInv, [ReplyNext]_replyVars PROVE ReaderInv'
  OBVIOUS
<1>1. CASE Connect /\ UNCHANGED reply
  BY <1>1, StepConnect
<1>2. ASSUME NEW p \in Peers, Linked(p) PROVE ReaderInv'
  <2>1. CASE HandshakeSendHashLength(p) \/ HandshakeHandleHashLengthRecv(p)
    BY <1>2, <2>1, StepGreets, StepIsGreeted DEF Linked
  <2>2. CASE Sender(p) \/ PieceFails(p)
    BY <1>2, <2>2, StepReturns, StepWrites DEF Linked, Sender
  <2>3. CASE ReadUnit(p) \/ GetIndexForHash(p) \/ GetMessageSize(p)
    BY <1>2, <2>3, StepReads DEF Linked
  <2>4. CASE recv[p].index # Request /\ CallDelegate(p)
    BY <1>2, <2>4, StepCalls DEF Linked, Calls
  <2> QED
    BY <1>2, <2>1, <2>2, <2>3, <2>4 DEF Linked
<1>3. ASSUME NEW p \in Peers,
             Ask(p) \/ CallReplyingDelegate(p) \/ ReplyBegins(p) \/ ReplyUnit(p) \/ ReplyPiece(p)
      PROVE  ReaderInv'
  <2>1. CASE Ask(p)
    BY <2>1, StepAsks
  <2>5. CASE ReplyBegins(p)
    BY <2>5, StepReplyBegins
  <2>2. CASE CallReplyingDelegate(p)
    BY <2>2, StepCalls DEF Calls
  <2>3. CASE ReplyUnit(p)
    BY <2>3, StepWrites
  <2>4. CASE ReplyPiece(p)
    BY <2>4, StepReplyPiece
  <2> QED
    BY <1>3, <2>1, <2>2, <2>3, <2>4, <2>5
<1>4. CASE UNCHANGED replyVars
  <2>1. SameReader /\ UNCHANGED <<recv, out, reply, phase>>
    BY <1>4, RecvsKept DEF replyVars, vars, sending, receiving, SameReader
  <2>2. ReplyTypes'
    BY <2>1 DEF ReaderInv, ReplyTypes
  <2> QED
    BY <2>1, <2>2, StepUnseen
<1> QED
  BY <1>1, <1>2, <1>3, <1>4 DEF ReplyNext

LEMMA ReaderInvariant == ReplySpec => []ReaderInv
  BY ReaderInit, ReaderStep, PTL DEF ReplySpec

\* Also where delegates answer and the pieces of two frames mix, or are lost, recvWorker asks
\* for no payload that the buffer of getMaxMessageSize does not hold.
THEOREM PayloadsFitAnyFrames == ReplySpec => []RecvFitsBuffer
<1>1. ReaderInv => RecvFitsBuffer
  <2> SUFFICES ASSUME ReaderInv, NEW p \in Peers, recv[p].state = "payload"
               PROVE  recv[p].size <= MaxMessageSize(p)
    BY DEF RecvFitsBuffer
  <2>1. recvs[p] = recv[p]
    BY NotAnswering
  <2> QED
    BY <2>1 DEF ReaderInv, Reader!RecvFitsBuffer, Reader!MaxMessageSize, MaxMessageSize
<1> QED
  BY <1>1, ReaderInvariant, PTL

(***************************************************************************)
(* With locks around send() the endpoints are those of NadamLink: a peer's *)
(* buffers are those of the one send() in progress.                        *)
(***************************************************************************)

outs      == [p \in Peers |-> IF reply[p] = <<>> THEN out[p] ELSE reply[p]]
completed == [p \in Peers |-> Len(sent[p]) - (IF outs[p] = <<>> THEN 0 ELSE 1)]

Link == INSTANCE NadamLinkProofs WITH
            recv <- recvs, out <- outs, accepted <- completed,
            writable <- All(TRUE), errorCollector <- All(FALSE), Failures <- "closing"

LEMMA LinkAssumed == Link!LinkAssumption
  BY LinkAssumption DEF Link!LinkAssumption, Link!Ids, Ids, Link!HashPrefix, HashPrefix

LinkInv == Link!TypeInv /\ Link!Agreement /\ Link!Directions

OneSend == \A p \in Peers : reply[p] = <<>> \/ out[p] = <<>>

LockedInv == reliable \in BOOLEAN /\ (Locked => OneSend /\ LinkInv)

LEMMA Same ==
  /\ Link!Messages = Messages /\ Link!Ids = Ids
  /\ Link!AtError = AtError /\ Link!AtHash = AtHash /\ \A s, n, k : Link!In(s, n, k) = In(s, n, k)
  /\ \A p : Link!Other(p) = Other(p)
  /\ \A p, n, m : Link!Pieces(p, n, m) = Pieces(p, n, m)
  /\ \A n, m : Link!Fits(n, m) <=> Fits(n, m)
  BY DEF Link!Messages, Messages, Link!Ids, Ids, Link!Fits, Fits, Link!AtError, AtError, Link!AtHash,
         AtHash, Link!In, In, Link!Other, Other, Link!Pieces, Pieces, Link!HashPrefix, HashPrefix

LEMMA SameChannel ==
  ASSUME [Link!Channel!Next]_<<sent, delivered>>
  PROVE  [Channel!Next]_<<sent, delivered>>
  BY Same DEF Link!Channel!Next, Channel!Next, Link!Channel!Connect, Channel!Connect,
              Link!Channel!Send, Channel!Send, Link!Channel!Deliver, Channel!Deliver,
              Link!Channel!Other, Channel!Other

LEMMA LinkSteps ==
  ASSUME reliable \in BOOLEAN, LinkInv, [Link!Next]_Link!vars
  PROVE  LinkInv' /\ [Channel!Next]_<<sent, delivered>>
<1>1. Link!Flags
  BY DEF Link!Flags, All
<1>2. Link!TypeInv'
  BY LinkAssumed, Link!TypeInvStep DEF LinkInv
<1>3. Link!Agreement'
  BY LinkAssumed, Link!AgreementStep DEF LinkInv
<1>4. Link!Directions'
  BY <1>1, LinkAssumed, Link!DirectionStep DEF LinkInv
<1>5. [Link!Channel!Next]_<<sent, delivered>>
  BY LinkAssumed, Link!ChannelSteps DEF LinkInv
<1> QED
  BY <1>2, <1>3, <1>4, <1>5, SameChannel DEF LinkInv

\* p's send() has the buffers b.
LEMMA OutsSet ==
  ASSUME ReplyTypes, NEW p \in Peers, NEW b,
         \/ reply[p] = <<>> /\ reply' = reply /\ out' = [out EXCEPT ![p] = b]
         \/ out[p] = <<>> /\ out' = out /\ reply' = [reply EXCEPT ![p] = b]
  PROVE  outs' = [outs EXCEPT ![p] = b]
<1>1. \A q \in Peers : outs'[q] = [outs EXCEPT ![p] = b][q]
  BY DEF ReplyTypes, outs
<1> QED
  BY <1>1 DEF outs

LEMMA OutsAre ==
  ASSUME NEW p \in Peers, reply[p] = <<>> \/ out[p] = <<>>
  PROVE  /\ out[p] # <<>> => outs[p] = out[p]
         /\ reply[p] # <<>> => outs[p] = reply[p]
         /\ out[p] = <<>> /\ reply[p] = <<>> => outs[p] = <<>>
  BY DEF outs

LEMMA OutsKept ==
  ASSUME UNCHANGED <<out, reply, sent>>
  PROVE  UNCHANGED <<outs, completed>>
  BY DEF outs, completed

LEMMA CompletedKept ==
  ASSUME sent' = sent, NEW p \in Peers, NEW b, outs' = [outs EXCEPT ![p] = b], outs[p] = <<>> <=> b = <<>>
  PROVE  completed' = completed
<1>1. \A q \in Peers : outs'[q] = <<>> <=> outs[q] = <<>>
  BY DEF outs
<1> QED
  BY <1>1 DEF completed

\* The last buffer is handed over.
LEMMA Completes ==
  ASSUME sent \in [Peers -> Seq(Messages)], sent' = sent,
         NEW p \in Peers, outs' = [outs EXCEPT ![p] = <<>>], outs[p] # <<>>
  PROVE  completed' = [completed EXCEPT ![p] = @ + 1]
<1>1. outs'[p] = <<>> /\ \A q \in Peers : q # p => outs'[q] = outs[q]
  BY DEF outs
<1>2. Len(sent[p]) \in Nat
  OBVIOUS
<1>3. completed'[p] = completed[p] + 1 /\ \A q \in Peers : q # p => completed'[q] = completed[q]
  BY <1>1, <1>2 DEF completed
<1> QED
  BY <1>3 DEF completed

\* One begins.
LEMMA Begins ==
  ASSUME sent \in [Peers -> Seq(Messages)], NEW p \in Peers, NEW x \in Messages,
         sent' = [sent EXCEPT ![p] = Append(sent[p], x)],
         NEW b, b # <<>>, outs' = [outs EXCEPT ![p] = b], outs[p] = <<>>
  PROVE  completed' = completed
<1>1. outs'[p] # <<>> /\ \A q \in Peers : q # p => outs'[q] = outs[q] /\ sent'[q] = sent[q]
  BY DEF outs
<1>2. Len(sent[p]) \in Nat /\ Len(sent'[p]) = Len(sent[p]) + 1
  BY AppendProperties
<1>3. completed'[p] = completed[p] /\ \A q \in Peers : q # p => completed'[q] = completed[q]
  BY <1>1, <1>2 DEF completed
<1> QED
  BY <1>3 DEF completed

(***************************************************************************)
(* The steps as NadamLink's.  Those of the reader are, with what sends.    *)
(***************************************************************************)

LEMMA LinkReads ==
  ASSUME NEW p \in Peers, UNCHANGED <<outs, completed, sent, delivered>>,
         Reader!ReadUnit(p) \/ Reader!GetIndexForHash(p) \/ Reader!GetMessageSize(p)
  PROVE  [Link!Next]_Link!vars
<1>1. Link!Wanted(p) = Reader!Wanted(p) /\ Link!Other(p) = Reader!Other(p)
  BY DEF Link!Wanted, Reader!Wanted, Link!Other, Reader!Other
<1>2. Reader!ReadUnit(p) => Link!ReadUnit(p)
  BY <1>1 DEF Link!ReadUnit, Reader!ReadUnit, All
<1>3. /\ \A s : Link!Received(p, s) <=> Reader!Received(p, s)
      /\ \A r : Reader!Continue(p, r) => Link!Continue(p, r)
  BY <1>1 DEF Link!Received, Reader!Received, Link!Continue, Reader!Continue, Link!sending, Reader!sending,
              All
<1>4. Link!Known(p) = Reader!Known(p)
  BY DEF Link!Known, Reader!Known, Link!HashPrefix, Reader!HashPrefix
<1>5. Link!AtError = Reader!AtError /\ \A s, n, k : Link!In(s, n, k) = Reader!In(s, n, k)
  BY DEF Link!AtError, Reader!AtError, Link!In, Reader!In
<1>6. Reader!GetIndexForHash(p) => Link!GetIndexForHash(p)
  BY <1>3, <1>4, <1>5 DEF Link!GetIndexForHash, Reader!GetIndexForHash
<1>7. Reader!GetMessageSize(p) => Link!GetMessageSize(p)
  BY <1>3, <1>5 DEF Link!GetMessageSize, Reader!GetMessageSize, Link!TooLarge, Reader!TooLarge
<1> QED
  BY <1>2, <1>6, <1>7 DEF Link!Next, Link!Receiver

LEMMA LinkGreets ==
  ASSUME NEW p \in Peers, UNCHANGED <<outs, completed, sent, delivered>>, Reader!HandshakeSendHashLength(p)
  PROVE  [Link!Next]_Link!vars
<1>1. Link!HandshakeSendHashLength(p)
  BY DEF Link!HandshakeSendHashLength, Reader!HandshakeSendHashLength, Link!receiving, Reader!receiving, All
<1> QED
  BY <1>1 DEF Link!Next

LEMMA LinkIsGreeted ==
  ASSUME NEW p \in Peers, UNCHANGED <<outs, completed, sent, delivered>>, outs[p] = <<>>,
         Reader!HandshakeHandleHashLengthRecv(p)
  PROVE  [Link!Next]_Link!vars
<1>1. /\ Link!AtError = Reader!AtError /\ Link!AtHash = Reader!AtHash /\ Link!Other(p) = Reader!Other(p)
      /\ \A l : /\ Link!Accepts(p, l) = Reader!Accepts(p, l)
                /\ Link!AgreedLength(p, l) = Reader!AgreedLength(p, l)
  BY DEF Reader!AtError, Link!AtError, Reader!AtHash, Link!AtHash, Reader!In, Link!In, Reader!Other,
         Link!Other, Reader!Accepts, Link!Accepts, Reader!AgreedLength, Link!AgreedLength,
         Reader!Max, Link!Max
<1>2. outs' = [outs EXCEPT ![p] = <<>>]
  BY DEF outs
<1>3. CASE Reader!Accepts(p, Head(wire[Reader!Other(p)]))
  <2>1. Link!HandshakeHandleHashLengthRecv(p)
    BY <1>1, <1>3 DEF Reader!HandshakeHandleHashLengthRecv, Link!HandshakeHandleHashLengthRecv, All
  <2> QED
    BY <2>1 DEF Link!Next
<1>4. CASE ~Reader!Accepts(p, Head(wire[Reader!Other(p)]))
  <2>1. Link!HandshakeHandleHashLengthRecv(p)
    BY <1>1, <1>2, <1>4 DEF Reader!HandshakeHandleHashLengthRecv, Link!HandshakeHandleHashLengthRecv,
                            Reader!Leave, Link!Leave, All
  <2> QED
    BY <2>1 DEF Link!Next
<1> QED
  BY <1>3, <1>4

LEMMA LinkCalls ==
  ASSUME ReplyTypes, NEW p \in Peers, Calls(p)
  PROVE  [Link!Next]_Link!vars
<1>1. /\ recv[p].state = "payload" /\ recvs[p] = recv[p] /\ UNCHANGED <<out, reply, sent>>
      /\ Len(recv[p].got) = recv[p].size
      /\ Continue(p, AtHash) \/ Continue(p, Answering)
      /\ delivered' = [delivered EXCEPT ![p] = Append(@, <<recv[p].index, recv[p].got>>)]
  BY NotAnswering
     DEF Calls, CallReplyingDelegate, CallDelegate, Received, Wanted, Continue, sending, Answering
<1>2. UNCHANGED <<outs, completed>>
  BY <1>1, OutsKept
<1>3. recvs' = [recvs EXCEPT ![p] = AtHash] /\ UNCHANGED <<session, reliable, phase, hashLength, wire>>
  BY <1>1, RecvsSet, States DEF Continue, sending
<1>4. Link!Received(p, "payload")
  BY <1>1 DEF Link!Received, Link!Wanted
<1>5. Link!CallDelegate(p)
  BY <1>1, <1>2, <1>3, <1>4, Same DEF Link!CallDelegate, Link!Continue, Link!sending, All
<1> QED
  BY <1>5 DEF Link!Next, Link!Receiver

LEMMA LinkSends ==
  ASSUME LinkInv, NEW p \in Peers, NEW n \in Ids, NEW m \in Payloads, <<n, m>> \in Messages, n \in Table[p],
         phase[p] = "up", outs[p] = <<>>, Len(sent[p]) < MaxSends[p],
         outs' = [outs EXCEPT ![p] = Pieces(p, n, m)], Pieces(p, n, m) # <<>>,
         sent' = [sent EXCEPT ![p] = Append(@, <<n, m>>)],
         UNCHANGED <<session, reliable, phase, hashLength, wire, recvs, delivered>>
  PROVE  [Link!Next]_Link!vars
<1>1. completed' = completed
  BY Begins, Same DEF LinkInv, Link!TypeInv, Link!Shapes
<1>2. Fits(n, m)
  BY DEF Messages
<1>3. [All(FALSE) EXCEPT ![p] = FALSE] = All(FALSE)
  BY DEF All
<1>4. Link!Send(p, n, m)
  BY <1>1, <1>2, <1>3, Same DEF Link!Send, Link!receiving, All
<1> QED
  BY <1>4, Same DEF Link!Next

LEMMA LinkWrites ==
  ASSUME NEW p \in Peers, NEW b \in Seq(Seq(Nat)), outs[p] = b, b # <<>>, Head(b) # <<>>,
         Len(wire[p]) < Capacity, wire' = [wire EXCEPT ![p] = Append(wire[p], Head(Head(b)))],
         outs' = [outs EXCEPT ![p] = [b EXCEPT ![1] = Tail(@)]],
         UNCHANGED <<session, reliable, phase, hashLength, sent, recvs, delivered>>
  PROVE  [Link!Next]_Link!vars
<1>1. completed' = completed
  BY BuffersAre, CompletedKept
<1>2. All(TRUE)[p]
  BY DEF All
<1>3. Link!WriteUnit(p)
  BY <1>1, <1>2 DEF Link!WriteUnit, Link!receiving, All
<1> QED
  BY <1>3 DEF Link!Next, Link!Sender

LEMMA LinkReturns ==
  ASSUME LinkInv, NEW p \in Peers, outs[p] # <<>>, Head(outs[p]) = <<>>,
         outs' = [outs EXCEPT ![p] = Tail(outs[p])],
         UNCHANGED <<session, reliable, phase, hashLength, wire, sent, recvs, delivered>>
  PROVE  [Link!Next]_Link!vars
<1>1. sent \in [Peers -> Seq(Messages)]
  BY Same DEF LinkInv, Link!TypeInv, Link!Shapes
<1>2. outs'[p] = Tail(outs[p])
  BY DEF outs
<1>3. completed' = IF outs'[p] = <<>> THEN [completed EXCEPT ![p] = @ + 1] ELSE completed
  <2>1. CASE outs'[p] = <<>>
    BY <1>1, <1>2, <2>1, Completes
  <2>2. CASE outs'[p] # <<>>
    BY <1>2, <2>2, CompletedKept
  <2> QED
    BY <2>1, <2>2
<1>4. Link!Collected(p, FALSE) = FALSE /\ All(TRUE)[p]
  BY DEF Link!Collected, All
<1>5. [All(FALSE) EXCEPT ![p] = Link!Collected(p, FALSE)] = All(FALSE) /\ All(FALSE)[p] = FALSE
  <2>1. [All(FALSE) EXCEPT ![p] = FALSE] = All(FALSE) /\ All(FALSE)[p] = FALSE
    BY DEF All
  <2> QED
    BY <1>4, <2>1
<1>6. Link!SendReturns(p, FALSE)
  BY <1>3, <1>5 DEF Link!SendReturns, Link!receiving, All
<1>7. Link!PieceSent(p)
  BY <1>4, <1>6 DEF Link!PieceSent, All
<1> QED
  BY <1>7 DEF Link!Next, Link!Sender

LEMMA LockedSteps ==
  ASSUME ReaderInv, OneSend, LinkInv, Locked, NEW p \in Peers,
         \/ Linked(p) \/ Ask(p) \/ Calls(p) \/ ReplyBegins(p) \/ ReplyUnit(p) \/ ReplyPiece(p)
  PROVE  OneSend' /\ [Link!Next]_Link!vars
<1>t. /\ ReplyTypes /\ out \in [Peers -> Seq(Seq(Nat))] /\ reply \in [Peers -> Seq(Seq(Nat))]
      /\ reply[p] = <<>> \/ out[p] = <<>>
  BY DEF ReaderInv, ReplyTypes, OneSend
<1>1. CASE HandshakeSendHashLength(p) /\ UNCHANGED reply
  <2>1. UNCHANGED <<out, sent, delivered>>
    BY <1>1 DEF HandshakeSendHashLength, receiving
  <2> QED
    BY <1>1, <2>1, OutsKept, Greets, LinkGreets DEF OneSend
<1>2. CASE HandshakeHandleHashLengthRecv(p) /\ UNCHANGED reply
  <2>1. phase[p] # "up" /\ (out' = out \/ out' = [out EXCEPT ![p] = <<>>]) /\ UNCHANGED <<sent, delivered>>
    BY <1>2 DEF HandshakeHandleHashLengthRecv, Leave
  <2>2. out[p] = <<>> /\ reply[p] = <<>>
    BY <2>1, AnswersUp
  <2>3. out' = out
    BY <1>t, <2>1, <2>2
  <2>4. outs[p] = <<>>
    BY <2>2, OutsAre
  <2> QED
    BY <1>t, <1>2, <2>1, <2>3, <2>4, OutsKept, IsGreeted, LinkIsGreeted DEF OneSend
<1>3. CASE (ReadUnit(p) \/ GetIndexForHash(p) \/ GetMessageSize(p)) /\ UNCHANGED reply
  <2>1. UNCHANGED <<out, sent, delivered>>
    BY <1>3 DEF ReadUnit, GetIndexForHash, GetMessageSize, Continue, sending
  <2>2. Reader!ReadUnit(p) \/ Reader!GetIndexForHash(p) \/ Reader!GetMessageSize(p)
    BY <1>t, <1>3, ReadsUnit, GetsIndex, GetsSize
  <2> QED
    BY <1>3, <2>1, <2>2, OutsKept, LinkReads DEF OneSend
<1>4. CASE Calls(p)
  <2>1. UNCHANGED <<out, reply>>
    BY <1>4 DEF Calls, CallReplyingDelegate, CallDelegate, Continue, sending
  <2> QED
    BY <1>t, <1>4, <2>1, LinkCalls DEF OneSend
<1>5. CASE Ask(p)
  <2>1. /\ reply[p] = <<>> /\ out[p] = <<>> /\ phase[p] = "up" /\ Len(sent[p]) < MaxSends[p]
        /\ out' = [out EXCEPT ![p] = Pieces(p, Request, Question)] /\ reply' = reply
        /\ sent' = [sent EXCEPT ![p] = Append(@, <<Request, Question>>)]
        /\ UNCHANGED <<session, reliable, phase, hashLength, wire, recv, delivered>>
    BY <1>5 DEF Ask, Send, receiving
  <2>2. outs' = [outs EXCEPT ![p] = Pieces(p, Request, Question)] /\ outs[p] = <<>>
    BY <1>t, <2>1, OutsSet, OutsAre
  <2>3. Pieces(p, Request, Question) # <<>>
    BY Asks, PiecesAre DEF ReaderInv
  <2>4. [Link!Next]_Link!vars
    BY <2>1, <2>2, <2>3, Asks, RecvsKept, LinkSends
  <2>5. OneSend'
    BY <1>t, <2>1 DEF OneSend
  <2> QED
    BY <2>4, <2>5
<1>6. CASE ReplyBegins(p)
  <2>1. /\ reply[p] = <<>> /\ out[p] = <<>> /\ recv[p].state = "reply" /\ Len(sent[p]) < MaxSends[p]
        /\ reply' = [reply EXCEPT ![p] = Pieces(p, Reply, Answer)] /\ out' = out
        /\ sent' = [sent EXCEPT ![p] = Append(@, <<Reply, Answer>>)]
        /\ UNCHANGED <<session, reliable, phase, hashLength, wire, recv, delivered>>
    BY <1>6 DEF ReplyBegins, receiving
  <2>2. outs' = [outs EXCEPT ![p] = Pieces(p, Reply, Answer)] /\ outs[p] = <<>>
    BY <1>t, <2>1, OutsSet, OutsAre
  <2>3. Pieces(p, Reply, Answer) # <<>> /\ phase[p] = "up"
    BY <2>1, Asks, PiecesAre, AnswersUp DEF ReaderInv
  <2>4. [Link!Next]_Link!vars
    BY <2>1, <2>2, <2>3, Asks, RecvsKept, LinkSends
  <2>5. OneSend'
    BY <1>t, <2>1 DEF OneSend
  <2> QED
    BY <2>4, <2>5
<1>7. CASE (WriteUnit(p) /\ UNCHANGED reply) \/ ReplyUnit(p)
  <2>1. PICK b \in Seq(Seq(Nat)) :
           /\ b # <<>> /\ Head(b) # <<>> /\ Len(wire[p]) < Capacity
           /\ wire' = [wire EXCEPT ![p] = Append(wire[p], Head(Head(b)))]
           /\ \/ b = out[p] /\ out' = [out EXCEPT ![p] = [b EXCEPT ![1] = Tail(@)]] /\ reply' = reply
              \/ b = reply[p] /\ reply' = [reply EXCEPT ![p] = [b EXCEPT ![1] = Tail(@)]] /\ out' = out
           /\ UNCHANGED <<session, reliable, phase, hashLength, sent, recv, delivered>>
    BY <1>t, <1>7 DEF WriteUnit, ReplyUnit, receiving
  <2>2. outs' = [outs EXCEPT ![p] = [b EXCEPT ![1] = Tail(@)]] /\ outs[p] = b
    BY <1>t, <2>1, OutsSet, OutsAre
  <2>3. [Link!Next]_Link!vars
    BY <2>1, <2>2, RecvsKept, LinkWrites
  <2>4. OneSend'
    BY <1>t, <2>1 DEF OneSend
  <2> QED
    BY <2>3, <2>4
<1>8. CASE PieceSent(p) /\ UNCHANGED reply
  <2>1. /\ out[p] # <<>> /\ Head(out[p]) = <<>> /\ reply' = reply
        /\ out' = [out EXCEPT ![p] = Tail(out[p])]
        /\ UNCHANGED <<session, reliable, phase, hashLength, wire, sent, recv, delivered>>
    BY <1>8 DEF PieceSent, SendReturns, receiving
  <2>2. outs' = [outs EXCEPT ![p] = Tail(out[p])] /\ outs[p] = out[p]
    BY <1>t, <2>1, OutsSet, OutsAre
  <2>3. [Link!Next]_Link!vars
    BY <2>1, <2>2, RecvsKept, LinkReturns
  <2>4. OneSend'
    BY <1>t, <2>1 DEF OneSend
  <2> QED
    BY <2>3, <2>4
<1>9. CASE ReplyPiece(p)
  <2>1. /\ reply[p] # <<>> /\ Head(reply[p]) = <<>> /\ out' = out
        /\ reply' = [reply EXCEPT ![p] = Tail(reply[p])]
        /\ UNCHANGED <<session, reliable, phase, hashLength, wire, sent, delivered>>
    BY <1>9 DEF ReplyPiece, Locked, sending
  <2>2. outs' = [outs EXCEPT ![p] = Tail(reply[p])] /\ outs[p] = reply[p]
    BY <1>t, <2>1, OutsSet, OutsAre
  <2>3. UNCHANGED recvs
    BY <1>9, ReplyPieceUnseen
  <2>4. [Link!Next]_Link!vars
    BY <2>1, <2>2, <2>3, LinkReturns
  <2>5. OneSend'
    BY <1>t, <2>1 DEF OneSend
  <2> QED
    BY <2>4, <2>5
<1>10. CASE PieceFails(p)
  BY <1>10 DEF PieceFails, Locked
<1>11. CASE Linked(p)
  BY <1>1, <1>2, <1>3, <1>4, <1>7, <1>8, <1>10, <1>11 DEF Linked, Sender, Calls
<1> QED
  BY <1>4, <1>5, <1>6, <1>7, <1>9, <1>11

LEMMA LockedConnect ==
  ASSUME ReaderInv, Connect, UNCHANGED reply
  PROVE  LockedInv' /\ Channel!Connect
<1>1. \A p \in Peers : reply[p] = <<>>
  BY AnswersUp DEF Connect, All
<1>2. OneSend'
  BY <1>1 DEF OneSend
<1>3. recvs' = All(AtError) /\ outs' = All(<<>>)
  BY <1>1, States DEF Connect, recvs, outs, All
<1>4. completed' = All(0)
  BY <1>3, EmptySeq DEF Connect, completed, All
<1>5. Link!Connect
  <2>1. Link!AtError = AtError
    BY Same
  <2> QED
    BY <1>3, <1>4, <2>1 DEF Connect, Link!Connect, Link!All, All
<1>6. Link!Leftover /\ Link!LongEnough
  BY DEF ReaderInv, Reader!TypeInv, Reader!Shapes, Reader!SendBounds, Reader!LongEnough,
         Link!Leftover, Link!LongEnough
<1>7. LinkInv'
  BY <1>5, <1>6, LinkAssumed, Link!Connected DEF LinkInv
<1> QED
  BY <1>2, <1>7 DEF LockedInv, Connect, Channel!Connect, All

LEMMA Kept ==
  ASSUME NEW p \in Peers,
         \/ Linked(p) \/ Ask(p) \/ Calls(p) \/ ReplyBegins(p) \/ ReplyUnit(p) \/ ReplyPiece(p)
  PROVE  UNCHANGED reliable
<1>1. CASE Linked(p)
  BY <1>1 DEF Linked, HandshakeSendHashLength, HandshakeHandleHashLengthRecv, Sender, WriteUnit, PieceSent,
              PieceFails, SendReturns, ReadUnit, GetIndexForHash, GetMessageSize, CallDelegate, Continue
<1>2. CASE Ask(p) \/ Calls(p) \/ ReplyBegins(p) \/ ReplyUnit(p) \/ ReplyPiece(p)
  BY <1>2 DEF Ask, Send, Calls, CallReplyingDelegate, CallDelegate, Continue, ReplyBegins, ReplyUnit,
              ReplyPiece
<1> QED
  BY <1>1, <1>2

LEMMA LockedStep ==
  ReaderInv /\ LockedInv /\ [ReplyNext]_replyVars
     => LockedInv' /\ [Locked => Channel!Next]_<<sent, delivered>>
<1> SUFFICES ASSUME ReaderInv, LockedInv, [ReplyNext]_replyVars
             PROVE  LockedInv' /\ [Locked => Channel!Next]_<<sent, delivered>>
  OBVIOUS
<1>1. CASE Connect /\ UNCHANGED reply
  BY <1>1, LockedConnect DEF Channel!Next
<1>2. ASSUME NEW p \in Peers,
             \/ Linked(p) \/ Ask(p) \/ Calls(p) \/ ReplyBegins(p) \/ ReplyUnit(p) \/ ReplyPiece(p)
      PROVE  LockedInv' /\ [Locked => Channel!Next]_<<sent, delivered>>
  <2>1. reliable' = reliable /\ reliable \in BOOLEAN
    BY <1>2, Kept DEF LockedInv
  <2>2. CASE Locked
    <3>1. OneSend' /\ [Link!Next]_Link!vars
      BY <1>2, <2>2, LockedSteps DEF LockedInv
    <3>2. LinkInv' /\ [Channel!Next]_<<sent, delivered>>
      BY <2>1, <2>2, <3>1, LinkSteps DEF LockedInv
    <3> QED
      BY <2>1, <3>1, <3>2 DEF LockedInv
  <2>3. CASE ~Locked
    BY <2>1, <2>3 DEF LockedInv, Locked
  <2> QED
    BY <2>2, <2>3
<1>3. CASE UNCHANGED replyVars
  <2>1. UNCHANGED <<outs, completed, recvs, sent, delivered, reliable, out, reply>>
    BY <1>3, RecvsKept, OutsKept DEF replyVars, vars, sending, receiving
  <2>2. UNCHANGED Link!vars
    BY <1>3, <2>1 DEF replyVars, vars, sending, receiving, Link!vars, Link!sending, Link!receiving, All
  <2>3. LockedInv /\ Locked => LinkInv'
    BY <2>2, LinkSteps DEF LockedInv
  <2> QED
    BY <2>1, <2>3 DEF LockedInv, Locked, OneSend
<1> QED
  BY <1>1, <1>2, <1>3 DEF ReplyNext, Calls

\* With a lock around send(), the peer's delegates get what the application and the delegates
\* of one side send, each message whole and in the order of the calls.
THEOREM FramesKeptWhole == ReplySpec => FramesStayWhole
<1>1. ReplyInit => Channel!Init /\ LockedInv
  BY DEF ReplyInit, Init, All, Channel!Init, LockedInv, Locked
<1> QED
  BY <1>1, ReaderInvariant, LockedStep, PTL DEF ReplySpec, FramesStayWhole
=============================================================================
