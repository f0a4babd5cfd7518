----------------------------- MODULE NadamReply -----------------------------
(***************************************************************************)
(* The endpoints of NadamLink when a delegate answers: recvWorker calls    *)
(* send() itself, and reads nothing until that returns.  Each application  *)
(* asks, waits for the answer and asks again.  send() takes no lock, so    *)
(* the thread that asks and the one that answers need one of the           *)
(* application's around it.                                                *)
(***************************************************************************)
EXTENDS NadamLink

CONSTANTS
    Request, Reply,   \* ids of what the applications ask and their delegates answer
    Question, Answer, \* the payloads
    MaxRequests       \* bound: requests of each peer

ASSUME ReplyAssumption ==
    /\ \A p \in Peers : {Request, Reply} \subseteq Table[p] /\ MaxSends[p] >= 2 * MaxRequests
    /\ Request # Reply /\ {<<Request, Question>>, <<Reply, Answer>>} \subseteq Messages

VARIABLE reply   \* buffers the send() in p's delegate still has to hand to mbr.send

replyVars == <<vars, reply>>

\* Two kinds of connection: one that works, with applications that hold their lock around
\* send(), and one where pieces may be lost, with applications that have none.
Locked == reliable

Asked(p)    == Cardinality({k \in DOMAIN sent[p] : sent[p][k][1] = Request})
Answered(p) == Cardinality({k \in DOMAIN delivered[p] : delivered[p][k][1] = Reply})

ReplyInit == Init /\ reply = All(<<>>)

Ask(p) ==
    /\ Asked(p) = Answered(p) /\ Asked(p) < MaxRequests
    /\ Locked => reply[p] = <<>>
    /\ Send(p, Request, Question)
    /\ UNCHANGED reply

\* The delegate of requests has been called and calls send().
CallReplyingDelegate(p) ==
    /\ Received(p, "payload") /\ recv[p].index = Request
    /\ delivered' = [delivered EXCEPT ![p] = Append(@, <<Request, recv[p].got>>)]
    /\ Continue(p, In("reply", Request, 0))
    /\ UNCHANGED reply

ReplyBegins(p) ==
    /\ recv[p].state = "reply" /\ reply[p] = <<>> /\ Len(sent[p]) < MaxSends[p]
    /\ Locked => out[p] = <<>>
    /\ reply' = [reply EXCEPT ![p] = Pieces(p, Reply, Answer)]
    /\ sent' = [sent EXCEPT ![p] = Append(@, <<Reply, Answer>>)]
    /\ UNCHANGED <<session, reliable, phase, hashLength, wire, writable, out, errorCollector, accepted,
                   receiving>>

ReplyUnit(p) ==
    /\ reply[p] # <<>> /\ Head(reply[p]) # <<>> /\ Len(wire[p]) < Capacity
    /\ wire' = [wire EXCEPT ![p] = Append(@, Head(Head(reply[p])))]
    /\ reply' = [reply EXCEPT ![p][1] = Tail(@)]
    /\ UNCHANGED <<session, reliable, phase, hashLength, writable, out, errorCollector, sent, accepted,
                   receiving>>

\* mbr.send returns; after the last one so do send() and the delegate.
ReplyPiece(p) ==
    /\ reply[p] # <<>> /\ (Head(reply[p]) = <<>> \/ ~reliable)
    /\ reply' = [reply EXCEPT ![p] = Tail(@)]
    /\ recv' = IF reply'[p] = <<>> THEN [recv EXCEPT ![p] = AtHash] ELSE recv
    /\ UNCHANGED <<session, reliable, phase, hashLength, sending, delivered>>

\* What recvWorker and the application's thread do as in NadamLink, where recv also fails.
Linked(p) ==
    /\ \/ HandshakeSendHashLength(p) \/ HandshakeHandleHashLengthRecv(p)
       \/ Sender(p) \/ PieceFails(p)
       \/ ReadUnit(p) \/ GetIndexForHash(p) \/ GetMessageSize(p)
       \/ recv[p].index # Request /\ CallDelegate(p)
    /\ UNCHANGED reply

ReplyNext ==
    \/ Connect /\ UNCHANGED reply
    \/ \E p \in Peers :
          \/ Linked(p) \/ Ask(p)
          \/ CallReplyingDelegate(p) \/ ReplyBegins(p) \/ ReplyUnit(p) \/ ReplyPiece(p)

ReplySpec == ReplyInit /\ [][ReplyNext]_replyVars

\* As in NadamLink; a lock that is free again and again is taken.
ReplyLiveSpec ==
    /\ ReplySpec
    /\ \A p \in Peers :
          /\ WF_replyVars(HandshakeSendHashLength(p) /\ UNCHANGED reply)
          /\ WF_replyVars(HandshakeHandleHashLengthRecv(p) /\ UNCHANGED reply)
          /\ WF_replyVars(Sender(p) /\ UNCHANGED reply)
          /\ WF_replyVars(\/ /\ \/ ReadUnit(p) \/ GetIndexForHash(p) \/ GetMessageSize(p)
                                \/ recv[p].index # Request /\ CallDelegate(p)
                             /\ UNCHANGED reply
                          \/ CallReplyingDelegate(p) \/ ReplyUnit(p) \/ ReplyPiece(p))
          /\ SF_replyVars(ReplyBegins(p))
-----------------------------------------------------------------------------
(* Properties.                                                              *)

\* With a lock around send(), requests and answers of one endpoint do not mix: the peer's
\* delegates get what was sent, in order.
FramesStayWhole == Channel!Init /\ [][Locked => Channel!Next]_<<sent, delivered>>

Units(n, m) == HashLengthMax[CHOOSE p \in Peers : TRUE] + Len(m) + IF IsVariable[n] THEN 1 ELSE 0

\* Both receive threads may be inside send() at once, when neither reads.  A connection
\* that holds one answer is enough for every question to be answered all the same.
QuestionIsAnswered ==
    \A p \in Peers : \A k \in 1..MaxRequests :
        /\ reliable /\ Capacity >= Units(Reply, Answer)
        /\ \A q \in Peers : phase[q] = "up"
        /\ Asked(p) >= k
        ~> Answered(p) >= k
=============================================================================
