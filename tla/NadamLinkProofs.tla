--------------------------- MODULE NadamLinkProofs ---------------------------
(***************************************************************************)
(* Theorems about NadamLink for any two builds, any message tables and any *)
(* payloads, over connections of any capacity.                             *)
(***************************************************************************)
EXTENDS NadamLink, SequenceTheorems, TLAPS

LEMMA TwoPeers ==
  ASSUME NEW p \in Peers
  PROVE  /\ Other(p) \in Peers /\ Other(p) # p /\ Other(Other(p)) = p
         /\ \A q \in Peers : q = p \/ q = Other(p)
<1>1. PICK a, b \in Peers : a # b /\ Peers = {a, b}
  BY LinkAssumption
<1>2. \A q \in Peers : \E r \in Peers : r # q
  BY <1>1
<1>3. \A q \in Peers : Other(q) \in Peers /\ Other(q) # q
  BY <1>2 DEF Other
<1> QED
  BY <1>1, <1>3

LEMMA MaxOfTwo ==
  ASSUME NEW i \in Nat, NEW j \in Nat
  PROVE  Max({i, j}) = IF i >= j THEN i ELSE j
<1>1. \E x \in {i, j} : \A y \in {i, j} : x >= y
  OBVIOUS
<1>2. /\ Max({i, j}) \in {i, j}
      /\ \A y \in {i, j} : Max({i, j}) >= y
  BY <1>1 DEF Max
<1> QED
  BY <1>2

LEMMA Bounds == Capacity \in Nat \ {0} /\ \A p \in Peers : HashLengthMax[p] \in Nat
  BY LinkAssumption

LEMMA MinLengthsType ==
  \A p \in Peers : \A l \in MinLengths[p] : l \in Nat /\ l \in 1..HashLengthMax[p]
  BY LinkAssumption

LEMMA Largest ==
  ASSUME NEW p \in Peers, NEW n \in Table[p]
  PROVE  MaxMessageSize(p) \in Nat /\ Size[n] <= MaxMessageSize(p)
<1>1. PICK k \in Table[p] : \A m \in Table[p] : Size[m] <= Size[k]
  BY LinkAssumption
<1>2. /\ MaxMessageSize(p) \in {Size[m] : m \in Table[p]}
      /\ \A m \in Table[p] : Size[m] <= MaxMessageSize(p)
  BY <1>1 DEF MaxMessageSize
<1>3. \A m \in Table[p] : m \in Ids
  BY DEF Ids
<1> QED
  BY <1>2, <1>3, LinkAssumption

LEMMA HashPrefixType ==
  ASSUME NEW p \in Peers, NEW n \in Ids, NEW l \in 1..HashLengthMax[p]
  PROVE  /\ HashPrefix(n, l) \in Seq(Nat) /\ Len(HashPrefix(n, l)) = l
<1>1. Hash[n] \in Seq(Nat) /\ l \in 1..Len(Hash[n]) /\ l \in Nat
  BY LinkAssumption
<1>2. \A i \in 1..l : Hash[n][i] \in Nat
  BY <1>1
<1> QED
  BY <1>1, <1>2, SubSeqProperties DEF HashPrefix

LEMMA PiecesType ==
  ASSUME NEW p \in Peers, hashLength[p] \in 1..HashLengthMax[p], NEW n \in Ids, NEW m \in Payloads
  PROVE  Pieces(p, n, m) \in Seq(Seq(Nat)) /\ Pieces(p, n, m) # <<>>
<1>1. HashPrefix(n, hashLength[p]) \in Seq(Nat)
  BY HashPrefixType
<1>2. m \in Seq(Nat) /\ Len(m) \in Nat
  BY LinkAssumption
<1>3. <<Len(m)>> \in Seq(Nat)
  BY <1>2
<1> QED
  BY <1>1, <1>2, <1>3 DEF Pieces

(***************************************************************************)
(* Type correctness.  A peer that begins a handshake has sent nothing, and *)
(* the send() in progress is not counted yet.                              *)
(***************************************************************************)

Units == Seq(Nat)
Recvs == [state : {"hash", "size", "payload", "error"}, got : Units, index : Ids \cup {NoId},
          size : Nat]

\* TypeOK in parts, and what it takes to be inductive.
Flags ==
    reliable \in BOOLEAN /\ writable \in [Peers -> BOOLEAN] /\ errorCollector \in [Peers -> BOOLEAN]
Shapes ==
    /\ session \in 0..MaxSessions
    /\ phase \in [Peers -> {"closed", "connected", "recvLength", "up"}]
    /\ hashLength \in [Peers -> Nat] /\ wire \in [Peers -> Units]
    /\ out \in [Peers -> Seq(Units)] /\ accepted \in [Peers -> Nat]
    /\ sent \in [Peers -> Seq(Messages)] /\ delivered \in [Peers -> Seq(Ids \X Units)]
    /\ recv \in [Peers -> Recvs]
SendBounds ==
    \A p \in Peers :
       /\ hashLength[p] \in 1..HashLengthMax[p]
       /\ Len(wire[p]) <= Capacity + 1
       /\ phase[p] = "connected" => wire[p] = <<>>
       /\ out[p] # <<>> => phase[p] = "up" /\ accepted[p] < Len(sent[p])
       /\ accepted[p] <= Len(sent[p])
RecvBounds ==
    \A p \in Peers :
       /\ recv[p].state # "error" => phase[p] = "up"
       /\ recv[p].state \in {"size", "payload"} => recv[p].index \in Table[p]
       /\ Len(recv[p].got) <= Wanted(p)

TypeInv == Shapes /\ SendBounds /\ RecvBounds

LEMMA TypeParts == Flags /\ TypeInv => TypeOK
  BY DEF Flags, TypeInv, Shapes, SendBounds, RecvBounds, TypeOK, Units, Recvs

LEMMA EmptyTypes ==
  /\ <<>> \in Units /\ <<>> \in Seq(Units) /\ <<>> \in Seq(Messages) /\ <<>> \in Seq(Ids \X Units)
  /\ Len(<<>>) = 0
  BY EmptySeq DEF Units

LEMMA RecvTypes ==
  /\ AtError \in Recvs /\ AtError.state = "error" /\ AtError.got = <<>>
  /\ AtHash \in Recvs /\ AtHash.state = "hash" /\ AtHash.got = <<>>
  /\ \A n \in Ids, k \in Nat : /\ In("size", n, k) \in Recvs /\ In("payload", n, k) \in Recvs
                               /\ In("size", n, k).got = <<>> /\ In("payload", n, k).got = <<>>
  BY EmptyTypes DEF AtError, AtHash, In, Recvs

\* What a peer's part of SendBounds and RecvBounds depends on.
LEMMA RecvBoundsKept ==
  ASSUME RecvBounds,
         UNCHANGED <<recv, hashLength>>, \A q \in Peers : phase[q] = "up" => phase'[q] = "up"
  PROVE  RecvBounds'
  BY DEF RecvBounds, Wanted

LEMMA TypeInvInit == Init => TypeInv
<1> SUFFICES ASSUME Init PROVE TypeInv
  OBVIOUS
<1>1. hashLength \in [Peers -> Nat] /\ \A p \in Peers : hashLength[p] \in 1..HashLengthMax[p]
  BY LinkAssumption DEF Init
<1>2. Shapes
  BY <1>1, EmptyTypes, RecvTypes, LinkAssumption DEF Init, Shapes, All
<1>3. SendBounds
  BY <1>1, EmptyTypes, LinkAssumption DEF Init, SendBounds, All
<1>4. RecvBounds
  BY EmptyTypes, RecvTypes DEF Init, RecvBounds, All, Wanted
<1> QED
  BY <1>2, <1>3, <1>4 DEF TypeInv

\* What is left of one connection when the next is opened.
Leftover ==
    session \in 0..MaxSessions /\ hashLength \in [Peers -> Nat]
    /\ \A p \in Peers : hashLength[p] \in 1..HashLengthMax[p]

LEMMA TypeInvConnect == Leftover /\ Connect => TypeInv'
<1> SUFFICES ASSUME Leftover, Connect PROVE TypeInv'
  OBVIOUS
<1>0. MaxSessions \in Nat
  BY LinkAssumption
<1>1. Shapes'
  <2>1. session' \in 0..MaxSessions
    BY <1>0 DEF Connect, Leftover
  <2> QED
    BY <2>1, EmptyTypes, RecvTypes DEF Connect, Leftover, Shapes, All
<1>2. SendBounds'
  <2>1. 0 <= Capacity + 1
    BY Bounds
  <2> QED
    BY <2>1, EmptyTypes DEF Connect, Leftover, SendBounds, All
<1>3. RecvBounds'
  BY EmptyTypes, RecvTypes DEF Connect, RecvBounds, All, Wanted
<1> QED
  BY <1>1, <1>2, <1>3 DEF TypeInv

LEMMA TypeInvInitEndpoint ==
  ASSUME TypeInv, NEW p \in Peers, InitEndpoint(p)
  PROVE  TypeInv'
<1> USE DEF sending, receiving
<1>1. PICK l \in MinLengths[p] : hashLength' = [hashLength EXCEPT ![p] = l]
  BY DEF InitEndpoint
<1>2. l \in 1..HashLengthMax[p] /\ l \in Nat
  BY LinkAssumption
<1>3. Shapes'
  BY <1>1, <1>2 DEF InitEndpoint, TypeInv, Shapes
<1>4. SendBounds'
  BY <1>1, <1>2 DEF InitEndpoint, TypeInv, Shapes, SendBounds
<1>5. RecvBounds'
  BY <1>1 DEF InitEndpoint, TypeInv, Shapes, RecvBounds, Wanted
<1> QED
  BY <1>3, <1>4, <1>5 DEF TypeInv

LEMMA TypeInvClose ==
  ASSUME TypeInv, NEW p \in Peers, Close(p)
  PROVE  TypeInv'
<1>1. PICK k \in 0..Len(wire[p]) : wire' = [wire EXCEPT ![p] = SubSeq(wire[p], 1, k)]
  BY DEF Close
<1>2. wire[p] \in Units /\ k \in Nat /\ k <= Len(wire[p])
  BY DEF TypeInv, Shapes
<1>3. /\ SubSeq(wire[p], 1, k) \in Units
      /\ Len(SubSeq(wire[p], 1, k)) <= Len(wire[p])
  BY <1>2 DEF Units
<1>4. Shapes'
  BY <1>1, <1>3, EmptyTypes, RecvTypes DEF Close, Leave, TypeInv, Shapes
<1>5. SendBounds'
  <2>1. Len(SubSeq(wire[p], 1, k)) <= Capacity + 1
    BY <1>2, <1>3, Bounds DEF TypeInv, SendBounds, Units
  <2> QED
    BY <1>1, <2>1 DEF Close, Leave, TypeInv, Shapes, SendBounds
<1>6. RecvBounds'
  BY EmptyTypes, RecvTypes DEF Close, Leave, TypeInv, Shapes, RecvBounds, Wanted
<1> QED
  BY <1>4, <1>5, <1>6 DEF TypeInv

LEMMA TypeInvHandshakeSend ==
  ASSUME TypeInv, NEW p \in Peers, HandshakeSendHashLength(p)
  PROVE  TypeInv'
<1> USE DEF receiving
<1>1. wire[p] = <<>> /\ hashLength[p] \in Nat
  BY DEF HandshakeSendHashLength, TypeInv, SendBounds, Shapes
<1>2. Append(wire[p], hashLength[p]) \in Units /\ Len(Append(wire[p], hashLength[p])) = 1
  BY <1>1 DEF Units
<1>w. wire' = [wire EXCEPT ![p] = Append(wire[p], hashLength[p])]
  BY DEF HandshakeSendHashLength
<1>3. Shapes'
  BY <1>2 DEF HandshakeSendHashLength, TypeInv, Shapes
<1>4. SendBounds'
  <2>1. \A r \in Peers : Len(wire'[r]) <= Capacity + 1
    <3>1. 1 <= Capacity + 1
      BY Bounds
    <3> QED
      BY <1>2, <1>w, <3>1 DEF TypeInv, Shapes, SendBounds
  <2>2. \A r \in Peers : phase'[r] = "connected" => wire'[r] = <<>>
    BY <1>w DEF HandshakeSendHashLength, TypeInv, Shapes, SendBounds
  <2> QED
    BY <2>1, <2>2 DEF HandshakeSendHashLength, TypeInv, Shapes, SendBounds
<1>5. RecvBounds'
  BY DEF HandshakeSendHashLength, TypeInv, Shapes, RecvBounds, Wanted
<1> QED
  BY <1>3, <1>4, <1>5 DEF TypeInv

LEMMA TypeInvHandshakeRecv ==
  ASSUME TypeInv, NEW p \in Peers, HandshakeHandleHashLengthRecv(p)
  PROVE  TypeInv'
<1> DEFINE q == Other(p)
           l == Head(wire[q])
<1>1. q \in Peers /\ q # p
  BY TwoPeers
<1>2. wire[q] \in Units /\ wire[q] # <<>>
  BY <1>1 DEF HandshakeHandleHashLengthRecv, TypeInv, Shapes
<1>3. l \in Nat /\ Tail(wire[q]) \in Units /\ Len(Tail(wire[q])) <= Len(wire[q])
  BY <1>2, HeadTailProperties DEF Units
<1>s. Len(Tail(wire[q])) <= Capacity + 1
  BY <1>1, <1>2, <1>3, Bounds DEF TypeInv, SendBounds, Units
<1>4. wire' = [wire EXCEPT ![q] = Tail(wire[q])] /\ UNCHANGED <<session, sent, accepted, delivered>>
      /\ phase[p] = "recvLength" /\ phase[q] # "connected"
  BY <1>1, <1>2 DEF HandshakeHandleHashLengthRecv, TypeInv, SendBounds
<1>5. CASE ~Accepts(p, l)
  <2>1. /\ phase' = [phase EXCEPT ![p] = "closed"] /\ recv' = [recv EXCEPT ![p] = AtError]
        /\ out' = [out EXCEPT ![p] = <<>>] /\ UNCHANGED hashLength
    BY <1>5 DEF HandshakeHandleHashLengthRecv, Leave
  <2>2. Shapes'
    BY <1>1, <1>3, <1>4, <2>1, EmptyTypes, RecvTypes DEF TypeInv, Shapes
  <2>3. SendBounds'
    BY <1>1, <1>4, <1>s, <2>1 DEF TypeInv, Shapes, SendBounds
  <2>4. RecvBounds'
    BY <2>1, EmptyTypes, RecvTypes DEF TypeInv, Shapes, RecvBounds, Wanted
  <2> QED
    BY <2>2, <2>3, <2>4 DEF TypeInv
<1>6. CASE Accepts(p, l)
  <2>1. AgreedLength(p, l) \in 1..HashLengthMax[p] /\ AgreedLength(p, l) \in Nat
    <3>1. hashLength[p] \in 1..HashLengthMax[p] /\ hashLength[p] \in Nat /\ l <= HashLengthMax[p]
      BY <1>6 DEF Accepts, TypeInv, Shapes, SendBounds
    <3>2. AgreedLength(p, l) = IF hashLength[p] >= l THEN hashLength[p] ELSE l
      BY <1>3, <3>1, MaxOfTwo DEF AgreedLength
    <3> QED
      BY <1>3, <3>1, <3>2, Bounds
  <2>2. /\ hashLength' = [hashLength EXCEPT ![p] = AgreedLength(p, l)]
        /\ phase' = [phase EXCEPT ![p] = "up"] /\ recv' = [recv EXCEPT ![p] = AtHash]
        /\ UNCHANGED out
    BY <1>6 DEF HandshakeHandleHashLengthRecv
  <2>3. Shapes'
    BY <1>1, <1>3, <1>4, <2>1, <2>2, RecvTypes DEF TypeInv, Shapes
  <2>4. SendBounds'
    BY <1>1, <1>4, <1>s, <2>1, <2>2 DEF TypeInv, Shapes, SendBounds
  <2>5. RecvBounds'
    <3>1. Len(AtHash.got) <= AgreedLength(p, l)
      BY <2>1, EmptyTypes, RecvTypes
    <3>2. \A r \in Peers : r # p => Wanted(r)' = Wanted(r)
      BY <2>2 DEF TypeInv, Shapes, Wanted
    <3>3. Wanted(p)' = AgreedLength(p, l)
      BY <2>2, RecvTypes DEF TypeInv, Shapes, Wanted
    <3> QED
      BY <2>2, <3>1, <3>2, <3>3, RecvTypes DEF TypeInv, Shapes, RecvBounds
  <2> QED
    BY <2>3, <2>4, <2>5 DEF TypeInv
<1> QED
  BY <1>5, <1>6

LEMMA TypeInvSend ==
  ASSUME TypeInv, NEW p \in Peers, NEW n \in Ids, NEW m \in Payloads, Send(p, n, m)
  PROVE  TypeInv'
<1> USE DEF receiving
<1>1. Pieces(p, n, m) \in Seq(Units) /\ Pieces(p, n, m) # <<>>
  BY PiecesType DEF TypeInv, SendBounds, Units
<1>2. <<n, m>> \in Messages
  BY DEF Send, Messages
<1>3. /\ sent[p] \in Seq(Messages) /\ Append(sent[p], <<n, m>>) \in Seq(Messages)
      /\ Len(Append(sent[p], <<n, m>>)) = Len(sent[p]) + 1 /\ Len(sent[p]) \in Nat
  BY <1>2, AppendProperties, LenProperties DEF TypeInv, Shapes
<1>4. Shapes'
  BY <1>1, <1>3 DEF Send, TypeInv, Shapes
<1>5. SendBounds'
  <2>1. accepted[p] < Len(sent[p]) + 1
    BY <1>3 DEF TypeInv, Shapes, SendBounds
  <2>2. /\ sent'[p] = Append(sent[p], <<n, m>>) /\ out'[p] # <<>>
        /\ \A r \in Peers : r # p => sent'[r] = sent[r] /\ out'[r] = out[r]
        /\ phase[p] = "up" /\ UNCHANGED <<phase, hashLength, wire, accepted>>
    BY <1>1 DEF Send, TypeInv, Shapes
  <2>3. \A r \in Peers : accepted[r] \in Nat
    BY DEF TypeInv, Shapes
  <2>4. accepted'[p] < Len(sent'[p]) /\ accepted'[p] <= Len(sent'[p])
    BY <1>3, <2>1, <2>2, <2>3
  <2> QED
    BY <2>2, <2>4 DEF TypeInv, SendBounds
<1>6. RecvBounds'
  BY RecvBoundsKept DEF Send, TypeInv
<1> QED
  BY <1>4, <1>5, <1>6 DEF TypeInv

LEMMA TypeInvWriteUnit ==
  ASSUME TypeInv, NEW p \in Peers, WriteUnit(p)
  PROVE  TypeInv'
<1> USE DEF receiving
<1>1. out[p] \in Seq(Units) /\ out[p] # <<>> /\ 1 \in 1..Len(out[p]) /\ Head(out[p]) = out[p][1]
  BY DEF WriteUnit, TypeInv, Shapes
<1>2. out[p][1] \in Units /\ out[p][1] # <<>>
  BY <1>1, ElementOfSeq DEF WriteUnit
<1>3. Head(out[p][1]) \in Nat /\ Tail(out[p][1]) \in Units
  BY <1>2 DEF Units
<1>4. /\ [out[p] EXCEPT ![1] = Tail(out[p][1])] \in Seq(Units)
      /\ Len([out[p] EXCEPT ![1] = Tail(out[p][1])]) = Len(out[p])
  BY <1>1, <1>3, ExceptSeq
<1>5. /\ wire[p] \in Units /\ Append(wire[p], Head(out[p][1])) \in Units
      /\ Len(Append(wire[p], Head(out[p][1]))) <= Capacity + 1
  BY <1>3, Bounds DEF WriteUnit, TypeInv, Shapes, Units
<1>6. /\ wire' = [wire EXCEPT ![p] = Append(wire[p], Head(out[p][1]))]
      /\ out' = [out EXCEPT ![p] = [out[p] EXCEPT ![1] = Tail(out[p][1])]]
  BY <1>1 DEF WriteUnit
<1>7. Shapes'
  <2>1. wire' \in [Peers -> Units] /\ out' \in [Peers -> Seq(Units)]
    BY <1>4, <1>5, <1>6 DEF TypeInv, Shapes
  <2> QED
    BY <2>1 DEF WriteUnit, TypeInv, Shapes
<1>8. SendBounds'
  BY <1>1, <1>5, <1>6 DEF WriteUnit, TypeInv, Shapes, SendBounds
<1>9. RecvBounds'
  BY RecvBoundsKept DEF WriteUnit, TypeInv
<1> QED
  BY <1>7, <1>8, <1>9 DEF TypeInv

LEMMA TypeInvSendReturns ==
  ASSUME TypeInv, NEW p \in Peers, NEW error, out[p] # <<>>, SendReturns(p, error)
  PROVE  TypeInv'
<1> USE DEF receiving
<1>1. Tail(out[p]) \in Seq(Units)
  BY DEF TypeInv, Shapes
<1>2. accepted[p] \in Nat /\ accepted[p] < Len(sent[p]) /\ Len(sent[p]) \in Nat
  BY LenProperties DEF TypeInv, Shapes, SendBounds
<1>3. out' = [out EXCEPT ![p] = Tail(out[p])]
  BY DEF SendReturns
<1>4. \/ UNCHANGED accepted
      \/ out'[p] = <<>> /\ accepted' = [accepted EXCEPT ![p] = accepted[p] + 1]
  BY Zenon DEF SendReturns
<1>5. Shapes'
  <2>1. out' \in [Peers -> Seq(Units)]
    BY <1>1, <1>3 DEF TypeInv, Shapes
  <2>2. accepted' \in [Peers -> Nat]
    <3>1. accepted \in [Peers -> Nat] /\ accepted[p] + 1 \in Nat
      BY <1>2 DEF TypeInv, Shapes
    <3>2. CASE UNCHANGED accepted
      BY <3>1, <3>2
    <3>3. CASE accepted' = [accepted EXCEPT ![p] = accepted[p] + 1]
      BY <3>1, <3>3
    <3> QED
      BY <1>4, <3>2, <3>3
  <2> QED
    BY <2>1, <2>2 DEF SendReturns, TypeInv, Shapes
<1>6. SendBounds'
  <2>1. /\ \A r \in Peers : r # p => out'[r] = out[r] /\ accepted'[r] = accepted[r]
        /\ UNCHANGED <<phase, hashLength, wire, sent>>
    BY <1>3, <1>4 DEF SendReturns, TypeInv, Shapes
  <2>2. phase[p] = "up" /\ accepted'[p] <= Len(sent[p])
    BY <1>2, <1>4 DEF TypeInv, Shapes, SendBounds
  <2>3. out'[p] # <<>> => accepted'[p] < Len(sent[p])
    BY <1>2, <1>4
  <2> QED
    BY <2>1, <2>2, <2>3 DEF TypeInv, SendBounds
<1>7. RecvBounds'
  BY RecvBoundsKept DEF SendReturns, TypeInv
<1> QED
  BY <1>5, <1>6, <1>7 DEF TypeInv

LEMMA TypeInvReadUnit ==
  ASSUME TypeInv, NEW p \in Peers, ReadUnit(p)
  PROVE  TypeInv'
<1> DEFINE q == Other(p)
           got == Append(recv[p].got, Head(wire[q]))
<1>1. q \in Peers /\ q # p
  BY TwoPeers
<1>2. wire[q] \in Units /\ wire[q] # <<>> /\ recv[p] \in Recvs
  BY <1>1 DEF ReadUnit, TypeInv, Shapes
<1>3. /\ Head(wire[q]) \in Nat /\ Tail(wire[q]) \in Units
      /\ Len(wire[q]) \in Nat /\ Len(Tail(wire[q])) = Len(wire[q]) - 1
  BY <1>2, HeadTailProperties DEF Units
<1>4. got \in Units /\ Len(got) = Len(recv[p].got) + 1 /\ Len(recv[p].got) \in Nat
  BY <1>2, <1>3, AppendProperties, LenProperties DEF Units, Recvs
<1>5. /\ recv' = [recv EXCEPT ![p] = [recv[p] EXCEPT !.got = got]]
      /\ wire' = [wire EXCEPT ![q] = Tail(wire[q])]
      /\ UNCHANGED <<session, phase, hashLength, out, sent, accepted, delivered>>
  BY DEF ReadUnit
<1>6. [recv[p] EXCEPT !.got = got] \in Recvs
  BY <1>2, <1>4 DEF Recvs
<1>7. Shapes'
  BY <1>1, <1>3, <1>5, <1>6 DEF TypeInv, Shapes
<1>8. SendBounds'
  <2>1. Len(Tail(wire[q])) <= Capacity + 1
    BY <1>1, <1>3, Bounds DEF TypeInv, SendBounds
  <2> QED
    BY <1>1, <1>2, <1>5, <2>1 DEF TypeInv, Shapes, SendBounds
<1>9. RecvBounds'
  <2>1. Len(got) <= Wanted(p)
    <3>1. Len(recv[p].got) < Wanted(p)
      BY DEF ReadUnit
    <3>2. Wanted(p) \in Nat
      BY <1>2 DEF Wanted, TypeInv, Shapes, Recvs
    <3> QED
      BY <1>4, <3>1, <3>2
  <2>2. /\ \A r \in Peers : recv'[r].state = recv[r].state /\ recv'[r].index = recv[r].index
                            /\ recv'[r].size = recv[r].size
        /\ \A r \in Peers : r # p => recv'[r].got = recv[r].got
        /\ recv'[p].got = got
    BY <1>2, <1>5 DEF TypeInv, Shapes, Recvs
  <2>3. \A r \in Peers : Wanted(r)' = Wanted(r)
    BY <1>5, <2>2 DEF Wanted
  <2> QED
    BY <1>5, <2>1, <2>2, <2>3 DEF TypeInv, RecvBounds
<1> QED
  BY <1>7, <1>8, <1>9 DEF TypeInv

\* recvWorker goes on to next, which is empty and, with a message, of p's table.
LEMMA TypeInvContinue ==
  ASSUME TypeInv, NEW p \in Peers, NEW next \in Recvs, Continue(p, next), recv[p].state # "error",
         next.got = <<>>, next.state \in {"size", "payload"} => next.index \in Table[p],
         delivered' \in [Peers -> Seq(Ids \X Units)]
  PROVE  TypeInv'
<1> USE DEF sending
<1>1. Shapes'
  BY DEF Continue, TypeInv, Shapes
<1>2. SendBounds'
  BY DEF Continue, TypeInv, SendBounds
<1>3. RecvBounds'
  <2>1. recv'[p] = next /\ \A r \in Peers : r # p => recv'[r] = recv[r]
    BY DEF Continue, TypeInv, Shapes
  <2>2. 0 <= Wanted(p)'
    BY <2>1 DEF Continue, Wanted, TypeInv, Shapes, Recvs
  <2>3. Len(next.got) <= Wanted(p)'
    BY <2>2, EmptyTypes
  <2> QED
    BY <2>1, <2>3 DEF Continue, TypeInv, RecvBounds, Wanted
<1> QED
  BY <1>1, <1>2, <1>3 DEF TypeInv

\* The size of a variable size message that has been received.
LEMMA SizeReceived ==
  ASSUME TypeInv, NEW p \in Peers, Received(p, "size")
  PROVE  recv[p].index \in Table[p] /\ recv[p].index \in Ids /\ recv[p].got[1] \in Nat
<1>1. recv[p] \in Recvs /\ recv[p].state = "size" /\ Len(recv[p].got) = 1
  BY DEF Received, Wanted, TypeInv, Shapes
<1>2. recv[p].got[1] \in Nat
  BY <1>1, ElementOfSeq DEF Recvs, Units
<1> QED
  BY <1>1, <1>2 DEF TypeInv, RecvBounds, Ids

LEMMA TypeInvReceiver ==
  ASSUME TypeInv, NEW p \in Peers,
         GetIndexForHash(p) \/ GetMessageSize(p) \/ CallDelegate(p) \/ RecvFails(p)
  PROVE  TypeInv'
<1>1. delivered \in [Peers -> Seq(Ids \X Units)] /\ recv[p] \in Recvs
  BY DEF TypeInv, Shapes
<1>2. CASE GetIndexForHash(p)
  <2>1. recv[p].state # "error" /\ UNCHANGED delivered
    BY <1>2 DEF GetIndexForHash, Received
  <2>2. CASE Continue(p, AtError)
    BY <1>1, <2>1, <2>2, RecvTypes, TypeInvContinue
  <2>3. ASSUME NEW n \in Known(p),
               Continue(p, IF IsVariable[n] THEN In("size", n, 0) ELSE In("payload", n, Size[n]))
        PROVE  TypeInv'
    <3>1. n \in Table[p] /\ n \in Ids /\ Size[n] \in Nat
      BY LinkAssumption DEF Known, Ids
    <3>2. In("size", n, 0).index = n /\ In("payload", n, Size[n]).index = n
      BY DEF In
    <3>3. CASE IsVariable[n]
      BY <1>1, <2>1, <2>3, <3>1, <3>2, <3>3, RecvTypes, TypeInvContinue
    <3>4. CASE ~IsVariable[n]
      BY <1>1, <2>1, <2>3, <3>1, <3>2, <3>4, RecvTypes, TypeInvContinue
    <3> QED
      BY <3>3, <3>4
  <2> QED
    BY <1>2, <2>2, <2>3 DEF GetIndexForHash
<1>3. CASE GetMessageSize(p)
  <2> DEFINE n == recv[p].index
             s == recv[p].got[1]
  <2>1. recv[p].state # "error" /\ UNCHANGED delivered
    BY <1>3 DEF GetMessageSize, Received
  <2>2. n \in Table[p] /\ n \in Ids /\ s \in Nat
    BY <1>3, SizeReceived DEF GetMessageSize
  <2>3. Continue(p, AtError) \/ Continue(p, In("payload", n, s))
    BY <1>3 DEF GetMessageSize
  <2>4. In("payload", n, s).index = n
    BY DEF In
  <2> QED
    BY <1>1, <2>1, <2>2, <2>3, <2>4, RecvTypes, TypeInvContinue
<1>4. CASE CallDelegate(p)
  <2>1. recv[p].state = "payload" /\ recv[p].index \in Ids
    BY <1>4 DEF CallDelegate, Received, TypeInv, RecvBounds, Ids
  <2>2. <<recv[p].index, recv[p].got>> \in Ids \X Units
    BY <1>1, <2>1 DEF Recvs
  <2>3. Append(delivered[p], <<recv[p].index, recv[p].got>>) \in Seq(Ids \X Units)
    BY <1>1, <2>2, AppendProperties
  <2>4. delivered' \in [Peers -> Seq(Ids \X Units)] /\ Continue(p, AtHash)
    BY <1>1, <1>4, <2>3 DEF CallDelegate
  <2> QED
    BY <2>1, <2>4, RecvTypes, TypeInvContinue
<1>5. CASE RecvFails(p)
  BY <1>1, <1>5, RecvTypes, TypeInvContinue DEF RecvFails
<1> QED
  BY <1>2, <1>3, <1>4, <1>5

LEMMA TypeInvStep == TypeInv /\ [Next]_vars => TypeInv'
<1> SUFFICES ASSUME TypeInv, [Next]_vars PROVE TypeInv'
  OBVIOUS
<1>1. CASE Connect
  BY <1>1, TypeInvConnect DEF TypeInv, Shapes, SendBounds, Leftover
<1>2. ASSUME NEW p \in Peers, InitEndpoint(p) \/ Close(p) PROVE TypeInv'
  BY <1>2, TypeInvInitEndpoint, TypeInvClose
<1>3. ASSUME NEW p \in Peers, HandshakeSendHashLength(p) \/ HandshakeHandleHashLengthRecv(p)
      PROVE  TypeInv'
  BY <1>3, TypeInvHandshakeSend, TypeInvHandshakeRecv
<1>4. ASSUME NEW p \in Peers, NEW n \in Ids, NEW m \in Payloads, Send(p, n, m) PROVE TypeInv'
  BY <1>4, TypeInvSend
<1>5. ASSUME NEW p \in Peers, Sender(p) \/ PieceFails(p) PROVE TypeInv'
  BY <1>5, TypeInvWriteUnit, TypeInvSendReturns DEF Sender, PieceSent, PieceFails
<1>6. ASSUME NEW p \in Peers, Receiver(p) \/ RecvFails(p) PROVE TypeInv'
  BY <1>6, TypeInvReadUnit, TypeInvReceiver DEF Receiver
<1>7. CASE UNCHANGED vars
  BY <1>7 DEF vars, sending, receiving, TypeInv, Shapes, SendBounds, RecvBounds, Wanted
<1> QED
  BY <1>1, <1>2, <1>3, <1>4, <1>5, <1>6, <1>7 DEF Next

LEMMA TypeInvariant == Spec => []TypeInv
  BY TypeInvInit, TypeInvStep, PTL DEF Spec

LEMMA FlagsInvariant == Spec => []Flags
<1>1. Init => Flags
  BY DEF Init, All, Flags
<1>2. Flags /\ [Next]_vars => Flags'
  <2> SUFFICES ASSUME Flags, [Next]_vars PROVE Flags'
    OBVIOUS
  <2> USE DEF Flags
  <2>1. CASE Connect
    BY <2>1 DEF Connect, All
  <2>2. ASSUME NEW p \in Peers, NEW n, NEW m, Send(p, n, m) PROVE Flags'
    BY <2>2 DEF Send
  <2>3. ASSUME NEW p \in Peers, PieceSent(p) \/ PieceFails(p) PROVE Flags'
    <3>1. UNCHANGED reliable
      BY <2>3 DEF PieceSent, PieceFails, SendReturns
    <3>2. writable' \in [Peers -> BOOLEAN]
      BY <2>3 DEF PieceSent, PieceFails
    <3>3. \A e \in BOOLEAN : Collected(p, e) \in BOOLEAN
      BY DEF Collected
    <3>4. errorCollector' = [errorCollector EXCEPT ![p] = Collected(p, FALSE)]
          \/ errorCollector' = [errorCollector EXCEPT ![p] = Collected(p, TRUE)]
      BY <2>3 DEF PieceSent, PieceFails, SendReturns
    <3>5. errorCollector' \in [Peers -> BOOLEAN]
      BY <3>3, <3>4
    <3> QED
      BY <3>1, <3>2, <3>5
  <2>4. ASSUME NEW p \in Peers,
               \/ InitEndpoint(p) \/ Close(p) \/ HandshakeSendHashLength(p)
               \/ HandshakeHandleHashLengthRecv(p) \/ WriteUnit(p) \/ Receiver(p) \/ RecvFails(p)
               \/ UNCHANGED vars
        PROVE  UNCHANGED <<reliable, writable, errorCollector>>
    BY <2>4 DEF InitEndpoint, Close, HandshakeSendHashLength, HandshakeHandleHashLengthRecv, WriteUnit,
                Receiver, ReadUnit, GetIndexForHash, GetMessageSize, CallDelegate, RecvFails, Continue,
                sending, vars
  <2> QED
    BY <2>1, <2>2, <2>3, <2>4, TwoPeers DEF Next, Sender, vars, sending
<1> QED
  BY <1>1, <1>2, PTL DEF Spec

\* The state of every execution is of the declared shape: at most Capacity units of
\* frames and one of the handshake are in flight, a peer sends and receives messages
\* only while it is up, and no recv of recvWorker gets more than it asked for.
THEOREM Typing == Spec => []TypeOK
  BY TypeInvariant, FlagsInvariant, TypeParts, PTL

(***************************************************************************)
(* The receive buffer.  Fixed sizes are bounded by the table's largest     *)
(* message, received ones by the check in getMessageSize.                  *)
(***************************************************************************)

LEMMA BufferContinue ==
  ASSUME TypeInv, RecvFitsBuffer, NEW p \in Peers, NEW next, Continue(p, next),
         next.state = "payload" => next.size <= MaxMessageSize(p)
  PROVE  RecvFitsBuffer'
<1>1. recv'[p] = next /\ \A r \in Peers : r # p => recv'[r] = recv[r]
  BY DEF Continue, TypeInv, Shapes
<1> QED
  BY <1>1 DEF RecvFitsBuffer

LEMMA BufferReceiver ==
  ASSUME TypeInv, RecvFitsBuffer, NEW p \in Peers,
         GetIndexForHash(p) \/ GetMessageSize(p) \/ CallDelegate(p) \/ RecvFails(p)
  PROVE  RecvFitsBuffer'
<1>1. /\ AtError.state # "payload" /\ AtHash.state # "payload"
      /\ \A n, k : /\ In("size", n, k).state # "payload"
                   /\ In("payload", n, k).size = k
  BY DEF AtError, AtHash, In
<1>2. CASE GetIndexForHash(p)
  <2>1. \A n \in Known(p) : Size[n] <= MaxMessageSize(p)
    BY Largest DEF Known
  <2>2. PICK next : /\ Continue(p, next)
                    /\ \/ next = AtError
                       \/ \E n \in Known(p) : next = In("size", n, 0) \/ next = In("payload", n, Size[n])
    BY <1>2 DEF GetIndexForHash
  <2> QED
    BY <1>1, <2>1, <2>2, BufferContinue
<1>3. CASE GetMessageSize(p)
  <2> DEFINE n == recv[p].index
             s == recv[p].got[1]
  <2>1. n \in Table[p] /\ n \in Ids /\ s \in Nat
    BY <1>3, SizeReceived DEF GetMessageSize
  <2>2. \/ Continue(p, AtError)
        \/ s <= Size[n] /\ Continue(p, In("payload", n, s))
    <3>1. Size[n] \in Nat
      BY <2>1, LinkAssumption
    <3> QED
      BY <1>3, <2>1, <3>1 DEF GetMessageSize, TooLarge
  <2>3. s <= Size[n] => s <= MaxMessageSize(p)
    BY <2>1, Largest, LinkAssumption
  <2> QED
    BY <1>1, <2>2, <2>3, BufferContinue
<1>4. CASE CallDelegate(p) \/ RecvFails(p)
  BY <1>1, <1>4, BufferContinue DEF CallDelegate, RecvFails
<1> QED
  BY <1>2, <1>3, <1>4

LEMMA BufferStep == TypeInv /\ RecvFitsBuffer /\ [Next]_vars => RecvFitsBuffer'
<1> SUFFICES ASSUME TypeInv, RecvFitsBuffer, [Next]_vars PROVE RecvFitsBuffer'
  OBVIOUS
<1>1. CASE Connect
  BY <1>1 DEF Connect, All, AtError, In, RecvFitsBuffer
<1>2. ASSUME NEW p \in Peers,
             GetIndexForHash(p) \/ GetMessageSize(p) \/ CallDelegate(p) \/ RecvFails(p)
      PROVE  RecvFitsBuffer'
  BY <1>2, BufferReceiver
<1>3. ASSUME NEW p \in Peers, ReadUnit(p)
      PROVE  RecvFitsBuffer'
  BY <1>3 DEF ReadUnit, TypeInv, Shapes, Recvs, RecvFitsBuffer
<1>4. ASSUME NEW p \in Peers, Close(p) \/ HandshakeHandleHashLengthRecv(p)
      PROVE  RecvFitsBuffer'
  <2>1. \A r \in Peers : recv'[r] = recv[r] \/ recv'[r] = AtError \/ recv'[r] = AtHash
    BY <1>4 DEF Close, HandshakeHandleHashLengthRecv, Leave, TypeInv, Shapes
  <2> QED
    BY <2>1 DEF RecvFitsBuffer, AtError, AtHash, In
<1>5. ASSUME NEW p \in Peers,
             \/ InitEndpoint(p) \/ HandshakeSendHashLength(p) \/ Sender(p) \/ PieceFails(p)
             \/ \E n \in Ids, m \in Payloads : Send(p, n, m)
      PROVE  RecvFitsBuffer'
  BY <1>5 DEF InitEndpoint, HandshakeSendHashLength, Sender, PieceFails, WriteUnit, PieceSent,
              SendReturns, Send, receiving, RecvFitsBuffer
<1>6. CASE UNCHANGED vars
  BY <1>6 DEF vars, receiving, RecvFitsBuffer
<1> QED
  BY <1>1, <1>2, <1>3, <1>4, <1>5, <1>6 DEF Next, Receiver

\* recvWorker never asks for a payload that the buffer of getMaxMessageSize does not hold,
\* whatever the peer, or a connection that lost units, makes it take for a size.
THEOREM PayloadsFit == Spec => []RecvFitsBuffer
<1>1. Init => RecvFitsBuffer
  BY DEF Init, All, AtError, In, RecvFitsBuffer
<1> QED
  BY <1>1, BufferStep, TypeInvariant, PTL DEF Spec

(***************************************************************************)
(* The handshake.  The length a peer has sent stays at the head of what is *)
(* in flight until the other has read it, and a peer that is up has taken  *)
(* the longer of the two.                                                  *)
(***************************************************************************)

Greeting(p, q) ==
    /\ phase[p] = "up" => phase[q] # "connected"
    /\ phase[p] = "recvLength" /\ phase[q] \in {"connected", "recvLength"} =>
          wire[p] # <<>> /\ Head(wire[p]) = hashLength[p]
    /\ phase[p] = "up" /\ phase[q] = "recvLength" =>
          wire[p] # <<>> /\ hashLength[p] = Max({hashLength[q], Head(wire[p])})
    /\ phase[p] = "up" /\ phase[q] = "up" => hashLength[p] = hashLength[q]

\* A peer's length is never below the hashLengthMin it was initialised with.
LongEnough == \A p \in Peers : \E l \in MinLengths[p] : l <= hashLength[p]

Agreement == LongEnough /\ \A p \in Peers : Greeting(p, Other(p))

LEMMA GreetingKept ==
  ASSUME NEW p \in Peers, NEW q \in Peers, Greeting(p, q),
         phase'[p] = phase[p] \/ phase'[p] = "closed", phase'[q] = phase[q] \/ phase'[q] = "closed",
         phase'[p] # "closed" => hashLength'[p] = hashLength[p],
         phase'[q] # "closed" => hashLength'[q] = hashLength[q],
         /\ phase'[p] # "closed" /\ phase'[q] \in {"connected", "recvLength"} /\ wire[p] # <<>>
         => wire'[p] # <<>> /\ Head(wire'[p]) = Head(wire[p])
  PROVE  Greeting(p, q)'
  BY DEF Greeting

LEMMA GreetingSent ==
  ASSUME TypeInv, NEW p \in Peers, NEW q \in Peers, p # q, Greeting(p, q), Greeting(q, p),
         HandshakeSendHashLength(p)
  PROVE  Greeting(p, q)' /\ Greeting(q, p)'
<1>1. wire[p] = <<>> /\ hashLength[p] \in Nat
  BY DEF HandshakeSendHashLength, TypeInv, SendBounds, Shapes
<1>2. wire'[p] = Append(wire[p], hashLength[p]) /\ wire'[q] = wire[q]
  BY DEF HandshakeSendHashLength, TypeInv, Shapes
<1>3. wire'[p] # <<>> /\ Head(wire'[p]) = hashLength[p]
  BY <1>1, <1>2
<1>4. /\ phase[p] = "connected" /\ phase'[p] = "recvLength" /\ phase'[q] = phase[q]
      /\ UNCHANGED hashLength
  BY DEF HandshakeSendHashLength, TypeInv, Shapes
<1> QED
  BY <1>2, <1>3, <1>4 DEF Greeting

LEMMA GreetingReceived ==
  ASSUME TypeInv, NEW p \in Peers, NEW q \in Peers, p # q, q = Other(p),
         Greeting(p, q), Greeting(q, p), HandshakeHandleHashLengthRecv(p)
  PROVE  Greeting(p, q)' /\ Greeting(q, p)'
<1>1. /\ phase[p] = "recvLength" /\ wire[q] # <<>> /\ phase'[q] = phase[q]
      /\ wire'[p] = wire[p] /\ hashLength'[q] = hashLength[q]
  BY DEF HandshakeHandleHashLengthRecv, Leave, TypeInv, Shapes
<1>2. phase[q] # "connected"
  BY <1>1 DEF TypeInv, SendBounds
<1>3. CASE phase'[p] = "closed"
  BY <1>3 DEF Greeting
<1>4. CASE /\ phase'[p] = "up" /\ hashLength'[p] = Max({hashLength[p], Head(wire[q])})
  BY <1>1, <1>2, <1>4 DEF Greeting
<1>5. \/ phase'[p] = "closed"
      \/ phase'[p] = "up" /\ hashLength'[p] = Max({hashLength[p], Head(wire[q])})
  BY DEF HandshakeHandleHashLengthRecv, Leave, AgreedLength, TypeInv, Shapes
<1> QED
  BY <1>3, <1>4, <1>5

LEMMA LongEnoughSet ==
  ASSUME hashLength \in [Peers -> Nat], LongEnough, NEW p \in Peers, NEW h \in Nat,
         hashLength' = [hashLength EXCEPT ![p] = h],
         hashLength[p] <= h \/ h \in MinLengths[p]
  PROVE  LongEnough'
<1>1. ASSUME NEW r \in Peers, r # p PROVE \E l \in MinLengths[r] : l <= hashLength'[r]
  BY <1>1 DEF LongEnough
<1>2. hashLength'[p] = h
  OBVIOUS
<1>3. \E l \in MinLengths[p] : l <= h
  <2>1. PICK l \in MinLengths[p] : l <= hashLength[p]
    BY DEF LongEnough
  <2>2. PICK k \in Nat : k = hashLength[p]
    OBVIOUS
  <2>3. l \in Nat
    BY MinLengthsType
  <2>4. CASE k <= h
    <3>1. l <= h
      BY <2>1, <2>2, <2>3, <2>4
    <3> QED
      BY <3>1
  <2>5. CASE h \in MinLengths[p]
    BY <2>5
  <2> QED
    BY <2>2, <2>4, <2>5
<1> QED
  BY <1>1, <1>2, <1>3 DEF LongEnough

LEMMA LongEnoughKept ==
  ASSUME TypeInv, LongEnough, [Next]_vars
  PROVE  LongEnough'
<1>t. hashLength \in [Peers -> Nat]
  BY DEF TypeInv, Shapes
<1>1. ASSUME NEW p \in Peers, InitEndpoint(p) PROVE LongEnough'
  <2>1. PICK l \in MinLengths[p] : hashLength' = [hashLength EXCEPT ![p] = l]
    BY <1>1 DEF InitEndpoint
  <2> QED
    BY <1>t, <2>1, MinLengthsType, LongEnoughSet
<1>2. ASSUME NEW p \in Peers, HandshakeHandleHashLengthRecv(p) PROVE LongEnough'
  <2> DEFINE h == Head(wire[Other(p)])
  <2>1. Other(p) \in Peers
    BY TwoPeers
  <2>2. h \in Nat /\ hashLength[p] \in Nat
    <3>1. wire[Other(p)] \in Seq(Nat) /\ wire[Other(p)] # <<>>
      BY <1>2, <2>1 DEF HandshakeHandleHashLengthRecv, TypeInv, Shapes, Units
    <3> QED
      BY <1>t, <3>1
  <2>3. AgreedLength(p, h) \in Nat /\ AgreedLength(p, h) >= hashLength[p]
    BY <2>2, MaxOfTwo DEF AgreedLength
  <2>4. \/ hashLength' = hashLength
        \/ hashLength' = [hashLength EXCEPT ![p] = AgreedLength(p, h)]
    BY <1>2 DEF HandshakeHandleHashLengthRecv
  <2>5. CASE hashLength' = hashLength
    BY <2>5 DEF LongEnough
  <2>6. CASE hashLength' = [hashLength EXCEPT ![p] = AgreedLength(p, h)]
    <3> DEFINE a == AgreedLength(p, h)
    <3>1. a \in Nat /\ hashLength[p] <= a
      BY <2>2, <2>3
    <3> HIDE DEF a
    <3>2. hashLength' = [hashLength EXCEPT ![p] = a]
      BY <2>6 DEF a
    <3> QED
      BY <1>t, <3>1, <3>2, LongEnoughSet
  <2> QED
    BY <2>4, <2>5, <2>6
<1>3. ASSUME \/ Connect \/ UNCHANGED vars
             \/ \E p \in Peers :
                   \/ Close(p) \/ HandshakeSendHashLength(p) \/ Sender(p) \/ PieceFails(p)
                   \/ (\E n \in Ids, m \in Payloads : Send(p, n, m)) \/ Receiver(p) \/ RecvFails(p)
      PROVE  UNCHANGED hashLength
  <2>1. CASE Connect \/ UNCHANGED vars
    BY <2>1 DEF Connect, vars
  <2>2. ASSUME NEW p \in Peers, Close(p) \/ HandshakeSendHashLength(p) PROVE UNCHANGED hashLength
    BY <2>2 DEF Close, HandshakeSendHashLength
  <2>3. ASSUME NEW p \in Peers, Sender(p) \/ PieceFails(p) PROVE UNCHANGED hashLength
    BY <2>3 DEF Sender, WriteUnit, PieceSent, PieceFails, SendReturns
  <2>4. ASSUME NEW p \in Peers, \E n \in Ids, m \in Payloads : Send(p, n, m) PROVE UNCHANGED hashLength
    BY <2>4 DEF Send
  <2>5. ASSUME NEW p \in Peers, Receiver(p) \/ RecvFails(p) PROVE UNCHANGED hashLength
    BY <2>5 DEF Receiver, ReadUnit, GetIndexForHash, GetMessageSize, CallDelegate, RecvFails, Continue
  <2> QED
    BY <1>3, <2>1, <2>2, <2>3, <2>4, <2>5
<1>4. UNCHANGED hashLength => LongEnough'
  BY DEF LongEnough
<1> QED
  BY <1>1, <1>2, <1>3, <1>4 DEF Next

LEMMA AgreementInit == Init => Agreement
<1>1. Init => LongEnough
  <2> SUFFICES ASSUME Init, NEW p \in Peers PROVE \E l \in MinLengths[p] : l <= hashLength[p]
    BY DEF LongEnough
  <2>1. hashLength[p] \in MinLengths[p] /\ hashLength[p] \in Nat
    BY LinkAssumption DEF Init
  <2> QED
    BY <2>1
<1> QED
  BY <1>1, TwoPeers DEF Init, All, Agreement, Greeting

LEMMA AgreementStep == TypeInv /\ Agreement /\ [Next]_vars => Agreement'
<1> SUFFICES ASSUME TypeInv, Agreement, [Next]_vars PROVE \A p \in Peers : Greeting(p, Other(p))'
  BY LongEnoughKept DEF Agreement
<1> SUFFICES ASSUME NEW p \in Peers PROVE Greeting(p, Other(p))'
  OBVIOUS
<1> DEFINE q == Other(p)
<1>p. /\ q \in Peers /\ q # p /\ Other(q) = p /\ \A r \in Peers : r = p \/ r = q
  BY TwoPeers
<1>g. Greeting(p, q) /\ Greeting(q, p)
  BY <1>p DEF Agreement
<1> HIDE DEF q
<1>1. CASE Connect
  BY <1>1, <1>p DEF Connect, All, Greeting
<1>2. ASSUME NEW r \in Peers, InitEndpoint(r) PROVE Greeting(p, q)'
  BY <1>2, <1>p, <1>g, GreetingKept DEF InitEndpoint, sending, TypeInv, Shapes
<1>3. ASSUME NEW r \in Peers, Close(r) PROVE Greeting(p, q)'
  BY <1>3, <1>p, <1>g, GreetingKept DEF Close, Leave, TypeInv, Shapes
<1>4. ASSUME NEW r \in Peers, HandshakeSendHashLength(r) PROVE Greeting(p, q)'
  BY <1>4, <1>p, <1>g, GreetingSent
<1>5. ASSUME NEW r \in Peers, HandshakeHandleHashLengthRecv(r) PROVE Greeting(p, q)'
  BY <1>5, <1>p, <1>g, GreetingReceived DEF q
<1>6. ASSUME NEW r \in Peers, WriteUnit(r) PROVE Greeting(p, q)'
  <2>1. CASE r = p
    <3>1. wire[p] \in Units /\ out[p] \in Seq(Units) /\ out[p] # <<>>
      BY <1>6, <2>1 DEF WriteUnit, TypeInv, Shapes
    <3>2. Head(Head(out[p])) \in Nat
      BY <1>6, <2>1, <3>1 DEF WriteUnit, Units
    <3> DEFINE u == Head(Head(out[p]))
    <3> HIDE DEF u
    <3>3. wire[p] # <<>> => /\ Append(wire[p], u) # <<>>
                            /\ Head(Append(wire[p], u)) = Head(wire[p])
      <4>1. u \in Nat /\ wire[p] \in Seq(Nat)
        BY <3>1, <3>2 DEF Units, u
      <4>2. Append(wire[p], u) # <<>>
        BY <4>1, AppendProperties
      <4>3. Head(Append(wire[p], u)) = IF wire[p] = <<>> THEN u ELSE Head(wire[p])
        BY <4>1, HeadTailAppend
      <4> QED
        BY <4>2, <4>3
    <3>4. wire'[p] = Append(wire[p], u) /\ UNCHANGED <<phase, hashLength>>
      BY <1>6, <2>1 DEF WriteUnit, TypeInv, Shapes, u
    <3> QED
      BY <1>p, <1>g, <3>3, <3>4, GreetingKept
  <2>2. CASE r # p
    BY <1>6, <1>p, <1>g, <2>2, GreetingKept DEF WriteUnit, TypeInv, Shapes
  <2> QED
    BY <2>1, <2>2
<1>7. ASSUME NEW r \in Peers, ReadUnit(r) PROVE Greeting(p, q)'
  <2>1. recv[r] \in Recvs /\ Wanted(r) \in Nat
    BY DEF TypeInv, Shapes, Recvs, Wanted
  <2>2. Len(recv[r].got) \in Nat
    BY <2>1 DEF Recvs, Units
  <2>3. Wanted(r) # 0
    BY <1>7, <2>1, <2>2 DEF ReadUnit
  <2>4. phase[r] = "up"
    BY <2>3 DEF TypeInv, RecvBounds, Wanted
  <2>5. /\ UNCHANGED <<phase, hashLength>>
        /\ \A s \in Peers : s # Other(r) => wire'[s] = wire[s]
    BY <1>7 DEF ReadUnit, TypeInv, Shapes
  <2>6. CASE r = p
    BY <1>p, <1>g, <2>4, <2>5, <2>6 DEF Greeting, q
  <2>7. CASE r = q
    BY <1>g, <2>4, <2>5, <2>7 DEF Greeting
  <2> QED
    BY <1>p, <2>6, <2>7
<1>8. CASE \/ UNCHANGED vars
           \/ \E r \in Peers :
                 \/ (\E n \in Ids, m \in Payloads : Send(r, n, m)) \/ PieceSent(r) \/ PieceFails(r)
                 \/ GetIndexForHash(r) \/ GetMessageSize(r) \/ CallDelegate(r) \/ RecvFails(r)
  <2>1. UNCHANGED <<phase, hashLength, wire>>
    <3>1. CASE UNCHANGED vars
      BY <3>1 DEF vars, sending
    <3>2. ASSUME NEW r \in Peers, \/ \E n \in Ids, m \in Payloads : Send(r, n, m)
                                  \/ PieceSent(r) \/ PieceFails(r)
          PROVE  UNCHANGED <<phase, hashLength, wire>>
      BY <3>2 DEF Send, PieceSent, PieceFails, SendReturns
    <3>3. ASSUME NEW r \in Peers, GetIndexForHash(r) \/ GetMessageSize(r) \/ CallDelegate(r) \/ RecvFails(r)
          PROVE  UNCHANGED <<phase, hashLength, wire>>
      BY <3>3 DEF GetIndexForHash, GetMessageSize, CallDelegate, RecvFails, Continue, sending
    <3> QED
      BY <1>8, <3>1, <3>2, <3>3
  <2> QED
    BY <1>g, <2>1 DEF Greeting, q
<1> QED
  BY <1>1, <1>2, <1>3, <1>4, <1>5, <1>6, <1>7, <1>8 DEF Next, Sender, Receiver, q

LEMMA AgreementInvariant == Spec => []Agreement
  BY AgreementInit, AgreementStep, TypeInvariant, PTL DEF Spec

\* When initiate has succeeded on both sides the peers use hashes of the same length,
\* whichever read the other's length first and whatever was left from earlier sessions.
THEOREM LengthsAgree == Spec => []HashLengthAgreement
<1>1. Agreement => HashLengthAgreement
  BY TwoPeers DEF Agreement, Greeting, HashLengthAgreement
<1> QED
  BY <1>1, AgreementInvariant, PTL

(***************************************************************************)
(* Framing.  What p writes on a connection is a stream: its hash length,   *)
(* then one frame per send(), the hash, the size if it is variable, and    *)
(* the payload.  b[i] is where frame i ends.                               *)
(***************************************************************************)

Sized(n) == IF IsVariable[n] THEN 1 ELSE 0

FrameLength(x, l) == l + Sized(x[1]) + Len(x[2])

FrameAt(stream, o, x, l) ==
    /\ \A j \in 1..l : stream[o + j] = Hash[x[1]][j]
    /\ IsVariable[x[1]] => stream[o + l + 1] = Len(x[2])
    /\ \A j \in 1..Len(x[2]) : stream[o + l + Sized(x[1]) + j] = x[2][j]

Framed(stream, b, s, l) ==
    /\ stream \in Units /\ b \in [Nat -> Nat]
    /\ b[0] = 1 /\ Len(stream) = b[Len(s)]
    /\ \A i \in 1..Len(s) : /\ b[i] = b[i - 1] + FrameLength(s[i], l)
                            /\ FrameAt(stream, b[i - 1], s[i], l)
    /\ \A i, j \in 0..Len(s) : i < j => b[i] < b[j]

IsFrame(f, x, l) == f \in Units /\ Len(f) = FrameLength(x, l) /\ FrameAt(f, 0, x, l)

\* Len and \o under names that the solver does not unfold.
Count(s)   == Len(s)
Join(s, t) == s \o t

\* The units of the buffers of a send(), at most three of them.
Flat(buffers) ==
    IF Count(buffers) = 0 THEN <<>>
    ELSE IF Count(buffers) = 1 THEN buffers[1]
    ELSE IF Count(buffers) = 2 THEN Join(buffers[1], buffers[2])
    ELSE Join(buffers[1], Join(buffers[2], buffers[3]))

LEMMA MessageType ==
  ASSUME NEW x \in Messages
  PROVE  x[1] \in Ids /\ x[2] \in Units /\ x[2] \in Payloads /\ Len(x[2]) \in Nat /\ Sized(x[1]) \in 0..1
<1>1. x[1] \in Ids /\ x[2] \in Payloads
  BY DEF Messages
<1> QED
  BY <1>1, LinkAssumption DEF Units, Sized

LEMMA TailOfConcat ==
  ASSUME NEW s \in Units, NEW t \in Units, s # <<>>
  PROVE  /\ s \o t # <<>> /\ Head(s \o t) = Head(s) /\ Tail(s \o t) = Tail(s) \o t
<1>1. /\ s \o t \in Seq(Nat) /\ Len(s \o t) = Len(s) + Len(t) /\ Len(s) \in Nat \ {0} /\ Len(t) \in Nat
      /\ \A i \in 1..Len(s) + Len(t) : (s \o t)[i] = IF i <= Len(s) THEN s[i] ELSE t[i - Len(s)]
  BY ConcatProperties, EmptySeq DEF Units
<1>2. /\ Tail(s) \in Seq(Nat) /\ Len(Tail(s)) = Len(s) - 1
      /\ \A i \in 1..Len(s) - 1 : Tail(s)[i] = s[i + 1]
  BY HeadTailProperties DEF Units
<1>3. s \o t # <<>> /\ Head(s \o t) = Head(s)
  BY <1>1 DEF Units
<1>4. /\ Tail(s \o t) \in Seq(Nat) /\ Len(Tail(s \o t)) = Len(s) + Len(t) - 1
      /\ \A i \in 1..Len(s) + Len(t) - 1 : Tail(s \o t)[i] = (s \o t)[i + 1]
  BY <1>1, <1>3, HeadTailProperties
<1>5. /\ Tail(s) \o t \in Seq(Nat) /\ Len(Tail(s) \o t) = Len(s) - 1 + Len(t)
      /\ \A i \in 1..Len(s) - 1 + Len(t) :
            (Tail(s) \o t)[i] = IF i <= Len(s) - 1 THEN Tail(s)[i] ELSE t[i - (Len(s) - 1)]
  BY <1>2, ConcatProperties DEF Units
<1>6. \A i \in 1..Len(s) + Len(t) - 1 : Tail(s \o t)[i] = (Tail(s) \o t)[i]
  BY <1>1, <1>2, <1>4, <1>5
<1>7. Tail(s \o t) = Tail(s) \o t
  BY <1>1, <1>4, <1>5, <1>6, SeqEqual
<1> QED
  BY <1>3, <1>7

LEMMA Joins ==
  ASSUME NEW s \in Units, NEW t \in Units
  PROVE  /\ Join(s, t) \in Units /\ Count(s) \in Nat /\ Count(t) \in Nat
         /\ Count(Join(s, t)) = Count(s) + Count(t)
         /\ \A i \in 1..Count(s) : Join(s, t)[i] = s[i]
         /\ \A i \in 1..Count(t) : Join(s, t)[Count(s) + i] = t[i]
  BY ConcatProperties, LenProperties DEF Units, Join, Count

LEMMA JoinsOf ==
  ASSUME NEW s \in Units, NEW t \in Units, NEW i \in Nat, NEW j \in Nat, Count(s) = i, Count(t) = j
  PROVE  /\ Join(s, t) \in Units /\ Count(Join(s, t)) = i + j
         /\ \A k \in 1..i : Join(s, t)[k] = s[k]
         /\ \A k \in 1..j : Join(s, t)[i + k] = t[k]
  BY Joins

LEMMA Buffers ==
  ASSUME NEW o \in Seq(Units), Count(o) <= 3
  PROVE  /\ Count(o) = 0 \/ Count(o) = 1 \/ Count(o) = 2 \/ Count(o) = 3
         /\ Count(o) = 0 <=> o = <<>>
         /\ \A i \in 1..Count(o) : o[i] \in Units
         /\ Flat(o) \in Units
<1>1. \A i \in 1..Count(o) : o[i] \in Units
  BY ElementOfSeq DEF Count
<1>2. Count(o) \in Nat /\ (Count(o) = 0 <=> o = <<>>)
  BY LenProperties, EmptySeq DEF Count
<1>3. Count(o) = 0 \/ Count(o) = 1 \/ Count(o) = 2 \/ Count(o) = 3
  BY <1>2
<1>j. \A s, t \in Units : Join(s, t) \in Units
  BY Joins
<1>4. Flat(o) \in Units
  <2>1. CASE Count(o) = 0
    BY <2>1, EmptyTypes DEF Flat
  <2>2. CASE Count(o) = 1
    BY <1>1, <2>2 DEF Flat
  <2>3. CASE Count(o) = 2
    <3>1. o[1] \in Units /\ o[2] \in Units
      BY <1>1, <2>3
    <3> QED
      BY <1>j, <2>3, <3>1 DEF Flat
  <2>4. CASE Count(o) = 3
    <3>1. o[1] \in Units /\ o[2] \in Units /\ o[3] \in Units
      BY <1>1, <2>4
    <3>2. Flat(o) = Join(o[1], Join(o[2], o[3]))
      BY <2>4 DEF Flat
    <3> QED
      BY <1>j, <3>1, <3>2
  <2> QED
    BY <1>3, <2>1, <2>2, <2>3, <2>4
<1> QED
  BY <1>1, <1>2, <1>3, <1>4

\* mbr.send takes the next unit.
LEMMA FlatWrite ==
  ASSUME NEW o \in Seq(Units), Count(o) <= 3, o # <<>>, o[1] # <<>>
  PROVE  /\ Flat(o) # <<>> /\ Head(Flat(o)) = Head(o[1])
         /\ Flat([o EXCEPT ![1] = Tail(o[1])]) = Tail(Flat(o))
<1> DEFINE w == [o EXCEPT ![1] = Tail(o[1])]
<1>1. /\ Count(o) = 1 \/ Count(o) = 2 \/ Count(o) = 3
      /\ \A i \in 1..Count(o) : o[i] \in Units
  BY Buffers
<1>2. o[1] \in Units /\ 1 \in 1..Count(o)
  BY <1>1
<1>3. Tail(o[1]) \in Units
  BY <1>2, HeadTailProperties DEF Units
<1>4. Count(w) = Count(o) /\ \A i \in 1..Count(o) : w[i] = IF i = 1 THEN Tail(o[1]) ELSE o[i]
  BY <1>2, <1>3, ExceptSeq DEF Count
<1> HIDE DEF w
<1>t. \A s, t \in Units : s # <<>> => /\ Join(s, t) # <<>> /\ Head(Join(s, t)) = Head(s)
                                      /\ Tail(Join(s, t)) = Join(Tail(s), t)
  BY TailOfConcat DEF Join
<1>5. CASE Count(o) = 1
  BY <1>4, <1>5 DEF Flat, w
<1>6. CASE Count(o) = 2
  <2>1. o[2] \in Units /\ w[1] = Tail(o[1]) /\ w[2] = o[2]
    BY <1>1, <1>4, <1>6
  <2>2. Flat(o) = Join(o[1], o[2]) /\ Flat(w) = Join(Tail(o[1]), o[2])
    BY <1>4, <1>6, <2>1 DEF Flat
  <2>3. /\ Join(o[1], o[2]) # <<>> /\ Head(Join(o[1], o[2])) = Head(o[1])
        /\ Tail(Join(o[1], o[2])) = Join(Tail(o[1]), o[2])
    BY <1>2, <1>t, <2>1
  <2> QED
    BY <2>2, <2>3 DEF w
<1>7. CASE Count(o) = 3
  <2>1. o[2] \in Units /\ o[3] \in Units /\ w[1] = Tail(o[1]) /\ w[2] = o[2] /\ w[3] = o[3]
    BY <1>1, <1>4, <1>7
  <2> DEFINE r == Join(o[2], o[3])
  <2>2. r \in Units
    BY <2>1, Joins
  <2>3. Flat(o) = Join(o[1], r) /\ Flat(w) = Join(Tail(o[1]), r)
    BY <1>4, <1>7, <2>1 DEF Flat
  <2> HIDE DEF r
  <2>4. /\ Join(o[1], r) # <<>> /\ Head(Join(o[1], r)) = Head(o[1])
        /\ Tail(Join(o[1], r)) = Join(Tail(o[1]), r)
    BY <1>2, <1>t, <2>2
  <2> QED
    BY <2>3, <2>4 DEF w
<1> QED
  BY <1>1, <1>5, <1>6, <1>7

\* mbr.send returns with all of its buffer sent.
LEMMA FlatDrop ==
  ASSUME NEW o \in Seq(Units), Count(o) <= 3, o # <<>>, o[1] = <<>>
  PROVE  Flat(Tail(o)) = Flat(o)
<1>1. /\ Count(o) = 1 \/ Count(o) = 2 \/ Count(o) = 3
      /\ \A i \in 1..Count(o) : o[i] \in Units
  BY Buffers
<1> DEFINE t == Tail(o)
<1>2. Count(t) = Count(o) - 1 /\ \A i \in 1..Count(t) : t[i] = o[i + 1]
  BY HeadTailProperties DEF Count
<1> HIDE DEF t
<1>3. \A u \in Units : Join(<<>>, u) = u
  BY ConcatEmptySeq DEF Units, Join
<1>4. CASE Count(o) = 1
  BY <1>2, <1>4 DEF Flat, t
<1>5. CASE Count(o) = 2
  <2>1. o[2] \in Units /\ Count(t) = 1 /\ t[1] = o[2]
    BY <1>1, <1>2, <1>5
  <2>2. Flat(o) = Join(<<>>, o[2]) /\ Flat(t) = o[2]
    BY <1>5, <2>1 DEF Flat
  <2> QED
    BY <1>3, <2>1, <2>2 DEF t
<1>6. CASE Count(o) = 3
  <2>1. o[2] \in Units /\ o[3] \in Units /\ Count(t) = 2 /\ t[1] = o[2] /\ t[2] = o[3]
    BY <1>1, <1>2, <1>6
  <2>2. Join(o[2], o[3]) \in Units
    BY <2>1, Joins
  <2>3. Flat(o) = Join(<<>>, Join(o[2], o[3])) /\ Flat(t) = Join(o[2], o[3])
    BY <1>6, <2>1 DEF Flat
  <2> QED
    BY <1>3, <2>2, <2>3 DEF t
<1> QED
  BY <1>1, <1>4, <1>5, <1>6

\* The buffers of a send() make the frame of its message.
LEMMA FlatPieces ==
  ASSUME NEW p \in Peers, hashLength[p] \in 1..HashLengthMax[p], NEW n \in Ids, NEW m \in Payloads
  PROVE  /\ Count(Pieces(p, n, m)) <= 3
         /\ IsFrame(Flat(Pieces(p, n, m)), <<n, m>>, hashLength[p])
<1> DEFINE l == hashLength[p]
           h == HashPrefix(n, l)
           c == Len(m)
           z == <<c>>
           f == Flat(Pieces(p, n, m))
<1>1. h \in Units /\ Count(h) = l /\ l \in Nat
  BY HashPrefixType, Bounds DEF Units, Count
<1>2. m \in Units /\ c \in Nat /\ Count(m) = c /\ z \in Units /\ Count(z) = 1 /\ z[1] = c
  BY LinkAssumption DEF Units, Count
<1>3. \A j \in 1..l : h[j] = Hash[n][j]
  <2>1. Hash[n] \in Seq(Nat) /\ l \in 1..Len(Hash[n])
    BY LinkAssumption
  <2>2. \A j \in 1..l : Hash[n][j] \in Nat
    BY <1>1, <2>1
  <2> QED
    BY <1>1, <2>2, SubSeqProperties DEF HashPrefix
<1>p. Pieces(p, n, m) = IF IsVariable[n] THEN <<h, z, m>> ELSE <<h, m>>
  BY DEF Pieces
<1>c. Count(<<h, z, m>>) = 3 /\ Count(<<h, m>>) = 2
  BY DEF Count
<1>i. FrameAt(f, 0, <<n, m>>, l) /\ f \in Units /\ Count(f) = FrameLength(<<n, m>>, l)
             => IsFrame(f, <<n, m>>, l)
  BY DEF IsFrame, Count
<1>x. <<n, m>>[1] = n /\ <<n, m>>[2] = m
  OBVIOUS
<1> HIDE DEF l, h, z, c
<1>4. CASE IsVariable[n]
  <2> DEFINE r == Join(z, m)
  <2>1. f = Join(h, r) /\ Count(Pieces(p, n, m)) = 3
    BY <1>4, <1>p, <1>c DEF Flat
  <2>2. /\ r \in Units /\ Count(r) = 1 + c /\ r[1] = c
        /\ \A j \in 1..c : r[1 + j] = m[j]
    <3>1. /\ r \in Units /\ Count(r) = 1 + c /\ \A k \in 1..1 : r[k] = z[k]
          /\ \A k \in 1..c : r[1 + k] = m[k]
      BY <1>2, JoinsOf
    <3> QED
      BY <1>2, <3>1
  <2> HIDE DEF r, f
  <2>3. /\ f \in Units /\ Count(f) = l + (1 + c)
        /\ \A j \in 1..l : f[j] = h[j]
        /\ \A j \in 1..1 + c : f[l + j] = r[j]
    <3>1. 1 + c \in Nat
      BY <1>2
    <3> QED
      BY <1>1, <2>1, <2>2, <3>1, JoinsOf
  <2>4. f[0 + l + 1] = c
    BY <1>1, <1>2, <2>2, <2>3
  <2>5. \A j \in 1..c : f[0 + l + 1 + j] = m[j]
    <3> TAKE j \in 1..c
    <3>1. 1 + j \in 1..1 + c /\ 0 + l + 1 + j = l + (1 + j)
      BY <1>1, <1>2
    <3> QED
      BY <2>2, <2>3, <3>1
  <2>6. \A j \in 1..l : f[0 + j] = Hash[n][j]
    BY <1>1, <1>3, <2>3
  <2>7. FrameAt(f, 0, <<n, m>>, l)
    BY <1>4, <1>x, <2>4, <2>5, <2>6 DEF FrameAt, Sized, c
  <2>8. Count(f) = FrameLength(<<n, m>>, l)
    <3>1. l + (1 + c) = l + 1 + c
      BY <1>1, <1>2
    <3> QED
      BY <1>4, <1>x, <2>3, <3>1 DEF FrameLength, Sized, c
  <2> QED
    BY <1>i, <2>1, <2>3, <2>7, <2>8 DEF l, f
<1>5. CASE ~IsVariable[n]
  <2>1. f = Join(h, m) /\ Count(Pieces(p, n, m)) = 2
    BY <1>5, <1>p, <1>c DEF Flat
  <2> HIDE DEF f
  <2>2. /\ f \in Units /\ Count(f) = l + c
        /\ \A j \in 1..l : f[j] = h[j]
        /\ \A j \in 1..c : f[l + j] = m[j]
    BY <1>1, <1>2, <2>1, JoinsOf
  <2>3. \A j \in 1..c : f[0 + l + 0 + j] = m[j]
    BY <1>1, <1>2, <2>2
  <2>4. \A j \in 1..l : f[0 + j] = Hash[n][j]
    BY <1>1, <1>3, <2>2
  <2>5. FrameAt(f, 0, <<n, m>>, l)
    BY <1>5, <1>x, <2>3, <2>4 DEF FrameAt, Sized, c
  <2>6. Count(f) = FrameLength(<<n, m>>, l)
    <3>1. l + c = l + 0 + c
      BY <1>1, <1>2
    <3> QED
      BY <1>5, <1>x, <2>2, <3>1 DEF FrameLength, Sized, c
  <2> QED
    BY <1>i, <2>1, <2>2, <2>5, <2>6 DEF l, f
<1> QED
  BY <1>4, <1>5

LEMMA FrameAppend ==
  ASSUME NEW stream \in Units, NEW f \in Units, NEW x \in Messages, NEW l \in Nat, NEW o \in Nat
  PROVE  /\ FrameAt(stream, o, x, l) /\ o + FrameLength(x, l) <= Count(stream)
            => FrameAt(Join(stream, f), o, x, l)
         /\ IsFrame(f, x, l) => FrameAt(Join(stream, f), Count(stream), x, l)
<1> DEFINE a    == Count(stream)
           both == Join(stream, f)
           c    == Len(x[2])
           z    == Sized(x[1])
<1>1. /\ a \in Nat /\ Count(f) \in Nat
      /\ \A i \in 1..a : both[i] = stream[i]
      /\ \A i \in 1..Count(f) : both[a + i] = f[i]
  BY Joins
<1>2. c \in Nat /\ z \in Nat /\ (IsVariable[x[1]] => z = 1)
  BY MessageType DEF Sized
<1>f. FrameLength(x, l) = l + z + c
  BY DEF FrameLength
<1> HIDE DEF a, both
<1>3. ASSUME FrameAt(stream, o, x, l), o + FrameLength(x, l) <= a
      PROVE  FrameAt(both, o, x, l)
  <2> HIDE DEF c, z
  <2>1. o + (l + z + c) <= a
    BY <1>3, <1>f
  <2>2. /\ \A j \in 1..l : o + j \in 1..a
        /\ IsVariable[x[1]] => o + l + 1 \in 1..a
        /\ \A j \in 1..c : o + l + z + j \in 1..a
    BY <1>1, <1>2, <2>1
  <2> QED
    BY <1>1, <1>3, <2>2 DEF FrameAt, c, z
<1>4. ASSUME IsFrame(f, x, l)
      PROVE  FrameAt(both, a, x, l)
  <2>f. Count(f) = FrameLength(x, l) /\ FrameAt(f, 0, x, l)
    BY <1>4 DEF IsFrame, Count
  <2> HIDE DEF c, z
  <2>1. Count(f) = l + z + c
    BY <1>f, <2>f
  <2>2. /\ \A j \in 1..l : j \in 1..Count(f) /\ 0 + j = j
        /\ IsVariable[x[1]] => 0 + l + 1 = l + 1 /\ l + 1 \in 1..Count(f) /\ a + (l + 1) = a + l + 1
    BY <1>1, <1>2, <2>1
  <2>3. \A j \in 1..c : /\ 0 + l + z + j = l + z + j /\ l + z + j \in 1..Count(f)
                        /\ a + (l + z + j) = a + l + z + j
    BY <1>1, <1>2, <2>1
  <2>4. /\ \A j \in 1..l : f[j] = Hash[x[1]][j]
        /\ IsVariable[x[1]] => f[l + 1] = c
        /\ \A j \in 1..c : f[l + z + j] = x[2][j]
    BY <2>f, <2>2, <2>3 DEF FrameAt, c, z
  <2>5. /\ \A j \in 1..l : both[a + j] = Hash[x[1]][j]
        /\ IsVariable[x[1]] => both[a + l + 1] = c
    BY <1>1, <2>2, <2>4
  <2>6. \A j \in 1..c : both[a + l + z + j] = x[2][j]
    BY <1>1, <2>3, <2>4
  <2> QED
    BY <2>5, <2>6 DEF FrameAt, c, z
<1> QED
  BY <1>3, <1>4 DEF a, both

\* send() adds a frame to the stream.
LEMMA FramedSend ==
  ASSUME NEW s \in Seq(Messages), NEW x \in Messages, NEW l \in Nat \ {0}, NEW stream, NEW b,
         Framed(stream, b, s, l), NEW f, IsFrame(f, x, l)
  PROVE  Framed(Join(stream, f), [b EXCEPT ![Count(s) + 1] = Count(stream) + Count(f)], Append(s, x), l)
<1> DEFINE k    == Count(s)
           g    == Count(stream)
           h    == Count(f)
           e    == [b EXCEPT ![k + 1] = g + h]
           t    == Append(s, x)
           both == Join(stream, f)
<1>1. /\ k \in Nat /\ stream \in Units /\ b \in [Nat -> Nat] /\ g \in Nat
      /\ f \in Units /\ h \in Nat
  BY LenProperties DEF Framed, IsFrame, Units, Count
<1>h. h = FrameLength(x, l)
  BY DEF IsFrame, Count
<1>2. Len(t) = k + 1 /\ t[k + 1] = x /\ \A i \in 1..k : t[i] = s[i] /\ s[i] \in Messages
  BY AppendProperties, ElementOfSeq DEF Count
<1>3. both \in Units /\ Count(both) = g + h
  BY <1>1, Joins
<1> HIDE DEF k, g, h
<1>4. /\ e \in [Nat -> Nat] /\ e[k + 1] = g + h
      /\ \A i \in 0..k : e[i] = b[i] /\ e[i] \in Nat
  <2>1. k + 1 \in Nat /\ g + h \in Nat /\ \A i \in 0..k : i \in Nat /\ i # k + 1
    BY <1>1
  <2> QED
    BY <1>1, <2>1
<1>5. /\ b[0] = 1 /\ b[k] = g /\ \A i, j \in 0..k : i < j => b[i] < b[j]
      /\ \A i \in 1..k : b[i] = b[i - 1] + FrameLength(s[i], l) /\ FrameAt(stream, b[i - 1], s[i], l)
  BY DEF Framed, Count, k, g
<1>6. h > 0
  <2> DEFINE c == Len(x[2])
             z == Sized(x[1])
  <2>1. c \in Nat /\ z \in Nat
    BY MessageType
  <2>2. h = l + z + c
    BY <1>h DEF FrameLength
  <2> HIDE DEF c, z
  <2> QED
    BY <2>1, <2>2
<1> HIDE DEF e, t, both
<1>m. \A i \in 0..k : e[i] <= g
  <2> TAKE i \in 0..k
  <2>1. i < k \/ i = k
    BY <1>1
  <2>2. k \in 0..k
    BY <1>1
  <2>3. i < k => b[i] < b[k]
    BY <1>5, <2>2
  <2>4. b[i] \in Nat /\ e[i] = b[i] /\ b[k] = g /\ g \in Nat
    BY <1>1, <1>4, <1>5
  <2>5. CASE i = k
    BY <2>4, <2>5
  <2>6. CASE i < k
    BY <2>3, <2>4, <2>6
  <2> QED
    BY <2>1, <2>5, <2>6
<1>7. ASSUME NEW i \in 1..k
      PROVE  /\ e[i] = e[i - 1] + FrameLength(t[i], l)
             /\ FrameAt(both, e[i - 1], t[i], l)
  <2>1. b[i] = b[i - 1] + FrameLength(s[i], l) /\ FrameAt(stream, b[i - 1], s[i], l)
    BY <1>5
  <2>2. i - 1 \in 0..k /\ i \in 0..k
    BY <1>1
  <2>3. b[i - 1] = e[i - 1] /\ e[i - 1] \in Nat /\ b[i] = e[i] /\ e[i] <= g
    BY <1>4, <1>m, <2>2
  <2>4. s[i] = t[i] /\ t[i] \in Messages
    BY <1>2
  <2>5. e[i - 1] + FrameLength(t[i], l) <= g /\ FrameAt(stream, e[i - 1], t[i], l)
    BY <2>1, <2>3, <2>4
  <2>6. FrameAt(both, e[i - 1], t[i], l)
    BY <1>1, <2>3, <2>4, <2>5, FrameAppend DEF both, g
  <2> QED
    BY <2>1, <2>3, <2>4, <2>6
<1>8. /\ e[k + 1] = e[k] + FrameLength(t[k + 1], l)
      /\ FrameAt(both, e[k], t[k + 1], l)
  <2>0. k \in 0..k
    BY <1>1
  <2>1. e[k] = g /\ t[k + 1] = x
    BY <1>2, <1>4, <1>5, <2>0
  <2>2. FrameAt(both, g, x, l)
    BY <1>1, FrameAppend DEF both, g
  <2> QED
    BY <1>1, <1>h, <1>4, <2>1, <2>2
<1>9. \A i, j \in 0..k + 1 : i < j => e[i] < e[j]
  <2> SUFFICES ASSUME NEW i \in 0..k + 1, NEW j \in 0..k + 1, i < j PROVE e[i] < e[j]
    OBVIOUS
  <2>1. i \in 0..k
    BY <1>1
  <2>2. CASE j \in 0..k
    BY <1>4, <1>5, <2>1, <2>2
  <2>3. CASE j = k + 1
    <3>1. e[i] <= g /\ e[i] \in Nat
      BY <1>4, <1>m, <2>1
    <3> QED
      BY <1>1, <1>4, <1>6, <2>3, <3>1
  <2>4. j \in 0..k \/ j = k + 1
    BY <1>1
  <2> QED
    BY <2>2, <2>3, <2>4
<1>10. e[0] = 1 /\ Count(both) = e[k + 1]
  <2>1. 0 \in 0..k
    BY <1>1
  <2> QED
    BY <1>3, <1>4, <1>5, <2>1
<1>11. \A i \in 1..k + 1 : /\ e[i] = e[i - 1] + FrameLength(t[i], l)
                          /\ FrameAt(both, e[i - 1], t[i], l)
  <2>1. (k + 1) - 1 = k /\ \A i \in 1..k + 1 : i \in 1..k \/ i = k + 1
    BY <1>1
  <2> QED
    BY <1>7, <1>8, <2>1
<1>12. Framed(both, e, t, l)
  BY <1>2, <1>3, <1>4, <1>9, <1>10, <1>11 DEF Framed, Count
<1> QED
  BY <1>12 DEF both, e, t, k, g, h

(***************************************************************************)
(* A direction of a connection that keeps its frames together: a receiver  *)
(* that still listens has consumed the first c units of p's stream, the    *)
(* next ones are in flight, and p's buffers hold the rest.                 *)
(***************************************************************************)

\* units are those of the stream after the first c.
Window(units, stream, c) ==
    /\ c + Count(units) <= Count(stream)
    /\ \A j \in 1..Count(units) : units[j] = stream[c + j]

InHandshake(p) == phase[p] \in {"connected", "recvLength"}
Listening(q)   == InHandshake(q) \/ recv[q].state # "error"

Fresh(p)       == InHandshake(p) => sent[p] = <<>> /\ delivered[p] = <<>>
Prefixed(p, q) == /\ Count(delivered[q]) <= Count(sent[p])
                  /\ \A i \in 1..Count(delivered[q]) : delivered[q][i] = sent[p][i]

\* The hash length of p's frames, as q knows or will know it.
FrameHash(q, stream) ==
    IF phase[q] = "up" THEN hashLength[q] ELSE Max({hashLength[q], stream[1]})

\* The units of a frame before those of the recv that q is in.
Before(q) == IF recv[q].state = "hash" THEN 0
             ELSE IF recv[q].state = "size" THEN hashLength[q]
             ELSE hashLength[q] + Sized(recv[q].index)

Cut(p, q, stream, b, c) ==
    LET d == Count(delivered[q]) IN
    /\ c = b[d] + Before(q) + Count(recv[q].got)
    /\ Window(recv[q].got, stream, b[d] + Before(q))
    /\ recv[q].state \in {"size", "payload"} =>
          d < Count(sent[p]) /\ recv[q].index = sent[p][d + 1][1]
    /\ recv[q].state = "size" => IsVariable[recv[q].index]
    /\ recv[q].state = "payload" => recv[q].size = Len(sent[p][d + 1][2])

Ahead(p, stream, b, w) ==
    /\ InHandshake(p) => stream[1] = hashLength[p]
    /\ phase[p] = "recvLength" => w = 1
    /\ phase[p] = "up" => b[accepted[p]] <= w
    /\ phase[p] = "up" /\ writable[p] =>
          Window(Flat(out[p]), stream, w) /\ w + Count(Flat(out[p])) = Count(stream)

Stream(p, q, stream, b, c) ==
    /\ c \in Nat
    /\ Framed(stream, b, sent[p], FrameHash(q, stream))
    /\ Window(wire[p], stream, c)
    /\ Ahead(p, stream, b, c + Count(wire[p]))
    /\ phase[q] # "up" => c = 0
    /\ phase[q] = "up" => Cut(p, q, stream, b, c)

Direction(p, q) ==
    /\ Count(out[p]) <= 3
    /\ Fresh(p) /\ Fresh(q) /\ Prefixed(p, q)
    /\ Listening(q) => \E stream, b, c : Stream(p, q, stream, b, c)

LEMMA CountType ==
  ASSUME NEW S, NEW s \in Seq(S)
  PROVE  Count(s) \in Nat /\ Count(s) = Len(s) /\ (Count(s) = 0 <=> s = <<>>)
  BY LenProperties, EmptySeq DEF Count

LEMMA EmptyCount == Count(<<>>) = 0
  BY EmptyTypes DEF Count

LEMMA WindowEmpty ==
  ASSUME NEW stream \in Units, NEW c \in Nat, c <= Count(stream)
  PROVE  Window(<<>>, stream, c)
<1> DEFINE n == Count(stream)
<1>1. n \in Nat
  BY CountType DEF Units
<1> HIDE DEF n
<1>2. c + 0 <= n
  BY <1>1 DEF n
<1> QED
  BY <1>2, EmptyCount DEF Window, n

\* The n units s, read after the first c, end with unit e; u is the next one.
Ends(s, n, c, e)      == Count(s) = n /\ c + n = e
Follows(stream, e, u) == e + 1 <= Count(stream) /\ stream[e + 1] = u
With(s, u)            == Append(s, u)

LEMMA WindowAppend ==
  ASSUME NEW stream \in Units, NEW c \in Nat, NEW s \in Units, NEW u \in Nat, NEW n \in Nat,
         NEW e \in Nat, Ends(s, n, c, e), Window(s, stream, c), Follows(stream, e, u)
  PROVE  Window(With(s, u), stream, c) /\ Count(With(s, u)) = n + 1
<1>0. s \in Seq(Nat) /\ Len(s) = n
  BY DEF Units, Ends, Count
<1>t. /\ Append(s, u) \in Seq(Nat) /\ Len(Append(s, u)) = Len(s) + 1
      /\ \A i \in 1..Len(s) : Append(s, u)[i] = s[i]
      /\ Append(s, u)[Len(s) + 1] = u
  BY <1>0, AppendProperties
<1>1. PICK t \in Seq(Nat) : /\ t = With(s, u) /\ Len(t) = n + 1 /\ t[n + 1] = u
                            /\ \A i \in 1..n : t[i] = s[i]
  BY <1>0, <1>t DEF With
<1>2. c + (n + 1) = e + 1 /\ \A i \in 1..n + 1 : i \in 1..n \/ i = n + 1
  BY DEF Ends
<1>3. \A i \in 1..n : s[i] = stream[c + i]
  BY DEF Window, Ends
<1>4. \A i \in 1..n + 1 : t[i] = stream[c + i]
  BY <1>1, <1>2, <1>3 DEF Follows
<1>5. Count(t) = n + 1 /\ c + (n + 1) <= Count(stream)
  BY <1>1, <1>2 DEF Follows, Count
<1> QED
  BY <1>1, <1>4, <1>5 DEF Window

LEMMA WindowTail ==
  ASSUME NEW stream \in Units, NEW c \in Nat, NEW s \in Units, s # <<>>, Window(s, stream, c)
  PROVE  /\ Head(s) = stream[c + 1] /\ Head(s) \in Nat /\ Tail(s) \in Units
         /\ Window(Tail(s), stream, c + 1)
         /\ Count(s) \in Nat /\ Count(s) >= 1 /\ Count(Tail(s)) = Count(s) - 1
         /\ c + 1 <= Count(stream)
<1> DEFINE t == Tail(s)
           n == Count(s)
           m == Count(stream)
<1>1. /\ n \in Nat /\ n # 0 /\ m \in Nat /\ t \in Units /\ Count(t) = n - 1 /\ Head(s) = s[1]
      /\ Head(s) \in Nat /\ \A i \in 1..Count(t) : t[i] = s[i + 1]
  BY HeadTailProperties, CountType DEF Units, Count
<1>2. c + n <= m /\ \A i \in 1..n : s[i] = stream[c + i]
  BY DEF Window
<1> HIDE DEF t, n, m
<1>3. 1 \in 1..n /\ n >= 1 /\ c + 1 <= m /\ c + 1 + (n - 1) <= m
  BY <1>1, <1>2
<1>4. \A i \in 1..n - 1 : i + 1 \in 1..n /\ c + (i + 1) = c + 1 + i
  BY <1>1
<1>5. \A i \in 1..n - 1 : t[i] = stream[c + 1 + i]
  BY <1>1, <1>2, <1>4
<1>6. Window(t, stream, c + 1)
  BY <1>1, <1>3, <1>5 DEF Window, m
<1> QED
  BY <1>1, <1>2, <1>3, <1>6 DEF t, n, m

LEMMA WindowPrefix ==
  ASSUME NEW stream \in Units, NEW c \in Nat, NEW s \in Units, NEW k \in 0..Len(s), Window(s, stream, c)
  PROVE  Window(SubSeq(s, 1, k), stream, c)
<1> DEFINE t == SubSeq(s, 1, k)
           n == Count(s)
           m == Count(stream)
<1>1. /\ n \in Nat /\ m \in Nat /\ k \in Nat /\ k <= n
      /\ Count(t) = k /\ \A i \in 1..k : t[i] = s[i]
  <2>1. k \in Int /\ 1 \in Int /\ \A i \in 1..k : s[i] \in Nat
    BY DEF Units
  <2>2. Len(t) = k /\ \A i \in 1..k : t[i] = s[i]
    BY <2>1, SubSeqProperties
  <2> QED
    BY <2>2, CountType DEF Units, Count
<1>2. c + n <= m /\ \A i \in 1..n : s[i] = stream[c + i]
  BY DEF Window
<1> HIDE DEF t, n, m
<1>3. c + k <= m /\ \A i \in 1..k : i \in 1..n
  BY <1>1, <1>2
<1>4. \A i \in 1..k : t[i] = stream[c + i]
  BY <1>1, <1>2, <1>3
<1> QED
  BY <1>1, <1>3, <1>4 DEF Window, t, m

\* The stream grows by a frame.
LEMMA WindowJoin ==
  ASSUME NEW stream \in Units, NEW f \in Units, NEW c \in Nat, NEW s \in Units
  PROVE  /\ Window(s, stream, c) => Window(s, Join(stream, f), c)
         /\ Window(f, Join(stream, f), Count(stream))
         /\ Count(Join(stream, f)) = Count(stream) + Count(f)
         /\ \A i \in 1..Count(stream) : Join(stream, f)[i] = stream[i]
<1> DEFINE both == Join(stream, f)
           n == Count(s)
           m == Count(stream)
           h == Count(f)
<1>1. n \in Nat /\ m \in Nat /\ h \in Nat
  BY CountType DEF Units
<1>2. /\ Count(both) = m + h /\ \A i \in 1..m : both[i] = stream[i]
      /\ \A i \in 1..h : both[m + i] = f[i]
  BY Joins
<1> HIDE DEF both, n, m, h
<1>3. ASSUME Window(s, stream, c) PROVE Window(s, both, c)
  <2>1. c + n <= m /\ \A i \in 1..n : s[i] = stream[c + i]
    BY <1>3 DEF Window, n, m
  <2>2. c + n <= m + h /\ \A i \in 1..n : c + i \in 1..m
    BY <1>1, <2>1
  <2>3. \A i \in 1..n : s[i] = both[c + i]
    BY <1>2, <2>1, <2>2
  <2> QED
    BY <1>2, <2>2, <2>3 DEF Window, n
<1>4. Window(f, both, m)
  <2>1. m + h <= m + h
    BY <1>1
  <2> QED
    BY <1>2, <2>1 DEF Window, h
<1> QED
  BY <1>2, <1>3, <1>4 DEF both, m, h

LEMMA FramedFacts ==
  ASSUME NEW s \in Seq(Messages), NEW stream, NEW b, NEW l, Framed(stream, b, s, l)
  PROVE  /\ stream \in Units /\ Count(stream) = b[Count(s)] /\ b[0] = 1
         /\ \A i \in 0..Count(s) : b[i] \in Nat
         /\ \A i, j \in 0..Count(s) : i < j => b[i] < b[j]
         /\ \A i \in 1..Count(s) : b[i] = b[i - 1] + FrameLength(s[i], l) /\ FrameAt(stream, b[i - 1], s[i], l)
         /\ 1 <= Count(stream)
<1> DEFINE k == Count(s)
<1>1. k \in Nat
  BY CountType
<1>2. /\ stream \in Units /\ Count(stream) = b[k] /\ b[0] = 1 /\ b \in [Nat -> Nat]
      /\ \A i, j \in 0..k : i < j => b[i] < b[j]
      /\ \A i \in 1..k : b[i] = b[i - 1] + FrameLength(s[i], l) /\ FrameAt(stream, b[i - 1], s[i], l)
  BY DEF Framed, Count
<1> HIDE DEF k
<1>3. \A i \in 0..k : b[i] \in Nat
  BY <1>1, <1>2
<1>4. 1 <= b[k]
  <2>1. 0 \in 0..k /\ k \in 0..k /\ (k = 0 \/ 0 < k)
    BY <1>1
  <2>2. b[k] \in Nat
    BY <1>3, <2>1
  <2>3. CASE k = 0
    BY <1>2, <2>3
  <2>4. CASE 0 < k
    <3>1. b[0] < b[k]
      BY <1>2, <2>1, <2>4
    <3> QED
      BY <1>2, <2>2, <3>1
  <2> QED
    BY <2>1, <2>3, <2>4
<1> QED
  BY <1>2, <1>3, <1>4 DEF k

\* What Direction speaks of did not change.
LEMMA DirKept ==
  ASSUME NEW p \in Peers, NEW q \in Peers, Direction(p, q),
         phase'[p] = phase[p], phase'[q] = phase[q],
         hashLength'[p] = hashLength[p] \/ ~InHandshake(p), hashLength'[q] = hashLength[q],
         wire'[p] = wire[p], writable'[p] = writable[p], out'[p] = out[p], accepted'[p] = accepted[p],
         sent'[p] = sent[p], delivered'[p] = delivered[p] \/ ~InHandshake(p),
         recv'[q] = recv[q], delivered'[q] = delivered[q], sent'[q] = sent[q] \/ ~InHandshake(q)
  PROVE  Direction(p, q)'
<1>1. \A stream, b, c : Stream(p, q, stream, b, c) => Stream(p, q, stream, b, c)'
  BY DEF Stream, Ahead, Cut, Before, FrameHash, InHandshake
<1> QED
  BY <1>1 DEF Direction, Listening, InHandshake, Fresh, Prefixed

\* The receiver stops listening.
LEMMA DirEnds ==
  ASSUME NEW p \in Peers, NEW q \in Peers, Direction(p, q), ~Listening(q)', Count(out'[p]) <= 3,
         UNCHANGED <<sent, delivered>>, Fresh(p)'
  PROVE  Direction(p, q)'
  BY DEF Direction, Listening, Fresh, Prefixed

LEMMA DirConnect ==
  ASSUME Leftover, NEW p \in Peers, NEW q \in Peers, p # q, Connect
  PROVE  Direction(p, q)'
<1>1. /\ \A r \in Peers : /\ phase'[r] = "connected" /\ wire'[r] = <<>> /\ out'[r] = <<>>
                          /\ sent'[r] = <<>> /\ delivered'[r] = <<>>
      /\ UNCHANGED hashLength
  BY DEF Connect, All
<1>2. PICK h \in Nat : h = hashLength[p]
  BY DEF Leftover
<1>3. PICK stream : stream \in Units /\ stream[1] = h /\ Count(stream) = 1 /\ stream = <<h>>
  <2>1. <<h>> \in Units /\ Count(<<h>>) = 1
    BY DEF Units, Count
  <2> QED
    BY <2>1
<1>4. PICK b : \A l : Framed(stream, b, <<>>, l)
  <2> DEFINE b == [i \in Nat |-> 1]
  <2>1. b \in [Nat -> Nat] /\ b[0] = 1
    OBVIOUS
  <2> HIDE DEF b
  <2>2. Len(stream) = b[Len(<<>>)]
    BY <1>3, <2>1, EmptyTypes DEF Count
  <2>3. \A l : Framed(stream, b, <<>>, l)
    BY <1>3, <2>1, <2>2, EmptyTypes DEF Framed
  <2> QED
    BY <2>3
<1>5. Window(<<>>, stream, 0)
  BY <1>3, WindowEmpty
<1>6. Stream(p, q, stream, b, 0)'
  <2>1. Ahead(p, stream, b, 0 + Count(wire[p]))'
    BY <1>1, <1>2, <1>3 DEF Ahead, InHandshake
  <2> QED
    BY <1>1, <1>4, <1>5, <2>1 DEF Stream
<1> QED
  BY <1>1, <1>6, EmptyCount DEF Direction, Fresh, Prefixed

\* p closes, after it may have sent a part of what was in flight.
LEMMA DirCloseSender ==
  ASSUME TypeInv, NEW p \in Peers, NEW q \in Peers, p # q, Direction(p, q), Close(p)
  PROVE  Direction(p, q)'
<1>1. PICK k \in 0..Len(wire[p]) : wire' = [wire EXCEPT ![p] = SubSeq(wire[p], 1, k)]
  BY DEF Close
<1>2. /\ wire[p] \in Units /\ wire'[p] = SubSeq(wire[p], 1, k)
      /\ phase'[p] = "closed" /\ phase'[q] = phase[q] /\ out'[p] = <<>> /\ recv'[q] = recv[q]
      /\ UNCHANGED <<hashLength, sent, delivered>>
  BY <1>1 DEF Close, Leave, TypeInv, Shapes
<1>3. ASSUME NEW stream, NEW b, NEW c, Stream(p, q, stream, b, c)
      PROVE  Stream(p, q, stream, b, c)'
  <2>1. stream \in Units /\ c \in Nat /\ Window(wire[p], stream, c)
    BY <1>3 DEF Stream, Framed
  <2>2. Window(wire'[p], stream, c)
    BY <1>2, <2>1, WindowPrefix
  <2>3. Ahead(p, stream, b, c + Count(wire[p]))'
    BY <1>2 DEF Ahead, InHandshake
  <2> QED
    BY <1>2, <1>3, <2>2, <2>3 DEF Stream, Cut, Before, FrameHash
<1> QED
  BY <1>2, <1>3, EmptyCount DEF Direction, Listening, InHandshake, Fresh, Prefixed

LEMMA DirHandshakeSend ==
  ASSUME TypeInv, NEW p \in Peers, NEW q \in Peers, p # q, Direction(p, q), Greeting(q, p),
         HandshakeSendHashLength(p)
  PROVE  Direction(p, q)'
<1>1. /\ wire[p] = <<>> /\ wire[p] \in Units /\ hashLength[p] \in Nat /\ phase[p] = "connected"
      /\ phase'[p] = "recvLength" /\ phase'[q] = phase[q] /\ wire'[p] = Append(wire[p], hashLength[p])
      /\ UNCHANGED <<hashLength, out, recv, sent, delivered>>
  BY DEF HandshakeSendHashLength, TypeInv, SendBounds, Shapes, receiving
<1>2. phase[q] # "up"
  BY <1>1 DEF Greeting
<1>3. ASSUME NEW stream, NEW b, NEW c, Stream(p, q, stream, b, c)
      PROVE  Stream(p, q, stream, b, c)'
  <2>1. c = 0 /\ c \in Nat /\ sent[p] = <<>> /\ sent[p] \in Seq(Messages)
    BY <1>1, <1>2, <1>3 DEF Stream, Direction, Fresh, InHandshake, TypeInv, Shapes
  <2>2. stream \in Units /\ 1 <= Count(stream) /\ Window(wire[p], stream, 0)
    BY <1>3, <2>1, FramedFacts DEF Stream
  <2>3. stream[1] = hashLength[p]
    BY <1>1, <1>3 DEF Stream, Ahead, InHandshake
  <2>4. PICK n \in Nat : n = 0 /\ Count(wire[p]) = n /\ n + n = n /\ n + 1 = 1
    BY <1>1, EmptyCount
  <2>5. Window(wire'[p], stream, 0) /\ Count(wire'[p]) = 1
    <3>1. /\ Follows(stream, n, hashLength[p]) /\ Window(wire[p], stream, n)
          /\ Ends(wire[p], n, n, n)
      BY <2>2, <2>3, <2>4 DEF Follows, Ends
    <3>2. Window(With(wire[p], hashLength[p]), stream, n) /\ Count(With(wire[p], hashLength[p])) = n + 1
      <4>1. hashLength[p] \in Nat /\ wire[p] \in Units
        BY <1>1
      <4> QED
        BY <2>2, <3>1, <4>1, WindowAppend
    <3> QED
      BY <1>1, <2>4, <3>2 DEF With
  <2>6. Ahead(p, stream, b, c + Count(wire[p]))'
    BY <1>1, <2>1, <2>3, <2>5 DEF Ahead, InHandshake
  <2> QED
    BY <1>1, <1>2, <1>3, <2>1, <2>5, <2>6 DEF Stream, FrameHash
<1> QED
  BY <1>1, <1>3 DEF Direction, Listening, InHandshake, Fresh, Prefixed

\* p reads the length of q.
LEMMA DirHandshakeRecvSender ==
  ASSUME TypeInv, NEW p \in Peers, NEW q \in Peers, p # q, q = Other(p), Direction(p, q),
         HandshakeHandleHashLengthRecv(p)
  PROVE  Direction(p, q)'
<1>1. /\ phase[p] = "recvLength" /\ phase'[p] \in {"closed", "up"} /\ phase'[q] = phase[q]
      /\ wire'[p] = wire[p] /\ recv'[q] = recv[q] /\ out[p] = <<>> /\ out'[p] = <<>>
      /\ hashLength'[q] = hashLength[q] /\ UNCHANGED <<writable, sent, accepted, delivered>>
  BY DEF HandshakeHandleHashLengthRecv, Leave, TypeInv, SendBounds, Shapes
<1>2. sent[p] = <<>> /\ accepted[p] = 0
  <2>1. sent[p] = <<>>
    BY <1>1 DEF Direction, Fresh, InHandshake
  <2>2. accepted[p] \in Nat /\ accepted[p] <= 0
    BY <2>1, EmptyTypes DEF TypeInv, SendBounds, Shapes
  <2> QED
    BY <2>1, <2>2
<1>3. ASSUME NEW stream, NEW b, NEW c, Stream(p, q, stream, b, c)
      PROVE  Stream(p, q, stream, b, c)'
  <2>1. sent[p] \in Seq(Messages) /\ c + Count(wire[p]) = 1 /\ c \in Nat
    BY <1>1, <1>3 DEF Stream, Ahead, TypeInv, Shapes
  <2>f. Framed(stream, b, sent[p], FrameHash(q, stream)) /\ Count(sent[p]) = 0
    BY <1>2, <1>3, EmptyCount DEF Stream
  <2>2. stream \in Units /\ b[0] = 1 /\ Count(stream) = 1
    BY <2>1, <2>f, FramedFacts
  <2>3. Flat(out'[p]) = <<>>
    BY <1>1, EmptyCount DEF Flat
  <2>4. Window(<<>>, stream, 1)
    BY <2>2, WindowEmpty
  <2>5. Ahead(p, stream, b, 1)'
    BY <1>1, <1>2, <2>2, <2>3, <2>4, EmptyCount DEF Ahead, InHandshake
  <2> QED
    BY <1>1, <1>3, <2>1, <2>5 DEF Stream, Cut, Before, FrameHash
<1> QED
  BY <1>1, <1>3, EmptyCount DEF Direction, Listening, InHandshake, Fresh, Prefixed

\* q reads the length of p.
LEMMA DirHandshakeRecvReceiver ==
  ASSUME TypeInv, NEW p \in Peers, NEW q \in Peers, p # q, p = Other(q), Direction(p, q),
         HandshakeHandleHashLengthRecv(q)
  PROVE  Direction(p, q)'
<1>1. /\ phase[q] = "recvLength" /\ wire[p] # <<>> /\ wire'[p] = Tail(wire[p])
      /\ phase'[p] = phase[p] /\ out'[p] = out[p] /\ hashLength'[p] = hashLength[p]
      /\ UNCHANGED <<writable, sent, accepted, delivered>>
  BY DEF HandshakeHandleHashLengthRecv, Leave, TypeInv, Shapes
<1>2. CASE phase'[q] = "closed" /\ recv'[q] = AtError
  BY <1>1, <1>2, RecvTypes, DirEnds DEF Listening, InHandshake, Direction, Fresh
<1>3. CASE /\ phase'[q] = "up" /\ recv'[q] = AtHash
           /\ hashLength'[q] = Max({hashLength[q], Head(wire[p])})
  <2>1. Listening(q) /\ delivered[q] = <<>>
    BY <1>1 DEF Listening, InHandshake, Direction, Fresh
  <2>2. PICK stream, b, c : Stream(p, q, stream, b, c)
    BY <2>1 DEF Direction
  <2>3. /\ sent[p] \in Seq(Messages) /\ wire[p] \in Units /\ c = 0
        /\ Framed(stream, b, sent[p], FrameHash(q, stream)) /\ Window(wire[p], stream, 0)
        /\ Ahead(p, stream, b, 0 + Count(wire[p]))
    BY <1>1, <2>2 DEF Stream, TypeInv, Shapes
  <2>4. stream \in Units /\ b[0] = 1 /\ 1 <= Count(stream)
    BY <2>3, FramedFacts
  <2>5. /\ Head(wire[p]) = stream[1] /\ Window(Tail(wire[p]), stream, 1)
        /\ 1 + Count(Tail(wire[p])) = 0 + Count(wire[p])
    <3>1. 0 \in Nat /\ 0 + 1 = 1
      OBVIOUS
    <3>2. /\ Head(wire[p]) = stream[0 + 1] /\ Window(Tail(wire[p]), stream, 0 + 1)
          /\ Count(wire[p]) \in Nat /\ Count(Tail(wire[p])) = Count(wire[p]) - 1
      BY <1>1, <2>3, <2>4, <3>1, WindowTail
    <3>3. \A i \in Nat : 1 + (i - 1) = 0 + i
      OBVIOUS
    <3> QED
      BY <3>1, <3>2, <3>3
  <2>6. FrameHash(q, stream)' = FrameHash(q, stream)
    BY <1>1, <1>3, <2>5 DEF FrameHash
  <2>7. Ahead(p, stream, b, 1 + Count(wire[p]))'
    BY <1>1, <2>3, <2>5 DEF Ahead, InHandshake
  <2>8. Cut(p, q, stream, b, 1)'
    <3>1. Before(q)' = 0
      BY <1>3, RecvTypes DEF Before
    <3>2. Count(delivered'[q]) = 0 /\ recv'[q].got = <<>> /\ recv'[q].state = "hash"
      BY <1>1, <1>3, <2>1, RecvTypes, EmptyCount
    <3>3. Window(<<>>, stream, 1)
      BY <2>4, WindowEmpty
    <3>4. b[0] + 0 = 1 /\ b[0] + 0 + 0 = 1
      BY <2>4
    <3> QED
      BY <3>1, <3>2, <3>3, <3>4, EmptyCount DEF Cut
  <2>9. Stream(p, q, stream, b, 1)'
    BY <1>1, <1>3, <2>3, <2>5, <2>6, <2>7, <2>8 DEF Stream
  <2> QED
    BY <1>1, <1>3, <2>9 DEF Direction, Fresh, InHandshake, Prefixed
<1>4. \/ phase'[q] = "closed" /\ recv'[q] = AtError
      \/ /\ phase'[q] = "up" /\ recv'[q] = AtHash
         /\ hashLength'[q] = Max({hashLength[q], Head(wire[p])})
  BY DEF HandshakeHandleHashLengthRecv, Leave, AgreedLength, TypeInv, Shapes
<1> QED
  BY <1>2, <1>3, <1>4

\* Frames are cut by the length that q uses.
LEMMA FrameHashAgrees ==
  ASSUME TypeInv, NEW p \in Peers, NEW q \in Peers, Greeting(p, q), phase[p] = "up", Listening(q),
         NEW stream, NEW b, NEW c, Stream(p, q, stream, b, c)
  PROVE  FrameHash(q, stream) = hashLength[p]
<1>1. phase[q] = "up" \/ phase[q] = "recvLength"
  BY DEF Greeting, Listening, InHandshake, TypeInv, RecvBounds
<1>2. CASE phase[q] = "up"
  BY <1>2 DEF FrameHash, Greeting
<1>3. CASE phase[q] = "recvLength"
  <2>1. wire[p] # <<>> /\ hashLength[p] = Max({hashLength[q], Head(wire[p])})
    BY <1>3 DEF Greeting
  <2>2. stream \in Units /\ wire[p] \in Units /\ Window(wire[p], stream, 0)
    BY <1>3 DEF Stream, Framed, TypeInv, Shapes
  <2>3. 0 \in Nat /\ 0 + 1 = 1
    OBVIOUS
  <2>4. Head(wire[p]) = stream[0 + 1]
    BY <2>1, <2>2, <2>3, WindowTail
  <2> QED
    BY <1>3, <2>1, <2>3, <2>4 DEF FrameHash
<1> QED
  BY <1>1, <1>2, <1>3

LEMMA DirSend ==
  ASSUME TypeInv, NEW p \in Peers, NEW q \in Peers, p # q, Direction(p, q), Greeting(p, q),
         NEW n \in Ids, NEW m \in Payloads, Send(p, n, m)
  PROVE  Direction(p, q)'
<1> DEFINE x == <<n, m>>
<1>1. /\ phase[p] = "up" /\ out[p] = <<>> /\ out'[p] = Pieces(p, n, m)
      /\ sent'[p] = Append(sent[p], x) /\ sent'[q] = sent[q]
      /\ UNCHANGED <<phase, hashLength, wire, writable, accepted, recv, delivered>>
  BY DEF Send, receiving, TypeInv, Shapes
<1>2. x \in Messages /\ sent[p] \in Seq(Messages) /\ wire[p] \in Units
  BY DEF Send, Messages, TypeInv, Shapes
<1>3. /\ hashLength[p] \in 1..HashLengthMax[p] /\ hashLength[p] \in Nat \ {0}
  BY Bounds DEF TypeInv, Shapes, SendBounds
<1>4. PICK f : f = Flat(Pieces(p, n, m)) /\ IsFrame(f, x, hashLength[p]) /\ Count(Pieces(p, n, m)) <= 3
  BY <1>3, FlatPieces
<1> HIDE DEF x
<1>5. PICK k : k = Count(sent[p]) /\ k \in Nat
  BY <1>2, CountType
<1>6. /\ Count(sent'[p]) = k + 1 /\ \A i \in 1..k : sent'[p][i] = sent[p][i]
  BY <1>1, <1>2, <1>5, AppendProperties DEF Count
<1>7. PICK d : d = Count(delivered[q]) /\ d \in Nat /\ d <= k
  BY <1>5, CountType DEF Direction, Prefixed, TypeInv, Shapes
<1>8. Prefixed(p, q)'
  <2>1. \A i \in 1..d : i \in 1..k /\ delivered[q][i] = sent[p][i]
    BY <1>5, <1>7 DEF Direction, Prefixed
  <2>2. d <= k + 1
    BY <1>5, <1>7
  <2> QED
    BY <1>1, <1>6, <1>7, <2>1, <2>2 DEF Prefixed
<1>9. ASSUME Listening(q), NEW stream, NEW b, NEW c, Stream(p, q, stream, b, c)
      PROVE  \E stream2, b2 : Stream(p, q, stream2, b2, c)'
  <2>1. /\ c \in Nat /\ Framed(stream, b, sent[p], FrameHash(q, stream)) /\ Window(wire[p], stream, c)
        /\ Ahead(p, stream, b, c + Count(wire[p])) /\ (phase[q] = "up" => Cut(p, q, stream, b, c))
        /\ (phase[q] # "up" => c = 0)
    BY <1>9 DEF Stream
  <2>2. FrameHash(q, stream) = hashLength[p]
    BY <1>1, <1>9, FrameHashAgrees
  <2>3. stream \in Units /\ f \in Units /\ b \in [Nat -> Nat] /\ Count(stream) \in Nat
    BY <1>4, <2>1, CountType DEF Framed, IsFrame, Units
  <2>4. PICK stream2 : stream2 = Join(stream, f)
    OBVIOUS
  <2>5. PICK b2 : b2 = [b EXCEPT ![k + 1] = Count(stream) + Count(f)]
    OBVIOUS
  <2>6. Framed(stream2, b2, sent'[p], hashLength[p])
    BY <1>1, <1>2, <1>3, <1>4, <1>5, <2>1, <2>2, <2>4, <2>5, FramedSend
  <2>7. \A i \in 0..k : b2[i] = b[i] /\ b[i] \in Nat
    <3>1. \A i \in 0..k : i \in Nat /\ i # k + 1
      BY <1>5
    <3> QED
      BY <2>3, <2>5, <3>1
  <2>8. stream2[1] = stream[1]
    <3>1. 1 <= Count(stream)
      BY <1>2, <2>1, FramedFacts
    <3>2. 1 \in 1..Count(stream)
      BY <2>3, <3>1
    <3> QED
      BY <2>3, <2>4, <3>2, EmptyTypes, WindowJoin
  <2>9. FrameHash(q, stream2)' = hashLength[p]
    BY <1>1, <2>2, <2>8 DEF FrameHash
  <2>10. Window(wire'[p], stream2, c)
    BY <1>1, <1>2, <2>1, <2>3, <2>4, WindowJoin
  <2>11. Ahead(p, stream2, b2, c + Count(wire[p]))'
    <3>1. accepted[p] \in 0..k
      BY <1>2, <1>5, CountType DEF TypeInv, Shapes, SendBounds
    <3>2. b2[accepted[p]] <= c + Count(wire[p])
      BY <1>1, <2>1, <2>7, <3>1 DEF Ahead
    <3>3. ASSUME writable[p]
          PROVE  Window(f, stream2, c + Count(wire[p])) /\ c + Count(wire[p]) + Count(f) = Count(stream2)
      <4>1. Flat(out[p]) = <<>>
        BY <1>1, EmptyCount DEF Flat
      <4>2. c + Count(wire[p]) + 0 = Count(stream)
        BY <1>1, <2>1, <3>3, <4>1, EmptyCount DEF Ahead
      <4>3. Count(wire[p]) \in Nat
        BY <1>2, CountType DEF Units
      <4>4. c + Count(wire[p]) = Count(stream)
        BY <2>1, <4>2, <4>3
      <4>5. Window(f, stream2, Count(stream)) /\ Count(stream2) = Count(stream) + Count(f)
        BY <2>1, <2>3, <2>4, EmptyTypes, WindowJoin
      <4> QED
        BY <4>4, <4>5
    <3> QED
      BY <1>1, <1>4, <3>2, <3>3 DEF Ahead, InHandshake
  <2>12. ASSUME phase[q] = "up" PROVE Cut(p, q, stream2, b2, c)'
    <3>1. d \in 0..k /\ b2[d] = b[d] /\ b[d] \in Nat
      BY <1>5, <1>7, <2>7
    <3>2. recv[q] \in Recvs /\ hashLength[q] \in Nat
      BY DEF TypeInv, Shapes
    <3>3. Before(q) \in Nat /\ recv[q].got \in Units
      <4>1. Sized(recv[q].index) \in Nat
        BY DEF Sized
      <4> QED
        BY <3>2, <4>1 DEF Before, Recvs
    <3>4. b[d] + Before(q) \in Nat
      BY <3>1, <3>3
    <3>5. Cut(p, q, stream, b, c)
      BY <2>1, <2>12
    <3>6. Window(recv[q].got, stream2, b[d] + Before(q))
      BY <1>7, <2>3, <2>4, <3>3, <3>4, <3>5, WindowJoin DEF Cut
    <3>7. d < k => d + 1 \in 1..k /\ d < k + 1
      BY <1>5, <1>7
    <3>8. Before(q)' = Before(q) /\ recv'[q] = recv[q] /\ delivered'[q] = delivered[q]
      BY <1>1 DEF Before
    <3>9. recv[q].state \in {"size", "payload"} =>
             d < k /\ d < k + 1 /\ recv[q].index = sent'[p][d + 1][1] /\ sent'[p][d + 1] = sent[p][d + 1]
      BY <1>5, <1>6, <1>7, <3>5, <3>7 DEF Cut
    <3>10. recv[q].state = "payload" => recv[q].size = Len(sent'[p][d + 1][2])
      BY <1>7, <3>5, <3>9 DEF Cut
    <3> QED
      BY <1>6, <1>7, <3>1, <3>5, <3>6, <3>8, <3>9, <3>10 DEF Cut
  <2> QED
    BY <1>1, <2>1, <2>6, <2>9, <2>10, <2>11, <2>12 DEF Stream
<1> QED
  BY <1>1, <1>4, <1>8, <1>9 DEF Direction, Listening, InHandshake, Fresh

LEMMA DirWriteUnit ==
  ASSUME TypeInv, NEW p \in Peers, NEW q \in Peers, p # q, Direction(p, q), WriteUnit(p)
  PROVE  Direction(p, q)'
<1>1. /\ out[p] \in Seq(Units) /\ out[p] # <<>> /\ wire[p] \in Units /\ phase[p] = "up"
      /\ sent[p] \in Seq(Messages) /\ Count(out[p]) <= 3
  BY DEF WriteUnit, TypeInv, Shapes, SendBounds, Direction
<1>2. Head(out[p]) = out[p][1] /\ out[p][1] \in Units /\ out[p][1] # <<>> /\ writable[p]
  <2>1. 1 \in 1..Len(out[p]) /\ Head(out[p]) = out[p][1]
    BY <1>1
  <2> QED
    BY <1>1, <2>1, ElementOfSeq DEF WriteUnit
<1> DEFINE u == Head(out[p][1])
           o == [out[p] EXCEPT ![1] = Tail(out[p][1])]
<1>3. /\ wire'[p] = Append(wire[p], u) /\ out'[p] = o
      /\ UNCHANGED <<phase, hashLength, writable, sent, accepted, recv, delivered>>
  BY <1>1, <1>2 DEF WriteUnit, receiving, TypeInv, Shapes
<1>4. u \in Nat
  BY <1>2, HeadTailProperties DEF Units
<1>5. Count(o) <= 3
  <2>1. Tail(out[p][1]) \in Units /\ 1 \in 1..Len(out[p])
    BY <1>1, <1>2, HeadTailProperties DEF Units
  <2>2. Len(o) = Len(out[p])
    BY <1>1, <2>1, ExceptSeq
  <2> QED
    BY <1>1, <2>2 DEF Count
<1>6. /\ Flat(out[p]) \in Units /\ Flat(out[p]) # <<>> /\ Head(Flat(out[p])) = u
      /\ Flat(o) = Tail(Flat(out[p]))
  BY <1>1, <1>2, FlatWrite, Buffers
<1> HIDE DEF u, o
<1>7. ASSUME NEW stream, NEW b, NEW c, Stream(p, q, stream, b, c)
      PROVE  Stream(p, q, stream, b, c)'
  <2>1. PICK w \in Nat : w = c + Count(wire[p])
    BY <1>1, <1>7, CountType DEF Stream, Units
  <2>2. /\ stream \in Units /\ c \in Nat /\ Window(wire[p], stream, c) /\ Ahead(p, stream, b, w)
        /\ Framed(stream, b, sent[p], FrameHash(q, stream))
    BY <1>7, <2>1 DEF Stream, Framed
  <2>3. Window(Flat(out[p]), stream, w) /\ w + Count(Flat(out[p])) = Count(stream)
    BY <1>1, <1>2, <2>2 DEF Ahead
  <2>4. /\ u = stream[w + 1] /\ w + 1 <= Count(stream) /\ Window(Flat(o), stream, w + 1)
        /\ Count(Flat(out[p])) \in Nat /\ Count(Flat(o)) = Count(Flat(out[p])) - 1
    BY <1>6, <2>1, <2>2, <2>3, WindowTail
  <2>5. w + 1 + Count(Flat(o)) = Count(stream)
    <3>1. \A i \in Nat : w + 1 + (i - 1) = w + i
      BY <2>1
    <3> QED
      BY <2>3, <2>4, <3>1
  <2>6. Window(wire'[p], stream, c) /\ Count(wire'[p]) = Count(wire[p]) + 1
    <3>1. PICK n \in Nat : Ends(wire[p], n, c, w) /\ Count(wire[p]) = n
      BY <1>1, <2>1, CountType DEF Units, Ends
    <3>2. Follows(stream, w, u)
      BY <2>4 DEF Follows
    <3>3. Window(With(wire[p], u), stream, c) /\ Count(With(wire[p], u)) = n + 1
      BY <1>1, <1>4, <2>2, <3>1, <3>2, WindowAppend
    <3> QED
      BY <1>3, <3>1, <3>3 DEF With
  <2>7. c + Count(wire'[p]) = w + 1
    <3>1. Count(wire[p]) \in Nat
      BY <1>1, CountType DEF Units
    <3> QED
      BY <2>1, <2>2, <2>6, <3>1
  <2>8. b[accepted[p]] <= w + 1
    <3>1. accepted[p] \in 0..Count(sent[p])
      <4>1. accepted[p] \in Nat /\ accepted[p] <= Len(sent[p])
        BY DEF TypeInv, Shapes, SendBounds
      <4>2. Len(sent[p]) = Count(sent[p]) /\ Count(sent[p]) \in Nat
        BY <1>1, CountType
      <4> QED
        BY <4>1, <4>2
    <3>2. b[accepted[p]] \in Nat
      BY <1>1, <2>2, <3>1, FramedFacts
    <3>3. b[accepted[p]] <= w
      BY <1>1, <2>2 DEF Ahead
    <3> QED
      BY <2>1, <3>2, <3>3
  <2>9. Ahead(p, stream, b, c + Count(wire[p]))'
    BY <1>1, <1>3, <2>4, <2>5, <2>7, <2>8 DEF Ahead, InHandshake
  <2> QED
    BY <1>3, <1>7, <2>6, <2>9 DEF Stream, Cut, Before, FrameHash
<1> QED
  BY <1>3, <1>5, <1>7 DEF Direction, Listening, InHandshake, Fresh, Prefixed

\* A send() of which a piece failed is not accepted; on a connection that stays failed
\* neither is a later one.
LEMMA DirSendReturns ==
  ASSUME TypeInv, Flags, Failures = "closing",
         NEW p \in Peers, NEW q \in Peers, p # q, Direction(p, q), PieceSent(p) \/ PieceFails(p)
  PROVE  Direction(p, q)'
<1>1. /\ out[p] \in Seq(Units) /\ out[p] # <<>> /\ wire[p] \in Units /\ phase[p] = "up"
      /\ sent[p] \in Seq(Messages) /\ Count(out[p]) <= 3 /\ accepted[p] \in Nat
      /\ accepted[p] < Len(sent[p])
  BY DEF PieceSent, PieceFails, TypeInv, Shapes, SendBounds, Direction
<1>2. /\ out'[p] = Tail(out[p])
      /\ UNCHANGED <<phase, hashLength, wire, sent, recv, delivered>>
  BY DEF PieceSent, PieceFails, SendReturns, receiving, TypeInv, Shapes
<1>3. Count(out'[p]) <= 3
  <2>1. Len(Tail(out[p])) = Len(out[p]) - 1 /\ Len(out[p]) \in Nat
    BY <1>1, HeadTailProperties, LenProperties
  <2> QED
    BY <1>1, <1>2, <2>1 DEF Count
<1>4. \/ /\ writable'[p] = writable[p] /\ writable[p] /\ out[p][1] = <<>>
         /\ accepted'[p] = accepted[p] \/ (out'[p] = <<>> /\ accepted'[p] = accepted[p] + 1)
      \/ ~writable'[p] /\ accepted'[p] = accepted[p]
  <2>1. CASE PieceSent(p)
    <3>1. Head(out[p]) = out[p][1]
      BY <1>1
    <3> QED
      BY <2>1, <3>1 DEF PieceSent, SendReturns, TypeInv, Shapes
  <2>2. CASE PieceFails(p)
    <3>1. writable'[p] = FALSE
      BY <2>2 DEF PieceFails, Flags
    <3>2. errorCollector'[p] = TRUE
      BY <2>2 DEF PieceFails, SendReturns, Collected, Flags
    <3>3. accepted' = accepted
      BY <2>2, <3>2 DEF PieceFails, SendReturns
    <3> QED
      BY <3>1, <3>3
  <2> QED
    BY <2>1, <2>2
<1>5. ASSUME NEW stream, NEW b, NEW c, Stream(p, q, stream, b, c)
      PROVE  Stream(p, q, stream, b, c)'
  <2>1. PICK w \in Nat : w = c + Count(wire[p])
    BY <1>1, <1>5, CountType DEF Stream, Units
  <2>2. /\ Ahead(p, stream, b, w) /\ Framed(stream, b, sent[p], FrameHash(q, stream))
    BY <1>5, <2>1 DEF Stream
  <2>3. b[accepted[p]] <= w
    BY <1>1, <2>2 DEF Ahead
  <2>4. CASE ~writable'[p] /\ accepted'[p] = accepted[p]
    BY <1>1, <1>2, <1>5, <2>1, <2>2, <2>3, <2>4
       DEF Ahead, InHandshake, Stream, Cut, Before, FrameHash
  <2>5. CASE /\ writable'[p] = writable[p] /\ writable[p] /\ out[p][1] = <<>>
             /\ accepted'[p] = accepted[p] \/ (out'[p] = <<>> /\ accepted'[p] = accepted[p] + 1)
    <3>1. Flat(out'[p]) = Flat(out[p])
      BY <1>1, <1>2, <2>5, FlatDrop
    <3>2. Window(Flat(out[p]), stream, w) /\ w + Count(Flat(out[p])) = Count(stream)
      BY <1>1, <2>2, <2>5 DEF Ahead
    <3>3. b[accepted'[p]] <= w
      <4>1. CASE accepted'[p] = accepted[p]
        BY <2>3, <4>1
      <4>2. CASE out'[p] = <<>> /\ accepted'[p] = accepted[p] + 1
        <5>1. Flat(out'[p]) = <<>>
          BY <4>2, EmptyCount DEF Flat
        <5>2. w = Count(stream)
          BY <2>1, <3>1, <3>2, <5>1, EmptyCount
        <5>3. PICK k : k = Count(sent[p]) /\ k \in Nat
          BY <1>1, CountType
        <5>4. PICK i : i = accepted[p] + 1 /\ i \in Nat
          BY <1>1
        <5>5. accepted[p] < k
          BY <1>1, <5>3 DEF Count
        <5>6. i \in 0..k /\ k \in 0..k /\ (i = k \/ i < k)
          BY <1>1, <5>3, <5>4, <5>5
        <5>7. b[k] = Count(stream) /\ b[i] \in Nat /\ b[k] \in Nat /\ (i < k => b[i] < b[k])
          BY <1>1, <2>2, <5>3, <5>6, FramedFacts
        <5>8. b[i] <= b[k]
          BY <5>6, <5>7
        <5> QED
          BY <4>2, <5>2, <5>4, <5>7, <5>8
      <4> QED
        BY <2>5, <4>1, <4>2
    <3>4. Ahead(p, stream, b, w)'
      BY <1>1, <1>2, <3>1, <3>2, <3>3 DEF Ahead, InHandshake
    <3> QED
      BY <1>2, <1>5, <2>1, <3>4 DEF Stream, Cut, Before, FrameHash
  <2> QED
    BY <1>4, <2>4, <2>5
<1> QED
  BY <1>2, <1>3, <1>5 DEF Direction, Listening, InHandshake, Fresh, Prefixed

LEMMA DirReadUnit ==
  ASSUME TypeInv, NEW p \in Peers, NEW q \in Peers, p # q, p = Other(q), Direction(p, q), ReadUnit(q)
  PROVE  Direction(p, q)'
<1> DEFINE u   == Head(wire[p])
           got == Append(recv[q].got, u)
<1>1. recv[q] \in Recvs /\ recv[q].got \in Units /\ wire[p] \in Units /\ wire[p] # <<>>
  BY DEF ReadUnit, TypeInv, Shapes, Recvs
<1>2. recv[q].state # "error" /\ phase[q] = "up"
  <2>1. Wanted(q) \in Nat
    BY <1>1 DEF Wanted, TypeInv, Shapes, Recvs
  <2>2. Wanted(q) # 0
    <3>1. Len(recv[q].got) \in Nat
      BY <1>1 DEF Units
    <3>2. Len(recv[q].got) < Wanted(q)
      BY DEF ReadUnit
    <3> QED
      BY <2>1, <3>1, <3>2
  <2> QED
    BY <2>2 DEF Wanted, TypeInv, RecvBounds
<1>3. /\ wire'[p] = Tail(wire[p]) /\ recv'[q] = [recv[q] EXCEPT !.got = got]
      /\ UNCHANGED <<phase, hashLength, writable, out, sent, accepted, delivered>>
  BY DEF ReadUnit, TypeInv, Shapes
<1>4. recv'[q].got = got /\ recv'[q].state = recv[q].state /\ recv'[q].index = recv[q].index
      /\ recv'[q].size = recv[q].size
  BY <1>1, <1>3 DEF Recvs
<1> HIDE DEF u, got
<1>5. ASSUME NEW stream, NEW b, NEW c, Stream(p, q, stream, b, c)
      PROVE  Stream(p, q, stream, b, c + 1)'
  <2>1. /\ c \in Nat /\ stream \in Units /\ Framed(stream, b, sent[p], FrameHash(q, stream))
        /\ Window(wire[p], stream, c) /\ Ahead(p, stream, b, c + Count(wire[p]))
        /\ Cut(p, q, stream, b, c)
    BY <1>2, <1>5 DEF Stream, Framed
  <2>2. /\ u = stream[c + 1] /\ u \in Nat /\ Window(wire'[p], stream, c + 1)
        /\ Count(wire[p]) \in Nat /\ Count(wire'[p]) = Count(wire[p]) - 1 /\ c + 1 <= Count(stream)
    BY <1>1, <1>3, <2>1, WindowTail DEF u
  <2>3. c + 1 + Count(wire'[p]) = c + Count(wire[p])
    <3>1. \A i \in Nat : c + 1 + (i - 1) = c + i
      BY <2>1
    <3> QED
      BY <2>2, <3>1
  <2>4. PICK d : d = Count(delivered[q]) /\ d \in 0..Count(sent[p])
    <3>1. Count(delivered[q]) \in Nat /\ Count(sent[p]) \in Nat
      BY CountType DEF TypeInv, Shapes
    <3> QED
      BY <3>1 DEF Direction, Prefixed
  <2>5. PICK e : e = b[d] + Before(q) /\ e \in Nat
    <3>1. b[d] \in Nat
      BY <2>1, <2>4, FramedFacts DEF TypeInv, Shapes
    <3>2. Sized(recv[q].index) \in Nat /\ hashLength[q] \in Nat
      BY DEF Sized, TypeInv, Shapes
    <3>3. Before(q) \in Nat
      BY <3>2 DEF Before
    <3> QED
      BY <3>1, <3>3
  <2>6. PICK g : g = Count(recv[q].got) /\ g \in Nat
    BY <1>1, CountType DEF Units
  <2>7. c = e + g /\ Window(recv[q].got, stream, e)
    BY <2>1, <2>4, <2>5, <2>6 DEF Cut
  <2>8. Window(got, stream, e) /\ Count(got) = g + 1
    <3>1. Ends(recv[q].got, g, e, c) /\ Follows(stream, c, u)
      BY <2>2, <2>6, <2>7 DEF Follows, Ends
    <3>2. Window(With(recv[q].got, u), stream, e) /\ Count(With(recv[q].got, u)) = g + 1
      <4>1. recv[q].got \in Units /\ u \in Nat /\ stream \in Units /\ c \in Nat
        BY <1>1, <2>1, <2>2
      <4> QED
        BY <2>5, <2>6, <2>7, <3>1, <4>1, WindowAppend
    <3> QED
      BY <3>2 DEF got, With
  <2>9. Before(q)' = Before(q)
    BY <1>3, <1>4 DEF Before
  <2>10. c + 1 = e + Count(got)
    BY <2>5, <2>6, <2>7, <2>8
  <2>11. Cut(p, q, stream, b, c + 1)'
    BY <1>3, <1>4, <2>1, <2>4, <2>5, <2>8, <2>9, <2>10 DEF Cut
  <2>12. Ahead(p, stream, b, c + 1 + Count(wire[p]))'
    BY <1>3, <2>1, <2>3 DEF Ahead, InHandshake
  <2>13. c + 1 \in Nat
    BY <2>1
  <2> QED
    BY <1>2, <1>3, <2>1, <2>2, <2>11, <2>12, <2>13 DEF Stream, FrameHash
<1> QED
  BY <1>3, <1>4, <1>5 DEF Direction, Listening, InHandshake, Fresh, Prefixed

\* recvWorker has all it asked for and goes on with the stream where it was.
LEMMA DirMoves ==
  ASSUME TypeInv, NEW p \in Peers, NEW q \in Peers, p # q, Direction(p, q),
         NEW next, Continue(q, next), recv[q].state # "error",
         \A r \in Peers : r # q => delivered'[r] = delivered[r],
         Prefixed(p, q)',
         \A stream, b, c : Stream(p, q, stream, b, c) => Cut(p, q, stream, b, c)'
  PROVE  Direction(p, q)'
<1>1. phase[q] = "up"
  BY DEF TypeInv, RecvBounds
<1>2. UNCHANGED <<phase, hashLength, wire, writable, out, sent, accepted>>
  BY DEF Continue, sending
<1>3. ASSUME NEW stream, NEW b, NEW c, Stream(p, q, stream, b, c)
      PROVE  Stream(p, q, stream, b, c)'
  <2>1. Cut(p, q, stream, b, c)'
    BY <1>3
  <2> QED
    BY <1>1, <1>2, <1>3, <2>1 DEF Stream, Ahead, InHandshake, FrameHash
<1> QED
  BY <1>1, <1>2, <1>3 DEF Direction, Listening, InHandshake, Fresh

\* The frame that a listening receiver is reading, once all of its hash has been read.
LEMMA CurrentFrame ==
  ASSUME TypeInv, NEW p \in Peers, NEW q \in Peers, p # q, Direction(p, q), phase[q] = "up",
         NEW stream, NEW b, NEW c, Stream(p, q, stream, b, c), NEW d, d = Count(delivered[q]),
         \/ recv[q].state = "hash" /\ Count(recv[q].got) = hashLength[q]
         \/ recv[q].state = "size" \/ recv[q].state = "payload"
  PROVE  LET x == sent[p][d + 1]
             l == hashLength[q] IN
         /\ d \in Nat /\ d + 1 \in 1..Count(sent[p]) /\ x \in Messages
         /\ b[d] \in Nat /\ b[d + 1] = b[d] + FrameLength(x, l) /\ FrameAt(stream, b[d], x, l)
<1> DEFINE x == sent[p][d + 1]
<1>1. /\ sent[p] \in Seq(Messages) /\ wire[p] \in Units /\ recv[q] \in Recvs
      /\ hashLength[q] \in 1..HashLengthMax[q]
  BY DEF TypeInv, Shapes, SendBounds
<1>2. PICK l \in Nat : l = hashLength[q] /\ l >= 1
  BY <1>1, Bounds
<1>3. PICK k \in Nat : k = Count(sent[p])
  BY <1>1, CountType
<1>4. d \in Nat /\ d <= k
  BY <1>3, CountType DEF Direction, Prefixed, TypeInv, Shapes
<1>5. /\ c \in Nat /\ Framed(stream, b, sent[p], l) /\ Window(wire[p], stream, c)
      /\ Cut(p, q, stream, b, c)
  BY <1>2 DEF Stream, FrameHash
<1>6. /\ Count(stream) = b[k] /\ b[d] \in Nat /\ b[k] \in Nat
      /\ \A i \in 1..k : b[i] = b[i - 1] + FrameLength(sent[p][i], l) /\ FrameAt(stream, b[i - 1], sent[p][i], l)
  <2>1. d \in 0..k /\ k \in 0..k
    BY <1>3, <1>4
  <2> QED
    BY <1>1, <1>3, <1>5, <2>1, FramedFacts
<1>7. d < k
  <2>1. CASE recv[q].state = "hash" /\ Count(recv[q].got) = hashLength[q]
    <3>1. c = b[d] + 0 + l
      BY <1>2, <1>5, <2>1 DEF Cut, Before
    <3>2. PICK n \in Nat : n = Count(wire[p])
      BY <1>1, CountType DEF Units
    <3>3. c + n <= b[k]
      BY <1>5, <1>6, <3>2 DEF Window
    <3>4. b[d] + l <= b[k]
      BY <1>5, <1>6, <3>1, <3>2, <3>3
    <3>5. b[d] # b[k]
      BY <1>2, <1>6, <3>4
    <3> QED
      BY <1>3, <1>4, <3>5
  <2>2. CASE recv[q].state = "size" \/ recv[q].state = "payload"
    BY <1>3, <1>5, <2>2 DEF Cut
  <2> QED
    BY <2>1, <2>2
<1>8. d + 1 \in 1..k /\ (d + 1) - 1 = d
  BY <1>3, <1>4, <1>7
<1>9. x \in Messages
  BY <1>1, <1>3, <1>8, ElementOfSeq DEF Count
<1> QED
  BY <1>2, <1>3, <1>4, <1>6, <1>8, <1>9

LEMMA KnownHash ==
  ASSUME TypeInv, LongEnough, NEW q \in Peers, NEW n \in Known(q), NEW m \in Ids,
         recv[q].got = HashPrefix(m, hashLength[q])
  PROVE  n = m
<1>1. n \in Ids /\ HashPrefix(n, hashLength[q]) = HashPrefix(m, hashLength[q])
  BY DEF Known, Ids
<1>2. PICK l \in MinLengths[q] : l <= hashLength[q]
  BY DEF LongEnough
<1>3. PICK h \in Nat : h = hashLength[q] /\ l \in Nat /\ l <= h /\ h <= HashLengthMax[q]
  <2>1. hashLength[q] \in Nat /\ hashLength[q] \in 1..HashLengthMax[q]
    BY DEF TypeInv, Shapes, SendBounds
  <2>2. l \in Nat /\ HashLengthMax[q] \in Nat
    BY MinLengthsType, Bounds
  <2> QED
    BY <1>2, <2>1, <2>2
<1>4. \A k \in Ids : \A j \in 1..h : Hash[k][j] \in Nat
  <2> SUFFICES ASSUME NEW k \in Ids, NEW j \in 1..h PROVE Hash[k][j] \in Nat
    OBVIOUS
  <2>1. Hash[k] \in Seq(Nat) /\ HashLengthMax[q] <= Len(Hash[k]) /\ HashLengthMax[q] \in Nat
    BY LinkAssumption
  <2>2. j \in 1..Len(Hash[k])
    BY <1>3, <2>1
  <2> QED
    BY <2>1, <2>2
<1>5. \A k \in Ids : \A i \in 0..h : /\ HashPrefix(k, i) \in Seq(Nat) /\ Len(HashPrefix(k, i)) = i
                                     /\ \A j \in 1..i : HashPrefix(k, i)[j] = Hash[k][j]
  <2> SUFFICES ASSUME NEW k \in Ids, NEW i \in 0..h
               PROVE  /\ HashPrefix(k, i) \in Seq(Nat) /\ Len(HashPrefix(k, i)) = i
                      /\ \A j \in 1..i : HashPrefix(k, i)[j] = Hash[k][j]
    OBVIOUS
  <2>1. \A j \in 1..i : Hash[k][j] \in Nat
    BY <1>3, <1>4
  <2> QED
    BY <2>1, SubSeqProperties DEF HashPrefix
<1>6. l \in 0..h /\ h \in 0..h /\ \A j \in 1..l : j \in 1..h
  BY <1>3
<1>7. \A j \in 1..h : Hash[n][j] = Hash[m][j]
  <2>1. HashPrefix(n, h) = HashPrefix(m, h)
    BY <1>1, <1>3
  <2>2. \A k \in Ids : \A j \in 1..h : HashPrefix(k, h)[j] = Hash[k][j]
    BY <1>5, <1>6
  <2> QED
    BY <1>1, <2>1, <2>2
<1>8. \A j \in 1..l : HashPrefix(n, l)[j] = HashPrefix(m, l)[j]
  BY <1>1, <1>5, <1>6, <1>7
<1>9. HashPrefix(n, l) = HashPrefix(m, l)
  BY <1>1, <1>5, <1>6, <1>8, SeqEqual
<1> QED
  BY <1>1, <1>2, <1>9, LinkAssumption

LEMMA DirGetIndex ==
  ASSUME TypeInv, LongEnough, NEW p \in Peers, NEW q \in Peers, p # q, Direction(p, q), GetIndexForHash(q)
  PROVE  Direction(p, q)'
<1>1. /\ recv[q] \in Recvs /\ recv[q].state = "hash" /\ phase[q] = "up" /\ delivered' = delivered
      /\ Count(recv[q].got) = hashLength[q] /\ recv[q].got \in Units /\ hashLength[q] \in 1..HashLengthMax[q]
  BY DEF GetIndexForHash, Received, Wanted, TypeInv, Shapes, SendBounds, RecvBounds, Recvs, Count
<1>2. Prefixed(p, q)'
  <2>1. UNCHANGED sent
    BY DEF GetIndexForHash, Continue, sending
  <2> QED
    BY <1>1, <2>1 DEF Direction, Prefixed
<1>3. CASE Continue(q, AtError)
  BY <1>1, <1>3, RecvTypes, DirEnds DEF Continue, sending, TypeInv, Shapes, Listening, InHandshake, Direction, Fresh
<1>4. ASSUME NEW n \in Known(q), NEW next, Continue(q, next),
             next = IF IsVariable[n] THEN In("size", n, 0) ELSE In("payload", n, Size[n])
      PROVE  Direction(p, q)'
  <2>1. ASSUME NEW stream, NEW b, NEW c, Stream(p, q, stream, b, c)
        PROVE  Cut(p, q, stream, b, c)'
    <3>1. PICK l \in Nat : l = hashLength[q]
      BY <1>1, Bounds
    <3>2. PICK d : d = Count(delivered[q])
      OBVIOUS
    <3>3. /\ d \in Nat /\ d + 1 \in 1..Count(sent[p]) /\ sent[p][d + 1] \in Messages
          /\ b[d] \in Nat /\ FrameAt(stream, b[d], sent[p][d + 1], l)
      BY <1>1, <2>1, <3>1, <3>2, CurrentFrame
    <3>4. PICK y \in Messages : y = sent[p][d + 1]
      BY <3>3
    <3>5. PICK e \in Nat : e = b[d]
      BY <3>3
    <3>6. Cut(p, q, stream, b, c) /\ c \in Nat /\ stream \in Units
      BY <1>1, <2>1 DEF Stream, Framed
    <3>7. c = e + 0 + l /\ Window(recv[q].got, stream, e + 0)
      BY <1>1, <3>1, <3>2, <3>5, <3>6 DEF Cut, Before
    <3>8. \A j \in 1..l : recv[q].got[j] = Hash[y[1]][j]
      <4>1. \A j \in 1..l : recv[q].got[j] = stream[e + 0 + j]
        BY <1>1, <3>1, <3>7 DEF Window
      <4>2. \A j \in 1..l : stream[e + j] = Hash[y[1]][j]
        BY <3>3, <3>4, <3>5 DEF FrameAt
      <4>3. e + 0 = e
        BY <3>5
      <4> QED
        BY <4>1, <4>2, <4>3
    <3>9. recv[q].got = HashPrefix(y[1], l)
      <4>1. y[1] \in Ids /\ l \in 1..HashLengthMax[q]
        BY <1>1, <3>1, MessageType
      <4>2. HashPrefix(y[1], l) \in Seq(Nat) /\ Len(HashPrefix(y[1], l)) = l
        BY <4>1, HashPrefixType
      <4>3. \A j \in 1..l : HashPrefix(y[1], l)[j] = Hash[y[1]][j]
        BY <3>1, <4>1, LinkAssumption DEF HashPrefix
      <4>4. Len(recv[q].got) = l /\ recv[q].got \in Seq(Nat)
        BY <1>1, <3>1 DEF Count, Units
      <4>5. \A j \in 1..Len(recv[q].got) : recv[q].got[j] = HashPrefix(y[1], l)[j]
        BY <3>8, <4>3, <4>4
      <4> QED
        BY <4>2, <4>4, <4>5, SeqEqual
    <3>10. n = y[1]
      BY <3>1, <3>9, KnownHash, MessageType
    <3>11. recv'[q] = next /\ hashLength'[q] = hashLength[q] /\ sent'[p] = sent[p]
      BY <1>4 DEF Continue, sending, TypeInv, Shapes
    <3>12. /\ next.got = <<>> /\ next.index = n
           /\ next.state = IF IsVariable[n] THEN "size" ELSE "payload"
           /\ ~IsVariable[n] => next.size = Size[n]
      BY <1>4 DEF In
    <3>13. Before(q)' = l
      <4>1. ~IsVariable[n] => Sized(n) = 0
        BY DEF Sized
      <4>2. l + 0 = l
        BY <3>1
      <4> QED
        BY <3>1, <3>11, <3>12, <4>1, <4>2 DEF Before
    <3>14. c = e + l + 0 /\ c = e + l
      BY <3>1, <3>5, <3>7
    <3>15. Window(<<>>, stream, e + l)
      <4>1. PICK w \in Nat : w = Count(wire[p])
        BY CountType DEF TypeInv, Shapes, Units
      <4>2. c + w <= Count(stream) /\ Count(stream) \in Nat
        BY <2>1, <3>6, <4>1, CountType DEF Stream, Window, Units
      <4>3. c <= Count(stream)
        BY <3>6, <4>1, <4>2
      <4> QED
        BY <3>6, <3>14, <4>3, WindowEmpty
    <3>16. ~IsVariable[n] => Size[n] = Len(y[2])
      BY <3>10 DEF Messages, Fits
    <3>17. d < Count(sent[p])
      <4>1. PICK k \in Nat : k = Count(sent[p])
        BY CountType DEF TypeInv, Shapes
      <4> QED
        BY <3>3, <4>1
    <3> QED
      BY <1>1, <3>2, <3>4, <3>5, <3>10, <3>11, <3>12, <3>13, <3>14, <3>15, <3>16, <3>17, EmptyCount DEF Cut
  <2> QED
    BY <1>1, <1>2, <1>4, <2>1, DirMoves
<1> QED
  BY <1>3, <1>4 DEF GetIndexForHash

LEMMA DirGetSize ==
  ASSUME TypeInv, NEW p \in Peers, NEW q \in Peers, p # q, Direction(p, q), GetMessageSize(q)
  PROVE  Direction(p, q)'
<1>1. /\ recv[q] \in Recvs /\ recv[q].state = "size" /\ phase[q] = "up" /\ delivered' = delivered
      /\ Count(recv[q].got) = 1 /\ hashLength[q] \in 1..HashLengthMax[q]
  BY DEF GetMessageSize, Received, Wanted, TypeInv, Shapes, SendBounds, RecvBounds, Count
<1>2. Prefixed(p, q)'
  <2>1. UNCHANGED sent
    BY DEF GetMessageSize, Continue, sending
  <2> QED
    BY <1>1, <2>1 DEF Direction, Prefixed
<1>3. CASE Continue(q, AtError)
  BY <1>1, <1>3, RecvTypes, DirEnds DEF Continue, sending, TypeInv, Shapes, Listening, InHandshake, Direction, Fresh
<1>4. ASSUME NEW next, Continue(q, next), next = In("payload", recv[q].index, recv[q].got[1])
      PROVE  Direction(p, q)'
  <2>1. ASSUME NEW stream, NEW b, NEW c, Stream(p, q, stream, b, c)
        PROVE  Cut(p, q, stream, b, c)'
    <3>1. PICK l \in Nat : l = hashLength[q]
      BY <1>1, Bounds
    <3>2. PICK d : d = Count(delivered[q])
      OBVIOUS
    <3>3. /\ d \in Nat /\ d + 1 \in 1..Count(sent[p]) /\ sent[p][d + 1] \in Messages
          /\ b[d] \in Nat /\ FrameAt(stream, b[d], sent[p][d + 1], l)
      BY <1>1, <2>1, <3>1, <3>2, CurrentFrame
    <3>4. PICK y \in Messages : y = sent[p][d + 1]
      BY <3>3
    <3>5. PICK e \in Nat : e = b[d]
      BY <3>3
    <3>6. Cut(p, q, stream, b, c) /\ c \in Nat /\ stream \in Units
      BY <1>1, <2>1 DEF Stream, Framed
    <3>7. /\ c = e + l + 1 /\ Window(recv[q].got, stream, e + l)
          /\ recv[q].index = y[1] /\ IsVariable[y[1]] /\ d < Count(sent[p])
      BY <1>1, <3>1, <3>2, <3>4, <3>5, <3>6 DEF Cut, Before
    <3>8. recv[q].got[1] = Len(y[2])
      <4>1. 1 \in 1..1
        OBVIOUS
      <4>2. recv[q].got[1] = stream[e + l + 1]
        BY <1>1, <3>7, <4>1 DEF Window
      <4>3. stream[e + l + 1] = Len(y[2])
        BY <3>3, <3>4, <3>5, <3>7 DEF FrameAt
      <4> QED
        BY <4>2, <4>3
    <3>9. recv'[q] = next /\ hashLength'[q] = hashLength[q] /\ sent'[p] = sent[p]
      BY <1>4 DEF Continue, sending, TypeInv, Shapes
    <3>10. next.got = <<>> /\ next.index = y[1] /\ next.state = "payload" /\ next.size = Len(y[2])
      BY <1>4, <3>7, <3>8 DEF In
    <3>11. Before(q)' = l + 1
      BY <3>1, <3>7, <3>9, <3>10 DEF Before, Sized
    <3>12. c = e + (l + 1) + 0 /\ c = e + (l + 1)
      BY <3>1, <3>5, <3>7
    <3>13. Window(<<>>, stream, e + (l + 1))
      <4>1. PICK w \in Nat : w = Count(wire[p])
        BY CountType DEF TypeInv, Shapes, Units
      <4>2. c + w <= Count(stream) /\ Count(stream) \in Nat
        BY <2>1, <3>6, <4>1, CountType DEF Stream, Window, Units
      <4>3. c <= Count(stream)
        BY <3>6, <4>1, <4>2
      <4> QED
        BY <3>6, <3>12, <4>3, WindowEmpty
    <3> QED
      BY <1>1, <3>2, <3>4, <3>5, <3>7, <3>9, <3>10, <3>11, <3>12, <3>13, EmptyCount DEF Cut
  <2> QED
    BY <1>1, <1>2, <1>4, <2>1, DirMoves
<1> QED
  BY <1>3, <1>4 DEF GetMessageSize

\* What recvWorker hands to the delegate is the next message sent.
LEMMA DeliversNext ==
  ASSUME TypeInv, NEW p \in Peers, NEW q \in Peers, p # q, Direction(p, q), Received(q, "payload")
  PROVE  /\ Count(delivered[q]) + 1 \in 1..Count(sent[p])
         /\ sent[p][Count(delivered[q]) + 1] \in Messages
         /\ <<recv[q].index, recv[q].got>> = sent[p][Count(delivered[q]) + 1]
<1>1. /\ recv[q] \in Recvs /\ recv[q].state = "payload" /\ phase[q] = "up" /\ recv[q].got \in Units
      /\ Count(recv[q].got) = recv[q].size /\ hashLength[q] \in 1..HashLengthMax[q]
  BY DEF Received, Wanted, TypeInv, Shapes, SendBounds, RecvBounds, Recvs, Count
<1>2. PICK stream, b, c : Stream(p, q, stream, b, c)
  BY <1>1 DEF Direction, Listening
<1>3. PICK l \in Nat : l = hashLength[q]
  BY <1>1, Bounds
<1>4. PICK d : d = Count(delivered[q])
  OBVIOUS
<1>5. /\ d \in Nat /\ d + 1 \in 1..Count(sent[p]) /\ sent[p][d + 1] \in Messages
      /\ b[d] \in Nat /\ FrameAt(stream, b[d], sent[p][d + 1], l)
  BY <1>1, <1>2, <1>3, <1>4, CurrentFrame
<1>6. PICK y \in Messages : y = sent[p][d + 1]
  BY <1>5
<1>7. PICK e \in Nat : e = b[d]
  BY <1>5
<1>8. PICK z \in Nat : z = Sized(y[1])
  BY MessageType
<1>9. PICK k \in Nat : k = Len(y[2])
  BY MessageType
<1>10. Cut(p, q, stream, b, c)
  BY <1>1, <1>2 DEF Stream
<1>11. recv[q].index = y[1] /\ Count(recv[q].got) = k
  BY <1>1, <1>4, <1>6, <1>9, <1>10 DEF Cut
<1>12. Window(recv[q].got, stream, e + (l + z))
  BY <1>1, <1>3, <1>4, <1>7, <1>8, <1>10, <1>11 DEF Cut, Before
<1>13. \A j \in 1..k : recv[q].got[j] = stream[e + (l + z) + j]
  BY <1>11, <1>12 DEF Window
<1>14. \A j \in 1..k : stream[e + l + z + j] = y[2][j]
  BY <1>5, <1>6, <1>7, <1>8, <1>9 DEF FrameAt
<1>15. e + (l + z) = e + l + z
  BY <1>3, <1>7, <1>8
<1>16. \A j \in 1..k : recv[q].got[j] = y[2][j]
  BY <1>13, <1>14, <1>15
<1>17. recv[q].got = y[2]
  <2>1. recv[q].got \in Seq(Nat) /\ y[2] \in Seq(Nat) /\ Len(recv[q].got) = k /\ Len(y[2]) = k
    BY <1>1, <1>9, <1>11, MessageType DEF Units, Count
  <2> QED
    BY <1>16, <2>1, SeqEqual
<1>18. y = <<y[1], y[2]>>
  BY DEF Messages
<1> QED
  BY <1>4, <1>5, <1>6, <1>11, <1>17, <1>18

LEMMA DirCallDelegate ==
  ASSUME TypeInv, NEW p \in Peers, NEW q \in Peers, p # q, Direction(p, q), CallDelegate(q)
  PROVE  Direction(p, q)'
<1>1. /\ recv[q] \in Recvs /\ recv[q].state = "payload" /\ phase[q] = "up" /\ recv[q].got \in Units
      /\ Count(recv[q].got) = recv[q].size /\ hashLength[q] \in 1..HashLengthMax[q]
      /\ Received(q, "payload") /\ Continue(q, AtHash)
  BY DEF CallDelegate, Received, Wanted, TypeInv, Shapes, SendBounds, RecvBounds, Recvs, Count
<1>2. PICK x : x = <<recv[q].index, recv[q].got>>
  OBVIOUS
<1>3. PICK d : d = Count(delivered[q])
  OBVIOUS
<1>4. d + 1 \in 1..Count(sent[p]) /\ x = sent[p][d + 1] /\ x \in Messages
  BY <1>1, <1>2, <1>3, DeliversNext
<1>5. PICK k \in Nat : k = Count(sent[p])
  BY CountType DEF TypeInv, Shapes
<1>6. d \in Nat /\ delivered[q] \in Seq(Ids \X Units) /\ recv[q].index \in Ids
  BY <1>1, <1>3, CountType DEF TypeInv, Shapes, RecvBounds, Ids
<1>7. /\ delivered'[q] = Append(delivered[q], x) /\ sent' = sent /\ hashLength' = hashLength
      /\ recv'[q] = AtHash /\ \A r \in Peers : r # q => delivered'[r] = delivered[r]
  BY <1>1, <1>2 DEF CallDelegate, Continue, sending, TypeInv, Shapes
<1>8. /\ Count(delivered'[q]) = d + 1 /\ delivered'[q][d + 1] = x
      /\ \A i \in 1..d : delivered'[q][i] = delivered[q][i]
  <2>1. x \in Ids \X Units
    BY <1>1, <1>2, <1>6
  <2> QED
    BY <1>3, <1>6, <1>7, <2>1, AppendProperties DEF Count
<1>9. Prefixed(p, q)'
  <2>1. d + 1 <= k /\ \A i \in 1..d + 1 : i \in 1..d \/ i = d + 1
    BY <1>4, <1>5, <1>6
  <2>2. \A i \in 1..d : delivered[q][i] = sent[p][i]
    BY <1>3 DEF Direction, Prefixed
  <2> QED
    BY <1>4, <1>5, <1>7, <1>8, <2>1, <2>2 DEF Prefixed
<1>10. ASSUME NEW stream, NEW b, NEW c, Stream(p, q, stream, b, c)
       PROVE  Cut(p, q, stream, b, c)'
  <2>1. PICK l \in Nat : l = hashLength[q]
    BY <1>1, Bounds
  <2>2. b[d] \in Nat /\ b[d + 1] = b[d] + FrameLength(x, l)
    BY <1>1, <1>3, <1>4, <1>10, <2>1, CurrentFrame
  <2>3. PICK e \in Nat : e = b[d]
    BY <2>2
  <2>4. PICK z \in Nat : z = Sized(x[1])
    BY <1>4, MessageType
  <2>5. PICK h \in Nat : h = Len(x[2])
    BY <1>4, MessageType
  <2>6. Cut(p, q, stream, b, c) /\ c \in Nat /\ stream \in Units
    BY <1>1, <1>10 DEF Stream, Framed
  <2>7. c = e + (l + z) + h
    BY <1>1, <1>2, <1>3, <1>4, <2>1, <2>3, <2>4, <2>5, <2>6 DEF Cut, Before
  <2>8. b[d + 1] = e + (l + z + h)
    BY <2>2, <2>3, <2>4, <2>5 DEF FrameLength
  <2>9. c = b[d + 1] /\ c + 0 = c /\ c + 0 + 0 = c
    <3> HIDE <2>1, <2>3, <2>4, <2>5
    <3>1. e + (l + z) + h = e + (l + z + h)
      OBVIOUS
    <3> QED
      BY <2>6, <2>7, <2>8, <3>1
  <2>10. Before(q)' = 0 /\ AtHash.got = <<>> /\ AtHash.state = "hash"
    BY <1>7, RecvTypes DEF Before
  <2>11. Window(<<>>, stream, c)
    <3>1. PICK w \in Nat : w = Count(wire[p])
      BY CountType DEF TypeInv, Shapes, Units
    <3>2. c + w <= Count(stream) /\ Count(stream) \in Nat
      BY <1>10, <2>6, <3>1, CountType DEF Stream, Window, Units
    <3>3. c <= Count(stream)
      BY <2>6, <3>1, <3>2
    <3> QED
      BY <2>6, <3>3, WindowEmpty
  <2> QED
    BY <1>7, <1>8, <2>9, <2>10, <2>11, EmptyCount DEF Cut
<1> QED
  BY <1>1, <1>7, <1>9, <1>10, DirMoves

LEMMA DirInit ==
  ASSUME Init, NEW p \in Peers, NEW q \in Peers
  PROVE  Direction(p, q)
<1>1. /\ phase[p] = "closed" /\ phase[q] = "closed" /\ recv[q].state = "error" /\ out[p] = <<>>
      /\ sent[p] = <<>> /\ delivered[q] = <<>>
  BY RecvTypes DEF Init, All
<1> QED
  BY <1>1, EmptyCount DEF Direction, Listening, InHandshake, Fresh, Prefixed

\* The steps of q as a receiver.
LEMMA DirReceiver ==
  ASSUME TypeInv, LongEnough, NEW p \in Peers, NEW q \in Peers, p # q, p = Other(q), Direction(p, q),
         Receiver(q) \/ RecvFails(q) \/ Close(q)
  PROVE  Direction(p, q)'
<1>1. CASE Receiver(q)
  BY <1>1, DirReadUnit, DirGetIndex, DirGetSize, DirCallDelegate DEF Receiver
<1>2. CASE RecvFails(q)
  <2>1. recv[q].state # "error" /\ phase[q] = "up"
    BY <1>2 DEF RecvFails, TypeInv, RecvBounds
  <2>2. recv'[q].state = "error" /\ UNCHANGED <<phase, out, sent, delivered>>
    BY <1>2, RecvTypes DEF RecvFails, Continue, sending, TypeInv, Shapes
  <2> QED
    BY <2>1, <2>2, DirEnds DEF Direction, Listening, InHandshake, Fresh
<1>3. CASE Close(q)
  <2>1. /\ recv'[q].state = "error" /\ phase'[q] = "closed" /\ phase'[p] = phase[p]
        /\ out'[p] = out[p] /\ UNCHANGED <<sent, delivered>>
    BY <1>3, RecvTypes DEF Close, Leave, TypeInv, Shapes
  <2> QED
    BY <2>1, DirEnds DEF Direction, Listening, InHandshake, Fresh
<1> QED
  BY <1>1, <1>2, <1>3

\* What q does as a sender, and p as a receiver, is no step of the direction.
LEMMA DirOtherWay ==
  ASSUME TypeInv, Flags, NEW p \in Peers, NEW q \in Peers, p # q, q = Other(p), p = Other(q), Direction(p, q),
         \/ \E n \in Ids, m \in Payloads : Send(q, n, m)
         \/ Sender(q) \/ PieceFails(q) \/ HandshakeSendHashLength(q)
         \/ Receiver(p) \/ RecvFails(p)
  PROVE  Direction(p, q)'
<1>1. ASSUME NEW n \in Ids, NEW m \in Payloads, Send(q, n, m) PROVE Direction(p, q)'
  <2>1. phase[q] = "up"
    BY <1>1 DEF Send
  <2> QED
    BY <1>1, <2>1, DirKept DEF Send, receiving, InHandshake, TypeInv, Shapes
<1>2. CASE WriteUnit(q)
  BY <1>2, DirKept DEF WriteUnit, receiving, TypeInv, Shapes
<1>3. CASE PieceSent(q) \/ PieceFails(q)
  <2>1. /\ writable'[p] = writable[p] /\ out'[p] = out[p] /\ accepted'[p] = accepted[p]
        /\ UNCHANGED <<phase, hashLength, wire, sent, recv, delivered>>
    <3>1. writable'[p] = writable[p]
      BY <1>3 DEF PieceSent, PieceFails, Flags
    <3>2. SendReturns(q, FALSE) \/ SendReturns(q, TRUE)
      BY <1>3 DEF PieceSent, PieceFails
    <3> QED
      BY <3>1, <3>2 DEF SendReturns, receiving, TypeInv, Shapes
  <2> QED
    BY <2>1, DirKept
<1>4. CASE HandshakeSendHashLength(q)
  <2>1. /\ phase[q] = "connected" /\ phase'[q] = "recvLength" /\ phase'[p] = phase[p]
        /\ wire'[p] = wire[p] /\ UNCHANGED <<hashLength, writable, out, sent, accepted, recv, delivered>>
    BY <1>4 DEF HandshakeSendHashLength, receiving, TypeInv, Shapes
  <2>2. \A stream, b, c : Stream(p, q, stream, b, c) => Stream(p, q, stream, b, c)'
    BY <2>1 DEF Stream, Ahead, FrameHash, InHandshake
  <2> QED
    BY <2>1, <2>2 DEF Direction, Listening, InHandshake, Fresh, Prefixed
<1>5. CASE ReadUnit(p)
  <2>1. /\ recv'[q] = recv[q] /\ wire'[p] = wire[p]
        /\ UNCHANGED <<phase, hashLength, writable, out, sent, accepted, delivered>>
    BY <1>5 DEF ReadUnit, TypeInv, Shapes
  <2> QED
    BY <2>1, DirKept
<1>6. ASSUME NEW next, Continue(p, next), recv[p].state # "error", delivered'[q] = delivered[q]
      PROVE  Direction(p, q)'
  <2>1. phase[p] = "up"
    BY <1>6 DEF TypeInv, RecvBounds
  <2>2. /\ recv'[q] = recv[q]
        /\ UNCHANGED <<phase, hashLength, wire, writable, out, sent, accepted>>
    BY <1>6 DEF Continue, sending, TypeInv, Shapes
  <2> QED
    BY <1>6, <2>1, <2>2, DirKept DEF InHandshake
<1>7. CASE GetIndexForHash(p)
  BY <1>6, <1>7 DEF GetIndexForHash, Received
<1>8. CASE GetMessageSize(p)
  BY <1>6, <1>8 DEF GetMessageSize, Received
<1>9. CASE CallDelegate(p)
  BY <1>6, <1>9 DEF CallDelegate, Received, TypeInv, Shapes
<1>10. CASE RecvFails(p)
  BY <1>6, <1>10 DEF RecvFails
<1> QED
  BY <1>1, <1>2, <1>3, <1>4, <1>5, <1>7, <1>8, <1>9, <1>10 DEF Sender, Receiver

LEMMA DirInitEndpoint ==
  ASSUME TypeInv, NEW p \in Peers, NEW q \in Peers, p # q, Direction(p, q), NEW r \in Peers, InitEndpoint(r)
  PROVE  Direction(p, q)'
<1>1. /\ phase[r] = "closed" /\ \A x \in Peers : x # r => hashLength'[x] = hashLength[x]
      /\ UNCHANGED <<phase, wire, writable, out, sent, accepted, recv, delivered>>
  BY DEF InitEndpoint, sending, receiving, TypeInv, Shapes
<1>2. CASE r = q
  <2>1. ~Listening(q) /\ ~Listening(q)'
    BY <1>1, <1>2 DEF Listening, InHandshake, TypeInv, RecvBounds
  <2> QED
    BY <1>1, <2>1, DirEnds DEF Direction, Fresh, InHandshake
<1>3. CASE r # q
  BY <1>1, <1>3, DirKept DEF InHandshake
<1> QED
  BY <1>2, <1>3

Directions == \A p \in Peers : Direction(p, Other(p))

LEMMA DirectionStep ==
  ASSUME Failures = "closing"
  PROVE  TypeInv /\ Flags /\ Agreement /\ Directions /\ [Next]_vars => Directions'
<1> SUFFICES ASSUME TypeInv, Flags, Agreement, Directions, [Next]_vars, NEW p \in Peers
             PROVE  Direction(p, Other(p))'
  BY DEF Directions
<1>p. PICK q \in Peers : q = Other(p) /\ p # q /\ p = Other(q) /\ \A r \in Peers : r = p \/ r = q
  BY TwoPeers
<1>d. Direction(p, q) /\ Greeting(p, q) /\ Greeting(q, p) /\ LongEnough
  BY <1>p DEF Agreement, Directions
<1> SUFFICES Direction(p, q)'
  BY <1>p
<1>1. CASE Connect
  BY <1>1, <1>p, DirConnect DEF TypeInv, Shapes, SendBounds, Leftover
<1>2. ASSUME NEW r \in Peers, InitEndpoint(r) PROVE Direction(p, q)'
  BY <1>2, <1>p, <1>d, DirInitEndpoint
<1>3. ASSUME NEW r \in Peers, Close(r) PROVE Direction(p, q)'
  BY <1>3, <1>p, <1>d, DirCloseSender, DirReceiver
<1>4. ASSUME NEW r \in Peers, HandshakeSendHashLength(r) PROVE Direction(p, q)'
  BY <1>4, <1>p, <1>d, DirHandshakeSend, DirOtherWay
<1>5. ASSUME NEW r \in Peers, HandshakeHandleHashLengthRecv(r) PROVE Direction(p, q)'
  BY <1>5, <1>p, <1>d, DirHandshakeRecvSender, DirHandshakeRecvReceiver
<1>6. ASSUME NEW r \in Peers, NEW n \in Ids, NEW m \in Payloads, Send(r, n, m) PROVE Direction(p, q)'
  BY <1>6, <1>p, <1>d, DirSend, DirOtherWay
<1>7. ASSUME NEW r \in Peers, Sender(r) \/ PieceFails(r) PROVE Direction(p, q)'
  BY <1>7, <1>p, <1>d, DirWriteUnit, DirSendReturns, DirOtherWay DEF Sender
<1>8. ASSUME NEW r \in Peers, Receiver(r) \/ RecvFails(r) PROVE Direction(p, q)'
  BY <1>8, <1>p, <1>d, DirReceiver, DirOtherWay
<1>9. CASE UNCHANGED vars
  BY <1>9, <1>p, <1>d, DirKept DEF vars, sending, receiving
<1> QED
  BY <1>1, <1>2, <1>3, <1>4, <1>5, <1>6, <1>7, <1>8, <1>9 DEF Next

LEMMA DirectionInvariant ==
  ASSUME Failures = "closing"
  PROVE  Spec => []Directions
<1>1. Init => Directions
  BY DirInit, TwoPeers DEF Directions
<1> QED
  BY <1>1, DirectionStep, TypeInvariant, FlagsInvariant, AgreementInvariant, PTL DEF Spec

\* Whatever the state was, a connection begins in order.
LEMMA Connected ==
  ASSUME Leftover, LongEnough, Connect
  PROVE  TypeInv' /\ Agreement' /\ Directions'
<1>1. Agreement'
  BY TwoPeers DEF Connect, All, Agreement, Greeting, LongEnough
<1>2. Directions'
  BY DirConnect, TwoPeers DEF Directions
<1> QED
  BY <1>1, <1>2, TypeInvConnect

\* When a connection that failed stays failed, a receiver that waits at a message boundary
\* with nothing in flight has delivered every message whose send() returned 0.
THEOREM NothingLostSilently ==
  ASSUME Failures = "closing"
  PROVE  Spec => []NoSilentLoss
<1>1. TypeInv /\ Directions => NoSilentLoss
  <2> SUFFICES ASSUME TypeInv, Directions,
                      NEW p \in Peers, phase[p] = "up", wire[p] = <<>>, recv[Other(p)] = AtHash
               PROVE  Len(delivered[Other(p)]) >= accepted[p]
    BY DEF NoSilentLoss
  <2>1. PICK q \in Peers : q = Other(p)
    BY TwoPeers
  <2>2. /\ recv[q].state = "hash" /\ recv[q].got = <<>> /\ phase[q] = "up"
        /\ sent[p] \in Seq(Messages) /\ delivered[q] \in Seq(Ids \X Units)
    BY <2>1, RecvTypes DEF TypeInv, Shapes, RecvBounds
  <2>3. Direction(p, q)
    BY <2>1 DEF Directions
  <2>4. PICK stream, b, c : Stream(p, q, stream, b, c)
    BY <2>2, <2>3 DEF Direction, Listening
  <2>5. PICK d \in Nat : d = Count(delivered[q])
    BY <2>2, CountType
  <2>6. PICK a \in Nat : a = accepted[p]
    BY DEF TypeInv, Shapes
  <2>7. PICK k \in Nat : k = Count(sent[p])
    BY <2>2, CountType
  <2>8. d \in 0..k /\ a \in 0..k
    <3>1. d <= k
      BY <2>3, <2>5, <2>7 DEF Direction, Prefixed
    <3>2. a <= k
      BY <2>6, <2>7 DEF TypeInv, SendBounds, Count
    <3> QED
      BY <3>1, <3>2
  <2>9. b[d] \in Nat /\ b[a] \in Nat /\ (d < a => b[d] < b[a])
    <3>1. PICK l : Framed(stream, b, sent[p], l)
      BY <2>4 DEF Stream
    <3> QED
      BY <2>2, <2>7, <2>8, <3>1, FramedFacts
  <2>10. c = b[d] + 0 + 0 /\ b[a] <= c + 0
    BY <2>2, <2>4, <2>5, <2>6, EmptyCount DEF Stream, Cut, Ahead, Before
  <2>11. b[a] <= b[d]
    BY <2>9, <2>10
  <2>12. d >= a
    BY <2>5, <2>6, <2>9, <2>11
  <2> QED
    BY <2>1, <2>5, <2>6, <2>12 DEF Count
<1> QED
  BY <1>1, TypeInvariant, DirectionInvariant, PTL

(***************************************************************************)
(* The endpoints implement MessageChannel.                                 *)
(***************************************************************************)

LEMMA ChannelSteps ==
  ASSUME TypeInv, Directions, [Next]_vars
  PROVE  [Channel!Next]_<<sent, delivered>>
<1>1. CASE Connect
  BY <1>1 DEF Connect, All, Channel!Next, Channel!Connect
<1>2. ASSUME NEW r \in Peers, InitEndpoint(r) \/ Close(r) PROVE UNCHANGED <<sent, delivered>>
  BY <1>2 DEF InitEndpoint, Close, sending, receiving
<1>3. ASSUME NEW r \in Peers, HandshakeSendHashLength(r) \/ HandshakeHandleHashLengthRecv(r)
      PROVE UNCHANGED <<sent, delivered>>
  BY <1>3 DEF HandshakeSendHashLength, HandshakeHandleHashLengthRecv, receiving
<1>4. ASSUME NEW r \in Peers, NEW n \in Ids, NEW m \in Payloads, Send(r, n, m)
      PROVE  Channel!Send(r)
  <2>1. <<n, m>> \in Messages
    BY <1>4 DEF Send, Messages
  <2>2. /\ sent' = [sent EXCEPT ![r] = Append(sent[r], <<n, m>>)] /\ UNCHANGED delivered
    BY <1>4 DEF Send, receiving
  <2> QED
    BY <2>1, <2>2 DEF Channel!Send
<1>5. ASSUME NEW r \in Peers, Sender(r) \/ PieceFails(r) PROVE UNCHANGED <<sent, delivered>>
  BY <1>5 DEF Sender, WriteUnit, PieceSent, PieceFails, SendReturns, receiving
<1>6. ASSUME NEW r \in Peers, ReadUnit(r) \/ GetIndexForHash(r) \/ GetMessageSize(r) \/ RecvFails(r)
      PROVE UNCHANGED <<sent, delivered>>
  BY <1>6 DEF ReadUnit, GetIndexForHash, GetMessageSize, RecvFails, Continue, sending
<1>7. ASSUME NEW r \in Peers, CallDelegate(r) PROVE Channel!Deliver(r)
  <2>1. PICK p \in Peers : p = Other(r) /\ p # r /\ r = Other(p)
    BY TwoPeers
  <2>2. PICK d \in Nat : d = Count(delivered[r])
    BY CountType DEF TypeInv, Shapes
  <2>3. d + 1 \in 1..Count(sent[p]) /\ <<recv[r].index, recv[r].got>> = sent[p][d + 1]
    BY <1>7, <2>1, <2>2, DeliversNext DEF CallDelegate, Directions
  <2>4. PICK k \in Nat : k = Count(sent[p])
    BY CountType DEF TypeInv, Shapes
  <2>5. d + 1 <= k
    BY <2>2, <2>3, <2>4
  <2>6. delivered' = [delivered EXCEPT ![r] = Append(delivered[r], sent[p][d + 1])] /\ UNCHANGED sent
    BY <1>7, <2>3 DEF CallDelegate, Continue, sending
  <2>7. Channel!Other(r) = p
    BY <2>1 DEF Channel!Other, Other
  <2> QED
    BY <2>2, <2>4, <2>5, <2>6, <2>7 DEF Channel!Deliver, Count
<1>8. CASE UNCHANGED vars
  BY <1>8 DEF vars, receiving, sending
<1> QED
  BY <1>1, <1>2, <1>3, <1>4, <1>5, <1>6, <1>7, <1>8 DEF Next, Receiver, Channel!Next

\* Every behaviour of the endpoints is one of the channel, step by step: what recvWorker
\* hands to a delegate is the next message of the peer's send() calls.
THEOREM Refinement ==
  ASSUME Failures = "closing"
  PROVE  Spec => ImplementsChannel
<1>1. Init => Channel!Init
  BY DEF Init, All, Channel!Init
<1>2. TypeInv /\ Directions /\ [Next]_vars
         => [Channel!Next]_<<sent, delivered>>
  BY ChannelSteps
<1> QED
  BY <1>1, <1>2, TypeInvariant, DirectionInvariant, PTL DEF Spec, ImplementsChannel, Channel!Spec
=============================================================================
