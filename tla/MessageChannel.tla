--------------------------- MODULE MessageChannel ---------------------------
(***************************************************************************)
(* What a nadam connection promises: in each direction the delegates of    *)
(* the receiver are called with the messages the peer's send() was called  *)
(* with, in that order, each at most once, none invented or altered.  A    *)
(* tail may be missing: receiving can stop at any message.                 *)
(***************************************************************************)
EXTENDS Naturals, Sequences

CONSTANTS Peers, Messages

VARIABLES
    sent,       \* messages p's send() was called with on this connection
    delivered   \* messages p's delegates were called with on this connection

Other(p) == CHOOSE q \in Peers : q # p

Init ==
    /\ sent = [p \in Peers |-> <<>>]
    /\ delivered = [p \in Peers |-> <<>>]

Connect ==
    /\ sent' = [p \in Peers |-> <<>>]
    /\ delivered' = [p \in Peers |-> <<>>]

Send(p) ==
    /\ \E m \in Messages : sent' = [sent EXCEPT ![p] = Append(@, m)]
    /\ UNCHANGED delivered

Deliver(p) ==
    LET next == Len(delivered[p]) + 1 IN
    /\ next <= Len(sent[Other(p)])
    /\ delivered' = [delivered EXCEPT ![p] = Append(@, sent[Other(p)][next])]
    /\ UNCHANGED sent

Next == Connect \/ \E p \in Peers : Send(p) \/ Deliver(p)

Spec == Init /\ [][Next]_<<sent, delivered>>
=============================================================================
