--------------------------- MODULE PaddedMessage ---------------------------
(***************************************************************************)
(* What a SHA1 object promises, short of the compression function: finish  *)
(* digests the bytes put since start, however they were cut into puts,     *)
(* padded as the standard says: a 1 bit, zeros up to the place of the      *)
(* length, the length in bits.  The object is dirty afterwards: without a  *)
(* start the padding is part of the next message.                          *)
(***************************************************************************)
EXTENDS Naturals, Sequences

CONSTANTS
    Bytes,         \* of messages
    One, Nought,   \* the bytes of the padding
    BlockBytes,    \* bytes of a block
    WordValues     \* the length is two words of this many values

VARIABLES
    msg,       \* bytes put since start
    digested   \* the padded message digested last since start

\* The shortest run of zeros that leaves room for the length in the last block.
Zeros(n) == CHOOSE k \in 0..BlockBytes - 1 : (n + 1 + k + 2) % BlockBytes = 0

Words(bits) == <<(bits \div WordValues) % WordValues, bits % WordValues>>

Padded(m) == m \o <<One>> \o [i \in 1..Zeros(Len(m)) |-> Nought] \o Words(8 * Len(m))

Init == msg = <<>> /\ digested = <<>>

Start == msg' = <<>> /\ digested' = <<>>

Put ==
    /\ Len(msg') >= Len(msg) /\ SubSeq(msg', 1, Len(msg)) = msg
    /\ \A i \in Len(msg) + 1..Len(msg') : msg'[i] \in Bytes
    /\ UNCHANGED digested

Finish == msg' = Padded(msg) /\ digested' = Padded(msg)

Next == Start \/ Put \/ Finish

Spec == Init /\ [][Next]_<<msg, digested>>
=============================================================================
