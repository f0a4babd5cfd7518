---------------------------- MODULE MCNadamReply ----------------------------
(***************************************************************************)
(* Instance of NadamReply for TLC: peers of the same build ask "tick" and  *)
(* answer "log" at its maximal size, three units with its hash and size.   *)
(* A receiver that misses the hash takes the answer's 3 for a size.        *)
(***************************************************************************)
EXTENDS MCNadamLink, NadamReply

Tick == <<1>>
Log  == <<3>>

SameTable     == [p \in {a, b} |-> {"tick", "log"}]
SameMax       == [p \in {a, b} |-> 1]
FixedLength   == [p \in {a, b} |-> {1}]
BothWays      == [p \in {a, b} |-> 2]
ReplyPayloads == {Tick, Log}
ReplySize     == [n \in {"tick", "log"} |-> 1]
=============================================================================
