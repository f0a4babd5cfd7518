---------------------------- MODULE MCNadamLink ----------------------------
(***************************************************************************)
(* Instances of NadamLink for TLC.  "tick" has a fixed size of one unit,   *)
(* "log" a variable size of up to two; "old" is a message of b that a does *)
(* not know (say, "tick" with another size, hence another hash).  Units    *)
(* are small numbers, so that payload units can be mistaken for hashes and *)
(* sizes when the framing is lost.                                         *)
(***************************************************************************)
EXTENDS NadamLink

CONSTANTS a, b

MCHash       == [n \in {"tick", "log", "old"} |->
                    CASE n = "tick" -> <<0, 1, 1>>
                      [] n = "log"  -> <<1, 0, 1>>
                      [] n = "old"  -> <<2, 1, 0>>]
MCIsVariable == [n \in {"tick", "log", "old"} |-> n = "log"]
MCSize       == [n \in {"tick", "log", "old"} |-> CASE n = "tick" -> 1
                                                    [] n = "log"  -> 2
                                                    [] n = "old"  -> 0]
MCPayloads   == {<<>>, <<1>>, <<3, 0>>}

\* b is of a build with longer hashes and one more message; only b sends.
OtherTable  == [p \in {a, b} |-> IF p = a THEN {"tick", "log"} ELSE {"tick", "log", "old"}]
OtherMax    == [p \in {a, b} |-> IF p = a THEN 2 ELSE 3]
OtherLength == [p \in {a, b} |-> IF p = a THEN {1, 2} ELSE {1, 3}]
OneWay      == [p \in {a, b} |-> IF p = a THEN 0 ELSE 2]
=============================================================================
