------------------------------- MODULE KeyMap -------------------------------
(***************************************************************************)
(* What a khash map promises: a partial function from keys to values.  A   *)
(* put that cannot get memory says so and changes nothing.                 *)
(***************************************************************************)
CONSTANTS Keys, Values, Absent

VARIABLES
    map,      \* what is in the table
    answer    \* what the last call returned

Init == map = <<>> /\ answer = Absent

Put(key) ==
    /\ \E v \in Values : map' = [k \in DOMAIN map \cup {key} |-> IF k = key THEN v ELSE map[k]]
    /\ answer' = IF key \in DOMAIN map THEN "present" ELSE "new"

PutFails == answer' = "failed" /\ UNCHANGED map

Get(key) ==
    /\ answer' = IF key \in DOMAIN map THEN map[key] ELSE Absent
    /\ UNCHANGED map

Del(key) ==
    /\ map' = [k \in DOMAIN map \ {key} |-> map[k]]
    /\ UNCHANGED answer

Clear == map' = <<>> /\ UNCHANGED answer

Next == PutFails \/ Clear \/ \E key \in Keys : Put(key) \/ Get(key) \/ Del(key)

Spec == Init /\ [][Next]_<<map, answer>>
=============================================================================
