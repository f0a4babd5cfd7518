--------------------------- MODULE BlockRegister ---------------------------
(***************************************************************************)
(* What a BlockGuard promises: its block is an atomic register.  A load    *)
(* returns the block as one store left it.                                 *)
(***************************************************************************)
CONSTANTS
    Threads,   \* callers of load and store
    Blocks     \* values of a block

VARIABLES
    block,     \* the current value
    loaded     \* what the last load of each thread returned

Init ==
    /\ block \in Blocks
    /\ loaded = [t \in Threads |-> block]

Store == block' \in Blocks /\ UNCHANGED loaded

Load(t) == loaded' = [loaded EXCEPT ![t] = block] /\ UNCHANGED block

Next == Store \/ \E t \in Threads : Load(t)

Spec == Init /\ [][Next]_<<block, loaded>>
=============================================================================
