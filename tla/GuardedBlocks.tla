--------------------------- MODULE GuardedBlocks ---------------------------
(***************************************************************************)
(* What BlockGuard promises: each guard has a block of its own, zero when  *)
(* it is new, that changes only when something is stored through it.       *)
(***************************************************************************)
CONSTANTS Guards, Values, Zero

VARIABLES
    block,    \* of each living guard
    loaded    \* what the last load returned

Init == block = <<>> /\ loaded = Zero

New(g) ==
    /\ g \notin DOMAIN block
    /\ block' = [h \in DOMAIN block \cup {g} |-> IF h = g THEN Zero ELSE block[h]]
    /\ UNCHANGED loaded

Store(g) ==
    /\ \E v \in Values : block' = [block EXCEPT ![g] = v]
    /\ UNCHANGED loaded

Load(g) ==
    /\ loaded' = block[g]
    /\ UNCHANGED block

Drop(g) ==
    /\ block' = [h \in DOMAIN block \ {g} |-> block[h]]
    /\ UNCHANGED loaded

Next ==
    \/ \E g \in Guards : New(g)
    \/ \E g \in DOMAIN block : Store(g) \/ Load(g) \/ Drop(g)

Spec == Init /\ [][Next]_<<block, loaded>>
=============================================================================
