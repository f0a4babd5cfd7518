----------------------- MODULE LockingBlockGuardOrder -----------------------
(***************************************************************************)
(* The memory orders of LockingBlockGuard: which accesses to the block     *)
(* happen before which.  An acquire load synchronizes with the release     *)
(* writes whose value, or whose release sequence, it reads.  The loads of  *)
(* LockGuardLoad are acquire; its exchanges and the writer's exchange are  *)
(* release only, so they publish but learn nothing.                        *)
(*                                                                         *)
(* An access is <<thread, kind>>: the latest copy step of that kind the    *)
(* thread made.  view[t] holds the latest accesses that happen before what *)
(* t does next, published those the present value of _lock carries.        *)
(***************************************************************************)
EXTENDS LockingBlockGuard

VARIABLES view, published, accesses

orderVars == <<view, published, accesses>>

Kinds == {"read", "write"}

OrderInit ==
    /\ Init
    /\ view = [t \in Threads |-> {}]
    /\ published = {} /\ accesses = {}

\* An access replaces the thread's earlier one of its kind, which no view can then
\* stand for.
Access(t, kind) ==
    LET a == <<t, kind>> IN
    /\ accesses' = accesses \cup {a}
    /\ view' = [u \in Threads |-> IF u = t THEN view[u] \cup {a} ELSE view[u] \ {a}]
    /\ published' = published \ {a}

\* memory_order_acquire load.
Acquire(t) ==
    /\ view' = [view EXCEPT ![t] = @ \cup published]
    /\ UNCHANGED <<published, accesses>>

\* memory_order_release exchange: it continues the release sequence it writes over.
ReleaseExchange(t) ==
    /\ published' = published \cup view[t]
    /\ UNCHANGED <<view, accesses>>

\* memory_order_release store: it starts a release sequence of its own.
ReleaseStore(t) ==
    /\ published' = view[t]
    /\ UNCHANGED <<view, accesses>>

OrderStep(t) ==
    \/ Call(t) /\ UNCHANGED orderVars
    \/ (JoinFails(t) \/ LeaveFails(t)) /\ UNCHANGED orderVars     \* memory_order_relaxed
    \/ (Peek(t) \/ Count(t)) /\ Acquire(t)
    \/ (Join(t) \/ Leave(t) \/ Claim(t)) /\ ReleaseExchange(t)
    \/ Release(t) /\ ReleaseStore(t)
    \/ \E w \in Words : CopyOut(t, w) /\ Access(t, "read")
    \/ \E w \in Words : CopyIn(t, w) /\ Access(t, "write")

OrderNext == \E t \in Threads : OrderStep(t)

OrderSpec == OrderInit /\ [][OrderNext]_<<vars, orderVars>>

\* The lock is there instead of a mutex ("mutex is to big to be used here"), under
\* which a thread about to copy has every conflicting access of the others
\* happening before it.
NoDataRace ==
    \A t \in Threads : \A a \in accesses :
        /\ pc[t] = "copyIn" /\ a[1] # t => a \in view[t]
        /\ pc[t] = "copyOut" /\ a[1] # t /\ a[2] = "write" => a \in view[t]
=============================================================================
