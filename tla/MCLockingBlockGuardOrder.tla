---------------------- MODULE MCLockingBlockGuardOrder ----------------------
(***************************************************************************)
(* Two threads, one word and two calls each are enough for two accesses    *)
(* that nothing orders.                                                    *)
(***************************************************************************)
EXTENDS LockingBlockGuardOrder
=============================================================================
