------------------------ MODULE MCLockingBlockGuard ------------------------
(***************************************************************************)
(* Instance of LockingBlockGuard for TLC.  The small lock admits two       *)
(* readers (mask 1, writer bit 4), so that three threads exceed its limit, *)
(* and a block of two words can be seen torn.                              *)
(***************************************************************************)
EXTENDS LockingBlockGuard
=============================================================================
