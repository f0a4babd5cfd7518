------------------------------- MODULE MCKhash -------------------------------
(***************************************************************************)
(* Instance of Khash for TLC: of four keys three collide in four buckets   *)
(* and two of these in eight, so that rehashing between the two sizes, or  *)
(* within one to get rid of deleted buckets, kicks entries out.            *)
(***************************************************************************)
EXTENDS Khash, TLC

CONSTANTS k1, k2, k3, k4

MCHash == (k1 :> 1) @@ (k2 :> 9) @@ (k3 :> 5) @@ (k4 :> 2)
=============================================================================
