---------------------------- MODULE MCBlockStore ----------------------------
(***************************************************************************)
(* Instances of BlockStore for TLC: two objects, blocks of four bytes,     *)
(* size_t of six bits and a heap that refuses half of its range, so that   *)
(* a capacity is doubled up to the refusal.                                *)
(***************************************************************************)
EXTENDS BlockStore, TLC

MCBlockSize == [s \in Stores |-> 4]

\* Addresses and objects are interchangeable.
Symmetry == Permutations(Addresses) \cup Permutations(Stores)
=============================================================================
