--------------------------- MODULE MCNadamSession ---------------------------
(***************************************************************************)
(* Instance of NadamSession for TLC: two message types (one of variable    *)
(* size), a delegate with a buffer of its own and one on the common        *)
(* buffer, and two thread ids, so that an id is reused after a join.       *)
(***************************************************************************)
EXTENDS NadamSession, TLC

\* Thread ids are interchangeable; used by the safety runs only.
Symmetry == Permutations(Threads)
=============================================================================
