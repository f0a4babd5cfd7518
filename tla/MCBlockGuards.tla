--------------------------- MODULE MCBlockGuards ---------------------------
(***************************************************************************)
(* Instances of BlockGuards and of BlockStore for TLC; a behaviour is one  *)
(* of the two.  The guards: stores s1 and s2 for blocks of two words,      *)
(* which the shared and the atomic guard have in common, s3 for those of   *)
(* four, used by a locking guard.  The heap refuses more than six words at *)
(* once: three blocks, or one.  The stores alone, used by whoever calls    *)
(* them: the bytes of some of the capacities asked for wrap.               *)
(***************************************************************************)
EXTENDS BlockGuards, TLC

CONSTANTS s1, s2, s3, fake, atomic, locking, shared1, shared2
CONSTANTS BareStores, BareRequests
VARIABLES program, bareLife, bareMem, bareLength, bareCapacity, bareHeap, bareLoaded, bareUndefined,
          bareWrapped

Bare == INSTANCE BlockStore
          WITH Stores <- BareStores, Requests <- BareRequests, life <- bareLife, mem <- bareMem,
               length <- bareLength, capacity <- bareCapacity, heap <- bareHeap,
               loaded <- bareLoaded, undefined <- bareUndefined, wrapped <- bareWrapped

ASSUME BareAssumption == Bare!StoreAssumption

bareVars == <<bareLife, bareMem, bareLength, bareCapacity, bareHeap, bareLoaded, bareUndefined,
              bareWrapped>>

MCBlockSize == [s \in Stores \cup BareStores |-> IF s = s3 THEN 4 ELSE 2]
MCKind      == [g \in Guards |-> CASE g = fake -> "fake" [] g = atomic -> "atomic"
                                   [] g = locking -> "locking" [] OTHER -> "shared"]
MCGuardSize == [g \in Guards |-> CASE g = fake -> 1 [] g = locking -> 4 [] OTHER -> 2]

\* What is interchangeable.
Symmetry == Permutations(Addresses) \cup Permutations(Objects)
              \cup Permutations({s1, s2}) \cup Permutations({shared1, shared2})
              \cup Permutations(Pointers) \cup Permutations(BareStores)

StoresInit == program \in {"guards", "bare"} /\ GuardInit /\ Bare!Init

StoresNext ==
    \/ program = "guards" /\ GuardNext /\ UNCHANGED <<program, bareVars>>
    \/ program = "bare" /\ Bare!Next /\ UNCHANGED <<program, guardVars>>

StoresSpec == StoresInit /\ [][StoresNext]_<<program, guardVars, bareVars>>

\* MemoryOwned of the stores alone, where capacities are asked for whose bytes wrap.
BareMemoryOwned == Bare!MemoryOwned
=============================================================================
