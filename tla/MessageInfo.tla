---------------------------- MODULE MessageInfo ----------------------------
(***************************************************************************)
(* MessageInfo of nadam/types.cpp: the bytes its constructor hashes, which *)
(* are all that tells one message from another on a connection.            *)
(***************************************************************************)
EXTENDS Naturals, Sequences, FiniteSets

CONSTANTS
    Names,       \* names: sequences of bytes
    ByteValues,  \* 256
    SizeBytes,   \* sizeof(uint32_t)
    Sizes,       \* message sizes
    MaxInfos     \* bound: infos constructed

\* The numbers of k bytes.
Limit[k \in 0..SizeBytes] == IF k = 0 THEN 1 ELSE ByteValues * Limit[k - 1]

\* What is assumed of the constants.
InfoAssumption ==
    /\ Names \subseteq Seq(0..ByteValues - 1) \ {<<>>}
    /\ SizeBytes \in Nat /\ MaxInfos \in Nat /\ ByteValues \in Nat \ {0, 1}
    /\ Sizes \subseteq 0..Limit[SizeBytes] - 1

Infos == [name : Names, size : Sizes, isVariableSize : BOOLEAN]

VARIABLES
    infos,    \* the infos constructed
    hashed    \* per info, the bytes put to its SHA1

Init == infos = {} /\ hashed = <<>>

\* Mutant: the low byte of the size only.
SizeBytesLow(size) == <<size % ByteValues>>

\* size >> 8 * k
Shifted(size) ==
    LET shifted[k \in 0..SizeBytes] == IF k = 0 THEN size ELSE shifted[k - 1] \div ByteValues
    IN  shifted

\* The size's bytes, the most significant first.
SizeBytesOf(size) == [i \in 1..SizeBytes |-> Shifted(size)[SizeBytes - i] % ByteValues]

constructHash(info) ==
    info.name \o <<IF info.isVariableSize THEN 1 ELSE 0>> \o SizeBytesOf(info.size)

Construct(info) ==
    /\ info \notin infos /\ Cardinality(infos) < MaxInfos
    /\ infos' = infos \cup {info}
    /\ hashed' = [i \in infos' |-> constructHash(i)]

Next == \E info \in Infos : Construct(info)

Spec == Init /\ [][Next]_<<infos, hashed>>

-----------------------------------------------------------------------------
(* Properties.                                                              *)

\* Infos that differ are hashed from different bytes, although nothing separates the name,
\* which may end in any byte, from the flag and the size behind it.
HashTellsApart == \A i, j \in infos : hashed[i] = hashed[j] => i = j
=============================================================================
