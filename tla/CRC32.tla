-------------------------------- MODULE CRC32 --------------------------------
(***************************************************************************)
(* CRC32 of util/digest/crc.h and the ids computed with it: the hash of a  *)
(* type's name (util/typeinfo.h) and the id of an aspect with an index     *)
(* (util/aspectid.h).  A number is the set of its one bits.                *)
(***************************************************************************)
EXTENDS Integers, Sequences, SequencesExt, FiniteSetsExt

CONSTANTS
    ByteBits, WordBits,   \* 8 and 32
    Polynomial,           \* the polynomial of crc32Table, reflected
    Feed,                 \* bytes put, and indices
    PrettyFunctions,      \* __PRETTY_FUNCTION__ of the types that are hashed
    Code,                 \* the byte of a character
    MaxFed                \* bound: bytes under one crc

Byte == 0..ByteBits - 1
Word == 0..WordBits - 1

VARIABLES
    crc,       \* crc
    fed,       \* bytes crc stands for, those of the seed included
    result,    \* what finish, peek, typeHash or addIndex returned last
    covered    \* bytes result stands for

vars == <<crc, fed, result, covered>>

Xor(x, y) == (x \ y) \cup (y \ x)
Not(x) == Word \ x
ShiftRight(x, n) == {b - n : b \in {c \in x : c >= n}}

-----------------------------------------------------------------------------
(* CRC32                                                                    *)

\* One bit of polynomial division.
Divided(r) == IF 0 \in r THEN Xor(ShiftRight(r, 1), Polynomial) ELSE ShiftRight(r, 1)

\* The table is listed in the code; this is what it lists.
crc32Table ==
    [v \in SUBSET Byte |->
        LET divided[k \in 0..ByteBits] == IF k = 0 THEN v ELSE Divided(divided[k - 1])
        IN  divided[ByteBits]]

\* The crc of an object constructed with a seed.
Seeded(seed) == Not(seed)

After(c, v) == Xor(crc32Table[Xor(v, c \cap Byte)], ShiftRight(c, ByteBits))

\* The crc of an object without a seed that bytes are put to.
CrcOf(bytes) ==
    LET crcs[k \in 0..Len(bytes)] == IF k = 0 THEN Seeded({}) ELSE After(crcs[k - 1], bytes[k])
    IN  crcs[Len(bytes)]

\* Mutant: finish clears the crc instead of constructing it anew.
Cleared == {}

\* The crc of CRC32{}, which finish leaves.
Renewed == Seeded({})

Init == crc = Seeded({}) /\ fed = <<>> /\ result = {} /\ covered = <<>>

\* An object that continues where an earlier one returned its result.
Continue ==
    /\ crc' = Seeded(result) /\ fed' = covered
    /\ UNCHANGED <<result, covered>>

Put(v) ==
    /\ Len(fed) < MaxFed
    /\ crc' = After(crc, v) /\ fed' = Append(fed, v)
    /\ UNCHANGED <<result, covered>>

Peek ==
    /\ result' = Not(crc) /\ covered' = fed
    /\ UNCHANGED <<crc, fed>>

Finish ==
    /\ result' = Not(crc) /\ covered' = fed
    /\ crc' = Renewed /\ fed' = <<>>

-----------------------------------------------------------------------------
(* typeHash and addIndex: constant expressions with an object of their own  *)

\* The type's name in __PRETTY_FUNCTION__: from the second character behind the first '='
\* up to ']', without the blanks that compilers put between closing brackets.
Name(text) ==
    LET p    == Min({i \in DOMAIN text : text[i] = "="}) + 2
        stop == Min({i \in p..Len(text) : text[i] = "]"})
    IN  FoldLeft(LAMBDA name, i : IF text[i] = " " /\ text[i - 1] = ">" THEN name
                                  ELSE Append(name, text[i]),
                 <<>>, [k \in 1..stop - p |-> p + k - 1])

BytesOf(name) == [i \in 1..Len(name) |-> Code[name[i]]]

TypeHash(text) ==
    /\ result' = Not(CrcOf(BytesOf(Name(text)))) /\ covered' = BytesOf(Name(text))
    /\ UNCHANGED <<crc, fed>>

AddIndex(index) ==
    /\ Len(covered) < MaxFed
    /\ result' = Not(After(Seeded(result), index))
    /\ covered' = Append(covered, index)
    /\ UNCHANGED <<crc, fed>>

\* What is assumed of the constants.
CrcAssumption ==
    /\ ByteBits \in Nat /\ WordBits \in Nat /\ ByteBits <= WordBits
    /\ Polynomial \subseteq Word /\ Feed \subseteq SUBSET Byte
    /\ \A text \in PrettyFunctions : Name(text) \in Seq(DOMAIN Code)
    /\ \A c \in DOMAIN Code : Code[c] \subseteq Byte

Next ==
    \/ Continue \/ Peek \/ Finish
    \/ \E v \in Feed : Put(v) \/ AddIndex(v)
    \/ \E text \in PrettyFunctions : TypeHash(text)

Spec == Init /\ [][Next]_vars
-----------------------------------------------------------------------------
(* Properties.                                                              *)

\* The division of r and a byte, bit by bit, the lowest bit first.
DividedByte(r, v) ==
    LET divided[k \in 0..ByteBits] ==
            IF k = 0 THEN r ELSE Divided(IF k - 1 \in v THEN Xor(divided[k - 1], {0}) ELSE divided[k - 1])
    IN  divided[ByteBits]

\* The division of all bytes.
Remainder(bytes) ==
    LET remainders[k \in 0..Len(bytes)] ==
            IF k = 0 THEN Word ELSE DividedByte(remainders[k - 1], bytes[k])
    IN  remainders[Len(bytes)]

\* However a stream is cut, into puts, objects that continue from a result, names and
\* indices, a result is the crc of the whole of it; a finished object starts a new one.
CrcOfTheWhole == crc = Remainder(fed) /\ result = Not(Remainder(covered))
=============================================================================
