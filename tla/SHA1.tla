-------------------------------- MODULE SHA1 --------------------------------
(***************************************************************************)
(* The SHA1 object of util/digest/sha1.cpp: how put cuts a stream into     *)
(* blocks for transform, and how finish pads it.  The compression function *)
(* is left abstract: state stands for the bytes transform was given.       *)
(***************************************************************************)
EXTENDS Naturals, Sequences

CONSTANTS
    Bytes,         \* of messages
    One, Nought,   \* 0x80 and 0
    BlockBytes,    \* 64
    WordValues,    \* 2^32: count[0] and count[1]; finish puts each as one unit
                   \* (four bytes in the code)
    MaxPut,        \* bound: bytes of a put of any bytes
    LongPuts,      \* bound: lengths of the puts that repeat one byte
    MaxBytes       \* bound: bytes put before a finish or a put of these

ASSUME DigestAssumption ==
    /\ One \in Bytes /\ Nought \in Bytes
    /\ BlockBytes \in Nat /\ BlockBytes > 2
    /\ WordValues \in Nat /\ WordValues > 0 /\ WordValues % (8 * BlockBytes) = 0
    /\ MaxPut \in 0..WordValues - 1 /\ LongPuts \subseteq 0..WordValues - 1   \* uint32_t len
    /\ MaxBytes \in Nat

VARIABLES
    count,       \* count[0], count[1]: the length in bits, low word first
    state,       \* bytes of the blocks transformed since start
    buffer,      \* buffer
    wrapped,     \* j + len of a put wrapped: memcpy wrote behind the buffer, the end of
                 \* what is modelled
    pc,          \* where finish is, "idle" outside it
    finalcount,  \* local of finish
    all,         \* all bytes put since start, the padding included
    begun,       \* of these, the ones before the finish in progress
    digested     \* what state stood for when finish returned last since start

object == <<count, state, buffer, wrapped>>
vars   == <<object, pc, finalcount, all, begun, digested>>

Init ==
    /\ count = <<0, 0>> /\ state = <<>>
    /\ \E b \in Bytes : buffer = [i \in 1..BlockBytes |-> b]
    /\ wrapped = FALSE
    /\ pc = "idle" /\ finalcount = <<0, 0>>
    /\ all = <<>> /\ begun = <<>> /\ digested = <<>>

Start ==
    /\ pc = "idle"
    /\ count' = <<0, 0>> /\ state' = <<>>
    /\ all' = <<>> /\ begun' = <<>> /\ digested' = <<>>
    /\ UNCHANGED <<buffer, wrapped, pc, finalcount>>

-----------------------------------------------------------------------------
\* j: how many bytes of the buffer are filled.
Filled == (count[1] \div 8) % BlockBytes

\* Mutant: the carry of the low word is lost.
CountedNoCarry(len) ==
    <<(count[1] + 8 * len) % WordValues, (count[2] + (8 * len) \div WordValues) % WordValues>>

\* count after len more bytes; (len << 3) and the low word wrap.
Counted(len) ==
    LET bits == (8 * len) % WordValues
        low  == (count[1] + bits) % WordValues
    IN  <<low, (count[2] + (IF low < bits THEN 1 ELSE 0) + (8 * len) \div WordValues) % WordValues>>

\* memcpy of d to the buffer from byte j on.
Copied(buf, j, d) == [k \in 1..BlockBytes |-> IF k \in j + 1..j + Len(d) THEN d[k - j] ELSE buf[k]]

\* i: how many bytes of d go into blocks, those that fill the buffer and whole blocks; none
\* when j + len wraps.
Taken(d) ==
    IF (Filled + Len(d)) % WordValues > BlockBytes - 1
    THEN BlockBytes - Filled + BlockBytes * ((Filled + Len(d) - BlockBytes) \div BlockBytes)
    ELSE 0

\* The compression of one block after the other, which is left abstract.
transform(blocks) == state \o blocks

PutBytes(d) ==
    LET i    == Taken(d)
        rest == SubSeq(d, i + 1, Len(d))
        full == Copied(buffer, Filled, SubSeq(d, 1, BlockBytes - Filled))
    IN  /\ count' = Counted(Len(d))
        /\ wrapped' = (Filled + Len(d) >= WordValues)
        /\ all' = all \o d
        /\ IF i > 0
           THEN /\ state' = transform(full \o SubSeq(d, BlockBytes - Filled + 1, i))
                /\ buffer' = Copied(full, 0, rest)
           ELSE /\ buffer' = Copied(buffer, Filled, rest)
                /\ UNCHANGED state

Put(d) ==
    /\ pc = "idle"
    /\ PutBytes(d)
    /\ UNCHANGED <<pc, finalcount, begun, digested>>

-----------------------------------------------------------------------------
(* finish: the length is taken before the padding is put.                   *)

FinishBegins ==
    /\ pc = "idle" /\ Len(all) <= MaxBytes
    /\ finalcount' = <<count[2], count[1]>>
    /\ begun' = all
    /\ PutBytes(<<One>>)
    /\ pc' = "padding"
    /\ UNCHANGED digested

\* Mutant: the loop stops only where the length would end the block.
PaddingDoneLate == Filled = BlockBytes - 1

PaddingDone == Filled = BlockBytes - 2

\* Mutant: the loop puts no byte.
PutNothing ==
    /\ pc = "padding" /\ ~PaddingDone
    /\ PutBytes(<<>>)
    /\ UNCHANGED <<pc, finalcount, begun, digested>>

PutZero ==
    /\ pc = "padding" /\ ~PaddingDone
    /\ PutBytes(<<Nought>>)
    /\ UNCHANGED <<pc, finalcount, begun, digested>>

FinishReturns ==
    /\ pc = "padding" /\ PaddingDone
    /\ PutBytes(finalcount)
    /\ digested' = state' /\ pc' = "idle"
    /\ UNCHANGED <<finalcount, begun>>

Next ==
    /\ ~wrapped
    /\ \/ Start
       \/ \E n \in 0..MaxPut : Len(all) + n <= MaxBytes /\ \E d \in [1..n -> Bytes] : Put(d)
       \/ \E n \in LongPuts, b \in Bytes : Len(all) <= MaxBytes /\ Put([i \in 1..n |-> b])
       \/ FinishBegins \/ PutZero \/ FinishReturns

Spec == Init /\ [][Next]_vars

\* finish is a loop of the caller's thread.
LiveSpec == Spec /\ WF_vars(PutZero \/ FinishReturns)
-----------------------------------------------------------------------------
(* Properties.                                                              *)

\* The object stands for the bytes put, however they were cut: the two words of count are
\* their number in bits, with every carry; transform was given whole blocks; these and the
\* filled part of the buffer skip, repeat and keep back nothing.  So until a put's length
\* comes so close to 2^32 that j + len wraps, which takes a buffer that is not empty.
StandsForPut ==
    ~wrapped =>
        /\ count \in (0..WordValues - 1) \X (0..WordValues - 1)
        /\ count[1] + WordValues * count[2] = (8 * Len(all)) % (WordValues * WordValues)
        /\ Len(state) % BlockBytes = 0
        /\ all = state \o SubSeq(buffer, 1, Filled)

\* finish digests the padded message: see PaddedMessage.
Message == INSTANCE PaddedMessage WITH msg <- IF pc = "idle" THEN all ELSE begun
ImplementsPaddedMessage == Message!Spec

\* The loop that pads ends.
FinishEnds == pc = "padding" ~> pc = "idle"
=============================================================================
