--------------------------- MODULE LengthEncoding ---------------------------
(***************************************************************************)
(* LengthEncoding of util/lengthencoding.cpp at work on one buffer: lengths *)
(* are written from its front and, with writeBack, from its end, and read  *)
(* back from either region.  A byte has 4 * Quarter values: two tag bits   *)
(* over Quarter values of the length's most significant digit.             *)
(***************************************************************************)
EXTENDS Naturals, Sequences, SequencesExt

CONSTANTS
    Quarter,   \* 64
    Lengths,   \* lengths the application writes
    Fill,      \* what the buffer holds before
    Size,      \* bytes of the buffer
    MaxCount   \* bound: lengths written to each region

Radix == 4 * Quarter
Bytes == 0..Radix - 1

\* The first length that does not fit k + 1 bytes beside a tag: 1 << 6 + 8 * k.
Limit[k \in 0..7] == IF k = 0 THEN Quarter ELSE Radix * Limit[k - 1]

byteLengthMax  == Limit[0] - 1
shortLengthMax == Limit[1] - 1
lengthMax      == Limit[7] - 1

ASSUME EncodingAssumption ==
    /\ Quarter \in Nat \ {0}
    /\ Lengths \subseteq 0..lengthMax
    /\ Fill \subseteq Bytes
    /\ Size \in Nat /\ MaxCount \in Nat

VARIABLES
    data,         \* the buffer
    front,        \* bytes written from the front
    back,         \* where what was written from the end begins
    written,      \* lengths written from the front, in their order in the buffer
    writtenBack,  \* lengths written from the end, in their order in the buffer
    cursor,       \* where the next read begins
    limit,        \* end of the region being read
    expected,     \* the lengths written to it
    got           \* lengths read from it so far

buffer == <<data, front, back, written, writtenBack>>
reader == <<cursor, limit, expected, got>>
vars   == <<buffer, reader>>

Init ==
    /\ \E b \in Fill : data = [i \in 0..Size - 1 |-> b]
    /\ front = 0 /\ back = Size
    /\ written = <<>> /\ writtenBack = <<>>
    /\ cursor = 0 /\ limit = 0 /\ expected = <<>> /\ got = <<>>

-----------------------------------------------------------------------------
\* The bytes of a uint64_t in memory, the least significant first, and the uint64_t
\* that eight bytes are.
Shifted(length) ==
    LET shifted[k \in 0..7] == IF k = 0 THEN length ELSE shifted[k - 1] \div Radix IN shifted

Memory(length) == [k \in 0..7 |-> Shifted(length)[k] % Radix]

Number(p) ==
    LET number[k \in 0..8] == IF k = 8 THEN 0 ELSE p[k] + Radix * number[k + 1] IN number[0]

\* 1 << log
TwoTo(log) == <<1, 2, 4, 8>>[log + 1]

ByteCountLog(length) ==
    (IF length > shortLengthMax THEN 2 ELSE 0) + (IF length > byteLengthMax THEN 1 ELSE 0)

\* The bytes of a length: big-endian, the tag in the first.
Tagged(length, log) ==
    [i \in 0..TwoTo(log) - 1 |->
        Memory(length)[TwoTo(log) - 1 - i] + (IF i = 0 THEN log * Quarter ELSE 0)]

\* Mutant: eight bytes are stored whatever the length.
StoredWide(dest, length, log) ==
    [i \in DOMAIN data |-> IF i \in dest..dest + TwoTo(log) - 1 THEN Tagged(length, log)[i - dest]
                           ELSE IF i \in dest..dest + 7 THEN 0 ELSE data[i]]

Stored(dest, length, log) ==
    [i \in DOMAIN data |-> IF i \in dest..dest + TwoTo(log) - 1 THEN Tagged(length, log)[i - dest]
                                                             ELSE data[i]]

Write(length) ==
    LET log == ByteCountLog(length) IN
    /\ Len(written) < MaxCount /\ front + TwoTo(log) <= back
    /\ data' = Stored(front, length, log)
    /\ front' = front + TwoTo(log)
    /\ written' = Append(written, length)
    /\ UNCHANGED <<back, writtenBack, reader>>

\* Mutant: writeBack gives the largest length of one byte two.
StoredBackWide(dest, length) ==
    LET log == IF length = byteLengthMax THEN 1 ELSE ByteCountLog(length)
    IN  [start |-> dest - TwoTo(log), data |-> Stored(dest - TwoTo(log), length, log)]

\* writeBack begins behind its destination and stores the digits downwards.
StoredBack(dest, length) ==
    LET log == ByteCountLog(length)
    IN  [start |-> dest - TwoTo(log), data |-> Stored(dest - TwoTo(log), length, log)]

WriteBack(length) ==
    /\ Len(writtenBack) < MaxCount /\ back - TwoTo(ByteCountLog(length)) >= front
    /\ back' = StoredBack(back, length).start
    /\ data' = StoredBack(back, length).data
    /\ writtenBack' = <<length>> \o writtenBack
    /\ UNCHANGED <<front, written, reader>>

\* writeBack over the length written last from the front, to the pointer write returned.
Rewrite ==
    /\ written # <<>>
    /\ LET again == StoredBack(front, Last(written)) IN
          /\ data' = again.data
          /\ front' = again.start + TwoTo(ByteCountLog(Last(written)))
    /\ UNCHANGED <<back, written, writtenBack, reader>>

\* The application reads one of the two regions from its beginning.
StartRead ==
    /\ \/ cursor' = 0 /\ limit' = front /\ expected' = written
       \/ cursor' = back /\ limit' = Size /\ expected' = writtenBack
    /\ got' = <<>>
    /\ UNCHANGED buffer

\* Also decodes four bytes, which write never produces.
ByteCount(src) == TwoTo(data[src] \div Quarter)

\* Mutant: the tag stays in the most significant digit.
DecodedWithTag(src) ==
    LET count == ByteCount(src)
    IN  Number([k \in 0..7 |-> IF k < count THEN data[src + count - 1 - k] ELSE 0])

Decoded(src) ==
    LET count == ByteCount(src)
    IN  Number([k \in 0..7 |-> IF k < count - 1 THEN data[src + count - 1 - k]
                               ELSE IF k = count - 1 THEN data[src] % Quarter ELSE 0])

Read ==
    /\ cursor < limit
    /\ got' = Append(got, Decoded(cursor))
    /\ cursor' = cursor + ByteCount(cursor)
    /\ UNCHANGED <<buffer, limit, expected>>

Next ==
    \/ \E length \in Lengths : Write(length) \/ WriteBack(length)
    \/ Rewrite
    \/ StartRead
    \/ Read

Spec == Init /\ [][Next]_vars
-----------------------------------------------------------------------------
(* Properties.                                                              *)

\* Lengths need no separators: reading a region yields the lengths written to it, in
\* order and none besides, also across the boundaries of one, two and eight bytes.
LengthsReadBack ==
    /\ IsPrefix(got, expected)
    /\ cursor = limit <=> got = expected

\* write and writeBack touch the bytes they report as written and no others.
WritesOnlyItsBytes ==
    [][\A i \in DOMAIN data : data'[i] # data[i] => i \in front..front' - 1 \/ i \in back'..back - 1]_vars

\* writeBack is write from the other end: over what write stored, to the pointer it
\* returned, it stores the same bytes and returns where write began.
RewriteChangesNothing ==
    [][written' = written /\ writtenBack' = writtenBack => UNCHANGED buffer]_vars
=============================================================================
