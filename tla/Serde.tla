-------------------------------- MODULE Serde --------------------------------
(***************************************************************************)
(* Serialization of util/serdeimplbasic.* and serdeimpl.h at work on one   *)
(* buffer: strings, vectors of a trivial type and vectors of strings are   *)
(* serialized one after the other, each call with a capacity of its own,   *)
(* and deserialized with any end of the source.  A list is a prefix with   *)
(* its length, little-endian, and its elements.                            *)
(***************************************************************************)
EXTENDS Integers, Sequences

CONSTANTS
    Base,         \* values of a byte: 256
    PrefixBytes,  \* sizeof(uint32_t): 4
    Width,        \* sizeof(T) of the vector of a trivial type
    Objects,      \* what the application serializes
    Size,         \* bytes of the buffer
    MaxCount      \* bound: objects in the buffer

Bytes == 0..Base - 1

\* The numbers of k bytes.
Limit[k \in 0..PrefixBytes] == IF k = 0 THEN 1 ELSE Base * Limit[k - 1]

\* The length written is a uint32_t: longer lists are not restored, nor considered.
SerdeAssumption ==
    /\ Base \in Nat \ {0, 1} /\ PrefixBytes \in Nat \ {0} /\ Width \in Nat \ {0}
    /\ Size \in Nat /\ MaxCount \in Nat
    /\ \A object \in Objects :
          \/ /\ object.type = "string" /\ object.value \in Seq(Bytes)
             /\ Len(object.value) < Limit[PrefixBytes]
          \/ /\ object.type = "vector" /\ object.value \in Seq(Bytes)   \* the elements' bytes
             /\ Len(object.value) % Width = 0
             /\ Len(object.value) \div Width < Limit[PrefixBytes]
          \/ /\ object.type = "strings" /\ object.value \in Seq(Seq(Bytes))
             /\ Len(object.value) < Limit[PrefixBytes]
             /\ \A k \in DOMAIN object.value : Len(object.value[k]) < Limit[PrefixBytes]

VARIABLES
    data,     \* the buffer
    end,      \* end of what is serialized
    written,  \* the objects serialized, in their order in the buffer
    src,      \* where the next object is deserialized
    got,      \* values deserialized so far
    ser,      \* last call to serialize: [object, dest, destEnd, p]
    de        \* last call to deserialize: [srcEnd, p, examined]

vars == <<data, end, written, src, got, ser, de>>

nullptr == -1

NoObject == [type |-> "none", value |-> <<>>]

Init ==
    /\ data = [i \in 0..Size - 1 |-> Base - 1]
    /\ end = 0 /\ written = <<>>
    /\ src = 0 /\ got = <<>>
    /\ ser = [object |-> NoObject, dest |-> 0, destEnd |-> 0, p |-> 0]
    /\ de = [srcEnd |-> 0, p |-> 0, examined |-> 0]

-----------------------------------------------------------------------------
(* Serialization: the pointer returned and the buffer afterwards, which a   *)
(* list that does not fit leaves partly written.                            *)

\* length >> 8 * k
Shifted(length) ==
    LET shifted[k \in 0..PrefixBytes] == IF k = 0 THEN length ELSE shifted[k - 1] \div Base
    IN  shifted

writeUint(length, p, mem) ==
    [i \in DOMAIN mem |-> IF i \in p..p + PrefixBytes - 1 THEN Shifted(length)[i - p] % Base ELSE mem[i]]

memcpy(dest, bytes, mem) ==
    [i \in DOMAIN mem |-> IF i \in dest..dest + Len(bytes) - 1 THEN bytes[i - dest + 1] ELSE mem[i]]

\* Elements of width bytes that are copied as they are.
SerializeBytes(bytes, width, dest, destEnd, mem) ==
    IF dest + PrefixBytes + Len(bytes) > destEnd
    THEN [p |-> nullptr, mem |-> mem]
    ELSE [p |-> dest + PrefixBytes + Len(bytes),
          mem |-> memcpy(dest + PrefixBytes, bytes, writeUint(Len(bytes) \div width, dest, mem))]

serializestring(s, dest, destEnd, mem) == SerializeBytes(s, 1, dest, destEnd, mem)

SerializeNext(out, s, destEnd) ==
    IF out.p = nullptr THEN out ELSE serializestring(s, out.p, destEnd, out.mem)

\* The strings behind one another, as long as they fit.
SerializeEach(strings, destEnd, first) ==
    LET outs[k \in 0..Len(strings)] ==
            IF k = 0 THEN first ELSE SerializeNext(outs[k - 1], strings[k], destEnd)
    IN  outs[Len(strings)]

\* Mutant: asks for one byte more than the prefix takes.
SerializeStringsGreedy(strings, dest, destEnd, mem) ==
    IF dest + PrefixBytes >= destEnd
    THEN [p |-> nullptr, mem |-> mem]
    ELSE SerializeEach(strings, destEnd,
                       [p |-> dest + PrefixBytes, mem |-> writeUint(Len(strings), dest, mem)])

\* Elements with a serialization of their own, which decides whether each fits.
SerializeStrings(strings, dest, destEnd, mem) ==
    IF dest + PrefixBytes > destEnd
    THEN [p |-> nullptr, mem |-> mem]
    ELSE SerializeEach(strings, destEnd,
                       [p |-> dest + PrefixBytes, mem |-> writeUint(Len(strings), dest, mem)])

Serialized(object, dest, destEnd) ==
    CASE object.type = "string"  -> serializestring(object.value, dest, destEnd, data)
      [] object.type = "vector"  -> SerializeBytes(object.value, Width, dest, destEnd, data)
      [] object.type = "strings" -> SerializeStrings(object.value, dest, destEnd, data)

\* Appends to what is serialized; after nullptr the application may try again.
Serialize(object, destEnd) ==
    LET out == Serialized(object, end, destEnd) IN
    /\ Len(written) < MaxCount
    /\ data' = out.mem
    /\ ser' = [object |-> object, dest |-> end, destEnd |-> destEnd, p |-> out.p]
    /\ \/ /\ out.p = nullptr
          /\ UNCHANGED <<end, written>>
       \/ /\ out.p # nullptr
          /\ end' = out.p
          /\ written' = Append(written, object)
    /\ UNCHANGED <<src, got, de>>

-----------------------------------------------------------------------------
(* Deserialization: the pointer returned, the value, and the end of the     *)
(* bytes examined.                                                          *)

ReadUint(p) ==
    LET length[k \in 0..PrefixBytes] == IF k = PrefixBytes THEN 0 ELSE data[p + k] + Base * length[k + 1]
    IN  length[0]

Failed(examined) == [p |-> nullptr, value |-> <<>>, examined |-> examined]

\* Mutant: counts elements where it should count bytes.
DeserializeBytesUnscaled(width, from, srcEnd) ==
    IF from + PrefixBytes > srcEnd THEN Failed(from)
    ELSE LET begin == from + PrefixBytes
             stop  == begin + ReadUint(from)
         IN  IF stop > srcEnd THEN Failed(begin)
             ELSE [p |-> stop, value |-> [i \in 1..stop - begin |-> data[begin + i - 1]],
                   examined |-> stop]

DeserializeBytes(width, from, srcEnd) ==
    IF from + PrefixBytes > srcEnd THEN Failed(from)
    ELSE LET begin == from + PrefixBytes
             stop  == begin + ReadUint(from) * width
         IN  IF stop > srcEnd THEN Failed(begin)
             ELSE [p |-> stop, value |-> [i \in 1..stop - begin |-> data[begin + i - 1]],
                   examined |-> stop]

deserializestring(from, srcEnd) == DeserializeBytes(1, from, srcEnd)

DeserializeNext(in, srcEnd) ==
    LET s == deserializestring(in.p, srcEnd)
    IN  IF in.p = nullptr THEN in
        ELSE [p |-> s.p, value |-> Append(in.value, s.value), examined |-> s.examined]

\* As many strings as the prefix at from says, as long as they are there.
DeserializeEach(from, srcEnd) ==
    LET first == [p |-> from + PrefixBytes, value |-> <<>>, examined |-> from + PrefixBytes]
        ins[k \in 0..ReadUint(from)] == IF k = 0 THEN first ELSE DeserializeNext(ins[k - 1], srcEnd)
    IN  ins[ReadUint(from)]

\* Mutant: the prefix is read without a look at srcEnd.
DeserializeStringsUnchecked(from, srcEnd) ==
    IF from + PrefixBytes > Size THEN Failed(from) ELSE DeserializeEach(from, srcEnd)

DeserializeStrings(from, srcEnd) ==
    IF from + PrefixBytes > srcEnd THEN Failed(from) ELSE DeserializeEach(from, srcEnd)

Deserialized(type, from, srcEnd) ==
    CASE type = "string"  -> deserializestring(from, srcEnd)
      [] type = "vector"  -> DeserializeBytes(Width, from, srcEnd)
      [] type = "strings" -> DeserializeStrings(from, srcEnd)

\* The application knows the type of the next object; what it was given may be cut short.
Deserialize(srcEnd) ==
    LET in == Deserialized(written[Len(got) + 1].type, src, srcEnd) IN
    /\ Len(got) < Len(written) /\ srcEnd >= src
    /\ de' = [srcEnd |-> srcEnd, p |-> in.p, examined |-> in.examined]
    /\ \/ /\ in.p = nullptr
          /\ UNCHANGED <<src, got>>
       \/ /\ in.p # nullptr
          /\ src' = in.p
          /\ got' = Append(got, in.value)
    /\ UNCHANGED <<data, end, written, ser>>

Next ==
    \/ \E object \in Objects, destEnd \in end..Size : Serialize(object, destEnd)
    \/ \E srcEnd \in 0..Size : Deserialize(srcEnd)

Spec == Init /\ [][Next]_vars
-----------------------------------------------------------------------------
(* Properties.                                                              *)

StringsSize(strings) ==
    LET sizes[k \in 0..Len(strings)] == IF k = 0 THEN 0 ELSE sizes[k - 1] + PrefixBytes + Len(strings[k])
    IN  sizes[Len(strings)]

EncodedSize(object) ==
    PrefixBytes + IF object.type = "strings" THEN StringsSize(object.value) ELSE Len(object.value)

\* Where each object ends.
Ends(objects) ==
    LET ends[k \in 0..Len(objects)] == IF k = 0 THEN 0 ELSE ends[k - 1] + EncodedSize(objects[k])
    IN  ends

\* Objects need no separators: reading yields what was written, in order, and a read that
\* succeeds consumes exactly one object's bytes, also behind a failed and repeated write.
ReadsBack ==
    /\ got = [k \in 1..Len(got) |-> written[k].value]
    /\ src = Ends(written)[Len(got)]

\* nullptr indicates insufficient capacity and nothing else: a call succeeds exactly if
\* the whole object fits, wherever in a nested list the capacity ends.
FailsOnlyWhenShort ==
    ser.object # NoObject =>
        (ser.p = nullptr <=> ser.dest + EncodedSize(ser.object) > ser.destEnd)

\* No call leaves its bounds: deserialization looks at no byte behind srcEnd, not even to
\* find that the input is cut, and serialization changes nothing outside [dest, destEnd),
\* also where it fails part way.
StaysInside ==
    [][/\ de'.examined <= de'.srcEnd
       /\ \A i \in DOMAIN data : data'[i] # data[i] => i \in ser'.dest..ser'.destEnd - 1]_vars
=============================================================================
