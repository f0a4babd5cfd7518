----------------------------- MODULE MCEncodings -----------------------------
(***************************************************************************)
(* Instances of LengthEncoding and Serde for TLC, each on a buffer of its  *)
(* own; a behaviour is one of either.  For LengthEncoding, bytes of three  *)
(* bits, so that lengths up to 1, 15 and 8^8 / 4 - 1 take one, two and     *)
(* eight bytes.  For Serde, bytes of one bit and a prefix of two, so that  *)
(* lengths up to 3 take both bytes of the prefix.                          *)
(***************************************************************************)
EXTENDS LengthEncoding

CONSTANTS Base, PrefixBytes, Width, Objects, ObjectBuffer
VARIABLES codec, bytes, end, objects, src, restored, ser, de

S == INSTANCE Serde WITH data <- bytes, written <- objects, got <- restored,
                         Size <- ObjectBuffer

\* LengthEncoding: both sides of each boundary, and a length with different digits.
Boundaries == {0, 1, 2, 15, 16, 342391, 4194303}

\* Serde: empty and full ones of each type, and a nested list whose last element is empty.
Samples ==
    [type : {"string"},  value : {<<>>, <<0, 1>>}] \cup
    [type : {"vector"},  value : {<<0, 1, 0, 0>>}] \cup
    [type : {"strings"}, value : {<<>>, << <<0, 1>>, <<>> >>}]

ASSUME InstanceAssumption == S!SerdeAssumption

serdeVars == <<bytes, end, objects, src, restored, ser, de>>

EncodingsInit == codec \in {"length", "serde"} /\ Init /\ S!Init

EncodingsNext ==
    \/ codec = "length" /\ Next /\ UNCHANGED <<codec, serdeVars>>
    \/ codec = "serde" /\ S!Next /\ UNCHANGED <<codec, vars>>

EncodingsSpec == EncodingsInit /\ [][EncodingsNext]_<<codec, vars, serdeVars>>

\* The properties of Serde, which state what each is about.
ReadsBack          == S!ReadsBack
FailsOnlyWhenShort == S!FailsOnlyWhenShort
StaysInside        == S!StaysInside
=============================================================================
