------------------------------ MODULE MCDigests ------------------------------
(***************************************************************************)
(* Instances of SHA1, CRC32 and MessageInfo for TLC; a behaviour is one of *)
(* the three.  For SHA1, blocks of four bytes and words of six bits, so    *)
(* that the low word of the count carries after eight bytes and one put    *)
(* spans several blocks.  CRC32 has its real size.  MessageInfo has bytes  *)
(* of one bit, which are flag, size or end of a name.                      *)
(***************************************************************************)
EXTENDS SHA1

CONSTANTS ByteBits, WordBits, Polynomial, Feed, PrettyFunctions, Code, MaxFed
CONSTANTS Names, ByteValues, SizeBytes, Sizes, MaxInfos
VARIABLES digest, crc, fed, result, covered, infos, hashed

C == INSTANCE CRC32
M == INSTANCE MessageInfo

ASSUME InstanceAssumption == C!CrcAssumption /\ M!InfoAssumption

crcVars  == <<crc, fed, result, covered>>
infoVars == <<infos, hashed>>

\* 0xEDB88320
IEEE == {5, 8, 9, 15, 19, 20, 21, 23, 24, 26, 27, 29, 30, 31}

Ascii     == [c \in {"a", "<", ">", " "} |-> CASE c = "a" -> {0, 5, 6}
                                               [] c = "<" -> {2, 3, 4, 5}
                                               [] c = ">" -> {1, 2, 3, 4, 5}
                                               [] c = " " -> {5}]
SomeBytes == {{}, Ascii["a"], 0..7}

\* f() [T = a<a>], and a<a<a> > in the spelling of compilers before C++11.
SomeTypes == {<<"T", " ", "=", " ", "a", "<", "a", ">", "]">>,
              <<"=", " ", "a", "<", "a", "<", "a", ">", " ", ">", "]">>}

ShortNames == {<<0>>, <<1>>, <<0, 1>>, <<1, 0, 0>>}

DigestsInit == digest \in {"sha1", "crc", "info"} /\ Init /\ C!Init /\ M!Init

DigestsNext ==
    \/ digest = "sha1" /\ Next /\ UNCHANGED <<digest, crcVars, infoVars>>
    \/ digest = "crc" /\ C!Next /\ UNCHANGED <<digest, vars, infoVars>>
    \/ digest = "info" /\ M!Next /\ UNCHANGED <<digest, vars, crcVars>>

DigestsSpec ==
    /\ DigestsInit /\ [][DigestsNext]_<<digest, vars, crcVars, infoVars>>
    /\ WF_vars(PutZero \/ FinishReturns)

\* The properties of the instances, which state what each is about.
CrcOfTheWhole  == C!CrcOfTheWhole
HashTellsApart == M!HashTellsApart
=============================================================================
