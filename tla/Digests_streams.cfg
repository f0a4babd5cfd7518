SPECIFICATION DigestsSpec
CONSTANTS
    Bytes = {0, 1}
    One = 1
    Nought = 0
    BlockBytes = 4
    WordValues = 64
    MaxPut = 9
    LongPuts = {61, 62, 63}
    MaxBytes = 9
    ByteBits = 8
    WordBits = 32
    Polynomial <- IEEE
    Feed <- SomeBytes
    PrettyFunctions <- SomeTypes
    Code <- Ascii
    MaxFed = 3
    Names <- ShortNames
    ByteValues = 2
    SizeBytes = 2
    Sizes = {0, 1, 2, 3}
    MaxInfos = 2
CHECK_DEADLOCK FALSE
INVARIANTS
    StandsForPut
    CrcOfTheWhole
    HashTellsApart
PROPERTIES
    ImplementsPaddedMessage
    FinishEnds
