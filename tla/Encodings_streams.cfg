SPECIFICATION EncodingsSpec
CONSTANTS
    Quarter = 2
    Lengths <- Boundaries
    Fill = {0, 7}
    Size = 18
    MaxCount = 2
    Base = 2
    PrefixBytes = 2
    Width = 2
    Objects <- Samples
    ObjectBuffer = 11
INVARIANTS
    LengthsReadBack
    ReadsBack
    FailsOnlyWhenShort
PROPERTIES
    WritesOnlyItsBytes
    RewriteChangesNothing
    StaysInside
CHECK_DEADLOCK FALSE
