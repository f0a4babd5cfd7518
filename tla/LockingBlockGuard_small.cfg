SPECIFICATION LiveSpec
CONSTANTS
    Threads = {t1, t2, t3}
    Words = {w1, w2}
    Values = {v1, v2}
    ReaderMask = 1
    WriterBit = 4
    LockValues = 8
    MaxOps = 1
CHECK_DEADLOCK FALSE
INVARIANTS
    LockCountsHolders
PROPERTIES
    ImplementsRegister
    CallsReturn
