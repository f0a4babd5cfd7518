SPECIFICATION OrderSpec
CONSTANTS
    Threads = {t1, t2}
    Words = {w1}
    Values = {v1}
    ReaderMask = 1
    WriterBit = 4
    LockValues = 8
    MaxOps = 2
CHECK_DEADLOCK FALSE
INVARIANTS
    NoDataRace
