SPECIFICATION Spec
CONSTANTS
    Stores = {s1, s2}
    Addresses = {a1, a2, a3}
    NullPtr = nullptr
    Values = {zero, v1}
    Zero = zero
    BlockSize <- MCBlockSize
    SizeValues = 40
    HeapMax = 19
    Requests = {0, 2}
    MoveFull = FALSE
SYMMETRY Symmetry
CHECK_DEADLOCK FALSE
INVARIANTS
    NoUndefined
