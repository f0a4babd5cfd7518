SPECIFICATION StoresSpec
CONSTANTS
    s1 = s1
    s2 = s2
    s3 = s3
    fake = fake
    atomic = atomic
    locking = locking
    shared1 = shared1
    shared2 = shared2
    Stores = {s1, s2, s3}
    Addresses = {a1, a2, a3}
    NullPtr = nullptr
    Values = {zero, o1}
    Zero = zero
    BlockSize <- MCBlockSize
    SizeValues = 16
    HeapMax = 6
    Requests = {1, 3}
    BareStores = {b1, b2}
    BareRequests = {2, 8, 9, 11}
    MoveFull = FALSE
    Guards = {fake, atomic, locking, shared1, shared2}
    Kind <- MCKind
    GuardSize <- MCGuardSize
    Pointers = {p1}
    Objects = {o1}
SYMMETRY Symmetry
CHECK_DEADLOCK FALSE
INVARIANTS
    MemoryOwned
    BareMemoryOwned
    UseCountsAgree
PROPERTIES
    OwnBlocks
