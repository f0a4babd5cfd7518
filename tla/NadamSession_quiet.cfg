SPECIFICATION Spec
CONSTANTS
    Names = {cmd, log}
    VariableNames = {log}
    Delegates = {own, shared}
    OwnBuffer = {own}
    NullDelegate = nullDelegate
    Stock = stock
    Threads = {t1, t2}
    NoThread = noThread
    HashLengthMax = 4
    SetWhileReceiving = FALSE
    ReinitiateWhileReceiving = FALSE
    StopInDelegate = FALSE
SYMMETRY Symmetry
INVARIANTS
    TypeOK
    AssertionsFailOnlyWhen
    DelegateGetsItsBuffer
    OverwriteIsFlagged
    HandshakeAlone
    LookupSeesWholeTable
PROPERTIES
    StoppedStaysStopped
CHECK_DEADLOCK FALSE
