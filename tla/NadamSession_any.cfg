SPECIFICATION LiveSpec
CONSTANTS
    Names = {log}
    VariableNames = {log}
    Delegates = {own}
    OwnBuffer = {own}
    NullDelegate = nullDelegate
    Stock = stock
    Threads = {t1, t2}
    NoThread = noThread
    HashLengthMax = 2
    SetWhileReceiving = TRUE
    ReinitiateWhileReceiving = TRUE
    StopInDelegate = TRUE
INVARIANTS
    AtMostOneReceiver
    AssertionsFailOnlyWhen
    NoUseAfterFree
CHECK_DEADLOCK FALSE
PROPERTIES
    CancelCompletes
