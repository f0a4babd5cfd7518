SPECIFICATION ReplyLiveSpec
CONSTANTS
    a = a
    b = b
    Peers = {a, b}
    Table <- SameTable
    Hash <- MCHash
    IsVariable <- MCIsVariable
    Size <- ReplySize
    Payloads <- ReplyPayloads
    HashLengthMax <- SameMax
    MinLengths <- FixedLength
    Capacity = 3
    Failures = "transient"
    MaxSessions = 1
    MaxSends <- BothWays
    NoId = noId
    Request = "tick"
    Reply = "log"
    Question <- Tick
    Answer <- Log
    MaxRequests = 1
CHECK_DEADLOCK FALSE
INVARIANTS
    RecvFitsBuffer
PROPERTIES
    FramesStayWhole
    QuestionIsAnswered
