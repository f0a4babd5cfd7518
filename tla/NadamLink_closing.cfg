SPECIFICATION LiveSpec
CONSTANTS
    a = a
    b = b
    Peers = {a, b}
    Table <- OtherTable
    Hash <- MCHash
    IsVariable <- MCIsVariable
    Size <- MCSize
    Payloads <- MCPayloads
    HashLengthMax <- OtherMax
    MinLengths <- OtherLength
    Capacity = 2
    Failures = "closing"
    MaxSessions = 2
    MaxSends <- OneWay
    NoId = noId
CHECK_DEADLOCK FALSE
INVARIANTS
    TypeOK
    HashLengthAgreement
    NoSilentLoss
PROPERTIES
    ImplementsChannel
    HandshakeCompletes
    SentIsDelivered
