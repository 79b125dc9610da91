CONSTANTS
    Client = {c1, c2}
    MaxCalls = 2
    Conn = {k1, k2}
    NoConn = NoConn
    Parts = 2
    MaxBuffer = 2
    MayFill = TRUE
    CodecFails = TRUE
    Fails = {2}
    Fd = {5, 6}
    NoFd = NoFd
    Room = 1
    Slots = 2
    Window = 1
    UpWindow = 2
SPECIFICATION Spec
SYMMETRY Symmetry
INVARIANTS
    TypeOK
    AnswerMatches
    OneOutstanding
    FramesIntact
    DescriptorsMatch
PROPERTIES
    ImplementsRpcCall
CONSTRAINT TwoRequests
CHECK_DEADLOCK FALSE
