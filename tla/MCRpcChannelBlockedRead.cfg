CONSTANTS
    Client = {c1}
    MaxCalls = 1
    Conn = {k1, k2}
    NoConn = NoConn
    Parts = 2
    MaxBuffer = 2
    MayFill = TRUE
    CodecFails = FALSE
    Fails = {}
    Fd = {5, 6}
    NoFd = NoFd
    Room = 1
    Slots = 1
    Window = 1
    UpWindow = 2
SPECIFICATION FairSpec
PROPERTIES
    ReadReturns
CHECK_DEADLOCK FALSE
