CONSTANTS
    Client = {1, 2, 3}
    MaxCalls = 1
    Conn = {1, 2, 3}
    NoConn = NoConn
    Parts = 2
    MaxBuffer = 2
    MayFill = FALSE
    CodecFails = FALSE
    Fails = {}
    Fd = {5, 6, 7}
    NoFd = NoFd
    Room = 1
    Slots = 1
    Window = 1
    UpWindow = 1
SPECIFICATION FairSpec
PROPERTIES
    LoopGoesOn
CONSTRAINT OneAfterAnother
CHECK_DEADLOCK FALSE
