CONSTANTS
    Failed = Failed
    Overread = Overread
    NoCall = NoCall
    NoRequest = NoRequest
    KEY_LENGTH = 2
    master_key_ <- MCMasterKey
    MAX_BUFFER_SIZE = 400
    MAX_FRAME_SIZE = 1000
    RpcServiceName <- MCRpcServiceName
    EchoName <- MCEchoName
    Calls <- MCCalls
    SessionKeys <- MCSessionKeys
    Chunks = {1, 3, 50}
    MaxCalls = 2
SPECIFICATION Spec
INVARIANTS
    RequestArrives
    AnswerIsForCall
    LostOnlyIfTooLong
    TruncatedIsRefused
    WholeFrameIsSeen
