CONSTANTS
    Thread = {t1, t2}
    NoThread = NoThread
    Address = {a}
    NoServer = NoServer
    MaxLeaks = 3
SPECIFICATION FairSpec
PROPERTIES
    CallReturns
    FindsServers
INVARIANTS
    AnswerIsRecent
    ClosedOnce
    LeaksBounded
CHECK_DEADLOCK FALSE
