CONSTANTS
    Thread = {t1}
    NoThread = NoThread
    Address = {a}
    NoServer = NoServer
    MaxLeaks = 3
SPECIFICATION FairSpec
PROPERTIES
    ReconnectsByItself
CHECK_DEADLOCK FALSE
