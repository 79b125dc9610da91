CONSTANTS
    a = a
    b = b
    c = c
    NoTask = NoTask
    Task <- MCTask3
    Worker = {w1}
    Core = 1
    Max = 1
    MaxQueue = 1
    Priority <- MCPriority
    Throws <- MCThrows
SPECIFICATION FairSpec
PROPERTIES
    AcceptedTaskEnds
    BlockedProducerGetsRoom
    ControlCallReturns
