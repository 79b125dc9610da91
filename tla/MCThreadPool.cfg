CONSTANTS
    a = a
    b = b
    c = c
    NoTask = NoTask
    Task <- MCTask3
    Worker = {w1, w2, w3}
    Core = 1
    Max = 2
    MaxQueue = 2
    Priority <- MCPriority
    Throws <- MCThrows
SPECIFICATION Spec
SYMMETRY Symmetry
INVARIANTS
    TypeOK
    EachTaskInOnePlace
    QueueBounded
    ThreadsCounted
    ActiveCounted
    ShutdownTrueMeansQuiet
    StoppedIsEmpty
PROPERTIES
    FutureSetOnce
    ImplementsTaskService
