CONSTANTS
    Thread = {t1, t2, t3}
    NoThread = NoThread
    MaxPools = 3
SPECIFICATION Spec
INVARIANTS
    OnePool
    StoppedIsHidden
CHECK_DEADLOCK FALSE
