CONSTANTS
    a = a
    Server <- MCServer
    Address = {a}
    NoOwner = NoOwner
    Absent = Absent
    Malformed = Malformed
    Refused = Refused
    ConfigFile <- MCConfigFile
SPECIFICATION FairSpec
INVARIANTS
    RegisteredIsListening
    RunningIsRegistered
    PoolHasThreads
PROPERTIES
    ExitDeregisters
    
    StartSucceeds
