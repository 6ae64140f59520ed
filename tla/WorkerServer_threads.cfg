SPECIFICATION FairSpec
CONSTANTS
    Clients = {c1, c2}
    ResourceFaults = TRUE
INVARIANT TypeOK
INVARIANT WorkerAccounting
INVARIANT NoLostWakeup
PROPERTY ListenerCloses
PROPERTY ShutdownCompletes
CHECK_DEADLOCK FALSE
