SPECIFICATION FairSpec
CONSTANTS
    c1 = c1
    c2 = c2
    c3 = c3
    listener = listener
    NoFd = NoFd
    Client = {c1, c2, c3}
    MAX_EVENTS = 2
    MaxPending = 1
    MaxBacklog = 1
    Interruptible = TRUE
\* A process that has crashed, or that waits in recv for the stale descriptor of
\* an interrupted wait, does nothing more.
CHECK_DEADLOCK FALSE
INVARIANTS
    TypeOK
    HandledEventIsReady
    NoWakeupLost
PROPERTIES
    ClientsServed
