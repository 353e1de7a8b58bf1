SPECIFICATION FairSpec
CONSTANTS
    c1 = c1
    listener = listener
    NoFd = NoFd
    Client = {c1}
    MAX_EVENTS = 2
    MaxPending = 1
    MaxBacklog = 1
    Interruptible = FALSE
\* Clients may fall silent, and the loop then waits.
CHECK_DEADLOCK FALSE
PROPERTIES
    ReportedClientsHandled
