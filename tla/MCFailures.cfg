SPECIFICATION FairSpec
CONSTANTS
    f1 = f1
    f2 = f2
    n1 = n1
    n2 = n2
    c1 = c1
    c2 = c2
    t1 = t1
    NULL = NULL
    Fd = {f1, f2}
    Nick = {n1, n2}
    Channel = {c1, c2}
    Topic = {t1}
    Commands = {"NICK", "USER", "JOIN", "PART", "TOPIC", "QUERY", "QUIT"}
    SameNick <- DistinctNicks
    MotdReadable = TRUE
    AllocMayFail = TRUE
    HASH_BKT_CAPACITY_THRESH = 10
    MaxOperCount = 1
\* With every descriptor a client that epoll does not watch, nothing is left
\* to happen: the set of descriptors is finite here.
CHECK_DEADLOCK FALSE
INVARIANTS
    MembershipAgrees
    CountersExact
    NoEmptyChannel
    UnwatchedAreNew
PROPERTIES
    EmptiedChannelsDeleted
    QuitCompletes
