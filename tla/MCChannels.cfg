SPECIFICATION Spec
CONSTANTS
    f1 = f1
    f2 = f2
    f3 = f3
    n1 = n1
    n2 = n2
    n3 = n3
    c1 = c1
    c2 = c2
    t1 = t1
    NULL = NULL
    Fd = {f1, f2, f3}
    Nick = {n1, n2, n3}
    Channel = {c1, c2}
    Topic = {t1}
    Commands = {"NICK", "USER", "JOIN", "PART", "WHO", "QUIT"}
    SameNick <- DistinctNicks
    MotdReadable = TRUE
    AllocMayFail = FALSE
    HASH_BKT_CAPACITY_THRESH = 2
    MaxOperCount = 0
SYMMETRY Symmetry
INVARIANTS
    NickTableConsistent
    MembershipAgrees
    NoEmptyChannel
    CountersExact
    RelaysReachCompanions
    QuittersAreActive
    NoSendToClosedFd
    ConnectionsWatched
PROPERTIES
    FreshStart
    MembershipAnnounced
    ImplementsService
