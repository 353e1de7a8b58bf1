SPECIFICATION Spec
CONSTANTS
    f1 = f1
    f2 = f2
    n1 = n1
    n2 = n2
    c1 = c1
    t1 = t1
    NULL = NULL
    Fd = {f1, f2}
    Nick = {n1, n2}
    Channel = {c1}
    Topic = {t1}
    Commands = {"NICK", "USER", "JOIN", "OPER", "MODE"}
    SameNick <- DistinctNicks
    MotdReadable = TRUE
    AllocMayFail = FALSE
    HASH_BKT_CAPACITY_THRESH = 10
    MaxOperCount = 1
SYMMETRY Symmetry
INVARIANT UnflaggedMembersRefused
