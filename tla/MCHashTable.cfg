SPECIFICATION Spec
CONSTANTS
    k1 = k1
    k2 = k2
    k3 = k3
    k4 = k4
    k5 = k5
    k6 = k6
    NULL = NULL
    Key = {k1, k2, k3, k4, k5, k6}
    HashFunctions <- SomeHashFunctions
    HASH_INITIAL_NUM_BUCKETS = 2
    HASH_BKT_CAPACITY_THRESH = 3
    MaxBuckets = 8
INVARIANTS
    TypeOK
    HASH_FSCK
    FindsExactly
    OldestEndsChain
    ChainsBounded
PROPERTIES
    RemoveAllRemovesAll
    ImplementsOrderedMap
