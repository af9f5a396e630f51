SPECIFICATION Spec
CONSTANTS
    Threads = {t1, t2}
    Main = t1
    Regions = {r1, r2}
    BasePool = base
    Null = null
    POOLS_MIN = 2
    POOLS_MAX = 4
    NArenas = 2
    CtlPools = {0}
    OpenFails = TRUE
    Allocated = {r1, r2}
    MaxSeqno = 3
CONSTRAINT AddressesOrArenas
SYMMETRY PoolSymmetry
CHECK_DEADLOCK FALSE
INVARIANTS TypeOK NeverStray PoolsConsistent NumberKeptByLock NthreadsCounted
