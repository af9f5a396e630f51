SPECIFICATION Spec
CONSTANTS
    Threads = {t1, t2}
    Main = t1
    Regions = {r1, r2}
    BasePool = base
    Null = null
    POOLS_MIN = 2
    POOLS_MAX = 2
    NArenas = 1
    CtlPools = {}
    OpenFails = TRUE
    Allocated = {}
    MaxSeqno = 3
SYMMETRY PoolSymmetry
CHECK_DEADLOCK FALSE
INVARIANTS NumberStillUnused
