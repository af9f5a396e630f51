SPECIFICATION Spec
CONSTANTS
    Threads = {t1, t2}
    Main = t1
    Regions = {r1}
    BasePool = base
    Null = null
    POOLS_MIN = 2
    POOLS_MAX = 4
    NArenas = 2
    CtlPools = {0, 1}
    OpenFails = FALSE
    Allocated = {r1, base}
    MaxSeqno = 3
SYMMETRY PoolSymmetry
CHECK_DEADLOCK FALSE
INVARIANTS NeverStray
