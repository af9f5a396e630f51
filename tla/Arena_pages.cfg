CONSTANTS
    Threads = {t1, t2}
    None = None
    NChunks = 1
    NPages = 3
    SmallPages = 2
    LgDirtyMult = 1
    FileMapped = FALSE
    Word = 32
    MaxHugeFails = 1
SPECIFICATION Spec
INVARIANTS MapsWellFormed CountersExact ZeroDelivered
SYMMETRY Symmetry
