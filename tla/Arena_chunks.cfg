CONSTANTS
    Threads = {t1, t2}
    None = None
    NChunks = 2
    NPages = 2
    SmallPages = 2
    LgDirtyMult = 1
    FileMapped = FALSE
    Word = 32
    MaxHugeFails = 0
SPECIFICATION Spec
INVARIANTS PagesPartitioned NpurgatorySettles
SYMMETRY Symmetry
