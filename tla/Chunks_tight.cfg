SPECIFICATION Spec
CONSTANTS
    Threads = {t1, t2}
    NChunks = 3
    NNodes = 3
    Sizes = {1, 2}
    Aligns = {1, 2}
    ZeroInit = TRUE
SYMMETRY ThreadSymmetry
INVARIANTS TypeOK NeverTwice AllHeld NodesConserved CheckPasses ZeroDelivered
PROPERTY ImplementsHeap
