SPECIFICATION Spec
CONSTANTS
    None = None
    Procs = {p1, p2, p3}
    First = p1
    Forkopts = {0, 1, 2, 3}
    Paths = {"file", "dir"}
    Replaces = 2
    Simultaneous = 2
    SizeLow = 1
    SizeHigh = 2
    Transactions = {1, 10}
    MaxFailures = 1
    MapThreads = {"m1", "m2"}
    NPages = 4
    FileSize = 3
    MaxMaps = 2
    MaxErrors = 1
    Keys <- MCKeys
    Values = {1}
    NLetters = 6
    MAX_PREFIX_LEN = 2
    Cap4 = 3
    Cap16 = 4
    Cap48 = 5
    Shrink16 = 2
    Shrink48 = 3
    Shrink256 = 4
    SizeBits = 24
    LgChunk = 22
    Requests <- MCRequests
    Alignments <- MCAlignments
    BITMAP_GROUP_NBITS = 2
    MaxBits = 9
    Space = 5
    PoolSizes = {1, 2, 3}
    VMEM_MIN_POOL = 2
    DeviceSize = 2
    NNodes = 11
    NPtrs = 6
    Usize <- MCUsize
    opt_quarantine = 4
    LG_MAXOBJS_INIT = 0
    BootThreads = {b1, b2, b3}
    NoThread = NoThread
    CkhKeys = {1, 2, 3, 4, 5, 6}
    Hash <- MCHash
    LG_CKH_BUCKET_CELLS = 1
    MinItems = {1}
    MaxLgBuckets = 3
    MaxOom = 1
CHECK_DEADLOCK FALSE
INVARIANTS KeptButForLateStores OneWriter NoStrayDescriptor FilesAccounted MappingsKept TrackersExact TreeIsMap RequestsFit BitmapIsSet SpaceAccounted RbTreeIsSet QuarantineIsQueue BootedBeforeUse CkhIsSet
