-------------------------------- MODULE MCParts --------------------------------
(***************************************************************************)
(* The parts of Parts and those whose operators are recursive or checked   *)
(* against a reference definition only: the radix tree of the examples,    *)
(* the size classes, the bitmap of a run, the red-black trees, the cuckoo  *)
(* hash table and the quarantine of a thread.  One runs in each behaviour  *)
(* and the others stay at None; nothing is added to them here.             *)
(***************************************************************************)
EXTENDS Parts

CONSTANTS
    Keys, Values, NLetters, MAX_PREFIX_LEN,                     \* ArtTree
    Cap4, Cap16, Cap48, Shrink16, Shrink48, Shrink256,
    SizeBits, LgChunk, Requests, Alignments,                    \* Sizes
    BITMAP_GROUP_NBITS, MaxBits,                                \* Bitmap
    NNodes,                                                     \* RbTree
    NPtrs, Usize, opt_quarantine, LG_MAXOBJS_INIT,              \* Quarantine
    CkhKeys, Hash, LG_CKH_BUCKET_CELLS,                         \* Ckh
    MinItems, MaxLgBuckets, MaxOom

VARIABLES
    root, size, dict,
    opt_redzone, arena_maxclass, arena_bin_info, request,
    nbits, bitmap, taken,
    rbtree, nodes,
    tls, initialized, exiting, owned, waiting, buffers,
    ckh, ins, op, stored, ooms

vmvars == <<proc, file, path, forkopt, replaces>>
pmvars == <<phase, i, transactions, locked, buffered, file_table, file_allocated,
            files_created, files_deleted, disk, failures, skipped>>
wmvars == <<mem, trackers, handles, qlock, call, maps, errors, leaked, astray, promise>>
artvars == <<root, size, dict>>
szvars == <<opt_redzone, arena_maxclass, arena_bin_info, request>>
bmvars == <<nbits, bitmap, taken>>
vvars == <<mapped, app, pools, closed, misfit>>
rbvars == <<rbtree, nodes>>
quvars == <<tls, initialized, exiting, owned, waiting, buffers>>
bootvars == <<malloc_initialized, malloc_initializer, narenas, pool_base_lock, pc, needs,
              failed>>
ckhvars == <<ckh, ins, op, stored, ooms>>

A == INSTANCE ArtTree
S == INSTANCE Sizes
B == INSTANCE Bitmap
R == INSTANCE RbTree
Q == INSTANCE Quarantine
K == INSTANCE Ckh WITH call <- op

\* Keys that fill a node of every kind below an empty prefix, and keys that leave
\* a prefix longer than a node keeps at each of its letters.
MCKeys == {<<c, 1, 2, 0>> : c \in 0 .. 5}
            \cup {<<0, 1, 2, 1>>, <<0, 1, 3, 0>>, <<0, 2, 0, 0>>}

\* Sizes around each entry of the first half of the lookup table and around the
\* larger classes, and the limits of runs, chunks and size_t.
MCRequests ==
    {8 * k + d : k \in 1 .. 32, d \in {-1, 0, 1}}
        \cup {64 * k + d : k \in 5 .. 64, d \in {-1, 0, 1}}
        \cup {2^LgChunk + d : d \in {-24577, -24576, -24575, -8192, 0, 1}}
        \cup {2^SizeBits - d : d \in {1, 4095, 4096, 4097, 2^LgChunk, 2^LgChunk - 1}}

MCAlignments == {2^x : x \in {0, 4, 6, 7, 9, 11, 12, 13, 21, 22, 23}}

\* Objects of which several, few or none fit in the quarantine.
MCUsize == <<1, 1, 1, 1, 2, 5>>

\* Keys that share a bucket in every table, in small ones only or not at all: they
\* need evictions, chains of them, tables doubled twice, and one that cannot be had.
MCHash == <<<<1, 1>>, <<9, 9>>, <<1, 0>>, <<5, 4>>, <<17, 17>>, <<0, 3>>>>

Parts == {"vmmalloc", "postmark", "mmap", "art", "sizes", "bitmap", "vmem",
          "rbtree", "quarantine", "boot", "ckh"}

NoVmmalloc ==
    /\ proc = None /\ file = None /\ path = None /\ forkopt = None
    /\ replaces = None

NoPostmark ==
    /\ phase = None /\ i = None /\ transactions = None /\ locked = None
    /\ buffered = None /\ file_table = None /\ file_allocated = None
    /\ files_created = None /\ files_deleted = None /\ disk = None
    /\ failures = None /\ skipped = None

NoMmap ==
    /\ mem = None /\ trackers = None /\ handles = None /\ qlock = None
    /\ call = None /\ maps = None /\ errors = None /\ leaked = None
    /\ astray = None /\ promise = None

NoArt == root = None /\ size = None /\ dict = None

NoSizes ==
    /\ opt_redzone = None /\ arena_maxclass = None
    /\ arena_bin_info = None /\ request = None

NoBitmap == nbits = None /\ bitmap = None /\ taken = None

NoVmem ==
    /\ mapped = None /\ app = None /\ pools = None /\ closed = None
    /\ misfit = None

NoRbTree == rbtree = None /\ nodes = None

NoQuarantine ==
    /\ tls = None /\ initialized = None /\ exiting = None /\ owned = None
    /\ waiting = None /\ buffers = None

NoBoot ==
    /\ malloc_initialized = None /\ malloc_initializer = None /\ narenas = None
    /\ pool_base_lock = None /\ pc = None /\ needs = None /\ failed = None

NoCkh == ckh = None /\ ins = None /\ op = None /\ stored = None /\ ooms = None

Init ==
    /\ part \in Parts
    /\ IF part = "vmmalloc" THEN V!Init ELSE NoVmmalloc
    /\ IF part = "postmark" THEN P!Init ELSE NoPostmark
    /\ IF part = "mmap" THEN W!Init ELSE NoMmap
    /\ IF part = "art" THEN A!Init ELSE NoArt
    /\ IF part = "sizes" THEN S!Init ELSE NoSizes
    /\ IF part = "bitmap" THEN B!Init ELSE NoBitmap
    /\ IF part = "vmem" THEN M!Init ELSE NoVmem
    /\ IF part = "rbtree" THEN R!Init ELSE NoRbTree
    /\ IF part = "quarantine" THEN Q!Init ELSE NoQuarantine
    /\ IF part = "boot" THEN T!Init ELSE NoBoot
    /\ IF part = "ckh" THEN K!Init ELSE NoCkh
    /\ part \notin {"quarantine", "boot"} => base_pool_initialized = None

Next ==
    \/ /\ part = "vmmalloc" /\ V!Next
       /\ UNCHANGED <<part, pmvars, wmvars, artvars, szvars, bmvars,
                      vvars, rbvars, quvars, bootvars, ckhvars,
                      base_pool_initialized>>
    \/ /\ part = "postmark" /\ P!Next
       /\ UNCHANGED <<part, vmvars, wmvars, artvars, szvars, bmvars,
                      vvars, rbvars, quvars, bootvars, ckhvars,
                      base_pool_initialized>>
    \/ /\ part = "mmap" /\ W!Next
       /\ UNCHANGED <<part, vmvars, pmvars, artvars, szvars, bmvars,
                      vvars, rbvars, quvars, bootvars, ckhvars,
                      base_pool_initialized>>
    \/ /\ part = "art" /\ A!Next
       /\ UNCHANGED <<part, vmvars, pmvars, wmvars, szvars, bmvars,
                      vvars, rbvars, quvars, bootvars, ckhvars,
                      base_pool_initialized>>
    \/ /\ part = "sizes" /\ S!Next
       /\ UNCHANGED <<part, vmvars, pmvars, wmvars, artvars, bmvars,
                      vvars, rbvars, quvars, bootvars, ckhvars,
                      base_pool_initialized>>
    \/ /\ part = "bitmap" /\ B!Next
       /\ UNCHANGED <<part, vmvars, pmvars, wmvars, artvars, szvars,
                      vvars, rbvars, quvars, bootvars, ckhvars,
                      base_pool_initialized>>
    \/ /\ part = "vmem" /\ M!Next
       /\ UNCHANGED <<part, vmvars, pmvars, wmvars, artvars, szvars,
                      bmvars, rbvars, quvars, bootvars, ckhvars,
                      base_pool_initialized>>
    \/ /\ part = "rbtree" /\ R!Next
       /\ UNCHANGED <<part, vmvars, pmvars, wmvars, artvars, szvars,
                      bmvars, vvars, quvars, bootvars, ckhvars,
                      base_pool_initialized>>
    \/ /\ part = "quarantine" /\ Q!Next
       /\ UNCHANGED <<part, vmvars, pmvars, wmvars, artvars,
                      szvars, bmvars, vvars, rbvars, bootvars, ckhvars>>
    \/ /\ part = "boot" /\ T!Next
       /\ UNCHANGED <<part, vmvars, pmvars, wmvars, artvars,
                      szvars, bmvars, vvars, rbvars, quvars, ckhvars>>
    \/ /\ part = "ckh" /\ K!Next
       /\ UNCHANGED <<part, vmvars, pmvars, wmvars, artvars, szvars, bmvars,
                      vvars, rbvars, quvars, bootvars, base_pool_initialized>>

Spec ==
    Init /\ [][Next]_<<part, vmvars, pmvars, wmvars, artvars, szvars, bmvars, vvars,
                       rbvars, quvars, bootvars, ckhvars, base_pool_initialized>>

-----------------------------------------------------------------------------
\* What the other parts' own modules say of them, while they run.

\* The radix tree finds exactly the keys it holds, with their values.
TreeIsMap == part = "art" => A!TreeIsMap

\* Every request is served by a place that is large enough, aligned as asked and
\* found again from its pointer, or refused because it cannot be represented.
RequestsFit == part = "sizes" => S!RequestsFit

\* The bitmap of a run is the set of its allocated regions, and hands out the
\* lowest that is free.
BitmapIsSet == part = "bitmap" => B!BitmapIsSet

\* Whatever was inserted and removed, a red-black tree is balanced and every search
\* and iteration finds in it exactly the nodes it holds.
RbTreeIsSet == part = "rbtree" => R!RbTreeIsSet

\* What a thread freed waits in its quarantine, once, in order and within the limit,
\* and nothing is left there when the thread has ended.
QuarantineIsQueue == part = "quarantine" => Q!QuarantineIsQueue

\* A search of the cuckoo hash table finds exactly the keys it should hold, whatever
\* was evicted, rebuilt, backed out or refused for want of memory.
CkhIsSet == part = "ckh" => K!CkhIsSet
=============================================================================
