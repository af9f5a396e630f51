-------------------------------- MODULE Parts --------------------------------
(***************************************************************************)
(* Parts of the repository that share no state with one another, of which  *)
(* one runs in each behaviour: libvmmalloc over fork, the postmark         *)
(* benchmark, the Windows emulation of mmap, the pools of libvmem and the  *)
(* start of the allocator.  Each part's own module has its actions and its *)
(* properties.                                                             *)
(***************************************************************************)
EXTENDS Integers

CONSTANTS
    None,                                                       \* not running
    Procs, First, Forkopts, Paths, Replaces,                    \* Vmmalloc
    Simultaneous, SizeLow, SizeHigh, Transactions, MaxFailures, \* Postmark
    MapThreads, NPages, FileSize, MaxMaps, MaxErrors,           \* WinMmap
    Space, PoolSizes, VMEM_MIN_POOL, DeviceSize,                \* Vmem
    BootThreads, NoThread                                       \* Boot

VARIABLES
    part,            \* the part that runs
    proc, file, path, forkopt, replaces,
    phase, i, transactions, locked, buffered, file_table, file_allocated,
    files_created, files_deleted, disk, failures, skipped,
    mem, trackers, handles, qlock, call, maps, errors, leaked, astray, promise,
    mapped, app, pools, closed, misfit,
    base_pool_initialized,
    malloc_initialized, malloc_initializer, narenas, pool_base_lock, pc, needs, failed

V == INSTANCE Vmmalloc
P == INSTANCE Postmark
W == INSTANCE WinMmap
M == INSTANCE Vmem
T == INSTANCE Boot

-----------------------------------------------------------------------------
\* What each part's own module says of it, while it is the part that runs.

\* With fork support on, a process reads from its pool what it stored there or had
\* there when it was forked, but for stores between the copying and the fork.
KeptButForLateStores == part = "vmmalloc" => V!KeptButForLateStores

\* With fork support on, no two processes write to one pool file.
OneWriter == part = "vmmalloc" => V!OneWriter

\* Between forks a process has one descriptor, that of the file it has mapped: the
\* fork handlers close the other on every path.
NoStrayDescriptor == part = "vmmalloc" => V!NoStrayDescriptor

\* Postmark's file table describes the files on disk; a run never looks for a file
\* in use when there is none, and leaves nothing on disk.
FilesAccounted == part = "postmark" => P!TableMatchesDisk /\ P!RunEndsClean

\* What the Windows emulation of mmap told the program is mapped stays mapped, at
\* the same place of the file, through the splits other threads' calls make; what is
\* not mapped is free, but for the addresses that failed calls of mmap leaked.
MappingsKept == part = "mmap" => W!MappingsKept

\* The emulation's list of mappings, its open handles and the address space agree
\* whenever no call is half done.
TrackersExact == part = "mmap" => W!TrackersExact

\* What is mapped is what the program mapped and what its pools hold, whatever was
\* created, deleted or could not be created.
SpaceAccounted == part = "vmem" => M!SpaceAccounted

\* Unless starting the allocator failed, no call goes on before what it needs is
\* complete, nobody waits for a thread that is not at work, and no call that has
\* returned keeps pool_base_lock.
BootedBeforeUse == part = "boot" => T!BootedBeforeUse
=============================================================================
