# A verification of the DRAM/PMEM benchmark and its allocator

The repository measures how programs run from DRAM and from persistent memory
with different page sizes. It has three layers of its own logic: the scripts
that drive a measurement over several reboots, the libraries that make a
program allocate from persistent memory (libvmem and libvmmalloc), and a fork
of jemalloc in which every allocation belongs to a *pool* with a fixed region of
memory. The benchmarks themselves (postmark, apex-map, polybench, fio, redis,
ycsb) are inputs of the first layer; postmark, which is kept in source and has
state of its own, is modelled.

## Inventory

| part | state | operations | what is hard | modules |
|---|---|---|---|---|
| orchestrator: `full_run.sh`, `reset.sh`, `setup.sh`, `pmem.sh`, `dram.sh` | `state_*` markers, the systemd unit, `backup_cmdline`, the logs, the kernel's command line, the huge page pools | setup, four stages, resets, reboots by `kexec` and `shutdown` | crashes between two steps of a stage; state that survives a crash and state that does not | `FullRun` |
| chunk allocator: `chunk.c`, `base.c`, `huge.c`, the chunk level of `arena.c` | trees of free extents, tree of huge allocations, list of extent nodes, spare chunk, statistics | allocate, split, expand, shrink, move, free, coalesce | locks dropped in the middle of an operation; a fixed number of nodes; error paths | `Chunks`, `Heap` |
| pool life cycle: `jemalloc.c` (`je_pool_*`), `pool.c`, `tsd` caches | `pools[]`, `npools`, `pool_seqno`, per-thread arrays of arenas and tcaches | create, open, delete, the `thread.*` controls | pool numbers reused while other threads still cache what belonged to the old pool | `Pools` |
| start of the allocator: `malloc_init*` | `malloc_initialized`, `malloc_initializer`, `init_lock`, `pool_base_lock` | the first calls | several threads at once; failing steps | `Boot` |
| lock order and fork: all of jemalloc | every mutex | every operation that takes one; prefork and postfork | everyone waiting on everyone; a child that inherits held locks | `Locks` |
| arena runs: `arena.c` | page maps, trees of free runs, dirty chunks, `ndirty`, `nactive`, `npurgatory`, the spare | split, coalesce, trim, grow, shrink, purge, huge accounting | a purge gives the arena's lock up with runs in hand | `ArenaRuns` |
| bins and thread caches: `arena.c`, `tcache.c` | `runcur`, tree of non-full runs, arrays of cached regions, statistics | allocate, free, fill, flush, garbage collection | `bin->lock` dropped while a run is fetched; regions of several arenas flushed one arena at a time | `Bins` |
| size classes and layout of runs: `size_classes.sh`, `arena.c`, inline headers | class tables, `arena_bin_info` | `s2u`, `sa2u`, layout, region index | wrapping near the top of `size_t`; class boundaries | `Sizes` |
| data structures: `bitmap.c`, `rb.h`, `ckh.c`, `quarantine.c`; `rtree.c`, `vector.c` | groups and summary levels; nodes and colours; cells; a ring buffer | set, unset; insert, remove, search; quarantine, drain, clean up | long sequences of legal calls; tables rebuilt and backed out; copying a ring that wraps | `Bitmap`, `RbTree`, `Ckh`, `Quarantine` |
| libvmmalloc: `libvmmalloc.c` | `Vmp`, `Fd`, `Fd_clone`, `Private`, `Forkopt`, the mapping | start, fork handlers, end | a child that must not share its parent's pool; half a clone | `Vmmalloc` |
| libvmem: `vmem.c`, `libvmem.c` | mappings and headers of pools | create in a file, on a device, in given memory; delete | undoing half a creation | `Vmem` |
| Windows mmap: `win_mmap.c` | list of trackers, handles, views and reserved addresses | `mmap`, `munmap`, `mmap_split` | a view can only be unmapped whole; other threads take the addresses | `WinMmap` |
| postmark: `postmark-1_5.c` | table of files, counters | create, read, append, delete | table empty or full; calls that fail | `Postmark` |
| libart example: `libart/art.c` | radix tree | insert, search, delete, iterate | growing, shrinking and splitting nodes | `ArtTree` |
| common library: `mmap.c`, `file.c`, `out.c`, `util.c`, `os_*` | last error message | map, unmap, size parsing | | — |
| statistics, profiling, the reading half of `ctl.c` | counters | reports | | — |

How they interact: the scripts run a benchmark under libvmmalloc, which makes
one libvmem-style pool with `je_vmem_pool_create` and sends every `malloc` to it.
A request passes through the size classes to a thread cache, from there to a
bin, whose runs are cut from an arena's chunks, which come from the chunk
allocator of the pool. Each layer has its own lock, and most of the hard
behaviour is where an operation drops the lock of one layer to enter another.
`Locks` models that interaction over all layers; the other modules take one layer
each and leave the layer below as free as the code leaves it.

## How the modules correspond to the code

Definitions carry the source's names where TLA+ allows it. Definitions
introduced by a comment "Mistake: ..." are not part of any specification: each
is a plausible error in the definition that follows it, kept to confirm that a
property would notice it. In every model an action is either a critical section
or a stretch of code of one process between two points at which others can see
or disturb its effects.

### FullRun — the measurement

State is split as the machine splits it. On disk, and so safe from a power
failure: `markers` (the `state_*` files), `enabled` (the systemd unit),
`backup` (`backup_cmdline`) and the logs (`count`, `samples`). In memory, and
lost: `cmdline` (options of the running kernel), `pools` (reserved huge pages)
and the script itself (`pc`, `stage`, `iter`, and `byUnit`: whether systemd or the
operator started it). `prototype` is the script's argument, chosen by the operator at
`Start` and handed on by the unit.

| action | code |
|---|---|
| `Start`, `Boot`, `Restart` | the operator, systemd at boot |
| `Dispatch` | the chain of `if [ ! -f state_X ]` in `full_run.sh`, with the reservation of huge pages at the head of a stage |
| `Setup`, `EnableService`, `TouchSetup`, `LeaveSetup` | lines 16–48, one action per effect a crash can separate |
| `RunSample` | one call of `pmem.sh` or `dram.sh`: a sample is appended, and the conditions it was really taken under are noted |
| `TouchStage`, `LeaveStage` | the marker, and then `shutdown -r`, `kexec` or plain `exit` |
| `Reset` | `reset.sh` |
| `Crash` | power failure, at any time the machine is up |

A sample is its configuration (the `TLB_SIZE` in the name of its log), the
kernel's default huge page size, whether the kernel emulates pmem, and the
reserved pools; what the benchmark computes is left out.

### Chunks and Heap — memory in chunks

`Chunks` is one pool other than the base pool, the kind libvmem and libvmmalloc
make. `free` is the set of free extents (the two trees over the same nodes),
`huge` the tree of huge allocations, `arena` and `spare` the chunks of an arena,
`base` what `base_alloc` took. What the code keeps in local variables while no
lock protects it is a variable of the thread: `hold` (the range being moved),
`trail` (the rest of a split), `nd` (extent nodes in hand), `req` (the call).
`lost` collects the chunks that the two leaking error paths drop, and `dirty` the
chunks that may not be zero.

| actions | code |
|---|---|
| `HugePalloc`, `HugeExpand`, `HugeShrink`, `HugeDalloc` | `huge.c`; `HugeExpand` falls back to a move, as `huge_ralloc` does |
| `ArenaChunkAlloc`, `ArenaChunkDalloc` | `arena_chunk_alloc` and `arena_chunk_dalloc` with the spare |
| `BasePagesAlloc` | `base_pages_alloc` under `base_mtx` |
| `Recycle`, `TrailNode`, `InsertTrail`, `SpareNode`, `Register` | `chunk_recycle` and `chunk_register`, cut where `chunks_mtx` is dropped |
| `Uncount`, `RecordNode`, `Record`, `Return` | `chunk_dalloc_core` and `chunk_record` |
| `Finish` | the caller inserts the result in its own structure |

Sizes and addresses are counted in chunks. Left out: the sbrk allocator (a
file-mapped pool does not use it), user chunk hooks, `je_pool_extend`, several
arenas (they share all that is modelled except `spare`).

`Heap` is the abstract specification: a set of disjoint live regions, in which
a step allocates, resizes or frees one region. `ImplementsHeap` maps `live` to
the huge allocations and the single chunks of the arena and of base memory.

### Pools — the life of a pool and the arrays of threads

Every thread has two arrays indexed by pool number, one of arenas and one of
thread caches. Nobody clears them when a pool is deleted. `aslot` and `tslot` are
their slots, `alen` and `tlen` their lengths; a slot remembers the `seqno` of the
pool it was filled for, and that number alone tells a good pointer from a
dangling one. A pointer in the model is the pool it points into and the *birth*
of the pool for which it was made, so the model can tell what the code cannot.

| actions | code |
|---|---|
| `CreateLock`, `RegisterPool`, `CreateFails`, `CreateUnlock` | `je_pool_create` with `pool_create_empty` and `pool_open` |
| `DeleteRead`, `Delete` | `je_pool_delete`; the number is read before `pools_lock` is taken |
| `MallocCached`, `MallocFirst`, `MallocUncached`, `MallocLarge`, `Free` | `tcache_get`, `tcache_get_hard`, `tcache_create`, `choose_arena`, `choose_arena_hard`, `arenas_extend` |
| `TcacheEnabledSet`, `TcacheFlush`, `ThreadArenaCtl`, `Rebind` | the `thread.*` mallctls |
| `ThreadExit` | the end of a thread, which runs no cleanup |
| `TcacheThreadCleanup`, `ArenasCleanup` | `jemalloc_destructor` |

`pool_open` may fail (`CONSTANT OpenFails`). It then unlocks `pools_lock`, and its caller does
so again (`CreateUnlock`). `intruded` notes that this second unlock took the lock from another
thread, which is in the middle of its own section.

Assumptions on the program: it uses a pool after its creation returned and not
once a thread has called `je_pool_delete` for it; two threads may delete the same
pool. Abstractions: the calls of a thread on its own arrays are single steps,
since the arrays are private and what is shared is changed under `arenas_lock`;
extending a thread's array never runs out of memory; `arenas_extend` may fail when a
thread chooses an arena but not in `thread.pool.<i>.arena`; entries past the
end of `pools[]` read as NULL; `pool_seqno` does not wrap.
`POOLS_MIN` and `POOLS_MAX` are parameters (16 and 32768 in the code, 2 and 4 in
the runs), so that growing `pools[]` and filling it are both reached.

### Boot — the first calls

`malloc_init` looks at `malloc_initialized` without a lock, `malloc_init_hard` works under
`init_lock`, lets go of it to register the fork handlers and takes it again, and
`malloc_init_base_pool` does all this with `pool_base_lock` held. A thread's program
counter says which of these it is in. A step of `malloc_init_hard` may fail, and so may
`pool_new`. Recursive allocation by `pthread_atfork` is left out: in the builds of
this repository the allocator's functions have a prefix, so nothing but the
libraries calls them.

### Locks — lock order and fork

A function of the allocator is a set of lock traces: the sequences of lock and
unlock steps its paths can leave, put together from those of the functions it calls.
`Then` composes, `Under` wraps, and an early return is another trace. An operation
is cut into sections, each ending where the thread holds nothing. `Begin`
chooses a section, `Lock` and `Unlock` take its steps, and `Fork` is `fork()`
between `jemalloc_prefork` and the two counterparts; in the child only the
forking thread goes on, and the locks others held are `stuck`. Which path is taken
is left open, since the contents that decide it are the business of the other
modules. `CONSTANT Operations` picks the operations, and `NPools` is the number of pools,
of which the fork handlers take each kind of lock in turn.

### ArenaRuns — the pages of an arena

`arena` is `arena_t` with the page maps of its chunks as one record; the operators take
and return it, one per function of `arena.c`. What a thread still has to do when
the lock is dropped is its list of `jobs` (`trim`, `init`, `newchunk`, `maybe_purge`, `purge`,
`stash`, `stashed`, `unstash`, `unmap`, `huge`).

| actions | code |
|---|---|
| `arena_run_alloc`, `arena_chunk_alloc` and the jobs behind them | `arena_run_alloc_large`, `arena_run_alloc_small`, the helper that searches, the lock dropped for a chunk and the search repeated |
| `arena_palloc_tail`, `arena_palloc_init` | `arena_palloc`, `arena_run_trim_head`, `arena_run_trim_tail` |
| `arena_dalloc_large`, `arena_dalloc_bin_run` | frees, with `arena_run_coalesce` and `arena_maybe_purge` |
| `arena_ralloc_large_shrink`, `arena_ralloc_large_grow` | `arena_ralloc_large_shrink`, `arena_ralloc_large_grow` |
| `arena_purge_all`, `Purge`, `arena_chunk_stash_dirty`, `arena_chunk_purge_stashed`, `arena_chunk_unstash_purged`, `arena_chunk_dalloc_internal` | `arena_purge`, `arena_chunk_purge` and the functions it calls |
| `arena_chunk_alloc_huge`, `arena_chunk_dalloc_huge`, `HugeAnswer` | huge allocations as the arena counts them |

As in the code, only the map elements at both ends of a run mean anything.
`touched` says which pages really hold something other than zeros, so that the flags can
be compared with it. Counters wrap at `Word`. The walk of `arena_chunk_stash_dirty` is one
step per run, all of them under the lock; whether `pages_purge` zeroes is chosen for each
stashed run. `None` is neither a thread nor a chunk.

### Bins — small regions and thread caches

The bin of one size class in each arena, and one cache bin per thread.

| actions | code |
|---|---|
| `Malloc`, `Get`, `NewRun`, `Relock` | `tcache_alloc_easy`, `arena_tcache_fill_small`, `arena_bin_malloc_hard`, `arena_bin_nonfull_run_get` with `bin->lock` dropped |
| `Free`, `arena_dalloc_bin`, `DropRun`, `Dropped` | `tcache_dalloc_small`, `arena_dalloc_bin_locked`, `arena_dalloc_bin_run` |
| `Pass`, `FlushOne`, `Flushed` | `tcache_bin_flush_small`: a pass per arena, with regions deferred in the array it walks |
| `tcache_event_hard`, `tcache_create`, `tcache_destroy` | garbage collection, first use, `thread.tcache.flush` and thread end |

### Vmmalloc and Vmem — pools of a process

`Vmmalloc` reduces the pool to a single word, in which a process writes its name and
of which it keeps a note in ordinary memory. `fork` copies processes and private
mappings; files are shared. Actions: loading (with `VMMALLOC_POOL_DIR` naming
a file or a directory), stores, `libvmmalloc_prefork`, the fork,
`libvmmalloc_postfork_parent`, `libvmmalloc_postfork_child`, exit, and somebody who
replaces the path.
`Vmem` is `vmem_create`, `vmem_create_in_region` and `vmem_delete` over an address
space, with a file, a device and the program's own memory, and failures after
each step.

### WinMmap, Postmark, ArtTree

`WinMmap`: `mem` is what the system has at each address, `trackers` the list under
`FileMappingQLock`, `promise` what the calls told the program. `mmap` is cut
where it makes system calls without the lock; `munmap` is one step per tracker, and a
tracker it cuts is taken out in one step and its pieces put back in the next. An `mmap` that
fails (`Fails`: no mapping object or no view; `InsertFails`: no memory for the tracker) keeps the
tail it reserved and the view it mapped: `leaked` are the addresses it leaves behind. A view that
is refused at free addresses is taken to be refused elsewhere too, and giving back a reserved
tail always succeeds (the code has `ASSERT(FALSE)` where it does not). What happens after a mapping has gone
`astray` (see below) is not followed. `msync` adds up the
addresses that trackers have in its range and compares the sum with the range's length. `Postmark`: `cli_run` with its three
loops; a file is a size, by name. `ArtTree`: nodes are nested records; the sizes at
which nodes grow and shrink are constants, so that six letters reach each of them.

### Sizes, Bitmap, RbTree, Ckh, Quarantine — algorithms

Each is compared with a reference definition over all inputs within bounds.
`Sizes` computes the tables of `size_classes.sh`, rounds requests with wrapping
arithmetic, lays out the runs of every bin and goes back from a pointer to
its region. `Bitmap` keeps groups and summary levels in one array. `RbTree` follows
`rb.h` node by node: links and colours are functions, the path is a sequence,
and the unwinding loops are folds over it with what is left to do. `Ckh` takes one step
per attempt to place a key and per round of a loop, since the cell to evict from is chosen
by a pseudo-random number, here freely; `call` keeps the old table while a new one is filled. `Quarantine` is
one thread's ring with its growth, and the destructor that is called again as long
as other destructors free memory.

### Parts, MCParts — parts that share no state

The modules of the last four sections and `Boot` are independent of one another. `Parts`
instantiates those that are machines of their own (`Vmmalloc`, `Postmark`, `WinMmap`, `Vmem`,
`Boot`) and states their properties; `MCParts` adds the algorithms and lets each behaviour
run one of them all: `part` says which, and the variables of the others stay at `None`.
Nothing else is added: each property is that of the part's module, whenever that part runs.
The theorems of `PartsProofs` are about the same definitions.


## What is checked

| run | properties | bounds |
|---|---|---|
| `full_run_stages` | `SamplesComplete`, `MeasuredAsLabelled`, `Finishes` | 2 repetitions, 2 crashes, 1 reset |
| `full_run_crash` | `PageSizeAsLabelled`, violated | the same, with a crash |
| `chunks_tight` | `TypeOK`, `NeverTwice`, `AllHeld`, `NodesConserved`, `CheckPasses`, `ZeroDelivered`, `ImplementsHeap` | 2 threads, 3 chunks, 3 nodes |
| `pools_reuse` | `TypeOK`, `NeverStray`, `PoolsConsistent`, `NumberKeptByLock`, `NthreadsCounted` | 2 threads, `pool_seqno` up to 3, `pools[]` of 2 growing to 4, openings that fail; 2 regions with 1 arena each, or 1 region with 2 arenas |
| `pools_ctl` | `NeverStray`, violated | `thread.pool.<i>.arena` on any pool |
| `pools_open` | `NumberStillUnused`, violated | 2 threads, 2 regions, openings that fail |
| `locks_order` | `LockOrder`, `ChildLocksCovered`, `SectionsEnd` | 2 threads, `NPools` = 2, one section each, all operations but check and extend |
| `locks_check` | `NoWaitCycle`, violated | the operations malloc and check |
| `arena_pages` | `MapsWellFormed`, `CountersExact`, `ZeroDelivered` | 2 threads, 1 chunk of 3 pages, 1 huge failure, words of 32 |
| `arena_chunks` | `PagesPartitioned`, `NpurgatorySettles` | 2 threads, 2 chunks of 2 pages |
| `bins_regions` | `RegionsPartitioned`, `NonfullRunsKnown`, `StatsExact` | 2 threads, one of them with a cache of 2, 2 arenas, runs of 1 or 2 regions |
| `parts` | 14 properties, below | below |

What they show, in words:

- **FullRun**: a marked stage has all its repetitions, and more only where a crash
  interrupted it (`SamplesComplete`); without a crash every pmem sample of a prototype run was
  taken with emulation and every sample with the page size its log names, and without a
  reset no DRAM sample was taken with emulation (`MeasuredAsLabelled`); and the series ends,
  or it stands still after a setup that the unit had to do itself, which takes a power
  failure and a run on real pmem (`Finishes`).
- **Chunks**: no chunk has two holders, none vanishes, the nodes are conserved, what
  `je_pool_check` looks for holds whenever it could look, memory delivered as zero is
  zero, and all of it implements `Heap`.
- **Pools**: no allocation is served from another pool or a dead one; `nthreads` counts the
  threads whose slots point at the arena; and until a failed opening takes `pools_lock` from its
  holder, table, headers and counters agree, and the number found for a new pool is still
  unused when it is filled.
- **Locks**: what a thread asks for ranks above all it holds; a child finds no lock held
  but the two that prefork leaves out; every section that is begun ends.
- **ArenaRuns**: runs, free runs and the purge's stash partition the pages; map
  elements at both ends of a run agree; the counters per chunk and `ndirty` are what the maps say; `nactive`
  is exact but for the huge allocations that failed; `npurgatory` is zero when no purge is going on; pages delivered as zero are zero.
- **Bins**: a region is in one place only (program, a cache, the array of a flush, or
  free in its run); no run with free regions is forgotten; statistics add up.
- **Parts**: see the next table.

| property | of | bounds |
|---|---|---|
| `KeptButForLateStores`, `OneWriter`, `NoStrayDescriptor` | `Vmmalloc`: with fork support on, a process finds what it stored or inherited, unless its parent stored between the copy and the fork; no two processes write to one file; between forks a process has one descriptor | 3 processes, `VMMALLOC_FORK` 0 to 3, a file or a directory, 2 replacements of the path |
| `FilesAccounted` | `Postmark`: the table describes the files on disk; a run does not look for a file in use when there is none, and leaves nothing on disk | 2 simultaneous files, 1 or 10 transactions, 1 failing call |
| `MappingsKept`, `TrackersExact` | `WinMmap`: apart from the addresses a call works on, the program finds what it mapped and what it has not mapped is free, but for the addresses a failed `mmap` leaked, which stay taken and are nobody's; the trackers are disjoint and describe what is mapped; both until a mapping goes astray | 2 threads, 4 pages, a file of 3, 2 maps, 1 error |
| `TreeIsMap` | `ArtTree`: search and iteration give exactly the keys inserted and not deleted, through any sequence of splits, growths and shrinks | 9 keys over 6 letters, one value, nodes of 3, 4 and 5, prefixes kept up to 2 letters |
| `RequestsFit` | `Sizes`: a request is served by a place large enough and aligned as asked, or refused because its size cannot be represented; a region's pointer leads back to its index | 24-bit sizes, chunks of 2^22 |
| `BitmapIsSet` | `Bitmap`: it is a set, and `bitmap_sfu` takes the least free bit | groups of 2 bits, up to 9 bits |
| `SpaceAccounted` | `Vmem`: until a device is used with a size other than its own, what is mapped is what the program mapped and what its pools hold, and no pools overlap | address space of 5, sizes 1 to 3, a device of 2 |
| `RbTreeIsSet` | `RbTree`: balanced, ordered, and a set under insertions and removals | 11 nodes |
| `CkhIsSet` | `Ckh`: a search finds exactly the keys inserted and not removed, but for the one a failed insertion loses, and they are counted right | 6 keys, buckets of 2 cells, 2 to 8 buckets, 1 failing allocation |
| `QuarantineIsQueue` | `Quarantine`: what was freed and not yet deallocated is in the ring, once and in order, within the limit, through wrapping, growing and failing to grow, and nothing is left behind when the thread ends | 6 pointers of sizes 1, 1, 1, 1, 2 and 5, limit 4, a first ring of one slot |
| `BootedBeforeUse` | `Boot`: unless a step failed, a call goes on only when what it needs is complete and whoever spins does so for a thread at work; a call that returns has let go of `pool_base_lock` | 3 threads |

**Why the bounds are enough.** Each is the least at which the case the property is about
occurs, and every action and disjunct is taken in a passing run. Three chunks give a split with a
remainder on either side and a coalescing with both neighbours, with three nodes they run out;
two threads are what a lock
dropped in the middle of an operation needs, since what another thread does then is bounded
by the memory there is. A `pool_seqno` of 3 lets
pools be made again under a number, and at an address, that a thread's slot still remembers. Pools at several
addresses and pools with several arenas are explored one after the other (the constraint
`AddressesOrArenas` of `MCPools`), since both at once are out of TLC's reach in the
time; the theorems have no such bound. Prefixes of three letters, of which a node keeps two, are split before and behind
what is kept. Three pages make a run with a neighbour on each side, two chunks of two make chunks come and go
during a purge. One cached and one uncached thread with two arenas defer regions
in a flush. A cache of two is filled by one region at a time; a fill that is cut short in the
middle is left to the theorem `Statistics`. Eleven nodes reach every rotation of `rb.h`; a ring of one slot grows
twice, wrapped and not. The six keys of the hash table are chosen so that they evict in chains, need the
table doubled twice, make a rebuild fail in growing and in shrinking, and cannot all be placed. Two threads make every cycle of two locks that two sections can make;
cycles of three threads are excluded by `LockOrder` itself, which speaks of the order and not
of the threads waiting.

**Fairness.** `Finishes` assumes weak fairness of the script's own steps, of booting and of the
operator's first start: a machine that is up goes on, and one that is down is switched on.
Crashes are bounded, resets too. `SectionsEnd` assumes weak fairness of `Lock`, `Unlock`
and `Fork` for each thread: a thread that can go on does so. Neither assumes that a particular
thread wins a lock. Deadlock is checked except in `FullRun`, `Pools` and `Parts`, whose processes may
end (and after a failed start the threads of `Boot` wait for ever, see below).

## Where the code and its documents disagree

Four disagreements are runs that TLC refutes:

- `full_run_crash`: `full_run.sh` is said to resume after a reboot, but the page size of a stage
  is set by the `kexec` that ends the stage before it, so that after a power
  failure the 1G stage measures 2M pages and labels them 1G.
- `pools_ctl`: `thread.pool.<i>.arena` of a pool other than 0 writes slot 0 of
  the thread's array, and since the base pool and the first pool share the seqno 1,
  the next allocation from the base pool comes from the other pool.
- `pools_open`: a `pool_open` that fails has `pools_lock` unlocked twice (`jemalloc.c:1730`, `1801`). The
  second time it may take the lock from a thread that has found a free number and not
  filled it, another creation finds the same number, and the assertion that it is unused
  (`jemalloc.c:1678`, `1734`) fails.
- `locks_check`: `je_pool_check` takes `chunks_mtx` before `arenas_lock`, a first
  allocation the other way round; the documents call the library fully thread-safe.

Others met while modelling; the models behave as the code does:

- *FullRun*: after a power failure between `full_run.sh:37` and `38` the unit is enabled and the
  setup is not marked, so at the next boot the unit does the setup. `systemctl start
  benchmark` (45) then asks for the unit that is running and does nothing, and `exit 0` (47)
  ends it: nothing is measured until the machine is rebooted.
- *Chunks*: the nodes set aside for a pool can run out, and the chunk is then lost
  (`chunk.c:311`, while `jemalloc.c:1672` speaks of the "maximum possible number"). The
  assertions on `curchunks` (`chunk.c:91`, `389`) can fail. `je_pool_check` looks at the
  head page of a chunk only (`jemalloc.c:1913-1921`, `2058-2073`).
  `base_node_prealloc` keeps `base_node_mtx` while `base_alloc` may need a node
  (`base.c:97`), so `je_pool_extend` can wait for itself.
- *Pools*: `tcache_create` uses the arena `choose_arena` returns without a look, though it is NULL
  when the thread's array cannot be extended (`tcache.c:292`). The cleanup of a thread's array is never armed (`tsd.h:191`), so threads that end
  stay in `nthreads`. The threads' arrays are made twice as long as `pools[]`
  (`jemalloc.c:305`, `346-348`). `pool_seqno` has 32 bits and wraps.
- *Boot*: after a step of `malloc_init_hard` failed, `malloc_initializer` remains set. The
  next call of that thread passes for a recursive one and succeeds without an
  initialised allocator; the other threads spin (`jemalloc.c:819-840`, "Busy-wait
  until the initializing thread completes").
- *Locks*: prefork leaves out `base_node_mtx` and `memory_range_mtx`, which a child may
  inherit held.
- *ArenaRuns*: the comment at `arena.c:133` puts more fragmented chunks first in purging
  order, the comparison below it puts them last. The branch of `arena_chunk_purge` for the spare cannot be reached.
  `npurgatory` may wrap while purges overlap. A failed huge allocation keeps its
  share of `nactive` and `nrequests_huge` (`arena.c:607`).
- *Bins*: after the lock was dropped for a new run, `runcur` need not be the lowest run, as
  the comment at `arena_bin_lower_run` wants (`arena.c:1951`).
- *Sizes*: the assertion in `ipalloct` fails when rounding up to chunks makes size plus
  alignment wrap.
- *Ckh*: when the memory to double the table is missing, `ckh_insert` reports failure but the
  new key is in the table, and another one, evicted on the way, is not (`ckh.c:181-185`, `466-470`).
- *Quarantine*: `quarantine_alloc_hook` is reached only by the call that initialises the
  base pool, and not on "all allocation events" (`jemalloc.c:423-434`), so only one thread ever has
  a quarantine. A pointer of another pool put there is later freed as one of the base pool, and may
  outlive its pool (`jemalloc_internal.h.in:943-950`).
- *Vmmalloc, Vmem*: with a directory as path the library crashes at start
  (`libvmmalloc.c:408-442`; `README.md:113` of the repository exports `/mnt/pmemdir`). For a
  device the documents promise "the entire device" and the code takes the caller's size.
- *Postmark*: fewer than 10 transactions divide by zero (line 884); a failed creation
  leaves its slot; without files a run ends without a report.
- *WinMmap*: between giving back a reservation and mapping the view another thread can take
  the addresses; error paths of `mmap_split` leave handles and trackers behind; an `mmap` that fails leaves
  its reserved tail (`win_mmap.c:468-477`) or the view and the tail (`521-526`) in place.
- *ArtTree*: a key that is a prefix of another makes the comparison read past the leaf's key; a
  replaced value keeps its old length; destroying a NODE48 misses children; NODE16
  compares signed characters.

## What is proved

| theorem | module | statement |
|---|---|---|
| `TypeCorrect` | `ChunksProofs` | `Spec => []TypeOK` of `Chunks` |
| `NoChunkTwice` | `ChunksProofs` | `Spec => []NeverTwice` |
| `NoChunkVanishes` | `ChunksProofs` | `Spec => []AllHeld` |
| `ZeroedOnDemand` | `ChunksProofs` | `Spec => []ZeroDelivered` |
| `PoolCheckPasses` | `ChunksProofs` | `Spec => []CheckPasses` |
| `NodesKept` | `ChunksProofs` | `Spec => []NodesConserved` |
| `Refinement` | `ChunksProofs` | `Spec => ImplementsHeap` |
| `PoolTypes` | `PoolsProofs` | `Spec => []TypeOK` of `Pools` |
| `NoStrayAllocation` | `PoolsProofs` | `Spec => []NeverStray`, for programs that use `thread.pool.<i>.arena` on the base pool only |
| `RegistryConsistent`, `NumberKept` | `PoolsProofs` | `Spec => []PoolsConsistent` and `Spec => []NumberKeptByLock`; both speak of the time until a failed opening takes `pools_lock` from its holder |
| `LoadCounted` | `PoolsProofs` | `Spec => []NthreadsCounted`, for programs that use `thread.pool.<i>.arena` on the base pool only |
| `Partition`, `RunsKnown` | `BinsProofs` | `Spec => []RegionsPartitioned` and `Spec => []NonfullRunsKnown` |
| `Statistics` | `BinsProofs` | `Spec => []StatsExact` |
| `PagesInOnePlace`, `ZeroPromiseKept` | `ArenaRunsProofs` | `Spec => []PagesPartitioned` and `Spec => []ZeroDelivered` of `ArenaRuns` |
| `OrderKept`, `NoDeadlock` | `LocksProofs` | `Spec => []LockOrder` and `Spec => []NoWaitCycle`, without `je_pool_check` and `je_pool_extend` |
| `ChildCovered` | `LocksProofs` | `Spec => []ChildLocksCovered`, for all operations |
| `Booted` | `PartsProofs` | `T!Spec => []BootedBeforeUse`, `T` being `Boot` |
| `WritersApart`, `PoolKept`, `DescriptorsClosed` | `PartsProofs` | `V!Spec => []OneWriter`, `V!Spec => []KeptButForLateStores`, `V!Spec => []NoStrayDescriptor`, `V` being `Vmmalloc` |
| `Accounts` | `PartsProofs` | `M!Spec => []SpaceAccounted`, `M` being `Vmem` |
| `FilesKept` | `PartsProofs` | `P!Spec => []FilesAccounted`, `P` being `Postmark` |
| `MappingsStay`, `TrackersAgree` | `PartsProofs` | `W!Spec => []MappingsKept` and `W!Spec => []TrackersExact`, `W` being `WinMmap` |
| `Complete`, `Labelled` | `FullRunProofs` | `Spec => []SamplesComplete` and `Spec => []MeasuredAsLabelled` |

They hold for every value of the constants: any number of threads, chunks, pages, nodes, pools,
arenas, regions, processes, repetitions and crashes. The assumptions on constants are of
two kinds. Those named `...Assumption` in the modules (sizes are positive numbers and so
on) are evaluated by TLC in the runs. Those that a part or a theorem
needs in addition are hypotheses of the theorem: that `None`, `NoThread` and `Fresh` are
not the names of anything else, that `VMMALLOC_FORK` is one of the values
`libvmmalloc_init` accepts, that `VMEM_MIN_POOL` is not zero, that postmark has slots and
creates files of at least one byte, that the threads that call `mmap` are finitely many. The
runs' values satisfy them. Two hypotheses are about the program or the code, and each is discussed below:
`CtlOnBaseOnly` and `Operations \subseteq Ordered`.

The inductive invariants were checked by TLC on the instances of the runs before they were
proved; for `Bins` that is 969 413 states, for `ArenaRuns` 1 068 974 and 574 926 (without
the symmetry the runs use).

**Chunks.** `NeverTwice` is not inductive: from a state in which a thread is about
to insert a range that lies outside the pool, or is growing an allocation
somebody else is shrinking, a step breaks it. The inductive invariant adds that
ranges lie in the pool (`Inside`), there is at most one spare (`OneSpare`), what
a thread has in hand at each label (`Locals`, `NodesInHand`, without which a
count of nodes could go negative), that a thread that resizes an allocation has
it to itself and holds the range right behind it (`Resizing`), and that it got
what it asked for (`Exact`). `RecycleFits` is the arithmetic heart: the extent
`chunk_recycle` finds is large enough for the alignment, so the three parts of the
split (`RecycleSplits`) are disjoint and cover it. One lemma per action then shows
that each chunk has exactly one holder before and after. The refinement uses
that: a range that enters `Live` was in the hands of the thread, and so in no
other live region. `ZeroedOnDemand` adds `FlagsRight`: the `zeroed` flag of a range tells
the truth in the trees and in the locals of threads, so also while no lock is held; that
no other thread writes to the range in the meantime is `NeverTwice`.
`NodesKept` carries the equation itself through every action: each takes from one of the
places a node can be in (the list, an extent, an allocation, a thread's hands) what it puts
into another, and the library's theorems on cardinalities do the counting.
`PoolCheckPasses` then needs no sum over extents: the chunks of the free extents are one set,
and since extents are disjoint and lie in the pool that set is no larger than the pool.

**Pools.** Three facts carry `NoStrayAllocation`. A new pool gets a number greater
than every number in any slot, and no two pools except the base pool and the first
share one (`Numbers`). What is in a slot of a number other than 0 is a pointer to
the pool that got the slot's seqno (`ArenaSlotsFilled`, `TcacheSlotsFilled`), so that
equal seqnos mean the right pool at the right birth. Slot 0, where equal
seqnos mean nothing because of the shared number, holds pointers to the base
pool only; this needs that no other pool has number 0 (`Calls`, `Listed`) and that
threads move between arenas of the base pool only (`MovesInBase`), which is where
the hypothesis `CtlOnBaseOnly` is used. `pools_ctl` shows that it cannot be dropped.
`pool_open`'s second unlock does no harm here: seqnos are given out one by one all the same.
It does harm to the registry when it lets a third thread into the section of a
second one. `RegistryConsistent` and `NumberKept` therefore speak of the time until that
happens (`intruded`), however often openings fail before: till then the second unlock finds the
lock free, and `LockHeld` (who has found a number has `pools_lock` until it is used) makes the number
stay unused and inside `pools[]` (`Registry`). `pools_open` shows that nothing more can be
said; deletions that race are told apart by
the number of the header, which the winner sets to `UINT_MAX`.
`LoadCounted` has an invariant of its own: a slot holds at most one arena and
lies in the thread's array (`SlotsShaped`), number 0 is the base pool's (`BaseFirst`), and `nthreads` of an
arena is the number of threads whose slot names it at the birth the pool now has
(`Tallied`); a slot of an older birth counts for nothing, which is what a reused pool needs.

**Bins.** A region may be in a run, in a cache, in the array of a flush that has deferred
it, or in the hands of a thread between two locks, so `RegionsPartitioned` alone says
nothing about the next step. `Inv` has seven parts. `Covered`: the regions out of their runs
are those of the program and those that threads own, own meaning in the places of the
cache that still count at this point of the operation, or in hand. `Apart`: no two
of these owners share a region. `RunsApart`: a run that is between the arena and the bin,
fetched and not yet entered or emptied and not yet returned, is one thread's. `BinsOK`:
the count and the high-water mark of each run are those of its bitmap, a run that is not
mapped or is between the two is free as a whole, and the others that have room are known
once and are not empty. `Locals`: at each label a thread's work fits its operation
(`Doing`), the regions a flush deferred lie before the one it has come to, and that
before those meant to stay (`Flushing`), `low_water` is at most the number cached, and
a thread has a region once (`OnceEach`). Every action is a step of one thread on one bin (`StepTo`), and
`StepKeeps` reduces the parts to what changes for that thread and that bin: what the
thread owns grows by what leaves the runs or the program, and by nothing else. There is
one lemma per action on top of it. `Relock` is the case that matters: the lock was dropped
for a new run, another thread may have given the bin one in the meantime, and both branches
leave each run known once. The proof does not use the model's `lock`: an action is a
critical section, and what protects a run between sections is `RunsApart`.
`RegionsPartitioned` counts the holders of a region: `HoldersAre` splits them into program,
caches and hands, of which the invariant leaves one element.
`Stats`, the seventh part, is `StatsExact` at every moment and not only for a bin at rest: the
counters of a bin and what threads still owe it (a run brought or returned and not yet
counted, regions of a fill or an allocation under way, regions given back and not yet
subtracted) add up to the runs it has and the regions out of them.

**ArenaRuns.** `Inv` is a ledger. On one side are the runs that are out: those the program
has, and those in the jobs of a thread (to be trimmed, to be initialised, stashed and not yet
given back, a chunk to be unmapped). On the other are the chunks, each in one of four cases
(`ChunkOK`): cut up into runs, the spare, held whole, or not the arena's. For a chunk that is cut up,
`View` says that the runs in `runs_avail` and the runs that are out tile its pages, that the
elements at both ends of each of them are right, that the flags of a clean free run tell the
truth, and that the chunk's dirty count is the number of its dirty free pages, from which it
follows that a chunk chosen for purging is cut up. `Apart` and `Once`: a run
that is out has one holder. `Queue` and `JobOK`: what a thread's jobs may be, and in which
order. `Walks`: a thread in the middle of the walk of a purge holds the lock and stands at the first page
of a run. `Zeros`: in a run that is being cut for a caller, or goes back after a purge, or is a
bin's, an element without `unzeroed` belongs to a page of zeros, unless the first page says
dirty, where the code does not rely on it.

A function of `arena.c` is given one run and changes the map at its ends and inside it only. The
lemmas about the operators say which free runs there are afterwards and that the map is the same
on every other run that is out; `Quiet` and `Same` carry the rest of the invariant across.
Freeing with both neighbours is the long one: the elements between the joined runs are left as
they were and mean nothing any more. There is one lemma per action, through `Stepped` and
`RunStep`, which reduce the invariant to the chunk and the thread that moved.
`PagesPartitioned` is then the tiling with its holders, and `ZeroDelivered` follows where
`arena_run_split_large_helper` decides which pages it clears. The proof also shows that
a spare has a dirty count of 0 and so is never in `chunks_dirty`: `arena_chunk_dalloc` takes its run
out with `arena_avail_remove`. The branch at `arena.c:1069`, for a purge of the spare, is
therefore never taken, although the comment above it calls the case possible.

**Locks.** `Sound(traces, r)` says that the traces of a function release each lock they
take before they take one of lower or equal rank, and take none of rank `r` or less. One lemma
per function shows it from the lemmas of the functions it calls, with composition
(`Then`), wrapping (`Under`) and union as the only rules; the fork handlers, whose traces grow
with the number of pools, are proved by the formula for the i-th lock. The
invariant is that every lock a thread holds is released in what remains of its section
before any of lower rank is taken. `LockOrder` is the head of that, and `NoDeadlock` follows,
since the ranks rise along a circle of waiting threads. `Ordered` is all
operations but `check` and `extend`, for which `locks_check` and the list above show why.
`ChildCovered` needs none of it: when `fork` is reached, the forking thread has all the
locks of `prefork`, so nobody else has one of them.

**Boot.** `LockHeld` (who has `pool_base_lock` is in `malloc_init` or makes the pool),
`OneInitializer` (until a step fails, one thread is past `init_lock`, and at work), and
`PoolAfterInit` (the base pool is complete only after `malloc_init_hard`).

**Vmmalloc.** Between the handlers a child is on the mapping it inherited, so that
`OneWriter` does not follow from itself. `Promised`: an identifier is promised to one
child. `Descriptors`: a descriptor of a copy exists between the handlers only, and is that of
the child's file. `Owned`: nobody maps a child's file before the child does.
`Apart` and `Kept` are the two properties with the children in between included; for `Kept`
also what is in the copy before its owner runs.

**Vmem.** Until a device is used with a wrong size, each mapped address is the program's or a
pool's (`Accounted`), a pool lies wholly inside or wholly outside the program's memory
(`InOrOut`), and pools are disjoint.

**Postmark.** A slot is free when its size is 0, so a file of 0 bytes would be forgotten;
this is why `PmConstants` asks for one byte. `Filed`: each file on disk has a slot in use, slots in use have
different names, all given out, and `files_created - files_deleted` is their number. `Sized`:
until a call fails the table has the sizes on disk. `Staged`: a transaction is begun only with a
file in use, and the last loop leaves no slot in use behind its index. `FindFree` is the lemma on
`find_free_file`: wherever `file_allocated` lets the search begin, it ends at a free slot or there is none.

**WinMmap.** The theorems speak of the time until a mapping goes astray (`astray`: another
thread has taken addresses that were given back, so that a view is put elsewhere than its reserved
tail, or a piece of a tracker could not be put back), and until then
`WmGood` holds. Failing calls of `mmap` are no part of that: what they leave behind is in `leaked`, and
`Lost` says that these addresses stay taken and that no tracker and no call has them, since
a step takes only addresses that are free (`Honest`) and unmaps only what a tracker covers. `Virtual` is the list of trackers together with the pieces
that `mmap_split` has cut off and not yet put back: these are what stays well-formed and disjoint
(`Listed`) while the list itself has gaps. `Mapped`: what the system has at an address that is not leaked is said
by a tracker, or by the call that has mapped or reserved it and not yet entered it (`Mine`), and by one
only. `Covering`: of a range that is being unmapped the last `left` addresses are tracked and
those before are not, which is what the code's count of remaining bytes comes to;
without it the loop could end with a tracker over addresses the program believes free.
`Promises`: outside the ranges being unmapped the program was told what the trackers say.
`Holding`: the lock is held from the first tracker of an unmapping on. `TrackersAgree` adds
`Counted`, the equation between handles, trackers and the trackers that calls are about to
enter (`Pending`). For `msync` the pairs of a tracker and an address in it map one to one
into the range, since trackers are disjoint, so there are as many as the range is long just when
each of its addresses is tracked.

**FullRun.** The markers are those of the stages before the current one
(`MarkersInOrder`). `Counted` bounds the samples of each configuration by what the running
process has taken and `LOOP_COUNT` per crash. `PoolsOfStage` and `KernelOfStage` say what
the machine is like at each point between two reboots: the kernel that runs a stage is the one
the stage before left with its `kexec`. The labels then follow when a sample is taken.

**Only model-checked.** Liveness (`Finishes`, `SectionsEnd`) is out of the prover's
reach, as are properties of what recursive definitions compute (`RbTree`, `Quarantine`,
`ArtTree` declare RECURSIVE operators). `CountersExact` and `NpurgatorySettles` of
`ArenaRuns` are about sums over the chunks and over a stash that changes; where a count is, or can
be rephrased as, a cardinality (`npools_cnt`, `nfree`, the nodes, `nthreads`, the statistics of a
bin, the handles of `WinMmap`), the theorems of the library do, and a chunk's own dirty count is
part of the `Inv` of `ArenaRuns`. `MapsWellFormed` follows the map from run to run as the code's walks do, by a fold whose result
would have to be known for every map. The tiling in `Inv` says what such a walk meets, but not that
neighbouring free runs that are equally dirty have been joined, which `MapsWellFormed` says too.
`Ckh`, `Sizes` and `Bitmap` are checked on the instances above only; the last two are
comparisons over bounded inputs.

## Not modelled, and the plan

- **Statistics, profiling, the tree of mallctls.** Profiling is compiled out in the
  libraries' builds; what `ctl.c` and `stats.c` report is a copy of counters whose changes are
  modelled where they happen.
- **Common library.** Thin wrappers around system calls. The list of ranges in
  `mmap.c` (`util_range_*`) has no callers in this tree.
- **`rtree.c`, `vector.c`.** The radix tree is kept only in builds with `config_ivsalloc`, as a check of
  pointers; `vector` is used by profiling only.
- **Entry points and options.** The wrappers of the public functions and the parsing of the
  options string keep no state.
- **In modelled parts**: `je_pool_extend` beyond its locks, the sbrk allocator, user chunk hooks,
  `exec` in a child of a libvmmalloc program, large objects in thread caches.
- **Other benchmarks, graph scripts, ports, generated headers** (`valgrind.h`,
  `size_classes.h` for Windows), **tests and documents**: these make up most of the lines
  of the repository and hold no logic of its own that changes state.

What is left to prove, in order of worth: that free runs of `ArenaRuns` are joined and that the walk of
`MapsWellFormed` meets the runs of the tiling; `CountersExact`, from the dirty counts of
the chunks; `CkhIsSet`.
