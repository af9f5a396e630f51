-------------------------------- MODULE Locks --------------------------------
(***************************************************************************)
(* The mutexes of the allocator, the order in which its operations take    *)
(* them, and fork().                                                       *)
(*                                                                         *)
(* A function of the allocator is the set of the lock traces it can leave: *)
(* the sequences of lock and unlock steps of its paths, put together from  *)
(* the traces of the functions it calls.  What decides between the paths   *)
(* (which chunks are free, whether base space is left) is the subject of   *)
(* Chunks; here every path may be taken.  An operation is the set of its   *)
(* sections, the stretches between two moments at which it holds nothing:  *)
(* a thread that runs sections in any order also runs the operation.       *)
(* Locks are <<name, pool>>; the ones of the process carry pool 0.  Pool 0 *)
(* is the base pool, which lives in anonymous memory; the others are       *)
(* regions of a file.  The arenas of a pool, and the bins of an arena,     *)
(* stand for one arena and one bin: no operation holds two of them.        *)
(* arenas_lock is taken for writing nearly everywhere and is a mutex here. *)
(***************************************************************************)
EXTENDS Naturals, Sequences

CONSTANTS
    Threads,        \* the threads of the process
    Free,           \* the owner of a lock nobody holds
    NPools,         \* the number of pools, the base pool among them
    Operations,     \* which of the operations below the threads run
    MaxSections     \* how many sections a thread runs (bound)

ASSUME LocksAssumption ==
    /\ Free \notin Threads
    /\ NPools \in Nat \ {0}
    /\ MaxSections \in Nat

Pools == 0 .. NPools - 1
GlobalNames == {"ctl", "pools", "pool_base", "dss"}
PoolNames == {"arenas", "arena", "bin", "rtree", "base", "base_node",
              "chunks", "huge", "memory_range"}
Mutexes == (GlobalNames \X {0}) \cup (PoolNames \X Pools)

VARIABLES
    owner,          \* who holds each lock
    trace,          \* what is left of the section each thread is in
    sections,       \* how many sections each thread may still start
    stuck           \* the locks a forked child finds held, for ever

vars == <<owner, trace, sections, stuck>>

-----------------------------------------------------------------------------
(* Traces.                                                                 *)

Step(op, l) == <<[op |-> op, mtx |-> l]>>

\* The traces in which body runs under lock l, malloc_mutex_lock to unlock.
Under(l, body) == {Step("lock", l) \o b \o Step("unlock", l) : b \in body}

Then(first, second) == {f \o s : f \in first, s \in second}
Nothing == {<<>>}
Only(l) == Under(l, Nothing)

-----------------------------------------------------------------------------
(* The base allocator and the chunk allocator.                             *)

\* The base pool: what the dss precedence says, memory from mmap or sbrk, and
\* chunk_register's counters.  A recycle "on behalf of the base allocator" is
\* refused there.
chunk_alloc_base0 ==
    Then(Only(<<"dss", 0>>),
         Nothing \cup Only(<<"dss", 0>>) \cup Only(<<"chunks", 0>>))

base_alloc0 == Under(<<"base", 0>>, Nothing \cup chunk_alloc_base0)

base_node_alloc(p) ==
    Under(<<"base_node", p>>,
          IF p = 0 THEN Nothing \cup base_alloc0 ELSE Nothing)

base_node_dalloc(p) == Only(<<"base_node", p>>)

\* A pool in a region does recycle for its base allocator: chunk-aligned, so
\* that the node of the range found stays with the rest or is given back.
chunk_alloc_base(p) ==
    IF p = 0 THEN chunk_alloc_base0
    ELSE Then(Only(<<"chunks", p>>),
              Nothing \cup base_node_dalloc(p)
                \cup Then(base_node_dalloc(p), Only(<<"chunks", p>>)))

base_alloc(p) == Under(<<"base", p>>, Nothing \cup chunk_alloc_base(p))

base_node_prealloc(p) == Under(<<"base_node", p>>, Nothing \cup base_alloc(p))

chunk_record(p) ==
    Then(base_node_alloc(p),
         Then(Only(<<"chunks", p>>), Nothing \cup base_node_dalloc(p)))

rtree_set(p) == Under(<<"rtree", p>>, Nothing \cup base_alloc(p))

chunk_dalloc_core(p) ==
    rtree_set(p) \cup Only(<<"chunks", p>>) \cup Only(<<"dss", 0>>)
      \cup chunk_record(p)

\* Mistake: chunks_mtx is kept across base_node_alloc.
chunk_recycle_locked(p) ==
    Under(<<"chunks", p>>, Nothing \cup base_node_alloc(p))

chunk_recycle(p) ==
    Only(<<"chunks", p>>) \cup base_node_alloc(p) \cup base_node_dalloc(p)
      \cup chunk_dalloc_core(p)

chunk_alloc_arena(p) ==
    chunk_recycle(p) \cup rtree_set(p) \cup chunk_dalloc_core(p)
      \cup IF p = 0 THEN Only(<<"arenas", 0>>) \cup Only(<<"dss", 0>>) ELSE {}

-----------------------------------------------------------------------------
(* The operations.                                                         *)

choose_arena_hard(p) == Under(<<"arenas", p>>, Nothing \cup base_alloc(p))

\* Mistake: the counters are merged under the bin's lock, arena's inside.
stats_merge_bin_first(p) == Under(<<"bin", p>>, Nothing \cup Only(<<"arena", p>>))

\* Lists of caches are merged into the arena's and the bins' counters.
tcache_stats_merge(p) == Under(<<"arena", p>>, Nothing \cup Only(<<"bin", p>>))

tcache_destroy(p) ==
    tcache_stats_merge(p) \cup Only(<<"bin", p>>) \cup chunk_dalloc_core(p)

je_pool_malloc(p) ==
    UNION {choose_arena_hard(p), base_alloc0, Only(<<"arena", p>>),
           Only(<<"bin", p>>), chunk_alloc_arena(p), base_node_alloc(p),
           base_node_dalloc(p), Only(<<"huge", p>>)}

je_pool_free(p) ==
    UNION {Only(<<"arena", p>>), Only(<<"bin", p>>), chunk_dalloc_core(p),
           Only(<<"huge", p>>), base_node_dalloc(p)}

arenas_cleanup(p) ==
    Under(<<"pools", 0>>, Only(<<"arenas", p>>))

tcache_thread_cleanup(p) == Under(<<"pools", 0>>, tcache_destroy(p))

huge_salloc(p) == Under(<<"pools", 0>>, Only(<<"huge", p>>))

\* The pool being created or deleted is nobody else's, so that only what its
\* creator takes of the process and of the base pool is a lock others want.
je_pool_create ==
    Under(<<"pool_base", 0>>, Nothing)
      \cup Under(<<"pools", 0>>, Nothing \cup base_alloc0)

ctl(p) ==
    Under(<<"ctl", 0>>,
          UNION {Only(<<"chunks", p>>), choose_arena_hard(p),
                 tcache_stats_merge(p), Only(<<"bin", p>>), Only(<<"dss", 0>>),
                 je_pool_malloc(0), je_pool_free(0)})

je_pool_check(p) ==
    Under(<<"pools", 0>>,
      Under(<<"memory_range", p>>,
        Under(<<"chunks", p>>,
          Under(<<"arenas", p>>, Only(<<"arena", p>>)))))

je_pool_extend(p) ==
    base_node_prealloc(p) \cup base_alloc(p)
      \cup Under(<<"memory_range", p>>, chunk_record(p))

-----------------------------------------------------------------------------
(* fork().                                                                 *)

\* For every pool in turn, its lock of that name; for every pool in turn, the three
\* that pool_prefork and the arenas' arena_prefork take.
ForPools(name) == [i \in 1 .. NPools |-> <<name, i - 1>>]
ForPoolsOwn ==
    [i \in 1 .. 3 * NPools |->
        <<<<"arenas", "arena", "bin">>[1 + ((i - 1) % 3)], (i - 1) \div 3>>]

\* Mistake: the pools' huge trees are forgotten.
prefork_without_huge ==
    << <<"ctl", 0>>, <<"pools", 0>>, <<"pool_base", 0>> >>
      \o ForPoolsOwn \o ForPools("rtree") \o ForPools("base")
      \o ForPools("chunks") \o << <<"dss", 0>> >>

\* The locks of jemalloc_prefork, in its order: everything but base_node_mtx
\* and memory_range_mtx.
prefork ==
    << <<"ctl", 0>>, <<"pools", 0>>, <<"pool_base", 0>> >>
      \o ForPoolsOwn \o ForPools("rtree") \o ForPools("base")
      \o ForPools("chunks") \o << <<"dss", 0>> >> \o ForPools("huge")

\* jemalloc_postfork_parent releases in the reverse order; the two locks of
\* pool_postfork_parent are released in the order they were taken.
postfork_parent ==
    LET n == Len(prefork)
    IN  [i \in 1 .. n |-> prefork[IF i = n - 2 THEN 2 ELSE IF i = n - 1 THEN 3
                                 ELSE n + 1 - i]]

\* jemalloc_postfork_child makes the same locks afresh.
postfork_child == {prefork[i] : i \in 1 .. Len(prefork)}

\* The same step for each lock of a list.
All(op, locks) == [i \in 1 .. Len(locks) |-> [op |-> op, mtx |-> locks[i]]]

fork ==
    {All("lock", prefork) \o Step("fork", <<"ctl", 0>>) \o All("unlock", postfork_parent)}

-----------------------------------------------------------------------------
(* The specification.                                                      *)

\* The sections of an operation on pool p.
Sections(op, p) ==
    CASE op = "malloc" -> je_pool_malloc(p)
      [] op = "free" -> je_pool_free(p)
      [] op = "exit" -> arenas_cleanup(p) \cup tcache_thread_cleanup(p)
      [] op = "usable_size" -> huge_salloc(p)
      [] op = "create" -> je_pool_create
      [] op = "ctl" -> ctl(p)
      [] op = "check" -> je_pool_check(p)
      [] op = "extend" -> je_pool_extend(p)
      [] op = "fork" -> fork

Paths == (UNION {Sections(op, p) : op \in Operations, p \in Pools}) \ {<<>>}

Init ==
    /\ owner = [l \in Mutexes |-> Free]
    /\ trace = [t \in Threads |-> <<>>]
    /\ sections = [t \in Threads |-> MaxSections]
    /\ stuck = {}

\* The next step of thread t is op.
At(t, op) == trace[t] # <<>> /\ Head(trace[t]).op = op

Begin(t) ==
    /\ trace[t] = <<>>
    /\ sections[t] > 0
    /\ sections' = [sections EXCEPT ![t] = @ - 1]
    /\ \E path \in Paths : trace' = [trace EXCEPT ![t] = path]
    /\ UNCHANGED <<owner, stuck>>

Lock(t) ==
    /\ At(t, "lock")
    /\ owner[Head(trace[t]).mtx] = Free
    /\ owner' = [owner EXCEPT ![Head(trace[t]).mtx] = t]
    /\ trace' = [trace EXCEPT ![t] = Tail(@)]
    /\ UNCHANGED <<sections, stuck>>

Unlock(t) ==
    /\ At(t, "unlock")
    /\ owner' = [owner EXCEPT ![Head(trace[t]).mtx] = Free]
    /\ trace' = [trace EXCEPT ![t] = Tail(@)]
    /\ UNCHANGED <<sections, stuck>>

\* The child is a copy of the process with the forking thread alone: the locks
\* of the other threads stay held unless the child's handler makes them afresh.
Fork(t) ==
    /\ At(t, "fork")
    /\ stuck' = stuck \cup ({l \in Mutexes : owner[l] # Free} \ postfork_child)
    /\ trace' = [trace EXCEPT ![t] = Tail(@)]
    /\ UNCHANGED <<owner, sections>>

Done == (\A t \in Threads : trace[t] = <<>> /\ sections[t] = 0) /\ UNCHANGED vars

Next ==
    \/ \E t \in Threads : Begin(t) \/ Lock(t) \/ Unlock(t) \/ Fork(t)
    \/ Done

Fairness == \A t \in Threads : WF_vars(Lock(t) \/ Unlock(t) \/ Fork(t))

Spec == Init /\ [][Next]_vars /\ Fairness

-----------------------------------------------------------------------------
(* Properties.                                                             *)

Held(t) == {l \in Mutexes : owner[l] = t}

\* Thread t waits for a lock that somebody, perhaps itself, holds.
Waits(t) == At(t, "lock") /\ owner[Head(trace[t]).mtx] # Free

\* No threads wait for one another in a circle, and none for itself: "Acquire
\* all mutexes in a safe order", "Drop chunks_mtx in order to avoid deadlock".
NoWaitCycle ==
    \A S \in (SUBSET Threads) \ {{}} :
       ~ \A t \in S : Waits(t) /\ owner[Head(trace[t]).mtx] \in S

\* The order the operations keep to: the locks of the process, the arenas of
\* every pool, then their page maps, base allocators and chunks.  The base pool
\* takes a node before its base lock, the other pools after it.
Rank(l) ==
    CASE l[1] = "ctl" -> 1
      [] l[1] = "pools" -> 2
      [] l[1] = "pool_base" -> 3
      [] l[1] = "memory_range" -> 4 + l[2]
      [] l[1] = "arenas" -> 4 + NPools + 3 * l[2]
      [] l[1] = "arena" -> 5 + NPools + 3 * l[2]
      [] l[1] = "bin" -> 6 + NPools + 3 * l[2]
      [] l[1] = "rtree" -> 4 + 4 * NPools + l[2]
      [] l[1] = "base" -> 5 + 5 * NPools + l[2]
      [] l[1] = "base_node" -> IF l[2] = 0 THEN 4 + 5 * NPools ELSE 5 + 6 * NPools + l[2]
      [] l[1] = "chunks" -> 5 + 7 * NPools + l[2]
      [] l[1] = "dss" -> 5 + 8 * NPools
      [] l[1] = "huge" -> 6 + 8 * NPools + l[2]

\* What a thread asks for ranks above all it holds, so that no number of threads
\* can wait in a circle: the comments on lock order in chunk_recycle,
\* chunk_record, arena_bin_nonfull_run_get and stats_print_atexit, together.
LockOrder ==
    \A t \in Threads :
       At(t, "lock") => \A l \in Held(t) : Rank(l) < Rank(Head(trace[t]).mtx)

\* What a child may find held are the two locks jemalloc_prefork does not take.
ChildLocksCovered ==
    stuck \subseteq {"base_node", "memory_range"} \X Pools

\* Every section that is begun is left: nobody sleeps on a lock for ever.
SectionsEnd == \A t \in Threads : trace[t] # <<>> ~> trace[t] = <<>>
=============================================================================
