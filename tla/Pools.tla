------------------------------- MODULE Pools -------------------------------
(***************************************************************************)
(* The life of the memory pools of the jemalloc fork and the per-thread    *)
(* arrays that remember, for every pool number, which arena and which      *)
(* thread cache the thread uses there: je_pool_create, je_pool_delete,     *)
(* choose_arena, tcache_get, the thread.* mallctls and the destructor.     *)
(*                                                                         *)
(* A pool number is reused after a deletion, and so is the memory of the   *)
(* pool.  No thread is told: a thread's array keeps the pointers into the  *)
(* deleted pool, and pool->seqno is all that tells them from good ones.    *)
(*                                                                         *)
(* Pools are their addresses.  Every creation has a birth, a number of     *)
(* this model only, and a pointer is the pool it points into together with *)
(* the birth of the pool it was made for.  Programs keep to the interface: *)
(* they use a pool after its creation returned, and not once a thread has  *)
(* called je_pool_delete for it.  The arrays of a thread are its own, so   *)
(* its calls are steps; what other threads see, they see under pools_lock  *)
(* or the pool's arenas_lock.                                              *)
(***************************************************************************)
EXTENDS Integers, FiniteSets

CONSTANTS
    Threads,        \* every thread the program ever starts
    Main,           \* the one that runs the library's destructor
    Regions,        \* addresses at which the program makes pools
    BasePool,       \* &base_pool
    Null,
    POOLS_MIN, POOLS_MAX,
    NArenas,        \* opt_narenas
    CtlPools,       \* pool numbers the program passes to thread.pool.<i>.arena
    OpenFails,      \* whether pool_runtime_init can fail to make a mutex
    Allocated,      \* bound: the pools the program allocates from
    MaxSeqno        \* bound: pools created before pool_seqno reaches it

ASSUME MainAssumption == Main \in Threads
ASSUME PoolAssumption == BasePool \notin Regions
ASSUME NullAssumption == Null \notin Threads \cup Regions \cup {BasePool}
ASSUME SizeAssumption ==
    /\ POOLS_MIN \in Nat \ {0, 1} /\ POOLS_MAX \in Nat
    /\ POOLS_MIN <= POOLS_MAX /\ POOLS_MAX <= 32768
    /\ NArenas \in Nat \ {0}
ASSUME CtlAssumption == CtlPools \subseteq 0 .. (POOLS_MAX - 1)
ASSUME AllocatedAssumption == Allocated \subseteq Regions \cup {BasePool}
ASSUME FailAssumption == OpenFails \in BOOLEAN
ASSUME SeqnoAssumption == MaxSeqno \in Nat

VARIABLES
    pools,          \* pools[]
    npools,         \* its length
    npools_cnt,     \* number of pools
    pool_seqno,
    header,         \* pool -> pool_id, seqno, and the birth it stands for
    arenas,         \* pool -> indices of the arenas it has made
    nthreads,       \* pool -> arena -> nthreads
    aslot, alen,    \* thread -> arenas TSD: slots by pool number, and length
    tslot, tlen,    \* thread -> tcache TSD, likewise
    enabled,        \* thread -> tcache_enabled
    pools_lock,     \* the thread that holds it
    pc, call,       \* thread -> where it is, and in which call
    strayed,        \* history: an allocation was served by another pool
    intruded        \* history: pools_lock was taken away from its holder

shared == <<pools, npools, npools_cnt, pool_seqno, header>>
tsd == <<aslot, alen, tslot, tlen, enabled>>
vars == <<shared, arenas, nthreads, tsd, pools_lock, pc, call, strayed, intruded>>

Pool == Regions \cup {BasePool}
Id == 0 .. (POOLS_MAX - 1)
UINT_MAX == POOLS_MAX
Ind == 0 .. (NArenas - 1)

Arena == [pool : Pool, birth : Nat, ind : Ind]
Tcache == [pool : Pool, birth : Nat]

\* A slot holds at most one pointer; {} is NULL.
ArenaSlot == [seqno : Nat, arena : SUBSET Arena]
TcacheSlot == [seqno : Nat, tcache : SUBSET Tcache, disabled : BOOLEAN]

EmptyA == [seqno |-> 0, arena |-> {}]
EmptyT == [seqno |-> 0, tcache |-> {}, disabled |-> FALSE]

NoCall == [pool |-> Null, id |-> UINT_MAX, empty |-> TRUE]

TypeOK ==
    /\ pools \in [Id -> Pool \cup {Null}]
    /\ npools \in Nat /\ npools_cnt \in Int /\ pool_seqno \in Nat
    /\ header \in [Pool -> [id : 0..UINT_MAX, seqno : Nat, birth : Nat]]
    /\ arenas \in [Pool -> SUBSET Ind]
    /\ nthreads \in [Pool -> [Ind -> Int]]
    /\ aslot \in [Threads -> [Id -> ArenaSlot]]
    /\ tslot \in [Threads -> [Id -> TcacheSlot]]
    /\ alen \in [Threads -> Nat] /\ tlen \in [Threads -> Nat]
    /\ enabled \in [Threads -> BOOLEAN]
    /\ pools_lock \in Threads \cup {Null}
    /\ pc \in [Threads -> {"idle", "create", "unlock", "delete", "rebind",
                           "cleanup", "exited"}]
    /\ call \in [Threads -> [pool : Pool \cup {Null}, id : Nat,
                             empty : BOOLEAN]]
    /\ strayed \in BOOLEAN /\ intruded \in BOOLEAN

\* After malloc_init_base_pool: pool 0 exists and took the first number.
Init ==
    /\ pools = [i \in Id |-> IF i = 0 THEN BasePool ELSE Null]
    /\ npools = POOLS_MIN
    /\ npools_cnt = 1
    /\ pool_seqno = 1
    /\ header = [p \in Pool |-> [id |-> IF p = BasePool THEN 0 ELSE UINT_MAX,
                                 seqno |-> IF p = BasePool THEN 1 ELSE 0,
                                 birth |-> 0]]
    /\ arenas = [p \in Pool |-> IF p = BasePool THEN {0} ELSE {}]
    /\ nthreads = [p \in Pool |-> [k \in Ind |-> 0]]
    /\ aslot = [t \in Threads |-> [i \in Id |-> EmptyA]]
    /\ tslot = [t \in Threads |-> [i \in Id |-> EmptyT]]
    /\ alen = [t \in Threads |-> 0]
    /\ tlen = [t \in Threads |-> 0]
    /\ enabled = [t \in Threads |-> TRUE]
    /\ pools_lock = Null
    /\ pc = [t \in Threads |-> "idle"]
    /\ call = [t \in Threads |-> NoCall]
    /\ strayed = FALSE /\ intruded = FALSE

(***************************************************************************)
(* Threads and calls                                                       *)
(***************************************************************************)

\* The process ends with the main thread.
At(t, label) == pc[t] = label /\ pc[Main] # "exited"
Running(t) == At(t, "idle")

Registered(p) == header[p].id \in Id /\ pools[header[p].id] = p

Usable(p) == Registered(p) /\ \A u \in Threads : call[u].pool # p

Enter(t, label, c) ==
    /\ pc' = [pc EXCEPT ![t] = label]
    /\ call' = [call EXCEPT ![t] = c]

Leave(t) == Enter(t, "idle", NoCall)

(***************************************************************************)
(* je_pool_create                                                          *)
(***************************************************************************)

Unused == {i \in Id : i >= 1 /\ i < npools /\ pools[i] = Null}

\* Mistake: the unused number is looked for before pools_lock is taken.
CreateSearchFirst(t, r, empty) ==
    /\ Running(t) /\ pool_seqno < MaxSeqno /\ empty
    /\ ~Registered(r) /\ \A u \in Threads : call[u].pool # r
    /\ \E i \in Unused :
          /\ \A j \in Unused : i <= j
          /\ Enter(t, "create", [pool |-> r, id |-> i, empty |-> empty])
    /\ UNCHANGED <<shared, arenas, nthreads, tsd, pools_lock, strayed, intruded>>

\* pools_lock is taken and the first unused number is found; when there is
\* none, pools[] is doubled, which may fail, unless it has its full size.
CreateLock(t, r, empty) ==
    /\ Running(t) /\ pools_lock = Null /\ pool_seqno < MaxSeqno
    /\ ~Registered(r) /\ \A u \in Threads : call[u].pool # r
    /\ empty \/ arenas[r] # {}
    /\ pools_lock' = t
    /\ \/ \E i \in Unused :
            /\ \A j \in Unused : i <= j
            /\ Enter(t, "create", [pool |-> r, id |-> i, empty |-> empty])
            /\ UNCHANGED npools
       \/ /\ Unused = {} /\ npools < POOLS_MAX
          /\ Enter(t, "create", [pool |-> r, id |-> npools, empty |-> empty])
          /\ npools' = npools * 2
       \/ /\ Unused = {}
          /\ Enter(t, "unlock", [pool |-> r, id |-> UINT_MAX, empty |-> empty])
          /\ UNCHANGED npools
    /\ UNCHANGED <<pools, npools_cnt, pool_seqno, header, arenas, nthreads,
                   tsd, strayed, intruded>>

\* Mistakes: the counter is not advanced, or goes down.
NextSeqnoSame == pool_seqno
NextSeqnoBack == pool_seqno - 1

\* pool_seqno++
NextSeqno == pool_seqno + 1

\* pool_create_empty or pool_open registers the pool.  A new pool has one
\* arena; an opened one has those it had, with no threads.
RegisterPool(t) ==
    LET r == call[t].pool IN
    /\ At(t, "create")
    /\ pools' = [pools EXCEPT ![call[t].id] = r]
    /\ header' = [header EXCEPT ![r] = [id |-> call[t].id,
                                        seqno |-> pool_seqno,
                                        birth |-> pool_seqno]]
    /\ pool_seqno' = NextSeqno
    /\ npools_cnt' = npools_cnt + 1
    /\ arenas' = [arenas EXCEPT ![r] = IF call[t].empty THEN {0} ELSE @]
    /\ nthreads' = [nthreads EXCEPT ![r] = [k \in Ind |-> 0]]
    /\ pc' = [pc EXCEPT ![t] = "unlock"]
    /\ UNCHANGED <<npools, tsd, pools_lock, call, strayed, intruded>>

\* What a failed creation leaves: pool_boot wrote the number, after
\* pool_create_empty cleared the header and pool_open did not.
FailedHeader(t, r) ==
    [id |-> call[t].id,
     seqno |-> IF call[t].empty THEN 0 ELSE header[r].seqno,
     birth |-> IF call[t].empty THEN 0 ELSE header[r].birth]

\* pool_new or pool_runtime_init fails.  On this path pool_open unlocks
\* pools_lock, and its caller will once more.
CreateFails(t) ==
    LET r == call[t].pool IN
    /\ At(t, "create")
    /\ call[t].empty \/ OpenFails
    /\ header' = [header EXCEPT ![r] = FailedHeader(t, r)]
    /\ IF call[t].empty
       THEN arenas' = [arenas EXCEPT ![r] = {}] /\ UNCHANGED pools_lock
       ELSE pools_lock' = Null /\ UNCHANGED arenas
    /\ pc' = [pc EXCEPT ![t] = "unlock"]
    /\ UNCHANGED <<pools, npools, npools_cnt, pool_seqno, nthreads, tsd, call,
                   strayed, intruded>>

\* The unlock at the end of je_pool_create, whoever holds the lock.
CreateUnlock(t) ==
    /\ At(t, "unlock")
    /\ pools_lock' = Null
    /\ intruded' = (intruded \/ pools_lock \notin {t, Null})
    /\ Leave(t)
    /\ UNCHANGED <<shared, arenas, nthreads, tsd, strayed>>

(***************************************************************************)
(* je_pool_delete                                                          *)
(***************************************************************************)

\* The number is read before the lock is taken.
DeleteRead(t, r) ==
    /\ Running(t) /\ header[r].seqno # 0
    /\ \A u \in Threads : call[u].pool = r => pc[u] = "delete"
    /\ Enter(t, "delete", [pool |-> r, id |-> header[r].id, empty |-> TRUE])
    /\ UNCHANGED <<shared, arenas, nthreads, tsd, pools_lock, strayed, intruded>>

\* Mistake: it is not checked that the number still belongs to the pool.
DeleteUnchecked(t) ==
    LET c == call[t] IN
    /\ At(t, "delete") /\ pools_lock = Null
    /\ IF c.id = 0 \/ c.id >= npools
       THEN UNCHANGED <<pools, header, npools_cnt>>
       ELSE /\ pools' = [pools EXCEPT ![c.id] = Null]
            /\ header' = [header EXCEPT ![c.pool].id = UINT_MAX]
            /\ npools_cnt' = npools_cnt - 1
    /\ Leave(t)
    /\ UNCHANGED <<npools, pool_seqno, arenas, nthreads, tsd, pools_lock,
                   strayed, intruded>>

\* Under the lock: pool_destroy, and the entry is cleared.
Delete(t) ==
    LET c == call[t] IN
    /\ At(t, "delete") /\ pools_lock = Null
    /\ IF c.id = 0 \/ c.id >= npools \/ pools[c.id] # c.pool
       THEN UNCHANGED <<pools, header, npools_cnt>>
       ELSE /\ pools' = [pools EXCEPT ![c.id] = Null]
            /\ header' = [header EXCEPT ![c.pool].id = UINT_MAX]
            /\ npools_cnt' = npools_cnt - 1
    /\ Leave(t)
    /\ UNCHANGED <<npools, pool_seqno, arenas, nthreads, tsd, pools_lock,
                   strayed, intruded>>

(***************************************************************************)
(* choose_arena                                                            *)
(***************************************************************************)

PowersOfTwo == {1, 2, 4, 8, 16, 32, 64, 128, 256, 512, 1024, 2048, 4096, 8192,
                16384, 32768, 65536}

ASSUME PowerAssumption == POOLS_MIN \in PowersOfTwo /\ POOLS_MAX \in PowersOfTwo

\* 1ULL << (32 - __builtin_clz(x)): the power of two above x, x itself not
\* included.
PowerAbove(x) == CHOOSE q \in PowersOfTwo : x < q /\ q <= 2 * x

\* arenas_tsd_extend and tcache_tsd_extend: the length of an array that has
\* length n and must have a slot i.
Extended(n, i) ==
    IF i < n THEN n
    ELSE IF PowerAbove(i + 1) < POOLS_MIN THEN POOLS_MIN
    ELSE PowerAbove(i + 1)

\* The first arena with the fewest threads.
LeastLoaded(p, k) ==
    /\ k \in arenas[p]
    /\ \A j \in arenas[p] : \/ nthreads[p][k] < nthreads[p][j]
                            \/ nthreads[p][k] = nthreads[p][j] /\ k <= j

FirstNull(p, k) == k \in Ind \ arenas[p] /\ \A j \in Ind \ arenas[p] : k <= j

\* choose_arena_hard, under arenas_lock: an idle arena, or a new one while
\* there are some to make, or else the least loaded.  When a new one cannot
\* be made, arenas_extend answers with arenas[0].
ChooseArenaHard(p, k) ==
    \/ /\ LeastLoaded(p, k) /\ (nthreads[p][k] = 0 \/ arenas[p] = Ind)
       /\ UNCHANGED arenas
    \/ /\ \E j \in Ind : LeastLoaded(p, j) /\ nthreads[p][j] # 0
       /\ \/ FirstNull(p, k) /\ arenas' = [arenas EXCEPT ![p] = @ \cup {k}]
          \/ k = 0 /\ arenas[p] # Ind /\ UNCHANGED arenas

\* The fast path of choose_arena: the slot is the pool's own.
Remembers(t, p) ==
    LET s == aslot[t][header[p].id]
    IN  s.seqno = header[p].seqno /\ s.arena # {}

\* The slot after choose_arena, and the arena it returns.
ChooseArena(t, p) ==
    /\ alen' = [alen EXCEPT ![t] = Extended(@, header[p].id)]
    /\ \/ /\ Remembers(t, p)
          /\ UNCHANGED <<aslot, arenas, nthreads>>
       \/ /\ ~Remembers(t, p)
          /\ \E k \in Ind :
               /\ ChooseArenaHard(p, k)
               /\ nthreads' = [nthreads EXCEPT ![p][k] = @ + 1]
               /\ aslot' = [aslot EXCEPT ![t][header[p].id] =
                    [seqno |-> header[p].seqno,
                     arena |-> {[pool |-> p, birth |-> header[p].birth,
                                 ind |-> k]}]]

Chosen(t, p) == aslot'[t][header[p].id].arena

\* Whether memory reached through the pointers in S is that of pool p.
Stray(S, p) == \E x \in S : x.pool # p \/ x.birth # header[p].birth

(***************************************************************************)
(* tcache_get, malloc and free                                             *)
(***************************************************************************)

\* A slot whose pointer is NULL, or TCACHE_STATE_DISABLED.
Emptied(s, off) == [seqno |-> s.seqno, tcache |-> {}, disabled |-> off]

\* Mistake: what a former pool of that number left in the slot stays.
FreshSlotKept(t, p) == tslot[t][header[p].id]

\* "All subsequent pools with the same id have to cleanup tcache": the slot
\* as tcache_get looks at it.  Its seqno is left as it was.
FreshSlot(t, p) ==
    LET s == tslot[t][header[p].id]
    IN  IF s.seqno = header[p].seqno THEN s
        ELSE Emptied(s, FALSE)

SetTslot(t, p, s) == tslot' = [tslot EXCEPT ![t][header[p].id] = s]

TcacheExtend(t, p) == tlen' = [tlen EXCEPT ![t] = Extended(@, header[p].id)]

\* Allocation from the thread cache that the slot holds.
MallocCached(t, p) ==
    /\ Running(t) /\ Usable(p)
    /\ FreshSlot(t, p).tcache # {}
    /\ TcacheExtend(t, p) /\ SetTslot(t, p, FreshSlot(t, p))
    /\ strayed' = (strayed \/ Stray(FreshSlot(t, p).tcache, p))
    /\ UNCHANGED <<shared, arenas, nthreads, aslot, alen, enabled, pools_lock,
                   pc, call, intruded>>

\* No thread cache yet: tcache_create makes one in the thread's arena, in the
\* slot of that arena's pool, or has no memory for it.
MallocFirst(t, p) ==
    LET s == FreshSlot(t, p) IN
    /\ Running(t) /\ Usable(p)
    /\ s.tcache = {} /\ ~s.disabled /\ enabled[t]
    /\ TcacheExtend(t, p)
    /\ ChooseArena(t, p)
    /\ \/ SetTslot(t, p, s)
       \/ \E a \in Chosen(t, p) :
            SetTslot(t, a.pool,
                     [seqno |-> header[a.pool].seqno, disabled |-> FALSE,
                      tcache |-> {[pool |-> a.pool, birth |-> a.birth]}])
    /\ strayed' = (strayed \/ Stray(Chosen(t, p), p))
    /\ UNCHANGED <<shared, enabled, pools_lock, pc, call, intruded>>

\* tcache_enabled_set(false) over the array: the caches are given up.
DisabledSlots(S) ==
    [i \in Id |-> IF S[i].tcache = {} THEN S[i] ELSE Emptied(S[i], TRUE)]

\* Thread caches are off: the arena serves the call.  If the slot does not
\* say so, tcache_get_hard goes through tcache_enabled_set(false) first.
MallocUncached(t, p) ==
    LET s == FreshSlot(t, p) IN
    /\ Running(t) /\ Usable(p)
    /\ s.tcache = {}
    /\ \/ s.disabled /\ SetTslot(t, p, s)
       \/ /\ ~s.disabled /\ ~enabled[t] /\ pools_lock = Null
          /\ tslot' = [tslot EXCEPT ![t] =
                        DisabledSlots([@ EXCEPT ![header[p].id] = s])]
    /\ TcacheExtend(t, p)
    /\ ChooseArena(t, p)
    /\ strayed' = (strayed \/ Stray(Chosen(t, p), p))
    /\ UNCHANGED <<shared, enabled, pools_lock, pc, call, intruded>>

\* More than tcache_maxclass: no thread cache is asked for.
MallocLarge(t, p) ==
    /\ Running(t) /\ Usable(p)
    /\ ChooseArena(t, p)
    /\ strayed' = (strayed \/ Stray(Chosen(t, p), p))
    /\ UNCHANGED <<shared, tslot, tlen, enabled, pools_lock, pc, call, intruded>>

\* free: tcache_get(pool, false) makes nothing; without a cache the object
\* goes to the arena of its chunk.
Free(t, p) ==
    /\ Running(t) /\ Usable(p)
    /\ TcacheExtend(t, p) /\ SetTslot(t, p, FreshSlot(t, p))
    /\ strayed' = (strayed \/ Stray(FreshSlot(t, p).tcache, p))
    /\ UNCHANGED <<shared, arenas, nthreads, aslot, alen, enabled, pools_lock,
                   pc, call, intruded>>

(***************************************************************************)
(* The thread.* mallctls                                                   *)
(***************************************************************************)

\* thread.tcache.enabled
TcacheEnabledSet(t, on) ==
    /\ Running(t) /\ pools_lock = Null
    /\ enabled' = [enabled EXCEPT ![t] = on]
    /\ tslot' = [tslot EXCEPT ![t] =
                   IF on THEN [i \in Id |-> [@[i] EXCEPT !.disabled = FALSE]]
                   ELSE DisabledSlots(@)]
    /\ UNCHANGED <<shared, arenas, nthreads, aslot, alen, tlen, pools_lock,
                   pc, call, strayed, intruded>>

\* thread.tcache.flush is for pool 0 only, and for a thread with an array.
TcacheFlush(t) ==
    LET s == tslot[t][0] IN
    /\ Running(t) /\ tlen[t] > 0
    /\ tslot' = [tslot EXCEPT ![t][0] =
                   IF s.seqno = header[BasePool].seqno /\ s.tcache = {} THEN s
                   ELSE Emptied(s, FALSE)]
    /\ UNCHANGED <<shared, arenas, nthreads, aslot, alen, tlen, enabled,
                   pools_lock, pc, call, strayed, intruded>>

\* thread.pool.<i>.arena up to the arena the thread has; ctl_mtx is held.
ThreadArenaCtl(t, i, k) ==
    LET p == pools[i] IN
    /\ Running(t) /\ i \in CtlPools /\ i < npools /\ p # Null /\ Usable(p)
    /\ \A u \in Threads : pc[u] # "rebind"
    /\ TcacheExtend(t, p)
    /\ ChooseArena(t, p)
    /\ Enter(t, "rebind", [pool |-> p, id |-> k, empty |-> TRUE])
    /\ UNCHANGED <<shared, tslot, enabled, pools_lock, strayed, intruded>>

\* nthreads of the pool's arenas after one thread went from one to another.
Moved(n, from, to) ==
    [j \in Ind |-> IF j = to THEN n[j] + 1
                   ELSE IF j = from THEN n[j] - 1 ELSE n[j]]

\* Mistake: the arena that the thread leaves is not told.
RebindGainOnly(t) ==
    LET p == call[t].pool
        k == call[t].id
    IN
    /\ At(t, "rebind")
    /\ arenas' = [arenas EXCEPT ![p] = @ \cup {k}]
    /\ nthreads' = [nthreads EXCEPT ![p][k] = @ + 1]
    /\ aslot' = [aslot EXCEPT ![t][0] =
          [seqno |-> header[p].seqno,
           arena |-> {[pool |-> p, birth |-> header[p].birth, ind |-> k]}]]
    /\ Leave(t)
    /\ UNCHANGED <<shared, alen, tslot, tlen, enabled, pools_lock, strayed, intruded>>

\* The rest of it: the thread moves to arena k, its cache with it, and the
\* move is noted in slot 0, whichever pool it was made in.
Rebind(t) ==
    LET p == call[t].pool
        k == call[t].id
        i == header[p].id
        s == tslot[t][i]
    IN
    /\ At(t, "rebind")
    /\ \E here \in aslot[t][i].arena :
         \/ /\ here.ind = k
            /\ UNCHANGED <<arenas, nthreads, aslot, tslot>>
         \/ /\ here.ind # k
            /\ arenas' = [arenas EXCEPT ![p] = @ \cup {k}]
            /\ nthreads' = [nthreads EXCEPT ![p] = Moved(@, here.ind, k)]
            /\ tslot' = [tslot EXCEPT ![t][i] =
                  IF s.tcache = {} THEN s ELSE [s EXCEPT !.seqno = header[p].seqno]]
            /\ aslot' = [aslot EXCEPT ![t][0] =
                  [seqno |-> header[p].seqno,
                   arena |-> {[pool |-> p, birth |-> header[p].birth,
                               ind |-> k]}]]
    /\ Leave(t)
    /\ UNCHANGED <<shared, alen, tlen, enabled, pools_lock, strayed, intruded>>

(***************************************************************************)
(* The end of a thread and of the process                                  *)
(***************************************************************************)

\* A thread ends.  arenas_tsd_set and tcache_tsd_set, which would arm the
\* cleanups of its arrays, are called nowhere: the arrays are abandoned.
ThreadExit(t) ==
    /\ Running(t) /\ t # Main
    /\ pc' = [pc EXCEPT ![t] = "exited"]
    /\ UNCHANGED <<shared, arenas, nthreads, tsd, pools_lock, call, strayed, intruded>>

\* jemalloc_destructor: tcache_thread_cleanup ...
TcacheThreadCleanup ==
    /\ Running(Main) /\ pools_lock = Null
    /\ tslot' = [tslot EXCEPT ![Main] = [i \in Id |-> EmptyT]]
    /\ tlen' = [tlen EXCEPT ![Main] = 0]
    /\ pc' = [pc EXCEPT ![Main] = "cleanup"]
    /\ UNCHANGED <<shared, arenas, nthreads, aslot, alen, enabled, pools_lock,
                   call, strayed, intruded>>

\* The slots of Main whose pool is still the one they were filled for.
OwnSlots ==
    {i \in Id : /\ i < alen[Main] /\ pools[i] # Null
               /\ header[pools[i]].seqno = aslot[Main][i].seqno}

\* ... then arenas_cleanup, which takes the thread off its arenas, and the
\* base pool is destroyed.  Entries past the end of pools[] read as NULL.
ArenasCleanup ==
    /\ pc[Main] = "cleanup" /\ pools_lock = Null
    /\ nthreads' = [p \in Pool |-> [k \in Ind |->
          nthreads[p][k] -
            Cardinality({i \in OwnSlots : \E a \in aslot[Main][i].arena :
                                             a.pool = p /\ a.ind = k})]]
    /\ aslot' = [aslot EXCEPT ![Main] = [i \in Id |-> EmptyA]]
    /\ alen' = [alen EXCEPT ![Main] = 0]
    /\ header' = [header EXCEPT ![BasePool].id = UINT_MAX]
    /\ pc' = [pc EXCEPT ![Main] = "exited"]
    /\ UNCHANGED <<pools, npools, npools_cnt, pool_seqno, arenas, tslot, tlen,
                   enabled, pools_lock, call, strayed, intruded>>

Thread(t) ==
    \/ \E r \in Regions, empty \in BOOLEAN : CreateLock(t, r, empty)
    \/ RegisterPool(t) \/ CreateFails(t) \/ CreateUnlock(t)
    \/ \E r \in Regions : DeleteRead(t, r)
    \/ Delete(t)
    \/ \E p \in Allocated : MallocCached(t, p) \/ MallocFirst(t, p)
                          \/ MallocUncached(t, p) \/ MallocLarge(t, p)
                          \/ Free(t, p)
    \/ \E on \in BOOLEAN : TcacheEnabledSet(t, on)
    \/ TcacheFlush(t)
    \/ \E i \in Id, k \in Ind : ThreadArenaCtl(t, i, k)
    \/ Rebind(t)
    \/ ThreadExit(t)

Next == (\E t \in Threads : Thread(t)) \/ TcacheThreadCleanup \/ ArenasCleanup

Spec == Init /\ [][Next]_vars

(***************************************************************************)
(* Properties                                                              *)
(***************************************************************************)

\* Whatever pool numbers and pool memory are reused for, and whatever stays
\* behind in the arrays of threads that knew the former pool, no call on a
\* pool is ever served by an arena or a thread cache of another one.
NeverStray == ~strayed

\* The threads that choose_arena would send to arena k of pool p.
Bound(p, k) ==
    {t \in Threads : /\ Remembers(t, p)
                     /\ \E a \in aslot[t][header[p].id].arena : a.ind = k}

\* nthreads, by which choose_arena_hard spreads the load, counts every thread
\* once for the arena it is bound to, through deletions, reopenings, moves
\* between arenas and the cleanup.  Threads that ended stay counted.
NthreadsCounted ==
    \A p \in Pool : Registered(p) =>
        \A k \in Ind : nthreads[p][k] = Cardinality(Bound(p, k))

\* pools[] and the headers agree and npools_cnt is the number of pools, even
\* when several threads delete the same pool or fail to create or open one,
\* until a failed pool_open takes pools_lock away from another thread.
PoolsConsistent == ~intruded =>
    /\ npools_cnt = Cardinality({i \in Id : pools[i] # Null})
    /\ \A i \in Id : pools[i] # Null =>
          /\ i < npools
          /\ header[pools[i]].id = i \/ pc[Main] = "exited"

\* assert(pools[pool_id] == NULL) in pool_open and pool_create_empty: between
\* the search for a number and its use nobody else takes it.
NumberStillUnused ==
    \A t \in Threads : pc[t] = "create" => pools[call[t].id] = Null

\* That much pools_lock does ensure, also when pool_open fails and unlocks it
\* early, as long as the second unlock does not take it away from a thread
\* that has locked it in between.
NumberKeptByLock == ~intruded => NumberStillUnused

(***************************************************************************)
(* The inductive invariant behind NeverStray                               *)
(***************************************************************************)

\* Numbers are handed out once, except that the base pool and the first pool
\* share theirs; the birth of every other pool is its number.
Numbers ==
    /\ pool_seqno >= 1
    /\ header[BasePool].seqno = 1 /\ header[BasePool].birth = 0
    /\ \A r \in Regions : /\ header[r].birth = header[r].seqno
                          /\ header[r].seqno < pool_seqno
    /\ \A r, q \in Regions : header[r].seqno = header[q].seqno /\ r # q =>
                                  header[r].seqno = 0

\* pools[] has at most its full size.  A pool is there once and has a
\* number; one that is being made is not there, and nobody else has a call
\* about it.
Listed ==
    /\ npools \in PowersOfTwo /\ npools <= POOLS_MAX
    /\ \A i \in Id : pools[i] \in Regions => /\ header[pools[i]].id = i
                                            /\ header[pools[i]].seqno # 0
    /\ \A t \in Threads : pc[t] = "create" =>
          /\ \A i \in Id : pools[i] # call[t].pool
          /\ \A u \in Threads \ {t} : call[u].pool # call[t].pool

\* What a slot of number i may hold, if it was filled at seqno n: a pointer
\* to the base pool in slot 0, and elsewhere one to the pool that got n.
Filled(i, n, x) ==
    IF i = 0 THEN x.pool = BasePool /\ x.birth = 0
    ELSE /\ x.pool \in Regions /\ x.birth = n /\ n # 0 /\ n < pool_seqno
         /\ \A r \in Regions : header[r].seqno = n => x.pool = r

ArenaSlotsFilled ==
    \A t \in Threads : \A i \in Id : \A a \in aslot[t][i].arena :
        Filled(i, aslot[t][i].seqno, a)

TcacheSlotsFilled ==
    \A t \in Threads : \A i \in Id : \A c \in tslot[t][i].tcache :
        Filled(i, tslot[t][i].seqno, c)

Slots == ArenaSlotsFilled /\ TcacheSlotsFilled

\* Number 0 is the base pool's, and calls are about what they were made for.
Calls ==
    /\ pools[0] = BasePool /\ npools >= 1
    /\ header[BasePool].id \in {0, UINT_MAX}
    /\ \A r \in Regions : header[r].id # 0
    /\ \A t \in Threads :
          /\ pc[t] \in {"create", "unlock", "delete"} =>
                call[t].pool \in Regions /\ call[t].id # 0
          /\ pc[t] = "create" => call[t].id \in Id
          /\ pc[t] = "rebind" => call[t].pool \in Pool /\ call[t].id \in Ind

\* The program uses thread.pool.<i>.arena for the base pool only.
CtlOnBaseOnly == CtlPools \subseteq {0}

\* A thread that moves between arenas does so in the base pool.
MovesInBase == \A t \in Threads : pc[t] = "rebind" => call[t].pool = BasePool
============================================================================
