-------------------------------- MODULE Bins --------------------------------
(***************************************************************************)
(* Small regions of one size class: the bins of the arenas of a pool, the  *)
(* runs a bin cuts its regions from, and the thread caches in front of     *)
(* the bins.                                                               *)
(*                                                                         *)
(* bin->lock is dropped whenever a bin gets a run from its arena or gives  *)
(* one back, in the middle of an allocation, a fill or a flush.  The steps *)
(* of a thread are the stretches between two of these points; inside one   *)
(* the bin is a record that the operators below take and return, one per   *)
(* function of arena.c.  What the arena does to hand out a run is module   *)
(* ArenaRuns: here it has some slots for runs, in the order of addresses.  *)
(***************************************************************************)
EXTENDS Integers, Sequences, FiniteSets, FiniteSetsExt, SequencesExt

CONSTANTS
    Threads,        \* the threads of the program
    Cachers,        \* those that have caches (thread.tcache.enabled)
    Arenas,         \* the arenas of the pool
    None,           \* no thread, no run, no region
    Rooms,          \* for how many runs each arena may have room
    NRegs,          \* the numbers of regions a run may have
    NcachedMax,     \* tcache_bin_info[binind].ncached_max
    MaxHeld         \* how many regions the program holds at once (bound)

ASSUME BinsAssumption ==
    /\ Cachers \subseteq Threads
    /\ Rooms \subseteq [Arenas -> Nat]
    /\ NRegs \subseteq Nat \ {0}
    /\ NcachedMax \in Nat /\ NcachedMax > 1 /\ NcachedMax % 2 = 0
    /\ MaxHeld \in Nat

VARIABLES
    nregs,          \* arena_bin_info[binind].nregs
    room,           \* for how many runs each arena has room
    arenaOf,        \* the arena each thread has been given
    bins,           \* the bin of each arena, and its runs
    mapped,         \* the slots the arena has handed to the bin
    lock,           \* who holds the lock of each bin
    app,            \* the regions the program holds
    tcache,         \* the cache of each thread, or None
    todo            \* where each thread is in its operation

vars == <<nregs, room, arenaOf, bins, mapped, lock, app, tcache, todo>>

Slot(a) == 1 .. room[a]
Region == UNION {{a} \X Slot(a) \X (0 .. nregs - 1) : a \in Arenas}
ArenaOf(p) == p[1]      \* the chunk header says whose a region is
RunOf(p) == p[2]

Fresh == [free |-> 0 .. nregs - 1, nfree |-> nregs, nextind |-> 0]

-----------------------------------------------------------------------------
(* Bins and runs.                                                          *)

Lowest(S) == IF S = {} THEN None ELSE Min(S)

\* bitmap_sfu: the first region that is free.
bitmap_sfu(b, s) == Min(b.run[s].free)

arena_run_reg_alloc(b, s) ==
    LET i == bitmap_sfu(b, s)
    IN  [b EXCEPT !.run[s] = [free |-> @.free \ {i}, nfree |-> @.nfree - 1,
                              nextind |-> IF i = @.nextind THEN i + 1
                                          ELSE @.nextind]]

arena_run_reg_dalloc(b, p) ==
    [b EXCEPT !.run[RunOf(p)] = [free |-> @.free \cup {p[3]}, nfree |-> @.nfree + 1,
                                 nextind |-> @.nextind]]

\* arena_bin_nonfull_run_tryget: the bin without its first non-full run.
Tryget(b) == [b EXCEPT !.runs = @ \ {Lowest(@)}]

HasRoom(b) == b.runcur # None /\ b.run[b.runcur].nfree > 0

arena_bin_lower_run(b, s) ==
    IF b.runcur # None /\ s < b.runcur
    THEN [b EXCEPT !.runs = IF HasRoom(b) THEN @ \cup {b.runcur} ELSE @,
                   !.runcur = s]
    ELSE [b EXCEPT !.runs = @ \cup {s}]

arena_dissociate_bin_run(b, s) ==
    IF s = b.runcur THEN [b EXCEPT !.runcur = None]
    ELSE IF nregs # 1 THEN [b EXCEPT !.runs = @ \ {s}] ELSE b

-----------------------------------------------------------------------------
(* What a thread is doing, and the steps it does it in.                    *)

Idle == [pc |-> "idle", op |-> "none", arena |-> None, run |-> None,
         ptr |-> None, i |-> 0, nflush |-> 0, ndeferred |-> 0, rem |-> 0,
         merged |-> FALSE, push |-> None]

NewCache(a) == [arena |-> a, avail |-> <<>>, low_water |-> 0, lg_fill_div |-> 1]

ncached(t) == Len(tcache[t].avail)
nfill(t) == NcachedMax \div (2 ^ tcache[t].lg_fill_div)

Do(t, w) == todo' = [todo EXCEPT ![t] = w]
SetBin(a, b) == bins' = [bins EXCEPT ![a] = b]
Unlock(a) == lock' = [lock EXCEPT ![a] = None]
Acquire(t, a) == lock[a] = None /\ lock' = [lock EXCEPT ![a] = t]

LessLow(c, n) == IF n < c.low_water THEN n ELSE c.low_water

\* tcache_alloc_easy: the last region cached, of a cache that has one.
PopLast(c) ==
    [c EXCEPT !.avail = Front(@), !.low_water = LessLow(c, Len(c.avail) - 1)]

Emptied(c) == [c EXCEPT !.low_water = -1]

\* Mistake: a fill that is cut short is counted as a whole one.
fill_ends_counts_all(t, a, b, c) ==
    /\ SetBin(a, [b EXCEPT !.allocated = @ + nfill(t)])
    /\ Unlock(a)
    /\ Do(t, Idle)
    /\ IF c.avail = <<>>
       THEN /\ tcache' = [tcache EXCEPT ![t] = Emptied(c)]
            /\ UNCHANGED app
       ELSE /\ tcache' = [tcache EXCEPT ![t] = PopLast(c)]
            /\ app' = app \cup {Last(c.avail)}

\* The end of arena_tcache_fill_small, and tcache_alloc_easy once more.
FillEnds(t, a, b, c) ==
    /\ SetBin(a, [b EXCEPT !.allocated = @ + Len(c.avail)])
    /\ Unlock(a)
    /\ Do(t, Idle)
    /\ IF c.avail = <<>>
       THEN /\ tcache' = [tcache EXCEPT ![t] = Emptied(c)]
            /\ UNCHANGED app
       ELSE /\ tcache' = [tcache EXCEPT ![t] = PopLast(c)]
            /\ app' = app \cup {Last(c.avail)}

\* With bin->lock held, the bin has come to b and p is the region the thread has
\* got from it, or None: the call returns, or the fill goes on with the next.
Deliver(t, a, b, p) ==
    LET c == [tcache[t] EXCEPT !.avail = Append(@, p)]
    IN  \/ /\ todo[t].op = "malloc"
           /\ SetBin(a, [b EXCEPT !.allocated = @ + (IF p = None THEN 0 ELSE 1)])
           /\ app' = IF p = None THEN app ELSE app \cup {p}
           /\ Unlock(a) /\ Do(t, Idle) /\ UNCHANGED tcache
        \/ /\ todo[t].op = "fill" /\ p = None
           /\ FillEnds(t, a, b, tcache[t])
        \/ /\ todo[t].op = "fill" /\ p # None
           /\ IF Len(c.avail) = nfill(t) THEN FillEnds(t, a, b, c)
              ELSE /\ SetBin(a, b)
                   /\ tcache' = [tcache EXCEPT ![t] = c]
                   /\ lock' = [lock EXCEPT ![a] = t]
                   /\ Do(t, [Idle EXCEPT !.pc = "get", !.op = "fill", !.arena = a])
                   /\ UNCHANGED app

\* The region arena_run_reg_alloc takes from run s of bin b.
Taken(a, b, s) == <<a, s, bitmap_sfu(b, s)>>

-----------------------------------------------------------------------------
(* Allocation.                                                             *)

\* arena_malloc_small, or a cache that is empty and has to be filled.
Malloc(t) ==
    /\ todo[t].pc = "idle" /\ Cardinality(app) < MaxHeld
    /\ \/ /\ tcache[t] = None
          /\ Do(t, [Idle EXCEPT !.pc = "get", !.op = "malloc",
                                !.arena = arenaOf[t]])
          /\ UNCHANGED <<tcache, app>>
       \/ /\ tcache[t] # None /\ ncached(t) > 0
          /\ app' = app \cup {Last(tcache[t].avail)}
          /\ tcache' = [tcache EXCEPT ![t] = PopLast(@)]
          /\ UNCHANGED todo
       \/ /\ tcache[t] # None /\ ncached(t) = 0
          /\ tcache' = [tcache EXCEPT ![t] = Emptied(@)]
          /\ Do(t, [Idle EXCEPT !.pc = "get", !.op = "fill",
                                !.arena = tcache[t].arena])
          /\ UNCHANGED app
    /\ UNCHANGED <<nregs, room, arenaOf, bins, mapped, lock>>

\* With the lock, taken now or held since the last round of a fill: a region from
\* runcur, or arena_bin_malloc_hard up to where arena_bin_nonfull_run_get drops
\* the lock.
Get(t) ==
    LET a == todo[t].arena
        b == [bins[a] EXCEPT !.runcur = None]
        s == Lowest(b.runs)
        c == [Tryget(b) EXCEPT !.runcur = s]
    IN  /\ todo[t].pc = "get" /\ lock[a] \in {None, t}
        /\ IF HasRoom(bins[a])
           THEN Deliver(t, a, arena_run_reg_alloc(bins[a], bins[a].runcur),
                        Taken(a, bins[a], bins[a].runcur))
           ELSE IF s # None
           THEN Deliver(t, a, arena_run_reg_alloc(c, s), Taken(a, c, s))
           ELSE /\ SetBin(a, b)
                /\ Unlock(a)
                /\ todo' = [todo EXCEPT ![t].pc = "newrun"]
                /\ UNCHANGED <<app, tcache>>
        /\ UNCHANGED <<nregs, room, arenaOf, mapped>>

\* arena_run_alloc_small under arena->lock, and the initialisation of the run.
NewRun(t) ==
    LET a == todo[t].arena
    IN  /\ todo[t].pc = "newrun"
        /\ \/ \E s \in Slot(a) \ mapped[a] :
                /\ mapped' = [mapped EXCEPT ![a] = @ \cup {s}]
                /\ bins' = [bins EXCEPT ![a].run[s] = Fresh]
                /\ todo' = [todo EXCEPT ![t].pc = "relock", ![t].run = s]
           \/ /\ mapped[a] = Slot(a)
              /\ todo' = [todo EXCEPT ![t].pc = "relock"]
              /\ UNCHANGED <<mapped, bins>>
        /\ UNCHANGED <<nregs, room, arenaOf, lock, app, tcache>>

\* Mistake: runcur is replaced by the thread's own run, whatever happened to it
\* while the lock was not held.
relock_takes_own(t) ==
    LET a == todo[t].arena
        own == todo[t].run # None
        s == IF own THEN todo[t].run ELSE Lowest(bins[a].runs)
        b == IF own THEN [bins[a] EXCEPT !.curruns = @ + 1] ELSE Tryget(bins[a])
        mine == [b EXCEPT !.runcur = s]
    IN  /\ todo[t].pc = "relock" /\ lock[a] = None
        /\ IF s = None THEN Deliver(t, a, b, None)
           ELSE Deliver(t, a, arena_run_reg_alloc(mine, s), Taken(a, mine, s))
        /\ UNCHANGED <<nregs, room, arenaOf, mapped>>

\* The rest of arena_bin_nonfull_run_get and of arena_bin_malloc_hard: another
\* thread may have set runcur, and then the thread's own run is put away.
Relock(t) ==
    LET a == todo[t].arena
        own == todo[t].run # None
        s == IF own THEN todo[t].run ELSE Lowest(bins[a].runs)
        b == IF own THEN [bins[a] EXCEPT !.curruns = @ + 1] ELSE Tryget(bins[a])
        p == Taken(a, b, b.runcur)
        other == arena_run_reg_alloc(b, b.runcur)
        mine == [b EXCEPT !.runcur = s]
    IN  /\ todo[t].pc = "relock" /\ lock[a] = None
        /\ IF HasRoom(b) /\ s # None /\ b.run[s].nfree = nregs
           THEN /\ SetBin(a, other)
                /\ todo' = [todo EXCEPT ![t].pc = "drop", ![t].run = s,
                                        ![t].ptr = p]
                /\ UNCHANGED <<lock, app, tcache>>
           ELSE IF HasRoom(b)
           THEN Deliver(t, a, IF s = None THEN other
                              ELSE arena_bin_lower_run(other, s), p)
           ELSE IF s = None THEN Deliver(t, a, b, None)
           ELSE Deliver(t, a, arena_run_reg_alloc(mine, s), Taken(a, mine, s))
        /\ UNCHANGED <<nregs, room, arenaOf, mapped>>

-----------------------------------------------------------------------------
(* Deallocation.                                                           *)

\* Where the flush goes after its current region, with the bin at b and the
\* region deallocated or stashed; the end of a pass unlocks the bin.
NextInPass(t, w, b) ==
    LET a == w.arena
        last == w.i = w.nflush
    IN  /\ SetBin(a, b)
        /\ lock' = [lock EXCEPT ![a] = IF last THEN None ELSE t]
        /\ Do(t, IF last THEN [w EXCEPT !.pc = "pass", !.nflush = w.ndeferred,
                                        !.i = 0, !.ndeferred = 0,
                                        !.arena = None, !.run = None, !.ptr = None]
                 ELSE [w EXCEPT !.pc = "flush", !.i = @ + 1,
                                !.run = None, !.ptr = None])

\* The end of arena_dalloc_bin_locked.
Freed(t, w, b) ==
    LET c == [b EXCEPT !.allocated = @ - 1]
    IN  \/ /\ w.op = "free"
           /\ SetBin(w.arena, c) /\ Unlock(w.arena) /\ Do(t, Idle)
        \/ /\ w.op # "free"
           /\ NextInPass(t, w, c)

\* arena_dalloc_bin_locked for region p: a run all of whose regions are free is
\* taken from the bin and given back without the lock, a run that was full
\* becomes usable again.
arena_dalloc_bin_locked(t, w, p) ==
    LET a == w.arena
        s == RunOf(p)
        b == arena_run_reg_dalloc(bins[a], p)
    IN  IF b.run[s].nfree = nregs
        THEN /\ SetBin(a, arena_dissociate_bin_run(b, s))
             /\ Unlock(a)
             /\ Do(t, [w EXCEPT !.pc = "drop", !.run = s])
        ELSE Freed(t, w, IF b.run[s].nfree = 1 /\ s # b.runcur
                         THEN arena_bin_lower_run(b, s) ELSE b)

\* A region is freed: to the bin of its arena, or to the cache of the thread,
\* which is flushed first when it is full.
Free(t, p) ==
    /\ todo[t].pc = "idle"
    /\ app' = app \ {p}
    /\ \/ /\ tcache[t] = None
          /\ Do(t, [Idle EXCEPT !.pc = "dlock", !.op = "free",
                                !.arena = ArenaOf(p), !.ptr = p])
          /\ UNCHANGED tcache
       \/ /\ tcache[t] # None /\ ncached(t) = NcachedMax
          /\ Do(t, [Idle EXCEPT !.pc = "pass", !.op = "push", !.push = p,
                                !.rem = NcachedMax \div 2,
                                !.nflush = NcachedMax - NcachedMax \div 2])
          /\ UNCHANGED tcache
       \/ /\ tcache[t] # None /\ ncached(t) < NcachedMax
          /\ tcache' = [tcache EXCEPT ![t].avail = Append(@, p)]
          /\ UNCHANGED todo
    /\ UNCHANGED <<nregs, room, arenaOf, bins, mapped, lock>>

arena_dalloc_bin(t) ==
    /\ todo[t].pc = "dlock" /\ lock[todo[t].arena] = None
    /\ arena_dalloc_bin_locked(t, todo[t], todo[t].ptr)
    /\ UNCHANGED <<nregs, room, arenaOf, mapped, app, tcache>>

\* arena_dalloc_bin_run, under arena->lock ...
DropRun(t) ==
    LET a == todo[t].arena
    IN  /\ todo[t].pc = "drop"
        /\ mapped' = [mapped EXCEPT ![a] = @ \ {todo[t].run}]
        /\ bins' = [bins EXCEPT ![a].run[todo[t].run] = Fresh]
        /\ todo' = [todo EXCEPT ![t].pc = "dropped", ![t].run = None]
        /\ UNCHANGED <<nregs, room, arenaOf, lock, app, tcache>>

\* ... and with bin->lock again.
Dropped(t) ==
    LET a == todo[t].arena
        b == [bins[a] EXCEPT !.curruns = @ - 1]
    IN  /\ todo[t].pc = "dropped" /\ lock[a] = None
        /\ IF todo[t].op \in {"malloc", "fill"}
           THEN Deliver(t, a, b, todo[t].ptr)
           ELSE Freed(t, todo[t], b) /\ UNCHANGED <<app, tcache>>
        /\ UNCHANGED <<nregs, room, arenaOf, mapped>>

-----------------------------------------------------------------------------
(* Flushing a cache.                                                       *)

\* A pass of tcache_bin_flush_small begins: the bin of the first region is
\* locked, and if it is the cache's own the statistics are merged.
Pass(t) ==
    LET c == tcache[t]
        a == ArenaOf(c.avail[1])
    IN  /\ todo[t].pc = "pass" /\ todo[t].nflush > 0
        /\ Acquire(t, a)
        /\ Do(t, [todo[t] EXCEPT !.pc = "flush", !.arena = a, !.i = 1,
                                 !.merged = @ \/ a = c.arena])
        /\ UNCHANGED <<nregs, room, arenaOf, bins, mapped, app, tcache>>

\* Mistake: a region of another arena is left where it is in the array.
flush_one_skips(t) ==
    LET w == todo[t]
        p == tcache[t].avail[w.i]
    IN  /\ w.pc = "flush"
        /\ IF ArenaOf(p) = w.arena THEN arena_dalloc_bin_locked(t, w, p)
           ELSE NextInPass(t, [w EXCEPT !.ndeferred = @ + 1], bins[w.arena])
        /\ UNCHANGED <<nregs, room, arenaOf, mapped, app, tcache>>

\* One region of the pass: it is freed if it belongs to the arena, and stashed at
\* the front of the array otherwise.
FlushOne(t) ==
    LET w == todo[t]
        p == tcache[t].avail[w.i]
        d == w.ndeferred + 1
    IN  /\ w.pc = "flush"
        /\ IF ArenaOf(p) = w.arena
           THEN arena_dalloc_bin_locked(t, w, p) /\ UNCHANGED tcache
           ELSE /\ tcache' = [tcache EXCEPT ![t].avail[d] = p]
                /\ NextInPass(t, [w EXCEPT !.ndeferred = d], bins[w.arena])
        /\ UNCHANGED <<nregs, room, arenaOf, mapped, app>>

\* The rem regions that stay are moved to the front.
Kept(c, rem) ==
    [c EXCEPT !.avail = SubSeq(@, Len(@) - rem + 1, Len(@)),
              !.low_water = LessLow(c, rem)]

\* tcache_event_hard after it has flushed.
GcEnds(c) ==
    [c EXCEPT !.lg_fill_div = IF NcachedMax \div (2 ^ (@ + 1)) >= 1 THEN @ + 1
                              ELSE @,
              !.low_water = Len(c.avail)]

\* The flush ends, with the statistics merged on the way or under the lock of the
\* cache's own bin, and the caller goes on: tcache_dalloc_small, tcache_event_hard
\* or tcache_destroy.
Flushed(t) ==
    LET w == todo[t]
        c == Kept(tcache[t], w.rem)
    IN  /\ w.pc = "pass" /\ w.nflush = 0
        /\ w.merged \/ lock[tcache[t].arena] = None
        /\ tcache' = [tcache EXCEPT ![t] =
                        CASE w.op = "gc" -> GcEnds(c)
                          [] w.op = "destroy" -> None
                          [] OTHER -> [c EXCEPT !.avail = Append(@, w.push)]]
        /\ Do(t, Idle)
        /\ UNCHANGED <<nregs, room, arenaOf, bins, mapped, lock, app>>

\* tcache_event_hard, when it is the turn of this bin.
tcache_event_hard(t) ==
    LET c == tcache[t]
        low == c.low_water
        rem == Len(c.avail) - low + low \div 4
    IN  /\ todo[t].pc = "idle" /\ c # None
        /\ \/ /\ low > 0
              /\ Do(t, [Idle EXCEPT !.pc = "pass", !.op = "gc", !.rem = rem,
                                    !.nflush = Len(c.avail) - rem])
              /\ UNCHANGED tcache
           \/ /\ low <= 0
              /\ tcache' = [tcache EXCEPT ![t].low_water = Len(c.avail),
                                ![t].lg_fill_div = IF low < 0 /\ @ > 1 THEN @ - 1
                                                   ELSE @]
              /\ UNCHANGED todo
        /\ UNCHANGED <<nregs, room, arenaOf, bins, mapped, lock, app>>

tcache_create(t) ==
    /\ t \in Cachers /\ todo[t].pc = "idle" /\ tcache[t] = None
    /\ tcache' = [tcache EXCEPT ![t] = NewCache(arenaOf[t])]
    /\ UNCHANGED <<nregs, room, arenaOf, bins, mapped, lock, app, todo>>

\* tcache_destroy: the thread ends, or turns its cache off.
tcache_destroy(t) ==
    /\ todo[t].pc = "idle" /\ tcache[t] # None
    /\ Do(t, [Idle EXCEPT !.pc = "pass", !.op = "destroy", !.nflush = ncached(t)])
    /\ UNCHANGED <<nregs, room, arenaOf, bins, mapped, lock, app, tcache>>

Init ==
    /\ nregs \in NRegs
    /\ room \in Rooms
    /\ arenaOf \in [Threads -> Arenas]
    /\ bins = [a \in Arenas |->
                 [runcur |-> None, runs |-> {}, curruns |-> 0, allocated |-> 0,
                  run |-> [s \in Slot(a) |-> Fresh]]]
    /\ mapped = [a \in Arenas |-> {}]
    /\ lock = [a \in Arenas |-> None]
    /\ app = {}
    /\ tcache = [t \in Threads |-> None]
    /\ todo = [t \in Threads |-> Idle]

Next ==
    \E t \in Threads :
        \/ Malloc(t) \/ Get(t) \/ NewRun(t) \/ Relock(t)
        \/ \E p \in app : Free(t, p)
        \/ arena_dalloc_bin(t) \/ DropRun(t) \/ Dropped(t)
        \/ Pass(t) \/ FlushOne(t) \/ Flushed(t)
        \/ tcache_event_hard(t) \/ tcache_create(t) \/ tcache_destroy(t)

Spec == Init /\ [][Next]_vars

-----------------------------------------------------------------------------
(* What makes bins and caches correct.                                     *)

\* The places in the array of a cache that count: in the middle of a flush, those
\* of the regions stashed, not reached yet, and meant to stay.
Places(t) ==
    LET w == todo[t]
        n == Len(tcache[t].avail)
        next == CASE w.pc = "pass" -> 1
                  [] w.pc = "flush" -> w.i
                  [] OTHER -> w.i + 1
    IN  IF tcache[t] = None THEN {}
        ELSE IF w.op \notin {"push", "gc", "destroy"} THEN 1 .. n
        ELSE (1 .. w.ndeferred) \cup (next .. w.nflush) \cup (n - w.rem + 1 .. n)

InCache(t, p) == {k \in Places(t) : tcache[t].avail[k] = p}

\* Whether a thread has region p in its hands: just taken from its run, about to
\* be freed, or waiting for room in the cache.
InHand(t, p) ==
    \/ todo[t].push = p
    \/ todo[t].ptr = p /\ (todo[t].op # "free" \/ todo[t].pc = "dlock")

\* Who has region p: the program, a place in a cache, the hands of a thread.
Holders(p) ==
         {<<"program">> : q \in app \cap {p}}
    \cup (UNION {{<<"cache", t, k>> : k \in InCache(t, p)} : t \in Threads})
    \cup {<<"hand", t>> : t \in {u \in Threads : InHand(u, p)}}

\* Every region of a run is in one place: free in the run, in one cache, in the
\* hands of one thread or of the program.  A run that goes back to the arena has
\* none left outside, and the count and the high-water mark of a run agree with
\* its bitmap.
RegionsPartitioned ==
    /\ \A p \in Region :
         LET a == ArenaOf(p)
             r == bins[a].run[RunOf(p)]
         IN  \/ p[3] \in r.free /\ Holders(p) = {}
             \/ /\ p[3] \notin r.free
                /\ \E h \in Holders(p) : Holders(p) = {h}
                /\ p[3] < r.nextind
                /\ RunOf(p) \in mapped[a]
    /\ \A a \in Arenas : \A s \in Slot(a) :
         bins[a].run[s].nfree = Cardinality(bins[a].run[s].free)

\* The runs of arena a that are between the arena and the bin.
Between(a) ==
    {todo[t].run : t \in {u \in Threads : todo[u].arena = a}} \ {None}

\* Whoever gets the lock of a bin finds all its runs with room in runcur or in the
\* tree, there only runs with room, each once, and no run without regions in use.
NonfullRunsKnown ==
    \A a \in Arenas :
        LET b == bins[a]
            known == b.runs \cup ({b.runcur} \ {None})
        IN  /\ known \subseteq mapped[a] \ Between(a)
            /\ b.runcur \notin b.runs
            /\ \A s \in b.runs : b.run[s].nfree > 0
            /\ \A s \in mapped[a] \ Between(a) :
                 b.run[s].nfree > 0 => s \in known /\ b.run[s].nfree < nregs

\* When no operation is under way in an arena, its bin's statistics are exact.
StatsExact ==
    \A a \in Arenas :
        (\A t \in Threads : todo[t].arena # a) =>
            /\ bins[a].curruns = Cardinality(mapped[a])
            /\ bins[a].allocated =
                 Cardinality({p \in Region :
                     ArenaOf(p) = a /\ p[3] \notin bins[a].run[RunOf(p)].free})

=============================================================================
