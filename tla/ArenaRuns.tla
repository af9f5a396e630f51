------------------------------ MODULE ArenaRuns ------------------------------
(***************************************************************************)
(* The runs of one arena: the page maps of its chunks, the tree of free    *)
(* runs, the counters behind the purging of dirty pages, and what threads  *)
(* see of them when the arena's lock is dropped in the middle of an        *)
(* operation (to get a chunk, to give one back, to purge).                 *)
(*                                                                         *)
(* A chunk has NPages pages after its header.  As in the code, only the    *)
(* map elements of a run's first and last page say what the run is; those  *)
(* between keep what was last written there.  Sizes are in pages.  The     *)
(* operators below take and return the arena as a record, one per function *)
(* of arena.c; the actions run them under arena->lock.                     *)
(***************************************************************************)
EXTENDS Integers, Sequences, FiniteSets, FiniteSetsExt, SequencesExt

CONSTANTS
    Threads,        \* the threads that use the arena
    None,           \* no thread, no chunk
    NChunks,        \* how many chunks the pool has
    NPages,         \* pages of a chunk that hold runs
    SmallPages,     \* pages of a run of small regions
    LgDirtyMult,    \* opt_lg_dirty_mult
    FileMapped,     \* the pool is a region of a file
    Word,           \* 2^width of the counters
    MaxHugeFails    \* how many huge allocations may fail (bound)

ASSUME ArenaRunsAssumption ==
    /\ NChunks \in Nat \ {0} /\ NPages \in Nat \ {0}
    /\ SmallPages \in 1 .. NPages
    /\ LgDirtyMult \in Nat /\ FileMapped \in BOOLEAN
    /\ Word \in Nat /\ Word > 2 * (NPages + 1) * NChunks
    /\ MaxHugeFails \in Nat
    /\ None \notin Threads /\ None \notin 1 .. NChunks

Chunks == 1 .. NChunks          \* in the order of their addresses
Pages == 1 .. NPages

VARIABLES
    arena,          \* arena_t and the page maps of its chunks
    taken,          \* the chunks the arena has got from the pool
    lock,           \* who holds arena->lock
    jobs,           \* what each thread has still to do in its operation
    owned,          \* the runs the application and the bins hold
    touched,        \* pages that hold something other than zeros
    zeroed,         \* every zeroed run so far was handed out zeroed
    failed          \* huge allocations that failed

vars == <<arena, taken, lock, jobs, owned, touched, zeroed, failed>>

-----------------------------------------------------------------------------
(* The page map and the tree of available runs.                            *)

arena_mapbits_unallocated_set(A, c, i, n, dirty, unz) ==
    [A EXCEPT !.map[c][i] = [alloc |-> FALSE, large |-> FALSE, size |-> n,
                             dirty |-> dirty, unz |-> unz]]

arena_mapbits_unallocated_size_set(A, c, i, n) ==
    [A EXCEPT !.map[c][i].size = n]

\* The unzeroed flag is preserved.
arena_mapbits_large_set(A, c, i, n, dirty) ==
    [A EXCEPT !.map[c][i] = [alloc |-> TRUE, large |-> TRUE, size |-> n,
                             dirty |-> dirty, unz |-> @.unz]]

\* What becomes of the element b; the unzeroed flag is preserved here too.
arena_mapbits_small_set(b, runind, dirty) ==
    [alloc |-> TRUE, large |-> FALSE, size |-> runind, dirty |-> dirty, unz |-> b.unz]

arena_avail_adjac_pred(A, c, i) == i > 1 /\ ~A.map[c][i - 1].alloc
arena_avail_adjac_succ(A, c, i, n) == i + n <= NPages /\ ~A.map[c][i + n].alloc

arena_avail_adjac(A, c, i, n) ==
    arena_avail_adjac_pred(A, c, i) \/ arena_avail_adjac_succ(A, c, i, n)

\* How many of the neighbours asked about are free (and so differ in dirt).
Adjacent(A, c, i, n, pred, succ) ==
    (IF pred /\ arena_avail_adjac_pred(A, c, i) THEN 1 ELSE 0)
      + (IF succ /\ arena_avail_adjac_succ(A, c, i, n) THEN 1 ELSE 0)

\* Being in chunks_dirty is having ndirty # 0: both functions take the chunk out
\* of the tree and put it back around the change of its key.
arena_avail_insert(A, c, i, n, pred, succ) ==
    LET k == Adjacent(A, c, i, n, pred, succ)
        d == IF A.map[c][i].dirty THEN n ELSE 0
    IN  [A EXCEPT !.cnt[c] = [adjac |-> @.adjac + k, avail |-> @.avail + 1,
                              dirty |-> @.dirty + d],
                  !.ndirty = @ + d,
                  !.avail = @ \cup {<<c, i>>}]

\* Mistake: only the neighbour after the run is looked at.
avail_remove_succ_only(A, c, i, n, pred, succ) ==
    LET k == Adjacent(A, c, i, n, FALSE, succ)
        d == IF A.map[c][i].dirty THEN n ELSE 0
    IN  [A EXCEPT !.cnt[c] = [adjac |-> @.adjac - k, avail |-> @.avail - 1,
                              dirty |-> @.dirty - d],
                  !.ndirty = @ - d,
                  !.avail = @ \ {<<c, i>>}]

arena_avail_remove(A, c, i, n, pred, succ) ==
    LET k == Adjacent(A, c, i, n, pred, succ)
        d == IF A.map[c][i].dirty THEN n ELSE 0
    IN  [A EXCEPT !.cnt[c] = [adjac |-> @.adjac - k, avail |-> @.avail - 1,
                              dirty |-> @.dirty - d],
                  !.ndirty = @ - d,
                  !.avail = @ \ {<<c, i>>}]

\* The lowest best fit: arena_avail_tree_nsearch for a key of n pages.
BestFits(A, n) ==
    LET fits == {r \in A.avail : A.map[r[1]][r[2]].size >= n}
        Before(r, s) ==
            LET a == A.map[r[1]][r[2]].size
                b == A.map[s[1]][s[2]].size
            IN  a < b \/ (a = b /\ (r[1] < s[1] \/ (r[1] = s[1] /\ r[2] < s[2])))
    IN  {r \in fits : \A s \in fits \ {r} : Before(r, s)}

-----------------------------------------------------------------------------
(* Splitting and joining runs.                                             *)

\* Mistake: the whole run is counted as active, and not the part that is needed.
split_remove_counts_all(A, c, i, need) ==
    LET b == A.map[c][i]
        cut == [arena_avail_remove(A, c, i, b.size, TRUE, TRUE)
                   EXCEPT !.nactive = (@ + b.size) % Word]
        marked == arena_mapbits_unallocated_set(
                    arena_mapbits_unallocated_set(
                      cut, c, i + need, b.size - need, b.dirty, ~b.dirty),
                    c, i + b.size - 1, b.size - need, b.dirty, ~b.dirty)
    IN  IF b.size = need THEN cut
        ELSE arena_avail_insert(marked, c, i + need, b.size - need, FALSE, TRUE)

arena_run_split_remove(A, c, i, need) ==
    LET b == A.map[c][i]
        rest == i + need
        last == i + b.size - 1
        Unz(j) == ~b.dirty /\ A.map[c][j].unz
        cut == [arena_avail_remove(A, c, i, b.size, TRUE, TRUE)
                   EXCEPT !.nactive = (@ + need) % Word]
        marked == arena_mapbits_unallocated_set(
                    arena_mapbits_unallocated_set(
                      cut, c, rest, b.size - need, b.dirty, Unz(rest)),
                    c, last, b.size - need, b.dirty, Unz(last))
    IN  IF b.size = need THEN cut
        ELSE arena_avail_insert(marked, c, rest, b.size - need, FALSE, TRUE)

\* The last element first, in case the run has one page.
MarkLarge(A, c, i, n, dirty) ==
    arena_mapbits_large_set(
      arena_mapbits_large_set(A, c, i + n - 1, 0, dirty), c, i, n, dirty)

arena_run_split_large(A, c, i, n) ==
    MarkLarge(arena_run_split_remove(A, c, i, n), c, i, n, A.map[c][i].dirty)

arena_run_init_large(A, c, i, n) == MarkLarge(A, c, i, n, A.map[c][i].dirty)

\* Mistake: a dirty run is trusted to be zeroed where its pages say so.
run_zero_by_flag(A, c, i, n) == {j \in i .. i + n - 1 : A.map[c][j].unz}

\* The pages arena_run_split_large_helper clears for a caller that wants zeros.
arena_run_zero(A, c, i, n) ==
    {j \in i .. i + n - 1 : A.map[c][i].dirty \/ A.map[c][j].unz}

\* Every page says how far it is from the first; only the ends say dirty.
arena_run_split_small(A, c, i, n) ==
    LET d == A.map[c][i].dirty
        B == arena_run_split_remove(A, c, i, n)
        last == i + n - 1
    IN  [B EXCEPT !.map[c] =
            [k \in Pages |->
               IF k \in i .. last
               THEN arena_mapbits_small_set(B.map[c][k], k - i, d /\ k \in {i, last})
               ELSE B.map[c][k]]]

\* Mistake: the last page of the joined run keeps its old size.
coalesce_head_only(A, c, i, n, dirty) ==
    LET next == i + n
        j == next <= NPages /\ ~A.map[c][next].alloc /\ A.map[c][next].dirty = dirty
        m == IF j THEN n + A.map[c][next].size ELSE n
        F == IF j THEN arena_avail_remove(A, c, next, m - n, FALSE, TRUE) ELSE A
    IN  [a |-> arena_mapbits_unallocated_size_set(F, c, i, m), i |-> i, n |-> m]

IsFree(A, c, i, dirty) == i \in Pages /\ ~A.map[c][i].alloc /\ A.map[c][i].dirty = dirty

Sized(A, c, i, n) ==
    arena_mapbits_unallocated_size_set(
      arena_mapbits_unallocated_size_set(A, c, i, n), c, i + n - 1, n)

\* The run r and the free run after it, or before it, as one.
JoinNext(r, c, dirty) ==
    LET next == r.i + r.n
        k == r.a.map[c][next].size
    IN  IF ~IsFree(r.a, c, next, dirty) THEN r
        ELSE [a |-> Sized(arena_avail_remove(r.a, c, next, k, FALSE, TRUE), c, r.i, r.n + k),
              i |-> r.i, n |-> r.n + k]

JoinPrev(r, c, dirty) ==
    LET k == r.a.map[c][r.i - 1].size
        head == r.i - k
    IN  IF ~IsFree(r.a, c, r.i - 1, dirty) THEN r
        ELSE [a |-> Sized(arena_avail_remove(r.a, c, head, k, TRUE, FALSE), c, head, r.n + k),
              i |-> head, n |-> r.n + k]

\* Joins the free run at i with the free runs around it that are as dirty.
arena_run_coalesce(A, c, i, n, dirty) ==
    JoinPrev(JoinNext([a |-> A, i |-> i, n |-> n], c, dirty), c, dirty)

-----------------------------------------------------------------------------
(* Giving runs back.  What has to follow under the same lock, and may drop *)
(* it, is returned as jobs.                                                *)

RunPages(A, c, i) == IF A.map[c][i].large THEN A.map[c][i].size ELSE SmallPages

\* Mistake: an older spare is overwritten.
chunk_dalloc_loses_spare(A, c) ==
    [a |-> [arena_avail_remove(A, c, 1, NPages, FALSE, FALSE) EXCEPT !.spare = c],
     then |-> <<>>]

\* The chunk becomes the spare; an older spare goes back to the pool.
arena_chunk_dalloc(A, c) ==
    [a |-> [arena_avail_remove(A, c, 1, NPages, FALSE, FALSE) EXCEPT !.spare = c],
     then |-> IF A.spare = None THEN <<>> ELSE <<[do |-> "unmap", c |-> A.spare]>>]

\* The joined run r becomes available, an empty chunk goes, and dirt asks for a
\* purge.
Freed(A, c, n) == IF n = NPages THEN arena_chunk_dalloc(A, c) ELSE [a |-> A, then |-> <<>>]
ThenPurge(g, d) == IF d THEN [g EXCEPT !.then = Append(@, [do |-> "maybe_purge"])] ELSE g
Available(r, c, d) ==
    ThenPurge(Freed(arena_avail_insert(r.a, c, r.i, r.n, TRUE, TRUE), c, r.n), d)

arena_run_dalloc(A, c, i, dirty, cleaned) ==
    LET n == RunPages(A, c, i)
        d == dirty \/ (~cleaned /\ A.map[c][i].dirty)
        M == arena_mapbits_unallocated_set(
               arena_mapbits_unallocated_set(
                 [A EXCEPT !.nactive = (@ - n) % Word],
                 c, i, n, d, ~d /\ A.map[c][i].unz),
               c, i + n - 1, n, d, ~d /\ A.map[c][i + n - 1].unz)
    IN  Available(arena_run_coalesce(M, c, i, n, d), c, d)

\* Both trims first make two allocated runs of one: k pages and the rest.
CutLarge(A, c, i, n, k) ==
    arena_mapbits_large_set(MarkLarge(A, c, i, k, A.map[c][i].dirty),
                            c, i + k, n - k, A.map[c][i].dirty)

arena_run_trim_head(A, c, i, old, new) ==
    arena_run_dalloc(CutLarge(A, c, i, old, old - new), c, i, FALSE, FALSE)

arena_run_trim_tail(A, c, i, old, new, dirty) ==
    arena_run_dalloc(CutLarge(A, c, i, old, new), c, i + new, dirty, FALSE)

-----------------------------------------------------------------------------
(* Purging dirty pages.                                                    *)

\* The first chunk of chunks_dirty.  The code puts the chunk with the larger
\* share of runs that have no free neighbour first.
arena_chunk_dirty_first(A) ==
    LET val(a, b) == (A.cnt[a].avail - A.cnt[a].adjac) * A.cnt[b].avail
        Less(a, b) == \/ val(a, b) > val(b, a)
                      \/ /\ val(a, b) = val(b, a)
                         /\ IF A.cnt[a].adjac = 0 THEN a > b ELSE a < b
        dirty == {c \in Chunks : A.cnt[c].dirty # 0}
    IN  {a \in dirty : \A b \in dirty \ {a} : Less(a, b)}

\* How far it is from the run at i to the next one.
Stride(A, c, i) == IF A.map[c][i].alloc THEN RunPages(A, c, i) ELSE A.map[c][i].size

\* A dirty free run to be purged; with all = FALSE only if it has a free neighbour
\* when the walk comes to it.
Purgeable(A, c, i, all) ==
    LET b == A.map[c][i]
    IN  ~b.alloc /\ b.dirty /\ (all \/ arena_avail_adjac(A, c, i, b.size))

RunSum(runs) == FoldLeft(LAMBDA s, r : s + r.n, 0, runs)

arena_compute_npurgatory(A, all) ==
    LET purgeable == (A.ndirty - A.npurgatory) % Word
    IN  IF all THEN purgeable ELSE (purgeable - A.nactive \div 2^LgDirtyMult) % Word

\* arena_purge up to its loop: the thread announces how much it will purge.
arena_purge(A, all) ==
    LET k == arena_compute_npurgatory(A, all)
    IN  [a |-> [A EXCEPT !.npurgatory = (@ + k) % Word],
         then |-> <<[do |-> "purge", left |-> k, back |-> 0, all |-> all]>>]

arena_maybe_purge(A) ==
    IF /\ A.ndirty > A.npurgatory
       /\ A.ndirty - A.npurgatory > A.nactive \div 2^LgDirtyMult
    THEN arena_purge(A, FALSE)
    ELSE [a |-> A, then |-> <<>>]

\* A round sets out to stash the runs of chunk c, which has n dirty pages.
Round(A, c, left, change, n, all) ==
    [a |-> [A EXCEPT !.npurgatory = (@ + change) % Word],
     then |-> <<[do |-> "stash", c |-> c, i |-> 1, runs |-> <<>>,
                 all |-> all \/ A.cnt[c].adjac = 0,
                 left |-> left % Word, dirty |-> n, again |-> all]>>]

\* Where the walk j through the chunk goes on; at the end the runs are purged, and
\* what was counted and not found is put right in the next round.
WalkOn(j, next, runs) ==
    IF next <= NPages THEN <<[j EXCEPT !.i = next, !.runs = runs]>>
    ELSE <<[do |-> "stashed", runs |-> runs],
           [do |-> "purge", left |-> j.left, back |-> j.dirty - RunSum(runs),
            all |-> j.again]>>

\* Mistake: a thread that finds nothing left to purge keeps its announcement.
purge_round_keeps(A0, left0, back, all) ==
    LET A == [A0 EXCEPT !.npurgatory = (@ + back) % Word]
        left == (left0 + back) % Word
        first == arena_chunk_dirty_first(A)
        c == CHOOSE x \in first : TRUE
        n == A.cnt[c].dirty
        more == IF n > left /\ A.cnt[c].adjac = 0 THEN n - left ELSE 0
    IN  IF left = 0 \/ first = {} THEN [a |-> A, then |-> <<>>]
        ELSE Round(A, c, left + more - n, more - n, n, all)

\* One round of the loop: the previous round's correction (back), then the next
\* dirty chunk.  The counters are unsigned and may wrap until the correction.
PurgeRound(A0, left0, back, all) ==
    LET A == [A0 EXCEPT !.npurgatory = (@ + back) % Word]
        left == (left0 + back) % Word
        first == arena_chunk_dirty_first(A)
        c == CHOOSE x \in first : TRUE
        n == A.cnt[c].dirty
        more == IF n > left /\ A.cnt[c].adjac = 0 THEN n - left ELSE 0
    IN  IF left = 0 THEN [a |-> A, then |-> <<>>]
        ELSE IF first = {} THEN [a |-> [A EXCEPT !.npurgatory = (@ - left) % Word], then |-> <<>>]
        ELSE Round(A, c, left + more - n, more - n, n, all)

-----------------------------------------------------------------------------
(* Threads.  jobs[t] is what is left of t's operation, the next job first. *)
(* A job of Unlocked runs without arena->lock; the others under it.        *)

Unlocked == {"newchunk", "unmap", "stashed", "huge"}
HugePages == NPages + 1             \* a huge allocation of one chunk

\* The thread may run under the lock: it has it, or takes it now.
Locked(t) == lock \in {t, None}

\* t goes on with A and the jobs js; it drops the lock where the code does.
Continue(t, A, js) ==
    /\ arena' = A
    /\ jobs' = [jobs EXCEPT ![t] = js]
    /\ lock' = IF js = <<>> \/ Head(js).do \in Unlocked THEN None ELSE t

\* The same, with what g leaves to be done before them.
GoOn(t, g, js) == Continue(t, g.a, g.then \o js)

Idle(t) == jobs[t] = <<>> /\ lock = None
Job(t, do) == jobs[t] # <<>> /\ Head(jobs[t]).do = do
This(t) == Head(jobs[t])

PagesOf(c, i, n) == {c} \X (i .. i + n - 1)

\* The application gets n pages at i and writes to them; with zero it was told
\* that they hold zeros once the pages in clear have been cleared.
Deliver(c, i, n, zero, clear) ==
    /\ owned' = owned \cup {[c |-> c, i |-> i, n |-> n, small |-> FALSE]}
    /\ zeroed' = (zeroed /\ (zero => PagesOf(c, i, n) \cap touched \subseteq {c} \X clear))
    /\ touched' = touched \cup PagesOf(c, i, n)

TrimLead(A, c, i, n, lead) ==
    IF lead = 0 THEN [a |-> A, then |-> <<>>]
    ELSE arena_run_trim_head(A, c, i, n, n - lead)

\* Cuts the run at i for job j: arena_run_alloc_small and _large after a run was
\* found, then the rest of the function that wanted it.
Take(t, A, c, i, j) ==
    LET n == j.n
        lead == (-i) % j.al
        trail == j.al - 1 - lead
    IN  CASE j.kind = "small" ->
             /\ Continue(t, arena_run_split_small(A, c, i, n), <<>>)
             /\ owned' = owned \cup {[c |-> c, i |-> i, n |-> n, small |-> TRUE]}
             /\ UNCHANGED <<touched, zeroed>>
          [] j.kind = "large" /\ j.al = 1 ->
             /\ Continue(t, arena_run_split_large(A, c, i, n), <<>>)
             /\ Deliver(c, i, n, j.zero, arena_run_zero(A, c, i, n))
          [] OTHER ->
             /\ GoOn(t, TrimLead(arena_run_split_large(A, c, i, n + j.al - 1),
                                 c, i, n + j.al - 1, lead),
                     <<[do |-> "trim", c |-> c, i |-> i + lead,
                        n |-> n, trail |-> trail, zero |-> j.zero]>>)
             /\ UNCHANGED <<owned, touched, zeroed>>

\* arena_run_alloc_*_helper: the best fit, if there is one.
Found(t, A, j) == \E r \in BestFits(A, j.n + j.al - 1) : Take(t, A, r[1], r[2], j)

\* arena_malloc_large, arena_palloc (al > 1) and the new run of a bin: a fit, or
\* the spare, or the lock is dropped to ask the pool for a chunk.
arena_run_alloc(t, kind, n, al, zero) ==
    LET j == [do |-> "newchunk", kind |-> kind, n |-> n, al |-> al, zero |-> zero]
        none == BestFits(arena, n + al - 1) = {}
    IN  /\ Idle(t)
        /\ n + al - 1 <= NPages
        /\ \/ Found(t, arena, j)
           \/ /\ none /\ arena.spare # None
              /\ Take(t, arena_avail_insert([arena EXCEPT !.spare = None],
                                            arena.spare, 1, NPages, FALSE, FALSE),
                      arena.spare, 1, j)
           \/ /\ none /\ arena.spare = None
              /\ Continue(t, arena, <<j>>)
              /\ UNCHANGED <<owned, touched, zeroed>>
        /\ UNCHANGED <<taken, failed>>

\* The map of a chunk that is not zeroed keeps, between its ends, what was there.
arena_chunk_init_hard(A, c, zero) ==
    LET Blank == [alloc |-> FALSE, large |-> FALSE, size |-> 0, dirty |-> FALSE, unz |-> FALSE]
        Inner(i) == IF zero THEN Blank ELSE [A.map[c][i] EXCEPT !.unz = TRUE]
        B == [A EXCEPT !.map[c] = [i \in Pages |-> Inner(i)],
                       !.cnt[c] = [avail |-> 0, adjac |-> 0, dirty |-> 0]]
        C == arena_mapbits_unallocated_set(B, c, 1, NPages, FALSE, ~zero)
    IN  arena_mapbits_unallocated_set(C, c, NPages, NPages, FALSE, ~zero)

\* The pool's answer, lock taken again.  A chunk said to be zeroed is.
arena_chunk_alloc(t) ==
    LET j == This(t)
    IN  /\ Job(t, "newchunk") /\ Locked(t)
        /\ \/ \E c \in Chunks \ taken, zero \in BOOLEAN :
                /\ zero => touched \cap ({c} \X Pages) = {}
                /\ taken' = taken \cup {c}
                /\ Take(t, arena_avail_insert(arena_chunk_init_hard(arena, c, zero),
                                              c, 1, NPages, FALSE, FALSE), c, 1, j)
           \/ Found(t, arena, j) /\ UNCHANGED taken
           \/ /\ BestFits(arena, j.n + j.al - 1) = {}
              /\ Continue(t, arena, <<>>)
              /\ UNCHANGED <<taken, owned, touched, zeroed>>
        /\ UNCHANGED failed

\* The rest of arena_palloc: the trailing pages, then the run itself.
arena_palloc_tail(t) ==
    LET j == This(t)
        g == IF j.trail = 0 THEN [a |-> arena, then |-> <<>>]
             ELSE arena_run_trim_tail(arena, j.c, j.i, j.n + j.trail, j.n, FALSE)
    IN  /\ Job(t, "trim") /\ Locked(t)
        /\ GoOn(t, g, <<[do |-> "init", c |-> j.c, i |-> j.i, n |-> j.n,
                         zero |-> j.zero]>> \o Tail(jobs[t]))
        /\ UNCHANGED <<taken, owned, touched, zeroed, failed>>

arena_palloc_init(t) ==
    LET j == This(t)
    IN  /\ Job(t, "init") /\ Locked(t)
        /\ Continue(t, arena_run_init_large(arena, j.c, j.i, j.n), Tail(jobs[t]))
        /\ Deliver(j.c, j.i, j.n, j.zero, arena_run_zero(arena, j.c, j.i, j.n))
        /\ UNCHANGED <<taken, failed>>

arena_dalloc_large(t, r) ==
    LET g == arena_run_dalloc(arena, r.c, r.i, TRUE, FALSE)
    IN  /\ Idle(t)
        /\ GoOn(t, g, <<>>)
        /\ owned' = owned \ {r}
        /\ UNCHANGED <<taken, touched, zeroed, failed>>

\* A bin gives back a run of which the regions on the first past pages were used.
\* The trim leaves the head allocated, so it neither purges nor frees the chunk.
arena_dalloc_bin_run(t, r, past) ==
    LET clean == ~arena.map[r.c][r.i].dirty /\ past < r.n
        A == arena_mapbits_large_set(
               arena_mapbits_large_set(arena, r.c, r.i, r.n, FALSE),
               r.c, r.i + r.n - 1, 0, FALSE)
        B == IF clean THEN arena_run_trim_tail(A, r.c, r.i, r.n, past, FALSE).a
             ELSE arena
        g == arena_run_dalloc(B, r.c, r.i, TRUE, FALSE)
    IN  /\ Idle(t)
        /\ GoOn(t, g, <<>>)
        /\ owned' = owned \ {r}
        /\ touched' = touched \cup PagesOf(r.c, r.i, past)
        /\ UNCHANGED <<taken, zeroed, failed>>

arena_ralloc_large_shrink(t, r, n) ==
    LET g == arena_run_trim_tail(arena, r.c, r.i, r.n, n, TRUE)
    IN  /\ Idle(t) /\ n < r.n
        /\ GoOn(t, g, <<>>)
        /\ owned' = (owned \ {r}) \cup {[r EXCEPT !.n = n]}
        /\ UNCHANGED <<taken, touched, zeroed, failed>>

\* The two runs become one in the map: the flags of either make it dirty.
Grown(A, r, k) ==
    LET last == r.i + r.n + k - 1
        d == A.map[r.c][r.i].dirty \/ A.map[r.c][last].dirty
    IN  arena_mapbits_large_set(
          arena_mapbits_large_set(A, r.c, r.i, r.n + k, d), r.c, last, 0, d)

\* To at least n pages, at most n + extra, if the run that follows allows it.
arena_ralloc_large_grow(t, r, n, extra, zero) ==
    LET next == r.i + r.n
        b == arena.map[r.c][next]
        k == IF r.n + b.size <= n + extra THEN b.size ELSE n + extra - r.n
    IN  /\ Idle(t) /\ n + extra > r.n
        /\ next <= NPages /\ ~b.alloc /\ r.n + b.size >= n
        /\ arena' = Grown(arena_run_split_large(arena, r.c, next, k), r, k)
        /\ owned' = (owned \ {r}) \cup {[r EXCEPT !.n = r.n + k]}
        /\ zeroed' = (zeroed /\ (zero => PagesOf(r.c, next, k) \cap touched
                                             \subseteq {r.c} \X arena_run_zero(arena, r.c, next, k)))
        /\ touched' = touched \cup PagesOf(r.c, next, k)
        /\ UNCHANGED <<taken, lock, jobs, failed>>

arena_purge_all(t) ==
    LET g == arena_purge(arena, TRUE)
    IN  /\ Idle(t)
        /\ GoOn(t, g, <<>>)
        /\ UNCHANGED <<taken, owned, touched, zeroed, failed>>

\* A job that only computes: the purge decision, or one round of purging.
Purge(t) ==
    LET j == This(t)
        g == IF j.do = "maybe_purge" THEN arena_maybe_purge(arena)
             ELSE PurgeRound(arena, j.left, j.back, j.all)
    IN  /\ Job(t, "maybe_purge") \/ Job(t, "purge")
        /\ Locked(t)
        /\ GoOn(t, g, Tail(jobs[t]))
        /\ UNCHANGED <<taken, owned, touched, zeroed, failed>>

\* Allocates the next run of the chunk if it is to be purged, or passes it by.
arena_chunk_stash_dirty(t) ==
    LET j == This(t)
        n == Stride(arena, j.c, j.i)
        stash == Purgeable(arena, j.c, j.i, j.all)
        A == IF stash THEN arena_run_split_large(arena, j.c, j.i, n) ELSE arena
        runs == IF stash THEN Append(j.runs, [c |-> j.c, i |-> j.i, n |-> n]) ELSE j.runs
    IN  /\ Job(t, "stash") /\ Locked(t)
        /\ Continue(t, A, WalkOn(j, j.i + n, runs) \o Tail(jobs[t]))
        /\ UNCHANGED <<taken, owned, touched, zeroed, failed>>

StashedPages(runs) == UNION {PagesOf(runs[k].c, runs[k].i, runs[k].n) : k \in DOMAIN runs}

\* The purged runs are given back one after the other, if there are any.
Unstash(runs) == IF runs = <<>> THEN <<>> ELSE <<[do |-> "unstash", runs |-> runs]>>

\* pages_purge on the runs taken for it, without the lock: the contents of a run are
\* gone, or not (a file's pages, a failed madvise), and the flags say which.
arena_chunk_purge_stashed(t) ==
    LET runs == This(t).runs
    IN  /\ Job(t, "stashed")
        /\ \E gone \in SUBSET {runs[k] : k \in DOMAIN runs} :
              LET ps == UNION {PagesOf(r.c, r.i, r.n) : r \in gone}
              IN  /\ FileMapped => gone = {}
                  /\ arena' = [arena EXCEPT !.map =
                         [c \in Chunks |-> [i \in Pages |->
                            IF <<c, i>> \in StashedPages(runs)
                            THEN [arena.map[c][i] EXCEPT !.unz = <<c, i>> \notin ps]
                            ELSE arena.map[c][i]]]]
                  /\ touched' = touched \ ps
        /\ jobs' = [jobs EXCEPT ![t] = Unstash(runs) \o Tail(jobs[t])]
        /\ UNCHANGED <<taken, lock, owned, zeroed, failed>>

arena_chunk_unstash_purged(t) ==
    LET runs == This(t).runs
        r == Head(runs)
        g == arena_run_dalloc(arena, r.c, r.i, FALSE, TRUE)
    IN  /\ Job(t, "unstash") /\ Locked(t)
        /\ GoOn(t, g, Unstash(Tail(runs)) \o Tail(jobs[t]))
        /\ UNCHANGED <<taken, owned, touched, zeroed, failed>>

\* The pool takes the chunk while the lock is free.
arena_chunk_dalloc_internal(t) ==
    /\ Job(t, "unmap") /\ Locked(t)
    /\ taken' = taken \ {This(t).c}
    /\ Continue(t, arena, Tail(jobs[t]))
    /\ UNCHANGED <<owned, touched, zeroed, failed>>

\* Counted before the lock is dropped, in case the pool has room.
arena_chunk_alloc_huge(t) ==
    /\ Idle(t) /\ failed < MaxHugeFails
    /\ Continue(t, [arena EXCEPT !.nactive = (@ + HugePages) % Word],
                <<[do |-> "huge"]>>)
    /\ UNCHANGED <<taken, owned, touched, zeroed, failed>>

\* The pool's answer.  A failure takes back the statistics, and not nactive.
HugeAnswer(t) ==
    /\ Job(t, "huge")
    /\ \/ \E c \in Chunks \ taken :
             /\ taken' = taken \cup {c}
             /\ owned' = owned \cup {[c |-> c, i |-> 0, n |-> HugePages, small |-> FALSE]}
             /\ touched' = touched \cup ({c} \X Pages)
             /\ UNCHANGED failed
       \/ /\ failed' = failed + 1
          /\ UNCHANGED <<taken, owned, touched>>
    /\ jobs' = [jobs EXCEPT ![t] = <<>>]
    /\ UNCHANGED <<arena, lock, zeroed>>

arena_chunk_dalloc_huge(t, r) ==
    /\ Idle(t)
    /\ arena' = [arena EXCEPT !.nactive = (@ - HugePages) % Word]
    /\ taken' = taken \ {r.c}
    /\ owned' = owned \ {r}
    /\ UNCHANGED <<lock, jobs, touched, zeroed, failed>>

-----------------------------------------------------------------------------
Init ==
    /\ arena = [map |-> [c \in Chunks |-> [i \in Pages |->
                          [alloc |-> FALSE, large |-> FALSE, size |-> 0,
                           dirty |-> FALSE, unz |-> FALSE]]],
                cnt |-> [c \in Chunks |-> [avail |-> 0, adjac |-> 0, dirty |-> 0]],
                avail |-> {}, spare |-> None,
                ndirty |-> 0, nactive |-> 0, npurgatory |-> 0]
    /\ taken = {} /\ lock = None
    /\ jobs = [t \in Threads |-> <<>>]
    /\ owned = {} /\ touched = {} /\ zeroed = TRUE /\ failed = 0

Large == {r \in owned : ~r.small /\ r.i > 0}
Small == {r \in owned : r.small}
Huge == {r \in owned : r.i = 0}

Operation(t) ==
    \/ \E n \in Pages, al \in 1 .. 2, zero \in BOOLEAN : arena_run_alloc(t, "large", n, al, zero)
    \/ arena_run_alloc(t, "small", SmallPages, 1, FALSE)
    \/ \E r \in Large : arena_dalloc_large(t, r)
    \/ \E r \in Small : \E past \in 1 .. r.n : arena_dalloc_bin_run(t, r, past)
    \/ \E r \in Large : \E n \in 1 .. r.n - 1 : arena_ralloc_large_shrink(t, r, n)
    \/ \E r \in Large : \E n \in r.n .. NPages, extra \in 0 .. 1, zero \in BOOLEAN :
          arena_ralloc_large_grow(t, r, n, extra, zero)
    \/ arena_purge_all(t)
    \/ arena_chunk_alloc_huge(t)
    \/ \E r \in Huge : arena_chunk_dalloc_huge(t, r)

Step(t) ==
    \/ arena_chunk_alloc(t)
    \/ arena_palloc_tail(t)
    \/ arena_palloc_init(t)
    \/ Purge(t)
    \/ arena_chunk_stash_dirty(t)
    \/ arena_chunk_purge_stashed(t)
    \/ arena_chunk_unstash_purged(t)
    \/ arena_chunk_dalloc_internal(t)
    \/ HugeAnswer(t)

Next == \E t \in Threads : Operation(t) \/ Step(t)

Spec == Init /\ [][Next]_vars

-----------------------------------------------------------------------------
(* Properties.                                                             *)

TypeOK ==
    /\ taken \subseteq Chunks
    /\ lock \in Threads \cup {None}
    /\ arena.spare \in taken \cup {None}
    /\ arena.nactive \in 0 .. Word - 1 /\ arena.npurgatory \in 0 .. Word - 1
    /\ touched \subseteq Chunks \X Pages
    /\ \A r \in owned : r.c \in taken

\* The chunks whose maps are in use: neither huge nor on their way to the pool.
Jobs(do) == {j \in UNION {Range(jobs[t]) : t \in Threads} : j.do = do}
Leaving == {j.c : j \in Jobs("unmap")}
Mapped == taken \ (Leaving \cup {r.c : r \in Huge})

\* The heads of the runs of a chunk: the walk from one run to the next.
RunHeads(c) ==
    LET Go(w, i) == IF i = w.next
                    THEN [next |-> i + Stride(arena, c, i), heads |-> w.heads \cup {i}]
                    ELSE w
    IN  FoldLeft(Go, [next |-> 1, heads |-> {}], [i \in Pages |-> i]).heads

FreeRuns(c) == {i \in RunHeads(c) : ~arena.map[c][i].alloc}
Width(c, i) == arena.map[c][i].size
Neighbours(c) == {i \in FreeRuns(c) : i + Width(c, i) \in FreeRuns(c)}
DirtyRuns(c) == {i \in FreeRuns(c) : arena.map[c][i].dirty}

\* The page maps stay readable from both ends of every free run, free runs that
\* are as dirty are always joined, and runs_avail holds exactly the free runs:
\* what split, coalesce and the trims (arena.c:420-535, 1183-1395) keep up while
\* other threads change the same chunk whenever the lock is dropped.
MapsWellFormed ==
    /\ \A c \in Mapped :
        /\ \A i \in FreeRuns(c) :
             LET last == i + Width(c, i) - 1
             IN  /\ last \in Pages
                 /\ ~arena.map[c][last].alloc
                 /\ Width(c, last) = Width(c, i)
                 /\ arena.map[c][last].dirty = arena.map[c][i].dirty
        /\ \A i \in Neighbours(c) :
             arena.map[c][i].dirty # arena.map[c][i + Width(c, i)].dirty
    /\ arena.avail = UNION {{c} \X FreeRuns(c) : c \in Mapped \ {arena.spare}}

\* The counters that decide when and where to purge equal what the maps say:
\* free runs, free neighbours and dirty pages per chunk, and ndirty of the arena
\* (arena.c:216-290).  The spare counts for nothing, dirty as it may be.
ChunkCountersExact ==
    /\ \A c \in Mapped \ {arena.spare} :
        arena.cnt[c] = [avail |-> Cardinality(FreeRuns(c)),
                        adjac |-> Cardinality(Neighbours(c)),
                        dirty |-> MapThenSumSet(LAMBDA i : Width(c, i), DirtyRuns(c))]
    /\ arena.ndirty = MapThenSumSet(LAMBDA c : arena.cnt[c].dirty, taken)
    /\ arena.spare # None => arena.cnt[arena.spare] = [avail |-> 0, adjac |-> 0, dirty |-> 0]

\* Who has pages of chunk c: what it is, whose, which pages.
InHand(t, c) ==
    LET J(do) == {j \in Range(jobs[t]) : j.do = do}
        stash == UNION {Range(j.runs) : j \in J("stash") \cup J("stashed") \cup J("unstash")}
    IN  {<<"trim", t, j.i .. j.i + j.n + j.trail - 1>> : j \in {x \in J("trim") : x.c = c}}
          \cup {<<"init", t, j.i .. j.i + j.n - 1>> : j \in {x \in J("init") : x.c = c}}
          \cup {<<"stash", t, r.i .. r.i + r.n - 1>> : r \in {x \in stash : x.c = c}}
          \cup {<<"leaving", t, Pages>> : j \in {x \in J("unmap") : x.c = c}}

Held(c) ==
    {<<"free", None, r[2] .. r[2] + Width(c, r[2]) - 1>> : r \in {x \in arena.avail : x[1] = c}}
      \cup {<<"owned", None, r.i .. r.i + r.n - 1>> : r \in {x \in owned : x.c = c}}
      \cup (UNION {InHand(t, c) : t \in Threads})
      \cup (IF c = arena.spare THEN {<<"spare", None, Pages>>} ELSE {})

\* Every page of every chunk the arena has is in exactly one place: a free run, an
\* allocation, a run some thread is cutting or purging without the lock, the spare
\* or a chunk on its way out.  No page is handed out twice or lost, and a chunk
\* with stashed runs is never given back (arena.c:1045-1092).
PagesPartitioned ==
    \A c \in taken :
        /\ (UNION {h[3] : h \in Held(c)}) \ {0} = Pages
        /\ \A g, h \in Held(c) : g # h => g[3] \cap h[3] = {}

\* nactive, from which the purging threshold is taken, counts every allocated page;
\* a huge allocation that failed stays counted for ever (arena.c:596-612).
NactiveAccounts ==
    LET free == MapThenSumSet(LAMBDA r : Width(r[1], r[2]), arena.avail)
        out == Leaving \cup ({arena.spare} \ {None})
        huge == Cardinality(Huge) + failed
                  + Cardinality({t \in Threads : Job(t, "huge")})
    IN  arena.nactive = (NPages * (Cardinality(taken \ out) - Cardinality(Huge)) - free
                           + HugePages * huge) % Word

\* Both: what purging is decided by, in the chunks and in the arena, is what is
\* really there, but for huge allocations that failed.
CountersExact == ChunkCountersExact /\ NactiveAccounts

\* npurgatory is what the threads that purge still mean to purge, although it wraps
\* below zero meanwhile: nothing is left of it when nobody purges (arena.c:1094-1171).
NpurgatorySettles ==
    arena.npurgatory =
        FoldLeft(LAMBDA s, t : s + FoldLeft(LAMBDA k, j : IF j.do \in {"stash", "purge"}
                                                           THEN k + j.left ELSE k,
                                            0, jobs[t]),
                 0, SetToSeq(Threads)) % Word

\* A run asked for with zero holds zeros, wherever its pages were before: cleared
\* pages, never used ones, purged ones that the system has or has not zeroed
\* (arena.c:430-520, 978-1024).
ZeroDelivered == zeroed

=============================================================================
