----------------------------- MODULE Quarantine -----------------------------
(***************************************************************************)
(* A thread's quarantine: what the thread frees waits in a ring buffer,    *)
(* and is given back to the arenas when the buffer holds too many bytes.   *)
(* The buffer is itself allocated, grows by doubling, and is taken down by *)
(* a destructor at the end of the thread, after which other destructors    *)
(* may still free memory.  The thread is alone with its quarantine.        *)
(***************************************************************************)
EXTENDS Integers, Sequences, SequencesExt, FiniteSets, FiniteSetsExt

CONSTANTS
    NPtrs, Usize,           \* the pointers 1 .. NPtrs, and their usable sizes
    opt_quarantine,         \* bytes the quarantine may hold
    LG_MAXOBJS_INIT

VARIABLES
    base_pool_initialized,
    tls,                    \* quarantine_tls: a buffer, or one of three marks
    initialized,            \* whether the destructor is due to be called
    exiting,                \* the thread runs destructors
    owned,                  \* pointers the program has
    waiting,                \* pointers it freed that are not deallocated, in order
    buffers                 \* buffers that are allocated

quvars == <<base_pool_initialized, tls, initialized, exiting, owned, waiting, buffers>>

Mark(m) == [state |-> m]
NoPtr == 0

quarantine_init(lg) ==
    [state |-> "buffer", curbytes |-> 0, curobjs |-> 0, first |-> 0,
     lg_maxobjs |-> lg, objs |-> [k \in 0 .. 2^lg - 1 |-> NoPtr]]

\* Mistake: the ring is copied as if it did not wrap around.
grow_contiguous(q) ==
    [quarantine_init(q.lg_maxobjs + 1) EXCEPT
       !.curbytes = q.curbytes,
       !.curobjs = q.curobjs,
       !.objs = [k \in DOMAIN @ |-> IF k < q.curobjs THEN q.objs[k] ELSE NoPtr]]

\* The parts on both sides of the end of the old ring, in a ring of twice its length.
grow(q) ==
    LET ncopy_a == IF q.first + q.curobjs <= 2^q.lg_maxobjs THEN q.curobjs
                   ELSE 2^q.lg_maxobjs - q.first
    IN  [quarantine_init(q.lg_maxobjs + 1) EXCEPT
           !.curbytes = q.curbytes,
           !.curobjs = q.curobjs,
           !.objs = [k \in DOMAIN @ |->
                       CASE k < ncopy_a -> q.objs[q.first + k]
                         [] ncopy_a <= k /\ k < q.curobjs -> q.objs[k - ncopy_a]
                         [] OTHER -> NoPtr]]

\* A buffer, and what was deallocated from it so far in this call.
With(q, freed) == [q |-> q, freed |-> freed]

\* The slot is not read again before it is written.
quarantine_drain_one(s) ==
    With([s.q EXCEPT !.curbytes = @ - Usize[s.q.objs[s.q.first]],
                     !.curobjs = @ - 1,
                     !.objs[s.q.first] = NoPtr,
                     !.first = (@ + 1) % 2^s.q.lg_maxobjs],
         s.freed \cup {s.q.objs[s.q.first]})

RECURSIVE quarantine_drain(_, _)
quarantine_drain(s, upper_bound) ==
    IF s.q.curbytes > upper_bound /\ s.q.curobjs > 0
    THEN quarantine_drain(quarantine_drain_one(s), upper_bound)
    ELSE s

\* Drain one or more objects if the limit would be exceeded by appending ptr.
MakeRoom(s, ptr) ==
    IF s.q.curbytes + Usize[ptr] <= opt_quarantine THEN s
    ELSE quarantine_drain(s, Max({opt_quarantine - Usize[ptr], 0}))

\* quarantine_grow, if the ring is full; it frees a slot if it fails to grow.
quarantine_grow(s, fails) ==
    CASE s.q.curobjs < 2^s.q.lg_maxobjs -> s
      [] s.q.curobjs = 2^s.q.lg_maxobjs /\ fails -> quarantine_drain_one(s)
      [] OTHER -> With(grow(s.q), s.freed)

Append1(q, ptr) ==
    [q EXCEPT !.objs[(q.first + q.curobjs) % 2^q.lg_maxobjs] = ptr,
              !.curbytes = @ + Usize[ptr],
              !.curobjs = @ + 1]

\* Append ptr if its size doesn't exceed the quarantine size.
Admit(s, ptr) ==
    IF s.q.curbytes + Usize[ptr] <= opt_quarantine
    THEN With(Append1(s.q, ptr), s.freed)
    ELSE With(s.q, s.freed \cup {ptr})

\* The program frees ptr, and what s says was deallocated.
Settle(ptr, s) ==
    /\ tls' = s.q
    /\ owned' = owned \ {ptr}
    /\ waiting' = SelectSeq(Append(waiting, ptr), LAMBDA p : p \notin s.freed)

-----------------------------------------------------------------------------
\* The thread's quarantine is made if it has none, and memory suffices.
quarantine_alloc_hook(fails) ==
    IF tls = Mark("NULL") /\ ~fails
    THEN /\ tls' = quarantine_init(LG_MAXOBJS_INIT)
         /\ initialized' = TRUE
         /\ buffers' = buffers + 1
    ELSE UNCHANGED <<tls, initialized, buffers>>

\* Only the call that finds the base pool uninitialized reaches the hook.
malloc_init_base_pool(fails) ==
    /\ base_pool_initialized' = TRUE
    /\ IF base_pool_initialized THEN UNCHANGED <<tls, initialized, buffers>>
       ELSE quarantine_alloc_hook(fails)

\* An allocation.
Malloc(ptr, fails) ==
    /\ ptr \notin owned /\ \A k \in DOMAIN waiting : waiting[k] # ptr
    /\ owned' = owned \cup {ptr}
    /\ malloc_init_base_pool(fails)
    /\ UNCHANGED <<exiting, waiting>>

\* quarantine(ptr) while the thread has one.
Quarantine(ptr, fails) ==
    /\ ptr \in owned
    /\ tls.state = "buffer"
    /\ Settle(ptr, Admit(quarantine_grow(MakeRoom(With(tls, {}), ptr), fails), ptr))
    /\ UNCHANGED <<base_pool_initialized, initialized, exiting, buffers>>

\* quarantine(ptr) while there is none, which a cleaned up thread makes a note of.
Dalloc(ptr) ==
    /\ ptr \in owned
    /\ tls.state # "buffer"
    /\ Settle(ptr, With(IF tls.state = "PURGATORY" THEN Mark("REINCARNATED") ELSE tls,
                        {ptr}))
    /\ initialized' = (initialized \/ tls.state = "PURGATORY")
    /\ UNCHANGED <<base_pool_initialized, exiting, buffers>>

Exit ==
    /\ ~exiting /\ base_pool_initialized
    /\ exiting' = TRUE
    /\ UNCHANGED <<base_pool_initialized, tls, initialized, owned, waiting, buffers>>

\* The destructor.  Setting the mark makes it be called again.
quarantine_cleanup ==
    /\ exiting /\ initialized
    /\ CASE tls.state = "REINCARNATED" ->
              tls' = Mark("PURGATORY") /\ initialized' = TRUE /\ UNCHANGED <<waiting, buffers>>
         [] tls.state = "buffer" ->
              /\ tls' = Mark("PURGATORY") /\ initialized' = TRUE
              /\ buffers' = buffers - 1
              /\ LET s == quarantine_drain(With(tls, {}), 0)
                 IN  waiting' = SelectSeq(waiting, LAMBDA p : p \notin s.freed)
         [] OTHER -> initialized' = FALSE /\ UNCHANGED <<tls, waiting, buffers>>
    /\ UNCHANGED <<base_pool_initialized, exiting, owned>>

Init ==
    /\ base_pool_initialized \in BOOLEAN
    /\ tls = Mark("NULL") /\ initialized = FALSE /\ exiting = FALSE
    /\ owned = {} /\ waiting = << >> /\ buffers = 0

Next ==
    \/ \E ptr \in 1 .. NPtrs :
         \/ \E fails \in BOOLEAN : Malloc(ptr, fails) \/ Quarantine(ptr, fails)
         \/ Dalloc(ptr)
    \/ Exit \/ quarantine_cleanup

Spec == Init /\ [][Next]_quvars

-----------------------------------------------------------------------------
\* The pointers in the buffer, oldest first.
Contents(q) ==
    [k \in 1 .. q.curobjs |-> q.objs[(q.first + k - 1) % 2^q.lg_maxobjs]]

\* What the thread freed and was not deallocated is in its buffer, once and in
\* order, within the limit and counted right, through wrapping, growing and failing
\* to grow; and when the destructor is not due again nothing is left behind.
QuarantineIsQueue ==
    /\ tls.state = "buffer" =>
         /\ Contents(tls) = waiting
         /\ tls.curbytes = FoldLeft(LAMBDA sum, p : sum + Usize[p], 0, waiting)
         /\ tls.curbytes <= opt_quarantine
    /\ tls.state # "buffer" => waiting = << >>
    /\ buffers = IF tls.state = "buffer" THEN 1 ELSE 0
    /\ exiting /\ ~initialized => tls.state \in {"NULL", "PURGATORY"}
=============================================================================
