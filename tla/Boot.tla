-------------------------------- MODULE Boot --------------------------------
(***************************************************************************)
(* How the allocator comes up under the first calls of several threads:    *)
(* malloc_init, which fills the global tables under init_lock and lets go  *)
(* of the lock to register the fork handlers, and the creation of the base *)
(* pool under pool_base_lock.  A step of the first may fail (no more keys  *)
(* for thread data, no memory) and so may pool_new.                        *)
(***************************************************************************)
EXTENDS Integers

CONSTANTS BootThreads, NoThread

VARIABLES
    malloc_initialized, malloc_initializer,
    base_pool_initialized,
    narenas,                \* the base pool was made with opt_narenas set
    pool_base_lock,         \* who has it
    pc,                     \* where each thread is
    needs,                  \* what its call needs: "init", "base" or "both"
    failed                  \* malloc_init_hard failed for some thread

bootvars == <<malloc_initialized, malloc_initializer, base_pool_initialized, narenas,
              pool_base_lock, pc, needs, failed>>

Go(t, to) == pc' = [pc EXCEPT ![t] = to]

\* The end of malloc_init: a call that came from malloc_init_base_pool goes on to
\* make the pool, je_pool_create goes on to malloc_init_base_pool.
MallocInitReturns(t) ==
    /\ Go(t, CASE pool_base_lock = t -> "pool_new"
               [] pool_base_lock # t /\ needs[t] = "init" -> "ready"
               [] OTHER -> "base")
    /\ UNCHANGED pool_base_lock

\* The error is handed on by every caller, and pool_base_lock let go of.
MallocInitFails(t) ==
    /\ Go(t, "error")
    /\ pool_base_lock' = IF pool_base_lock = t THEN NoThread ELSE pool_base_lock

\* A call of the program: mallctl and the like need malloc_init, je_malloc the
\* base pool, je_pool_create one after the other.
Call(t, what) ==
    /\ pc[t] \in {"out", "ready", "error"}
    /\ needs' = [needs EXCEPT ![t] = what]
    /\ Go(t, IF what = "base" THEN "base" ELSE "init")
    /\ UNCHANGED <<malloc_initialized, malloc_initializer, base_pool_initialized, narenas,
                   pool_base_lock, failed>>

\* malloc_init looks without the lock first.
malloc_init(t) ==
    /\ pc[t] = "init"
    /\ IF malloc_initialized THEN MallocInitReturns(t)
       ELSE Go(t, "hard") /\ UNCHANGED pool_base_lock
    /\ UNCHANGED <<malloc_initialized, malloc_initializer, base_pool_initialized, narenas,
                   needs, failed>>

\* malloc_init_base_pool, up to its call of malloc_init.
malloc_init_base_pool(t) ==
    /\ pc[t] = "base" /\ pool_base_lock = NoThread
    /\ IF base_pool_initialized THEN Go(t, "ready") /\ UNCHANGED pool_base_lock
       ELSE Go(t, "init") /\ pool_base_lock' = t
    /\ UNCHANGED <<malloc_initialized, malloc_initializer, base_pool_initialized, narenas,
                   needs, failed>>

\* Mistake: any thread counts as the initializing one, as in a build without
\* JEMALLOC_THREADED_INIT.
malloc_init_hard_unthreaded(t, fails) ==
    /\ pc[t] = "hard"
    /\ CASE malloc_initialized \/ malloc_initializer # NoThread ->
              MallocInitReturns(t) /\ UNCHANGED <<malloc_initializer, failed>>
         [] ~malloc_initialized /\ malloc_initializer = NoThread /\ fails ->
              /\ malloc_initializer' = t /\ failed' = TRUE
              /\ MallocInitFails(t)
         [] OTHER ->
              /\ malloc_initializer' = t /\ Go(t, "atfork")
              /\ UNCHANGED <<pool_base_lock, failed>>
    /\ UNCHANGED <<malloc_initialized, base_pool_initialized, narenas, needs>>

\* malloc_init_hard from taking init_lock to letting go of it.  Nothing takes
\* malloc_initializer back when a step fails.
malloc_init_hard(t, fails) ==
    /\ pc[t] = "hard"
    /\ CASE malloc_initialized \/ malloc_initializer = t ->
              MallocInitReturns(t) /\ UNCHANGED <<malloc_initializer, failed>>
         [] ~malloc_initialized /\ malloc_initializer \notin {t, NoThread} ->
              Go(t, "spin") /\ UNCHANGED <<pool_base_lock, malloc_initializer, failed>>
         [] ~malloc_initialized /\ malloc_initializer = NoThread /\ fails ->
              /\ malloc_initializer' = t /\ failed' = TRUE
              /\ MallocInitFails(t)
         [] OTHER ->
              /\ malloc_initializer' = t /\ Go(t, "atfork")
              /\ UNCHANGED <<pool_base_lock, failed>>
    /\ UNCHANGED <<malloc_initialized, base_pool_initialized, narenas, needs>>

\* Busy-wait until the initializing thread completes.
Spin(t) ==
    /\ pc[t] = "spin" /\ malloc_initialized
    /\ MallocInitReturns(t)
    /\ UNCHANGED <<malloc_initialized, malloc_initializer, base_pool_initialized, narenas,
                   needs, failed>>

\* The rest of malloc_init_hard, with the lock again: opt_narenas is known.
Finish(t, fails) ==
    /\ pc[t] = "atfork"
    /\ malloc_initialized' = ~fails
    /\ failed' = (failed \/ fails)
    /\ IF fails THEN MallocInitFails(t) ELSE MallocInitReturns(t)
    /\ UNCHANGED <<malloc_initializer, base_pool_initialized, narenas, needs>>

\* pool_new, whose own malloc_init finds the work done or the thread at it, and the
\* rest of malloc_init_base_pool.
PoolNew(t, fails) ==
    /\ pc[t] = "pool_new"
    /\ pool_base_lock' = NoThread
    /\ IF fails THEN Go(t, "error") /\ UNCHANGED <<base_pool_initialized, narenas>>
       ELSE /\ base_pool_initialized' = TRUE
            /\ narenas' = malloc_initialized
            /\ Go(t, "ready")
    /\ UNCHANGED <<malloc_initialized, malloc_initializer, needs, failed>>

Init ==
    /\ malloc_initialized = FALSE /\ malloc_initializer = NoThread
    /\ base_pool_initialized = FALSE /\ narenas = FALSE
    /\ pool_base_lock = NoThread
    /\ pc = [t \in BootThreads |-> "out"]
    /\ needs = [t \in BootThreads |-> "init"]
    /\ failed = FALSE

Next ==
    \E t \in BootThreads :
        \/ \E what \in {"init", "base", "both"} : Call(t, what)
        \/ malloc_init(t) \/ malloc_init_base_pool(t) \/ Spin(t)
        \/ \E fails \in BOOLEAN :
             malloc_init_hard(t, fails) \/ Finish(t, fails) \/ PoolNew(t, fails)

Spec == Init /\ [][Next]_bootvars

-----------------------------------------------------------------------------
\* Unless a step of malloc_init_hard failed, a call goes on only when what it needs
\* is complete, the base pool is made with the number of arenas known, and whoever
\* spins does so for a thread that is still at work.  A call that returns, in error
\* too, has let go of pool_base_lock.
BootedBeforeUse ==
    /\ ~failed =>
         /\ \A t \in BootThreads :
              /\ pc[t] = "ready" =>
                   malloc_initialized /\ (needs[t] # "init" => base_pool_initialized)
              /\ pc[t] = "spin" =>
                   malloc_initialized \/ pc[malloc_initializer] = "atfork"
         /\ base_pool_initialized => narenas
    /\ \A t \in BootThreads :
         pc[t] \in {"out", "ready", "error"} => pool_base_lock # t
=============================================================================
