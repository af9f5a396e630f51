------------------------------- MODULE Vmmalloc -------------------------------
(***************************************************************************)
(* libvmmalloc: the pool behind malloc in a program that preloads the      *)
(* library, through loading, fork and exit (libvmmalloc.c).                *)
(*                                                                         *)
(* The memory of a pool is one word, enough to tell whose it is: a process *)
(* writes its own name there and keeps a note of it in ordinary memory,    *)
(* which fork copies.  A mapping is of a file, shared or private; a        *)
(* private one shows the file until its first write.                       *)
(***************************************************************************)
EXTENDS Naturals, FiniteSets

CONSTANTS
    Procs,          \* process identifiers, each used at most once
    First,          \* the process the user starts
    None,
    Forkopts,       \* values of VMMALLOC_FORK that are tried
    Paths,          \* what VMMALLOC_POOL_DIR names at the start: "file", "dir"
    Replaces        \* how often the path may be replaced (bound)

VARIABLES
    proc,           \* the processes
    file,           \* the word in the pool file and in each clone
    path,           \* what Dir names
    forkopt,        \* Forkopt of the program and all its children
    replaces        \* how often it changed

vars == <<proc, file, path, forkopt, replaces>>

Fresh == "fresh"                \* what je_vmem_pool_create leaves in the pool
Pool == <<"pool", None>>
Clone(q) == <<"clone", q>>      \* the copy made for the child q

\* st: none, loading, up, prefork (handlers done, fork not yet), parent, child
\* (forked, handler not yet), exiting, gone, aborted, crashed.  raced: there was a
\* store since the pool was copied; late: the process began with such an old copy.
Dead == [st |-> "none", private |-> FALSE, fd |-> None, fd_clone |-> None,
         map |-> None, copy |-> None, note |-> None, kid |-> None,
         late |-> FALSE, raced |-> FALSE]

Init ==
    /\ proc = [p \in Procs |-> IF p = First THEN [Dead EXCEPT !.st = "loading"] ELSE Dead]
    /\ file = [f \in {Pool} \cup {Clone(p) : p \in Procs} |-> None]
    /\ path \in Paths
    /\ forkopt \in Forkopts
    /\ replaces = 0

Set(p, r) == proc' = [proc EXCEPT ![p] = r]
At(p, st) == proc[p].st = st

\* An identifier for the next child.
Unused(q) == At(q, "none") /\ \A p \in Procs : proc[p].kid # q

\* What the process reads in its pool.
Word(p) == IF proc[p].private /\ proc[p].copy # None THEN proc[p].copy
           ELSE file[proc[p].map]

-----------------------------------------------------------------------------
(* Loading and leaving.                                                    *)

\* libvmmalloc_create: Dir is opened as it is.  What a failed open or mmap leaves
\* is only logged, and the header is written through the bad address.
libvmmalloc_create(p) ==
    IF path = "file"
    THEN /\ Set(p, [proc[p] EXCEPT !.st = "up", !.fd = Pool, !.map = Pool, !.note = Fresh])
         /\ file' = [file EXCEPT ![Pool] = Fresh]
    ELSE /\ Set(p, [proc[p] EXCEPT !.st = "crashed"])
         /\ UNCHANGED file

\* The constructor; a bad environment or a pool that cannot be made aborts.
libvmmalloc_init(p) ==
    /\ At(p, "loading")
    /\ \/ libvmmalloc_create(p)
       \/ Set(p, [proc[p] EXCEPT !.st = "aborted"]) /\ UNCHANGED file
    /\ UNCHANGED <<path, forkopt, replaces>>

\* The destructor: from here on malloc returns NULL and free does nothing.
libvmmalloc_fini(p) ==
    /\ At(p, "up")
    /\ Set(p, [proc[p] EXCEPT !.st = "exiting"])
    /\ UNCHANGED <<file, path, forkopt, replaces>>

Gone(p) ==
    /\ At(p, "exiting")
    /\ Set(p, [Dead EXCEPT !.st = "gone"])
    /\ UNCHANGED <<file, path, forkopt, replaces>>

\* Which heap serves malloc, calloc, realloc, memalign, ...: the base pool until
\* the pool exists, none once the library is gone.
Heap(p) ==
    CASE proc[p].st = "loading" -> <<"base", None>>
      [] proc[p].st = "exiting" -> None
      [] OTHER -> proc[p].map

\* A store into allocated memory, by any thread: also while a fork is under way.
\* The note is made in the same step.
Store(p) ==
    /\ proc[p].st \in {"up", "prefork", "parent"}
    /\ Heap(p) \in DOMAIN file
    /\ IF proc[p].private
       THEN /\ Set(p, [proc[p] EXCEPT !.copy = p, !.note = p, !.late = FALSE])
            /\ UNCHANGED file
       ELSE /\ Set(p, [proc[p] EXCEPT !.note = p, !.late = FALSE,
                           !.raced = At(p, "prefork") /\ proc[p].fd_clone # None])
            /\ file' = [file EXCEPT ![proc[p].map] = p]
    /\ UNCHANGED <<path, forkopt, replaces>>

-----------------------------------------------------------------------------
(* fork.  jemalloc's handler has stopped the allocator of all threads, not *)
(* the threads.                                                            *)

remap_as_private(p) == [proc[p] EXCEPT !.private = TRUE, !.copy = None]

\* libvmmalloc_clone makes a temporary file in Dir, so Dir has to be a directory.
libvmmalloc_clone(p, q) ==
    [proc[p] EXCEPT !.fd_clone = Clone(q)]

\* Mistake: a pool that is private already is treated like the first time.
prefork_ignores_private(p, q) ==
    /\ At(p, "up") /\ Unused(q)
    /\ IF forkopt >= 2 /\ path = "dir"
       THEN /\ Set(p, [libvmmalloc_clone(p, q) EXCEPT !.st = "prefork", !.kid = q])
            /\ file' = [file EXCEPT ![Clone(q)] = Word(p)]
       ELSE /\ Set(p, [(IF forkopt = 0 THEN proc[p] ELSE remap_as_private(p))
                         EXCEPT !.st = "prefork", !.kid = q])
            /\ UNCHANGED file
    /\ UNCHANGED <<path, forkopt, replaces>>

\* The fork handler: nothing, a private mapping, or a copy of the whole pool; a copy
\* that fails becomes a private mapping (3) or an abort (2).
libvmmalloc_prefork(p, q) ==
    /\ At(p, "up") /\ Unused(q)
    /\ LET go(r) == Set(p, [r EXCEPT !.st = "prefork", !.kid = q])
       IN  \/ /\ proc[p].private \/ forkopt = 0
              /\ go(proc[p]) /\ UNCHANGED file
           \/ /\ ~proc[p].private /\ forkopt >= 2 /\ path = "dir"
              /\ go(libvmmalloc_clone(p, q))
              /\ file' = [file EXCEPT ![Clone(q)] = Word(p)]
           \/ /\ ~proc[p].private /\ forkopt \in {1, 3}
              /\ go(remap_as_private(p)) /\ UNCHANGED file
           \/ /\ ~proc[p].private /\ forkopt # 0
              /\ Set(p, [proc[p] EXCEPT !.st = "aborted"]) /\ UNCHANGED file
    /\ UNCHANGED <<path, forkopt, replaces>>

\* fork itself: the child has the parent's memory, mappings and descriptors.
fork(p) ==
    LET q == proc[p].kid
    IN  /\ At(p, "prefork")
        /\ proc' = [proc EXCEPT
               ![p] = [@ EXCEPT !.st = "parent", !.kid = None, !.raced = FALSE],
               ![q] = [proc[p] EXCEPT !.st = "child", !.kid = None, !.raced = FALSE,
                                      !.late = @ \/ proc[p].raced]]
        /\ UNCHANGED <<file, path, forkopt, replaces>>

\* Mistake: the descriptor of the copy stays open in the parent.
postfork_parent_keeps(p) ==
    /\ At(p, "parent")
    /\ Set(p, [proc[p] EXCEPT !.st = "up"])
    /\ UNCHANGED <<file, path, forkopt, replaces>>

libvmmalloc_postfork_parent(p) ==
    /\ At(p, "parent")
    /\ Set(p, [proc[p] EXCEPT !.st = "up",
                   !.fd_clone = IF forkopt = 0 \/ proc[p].private THEN @ ELSE None])
    /\ UNCHANGED <<file, path, forkopt, replaces>>

\* Mistake: the child goes on with the parent's file.
postfork_child_same_file(p) ==
    /\ At(p, "child")
    /\ Set(p, [proc[p] EXCEPT !.st = "up", !.fd_clone = None])
    /\ UNCHANGED <<file, path, forkopt, replaces>>

\* The child maps its copy where the pool was, or aborts.
libvmmalloc_postfork_child(p) ==
    /\ At(p, "child")
    /\ \/ /\ forkopt = 0 \/ proc[p].private
          /\ Set(p, [proc[p] EXCEPT !.st = "up"])
       \/ /\ forkopt # 0 /\ ~proc[p].private
          /\ \/ Set(p, [proc[p] EXCEPT !.st = "up", !.fd = proc[p].fd_clone,
                                      !.map = proc[p].fd_clone, !.fd_clone = None])
             \/ Set(p, [proc[p] EXCEPT !.st = "aborted"])
    /\ UNCHANGED <<file, path, forkopt, replaces>>

\* Somebody replaces what the path names.
Replace ==
    /\ replaces < Replaces
    /\ replaces' = replaces + 1
    /\ path' \in {"file", "dir"} \ {path}
    /\ UNCHANGED <<proc, file, forkopt>>

Next ==
    \/ \E p \in Procs :
          \/ libvmmalloc_init(p) \/ libvmmalloc_fini(p) \/ Gone(p) \/ Store(p)
          \/ fork(p) \/ libvmmalloc_postfork_parent(p) \/ libvmmalloc_postfork_child(p)
          \/ \E q \in Procs : libvmmalloc_prefork(p, q)
    \/ Replace

Spec == Init /\ [][Next]_vars

-----------------------------------------------------------------------------
(* Properties.                                                             *)

Running(p) == proc[p].st \in {"up", "prefork", "parent"}

\* What a process wrote in its pool, or had there when it was forked, is there: the
\* assertions of test/vmmalloc_fork on the buffers of parent and child.  Except for
\* a child whose parent wrote between the copying of the pool and the fork: the
\* handlers stop the allocator, not the other threads' stores, so such a child has
\* the parent's notes and an older pool.
KeptButForLateStores ==
    forkopt # 0 =>
        \A p \in Procs : Running(p) /\ ~proc[p].late => Word(p) = proc[p].note

\* No two programs write to one file, unless fork support is switched off: whatever
\* the order of handlers, stores, failed copies and further forks.
OneWriter ==
    forkopt # 0 =>
        \A p, q \in Procs :
            /\ p # q /\ Running(p) /\ Running(q)
            /\ proc[p].map = proc[q].map
            => proc[p].private /\ proc[q].private

\* Between forks a process has one descriptor, that of the file it has mapped: the
\* copy's is closed on every path (parent, child, failed copy, private pool).
NoStrayDescriptor ==
    \A p \in Procs : At(p, "up") => proc[p].fd = proc[p].map /\ proc[p].fd_clone = None

=============================================================================
