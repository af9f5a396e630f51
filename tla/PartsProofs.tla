----------------------------- MODULE PartsProofs -----------------------------
(***************************************************************************)
(* What Parts says of libvmmalloc, libvmem, the start of the allocator,    *)
(* postmark and the Windows emulation of mmap, of which one runs, for any  *)
(* processes, files, sizes, pages and threads.                             *)
(***************************************************************************)
EXTENDS Parts, FiniteSetTheorems, WellFoundedInduction, SequenceTheorems, TLAPS

-----------------------------------------------------------------------------
(* libvmmalloc.                                                            *)

\* The inductive invariant.

Files == {V!Pool} \cup {V!Clone(p) : p \in Procs}
\* Identifiers are not the word of a new pool, nothing is named like None, and
\* VMMALLOC_FORK is one of the numbers that libvmmalloc_init accepts.
VmmConstants ==
    /\ First \in Procs /\ V!Fresh \notin Procs /\ None \notin Procs \cup Files \cup {V!Fresh}
    /\ Forkopts \subseteq 0 .. 3

Words == Procs \cup {None, V!Fresh}
VmmStates == {"none", "loading", "up", "prefork", "parent", "child", "exiting", "gone",
           "aborted", "crashed"}
Records == [st : VmmStates, private : BOOLEAN, fd : Files \cup {None},
            fd_clone : Files \cup {None}, map : Files \cup {None}, copy : Words,
            note : Words, kid : Procs \cup {None}, late : BOOLEAN, raced : BOOLEAN]

VmmTypeOK ==
    /\ proc \in [Procs -> Records]
    /\ file \in [Files -> Words]
    /\ forkopt \in 0 .. 3

\* The first process loads alone, and an identifier is promised to one child.
Loading == \A p, q \in Procs : V!At(p, "loading") /\ p # q => V!At(q, "none")

Promised ==
    \A p \in Procs :
        /\ proc[p].kid # None => V!At(p, "prefork") /\ V!At(proc[p].kid, "none")
        /\ V!At(p, "prefork") => proc[p].kid # None
        /\ \A q \in Procs : proc[p].kid # None /\ proc[p].kid = proc[q].kid => p = q

Forked(p) == proc[p].st \in {"up", "prefork", "parent", "child"}

\* A descriptor of a copy is held between the handlers only, by a program that shares
\* nothing: it is that of the child's file.
Descriptors ==
    \A p \in Procs :
        /\ Forked(p) => proc[p].fd = proc[p].map /\ proc[p].map # None
        /\ V!At(p, "loading") => ~proc[p].private
        /\ V!At(p, "loading") \/ V!At(p, "up") => proc[p].fd_clone = None
        /\ Forked(p) /\ (proc[p].private \/ forkopt = 0) => proc[p].fd_clone = None
        /\ forkopt # 0 /\ ~proc[p].private =>
             /\ V!At(p, "prefork") => proc[p].fd_clone = V!Clone(proc[p].kid)
             /\ V!At(p, "child") => proc[p].fd_clone = V!Clone(p)

\* A child that has not yet mapped its own copy.
Waits(p) == V!At(p, "child") /\ ~proc[p].private

\* Nobody maps the file of a child before the child does.
Owned ==
    forkopt # 0 =>
        \A p, q \in Procs :
            Forked(p) /\ proc[p].map = V!Clone(q) => ~V!At(q, "none") /\ ~Waits(q)

\* One writer, the children that will not change their mapping included.
Apart ==
    forkopt # 0 =>
        \A p, q \in Procs :
            /\ p # q /\ Forked(p) /\ Forked(q) /\ ~Waits(p) /\ ~Waits(q)
            /\ proc[p].map = proc[q].map
            => proc[p].private /\ proc[q].private

\* The word of a process is in its pool, and that of a child in its copy.
Kept ==
    forkopt # 0 =>
        \A p \in Procs :
            /\ Forked(p) /\ ~Waits(p) /\ ~proc[p].late => V!Word(p) = proc[p].note
            /\ V!At(p, "prefork") /\ ~proc[p].private /\ ~proc[p].late /\ ~proc[p].raced =>
                 file[V!Clone(proc[p].kid)] = proc[p].note
            /\ Waits(p) /\ ~proc[p].late => file[V!Clone(p)] = proc[p].note

VmmInv == VmmTypeOK /\ Loading /\ Promised /\ Descriptors /\ Owned /\ Apart /\ Kept

-----------------------------------------------------------------------------
\* Updates.

LEMMA VmmUpdate ==
    ASSUME VmmTypeOK, NEW p \in Procs, NEW r, V!Set(p, r)
    PROVE  /\ proc'[p] = r
           /\ \A q \in Procs : q # p => proc'[q] = proc[q]
           /\ r \in Records => proc' \in [Procs -> Records]
BY DEF V!Set, VmmTypeOK

\* The fields of a process that is not concerned.
LEMMA VmmFields ==
    ASSUME NEW r \in Records
    PROVE  /\ r.st \in VmmStates /\ r.private \in BOOLEAN /\ r.fd \in Files \cup {None}
           /\ r.fd_clone \in Files \cup {None} /\ r.map \in Files \cup {None}
           /\ r.copy \in Words /\ r.note \in Words /\ r.kid \in Procs \cup {None}
           /\ r.late \in BOOLEAN /\ r.raced \in BOOLEAN
BY DEF Records

LEMMA FileNames ==
    /\ V!Pool \in Files /\ \A q \in Procs : V!Clone(q) \in Files /\ V!Clone(q) # V!Pool
    /\ \A q, r : V!Clone(q) = V!Clone(r) => q = r
    /\ VmmConstants => \A f \in Files : f # None
BY DEF Files, V!Pool, V!Clone, VmmConstants

-----------------------------------------------------------------------------
\* Steps that keep the invariant, by what they change.

LEMMA VmmIdle ==
    ASSUME VmmInv, UNCHANGED <<proc, file, forkopt>>
    PROVE  VmmInv'
BY DEF VmmInv, VmmTypeOK, Loading, Promised, Descriptors, Owned, Apart, Kept, V!At,
   Forked, Waits, V!Word

\* A process leaves: it exits, aborts or crashes.
LEMMA Leaves ==
    ASSUME VmmInv, NEW p \in Procs, UNCHANGED <<file, forkopt>>,
           proc' \in [Procs -> Records],
           \A q \in Procs : q # p => proc'[q] = proc[q],
           proc'[p].st \in {"exiting", "gone", "aborted", "crashed"}, proc'[p].kid = None,
           proc[p].st # "none"
    PROVE  VmmInv'
<1>0. \A q \in Procs : proc[q].kid \in Procs \cup {None}
  BY VmmFields DEF VmmInv, VmmTypeOK
<1>1. VmmTypeOK'
  BY DEF VmmInv, VmmTypeOK
<1>2. Loading'
  BY DEF VmmInv, Loading, V!At
<1>3. Promised'
  BY <1>0 DEF VmmInv, Promised, V!At
<1>4. Descriptors'
  BY DEF VmmInv, Descriptors, V!At, Forked
<1>5. Owned'
  BY DEF VmmInv, Owned, V!At, Forked, Waits
<1>6. Apart'
  BY DEF VmmInv, Apart, V!At, Forked, Waits
<1>7. Kept'
  BY DEF VmmInv, Kept, V!At, Forked, Waits, V!Word
<1> QED
  BY <1>1, <1>2, <1>3, <1>4, <1>5, <1>6, <1>7 DEF VmmInv

\* The library makes the pool while the first process is alone.
LEMMA Creates ==
    ASSUME VmmConstants, VmmInv, NEW p \in Procs, forkopt' = forkopt, V!At(p, "loading"),
           proc' \in [Procs -> Records], file' = [file EXCEPT ![V!Pool] = V!Fresh],
           \A q \in Procs : q # p => proc'[q] = proc[q],
           proc'[p].st = "up", proc'[p].fd = V!Pool, proc'[p].map = V!Pool,
           proc'[p].fd_clone = proc[p].fd_clone, proc'[p].note = V!Fresh,
           ~proc'[p].private, proc'[p].kid = proc[p].kid
    PROVE  VmmInv'
<1>0. \A q \in Procs : q # p => proc[q].st = "none" /\ proc[q].kid = None
  BY DEF VmmInv, Loading, Promised, V!At
<1>1. VmmTypeOK'
  BY FileNames DEF VmmInv, VmmTypeOK, Words
<1>2. Loading'
  BY <1>0 DEF VmmInv, Loading, V!At
<1>3. Promised'
  BY <1>0 DEF VmmInv, Promised, V!At
<1>4. Descriptors'
  BY <1>0, FileNames DEF VmmInv, Descriptors, V!At, Forked
<1>5. Owned'
  BY <1>0, FileNames DEF VmmInv, Owned, V!At, Forked, Waits
<1>6. Apart'
  BY <1>0 DEF VmmInv, Apart, V!At, Forked, Waits
<1>7. Kept'
  <2>1. file'[V!Pool] = V!Fresh
    BY FileNames DEF VmmInv, VmmTypeOK
  <2>2. V!Word(p)' = V!Fresh
    BY <2>1 DEF V!Word
  <2> QED
    BY <1>0, <2>2 DEF Kept, V!At, Forked, Waits
<1> QED
  BY <1>1, <1>2, <1>3, <1>4, <1>5, <1>6, <1>7 DEF VmmInv

\* A store in a private pool.
LEMMA StoresPrivately ==
    ASSUME VmmConstants, VmmInv, NEW p \in Procs, UNCHANGED <<file, forkopt>>,
           proc[p].st \in {"up", "prefork", "parent"}, proc[p].private,
           proc' \in [Procs -> Records],
           \A q \in Procs : q # p => proc'[q] = proc[q],
           proc'[p].st = proc[p].st, proc'[p].private,
           proc'[p].fd = proc[p].fd, proc'[p].map = proc[p].map,
           proc'[p].fd_clone = proc[p].fd_clone, proc'[p].kid = proc[p].kid,
           proc'[p].copy = p, proc'[p].note = p
    PROVE  VmmInv'
<1>0. \A q \in Procs : proc[q].kid \in Procs \cup {None}
  BY VmmFields DEF VmmInv, VmmTypeOK
<1>1. VmmTypeOK'
  BY DEF VmmInv, VmmTypeOK
<1>2. Loading'
  BY DEF VmmInv, Loading, V!At
<1>3. Promised'
  BY <1>0 DEF VmmInv, Promised, V!At
<1>4. Descriptors'
  BY DEF VmmInv, Descriptors, V!At, Forked
<1>5. Owned'
  BY DEF VmmInv, Owned, V!At, Forked, Waits
<1>6. Apart'
  BY DEF VmmInv, Apart, V!At, Forked, Waits
<1>7. Kept'
  <2>1. V!Word(p)' = p
    BY DEF V!Word, VmmConstants
  <2>2. \A q \in Procs : q # p => V!Word(q)' = V!Word(q)
    BY DEF V!Word
  <2> QED
    BY <2>1, <2>2 DEF VmmInv, Kept, V!At, Forked, Waits
<1> QED
  BY <1>1, <1>2, <1>3, <1>4, <1>5, <1>6, <1>7 DEF VmmInv

\* A store in the file: nobody else reads it, nor is it a copy that a child waits for.
LEMMA StoresInFile ==
    ASSUME VmmConstants, VmmInv, NEW p \in Procs, forkopt' = forkopt,
           proc[p].st \in {"up", "prefork", "parent"}, ~proc[p].private,
           file' = [file EXCEPT ![proc[p].map] = p],
           proc' \in [Procs -> Records],
           \A q \in Procs : q # p => proc'[q] = proc[q],
           proc'[p].st = proc[p].st, ~proc'[p].private,
           proc'[p].fd = proc[p].fd, proc'[p].map = proc[p].map,
           proc'[p].fd_clone = proc[p].fd_clone, proc'[p].kid = proc[p].kid,
           proc'[p].note = p,
           proc'[p].raced <=> V!At(p, "prefork") /\ proc[p].fd_clone # None
    PROVE  VmmInv'
<1>0. /\ proc[p].map \in Files
      /\ \A q \in Procs : proc[q].map \in Files \cup {None} /\ proc[q].kid \in Procs \cup {None}
  BY VmmFields DEF VmmInv, VmmTypeOK, Descriptors, Forked
<1>1. VmmTypeOK'
  BY <1>0 DEF VmmInv, VmmTypeOK, Words
<1>2. Loading'
  BY DEF VmmInv, Loading, V!At
<1>3. Promised'
  BY <1>0 DEF VmmInv, Promised, V!At
<1>4. Descriptors'
  BY DEF VmmInv, Descriptors, V!At, Forked
<1>5. Owned'
  BY DEF VmmInv, Owned, V!At, Forked, Waits
<1>6. Apart'
  BY DEF VmmInv, Apart, V!At, Forked, Waits
<1>7. Kept'
  <2> SUFFICES ASSUME forkopt # 0 PROVE Kept'
    BY DEF Kept
  <2>1. /\ \A f \in Files : f # proc[p].map => file'[f] = file[f]
        /\ file'[proc[p].map] = p
    BY <1>0 DEF VmmInv, VmmTypeOK
  <2>2. V!Word(p)' = p
    BY <2>1 DEF V!Word
  <2>3. ASSUME NEW q \in Procs, q # p
        PROVE  /\ Forked(q) /\ ~Waits(q) /\ ~proc[q].late => V!Word(q)' = proc[q].note
               /\ V!At(q, "prefork") /\ ~proc[q].private /\ ~proc[q].late /\ ~proc[q].raced =>
                    file'[V!Clone(proc[q].kid)] = proc[q].note
               /\ Waits(q) /\ ~proc[q].late => file'[V!Clone(q)] = proc[q].note
    <3>1. ASSUME Forked(q), ~Waits(q), ~proc[q].late PROVE V!Word(q)' = proc[q].note
      <4>1. proc[q].map # proc[p].map
        BY <2>3, <3>1 DEF VmmInv, Apart, Forked, Waits, V!At
      <4>2. proc[q].map \in Files
        BY <1>0, <3>1 DEF VmmInv, Descriptors
      <4>3. V!Word(q)' = V!Word(q)
        BY <2>1, <2>3, <4>1, <4>2 DEF V!Word
      <4> QED
        BY <3>1, <4>3 DEF VmmInv, Kept
    <3>2. ASSUME V!At(q, "prefork"), ~proc[q].private, ~proc[q].late, ~proc[q].raced
          PROVE  file'[V!Clone(proc[q].kid)] = proc[q].note
      <4>1. proc[q].kid \in Procs /\ V!At(proc[q].kid, "none")
        BY <1>0, <3>2 DEF VmmInv, Promised
      <4>2. proc[p].map # V!Clone(proc[q].kid)
        BY <4>1 DEF VmmInv, Owned, Forked
      <4>3. file[V!Clone(proc[q].kid)] = proc[q].note
        BY <3>2 DEF VmmInv, Kept
      <4> QED
        BY <2>1, <4>1, <4>2, <4>3, FileNames
    <3>3. ASSUME Waits(q), ~proc[q].late PROVE file'[V!Clone(q)] = proc[q].note
      <4>1. proc[p].map # V!Clone(q)
        BY <3>3 DEF VmmInv, Owned, Forked
      <4>2. file[V!Clone(q)] = proc[q].note
        BY <3>3 DEF VmmInv, Kept
      <4> QED
        BY <2>1, <4>1, <4>2, FileNames
    <3> QED
      BY <3>1, <3>2, <3>3
  <2>4. V!At(p, "prefork") => proc'[p].raced
    <3>1. V!At(p, "prefork") => proc[p].fd_clone = V!Clone(proc[p].kid) /\ proc[p].kid \in Procs
      BY <1>0 DEF VmmInv, Descriptors, Promised
    <3> QED
      BY <3>1, FileNames
  <2> QED
    BY <2>2, <2>3, <2>4 DEF Kept, V!At, Forked, Waits
<1> QED
  BY <1>1, <1>2, <1>3, <1>4, <1>5, <1>6, <1>7 DEF VmmInv

\* The handler of a process that has nothing to copy.
LEMMA ForksAsItIs ==
    ASSUME VmmConstants, VmmInv, NEW p \in Procs, NEW q \in Procs, UNCHANGED <<file, forkopt>>,
           V!At(p, "up"), V!Unused(q), proc[p].private \/ forkopt = 0,
           proc' \in [Procs -> Records],
           \A r \in Procs : r # p => proc'[r] = proc[r],
           proc'[p].st = "prefork", proc'[p].kid = q,
           proc'[p].private <=> proc[p].private,
           proc'[p].fd = proc[p].fd, proc'[p].map = proc[p].map,
           proc'[p].fd_clone = proc[p].fd_clone, proc'[p].copy = proc[p].copy,
           proc'[p].note = proc[p].note, proc'[p].late <=> proc[p].late
    PROVE  VmmInv'
<1>0. /\ \A r \in Procs : proc[r].kid \in Procs \cup {None} /\ proc[r].kid # q
      /\ proc[q].st = "none" /\ q # p /\ q # None
  BY VmmFields DEF VmmInv, VmmTypeOK, V!Unused, V!At, VmmConstants
<1>1. VmmTypeOK'
  BY DEF VmmInv, VmmTypeOK
<1>2. Loading'
  BY DEF VmmInv, Loading, V!At
<1>3. Promised'
  BY <1>0 DEF VmmInv, Promised, V!At
<1>4. Descriptors'
  BY DEF VmmInv, Descriptors, V!At, Forked
<1>5. Owned'
  BY DEF VmmInv, Owned, V!At, Forked, Waits
<1>6. Apart'
  BY DEF VmmInv, Apart, V!At, Forked, Waits
<1>7. Kept'
  <2>1. \A r \in Procs : V!Word(r)' = V!Word(r)
    BY DEF V!Word
  <2> QED
    BY <2>1 DEF VmmInv, Kept, V!At, Forked, Waits
<1> QED
  BY <1>1, <1>2, <1>3, <1>4, <1>5, <1>6, <1>7 DEF VmmInv

\* The handler of a process that makes its pool private: it was the only one to have it.
LEMMA ForksPrivately ==
    ASSUME VmmConstants, VmmInv, NEW p \in Procs, NEW q \in Procs, UNCHANGED <<file, forkopt>>,
           V!At(p, "up"), V!Unused(q), ~proc[p].private, forkopt # 0,
           proc' \in [Procs -> Records],
           \A r \in Procs : r # p => proc'[r] = proc[r],
           proc'[p].st = "prefork", proc'[p].kid = q,
           proc'[p].private, proc'[p].copy = None,
           proc'[p].fd = proc[p].fd, proc'[p].map = proc[p].map,
           proc'[p].fd_clone = proc[p].fd_clone,
           proc'[p].note = proc[p].note, proc'[p].late <=> proc[p].late
    PROVE  VmmInv'
<1>0. /\ \A r \in Procs : proc[r].kid \in Procs \cup {None} /\ proc[r].kid # q
      /\ proc[q].st = "none" /\ q # p /\ q # None
  BY VmmFields DEF VmmInv, VmmTypeOK, V!Unused, V!At, VmmConstants
<1>1. VmmTypeOK'
  BY DEF VmmInv, VmmTypeOK
<1>2. Loading'
  BY DEF VmmInv, Loading, V!At
<1>3. Promised'
  BY <1>0 DEF VmmInv, Promised, V!At
<1>4. Descriptors'
  BY DEF VmmInv, Descriptors, V!At, Forked
<1>5. Owned'
  BY DEF VmmInv, Owned, V!At, Forked, Waits
<1>6. Apart'
  BY DEF VmmInv, Apart, V!At, Forked, Waits
<1>7. Kept'
  <2>1. \A r \in Procs : V!Word(r)' = V!Word(r)
    BY DEF V!Word
  <2> QED
    BY <2>1 DEF VmmInv, Kept, V!At, Forked, Waits
<1> QED
  BY <1>1, <1>2, <1>3, <1>4, <1>5, <1>6, <1>7 DEF VmmInv

\* The handler of a process that copies its pool for the child.
LEMMA ForksWithCopy ==
    ASSUME VmmConstants, VmmInv, NEW p \in Procs, NEW q \in Procs, forkopt' = forkopt,
           V!At(p, "up"), V!Unused(q), ~proc[p].private, forkopt # 0,
           file' = [file EXCEPT ![V!Clone(q)] = V!Word(p)],
           proc' \in [Procs -> Records],
           \A r \in Procs : r # p => proc'[r] = proc[r],
           proc'[p].st = "prefork", proc'[p].kid = q,
           ~proc'[p].private, proc'[p].fd_clone = V!Clone(q),
           proc'[p].fd = proc[p].fd, proc'[p].map = proc[p].map,
           proc'[p].note = proc[p].note, proc'[p].late <=> proc[p].late
    PROVE  VmmInv'
<1>0. /\ \A r \in Procs : proc[r].kid \in Procs \cup {None} /\ proc[r].kid # q
      /\ \A r \in Procs : proc[r].map \in Files \cup {None}
      /\ proc[q].st = "none" /\ q # p /\ q # None /\ proc[p].map \in Files
  BY VmmFields DEF VmmInv, VmmTypeOK, V!Unused, V!At, VmmConstants, Descriptors, Forked
<1>1. VmmTypeOK'
  <2>1. V!Word(p) \in Words
    BY <1>0 DEF VmmInv, VmmTypeOK, V!Word
  <2> QED
    BY <2>1 DEF VmmInv, VmmTypeOK
<1>2. Loading'
  BY DEF VmmInv, Loading, V!At
<1>3. Promised'
  BY <1>0 DEF VmmInv, Promised, V!At
<1>4. Descriptors'
  BY DEF VmmInv, Descriptors, V!At, Forked
<1>5. Owned'
  BY DEF VmmInv, Owned, V!At, Forked, Waits
<1>6. Apart'
  BY DEF VmmInv, Apart, V!At, Forked, Waits
<1>7. Kept'
  <2>1. /\ \A f \in Files : f # V!Clone(q) => file'[f] = file[f]
        /\ file'[V!Clone(q)] = V!Word(p)
    BY FileNames DEF VmmInv, VmmTypeOK
  <2>2. \A r \in Procs : Forked(r) => proc[r].map \in Files /\ proc[r].map # V!Clone(q)
    BY <1>0 DEF VmmInv, Owned, Descriptors, V!At
  <2>3. \A r \in Procs : Forked(r) => V!Word(r)' = V!Word(r)
    BY <2>1, <2>2 DEF V!Word
  <2>4. \A r \in Procs : proc[r].kid \in Procs => file'[V!Clone(proc[r].kid)] = file[V!Clone(proc[r].kid)]
    BY <1>0, <2>1, FileNames
  <2>5. \A r \in Procs : Waits(r) => file'[V!Clone(r)] = file[V!Clone(r)]
    BY <1>0, <2>1, FileNames DEF Waits, V!At
  <2>6. ASSUME NEW r \in Procs, r # p
        PROVE  /\ Forked(r) /\ ~Waits(r) /\ ~proc[r].late => V!Word(r)' = proc[r].note
               /\ V!At(r, "prefork") /\ ~proc[r].private /\ ~proc[r].late /\ ~proc[r].raced =>
                    file'[V!Clone(proc[r].kid)] = proc[r].note
               /\ Waits(r) /\ ~proc[r].late => file'[V!Clone(r)] = proc[r].note
    <3>1. V!At(r, "prefork") => proc[r].kid \in Procs
      BY <1>0 DEF VmmInv, Promised
    <3> QED
      BY <2>3, <2>4, <2>5, <3>1 DEF VmmInv, Kept
  <2>7. ~proc[p].late => V!Word(p) = proc[p].note /\ V!Word(p)' = proc[p].note
    BY <2>3 DEF VmmInv, Kept, Forked, Waits, V!At
  <2> QED
    BY <2>1, <2>6, <2>7 DEF Kept, V!At, Forked, Waits
<1> QED
  BY <1>1, <1>2, <1>3, <1>4, <1>5, <1>6, <1>7 DEF VmmInv

\* fork: the child has what the parent has.
LEMMA Forks ==
    ASSUME VmmConstants, VmmInv, NEW p \in Procs, NEW q \in Procs, UNCHANGED <<file, forkopt>>,
           V!At(p, "prefork"), proc[p].kid = q,
           proc' \in [Procs -> Records],
           \A r \in Procs : r # p /\ r # q => proc'[r] = proc[r],
           proc'[p].st = "parent", proc'[q].st = "child",
           \A r \in {p, q} :
              /\ proc'[r].kid = None
              /\ proc'[r].private <=> proc[p].private
              /\ proc'[r].fd = proc[p].fd /\ proc'[r].map = proc[p].map
              /\ proc'[r].fd_clone = proc[p].fd_clone /\ proc'[r].copy = proc[p].copy
              /\ proc'[r].note = proc[p].note,
           proc'[p].late <=> proc[p].late,
           proc'[q].late <=> proc[p].late \/ proc[p].raced
    PROVE  VmmInv'
<1>0. /\ \A r \in Procs : proc[r].kid \in Procs \cup {None}
      /\ \A r \in Procs : r # p => proc[r].kid # q
      /\ proc[q].st = "none" /\ q # p /\ q # None
  BY VmmFields DEF VmmInv, VmmTypeOK, Promised, V!At, VmmConstants
<1>1. VmmTypeOK'
  BY DEF VmmInv, VmmTypeOK
<1>2. Loading'
  BY <1>0 DEF VmmInv, Loading, V!At
<1>3. Promised'
  BY <1>0 DEF VmmInv, Promised, V!At
<1>4. Descriptors'
  BY <1>0 DEF VmmInv, Descriptors, V!At, Forked
<1>5. Owned'
  BY <1>0 DEF VmmInv, Owned, V!At, Forked, Waits
<1>6. Apart'
  BY <1>0 DEF VmmInv, Apart, V!At, Forked, Waits
<1>7. Kept'
  <2>1. \A r \in Procs : r # q => V!Word(r)' = V!Word(r)
    BY DEF V!Word
  <2>2. V!Word(q)' = V!Word(p)
    BY DEF V!Word
  <2> QED
    BY <1>0, <2>1, <2>2 DEF VmmInv, Kept, V!At, Forked, Waits
<1> QED
  BY <1>1, <1>2, <1>3, <1>4, <1>5, <1>6, <1>7 DEF VmmInv

\* The handlers after the fork that leave the mapping.
LEMMA ReturnsFromFork ==
    ASSUME VmmConstants, VmmInv, NEW p \in Procs, UNCHANGED <<file, forkopt>>,
           V!At(p, "parent") \/ (V!At(p, "child") /\ (proc[p].private \/ forkopt = 0)),
           proc' \in [Procs -> Records],
           \A r \in Procs : r # p => proc'[r] = proc[r],
           proc'[p].st = "up", proc'[p].fd_clone = None,
           proc'[p].private <=> proc[p].private,
           proc'[p].fd = proc[p].fd, proc'[p].map = proc[p].map,
           proc'[p].copy = proc[p].copy, proc'[p].kid = proc[p].kid,
           proc'[p].note = proc[p].note, proc'[p].late <=> proc[p].late
    PROVE  VmmInv'
<1>0. \A r \in Procs : proc[r].kid \in Procs \cup {None}
  BY VmmFields DEF VmmInv, VmmTypeOK
<1>1. VmmTypeOK'
  BY DEF VmmInv, VmmTypeOK
<1>2. Loading'
  BY DEF VmmInv, Loading, V!At
<1>3. Promised'
  BY <1>0 DEF VmmInv, Promised, V!At
<1>4. Descriptors'
  BY DEF VmmInv, Descriptors, V!At, Forked
<1>5. Owned'
  BY DEF VmmInv, Owned, V!At, Forked, Waits
<1>6. Apart'
  BY DEF VmmInv, Apart, V!At, Forked, Waits
<1>7. Kept'
  <2>1. \A r \in Procs : V!Word(r)' = V!Word(r)
    BY DEF V!Word
  <2> QED
    BY <2>1 DEF VmmInv, Kept, V!At, Forked, Waits
<1> QED
  BY <1>1, <1>2, <1>3, <1>4, <1>5, <1>6, <1>7 DEF VmmInv

\* The child maps its copy, which nobody has mapped.
LEMMA TakesCopy ==
    ASSUME VmmConstants, VmmInv, NEW p \in Procs, UNCHANGED <<file, forkopt>>,
           V!At(p, "child"), ~proc[p].private, forkopt # 0,
           proc' \in [Procs -> Records],
           \A r \in Procs : r # p => proc'[r] = proc[r],
           proc'[p].st = "up", proc'[p].fd_clone = None,
           ~proc'[p].private,
           proc'[p].fd = proc[p].fd_clone, proc'[p].map = proc[p].fd_clone,
           proc'[p].kid = proc[p].kid,
           proc'[p].note = proc[p].note, proc'[p].late <=> proc[p].late
    PROVE  VmmInv'
<1>0. /\ \A r \in Procs : proc[r].kid \in Procs \cup {None}
      /\ proc[p].fd_clone = V!Clone(p) /\ V!Clone(p) # None /\ Waits(p)
      /\ \A r \in Procs : Forked(r) => proc[r].map # V!Clone(p)
  BY VmmFields, FileNames DEF VmmInv, VmmTypeOK, Descriptors, Owned, Waits
<1>1. VmmTypeOK'
  BY DEF VmmInv, VmmTypeOK
<1>2. Loading'
  BY DEF VmmInv, Loading, V!At
<1>3. Promised'
  BY <1>0 DEF VmmInv, Promised, V!At
<1>4. Descriptors'
  BY <1>0 DEF VmmInv, Descriptors, V!At, Forked
<1>5. Owned'
  BY <1>0, FileNames DEF VmmInv, Owned, V!At, Forked, Waits
<1>6. Apart'
  BY <1>0 DEF VmmInv, Apart, V!At, Forked, Waits
<1>7. Kept'
  <2>1. \A r \in Procs : r # p => V!Word(r)' = V!Word(r)
    BY DEF V!Word
  <2>2. V!Word(p)' = file[V!Clone(p)]
    BY <1>0 DEF V!Word
  <2> QED
    BY <1>0, <2>1, <2>2 DEF VmmInv, Kept, V!At, Forked, Waits
<1> QED
  BY <1>1, <1>2, <1>3, <1>4, <1>5, <1>6, <1>7 DEF VmmInv

-----------------------------------------------------------------------------
\* The actions.

LEMMA VmmStep ==
    ASSUME VmmConstants, VmmInv, [V!Next]_(V!vars)
    PROVE  VmmInv'
<1>a. VmmTypeOK /\ \A r \in Procs : proc[r] \in Records
  BY DEF VmmInv, VmmTypeOK
<1>b. \A r \in Procs : proc[r].kid # None => V!At(r, "prefork")
  BY DEF VmmInv, Promised
\* A process that only changes its state, to one in which it is not running.
<1>c. ASSUME NEW p \in Procs, NEW x \in {"exiting", "aborted", "crashed"},
             V!Set(p, [proc[p] EXCEPT !.st = x]), proc[p].st \notin {"none", "prefork"},
             UNCHANGED <<file, forkopt>>
      PROVE  VmmInv'
  <2> DEFINE r == [proc[p] EXCEPT !.st = x]
  <2>1. r \in Records /\ r.st = x /\ r.kid = proc[p].kid
    BY <1>a, <1>c DEF Records, VmmStates
  <2> HIDE DEF r
  <2>2. V!Set(p, r)
    BY <1>c DEF r
  <2>3. proc[p].kid = None
    BY <1>b, <1>c DEF V!At
  <2>4. /\ proc'[p] = r /\ proc' \in [Procs -> Records]
        /\ \A q \in Procs : q # p => proc'[q] = proc[q]
    BY <1>a, <2>1, <2>2, VmmUpdate
  <2> QED
    BY <1>c, <2>1, <2>3, <2>4, Leaves
<1>1. ASSUME NEW p \in Procs, V!libvmmalloc_init(p) PROVE VmmInv'
  <2>1. V!At(p, "loading") /\ forkopt' = forkopt
    BY <1>1 DEF V!libvmmalloc_init
  <2>2. CASE path = "file" /\ V!libvmmalloc_create(p)
    <3> DEFINE r == [proc[p] EXCEPT !.st = "up", !.fd = V!Pool, !.map = V!Pool, !.note = V!Fresh]
    <3>1. /\ r \in Records /\ r.st = "up" /\ r.fd = V!Pool /\ r.map = V!Pool /\ r.note = V!Fresh
          /\ r.kid = proc[p].kid /\ r.fd_clone = proc[p].fd_clone
      BY <1>a, FileNames, ZenonT(60) DEF Records, VmmStates, Words
    <3>2. r.private = proc[p].private
      BY <1>a, Zenon DEF Records
    <3> HIDE DEF r
    <3>3. V!Set(p, r) /\ file' = [file EXCEPT ![V!Pool] = V!Fresh]
      BY <2>2 DEF V!libvmmalloc_create, r
    <3>4. /\ proc'[p] = r /\ proc' \in [Procs -> Records]
          /\ \A q \in Procs : q # p => proc'[q] = proc[q]
      BY <1>a, <3>1, <3>3, VmmUpdate
    <3>5. ~proc'[p].private
      <4>1. ~proc[p].private
        BY <2>1 DEF VmmInv, Descriptors
      <4> QED
        BY <3>2, <3>4, <4>1, Zenon
    <3> QED
      BY <2>1, <3>1, <3>3, <3>4, <3>5, Creates
  <2>3. CASE path # "file" /\ V!libvmmalloc_create(p)
    BY <1>c, <2>1, <2>3 DEF V!libvmmalloc_create, V!At
  <2>4. CASE V!Set(p, [proc[p] EXCEPT !.st = "aborted"]) /\ UNCHANGED file
    BY <1>c, <2>1, <2>4 DEF V!At
  <2> QED
    BY <1>1, <2>2, <2>3, <2>4 DEF V!libvmmalloc_init
<1>2. ASSUME NEW p \in Procs, V!libvmmalloc_fini(p) PROVE VmmInv'
  BY <1>2, <1>c DEF V!libvmmalloc_fini, V!At
<1>3. ASSUME NEW p \in Procs, V!Gone(p) PROVE VmmInv'
  <2> DEFINE r == [V!Dead EXCEPT !.st = "gone"]
  <2>1. r \in Records /\ r.st = "gone" /\ r.kid = None
    BY DEF Records, VmmStates, V!Dead, Words
  <2> HIDE DEF r
  <2>2. V!Set(p, r) /\ UNCHANGED <<file, forkopt>> /\ proc[p].st = "exiting"
    BY <1>3 DEF V!Gone, V!At, r
  <2>3. /\ proc'[p] = r /\ proc' \in [Procs -> Records]
        /\ \A q \in Procs : q # p => proc'[q] = proc[q]
    BY <1>a, <2>1, <2>2, VmmUpdate
  <2> QED
    BY <2>1, <2>2, <2>3, Leaves
<1>4. ASSUME NEW p \in Procs, V!Store(p) PROVE VmmInv'
  <2>1. proc[p].st \in {"up", "prefork", "parent"} /\ forkopt' = forkopt
    BY <1>4 DEF V!Store
  <2>2. CASE proc[p].private
    <3> DEFINE r == [proc[p] EXCEPT !.copy = p, !.note = p, !.late = FALSE]
    <3>1. /\ r \in Records /\ r.st = proc[p].st /\ r.fd = proc[p].fd /\ r.map = proc[p].map
          /\ r.fd_clone = proc[p].fd_clone /\ r.kid = proc[p].kid /\ r.copy = p /\ r.note = p
      BY <1>a DEF Records, Words
    <3>2. r.private = proc[p].private
      BY <1>a, Zenon DEF Records
    <3> HIDE DEF r
    <3>3. V!Set(p, r) /\ UNCHANGED file
      BY <1>4, <2>2 DEF V!Store, r
    <3>4. /\ proc'[p] = r /\ proc' \in [Procs -> Records]
          /\ \A q \in Procs : q # p => proc'[q] = proc[q]
      BY <1>a, <3>1, <3>3, VmmUpdate
    <3> QED
      BY <2>1, <2>2, <3>1, <3>2, <3>3, <3>4, StoresPrivately
  <2>3. CASE ~proc[p].private
    <3> DEFINE x == V!At(p, "prefork") /\ proc[p].fd_clone # None
               r == [proc[p] EXCEPT !.note = p, !.late = FALSE, !.raced = x]
    <3>0. x \in BOOLEAN
      OBVIOUS
    <3> HIDE DEF x
    <3>1. /\ r \in Records /\ r.st = proc[p].st /\ r.fd = proc[p].fd /\ r.map = proc[p].map
          /\ r.fd_clone = proc[p].fd_clone /\ r.kid = proc[p].kid /\ r.note = p
      BY <1>a, <3>0 DEF Records, Words
    <3>2. r.private = proc[p].private /\ r.raced = x
      BY <1>a, Zenon DEF Records
    <3> HIDE DEF r
    <3>3. V!Set(p, r) /\ file' = [file EXCEPT ![proc[p].map] = p]
      BY <1>4, <2>3 DEF V!Store, r, x
    <3>4. /\ proc'[p] = r /\ proc' \in [Procs -> Records]
          /\ \A q \in Procs : q # p => proc'[q] = proc[q]
      BY <1>a, <3>1, <3>3, VmmUpdate
    <3>5. proc'[p].raced <=> V!At(p, "prefork") /\ proc[p].fd_clone # None
      BY <3>2, <3>4, Zenon DEF x
    <3>6. ~proc'[p].private
      BY <2>3, <3>2, <3>4, Zenon
    <3> QED
      BY <2>1, <2>3, <3>1, <3>3, <3>4, <3>5, <3>6, StoresInFile
  <2> QED
    BY <2>2, <2>3
<1>5. ASSUME NEW p \in Procs, NEW q \in Procs, V!libvmmalloc_prefork(p, q) PROVE VmmInv'
  <2>1. V!At(p, "up") /\ V!Unused(q) /\ forkopt' = forkopt
    BY <1>5 DEF V!libvmmalloc_prefork
  <2>2. CASE /\ proc[p].private \/ forkopt = 0
             /\ V!Set(p, [proc[p] EXCEPT !.st = "prefork", !.kid = q])
             /\ UNCHANGED file
    <3> DEFINE r == [proc[p] EXCEPT !.st = "prefork", !.kid = q]
    <3>1. /\ r \in Records /\ r.st = "prefork" /\ r.kid = q /\ r.fd = proc[p].fd
          /\ r.map = proc[p].map /\ r.fd_clone = proc[p].fd_clone /\ r.copy = proc[p].copy
          /\ r.note = proc[p].note
      BY <1>a DEF Records, VmmStates
    <3>2. r.private = proc[p].private /\ r.late = proc[p].late
      BY <1>a, Zenon DEF Records
    <3> HIDE DEF r
    <3>3. V!Set(p, r)
      BY <2>2 DEF r
    <3>4. /\ proc'[p] = r /\ proc' \in [Procs -> Records]
          /\ \A s \in Procs : s # p => proc'[s] = proc[s]
      BY <1>a, <3>1, <3>3, VmmUpdate
    <3>5. (proc'[p].private <=> proc[p].private) /\ (proc'[p].late <=> proc[p].late)
      BY <3>2, <3>4, Zenon
    <3> QED
      BY <2>1, <2>2, <3>1, <3>4, <3>5, ForksAsItIs
  <2>3. CASE /\ ~proc[p].private /\ forkopt >= 2 /\ path = "dir"
             /\ V!Set(p, [V!libvmmalloc_clone(p, q) EXCEPT !.st = "prefork", !.kid = q])
             /\ file' = [file EXCEPT ![V!Clone(q)] = V!Word(p)]
    <3> DEFINE r == [V!libvmmalloc_clone(p, q) EXCEPT !.st = "prefork", !.kid = q]
    <3>1. /\ r \in Records /\ r.st = "prefork" /\ r.kid = q /\ r.fd = proc[p].fd
          /\ r.map = proc[p].map /\ r.fd_clone = V!Clone(q) /\ r.note = proc[p].note
      BY <1>a, FileNames DEF Records, VmmStates, V!libvmmalloc_clone
    <3>2. r.private = proc[p].private /\ r.late = proc[p].late
      BY <1>a, Zenon DEF Records, V!libvmmalloc_clone
    <3> HIDE DEF r
    <3>3. V!Set(p, r)
      BY <2>3 DEF r
    <3>4. /\ proc'[p] = r /\ proc' \in [Procs -> Records]
          /\ \A s \in Procs : s # p => proc'[s] = proc[s]
      BY <1>a, <3>1, <3>3, VmmUpdate
    <3>5. ~proc'[p].private /\ (proc'[p].late <=> proc[p].late)
      BY <2>3, <3>2, <3>4, Zenon
    <3>6. forkopt # 0
      BY <1>a, <2>3 DEF VmmTypeOK
    <3> QED
      BY <2>1, <2>3, <3>1, <3>4, <3>5, <3>6, ForksWithCopy
  <2>4. CASE /\ ~proc[p].private /\ forkopt \in {1, 3}
             /\ V!Set(p, [V!remap_as_private(p) EXCEPT !.st = "prefork", !.kid = q])
             /\ UNCHANGED file
    <3> DEFINE r == [V!remap_as_private(p) EXCEPT !.st = "prefork", !.kid = q]
    <3>1. /\ r \in Records /\ r.st = "prefork" /\ r.kid = q /\ r.fd = proc[p].fd
          /\ r.map = proc[p].map /\ r.fd_clone = proc[p].fd_clone /\ r.note = proc[p].note
          /\ r.copy = None
      BY <1>a DEF Records, VmmStates, Words, V!remap_as_private
    <3>2. r.private = TRUE /\ r.late = proc[p].late
      BY <1>a, Zenon DEF Records, V!remap_as_private
    <3> HIDE DEF r
    <3>3. V!Set(p, r)
      BY <2>4 DEF r
    <3>4. /\ proc'[p] = r /\ proc' \in [Procs -> Records]
          /\ \A s \in Procs : s # p => proc'[s] = proc[s]
      BY <1>a, <3>1, <3>3, VmmUpdate
    <3>5. proc'[p].private /\ (proc'[p].late <=> proc[p].late)
      BY <3>2, <3>4, Zenon
    <3>6. forkopt # 0
      BY <2>4
    <3> QED
      BY <2>1, <2>4, <3>1, <3>4, <3>5, <3>6, ForksPrivately
  <2>5. CASE V!Set(p, [proc[p] EXCEPT !.st = "aborted"]) /\ UNCHANGED file
    BY <1>c, <2>1, <2>5 DEF V!At
  <2> QED
    BY <1>5, <2>2, <2>3, <2>4, <2>5 DEF V!libvmmalloc_prefork
<1>6. ASSUME NEW p \in Procs, V!fork(p) PROVE VmmInv'
  <2> DEFINE q == proc[p].kid
             rp == [proc[p] EXCEPT !.st = "parent", !.kid = None, !.raced = FALSE]
             late == proc[p].late \/ proc[p].raced
             rq == [proc[p] EXCEPT !.st = "child", !.kid = None, !.raced = FALSE, !.late = late]
  <2>1. V!At(p, "prefork") /\ UNCHANGED <<file, forkopt>>
    BY <1>6 DEF V!fork
  <2>2. q \in Procs /\ q # p
    <3>1. q # None /\ V!At(q, "none")
      BY <2>1 DEF VmmInv, Promised
    <3>2. q \in Procs \cup {None}
      BY <1>a, VmmFields
    <3> QED
      BY <2>1, <3>1, <3>2 DEF V!At
  <2>3. proc' = [proc EXCEPT ![p] = rp, ![q] = rq]
    BY <1>6 DEF V!fork
  <2>4. late \in BOOLEAN
    OBVIOUS
  <2> HIDE DEF q, late
  <2>5. /\ rp \in Records /\ rp.st = "parent" /\ rp.kid = None /\ rp.fd = proc[p].fd
        /\ rp.map = proc[p].map /\ rp.fd_clone = proc[p].fd_clone
        /\ rp.copy = proc[p].copy /\ rp.note = proc[p].note
    BY <1>a DEF Records, VmmStates
  <2>6. /\ rq \in Records /\ rq.st = "child" /\ rq.kid = None /\ rq.fd = proc[p].fd
        /\ rq.map = proc[p].map /\ rq.fd_clone = proc[p].fd_clone
        /\ rq.copy = proc[p].copy /\ rq.note = proc[p].note
    BY <1>a, <2>4 DEF Records, VmmStates
  <2>7. /\ rp.private = proc[p].private /\ rp.late = proc[p].late
        /\ rq.private = proc[p].private /\ rq.late = late
    BY <1>a, Zenon DEF Records
  <2> HIDE DEF rp, rq
  <2>8. /\ proc'[p] = rp /\ proc'[q] = rq /\ proc' \in [Procs -> Records]
        /\ \A s \in Procs : s # p /\ s # q => proc'[s] = proc[s]
    BY <1>a, <2>2, <2>3, <2>5, <2>6 DEF VmmTypeOK
  <2>9. /\ proc'[p].private <=> proc[p].private
        /\ proc'[q].private <=> proc[p].private
        /\ proc'[p].late <=> proc[p].late
        /\ proc'[q].late <=> proc[p].late \/ proc[p].raced
    BY <2>7, <2>8, Zenon DEF late
  <2>10. \A r \in {p, q} :
              /\ proc'[r].kid = None
              /\ proc'[r].private <=> proc[p].private
              /\ proc'[r].fd = proc[p].fd /\ proc'[r].map = proc[p].map
              /\ proc'[r].fd_clone = proc[p].fd_clone /\ proc'[r].copy = proc[p].copy
              /\ proc'[r].note = proc[p].note
    BY <2>5, <2>6, <2>8, <2>9
  <2>11. proc'[p].st = "parent" /\ proc'[q].st = "child" /\ proc[p].kid = q
    BY <2>5, <2>6, <2>8 DEF q
  <2> QED
    BY <2>1, <2>2, <2>8, <2>9, <2>10, <2>11, Forks
<1>7. ASSUME NEW p \in Procs, V!libvmmalloc_postfork_parent(p) PROVE VmmInv'
  <2> DEFINE c == IF forkopt = 0 \/ proc[p].private THEN proc[p].fd_clone ELSE None
             r == [proc[p] EXCEPT !.st = "up", !.fd_clone = c]
  <2>1. V!At(p, "parent") /\ UNCHANGED <<file, forkopt>> /\ V!Set(p, r)
    BY <1>7 DEF V!libvmmalloc_postfork_parent
  <2>2. c = None
    BY <2>1 DEF VmmInv, Descriptors, Forked, V!At
  <2> HIDE DEF c
  <2>3. /\ r \in Records /\ r.st = "up" /\ r.kid = proc[p].kid /\ r.fd = proc[p].fd
        /\ r.map = proc[p].map /\ r.fd_clone = None /\ r.copy = proc[p].copy
        /\ r.note = proc[p].note
    BY <1>a, <2>2 DEF Records, VmmStates
  <2>4. r.private = proc[p].private /\ r.late = proc[p].late
    BY <1>a, Zenon DEF Records
  <2> HIDE DEF r
  <2>5. /\ proc'[p] = r /\ proc' \in [Procs -> Records]
        /\ \A s \in Procs : s # p => proc'[s] = proc[s]
    BY <1>a, <2>1, <2>3, VmmUpdate
  <2>6. (proc'[p].private <=> proc[p].private) /\ (proc'[p].late <=> proc[p].late)
    BY <2>4, <2>5, Zenon
  <2> QED
    BY <2>1, <2>3, <2>5, <2>6, ReturnsFromFork
<1>8. ASSUME NEW p \in Procs, V!libvmmalloc_postfork_child(p) PROVE VmmInv'
  <2>1. V!At(p, "child") /\ UNCHANGED <<file, forkopt>>
    BY <1>8 DEF V!libvmmalloc_postfork_child
  <2>2. CASE /\ forkopt = 0 \/ proc[p].private
             /\ V!Set(p, [proc[p] EXCEPT !.st = "up"])
    <3> DEFINE r == [proc[p] EXCEPT !.st = "up"]
    <3>1. proc[p].fd_clone = None
      BY <2>1, <2>2 DEF VmmInv, Descriptors, Forked, V!At
    <3>2. /\ r \in Records /\ r.st = "up" /\ r.kid = proc[p].kid /\ r.fd = proc[p].fd
          /\ r.map = proc[p].map /\ r.fd_clone = proc[p].fd_clone /\ r.copy = proc[p].copy
          /\ r.note = proc[p].note
      BY <1>a DEF Records, VmmStates
    <3>3. r.private = proc[p].private /\ r.late = proc[p].late
      BY <1>a, Zenon DEF Records
    <3> HIDE DEF r
    <3>4. /\ proc'[p] = r /\ proc' \in [Procs -> Records]
          /\ \A s \in Procs : s # p => proc'[s] = proc[s]
      BY <1>a, <2>2, <3>2, VmmUpdate DEF r
    <3>5. (proc'[p].private <=> proc[p].private) /\ (proc'[p].late <=> proc[p].late)
      BY <3>3, <3>4, Zenon
    <3> QED
      BY <2>1, <2>2, <3>1, <3>2, <3>4, <3>5, ReturnsFromFork
  <2>3. CASE /\ forkopt # 0 /\ ~proc[p].private
             /\ V!Set(p, [proc[p] EXCEPT !.st = "up", !.fd = proc[p].fd_clone,
                                       !.map = proc[p].fd_clone, !.fd_clone = None])
    <3> DEFINE r == [proc[p] EXCEPT !.st = "up", !.fd = proc[p].fd_clone,
                                    !.map = proc[p].fd_clone, !.fd_clone = None]
    <3>1. /\ r \in Records /\ r.st = "up" /\ r.kid = proc[p].kid /\ r.fd = proc[p].fd_clone
          /\ r.map = proc[p].fd_clone /\ r.fd_clone = None /\ r.note = proc[p].note
      BY <1>a DEF Records, VmmStates
    <3>2. r.private = proc[p].private /\ r.late = proc[p].late
      BY <1>a, Zenon DEF Records
    <3> HIDE DEF r
    <3>3. V!Set(p, r)
      BY <2>3 DEF r
    <3>4. /\ proc'[p] = r /\ proc' \in [Procs -> Records]
          /\ \A s \in Procs : s # p => proc'[s] = proc[s]
      BY <1>a, <3>1, <3>3, VmmUpdate
    <3>5. ~proc'[p].private /\ (proc'[p].late <=> proc[p].late)
      BY <2>3, <3>2, <3>4, Zenon
    <3> QED
      BY <2>1, <2>3, <3>1, <3>4, <3>5, TakesCopy
  <2>4. CASE V!Set(p, [proc[p] EXCEPT !.st = "aborted"])
    BY <1>c, <2>1, <2>4 DEF V!At
  <2> QED
    BY <1>8, <2>2, <2>3, <2>4 DEF V!libvmmalloc_postfork_child
<1>9. CASE V!Replace
  BY <1>9, VmmIdle DEF V!Replace
<1>10. CASE UNCHANGED V!vars
  BY <1>10, VmmIdle DEF V!vars
<1> QED
  BY <1>1, <1>2, <1>3, <1>4, <1>5, <1>6, <1>7, <1>8, <1>9, <1>10 DEF V!Next

LEMMA VmmStart ==
    ASSUME VmmConstants, V!Init
    PROVE  VmmInv
<1>1. /\ V!Dead \in Records /\ V!Dead.st = "none" /\ V!Dead.kid = None /\ V!Dead.fd_clone = None
      /\ ~V!Dead.private
  BY DEF V!Dead, Records, VmmStates, Words
<1> DEFINE r == [V!Dead EXCEPT !.st = "loading"]
<1>2. /\ r \in Records /\ r.st = "loading" /\ r.kid = None /\ r.fd_clone = None
      /\ ~r.private
  BY DEF V!Dead, Records, VmmStates, Words
<1> HIDE DEF r
<1>3. /\ proc \in [Procs -> Records] /\ proc[First] = r
      /\ \A p \in Procs : p # First => proc[p] = V!Dead
  BY <1>1, <1>2 DEF V!Init, r, VmmConstants
<1>4. file \in [Files -> Words] /\ forkopt \in 0 .. 3
  BY DEF V!Init, Files, Words, VmmConstants
<1>5. \A p \in Procs : proc[p].st \in {"none", "loading"} /\ proc[p].kid = None
                        /\ proc[p].fd_clone = None /\ ~proc[p].private
  BY <1>1, <1>2, <1>3
<1> QED
  BY <1>1, <1>3, <1>4, <1>5
  DEF VmmInv, VmmTypeOK, Loading, Promised, Descriptors, Owned, Apart, Kept, V!At,
      Forked, Waits

LEMMA VmmInvariant == ASSUME VmmConstants PROVE V!Spec => []VmmInv
<1>1. V!Init => VmmInv
  BY VmmStart
<1>2. VmmInv /\ [V!Next]_(V!vars) => VmmInv'
  BY VmmStep
<1> QED
  BY <1>1, <1>2, PTL DEF V!Spec

-----------------------------------------------------------------------------
\* The theorems.

\* With fork support on, no two running programs ever write to one file, for any number
\* of processes: the copy made in the fork handler is mapped by the child it was made
\* for and by nobody before it, and a program whose copy failed goes on privately.
THEOREM WritersApart == ASSUME VmmConstants PROVE V!Spec => []OneWriter
<1>1. VmmInv => OneWriter
  BY DEF VmmInv, Apart, OneWriter, V!OneWriter, V!Running, Forked, Waits, V!At
<1> QED
  BY <1>1, VmmInvariant, PTL

\* A program finds in its pool what it wrote there, or what its parent had written when it
\* forked, for any number of processes and forks; except a child whose parent stored
\* between the copying of the pool and the fork.
THEOREM PoolKept == ASSUME VmmConstants PROVE V!Spec => []KeptButForLateStores
<1>1. VmmInv => KeptButForLateStores
  BY DEF VmmInv, Kept, KeptButForLateStores, V!KeptButForLateStores, V!Running, Forked,
     Waits, V!At
<1> QED
  BY <1>1, VmmInvariant, PTL

\* Whatever failed, the descriptor of a copy is closed by both sides of the fork, for any
\* number of forks: the program's only one is that of the file it has mapped.
THEOREM DescriptorsClosed == ASSUME VmmConstants PROVE V!Spec => []NoStrayDescriptor
<1>1. VmmInv => NoStrayDescriptor
  BY DEF VmmInv, Descriptors, NoStrayDescriptor, V!NoStrayDescriptor, Forked, V!At
<1> QED
  BY <1>1, VmmInvariant, PTL

-----------------------------------------------------------------------------
(* libvmem.                                                                *)

\* Sizes are numbers, and VMEM_MIN_POOL of libvmem.h (14 MB) is not zero.
VmemConstants ==
    /\ Space \in Nat /\ PoolSizes \subseteq Nat /\ DeviceSize \in Nat
    /\ VMEM_MIN_POOL \in Nat \ {0}

-----------------------------------------------------------------------------
\* The inductive invariant.

Private(b) == ~pools[b].caller_mapped

VmemTypeOK ==
    /\ mapped \subseteq Int /\ app \subseteq Int
    /\ pools = [b \in DOMAIN pools |-> pools[b]]
    /\ DOMAIN pools \subseteq Nat
    /\ \A b \in DOMAIN pools : /\ pools[b].size \in Nat \ {0}
                               /\ pools[b].caller_mapped \in BOOLEAN
    /\ misfit \in BOOLEAN

\* Each mapped address is the program's or a pool's, not both.
Accounted ==
    /\ app \subseteq mapped
    /\ \A x \in mapped : x \in app \/ \E b \in DOMAIN pools :
                                        Private(b) /\ x \in M!PoolRange(b)

\* A pool in a region of the program's lies wholly in it, and any other pool is
\* mapped and lies wholly outside.
InOrOut ==
    \A b \in DOMAIN pools :
        IF Private(b) THEN M!PoolRange(b) \subseteq mapped \ app
        ELSE M!PoolRange(b) \subseteq app

Disjoint ==
    \A b, c \in DOMAIN pools : b # c => M!PoolRange(b) \cap M!PoolRange(c) = {}

VmemInv ==
    /\ VmemTypeOK
    /\ ~misfit => Accounted /\ InOrOut /\ Disjoint /\ closed \subseteq DOMAIN pools

LEMMA ExtentHolds ==
    ASSUME NEW b \in Nat, NEW n \in Nat
    PROVE  M!Extent(b, n) \subseteq Int /\ (n # 0 => b \in M!Extent(b, n))
  BY DEF M!Extent

LEMMA VmemInitInv == M!Init => VmemInv
  BY DEF M!Init, VmemInv, VmemTypeOK, Accounted, InOrOut, Disjoint

\* What a pool that is added, or was there, covers afterwards.
LEMMA OpenRanges ==
    ASSUME NEW base, NEW h, M!Open(base, h)
    PROVE  /\ DOMAIN pools' = DOMAIN pools \cup {base}
           /\ pools'[base] = h
           /\ M!PoolRange(base)' = M!Extent(base, h.size)
           /\ \A b \in DOMAIN pools : b # base =>
                 pools'[b] = pools[b] /\ M!PoolRange(b)' = M!PoolRange(b)
           /\ pools' = [b \in DOMAIN pools' |-> pools'[b]]
  BY DEF M!Open, M!PoolRange

LEMMA CreateUInv ==
    ASSUME VmemConstants, VmemInv, NEW base \in 0 .. Space - 1,
           NEW type \in {"file", "device"}, NEW size \in PoolSizes,
           M!vmem_createU(type, size, base)
    PROVE  VmemInv'
<1> DEFINE len == IF type = "device" THEN DeviceSize ELSE size
           h == [size |-> size, caller_mapped |-> FALSE]
<1>1. /\ size \in Nat \ {0} /\ len \in Nat /\ base \in Nat
      /\ misfit' = (misfit \/ len # size) /\ misfit' \in BOOLEAN
      /\ M!Extent(base, len) \cap mapped = {}
      /\ app' = app
  BY DEF VmemConstants, M!vmem_createU, M!Fits, VmemInv, VmemTypeOK
<1>2. /\ M!Extent(base, size) \subseteq Int /\ M!Extent(base, len) \subseteq Int
      /\ base \in M!Extent(base, size)
  BY <1>1, ExtentHolds
<1>3. CASE /\ mapped' = mapped \cup M!Extent(base, len)
           /\ M!Open(base, h)
           /\ closed' \subseteq closed \cup {base}
  <2>1. h.size = size /\ h.caller_mapped = FALSE
    OBVIOUS
  <2> HIDE DEF h
  <2>2. /\ DOMAIN pools' = DOMAIN pools \cup {base}
        /\ pools'[base] = h
        /\ M!PoolRange(base)' = M!Extent(base, size)
        /\ \A b \in DOMAIN pools : b # base =>
              pools'[b] = pools[b] /\ M!PoolRange(b)' = M!PoolRange(b)
        /\ pools' = [b \in DOMAIN pools' |-> pools'[b]]
    BY <1>3, <2>1, OpenRanges
  <2>3. VmemTypeOK'
    <3>1. mapped' \subseteq Int /\ app' \subseteq Int /\ DOMAIN pools' \subseteq Nat
      BY <1>1, <1>2, <1>3, <2>2 DEF VmemInv, VmemTypeOK
    <3>2. \A b \in DOMAIN pools' : /\ pools'[b].size \in Nat \ {0}
                                   /\ pools'[b].caller_mapped \in BOOLEAN
      BY <1>1, <2>2, <2>1 DEF VmemInv, VmemTypeOK
    <3> QED
      BY <1>1, <2>2, <3>1, <3>2 DEF VmemTypeOK
  <2>4. ASSUME ~misfit'
        PROVE  (Accounted /\ InOrOut /\ Disjoint /\ closed \subseteq DOMAIN pools)'
    <3>1. ~misfit /\ len = size
      BY <1>1, <2>4 DEF VmemInv, VmemTypeOK
    <3>2. Accounted /\ InOrOut /\ Disjoint /\ closed \subseteq DOMAIN pools
      BY <3>1 DEF VmemInv
    <3> HIDE DEF len
    <3>3. \A b \in DOMAIN pools : M!PoolRange(b) \cap M!Extent(base, size) = {}
      BY <1>1, <3>1, <3>2 DEF Accounted, InOrOut
    <3>4. \A b \in DOMAIN pools : b \in M!PoolRange(b)
      BY ExtentHolds DEF VmemInv, VmemTypeOK, M!PoolRange
    <3>5. base \notin DOMAIN pools
      BY <1>2, <3>3, <3>4
    <3>6. Accounted'
      BY <1>1, <1>3, <2>2, <2>1, <3>1, <3>2, <3>5 DEF Accounted, Private
    <3>7. InOrOut'
      BY <1>1, <1>3, <2>2, <2>1, <3>1, <3>2, <3>5 DEF Accounted, InOrOut, Private
    <3>8. Disjoint'
      BY <2>2, <3>2, <3>3, <3>5 DEF Disjoint
    <3> QED
      BY <1>3, <2>2, <3>2, <3>6, <3>7, <3>8
  <2> QED
    BY <2>3, <2>4 DEF VmemInv
<1>4. CASE M!CreateFails(base, len, size) /\ UNCHANGED <<pools, closed>>
  <2>1. mapped' \subseteq Int
    BY <1>2, <1>4 DEF M!CreateFails, VmemInv, VmemTypeOK
  <2>2. ~misfit' => ~misfit /\ mapped' = mapped
    BY <1>1, <1>4 DEF M!CreateFails, VmemInv, VmemTypeOK
  <2>3. VmemTypeOK'
    BY <1>1, <1>4, <2>1 DEF VmemInv, VmemTypeOK
  <2> QED
    BY <1>1, <1>4, <2>2, <2>3 DEF VmemInv, Accounted, InOrOut, Disjoint, Private,
       M!PoolRange
<1> QED
  BY <1>3, <1>4 DEF M!vmem_createU

LEMMA CreateInRegionInv ==
    ASSUME VmemConstants, VmemInv, NEW base \in 0 .. Space - 1, NEW size \in PoolSizes,
           M!vmem_create_in_region(base, size)
    PROVE  VmemInv'
<1> DEFINE h == [size |-> size, caller_mapped |-> TRUE]
<1>1. /\ size \in Nat \ {0} /\ base \in Nat
      /\ M!Extent(base, size) \subseteq app
      /\ \A b \in DOMAIN pools : M!Extent(base, size) \cap M!PoolRange(b) = {}
      /\ mapped' = mapped /\ app' = app /\ misfit' = misfit
  BY DEF VmemConstants, M!vmem_create_in_region, M!Claimed
<1>2. CASE M!Open(base, h) /\ closed' = closed \cup {base}
  <2>1. h.size = size /\ h.caller_mapped = TRUE
    OBVIOUS
  <2> HIDE DEF h
  <2>2. /\ DOMAIN pools' = DOMAIN pools \cup {base}
        /\ pools'[base] = h
        /\ M!PoolRange(base)' = M!Extent(base, size)
        /\ \A b \in DOMAIN pools : b # base =>
              pools'[b] = pools[b] /\ M!PoolRange(b)' = M!PoolRange(b)
        /\ pools' = [b \in DOMAIN pools' |-> pools'[b]]
    BY <1>2, <2>1, OpenRanges
  <2>3. base \in M!Extent(base, size) /\ \A b \in DOMAIN pools : b \in M!PoolRange(b)
    BY <1>1, ExtentHolds DEF VmemInv, VmemTypeOK, M!PoolRange
  <2>4. base \notin DOMAIN pools
    BY <1>1, <2>3
  <2>5. VmemTypeOK'
    BY <1>1, <2>2, <2>1 DEF VmemInv, VmemTypeOK
  <2>6. ASSUME ~misfit
        PROVE  (Accounted /\ InOrOut /\ Disjoint /\ closed \subseteq DOMAIN pools)'
    <3>1. Accounted /\ InOrOut /\ Disjoint /\ closed \subseteq DOMAIN pools
      BY <2>6 DEF VmemInv
    <3>2. Accounted'
      BY <1>1, <2>2, <2>4, <3>1 DEF Accounted, Private
    <3>3. InOrOut'
      BY <1>1, <2>2, <2>1, <2>4, <3>1 DEF InOrOut, Private
    <3>4. Disjoint'
      BY <1>1, <2>2, <2>4, <3>1 DEF Disjoint
    <3> QED
      BY <1>2, <2>2, <3>1, <3>2, <3>3, <3>4
  <2> QED
    BY <1>1, <2>5, <2>6 DEF VmemInv
<1>3. CASE UNCHANGED <<pools, closed>>
  BY <1>1, <1>3 DEF VmemInv, VmemTypeOK, Accounted, InOrOut, Disjoint, Private, M!PoolRange
<1> QED
  BY <1>2, <1>3 DEF M!vmem_create_in_region

LEMMA DeleteInv ==
    ASSUME VmemInv, NEW base, M!vmem_delete(base)
    PROVE  VmemInv'
<1>1. /\ base \in DOMAIN pools
      /\ DOMAIN pools' = DOMAIN pools \ {base}
      /\ \A b \in DOMAIN pools' : pools'[b] = pools[b] /\ M!PoolRange(b)' = M!PoolRange(b)
      /\ pools' = [b \in DOMAIN pools' |-> pools'[b]]
      /\ closed' = closed \ {base}
      /\ mapped' = IF Private(base) THEN mapped \ M!PoolRange(base) ELSE mapped
      /\ app' = app /\ misfit' = misfit
  BY DEF M!vmem_delete, M!PoolRange, Private
<1>2. VmemTypeOK'
  BY <1>1 DEF VmemInv, VmemTypeOK
<1>3. ASSUME ~misfit
      PROVE  (Accounted /\ InOrOut /\ Disjoint /\ closed \subseteq DOMAIN pools)'
  <2>1. Accounted /\ InOrOut /\ Disjoint /\ closed \subseteq DOMAIN pools
    BY <1>3 DEF VmemInv
  <2>2. Private(base) => M!PoolRange(base) \cap app = {}
    BY <1>1, <2>1 DEF InOrOut
  <2>3. \A b \in DOMAIN pools' : M!PoolRange(b) \cap M!PoolRange(base) = {}
    BY <1>1, <2>1 DEF Disjoint
  <2>4. Accounted'
    BY <1>1, <2>1, <2>2 DEF Accounted, Private
  <2>5. InOrOut'
    BY <1>1, <2>1, <2>3 DEF InOrOut, Private
  <2>6. Disjoint'
    BY <1>1, <2>1 DEF Disjoint
  <2> QED
    BY <1>1, <2>1, <2>4, <2>5, <2>6
<1> QED
  BY <1>1, <1>2, <1>3 DEF VmemInv

LEMMA MapInv ==
    ASSUME VmemConstants, VmemInv, NEW base \in 0 .. Space - 1, NEW size \in PoolSizes,
           M!Map(base, size)
    PROVE  VmemInv'
<1>1. M!Extent(base, size) \subseteq Int
  BY ExtentHolds DEF VmemConstants
<1>2. /\ M!Extent(base, size) \cap mapped = {} /\ UNCHANGED <<pools, closed, misfit>>
      /\ mapped' = mapped \cup M!Extent(base, size)
      /\ app' = app \cup M!Extent(base, size)
  BY DEF M!Map, M!Fits
<1>3. \A b : M!PoolRange(b)' = M!PoolRange(b) /\ (Private(b)' <=> Private(b))
  BY <1>2 DEF M!PoolRange, Private
<1>4. VmemTypeOK'
  BY <1>1, <1>2 DEF VmemInv, VmemTypeOK
<1>5. ~misfit => (Accounted /\ InOrOut)'
  BY <1>2, <1>3 DEF VmemInv, Accounted, InOrOut
<1> QED
  BY <1>2, <1>3, <1>4, <1>5 DEF VmemInv, Disjoint

LEMMA UnmapInv ==
    ASSUME VmemInv, NEW page, M!Unmap(page)
    PROVE  VmemInv'
  BY DEF M!Unmap, M!Claimed, VmemInv, VmemTypeOK, Accounted, InOrOut, Disjoint, Private,
     M!PoolRange

LEMMA VmemNextInv ==
    ASSUME VmemConstants PROVE VmemInv /\ [M!Next]_(M!vvars) => VmemInv'
<1> SUFFICES ASSUME VmemInv, [M!Next]_(M!vvars) PROVE VmemInv'
  OBVIOUS
<1>1. CASE UNCHANGED M!vvars
  BY <1>1 DEF M!vvars, VmemInv, VmemTypeOK, Accounted, InOrOut, Disjoint, Private,
     M!PoolRange
<1>2. CASE M!Next
  BY <1>2, CreateUInv, CreateInRegionInv, DeleteInv, MapInv, UnmapInv DEF M!Next
<1> QED
  BY <1>1, <1>2

-----------------------------------------------------------------------------
\* For any address space and sizes, and any sequence of creations, failures and
\* deletions of pools among the program's own mappings: until a device is used with
\* a size that is not its own, exactly what the program and its pools use is mapped,
\* vmem_delete takes nothing of the program's with it, and pools never overlap.
THEOREM Accounts == ASSUME VmemConstants PROVE M!Spec => []SpaceAccounted
<1>1. M!Init => VmemInv
  BY VmemInitInv
<1>2. VmemInv /\ [M!Next]_(M!vvars) => VmemInv'
  BY VmemNextInv
<1>3. VmemInv => SpaceAccounted
  <2> SUFFICES ASSUME VmemInv, ~misfit PROVE
        /\ mapped = app \cup UNION {M!PoolRange(b) : b \in
                                     {c \in DOMAIN pools : ~pools[c].caller_mapped}}
        /\ \A b, c \in DOMAIN pools : b # c => M!PoolRange(b) \cap M!PoolRange(c) = {}
        /\ \A b \in DOMAIN pools :
             pools[b].caller_mapped <=> M!PoolRange(b) \cap app # {}
        /\ closed \subseteq DOMAIN pools
    BY DEF SpaceAccounted, M!SpaceAccounted
  <2>1. Accounted /\ InOrOut /\ Disjoint /\ closed \subseteq DOMAIN pools
    BY DEF VmemInv
  <2>2. \A b \in DOMAIN pools : b \in M!PoolRange(b) /\ pools[b].caller_mapped \in BOOLEAN
    BY ExtentHolds DEF VmemInv, VmemTypeOK, M!PoolRange
  <2>3. mapped = app \cup UNION {M!PoolRange(b) : b \in
                                   {c \in DOMAIN pools : ~pools[c].caller_mapped}}
    BY <2>1 DEF Accounted, InOrOut, Private
  <2>4. \A b \in DOMAIN pools : pools[b].caller_mapped <=> M!PoolRange(b) \cap app # {}
    BY <2>1, <2>2 DEF InOrOut, Private
  <2> QED
    BY <2>1, <2>3, <2>4 DEF Disjoint
<1> QED
  BY <1>1, <1>2, <1>3, PTL DEF M!Spec

-----------------------------------------------------------------------------
(* The start of the allocator.                                             *)

\* The inductive invariant.

BootStates == {"out", "init", "base", "hard", "spin", "atfork", "pool_new", "ready", "error"}

BootTypeOK ==
    /\ malloc_initialized \in BOOLEAN /\ base_pool_initialized \in BOOLEAN
    /\ narenas \in BOOLEAN /\ failed \in BOOLEAN
    /\ malloc_initializer \in BootThreads \cup {NoThread}
    /\ pool_base_lock \in BootThreads \cup {NoThread}
    /\ pc \in [BootThreads -> BootStates]
    /\ needs \in [BootThreads -> {"init", "base", "both"}]

\* Whoever has pool_base_lock is in malloc_init or makes the pool, and its call
\* needs the pool; nobody makes the pool without the lock.
LockHeld ==
    \A t \in BootThreads :
        /\ pool_base_lock = t =>
             pc[t] \in {"init", "hard", "spin", "atfork", "pool_new"}
        /\ pc[t] = "pool_new" => pool_base_lock = t
        /\ pc[t] = "base" => needs[t] # "init"
        /\ pool_base_lock = t => needs[t] # "init"

\* Until a step fails, the thread that initializes is the only one past init_lock,
\* and it is at work until it has finished.
OneInitializer ==
    ~failed =>
        \A t \in BootThreads :
            /\ pc[t] = "atfork" => malloc_initializer = t /\ ~malloc_initialized
            /\ malloc_initializer = t => malloc_initialized \/ pc[t] = "atfork"
            /\ pc[t] = "spin" => malloc_initializer \in BootThreads
            /\ pc[t] \in {"pool_new", "ready"} => malloc_initialized
            /\ pc[t] = "ready" /\ needs[t] # "init" => base_pool_initialized

\* The base pool is made once opt_narenas is known.
PoolAfterInit == ~failed /\ base_pool_initialized => narenas /\ malloc_initialized

BootInv == BootTypeOK /\ LockHeld /\ OneInitializer /\ PoolAfterInit

-----------------------------------------------------------------------------
\* The two ends of malloc_init, which malloc_init, malloc_init_hard, Spin and Finish
\* share: what they do to the state of thread t.
LEMMA ReturnsTo ==
    ASSUME BootTypeOK, NEW t \in BootThreads, T!MallocInitReturns(t)
    PROVE  /\ pool_base_lock' = pool_base_lock
           /\ pc' = [pc EXCEPT ![t] = pc'[t]]
           /\ pc'[t] \in BootStates
           /\ pc'[t] = IF pool_base_lock = t THEN "pool_new"
                       ELSE IF needs[t] = "init" THEN "ready" ELSE "base"
<1>1. CASE pool_base_lock = t
  BY <1>1 DEF T!MallocInitReturns, T!Go, BootTypeOK, BootStates
<1>2. CASE pool_base_lock # t /\ needs[t] = "init"
  BY <1>2 DEF T!MallocInitReturns, T!Go, BootTypeOK, BootStates
<1>3. CASE pool_base_lock # t /\ needs[t] # "init"
  BY <1>3 DEF T!MallocInitReturns, T!Go, BootTypeOK, BootStates
<1> QED
  BY <1>1, <1>2, <1>3

LEMMA FailsTo ==
    ASSUME BootTypeOK, NEW t \in BootThreads, T!MallocInitFails(t), NoThread \notin BootThreads
    PROVE  /\ pc' = [pc EXCEPT ![t] = "error"]
           /\ pool_base_lock' \in BootThreads \cup {NoThread}
           /\ pool_base_lock' # t
           /\ \A u \in BootThreads \ {t} : (pool_base_lock' = u) <=> (pool_base_lock = u)
BY DEF T!MallocInitFails, T!Go, BootTypeOK

LEMMA BootInitInv ==
    ASSUME NoThread \notin BootThreads, T!Init
    PROVE  BootInv
BY DEF T!Init, BootInv, BootTypeOK, LockHeld, OneInitializer, PoolAfterInit, BootStates

LEMMA BootInvStep ==
    ASSUME NoThread \notin BootThreads, BootInv, [T!Next]_(T!bootvars)
    PROVE  BootInv'
<1> USE DEF BootInv, BootTypeOK, LockHeld, OneInitializer, PoolAfterInit, BootStates
<1>1. ASSUME NEW t \in BootThreads, NEW what \in {"init", "base", "both"}, T!Call(t, what)
      PROVE  BootInv'
  BY <1>1 DEF T!Call, T!Go
<1>2. ASSUME NEW t \in BootThreads, T!malloc_init(t)
      PROVE  BootInv'
  <2>1. CASE malloc_initialized
    BY <1>2, <2>1, ReturnsTo DEF T!malloc_init
  <2>2. CASE ~malloc_initialized
    BY <1>2, <2>2 DEF T!malloc_init, T!Go
  <2> QED
    BY <2>1, <2>2
<1>3. ASSUME NEW t \in BootThreads, T!malloc_init_base_pool(t)
      PROVE  BootInv'
  BY <1>3 DEF T!malloc_init_base_pool, T!Go
<1>4. ASSUME NEW t \in BootThreads, T!Spin(t)
      PROVE  BootInv'
  BY <1>4, ReturnsTo DEF T!Spin
<1>5. ASSUME NEW t \in BootThreads, NEW fails \in BOOLEAN, T!malloc_init_hard(t, fails)
      PROVE  BootInv'
  <2>1. CASE malloc_initialized \/ malloc_initializer = t
    BY <1>5, <2>1, ReturnsTo DEF T!malloc_init_hard
  <2>2. CASE ~malloc_initialized /\ malloc_initializer \notin {t, NoThread}
    BY <1>5, <2>2 DEF T!malloc_init_hard, T!Go
  <2>3. CASE ~malloc_initialized /\ malloc_initializer = NoThread /\ fails
    BY <1>5, <2>3, FailsTo DEF T!malloc_init_hard
  <2>4. CASE ~malloc_initialized /\ malloc_initializer = NoThread /\ ~fails
    BY <1>5, <2>4 DEF T!malloc_init_hard, T!Go
  <2> QED
    BY <2>1, <2>2, <2>3, <2>4
<1>6. ASSUME NEW t \in BootThreads, NEW fails \in BOOLEAN, T!Finish(t, fails)
      PROVE  BootInv'
  <2>1. CASE fails
    BY <1>6, <2>1, FailsTo DEF T!Finish
  <2>2. CASE ~fails
    <3>1. /\ pc[t] = "atfork" /\ pc' = [pc EXCEPT ![t] = pc'[t]] /\ pc'[t] \in BootStates
          /\ pc'[t] = IF pool_base_lock = t THEN "pool_new"
                      ELSE IF needs[t] = "init" THEN "ready" ELSE "base"
          /\ malloc_initialized' = TRUE /\ failed' = failed
          /\ UNCHANGED <<malloc_initializer, base_pool_initialized, narenas, needs,
                         pool_base_lock>>
      BY <1>6, <2>2, ReturnsTo DEF T!Finish
    <3>2. BootTypeOK' /\ LockHeld'
      BY <3>1
    <3>3. OneInitializer'
      BY <3>1
    <3>4. PoolAfterInit'
      BY <3>1
    <3> QED
      BY <3>2, <3>3, <3>4
  <2> QED
    BY <2>1, <2>2
<1>7. ASSUME NEW t \in BootThreads, NEW fails \in BOOLEAN, T!PoolNew(t, fails)
      PROVE  BootInv'
  BY <1>7 DEF T!PoolNew, T!Go
<1>8. CASE UNCHANGED T!bootvars
  BY <1>8 DEF T!bootvars
<1> QED
  BY <1>1, <1>2, <1>3, <1>4, <1>5, <1>6, <1>7, <1>8 DEF T!Next

\* Whatever the number of threads whose first calls meet, and whichever steps of
\* malloc_init_hard and pool_new fail: until malloc_init_hard fails no call of
\* je_malloc, mallctl or je_pool_create goes on before what it needs is complete,
\* and no call returns with pool_base_lock.
THEOREM Booted ==
    ASSUME NoThread \notin BootThreads
    PROVE  T!Spec => []BootedBeforeUse
<1>1. T!Init => BootInv
  BY BootInitInv
<1>2. BootInv /\ [T!Next]_(T!bootvars) => BootInv'
  BY BootInvStep
<1>3. BootInv => BootedBeforeUse
  BY DEF BootInv, BootTypeOK, LockHeld, OneInitializer, PoolAfterInit, BootStates,
     BootedBeforeUse, T!BootedBeforeUse
<1> QED
  BY <1>1, <1>2, <1>3, PTL DEF T!Spec

-----------------------------------------------------------------------------
(* Postmark.                                                               *)

\* There are slots, and a file has at least one byte.
PmConstants ==
    /\ Simultaneous \in Nat \ {0} /\ SizeLow \in Nat \ {0} /\ SizeHigh \in Nat

\* The inductive invariant.

PmTypeOK ==
    /\ phase \in {"create", "transact", "change", "delete", "done", "killed"} /\ i \in Nat
    /\ file_table \in [P!Slots -> [name : Nat, size : Nat]]
    /\ file_allocated \in Nat /\ files_created \in Nat /\ files_deleted \in Nat
    /\ disk = [f \in DOMAIN disk |-> disk[f]]
    /\ failures \in Nat /\ skipped \in BOOLEAN

\* A file on disk has a slot in use, slots in use have names of their own, which were
\* given out, and there are as many as were created and not deleted.
Filed ==
    /\ \A f \in DOMAIN disk : \E s \in P!UsedSlots : file_table[s].name = f
    /\ \A s, t \in P!UsedSlots : file_table[s].name = file_table[t].name => s = t
    /\ \A s \in P!UsedSlots : file_table[s].name <= files_created
    /\ files_created - files_deleted = Cardinality(P!UsedSlots)

\* Unless a call failed, the sizes in the table are those on disk.
Sized ==
    failures = 0 => \A s \in P!UsedSlots :
                      P!Exists(s) /\ disk[file_table[s].name] = file_table[s].size

\* Where the run is: a transaction has a file to work on, and unless a call failed the
\* last loop leaves no slot in use behind it.
Staged ==
    /\ phase = "change" => ~P!OutOfFiles
    /\ phase = "delete" => i < P!NSlots
    /\ phase = "delete" /\ failures = 0 => \A s \in P!UsedSlots : s >= i
    /\ phase = "done" /\ failures = 0 => P!UsedSlots = {}

PmInv == PmTypeOK /\ Filed /\ Sized /\ Staged /\ ~skipped

-----------------------------------------------------------------------------
LEMMA LeastOf ==
    ASSUME NEW S \in SUBSET Nat, S # {}
    PROVE  \E x \in S : \A y \in S : x <= y
<1>1. PICK x \in S : \A y \in S : ~(<<y, x>> \in OpToRel(<, Nat))
  BY NatLessThanWellFounded, WFMin
<1>2. \A y \in S : ~(y < x)
  BY <1>1 DEF OpToRel
<1> QED
  BY <1>2

\* Postmark's Cardinality is the one the theorems of the library speak of.
LEMMA PmCardinality == \A S : P!Cardinality(S) = Cardinality(S)
  BY DEF P!Cardinality, Cardinality

LEMMA PmSlots ==
    ASSUME PmConstants, PmTypeOK
    PROVE  /\ P!NSlots \in Nat \ {0} /\ P!Slots \subseteq Nat /\ P!Slots = 0 .. P!NSlots - 1
           /\ IsFiniteSet(P!UsedSlots) /\ P!UsedSlots \subseteq P!Slots
           /\ \A s \in P!Slots : s \in P!UsedSlots <=> file_table[s].size # 0
<1>1. IsFiniteSet(P!Slots)
  BY FS_Interval DEF P!Slots, P!NSlots, PmConstants
<1>2. IsFiniteSet(P!UsedSlots)
  BY <1>1, FS_Subset DEF P!UsedSlots, P!FreeSlots
<1> QED
  BY <1>2 DEF P!Slots, P!NSlots, PmConstants, P!UsedSlots, P!FreeSlots

LEMMA FindFree ==
    ASSUME PmConstants, PmTypeOK
    PROVE  \/ P!find_free_file = P!NoSlot /\ P!FreeSlots = {}
           \/ /\ P!find_free_file \in P!Slots /\ P!find_free_file # P!NoSlot
              /\ file_table[P!find_free_file].size = 0
<1>0. P!Slots \subseteq Nat /\ P!Slots = 0 .. P!NSlots - 1 /\ P!NSlots \in Nat
  BY PmSlots
<1>1. CASE file_allocated < P!NSlots /\ file_table[file_allocated].size = 0
  BY <1>0, <1>1 DEF P!find_free_file, P!NoSlot, PmTypeOK
<1>2. CASE ~(file_allocated < P!NSlots /\ file_table[file_allocated].size = 0) /\ P!FreeSlots = {}
  BY <1>2 DEF P!find_free_file
<1>3. CASE ~(file_allocated < P!NSlots /\ file_table[file_allocated].size = 0) /\ P!FreeSlots # {}
  <2>1. P!FreeSlots \in SUBSET Nat
    BY <1>0 DEF P!FreeSlots
  <2>2. \E x \in P!FreeSlots : \A y \in P!FreeSlots : x <= y
    BY <1>3, <2>1, LeastOf
  <2>3. P!Min(P!FreeSlots) \in P!FreeSlots
    BY <2>2 DEF P!Min
  <2>4. P!find_free_file = P!Min(P!FreeSlots)
    BY <1>3 DEF P!find_free_file
  <2> QED
    BY <1>0, <2>1, <2>3, <2>4 DEF P!FreeSlots, P!NoSlot
<1> QED
  BY <1>1, <1>2, <1>3

\* What create_file does to the table and the disk.
LEMMA CreateKeeps ==
    ASSUME PmConstants, PmTypeOK, Filed, Sized, ~skipped, P!create_file, files_deleted' = files_deleted
    PROVE  /\ (file_table \in [P!Slots -> [name : Nat, size : Nat]])' /\ file_allocated' \in Nat
           /\ files_created' \in Nat /\ (disk = [f \in DOMAIN disk |-> disk[f]])'
           /\ failures' \in Nat /\ skipped' = FALSE /\ Filed' /\ Sized'
<1>0. P!UsedSlots \subseteq P!Slots /\ P!Slots \subseteq Nat /\ IsFiniteSet(P!UsedSlots)
  BY PmSlots
<1>1. CASE P!find_free_file = P!NoSlot
  <2>1. /\ skipped' = FALSE
        /\ UNCHANGED <<file_table, file_allocated, files_created, disk, failures>>
    BY <1>1, FindFree DEF P!create_file, PmTypeOK
  <2>2. P!UsedSlots' = P!UsedSlots /\ \A s : P!Exists(s)' <=> P!Exists(s)
    BY <2>1 DEF P!UsedSlots, P!FreeSlots, P!Exists
  <2> QED
    BY <2>1, <2>2 DEF PmTypeOK, Filed, Sized
<1>2. CASE P!find_free_file # P!NoSlot
  <2> DEFINE s == P!find_free_file
             name == files_created + 1
  <2>1. s \in P!Slots /\ file_table[s].size = 0 /\ s \notin P!UsedSlots
    BY <1>2, FindFree, PmSlots
  <2>2. PICK n \in P!InitialSizes :
          /\ file_table' = [file_table EXCEPT ![s] = [name |-> name, size |-> n]]
          /\ file_allocated' = s + 1 /\ files_created' = name /\ skipped' = skipped
          /\ \/ failures' = failures /\ disk' = P!Put(name, n)
             \/ failures' = failures + 1 /\ disk' = disk
    BY <1>2 DEF P!create_file, P!Works, P!Fails
  <2>3. n \in Nat \ {0} /\ name \in Nat
    BY DEF P!InitialSizes, PmConstants, PmTypeOK
  <2>4. /\ file_table' \in [P!Slots -> [name : Nat, size : Nat]]
        /\ file_table'[s] = [name |-> name, size |-> n]
        /\ \A t \in P!Slots \ {s} : file_table'[t] = file_table[t]
    BY <2>1, <2>2, <2>3 DEF PmTypeOK
  <2>5. P!UsedSlots' = P!UsedSlots \cup {s} /\ P!Slots' = P!Slots
    <3>1. P!UsedSlots' = {t \in P!Slots : file_table'[t].size # 0}
      BY DEF P!UsedSlots, P!FreeSlots, P!Slots, P!NSlots
    <3>2. P!UsedSlots = {t \in P!Slots : file_table[t].size # 0}
      BY DEF P!UsedSlots, P!FreeSlots
    <3> QED
      BY <2>1, <2>3, <2>4, <3>1, <3>2 DEF P!Slots, P!NSlots
  <2>6. Cardinality(P!UsedSlots') = Cardinality(P!UsedSlots) + 1
    BY <1>0, <2>1, <2>5, FS_AddElement
  <2>7. \A t \in P!UsedSlots : file_table'[t] = file_table[t] /\ file_table[t].name # name
    <3>1. \A t \in P!UsedSlots : file_table[t].name \in Nat
      BY <1>0 DEF PmTypeOK
    <3> QED
      BY <1>0, <2>1, <2>4, <3>1 DEF Filed, PmTypeOK
  <2>8. /\ disk' = [f \in DOMAIN disk' |-> disk'[f]]
        /\ DOMAIN disk' \subseteq DOMAIN disk \cup {name}
        /\ \A f \in DOMAIN disk : f \in DOMAIN disk' /\ (f # name => disk'[f] = disk[f])
        /\ failures' = failures => name \in DOMAIN disk' /\ disk'[name] = n
    <3>1. CASE failures' = failures /\ disk' = P!Put(name, n)
      BY <3>1 DEF P!Put
    <3>2. CASE failures' = failures + 1 /\ disk' = disk
      BY <3>2 DEF PmTypeOK
    <3> QED
      BY <2>2, <3>1, <3>2
  <2>9. Filed'
    <3>1. \A f \in DOMAIN disk' : \E t \in P!UsedSlots' : file_table'[t].name = f
      BY <2>4, <2>5, <2>7, <2>8 DEF Filed
    <3>2. \A t, u \in P!UsedSlots' : file_table'[t].name = file_table'[u].name => t = u
      BY <2>4, <2>5, <2>7 DEF Filed
    <3>3. \A t \in P!UsedSlots' : file_table'[t].name <= files_created'
      <4>1. \A t \in P!UsedSlots : file_table[t].name \in Nat /\ file_table[t].name <= files_created
        BY <1>0 DEF PmTypeOK, Filed
      <4>2. files_created \in Nat /\ files_created' = files_created + 1
        BY <2>2 DEF PmTypeOK
      <4>3. \A t \in P!UsedSlots : file_table'[t].name <= files_created'
        BY <2>7, <4>1, <4>2
      <4> QED
        BY <2>2, <2>4, <2>5, <4>2, <4>3
    <3>4. files_created' - files_deleted' = Cardinality(P!UsedSlots')
      <4>1. Cardinality(P!UsedSlots) \in Nat
        BY <1>0, FS_CardinalityType
      <4> QED
        BY <2>2, <2>6, <4>1 DEF Filed, PmTypeOK
    <3> QED
      BY <3>1, <3>2, <3>3, <3>4 DEF Filed
  <2>10. Sized'
    <3> SUFFICES ASSUME failures' = 0, NEW t \in P!UsedSlots'
                 PROVE  P!Exists(t)' /\ disk'[file_table'[t].name] = file_table'[t].size
      BY DEF Sized
    <3>1. failures = 0 /\ failures' = failures
      BY <2>2 DEF PmTypeOK
    <3>2. CASE t = s
      BY <2>4, <2>8, <3>1, <3>2 DEF P!Exists
    <3>3. CASE t \in P!UsedSlots
      BY <2>7, <2>8, <3>1, <3>3 DEF P!Exists, Sized
    <3> QED
      BY <2>5, <3>2, <3>3
  <2> QED
    BY <1>0, <2>1, <2>2, <2>3, <2>4, <2>5, <2>8, <2>9, <2>10 DEF PmTypeOK
<1> QED
  BY <1>1, <1>2

\* What delete_file does, and that it frees the slot unless the call failed.
LEMMA DeleteKeeps ==
    ASSUME PmConstants, PmTypeOK, Filed, Sized, NEW s \in P!Slots, P!delete_file(s),
           files_created' = files_created
    PROVE  /\ (file_table \in [P!Slots -> [name : Nat, size : Nat]])'
           /\ files_deleted' \in Nat /\ (disk = [f \in DOMAIN disk |-> disk[f]])'
           /\ failures' \in Nat /\ Filed' /\ Sized'
           /\ P!UsedSlots' \subseteq P!UsedSlots
           /\ failures' = 0 => failures = 0 /\ s \notin P!UsedSlots'
<1>0. P!UsedSlots \subseteq P!Slots /\ P!Slots \subseteq Nat /\ IsFiniteSet(P!UsedSlots)
  BY PmSlots
<1>1. CASE UNCHANGED <<disk, file_table, files_deleted>>
  <2>1. P!UsedSlots' = P!UsedSlots /\ \A t : P!Exists(t)' <=> P!Exists(t)
    BY <1>1 DEF P!UsedSlots, P!FreeSlots, P!Exists, P!Slots, P!NSlots
  <2>2. failures' \in Nat /\ (failures' = failures \/ failures' = failures + 1)
    BY DEF P!delete_file, P!Works, P!Fails, PmTypeOK
  <2>3. failures' = 0 => failures = 0
    BY <2>2 DEF PmTypeOK
  <2>4. Filed' /\ Sized'
    BY <1>1, <2>1, <2>3 DEF Filed, Sized
  <2>5. ASSUME failures' = 0, s \in P!UsedSlots PROVE FALSE
    <3>1. P!Exists(s) /\ file_table[s].size # 0
      BY <2>3, <2>5, PmSlots DEF Sized
    <3>2. failures' = failures
      BY <2>2, <2>3, <2>5 DEF PmTypeOK
    <3>3. file_table' = [file_table EXCEPT ![s].size = 0]
      BY <2>3, <2>5, <3>1, <3>2 DEF P!delete_file, P!Fails, PmTypeOK
    <3> QED
      BY <1>1, <3>1, <3>3 DEF PmTypeOK
  <2> QED
    BY <1>1, <2>1, <2>2, <2>3, <2>4, <2>5 DEF PmTypeOK, P!Slots, P!NSlots
<1>2. CASE /\ P!Works /\ P!Exists(s) /\ file_table[s].size # 0
           /\ disk' = [f \in DOMAIN disk \ {file_table[s].name} |-> disk[f]]
           /\ file_table' = [file_table EXCEPT ![s].size = 0]
           /\ files_deleted' = files_deleted + 1
  <2>1. /\ file_table' \in [P!Slots -> [name : Nat, size : Nat]]
        /\ file_table'[s].size = 0
        /\ \A t \in P!Slots \ {s} : file_table'[t] = file_table[t]
    BY <1>2 DEF PmTypeOK
  <2>2. P!UsedSlots' = P!UsedSlots \ {s} /\ s \in P!UsedSlots /\ P!Slots' = P!Slots
    <3>1. P!UsedSlots' = {t \in P!Slots : file_table'[t].size # 0}
      BY DEF P!UsedSlots, P!FreeSlots, P!Slots, P!NSlots
    <3>2. P!UsedSlots = {t \in P!Slots : file_table[t].size # 0}
      BY DEF P!UsedSlots, P!FreeSlots
    <3> QED
      BY <1>2, <2>1, <3>1, <3>2 DEF P!Slots, P!NSlots
  <2>3. Cardinality(P!UsedSlots') = Cardinality(P!UsedSlots) - 1
    BY <1>0, <2>2, FS_RemoveElement
  <2>4. \A t \in P!UsedSlots' : /\ file_table'[t] = file_table[t]
                               /\ file_table[t].name # file_table[s].name
    BY <1>0, <2>1, <2>2 DEF Filed
  <2>5. failures' = failures
    BY <1>2 DEF P!Works
  <2>6. Filed'
    <3>1. \A f \in DOMAIN disk' : \E t \in P!UsedSlots' : file_table'[t].name = f
      <4> SUFFICES ASSUME NEW f \in DOMAIN disk \ {file_table[s].name}
                   PROVE  \E t \in P!UsedSlots' : file_table'[t].name = f
        BY <1>2
      <4>1. PICK t \in P!UsedSlots : file_table[t].name = f
        BY DEF Filed
      <4> QED
        BY <2>2, <2>4, <4>1
    <3>2. \A t, u \in P!UsedSlots' : file_table'[t].name = file_table'[u].name => t = u
      BY <2>2, <2>4 DEF Filed
    <3>3. \A t \in P!UsedSlots' : file_table'[t].name <= files_created'
      BY <2>2, <2>4 DEF Filed
    <3>4. files_created' - files_deleted' = Cardinality(P!UsedSlots')
      <4>1. Cardinality(P!UsedSlots) \in Nat
        BY <1>0, FS_CardinalityType
      <4> QED
        BY <1>2, <2>3, <4>1 DEF Filed, PmTypeOK
    <3> QED
      BY <3>1, <3>2, <3>3, <3>4 DEF Filed
  <2>7. Sized'
    <3> SUFFICES ASSUME failures' = 0, NEW t \in P!UsedSlots'
                 PROVE  P!Exists(t)' /\ disk'[file_table'[t].name] = file_table'[t].size
      BY DEF Sized
    <3> QED
      BY <1>2, <2>2, <2>4, <2>5 DEF P!Exists, Sized
  <2> QED
    BY <1>2, <2>1, <2>2, <2>5, <2>6, <2>7 DEF PmTypeOK
<1> QED
  BY <1>1, <1>2 DEF P!delete_file

\* What append_file does to a slot in use.
LEMMA AppendKeeps ==
    ASSUME PmConstants, PmTypeOK, Filed, Sized, NEW s \in P!UsedSlots, P!append_file(s),
           UNCHANGED <<files_created, files_deleted>>
    PROVE  /\ (file_table \in [P!Slots -> [name : Nat, size : Nat]])'
           /\ (disk = [f \in DOMAIN disk |-> disk[f]])'
           /\ failures' \in Nat /\ Filed' /\ Sized'
<1>0. P!UsedSlots \subseteq P!Slots /\ P!Slots \subseteq Nat /\ IsFiniteSet(P!UsedSlots)
  BY PmSlots
<1> DEFINE f == file_table[s]
<1>1. CASE UNCHANGED <<disk, file_table>>
  <2>1. P!UsedSlots' = P!UsedSlots /\ \A t : P!Exists(t)' <=> P!Exists(t)
    BY <1>1 DEF P!UsedSlots, P!FreeSlots, P!Exists, P!Slots, P!NSlots
  <2>2. failures' \in Nat /\ (failures' = 0 => failures = 0)
    BY DEF P!append_file, P!Works, P!Fails, PmTypeOK
  <2> QED
    BY <1>1, <2>1, <2>2 DEF Filed, Sized, PmTypeOK, P!Slots, P!NSlots
<1>2. CASE /\ f.size < SizeHigh /\ (P!Exists(s) \/ buffered)
           /\ P!Works
           /\ \E block \in 1 .. SizeHigh - f.size :
                /\ file_table' = [file_table EXCEPT ![s].size = @ + block]
                /\ disk' = P!Put(f.name, (IF P!Exists(s) THEN disk[f.name] ELSE 0) + block)
  <2>1. PICK block \in 1 .. SizeHigh - f.size :
                /\ file_table' = [file_table EXCEPT ![s].size = @ + block]
                /\ disk' = P!Put(f.name, (IF P!Exists(s) THEN disk[f.name] ELSE 0) + block)
    BY <1>2
  <2>2. f \in [name : Nat, size : Nat] /\ block \in Nat \ {0} /\ s \in P!Slots
    BY <1>0 DEF PmTypeOK, PmConstants
  <2>3. /\ file_table' \in [P!Slots -> [name : Nat, size : Nat]]
        /\ file_table'[s].size = f.size + block /\ file_table'[s].name = f.name
        /\ \A t \in P!Slots \ {s} : file_table'[t] = file_table[t]
    BY <2>1, <2>2 DEF PmTypeOK
  <2>4. P!UsedSlots' = P!UsedSlots /\ P!Slots' = P!Slots
    <3>1. P!UsedSlots' = {t \in P!Slots : file_table'[t].size # 0}
      BY DEF P!UsedSlots, P!FreeSlots, P!Slots, P!NSlots
    <3>2. P!UsedSlots = {t \in P!Slots : file_table[t].size # 0}
      BY DEF P!UsedSlots, P!FreeSlots
    <3>3. file_table'[s].size # 0
      BY <2>2, <2>3
    <3> QED
      BY <2>2, <2>3, <3>1, <3>2, <3>3 DEF P!Slots, P!NSlots
  <2>5. \A t \in P!UsedSlots : file_table'[t].name = file_table[t].name
    BY <1>0, <2>3
  <2>6. /\ DOMAIN disk' = DOMAIN disk \cup {f.name} /\ disk' = [g \in DOMAIN disk' |-> disk'[g]]
        /\ \A g \in DOMAIN disk \ {f.name} : disk'[g] = disk[g]
        /\ disk'[f.name] = (IF P!Exists(s) THEN disk[f.name] ELSE 0) + block
    BY <2>1 DEF P!Put
  <2>7. Filed'
    <3>1. \A g \in DOMAIN disk' : \E t \in P!UsedSlots' : file_table'[t].name = g
      BY <2>4, <2>5, <2>6 DEF Filed
    <3>2. \A t, u \in P!UsedSlots' : file_table'[t].name = file_table'[u].name => t = u
      BY <2>4, <2>5 DEF Filed
    <3>3. \A t \in P!UsedSlots' : file_table'[t].name <= files_created'
      BY <2>4, <2>5 DEF Filed
    <3> QED
      BY <2>4, <3>1, <3>2, <3>3 DEF Filed
  <2>8. failures' = failures
    BY <1>2 DEF P!Works
  <2>9. Sized'
    <3> SUFFICES ASSUME failures' = 0, NEW t \in P!UsedSlots
                 PROVE  P!Exists(t)' /\ disk'[file_table'[t].name] = file_table'[t].size
      BY <2>4 DEF Sized
    <3>1. P!Exists(t) /\ disk[file_table[t].name] = file_table[t].size
      BY <2>8 DEF Sized
    <3>2. P!Exists(t)'
      BY <2>5, <2>6, <3>1 DEF P!Exists
    <3>3. CASE t = s
      BY <2>3, <2>6, <3>1, <3>2, <3>3
    <3>4. CASE t # s
      <4>1. file_table'[t] = file_table[t] /\ file_table[t].name # f.name
        BY <1>0, <2>3, <3>4 DEF Filed
      <4> QED
        BY <2>6, <3>1, <3>2, <4>1 DEF P!Exists
    <3> QED
      BY <3>3, <3>4
  <2> QED
    BY <2>3, <2>4, <2>6, <2>7, <2>8, <2>9 DEF PmTypeOK
<1> QED
  BY <1>1, <1>2 DEF P!append_file

LEMMA PmInitInv == ASSUME PmConstants, P!Init PROVE PmInv
<1>1. file_table = [s \in P!Slots |-> [name |-> 0, size |-> 0]] /\ disk = [f \in {} |-> 0]
  BY DEF P!Init
<1>2. P!UsedSlots = {}
  BY <1>1 DEF P!UsedSlots, P!FreeSlots
<1>3. PmTypeOK
  <2>1. disk = [f \in DOMAIN disk |-> disk[f]]
    BY <1>1
  <2>2. file_table \in [P!Slots -> [name : Nat, size : Nat]]
    BY <1>1
  <2> QED
    BY <2>1, <2>2 DEF P!Init, PmTypeOK
<1>4. Filed
  BY <1>1, <1>2, FS_EmptySet DEF P!Init, Filed
<1> QED
  BY <1>2, <1>3, <1>4 DEF P!Init, PmInv, Sized, Staged

LEMMA PmInvStep == ASSUME PmConstants, PmInv, [P!Next]_(P!pmvars) PROVE PmInv'
<1>0. /\ PmTypeOK /\ Filed /\ Sized /\ Staged /\ ~skipped
      /\ P!NSlots \in Nat \ {0} /\ P!Slots = 0 .. P!NSlots - 1 /\ P!UsedSlots \subseteq P!Slots
  BY PmSlots DEF PmInv
<1>1. CASE P!CreateFiles
  <2>1. /\ P!create_file /\ files_deleted' = files_deleted
        /\ phase' \in {"create", "transact"} /\ i' \in Nat
    BY <1>0, <1>1 DEF P!CreateFiles, P!Goto, PmTypeOK
  <2> QED
    BY <1>0, <2>1, CreateKeeps DEF PmInv, PmTypeOK, Staged
<1>2. CASE P!Transact
  <2>1. /\ phase = "transact" /\ UNCHANGED <<files_created, files_deleted, file_allocated, skipped>>
        /\ \/ phase' = "delete" /\ i' = 0
           \/ phase' = "change" /\ i' = i /\ ~P!OutOfFiles
    BY <1>2 DEF P!Transact, P!Goto
  <2>2. /\ (file_table \in [P!Slots -> [name : Nat, size : Nat]])'
        /\ (disk = [f \in DOMAIN disk |-> disk[f]])' /\ failures' \in Nat /\ Filed' /\ Sized'
    <3>1. CASE UNCHANGED <<file_table, disk, failures>>
      <4>1. P!UsedSlots' = P!UsedSlots /\ \A t : P!Exists(t)' <=> P!Exists(t)
        BY <3>1 DEF P!UsedSlots, P!FreeSlots, P!Exists, P!Slots, P!NSlots
      <4> QED
        BY <1>0, <2>1, <3>1, <4>1 DEF Filed, Sized, PmTypeOK, P!Slots, P!NSlots
    <3>2. ASSUME NEW s \in P!UsedSlots, P!append_file(s)
          PROVE  /\ (file_table \in [P!Slots -> [name : Nat, size : Nat]])'
                 /\ (disk = [f \in DOMAIN disk |-> disk[f]])' /\ failures' \in Nat
                 /\ Filed' /\ Sized'
      BY <1>0, <2>1, <3>2, AppendKeeps
    <3> QED
      BY <1>2, <3>1, <3>2 DEF P!Transact
  <2>3. (P!OutOfFiles' <=> P!OutOfFiles) /\ P!NSlots' = P!NSlots
    BY <2>1 DEF P!OutOfFiles, P!NSlots
  <2>4. PmTypeOK'
    BY <1>0, <2>1, <2>2 DEF PmTypeOK
  <2>5. \A s \in P!UsedSlots' : s >= 0
    BY <1>0, <2>4, PmSlots DEF P!UsedSlots, P!Slots, P!NSlots
  <2>6. Staged'
    BY <1>0, <2>1, <2>3, <2>5 DEF Staged
  <2> QED
    BY <1>0, <2>1, <2>2, <2>4, <2>6 DEF PmInv
<1>3. CASE P!Change
  <2>1. /\ phase' \in {"killed", "transact"} /\ i' \in Nat
    BY <1>0, <1>3 DEF P!Change, P!Goto, PmTypeOK
  <2>2. Staged'
    BY <2>1 DEF Staged
  <2>3. CASE P!create_file /\ files_deleted' = files_deleted
    BY <1>0, <2>1, <2>2, <2>3, CreateKeeps DEF PmInv, PmTypeOK
  <2>4. ASSUME NEW s \in P!UsedSlots, P!delete_file(s),
               UNCHANGED <<file_allocated, files_created, skipped>>
        PROVE  PmInv'
    BY <1>0, <2>1, <2>2, <2>4, DeleteKeeps DEF PmInv, PmTypeOK
  <2>5. CASE UNCHANGED <<file_table, file_allocated, files_created, files_deleted, disk,
                         failures, skipped>>
    <3>1. P!UsedSlots' = P!UsedSlots /\ \A t : P!Exists(t)' <=> P!Exists(t)
      BY <2>5 DEF P!UsedSlots, P!FreeSlots, P!Exists, P!Slots, P!NSlots
    <3> QED
      BY <1>0, <2>1, <2>2, <2>5, <3>1 DEF PmInv, Filed, Sized, PmTypeOK, P!Slots, P!NSlots
  <2> QED
    BY <1>3, <2>3, <2>4, <2>5 DEF P!Change
<1>4. CASE P!DeleteFiles
  <2>1. /\ phase = "delete" /\ P!delete_file(i) /\ UNCHANGED <<file_allocated, files_created, skipped>>
        /\ IF i + 1 < P!NSlots THEN phase' = "delete" /\ i' = i + 1 ELSE phase' = "done" /\ i' = 0
    BY <1>4 DEF P!DeleteFiles, P!Goto
  <2>2. i \in P!Slots /\ i \in Nat
    BY <1>0, <2>1 DEF Staged, PmTypeOK
  <2>3. /\ (file_table \in [P!Slots -> [name : Nat, size : Nat]])'
        /\ files_deleted' \in Nat /\ (disk = [f \in DOMAIN disk |-> disk[f]])'
        /\ failures' \in Nat /\ Filed' /\ Sized'
        /\ P!UsedSlots' \subseteq P!UsedSlots
        /\ failures' = 0 => failures = 0 /\ i \notin P!UsedSlots'
    BY <1>0, <2>1, <2>2, DeleteKeeps
  <2>4. failures' = 0 => \A s \in P!UsedSlots' : s \in P!Slots /\ s >= i + 1
    BY <1>0, <2>1, <2>2, <2>3 DEF Staged
  <2>5. Staged'
    <3>1. P!NSlots' = P!NSlots
      BY DEF P!NSlots
    <3> QED
      BY <1>0, <2>1, <2>2, <2>4, <3>1 DEF Staged
  <2> QED
    BY <1>0, <2>1, <2>2, <2>3, <2>5, SMTT(40) DEF PmInv, PmTypeOK
<1>5. CASE UNCHANGED P!pmvars
  <2>1. P!UsedSlots' = P!UsedSlots /\ \A t : P!Exists(t)' <=> P!Exists(t)
    BY <1>5 DEF P!pmvars, P!UsedSlots, P!FreeSlots, P!Exists, P!Slots, P!NSlots
  <2> QED
    BY <1>0, <1>5, <2>1 DEF P!pmvars, PmInv, PmTypeOK, Filed, Sized, Staged, P!OutOfFiles,
       P!Slots, P!NSlots
<1> QED
  BY <1>1, <1>2, <1>3, <1>4, <1>5 DEF P!Next

-----------------------------------------------------------------------------
\* For any numbers of files and transactions, any sizes and any calls that fail: the
\* file table stands for what is on disk and for nothing else, a free slot is always found
\* when there is one, find_used_file is never called on an empty table, and the last
\* loop of cli_run removes everything unless a call failed.
THEOREM FilesKept == ASSUME PmConstants PROVE P!Spec => []FilesAccounted
<1>1. P!Init => PmInv
  BY PmInitInv
<1>2. PmInv /\ [P!Next]_(P!pmvars) => PmInv'
  BY PmInvStep
<1>3. PmInv => FilesAccounted
  <2> SUFFICES ASSUME PmInv PROVE P!TableMatchesDisk /\ P!RunEndsClean
    BY DEF FilesAccounted
  <2>1. P!TableMatchesDisk
    <3>1. Filed /\ Sized /\ ~skipped
      BY DEF PmInv
    <3>2. /\ \A f \in DOMAIN disk : \E s \in P!UsedSlots : file_table[s].name = f
          /\ \A s, t \in P!UsedSlots : file_table[s].name = file_table[t].name => s = t
          /\ files_created - files_deleted = Cardinality(P!UsedSlots)
      BY <3>1 DEF Filed
    <3> QED
      BY <3>1, <3>2, PmCardinality DEF Sized, P!TableMatchesDisk
  <2>2. ~P!OutOfFiles => P!UsedSlots # {}
    <3> SUFFICES ASSUME P!UsedSlots = {} PROVE P!OutOfFiles
      OBVIOUS
    <3>1. files_created - files_deleted = 0
      BY FS_EmptySet DEF PmInv, Filed
    <3> QED
      BY <3>1 DEF PmInv, PmTypeOK, P!OutOfFiles
  <2>3. P!UsedSlots = {} => disk = [f \in {} |-> 0] /\ P!OutOfFiles
    <3> SUFFICES ASSUME P!UsedSlots = {} PROVE disk = [f \in {} |-> 0] /\ P!OutOfFiles
      OBVIOUS
    <3>1. files_created - files_deleted = 0
      BY FS_EmptySet DEF PmInv, Filed
    <3>2. DOMAIN disk = {} /\ disk = [f \in DOMAIN disk |-> disk[f]]
      BY DEF PmInv, Filed, PmTypeOK
    <3>3. disk = [f \in {} |-> 0]
      BY <3>2
    <3> QED
      BY <3>1, <3>3 DEF PmInv, PmTypeOK, P!OutOfFiles
  <2> QED
    BY <2>1, <2>2, <2>3 DEF PmInv, Staged, P!RunEndsClean
<1> QED
  BY <1>1, <1>2, <1>3, PTL DEF P!Spec

-----------------------------------------------------------------------------
(* The emulation of mmap.                                                  *)

WmConstants ==
    /\ NPages \in Nat /\ FileSize \in Nat /\ IsFiniteSet(MapThreads) /\ W!Nobody \notin MapThreads

\* The inductive invariant.

Trackers == [base : Nat, end : Nat, off : Nat, flen : Nat]
KeyOK(k) == k \in Trackers /\ k.base < k.end /\ k.end <= NPages /\ k.flen <= k.end - k.base
Covers(k) == W!Span(k.base, k.end - k.base)
\* What a tracker stands for at address p.
Content(k, p) == IF p < k.base + k.flen THEN W!View(k.off + (p - k.base)) ELSE W!Reserved

Calls == [pc : {"idle", "map", "insert", "unmap", "remap"}, addr : Int, len : Nat, off : Nat,
          fixed : BOOLEAN, reserved : BOOLEAN, left : Nat, back : Seq(Trackers), two : BOOLEAN,
          map : BOOLEAN]

Flen(c) == W!FileLen(c.off, c.len)
Extent(c) == W!Span(c.addr, c.len)
Placed(c) == c.addr >= 0 /\ c.addr + c.len <= NPages
Unmaps(c) == c.pc \in {"unmap", "remap"}

CallOK(c) ==
    /\ c \in Calls
    /\ Unmaps(c) => /\ Placed(c) /\ c.len > 0 /\ c.left <= c.len
                    /\ ~c.reserved /\ (c.map => c.fixed)
    /\ c.map => c.off < FileSize
    /\ c.pc \in {"map", "insert"} => c.map /\ c.len > 0
    /\ c.pc = "map" /\ c.reserved => c.off + c.len > FileSize
    /\ c.pc = "map" => \/ c.addr = W!NoRange /\ ~c.fixed /\ ~c.reserved
                       \/ Placed(c) /\ (c.fixed \/ c.reserved)
    /\ c.pc = "insert" => Placed(c)
    /\ c.pc # "remap" => c.back = <<>>

WmTypeOK ==
    /\ call \in [MapThreads -> Calls] /\ \A t \in MapThreads : CallOK(call[t])
    /\ mem \in [W!Page -> {W!Free, W!Reserved} \cup {W!View(n) : n \in Nat}]
    /\ DOMAIN promise = W!Page /\ promise = [p \in W!Page |-> promise[p]]

\* The trackers in the list, and those mmap_split has taken out and will put back.
Back(c) == {c.back[n] : n \in DOMAIN c.back}
Virtual == trackers \cup (UNION {Back(call[t]) : t \in MapThreads})

Listed ==
    /\ \A k \in Virtual : KeyOK(k)
    /\ \A k, l \in Virtual : k # l => Covers(k) \cap Covers(l) = {}

\* Who unmaps has the lock from its first tracker on; the others have not begun.
Holding ==
    \A t \in MapThreads :
        /\ call[t].pc = "remap" => qlock = t
        /\ qlock = t => Unmaps(call[t])
        /\ Unmaps(call[t]) /\ qlock # t => call[t].left = call[t].len

\* What a call has mapped or reserved and not yet entered in the list.
Mine(c) ==
    IF c.pc = "insert" THEN Extent(c)
    ELSE IF c.pc = "map" /\ c.reserved THEN W!Span(c.addr + Flen(c), c.len - Flen(c))
    ELSE {}
KeyOf(c) == [base |-> c.addr, end |-> c.addr + c.len, off |-> c.off, flen |-> Flen(c)]

\* The system has at each address what a tracker or a call says, or nothing, unless
\* it was leaked.
Mapped ==
    /\ \A m \in trackers : \A p \in Covers(m) : mem[p] = Content(m, p)
    /\ \A t \in MapThreads : \A p \in Mine(call[t]) : mem[p] = Content(KeyOf(call[t]), p)
    /\ \A p \in W!Page \ leaked : \/ mem[p] = W!Free
                                  \/ \E m \in trackers : p \in Covers(m)
                                  \/ \E t \in MapThreads : p \in Mine(call[t])
    /\ \A t, u \in MapThreads : t # u => Mine(call[t]) \cap Mine(call[u]) = {}
    /\ \A t \in MapThreads, m \in trackers : Mine(call[t]) \cap Covers(m) = {}

\* Of a range that is being unmapped the last left addresses are in trackers, and
\* the ones before are in none.
Covering ==
    /\ \A t, u \in MapThreads : t # u /\ Unmaps(call[t]) /\ Unmaps(call[u]) =>
                                  Extent(call[t]) \cap Extent(call[u]) = {}
    /\ \A t \in MapThreads : Unmaps(call[t]) =>
         LET c == call[t]
         IN  /\ \A p \in c.addr + c.len - c.left .. c.addr + c.len - 1 :
                  \E k \in Virtual : p \in Covers(k)
             /\ \A p \in c.addr .. c.addr + c.len - c.left - 1 :
                  \A k \in Virtual : p \notin Covers(k)
             /\ \A k \in Back(c) : Covers(k) \cap Extent(c) = {}

\* The program was told what the trackers say, except where it unmaps.
Unmapping(p) == \E t \in MapThreads : Unmaps(call[t]) /\ p \in Extent(call[t])
Promises ==
    \A p \in W!Page :
        /\ Unmapping(p) => promise[p] = W!Free
        /\ (\A k \in Virtual : p \notin Covers(k)) => promise[p] = W!Free
        /\ ~Unmapping(p) => \A k \in Virtual : p \in Covers(k) => promise[p] = Content(k, p)

WmGood == WmTypeOK /\ Listed /\ Holding /\ Mapped /\ Covering /\ Promises

\* What was leaked stays taken, and no tracker and no call has it.
Claimed(p) == (\E m \in trackers : p \in Covers(m)) \/ \E t \in MapThreads : p \in Mine(call[t])
Lost == leaked \subseteq W!Page /\ \A p \in leaked : mem[p] # W!Free /\ ~Claimed(p)

WmInv == astray \in BOOLEAN /\ (astray \/ (WmGood /\ Lost))

\* A step that takes only free addresses, and frees only what a tracker or a call had.
Honest ==
    /\ leaked' = leaked
    /\ \A p \in W!Page : /\ Claimed(p)' => Claimed(p) \/ mem[p] = W!Free
                         /\ mem[p] # W!Free /\ ~Claimed(p) => mem'[p] # W!Free

-----------------------------------------------------------------------------
LEMMA SpanIs ==
    ASSUME NEW b \in Int, NEW n \in Int, NEW p
    PROVE  p \in W!Span(b, n) <=> p \in Int /\ b <= p /\ p < b + n
  BY DEF W!Span

LEMMA CoversIs ==
    ASSUME NEW k, KeyOK(k), NEW p
    PROVE  p \in Covers(k) <=> p \in Int /\ k.base <= p /\ p < k.end
  BY DEF KeyOK, Trackers, Covers, W!Span

LEMMA ContentIs ==
    ASSUME NEW k, NEW p
    PROVE  Content(k, p) # W!Free
  BY DEF Content, W!Free, W!View, W!Reserved

LEMMA WmInitInv == ASSUME WmConstants, W!Init PROVE WmInv
<1>1. call = [t \in MapThreads |-> W!Idle] /\ trackers = {} /\ qlock = W!Nobody
      /\ mem = [p \in W!Page |-> W!Free] /\ promise = [p \in W!Page |-> W!Free] /\ astray = FALSE
      /\ leaked = {}
  BY DEF W!Init
<1>2. W!Idle \in Calls /\ W!Idle.pc = "idle" /\ ~W!Idle.map /\ W!Idle.back = <<>>
  BY DEF W!Idle, Calls, W!NoRange
<1>3. CallOK(W!Idle) /\ ~Unmaps(W!Idle) /\ Back(W!Idle) = {} /\ Mine(W!Idle) = {}
  BY <1>2 DEF CallOK, Unmaps, Back, Mine
<1>4. Virtual = {}
  BY <1>1, <1>3 DEF Virtual
<1>5. WmTypeOK
  BY <1>1, <1>2, <1>3 DEF WmTypeOK
<1>6. Listed /\ Holding /\ Covering
  BY <1>1, <1>2, <1>3, <1>4 DEF Listed, Holding, Covering, WmConstants
<1>7. Mapped /\ Promises
  BY <1>1, <1>3, <1>4 DEF Mapped, Promises, Unmapping
<1> QED
  BY <1>1, <1>5, <1>6, <1>7 DEF WmInv, WmGood, Lost

LEMMA LostKept ==
    ASSUME Lost, Honest
    PROVE  Lost'
  BY DEF Lost, Honest, W!Page

LEMMA Becomes ==
    ASSUME WmTypeOK, NEW t \in MapThreads, NEW x, CallOK(x), call' = [call EXCEPT ![t] = x]
    PROVE  /\ call' \in [MapThreads -> Calls] /\ \A u \in MapThreads : CallOK(call'[u])
           /\ call'[t] = x /\ \A u \in MapThreads \ {t} : call'[u] = call[u]
<1>1. x \in Calls
  BY DEF CallOK
<1> QED
  BY <1>1 DEF WmTypeOK

LEMMA NoBack ==
    ASSUME NEW c, CallOK(c), c.pc # "remap"
    PROVE  Back(c) = {}
  BY DEF CallOK, Back

\* A step of a call that does not unmap, before or after.
LEMMA SideStep ==
    ASSUME WmGood, NEW t \in MapThreads, NEW x, CallOK(x), call' = [call EXCEPT ![t] = x],
           ~Unmaps(call[t]), ~Unmaps(x), UNCHANGED <<trackers, qlock, promise>>,
           mem' \in [W!Page -> {W!Free, W!Reserved} \cup {W!View(n) : n \in Nat}]
    PROVE  WmTypeOK' /\ Listed' /\ Holding' /\ Covering' /\ Promises'
<1>1. /\ call' \in [MapThreads -> Calls] /\ \A u \in MapThreads : CallOK(call'[u])
      /\ call'[t] = x /\ \A u \in MapThreads \ {t} : call'[u] = call[u]
  BY Becomes DEF WmGood
<1>2. Back(call[t]) = {} /\ Back(x) = {}
  BY NoBack DEF WmGood, WmTypeOK, Unmaps
<1>3. Virtual' = Virtual
  <2>1. \A u \in MapThreads : Back(call'[u]) = Back(call[u])
    BY <1>1, <1>2
  <2> QED
    BY <2>1 DEF Virtual
<1>4. \A u \in MapThreads : Unmaps(call'[u]) <=> Unmaps(call[u])
  BY <1>1
<1>5. \A u \in MapThreads : Unmaps(call'[u]) => call'[u] = call[u]
  BY <1>1
<1>6. WmTypeOK'
  BY <1>1 DEF WmGood, WmTypeOK
<1>7. Listed'
  BY <1>3 DEF WmGood, Listed
<1>8. Holding'
  <2>1. \A u \in MapThreads : call'[u].pc = "remap" => call[u].pc = "remap"
    BY <1>1 DEF Unmaps
  <2> QED
    BY <1>4, <1>5, <2>1 DEF WmGood, Holding
<1>9. Covering'
  BY <1>3, <1>4, <1>5 DEF WmGood, Covering
<1>10. Promises'
  <2>1. \A p : Unmapping(p)' <=> Unmapping(p)
    BY <1>4, <1>5 DEF Unmapping
  <2> QED
    BY <1>3, <2>1 DEF WmGood, Promises, W!Page
<1> QED
  BY <1>6, <1>7, <1>8, <1>9, <1>10

LEMMA MappedSame ==
    ASSUME Mapped, UNCHANGED <<mem, trackers, leaked>>,
           \A u \in MapThreads : Mine(call'[u]) = Mine(call[u]),
           \A u \in MapThreads : \A p \in Mine(call[u]) : KeyOf(call'[u]) = KeyOf(call[u])
    PROVE  Mapped' /\ Honest
<1>1. \A m \in trackers' : \A p \in Covers(m) : mem'[p] = Content(m, p)
  BY DEF Mapped
<1>2. \A u \in MapThreads : \A p \in Mine(call'[u]) : mem'[p] = Content(KeyOf(call'[u]), p)
  BY DEF Mapped
<1>3. \A p \in W!Page \ leaked' : \/ mem'[p] = W!Free
                                  \/ \E m \in trackers' : p \in Covers(m)
                                  \/ \E u \in MapThreads : p \in Mine(call'[u])
  BY DEF Mapped
<1>4. \A u, v \in MapThreads : u # v => Mine(call'[u]) \cap Mine(call'[v]) = {}
  BY DEF Mapped
<1>5. \A u \in MapThreads, m \in trackers' : Mine(call'[u]) \cap Covers(m) = {}
  BY DEF Mapped
<1>6. Honest
  BY DEF Honest, Claimed
<1> QED
  BY <1>1, <1>2, <1>3, <1>4, <1>5, <1>6 DEF Mapped, W!Page

\* The beginning of munmap, and of mmap with MAP_FIXED.
LEMMA StartStep ==
    ASSUME WmConstants, WmGood, NEW t \in MapThreads, NEW x, CallOK(x), call' = [call EXCEPT ![t] = x],
           call[t].pc = "idle", x.pc = "unmap", x.left = x.len, W!Owned(t, x.addr, x.len),
           promise' = W!Set(promise, x.addr, x.len, W!Free), UNCHANGED <<mem, trackers, qlock, leaked>>
    PROVE  WmGood' /\ Honest
<1>0. WmTypeOK /\ Listed /\ Holding /\ Mapped /\ Covering /\ Promises
  BY DEF WmGood
<1>1. /\ call' \in [MapThreads -> Calls] /\ \A u \in MapThreads : CallOK(call'[u])
      /\ call'[t] = x /\ \A u \in MapThreads \ {t} : call'[u] = call[u]
  BY <1>0, Becomes
<1>2. /\ ~Unmaps(call[t]) /\ Unmaps(x) /\ CallOK(call[t])
      /\ x.addr \in Int /\ x.len \in Nat /\ Placed(x)
  BY <1>0 DEF Unmaps, WmTypeOK, CallOK, Calls
<1>3. Back(call[t]) = {} /\ Back(x) = {} /\ Mine(x) = {} /\ Mine(call[t]) = {}
  BY <1>2, NoBack DEF Mine
<1>4. Virtual' = Virtual
  <2>1. \A u \in MapThreads : Back(call'[u]) = Back(call[u])
    BY <1>1, <1>3
  <2> QED
    BY <2>1 DEF Virtual
<1>5. WmTypeOK'
  BY <1>0, <1>1 DEF WmTypeOK, W!Set, W!Page
<1>6. Listed'
  BY <1>0, <1>4 DEF Listed
<1>7. Holding'
  BY <1>0, <1>1, <1>2 DEF Holding
<1>8. Mapped' /\ Honest
  <2>1. \A u \in MapThreads : Mine(call'[u]) = Mine(call[u])
    BY <1>1, <1>3
  <2>2. \A u \in MapThreads : \A p \in Mine(call[u]) : KeyOf(call'[u]) = KeyOf(call[u])
    BY <1>1, <1>3
  <2> QED
    BY <1>0, <2>1, <2>2, MappedSame
<1>9. Covering'
  <2>1. \A u \in MapThreads \ {t} : Unmaps(call[u]) => Extent(call[u]) \cap Extent(x) = {}
    <3> SUFFICES ASSUME NEW u \in MapThreads \ {t}, Unmaps(call[u])
                 PROVE  Extent(call[u]) \cap Extent(x) = {}
      OBVIOUS
    <3>1. call[u].addr # W!NoRange
      BY <1>0 DEF WmTypeOK, CallOK, Placed, W!NoRange
    <3> QED
      BY <3>1 DEF W!Owned, Extent
  <2>2. \A u, v \in MapThreads : u # v /\ Unmaps(call'[u]) /\ Unmaps(call'[v]) =>
                                   Extent(call'[u]) \cap Extent(call'[v]) = {}
    BY <1>0, <1>1, <2>1 DEF Covering
  <2>3. \A p \in x.addr .. x.addr + x.len - 1 : \E k \in Virtual : p \in Covers(k)
    <3> SUFFICES ASSUME NEW p \in x.addr .. x.addr + x.len - 1
                 PROVE  \E k \in Virtual : p \in Covers(k)
      OBVIOUS
    <3>1. p \in W!Span(x.addr, x.len)
      BY <1>2 DEF W!Span
    <3>2. PICK m \in trackers : m.base <= p /\ p < m.end
      BY <3>1 DEF W!Owned
    <3>3. m \in Virtual /\ KeyOK(m)
      BY <1>0 DEF Virtual, Listed
    <3> QED
      BY <1>2, <3>2, <3>3, CoversIs
  <2>4. x.addr .. x.addr + x.len - x.left - 1 = {} /\ x.addr + x.len - x.left = x.addr
    BY <1>2
  <2>5. \A u \in MapThreads : Unmaps(call'[u]) =>
          /\ \A p \in call'[u].addr + call'[u].len - call'[u].left .. call'[u].addr + call'[u].len - 1 :
               \E k \in Virtual : p \in Covers(k)
          /\ \A p \in call'[u].addr .. call'[u].addr + call'[u].len - call'[u].left - 1 :
               \A k \in Virtual : p \notin Covers(k)
          /\ \A k \in Back(call'[u]) : Covers(k) \cap Extent(call'[u]) = {}
    <3> SUFFICES ASSUME NEW u \in MapThreads, Unmaps(call'[u]) PROVE
          /\ \A p \in call'[u].addr + call'[u].len - call'[u].left .. call'[u].addr + call'[u].len - 1 :
               \E k \in Virtual : p \in Covers(k)
          /\ \A p \in call'[u].addr .. call'[u].addr + call'[u].len - call'[u].left - 1 :
               \A k \in Virtual : p \notin Covers(k)
          /\ \A k \in Back(call'[u]) : Covers(k) \cap Extent(call'[u]) = {}
      OBVIOUS
    <3>1. CASE u = t
      BY <1>1, <1>3, <2>3, <2>4, <3>1
    <3>2. CASE u # t
      BY <1>0, <1>1, <3>2 DEF Covering
    <3> QED
      BY <3>1, <3>2
  <2> QED
    BY <1>4, <2>2, <2>5 DEF Covering
<1>10. Promises'
  <2>1. \A p : Unmapping(p)' <=> Unmapping(p) \/ p \in Extent(x)
    BY <1>1, <1>2 DEF Unmapping
  <2>2. \A p \in W!Page : promise'[p] = IF p \in Extent(x) THEN W!Free ELSE promise[p]
    BY DEF W!Set, Extent
  <2> QED
    BY <1>0, <1>4, <2>1, <2>2 DEF Promises, W!Page
<1> QED
  BY <1>5, <1>6, <1>7, <1>8, <1>9, <1>10 DEF WmGood

LEMMA RangeIs ==
    ASSUME WmConstants, NEW r \in W!Ranges
    PROVE  /\ r[1] \in Nat /\ r[2] \in Nat \ {0} /\ r[1] + r[2] <= NPages /\ r[1] # W!NoRange
  BY DEF W!Ranges, W!Page, WmConstants, W!NoRange

LEMMA IdleIs ==
    /\ W!Idle \in Calls /\ W!Idle.pc = "idle" /\ W!Idle.map = FALSE /\ W!Idle.back = <<>>
    /\ W!Idle.reserved = FALSE /\ W!Idle.fixed = FALSE /\ W!Idle.addr = W!NoRange
    /\ CallOK(W!Idle) /\ ~Unmaps(W!Idle) /\ Mine(W!Idle) = {}
<1>1. /\ W!Idle \in Calls /\ W!Idle.pc = "idle" /\ W!Idle.map = FALSE /\ W!Idle.back = <<>>
      /\ W!Idle.reserved = FALSE /\ W!Idle.fixed = FALSE /\ W!Idle.addr = W!NoRange
  BY DEF W!Idle, Calls, W!NoRange
<1> QED
  BY <1>1 DEF CallOK, Unmaps, Mine

LEMMA MmapInv ==
    ASSUME WmConstants, WmGood, NEW t \in MapThreads, NEW addr \in Int, NEW len \in Nat \ {0},
           NEW off \in 0 .. FileSize - 1,
           addr = W!NoRange \/ (addr >= 0 /\ addr + len <= NPages), W!mmap(t, addr, len, off)
    PROVE  WmGood' /\ Honest
<1> DEFINE c == [W!Idle EXCEPT !.addr = addr, !.len = len, !.off = off,
                               !.fixed = addr # W!NoRange, !.map = TRUE]
<1>0. WmTypeOK /\ Mapped
  BY DEF WmGood
<1>1. /\ call[t].pc = "idle" /\ UNCHANGED <<mem, trackers, qlock, leaked>>
      /\ CallOK(call[t]) /\ ~Unmaps(call[t]) /\ Mine(call[t]) = {}
  BY <1>0 DEF W!mmap, WmTypeOK, Unmaps, Mine
<1>2. off \in Nat /\ off < FileSize
  BY DEF WmConstants
<1>3. /\ c \in Calls /\ c.addr = addr /\ c.len = len /\ c.off = off /\ c.fixed = (addr # W!NoRange)
      /\ c.map = TRUE /\ c.reserved = FALSE /\ c.back = <<>>
  BY <1>2, IdleIs DEF Calls
<1>4. /\ c.fixed => W!Owned(t, addr, len)
      /\ promise' = IF c.fixed THEN W!Set(promise, addr, len, W!Free) ELSE promise
      /\ IF c.fixed THEN call' = [call EXCEPT ![t] = [c EXCEPT !.pc = "unmap", !.left = len]]
         ELSE call' = [call EXCEPT ![t] = [c EXCEPT !.pc = "map"]]
  BY DEF W!mmap, W!Do
<1> HIDE DEF c
<1>5. CASE addr # W!NoRange
  <2> DEFINE x == [c EXCEPT !.pc = "unmap", !.left = len]
  <2>1. /\ x \in Calls /\ x.pc = "unmap" /\ x.left = len /\ x.len = len /\ x.addr = addr
        /\ x.off = off /\ x.map = TRUE /\ x.back = <<>> /\ x.reserved = FALSE /\ x.fixed = TRUE
    BY <1>3, <1>5 DEF Calls
  <2>2. call' = [call EXCEPT ![t] = x]
    BY <1>3, <1>4, <1>5
  <2> HIDE DEF x
  <2>3. CallOK(x)
    BY <1>2, <1>5, <2>1 DEF CallOK, Unmaps, Placed
  <2> QED
    BY <1>1, <1>3, <1>4, <1>5, <2>1, <2>2, <2>3, StartStep
<1>6. CASE addr = W!NoRange
  <2> DEFINE x == [c EXCEPT !.pc = "map"]
  <2>1. /\ x \in Calls /\ x.pc = "map" /\ x.len = len /\ x.addr = addr /\ x.off = off
        /\ x.map = TRUE /\ x.back = <<>> /\ x.reserved = FALSE /\ x.fixed = FALSE
    BY <1>3, <1>6 DEF Calls
  <2>2. call' = [call EXCEPT ![t] = x] /\ promise' = promise
    BY <1>3, <1>4, <1>6
  <2> HIDE DEF x
  <2>3. CallOK(x) /\ ~Unmaps(x) /\ Mine(x) = {}
    BY <1>2, <1>6, <2>1 DEF CallOK, Unmaps, Placed, Mine
  <2>4. mem' \in [W!Page -> {W!Free, W!Reserved} \cup {W!View(n) : n \in Nat}]
    BY <1>0, <1>1 DEF WmTypeOK
  <2>5. WmTypeOK' /\ Listed' /\ Holding' /\ Covering' /\ Promises'
    BY <1>1, <2>2, <2>3, <2>4, SideStep
  <2>6. call'[t] = x /\ \A u \in MapThreads \ {t} : call'[u] = call[u]
    BY <1>0, <2>2, <2>3, Becomes
  <2>7. Mapped' /\ Honest
    <3>1. \A u \in MapThreads : Mine(call'[u]) = Mine(call[u])
      BY <1>1, <2>3, <2>6
    <3>2. \A u \in MapThreads : \A p \in Mine(call[u]) : KeyOf(call'[u]) = KeyOf(call[u])
      BY <1>1, <2>6
    <3> QED
      BY <1>0, <1>1, <3>1, <3>2, MappedSame
  <2> QED
    BY <2>5, <2>7 DEF WmGood
<1> QED
  BY <1>5, <1>6

LEMMA MunmapInv ==
    ASSUME WmConstants, WmGood, NEW t \in MapThreads, NEW addr \in Int, NEW len \in Nat,
           addr >= 0, len > 0, addr + len <= NPages, W!munmap(t, addr, len)
    PROVE  WmGood' /\ Honest
<1> DEFINE x == [W!Idle EXCEPT !.pc = "unmap", !.addr = addr, !.len = len, !.left = len]
<1>1. /\ x \in Calls /\ x.pc = "unmap" /\ x.left = len /\ x.len = len /\ x.addr = addr
      /\ x.map = FALSE /\ x.back = <<>> /\ x.reserved = FALSE
  BY IdleIs DEF Calls
<1>2. /\ call[t].pc = "idle" /\ W!Owned(t, addr, len) /\ promise' = W!Set(promise, addr, len, W!Free)
      /\ UNCHANGED <<mem, trackers, qlock, leaked>> /\ call' = [call EXCEPT ![t] = x]
  BY DEF W!munmap, W!Do
<1> HIDE DEF x
<1>3. CallOK(x)
  BY <1>1 DEF CallOK, Unmaps, Placed
<1> QED
  BY <1>1, <1>2, <1>3, StartStep

\* A call that maps or reserves the free addresses New, or gives up.
LEMMA MappedGrows ==
    ASSUME WmTypeOK, Mapped, NEW t \in MapThreads, NEW x, CallOK(x), call' = [call EXCEPT ![t] = x],
           UNCHANGED <<trackers, leaked>>, NEW New, New \subseteq W!Page,
           Mine(x) = Mine(call[t]) \cup New, \A p \in New : mem[p] = W!Free,
           \A p \in W!Page \ New : mem'[p] = mem[p],
           \A p \in Mine(x) : mem'[p] = Content(KeyOf(x), p),
           \A m \in trackers : Covers(m) \subseteq W!Page,
           \A u \in MapThreads : Mine(call[u]) \subseteq W!Page
    PROVE  Mapped' /\ Honest
<1>1. call'[t] = x /\ \A u \in MapThreads \ {t} : call'[u] = call[u]
  BY Becomes
<1>2. \A m \in trackers : Covers(m) \cap New = {}
  BY ContentIs DEF Mapped
<1>3. \A u \in MapThreads : Mine(call[u]) \cap New = {}
  BY ContentIs DEF Mapped
<1>4. \A m \in trackers' : \A p \in Covers(m) : mem'[p] = Content(m, p)
  BY <1>2 DEF Mapped
<1>5. \A u \in MapThreads : \A p \in Mine(call'[u]) : mem'[p] = Content(KeyOf(call'[u]), p)
  <2> SUFFICES ASSUME NEW u \in MapThreads, NEW p \in Mine(call'[u])
               PROVE  mem'[p] = Content(KeyOf(call'[u]), p)
    OBVIOUS
  <2>1. CASE u = t
    BY <1>1, <2>1
  <2>2. CASE u # t
    <3>1. call'[u] = call[u] /\ p \in W!Page \ New
      BY <1>1, <1>3, <2>2
    <3> QED
      BY <3>1 DEF Mapped
  <2> QED
    BY <2>1, <2>2
<1>6. \A p \in W!Page \ leaked' : \/ mem'[p] = W!Free
                                  \/ \E m \in trackers' : p \in Covers(m)
                                  \/ \E u \in MapThreads : p \in Mine(call'[u])
  <2> SUFFICES ASSUME NEW p \in W!Page \ leaked', mem'[p] # W!Free, \A m \in trackers' : p \notin Covers(m)
               PROVE  \E u \in MapThreads : p \in Mine(call'[u])
    OBVIOUS
  <2>1. CASE p \in New
    BY <1>1, <2>1
  <2>2. CASE p \notin New
    <3>1. PICK u \in MapThreads : p \in Mine(call[u])
      BY <2>2 DEF Mapped
    <3> QED
      BY <1>1, <3>1
  <2> QED
    BY <2>1, <2>2
<1>7. \A u, v \in MapThreads : u # v => Mine(call'[u]) \cap Mine(call'[v]) = {}
  BY <1>1, <1>3 DEF Mapped
<1>8. \A u \in MapThreads, m \in trackers' : Mine(call'[u]) \cap Covers(m) = {}
  BY <1>1, <1>2 DEF Mapped
<1>9. Honest
  BY <1>1 DEF Honest, Claimed
<1> QED
  BY <1>4, <1>5, <1>6, <1>7, <1>8, <1>9 DEF Mapped, W!Page

\* Trackers and calls stand for addresses of the space.
LEMMA Inside ==
    ASSUME WmConstants, WmTypeOK, Listed
    PROVE  /\ \A k \in Virtual : Covers(k) \subseteq W!Page
           /\ \A m \in trackers : Covers(m) \subseteq W!Page
           /\ \A t \in MapThreads : Mine(call[t]) \subseteq W!Page
<1>1. \A k \in Virtual : Covers(k) \subseteq W!Page
  <2> SUFFICES ASSUME NEW k \in Virtual, NEW p \in Covers(k) PROVE p \in W!Page
    OBVIOUS
  <2>1. KeyOK(k)
    BY DEF Listed
  <2> QED
    BY <2>1, CoversIs DEF KeyOK, Trackers, W!Page, WmConstants
<1>2. ASSUME NEW t \in MapThreads, NEW p \in Mine(call[t]) PROVE p \in W!Page
  <2>1. CallOK(call[t]) /\ call[t] \in Calls
    BY DEF WmTypeOK, CallOK
  <2>2. call[t].addr \in Int /\ call[t].len \in Nat /\ call[t].off \in Nat
    BY <2>1 DEF Calls
  <2>3. CASE call[t].pc = "insert"
    <3>1. Placed(call[t]) /\ p \in W!Span(call[t].addr, call[t].len)
      BY <1>2, <2>1, <2>3 DEF CallOK, Mine, Extent
    <3> QED
      BY <2>2, <3>1, SpanIs DEF Placed, W!Page, WmConstants
  <2>4. CASE call[t].pc # "insert"
    <3>1. call[t].pc = "map" /\ call[t].reserved
          /\ p \in W!Span(call[t].addr + Flen(call[t]), call[t].len - Flen(call[t]))
      BY <1>2, <2>4 DEF Mine
    <3>2. Placed(call[t]) /\ call[t].off < FileSize /\ call[t].off + call[t].len > FileSize
      BY <2>1, <3>1 DEF CallOK, W!NoRange
    <3>3. Flen(call[t]) \in Nat
      BY <2>2, <3>2 DEF Flen, W!FileLen, WmConstants
    <3> QED
      BY <2>2, <3>1, <3>2, <3>3, SpanIs DEF Placed, W!Page, WmConstants
  <2> QED
    BY <2>3, <2>4
<1> QED
  BY <1>1, <1>2 DEF Virtual

LEMMA FileLenIs ==
    ASSUME WmConstants, NEW c \in Calls, c.off < FileSize, c.len > 0
    PROVE  /\ Flen(c) \in Nat \ {0} /\ Flen(c) <= c.len
           /\ c.off + c.len <= FileSize => Flen(c) = c.len
           /\ c.off + c.len > FileSize => Flen(c) < c.len
<1>1. c.off \in Nat /\ c.len \in Nat
  BY SMTT(40) DEF Calls
<1> QED
  BY <1>1 DEF Flen, W!FileLen, WmConstants

LEMMA ReserveInv ==
    ASSUME WmConstants, WmGood, NEW t \in MapThreads, W!Reserve(t)
    PROVE  WmGood' /\ Honest
<1> DEFINE c == call[t]
           f == Flen(c)
<1>0. WmTypeOK /\ Listed /\ Mapped
  BY DEF WmGood
<1>1. /\ c.pc = "map" /\ c.off + c.len > FileSize /\ ~c.reserved
      /\ UNCHANGED <<trackers, qlock, leaked, astray, promise>>
  BY DEF W!Reserve
<1>2. /\ CallOK(c) /\ c \in Calls /\ ~Unmaps(c) /\ Mine(c) = {} /\ c.map = TRUE
      /\ c.off < FileSize /\ c.len > 0 /\ c.len \in Nat /\ c.off \in Nat /\ c.back = <<>>
  BY <1>0, <1>1 DEF WmTypeOK, CallOK, Unmaps, Mine, Calls
<1>3. f \in Nat \ {0} /\ f < c.len
  BY <1>1, <1>2, FileLenIs
<1>4. ASSUME NEW b \in Int, W!IsFree(mem, b, c.len),
             mem' = W!Set(mem, b + f, c.len - f, W!Reserved),
             call' = [call EXCEPT ![t] = [c EXCEPT !.addr = b, !.reserved = TRUE]]
      PROVE  WmGood' /\ Honest
  <2> DEFINE x == [c EXCEPT !.addr = b, !.reserved = TRUE]
             New == W!Span(b + f, c.len - f)
  <2>1. /\ x \in Calls /\ x.addr = b /\ x.reserved = TRUE /\ x.pc = c.pc /\ x.len = c.len
        /\ x.off = c.off /\ x.map = c.map /\ x.back = c.back
    BY <1>2 DEF Calls
  <2>2. call' = [call EXCEPT ![t] = x]
    BY <1>4
  <2> HIDE DEF x
  <2>3. b \in W!Page /\ b + c.len - 1 \in W!Page
    BY <1>2, <1>4, SpanIs, SMTT(40) DEF W!IsFree
  <2>4. Placed(x) /\ Flen(x) = f
    BY <1>2, <2>1, <2>3 DEF Placed, W!Page, WmConstants, Flen
  <2>5. CallOK(x) /\ ~Unmaps(x)
    BY <1>1, <1>2, <2>1, <2>4 DEF CallOK, Unmaps
  <2>6. Mine(x) = New
    BY <1>1, <2>1, <2>4 DEF Mine
  <2>7. \A p \in New : p \in W!Span(b, c.len)
    BY <1>2, <1>3 DEF W!Span
  <2>8. New \subseteq W!Page /\ \A p \in New : mem[p] = W!Free
    BY <1>4, <2>7 DEF W!IsFree
  <2>9. /\ mem' \in [W!Page -> {W!Free, W!Reserved} \cup {W!View(n) : n \in Nat}]
        /\ \A p \in W!Page : mem'[p] = IF p \in New THEN W!Reserved ELSE mem[p]
    BY <1>0, <1>4 DEF WmTypeOK, W!Set
  <2>10. \A p \in Mine(x) : mem'[p] = Content(KeyOf(x), p)
    <3> SUFFICES ASSUME NEW p \in New PROVE mem'[p] = Content(KeyOf(x), p)
      BY <2>6
    <3>1. ~(p < b + f)
      BY <1>2, <1>3, SpanIs
    <3>2. KeyOf(x).base = b /\ KeyOf(x).flen = f
      BY <2>1, <2>4 DEF KeyOf
    <3> QED
      BY <2>8, <2>9, <3>1, <3>2 DEF Content
  <2>11. WmTypeOK' /\ Listed' /\ Holding' /\ Covering' /\ Promises'
    BY <1>1, <1>2, <2>2, <2>5, <2>9, SideStep
  <2> HIDE DEF New
  <2>12. Mine(x) = Mine(call[t]) \cup New
    BY <1>2, <2>6
  <2>13. \A p \in W!Page \ New : mem'[p] = mem[p]
    BY <2>9
  <2>14. Mapped' /\ Honest
    BY <1>0, <1>1, <2>2, <2>5, <2>8, <2>10, <2>12, <2>13, Inside, MappedGrows
  <2> QED
    BY <2>11, <2>14 DEF WmGood
<1>5. ASSUME mem' = mem, call' = [call EXCEPT ![t] = W!Idle]
      PROVE  WmGood' /\ Honest
  <2>1. mem' \in [W!Page -> {W!Free, W!Reserved} \cup {W!View(n) : n \in Nat}]
    BY <1>0, <1>5 DEF WmTypeOK
  <2>2. WmTypeOK' /\ Listed' /\ Holding' /\ Covering' /\ Promises'
    BY <1>1, <1>2, <1>5, <2>1, IdleIs, SideStep
  <2>3. Mapped' /\ Honest
    BY <1>0, <1>1, <1>2, <1>5, IdleIs, Inside, MappedGrows
  <2> QED
    BY <2>2, <2>3 DEF WmGood
<1>6. \A b \in IF c.fixed THEN {c.addr} ELSE W!Page : b \in Int
  BY <1>2 DEF Calls, W!Page
<1> QED
  BY <1>4, <1>5, <1>6 DEF W!Reserve, W!Do, Flen

\* mmap fails, and what it had mapped or reserved is leaked.
LEMMA GiveUp ==
    ASSUME WmConstants, WmGood, Lost, NEW t \in MapThreads, ~Unmaps(call[t]),
           call' = [call EXCEPT ![t] = W!Idle], UNCHANGED <<mem, trackers, qlock, promise>>,
           leaked' = leaked \cup Mine(call[t])
    PROVE  WmGood' /\ Lost'
<1>0. WmTypeOK /\ Listed /\ Mapped
  BY DEF WmGood
<1>1. call'[t] = W!Idle /\ \A u \in MapThreads \ {t} : call'[u] = call[u]
  BY <1>0, IdleIs, Becomes
<1>2. \A u \in MapThreads : Mine(call'[u]) = IF u = t THEN {} ELSE Mine(call[u])
  <2>1. Mine(call'[t]) = {} /\ \A u \in MapThreads \ {t} : Mine(call'[u]) = Mine(call[u])
    BY <1>1, IdleIs
  <2> QED
    BY <2>1
<1>3. mem' \in [W!Page -> {W!Free, W!Reserved} \cup {W!View(n) : n \in Nat}]
  BY <1>0 DEF WmTypeOK
<1>4. WmTypeOK' /\ Listed' /\ Holding' /\ Covering' /\ Promises'
  BY <1>3, IdleIs, SideStep
<1>5. Mapped'
  <2>1. \A m \in trackers' : \A p \in Covers(m) : mem'[p] = Content(m, p)
    BY <1>0 DEF Mapped
  <2>2. \A u \in MapThreads : \A p \in Mine(call'[u]) : mem'[p] = Content(KeyOf(call'[u]), p)
    BY <1>0, <1>1, <1>2 DEF Mapped
  <2>3. \A p \in W!Page \ leaked' : \/ mem'[p] = W!Free
                                    \/ \E m \in trackers' : p \in Covers(m)
                                    \/ \E u \in MapThreads : p \in Mine(call'[u])
    BY <1>0, <1>2 DEF Mapped
  <2>4. \A u, v \in MapThreads : u # v => Mine(call'[u]) \cap Mine(call'[v]) = {}
    BY <1>0, <1>2 DEF Mapped
  <2>5. \A u \in MapThreads, m \in trackers' : Mine(call'[u]) \cap Covers(m) = {}
    BY <1>0, <1>2 DEF Mapped
  <2> QED
    BY <2>1, <2>2, <2>3, <2>4, <2>5 DEF Mapped, W!Page
<1>6. ASSUME NEW p \in leaked'
      PROVE  p \in W!Page /\ mem'[p] # W!Free /\ ~Claimed(p)'
  <2>1. CASE p \in leaked
    BY <1>2, <2>1 DEF Lost, Claimed
  <2>2. CASE p \in Mine(call[t])
    <3>1. p \in W!Page
      BY <1>0, <2>2, Inside
    <3>2. mem[p] # W!Free
      BY <1>0, <2>2, ContentIs DEF Mapped
    <3>3. /\ \A m \in trackers : p \notin Covers(m)
          /\ \A u \in MapThreads \ {t} : p \notin Mine(call[u])
      BY <1>0, <2>2, SMTT(40) DEF Mapped
    <3> QED
      BY <1>2, <3>1, <3>2, <3>3 DEF Claimed
  <2> QED
    BY <1>6, <2>1, <2>2
<1> QED
  BY <1>4, <1>5, <1>6 DEF WmGood, Lost, W!Page

LEMMA MapViewInv ==
    ASSUME WmConstants, WmGood, Lost, astray = FALSE, NEW t \in MapThreads, W!MapView(t)
    PROVE  astray' \in BOOLEAN /\ (astray' \/ (WmGood' /\ Lost'))
<1> DEFINE c == call[t]
           f == Flen(c)
<1>0. WmTypeOK /\ Listed /\ Mapped
  BY SMTT(40) DEF WmGood
<1>1. /\ c.pc = "map" /\ (c.reserved \/ c.off + c.len <= FileSize)
      /\ UNCHANGED <<trackers, qlock, promise>>
  BY DEF W!MapView
<1>2. /\ CallOK(c) /\ c \in Calls /\ ~Unmaps(c) /\ c.map = TRUE
      /\ c.off < FileSize /\ c.len > 0 /\ c.len \in Nat /\ c.off \in Nat /\ c.back = <<>>
      /\ c.addr \in Int /\ c.reserved \in BOOLEAN
  BY <1>0, <1>1 DEF WmTypeOK, CallOK, Unmaps, Calls
<1>3. /\ f \in Nat \ {0} /\ f <= c.len /\ (~c.reserved => f = c.len)
  BY <1>1, <1>2, FileLenIs
<1>4. ASSUME NEW b \in Int, W!IsFree(mem, b, f), c.reserved => b = c.addr,
             mem' = W!MapViewAt(mem, b, f, c.off), leaked' = leaked,
             call' = [call EXCEPT ![t] = [c EXCEPT !.pc = "insert", !.addr = b]]
      PROVE  WmGood' /\ Lost'
  <2> DEFINE x == [c EXCEPT !.pc = "insert", !.addr = b]
             New == W!Span(b, f)
  <2>1. /\ x \in Calls /\ x.addr = b /\ x.reserved = c.reserved /\ x.pc = "insert" /\ x.len = c.len
        /\ x.off = c.off /\ x.map = c.map /\ x.back = c.back
    BY <1>2 DEF Calls
  <2>2. call' = [call EXCEPT ![t] = x]
    BY <1>4
  <2> HIDE DEF x
  <2>3. b \in W!Page /\ b + f - 1 \in W!Page
    BY <1>3, <1>4, SpanIs DEF W!IsFree
  <2>4. Placed(x)
    <3>1. CASE c.reserved
      <4>1. Placed(c)
        BY <1>1, <1>2, <3>1 DEF CallOK
      <4> QED
        BY <1>4, <2>1, <3>1, <4>1 DEF Placed
    <3>2. CASE ~c.reserved
      BY <1>2, <1>3, <2>1, <2>3, <3>2 DEF Placed, W!Page, WmConstants
    <3> QED
      BY <3>1, <3>2
  <2>5. CallOK(x) /\ ~Unmaps(x) /\ Flen(x) = f
    BY <1>2, <2>1, <2>4 DEF CallOK, Unmaps, Flen
  <2>6. Mine(x) = W!Span(b, c.len)
    BY <2>1 DEF Mine, Extent
  <2>7. Mine(c) = IF c.reserved THEN W!Span(b + f, c.len - f) ELSE {}
    BY <1>1, <1>4 DEF Mine
  <2>8. New \subseteq W!Page /\ \A p \in New : mem[p] = W!Free
    BY <1>4 DEF W!IsFree
  <2>9. \A p \in W!Page : mem'[p] = IF p \in New THEN W!View(c.off + (p - b)) ELSE mem[p]
    BY <1>4 DEF W!MapViewAt
  <2>10. mem' \in [W!Page -> {W!Free, W!Reserved} \cup {W!View(n) : n \in Nat}]
    <3>1. \A p \in New : c.off + (p - b) \in Nat
      BY <1>2, <1>3, <1>4, SpanIs
    <3>2. \A p \in W!Page : mem'[p] \in {W!Free, W!Reserved} \cup {W!View(n) : n \in Nat}
      BY <1>0, <2>9, <3>1 DEF WmTypeOK
    <3>3. DOMAIN mem' = W!Page /\ mem' = [p \in W!Page |-> mem'[p]]
      BY <1>4 DEF W!MapViewAt
    <3> QED
      BY <3>2, <3>3
  <2>11. Mine(x) = Mine(c) \cup New
    <3>1. CASE c.reserved
      <4>1. \A p : p \in W!Span(b, c.len) <=> p \in W!Span(b + f, c.len - f) \/ p \in New
        BY <1>2, <1>3, SpanIs
      <4> QED
        BY <2>6, <2>7, <3>1, <4>1
    <3>2. CASE ~c.reserved
      BY <1>3, <2>6, <2>7, <3>2
    <3> QED
      BY <3>1, <3>2
  <2>12. \A p \in Mine(x) : mem'[p] = Content(KeyOf(x), p)
    <3> SUFFICES ASSUME NEW p \in Mine(x) PROVE mem'[p] = Content(KeyOf(x), p)
      OBVIOUS
    <3>1. KeyOf(x).base = b /\ KeyOf(x).flen = f /\ KeyOf(x).off = c.off
      BY <2>1, <2>5 DEF KeyOf
    <3>2. CASE p \in New
      <4>1. p < b + f
        BY <1>3, <3>2, SpanIs
      <4> QED
        BY <2>8, <2>9, <3>1, <3>2, <4>1 DEF Content
    <3>3. CASE p \notin New
      <4>1. p \in Mine(c) /\ c.reserved
        BY <2>7, <2>11, <3>3
      <4>2. p \in W!Page /\ mem[p] = Content(KeyOf(c), p)
        BY <1>0, <4>1, Inside DEF Mapped
      <4>3. KeyOf(c).base = b /\ KeyOf(c).flen = f /\ KeyOf(c).off = c.off
        BY <1>4, <4>1 DEF KeyOf
      <4> QED
        BY <2>9, <3>1, <3>3, <4>2, <4>3 DEF Content
    <3> QED
      BY <3>2, <3>3
  <2>13. WmTypeOK' /\ Listed' /\ Holding' /\ Covering' /\ Promises'
    BY <1>1, <1>2, <2>2, <2>5, <2>10, SideStep
  <2> HIDE DEF New
  <2>14. \A p \in W!Page \ New : mem'[p] = mem[p]
    BY <2>9
  <2>15. Mapped' /\ Honest
    BY <1>0, <1>1, <1>4, <2>2, <2>5, <2>8, <2>11, <2>12, <2>14, Inside, MappedGrows
  <2> QED
    BY <2>13, <2>15, LostKept DEF WmGood
<1>5. ASSUME mem' = mem, call' = [call EXCEPT ![t] = W!Idle],
             leaked' = IF c.reserved THEN leaked \cup W!Span(c.addr + f, c.len - f) ELSE leaked
      PROVE  WmGood' /\ Lost'
  <2>1. leaked' = leaked \cup Mine(c)
    BY <1>1, <1>5 DEF Mine
  <2> QED
    BY <1>1, <1>2, <1>5, <2>1, GiveUp
<1>6. ASSUME NEW b, b \in (IF c.addr # W!NoRange /\ W!IsFree(mem, c.addr, f) THEN {c.addr}
                           ELSE IF c.fixed THEN {} ELSE {q \in W!Page : W!IsFree(mem, q, f)})
      PROVE  b \in Int /\ W!IsFree(mem, b, f)
  BY <1>2, <1>6 DEF W!Page
<1>7. \/ /\ astray' = astray /\ mem' = mem /\ call' = [call EXCEPT ![t] = W!Idle]
         /\ leaked' = IF c.reserved THEN leaked \cup W!Span(c.addr + f, c.len - f) ELSE leaked
      \/ \E b \in (IF c.addr # W!NoRange /\ W!IsFree(mem, c.addr, f) THEN {c.addr}
                   ELSE IF c.fixed THEN {} ELSE {q \in W!Page : W!IsFree(mem, q, f)}) :
           /\ mem' = W!MapViewAt(mem, b, f, c.off) /\ leaked' = leaked
           /\ astray' = (astray \/ (c.reserved /\ b # c.addr))
           /\ call' = [call EXCEPT ![t] = [c EXCEPT !.pc = "insert", !.addr = b]]
  BY DEF W!MapView, W!Do, Flen
<1>8. CASE \E b \in (IF c.addr # W!NoRange /\ W!IsFree(mem, c.addr, f) THEN {c.addr}
                     ELSE IF c.fixed THEN {} ELSE {q \in W!Page : W!IsFree(mem, q, f)}) :
              /\ mem' = W!MapViewAt(mem, b, f, c.off) /\ leaked' = leaked
              /\ astray' = (astray \/ (c.reserved /\ b # c.addr))
              /\ call' = [call EXCEPT ![t] = [c EXCEPT !.pc = "insert", !.addr = b]]
  BY <1>2, <1>4, <1>6, <1>8
<1> QED
  BY <1>5, <1>7, <1>8

LEMMA InsertInv ==
    ASSUME WmConstants, WmGood, NEW t \in MapThreads, W!Insert(t)
    PROVE  WmGood' /\ Honest
<1> DEFINE c == call[t]
           k == KeyOf(c)
<1>0. WmTypeOK /\ Listed /\ Holding /\ Mapped /\ Covering /\ Promises
  BY DEF WmGood
<1>1. /\ c.pc = "insert" /\ qlock = W!Nobody /\ trackers' = trackers \cup {k}
      /\ promise' = W!MapViewAt(W!Set(promise, c.addr, c.len, W!Reserved), c.addr, Flen(c), c.off)
      /\ call' = [call EXCEPT ![t] = W!Idle] /\ UNCHANGED <<mem, qlock, leaked>>
  BY DEF W!Insert, W!Do, KeyOf, Flen
<1>2. /\ CallOK(c) /\ c \in Calls /\ ~Unmaps(c) /\ Placed(c) /\ Mine(c) = Extent(c)
      /\ c.off < FileSize /\ c.len > 0 /\ c.len \in Nat /\ c.off \in Nat /\ c.back = <<>>
      /\ c.addr \in Int
  BY <1>0, <1>1 DEF WmTypeOK, CallOK, Unmaps, Calls, Mine
<1>3. /\ Flen(c) \in Nat \ {0} /\ Flen(c) <= c.len
  BY <1>2, FileLenIs
<1>4. KeyOK(k) /\ Covers(k) = Extent(c)
  <2>1. /\ k.base = c.addr /\ k.end = c.addr + c.len /\ k.off = c.off /\ k.flen = Flen(c)
        /\ k \in Trackers
    BY <1>2, <1>3 DEF KeyOf, Trackers, Placed
  <2>2. k.end - k.base = c.len
    BY <1>2, <2>1
  <2> QED
    BY <1>2, <1>3, <2>1, <2>2 DEF KeyOK, Covers, Extent, Placed
<1>5. /\ call' \in [MapThreads -> Calls] /\ \A u \in MapThreads : CallOK(call'[u])
      /\ call'[t] = W!Idle /\ \A u \in MapThreads \ {t} : call'[u] = call[u]
  BY <1>0, <1>1, IdleIs, Becomes
<1> HIDE DEF k
<1>6. \A u \in MapThreads : Back(call[u]) = {} /\ Back(call'[u]) = {} /\ call[u].pc # "remap"
  <2>1. \A u \in MapThreads : call[u].pc # "remap"
    BY <1>0, <1>1 DEF Holding, WmConstants
  <2>2. \A u \in MapThreads : call'[u].pc # "remap"
    BY <1>5, <2>1, IdleIs
  <2> QED
    BY <1>0, <1>5, <2>1, <2>2, NoBack DEF WmTypeOK
<1>7. Virtual = trackers /\ Virtual' = trackers \cup {k}
  BY <1>1, <1>6 DEF Virtual
<1>8. \A m \in trackers : Covers(m) \cap Covers(k) = {}
  BY <1>0, <1>2, <1>4 DEF Mapped
<1>9. \A u \in MapThreads : Unmaps(call'[u]) <=> Unmaps(call[u])
  BY <1>2, <1>5, IdleIs
<1>10. \A u \in MapThreads : Unmaps(call'[u]) => call'[u] = call[u]
  BY <1>5, IdleIs
<1>11. ASSUME NEW u \in MapThreads, Unmaps(call[u])
       PROVE  /\ call[u].left = call[u].len /\ call[u].addr \in Int /\ call[u].len \in Nat
              /\ Covers(k) \cap Extent(call[u]) = {}
  <2>1. call[u].left = call[u].len
    BY <1>0, <1>1, <1>11 DEF Holding, WmConstants
  <2>2. call[u].addr \in Int /\ call[u].len \in Nat
    BY <1>0 DEF WmTypeOK, Calls
  <2>3. \A p \in Extent(call[u]) : \E m \in trackers : p \in Covers(m)
    <3> SUFFICES ASSUME NEW p \in Extent(call[u]) PROVE \E m \in trackers : p \in Covers(m)
      OBVIOUS
    <3>1. p \in call[u].addr + call[u].len - call[u].left .. call[u].addr + call[u].len - 1
      BY <2>1, <2>2 DEF Extent, W!Span
    <3> QED
      BY <1>0, <1>7, <1>11, <3>1 DEF Covering
  <2> QED
    BY <1>8, <2>1, <2>2, <2>3
<1>12. WmTypeOK'
  BY <1>0, <1>1, <1>5 DEF WmTypeOK, W!MapViewAt, W!Page
<1>13. Listed'
  BY <1>0, <1>4, <1>7, <1>8 DEF Listed
<1>14. Holding'
  BY <1>0, <1>1, <1>5, <1>9, <1>10, IdleIs DEF Holding
<1>15. Mapped'
  <2>1. \A u \in MapThreads : Mine(call'[u]) = IF u = t THEN {} ELSE Mine(call[u])
    BY <1>5, IdleIs
  <2>2. \A m \in trackers' : \A p \in Covers(m) : mem'[p] = Content(m, p)
    <3>1. \A p \in Covers(k) : mem'[p] = Content(k, p)
      BY <1>0, <1>1, <1>2, <1>4 DEF Mapped, k
    <3> QED
      BY <1>0, <1>1, <3>1 DEF Mapped
  <2>3. \A u \in MapThreads : \A p \in Mine(call'[u]) : mem'[p] = Content(KeyOf(call'[u]), p)
    BY <1>0, <1>1, <1>5, <2>1 DEF Mapped
  <2>4. \A p \in W!Page \ leaked' : \/ mem'[p] = W!Free
                                    \/ \E m \in trackers' : p \in Covers(m)
                                    \/ \E u \in MapThreads : p \in Mine(call'[u])
    BY <1>0, <1>1, <1>2, <1>4, <2>1 DEF Mapped
  <2>5. \A u, v \in MapThreads : u # v => Mine(call'[u]) \cap Mine(call'[v]) = {}
    BY <1>0, <2>1 DEF Mapped
  <2>6. \A u \in MapThreads, m \in trackers' : Mine(call'[u]) \cap Covers(m) = {}
    <3>1. \A u \in MapThreads \ {t} : Mine(call[u]) \cap Covers(k) = {}
      BY <1>0, <1>2, <1>4 DEF Mapped
    <3>2. \A u \in MapThreads, m \in trackers : Mine(call[u]) \cap Covers(m) = {}
      BY <1>0 DEF Mapped
    <3> QED
      BY <1>1, <2>1, <3>1, <3>2
  <2> QED
    BY <2>2, <2>3, <2>4, <2>5, <2>6 DEF Mapped, W!Page
<1>16. Covering'
  <2>1. \A u, v \in MapThreads : u # v /\ Unmaps(call'[u]) /\ Unmaps(call'[v]) =>
                                   Extent(call'[u]) \cap Extent(call'[v]) = {}
    BY <1>0, <1>9, <1>10 DEF Covering
  <2>2. ASSUME NEW u \in MapThreads, Unmaps(call'[u])
        PROVE  /\ \A p \in call'[u].addr + call'[u].len - call'[u].left .. call'[u].addr + call'[u].len - 1 :
                    \E m \in Virtual' : p \in Covers(m)
               /\ \A p \in call'[u].addr .. call'[u].addr + call'[u].len - call'[u].left - 1 :
                    \A m \in Virtual' : p \notin Covers(m)
               /\ \A m \in Back(call'[u]) : Covers(m) \cap Extent(call'[u]) = {}
    <3>1. call'[u] = call[u] /\ Unmaps(call[u])
      BY <1>9, <1>10, <2>2
    <3>2. call[u].addr .. call[u].addr + call[u].len - call[u].left - 1 = {}
      BY <1>11, <3>1
    <3>3. \A p \in call[u].addr + call[u].len - call[u].left .. call[u].addr + call[u].len - 1 :
            \E m \in Virtual : p \in Covers(m)
      BY <1>0, <3>1 DEF Covering
    <3> QED
      BY <1>6, <1>7, <3>1, <3>2, <3>3
  <2> QED
    BY <2>1, <2>2 DEF Covering
<1>17. Promises'
  <2>1. \A p : Unmapping(p)' <=> Unmapping(p)
    BY <1>9, <1>10 DEF Unmapping
  <2>2. \A p \in Covers(k) : ~Unmapping(p)
    BY <1>11 DEF Unmapping
  <2>3. \A p \in W!Page \ Covers(k) : promise'[p] = promise[p]
    <3> SUFFICES ASSUME NEW p \in W!Page, p \notin Covers(k) PROVE promise'[p] = promise[p]
      OBVIOUS
    <3>1. p \notin W!Span(c.addr, c.len) /\ p \notin W!Span(c.addr, Flen(c))
      BY <1>2, <1>3, <1>4 DEF Extent, W!Span
    <3> QED
      BY <1>1, <3>1 DEF W!MapViewAt, W!Set
  <2>4. \A p \in W!Page \cap Covers(k) : promise'[p] = Content(k, p)
    <3> SUFFICES ASSUME NEW p \in W!Page, p \in Covers(k) PROVE promise'[p] = Content(k, p)
      OBVIOUS
    <3>1. k.base = c.addr /\ k.flen = Flen(c) /\ k.off = c.off
      BY DEF k, KeyOf
    <3>2. p \in W!Span(c.addr, c.len) /\ (p \in W!Span(c.addr, Flen(c)) <=> p < k.base + k.flen)
      BY <1>2, <1>3, <1>4, <3>1 DEF Extent, W!Span
    <3> QED
      BY <1>1, <3>1, <3>2 DEF W!MapViewAt, W!Set, Content
  <2>5. ASSUME NEW p \in W!Page
        PROVE  /\ Unmapping(p)' => promise'[p] = W!Free
               /\ (\A m \in Virtual' : p \notin Covers(m)) => promise'[p] = W!Free
               /\ ~Unmapping(p)' => \A m \in Virtual' : p \in Covers(m) => promise'[p] = Content(m, p)
    <3>1. CASE p \in Covers(k)
      BY <1>7, <1>8, <2>1, <2>2, <2>4, <3>1
    <3>2. CASE p \notin Covers(k)
      BY <1>0, <1>7, <2>1, <2>3, <3>2 DEF Promises
    <3> QED
      BY <3>1, <3>2
  <2> QED
    BY <2>5 DEF Promises, W!Page
<1>18. Honest
  <2>1. \A u \in MapThreads : Mine(call'[u]) = IF u = t THEN {} ELSE Mine(call[u])
    BY <1>5, IdleIs
  <2> QED
    BY <1>1, <1>2, <1>4, <2>1 DEF Honest, Claimed
<1> QED
  BY <1>12, <1>13, <1>14, <1>15, <1>16, <1>17, <1>18 DEF WmGood

LEMMA InsertFailsInv ==
    ASSUME WmConstants, WmGood, Lost, NEW t \in MapThreads, W!InsertFails(t)
    PROVE  WmGood' /\ Lost'
<1>1. /\ call[t].pc = "insert" /\ call' = [call EXCEPT ![t] = W!Idle]
      /\ leaked' = leaked \cup W!Span(call[t].addr, call[t].len)
      /\ UNCHANGED <<mem, trackers, qlock, promise>>
  BY DEF W!InsertFails, W!Do
<1>2. ~Unmaps(call[t]) /\ leaked' = leaked \cup Mine(call[t])
  BY <1>1 DEF Unmaps, Mine, Extent
<1> QED
  BY <1>1, <1>2, GiveUp

\* The pieces mmap_split makes of a tracker say what it said, outside the hole.
LEMMA PieceIs ==
    ASSUME WmConstants, NEW m, KeyOK(m), NEW begin \in Nat, NEW end \in Nat, m.base <= begin,
           begin < end, end <= m.end
    PROVE  /\ m.base < begin => /\ KeyOK(W!Before(m, begin))
                                /\ \A p : p \in Covers(W!Before(m, begin)) <=>
                                            p \in Covers(m) /\ p < begin
                                /\ \A p \in Covers(W!Before(m, begin)) :
                                     Content(W!Before(m, begin), p) = Content(m, p)
           /\ end < m.end => /\ KeyOK(W!After(m, end))
                             /\ \A p : p \in Covers(W!After(m, end)) <=>
                                         p \in Covers(m) /\ p >= end
                             /\ \A p \in Covers(W!After(m, end)) :
                                  Content(W!After(m, end), p) = Content(m, p)
<1>0. /\ m.base \in Nat /\ m.end \in Nat /\ m.off \in Nat /\ m.flen \in Nat /\ m.end <= NPages
      /\ m.flen <= m.end - m.base /\ m.base < m.end /\ NPages \in Nat
  BY DEF KeyOK, Trackers, WmConstants
<1>1. ASSUME m.base < begin
      PROVE  /\ KeyOK(W!Before(m, begin))
             /\ \A p : p \in Covers(W!Before(m, begin)) <=> p \in Covers(m) /\ p < begin
             /\ \A p \in Covers(W!Before(m, begin)) : Content(W!Before(m, begin), p) = Content(m, p)
  <2> DEFINE k == W!Before(m, begin)
  <2>1. /\ k.base = m.base /\ k.end = begin /\ k.off = m.off /\ k.flen \in Nat
        /\ k.flen = IF begin - m.base >= m.flen THEN m.flen ELSE begin - m.base
        /\ k \in Trackers
    BY <1>0 DEF W!Before, Trackers
  <2> HIDE DEF k
  <2>2. KeyOK(k)
    BY <1>0, <1>1, <2>1 DEF KeyOK
  <2>3. \A p : p \in Covers(k) <=> p \in Covers(m) /\ p < begin
    BY <1>0, <2>1, <2>2, CoversIs
  <2>4. \A p \in Covers(k) : Content(k, p) = Content(m, p)
    <3> SUFFICES ASSUME NEW p \in Covers(k) PROVE Content(k, p) = Content(m, p)
      OBVIOUS
    <3>1. p \in Int /\ m.base <= p /\ p < begin
      BY <2>1, <2>2, CoversIs
    <3>2. p < k.base + k.flen <=> p < m.base + m.flen
      BY <1>0, <2>1, <3>1
    <3> QED
      BY <2>1, <3>2 DEF Content
  <2> QED
    BY <2>2, <2>3, <2>4 DEF k
<1>2. ASSUME end < m.end
      PROVE  /\ KeyOK(W!After(m, end))
             /\ \A p : p \in Covers(W!After(m, end)) <=> p \in Covers(m) /\ p >= end
             /\ \A p \in Covers(W!After(m, end)) : Content(W!After(m, end), p) = Content(m, p)
  <2> DEFINE k == W!After(m, end)
  <2>1. /\ k.base = end /\ k.end = m.end /\ k.off = m.off + (end - m.base) /\ k.flen \in Nat
        /\ k.flen = IF end - m.base >= m.flen THEN 0 ELSE m.flen - (end - m.base)
        /\ k \in Trackers
    BY <1>0 DEF W!After, Trackers
  <2> HIDE DEF k
  <2>2. KeyOK(k)
    BY <1>0, <1>2, <2>1 DEF KeyOK
  <2>3. \A p : p \in Covers(k) <=> p \in Covers(m) /\ p >= end
    BY <1>0, <2>1, <2>2, CoversIs
  <2>4. \A p \in Covers(k) : Content(k, p) = Content(m, p)
    <3> SUFFICES ASSUME NEW p \in Covers(k) PROVE Content(k, p) = Content(m, p)
      OBVIOUS
    <3>1. p \in Int /\ end <= p /\ p < m.end
      BY <2>1, <2>2, CoversIs
    <3>2. p < k.base + k.flen <=> p < m.base + m.flen
      BY <1>0, <2>1, <3>1
    <3>3. k.off + (p - k.base) = m.off + (p - m.base)
      BY <1>0, <2>1, <3>1
    <3> QED
      BY <3>2, <3>3 DEF Content
  <2> QED
    BY <2>2, <2>3, <2>4 DEF k
<1> QED
  BY <1>1, <1>2

LEMMA TwoOf ==
    ASSUME NEW S, NEW a \in S, NEW b \in S
    PROVE  /\ <<a>> \o <<b>> \in Seq(S)
           /\ {(<<a>> \o <<b>>)[n] : n \in DOMAIN (<<a>> \o <<b>>)} = {a, b}
  OBVIOUS

\* What is put back of tracker m around the hole.
LEMMA PiecesAre ==
    ASSUME WmConstants, NEW m, KeyOK(m), NEW begin \in Nat, NEW end \in Nat, m.base <= begin,
           begin < end, end <= m.end
    PROVE  LET q == W!Pieces(m, begin, end)
               K == {q[n] : n \in DOMAIN q}
           IN  /\ q \in Seq(Trackers)
               /\ \A k \in K : /\ KeyOK(k) /\ Covers(k) \subseteq Covers(m)
                               /\ \A p \in Covers(k) : p < begin \/ p >= end
                               /\ \A p \in Covers(k) : Content(k, p) = Content(m, p)
               /\ \A k, l \in K : k # l => Covers(k) \cap Covers(l) = {}
               /\ \A p \in Covers(m) : p < begin \/ p >= end => \E k \in K : p \in Covers(k)
<1> DEFINE q == W!Pieces(m, begin, end)
           K == {q[n] : n \in DOMAIN q}
           A == W!Before(m, begin)
           Z == W!After(m, end)
<1>0. /\ m.base \in Nat /\ m.end \in Nat
  BY DEF KeyOK, Trackers
<1>1. /\ K = (IF m.base < begin THEN {A} ELSE {}) \cup (IF end < m.end THEN {Z} ELSE {})
      /\ (m.base < begin => A \in Trackers) /\ (end < m.end => Z \in Trackers) => q \in Seq(Trackers)
  <2> DEFINE AA == A
             ZZ == Z
  <2> HIDE DEF AA, ZZ
  <2>0. /\ m.base < begin /\ end < m.end => q = <<AA>> \o <<ZZ>>
        /\ m.base < begin /\ ~(end < m.end) => q = <<AA>> \o <<>>
        /\ ~(m.base < begin) /\ end < m.end => q = <<>> \o <<ZZ>>
        /\ ~(m.base < begin) /\ ~(end < m.end) => q = <<>> \o <<>>
    BY <1>0 DEF W!Pieces, AA, ZZ
  <2> HIDE DEF q
  <2>1. CASE m.base < begin /\ end < m.end
    <3>1. q = <<AA>> \o <<ZZ>>
      BY <2>0, <2>1
    <3>2. K = {AA, ZZ}
      <4>1. {(<<AA>> \o <<ZZ>>)[n] : n \in DOMAIN (<<AA>> \o <<ZZ>>)} = {AA, ZZ}
        BY TwoOf
      <4> QED
        BY <3>1, <4>1, Zenon
    <3>3. AA \in Trackers /\ ZZ \in Trackers => q \in Seq(Trackers)
      BY <3>1, TwoOf
    <3> QED
      BY <2>1, <3>2, <3>3 DEF AA, ZZ
  <2>2. CASE m.base < begin /\ ~(end < m.end)
    <3>1. q = <<AA>>
      BY <2>0, <2>2
    <3> QED
      BY <2>2, <3>1 DEF AA, ZZ
  <2>3. CASE ~(m.base < begin) /\ end < m.end
    <3>1. q = <<ZZ>>
      BY <2>0, <2>3
    <3> QED
      BY <2>3, <3>1 DEF AA, ZZ
  <2>4. CASE ~(m.base < begin) /\ ~(end < m.end)
    <3>1. q = <<>>
      BY <2>0, <2>4
    <3> QED
      BY <2>4, <3>1 DEF AA, ZZ
  <2> QED
    BY <2>1, <2>2, <2>3, <2>4
<1> HIDE DEF q, K, A, Z
<1>2. /\ m.base < begin => /\ KeyOK(A) /\ A \in Trackers
                           /\ \A p : p \in Covers(A) <=> p \in Covers(m) /\ p < begin
                           /\ \A p \in Covers(A) : Content(A, p) = Content(m, p)
      /\ end < m.end => /\ KeyOK(Z) /\ Z \in Trackers
                        /\ \A p : p \in Covers(Z) <=> p \in Covers(m) /\ p >= end
                        /\ \A p \in Covers(Z) : Content(Z, p) = Content(m, p)
  BY PieceIs DEF A, Z, KeyOK
<1>3. \A p \in Covers(m) : p \in Int /\ m.base <= p /\ p < m.end
  BY CoversIs
<1>4. \A k \in K : /\ KeyOK(k) /\ Covers(k) \subseteq Covers(m)
                   /\ \A p \in Covers(k) : p < begin \/ p >= end
                   /\ \A p \in Covers(k) : Content(k, p) = Content(m, p)
  BY <1>1, <1>2
<1>5. \A k, l \in K : k # l => Covers(k) \cap Covers(l) = {}
  <2>1. m.base < begin /\ end < m.end => Covers(A) \cap Covers(Z) = {}
    BY <1>2, <1>3
  <2> QED
    BY <1>1, <2>1
<1>6. \A p \in Covers(m) : p < begin \/ p >= end => \E k \in K : p \in Covers(k)
  <2> SUFFICES ASSUME NEW p \in Covers(m), p < begin \/ p >= end PROVE \E k \in K : p \in Covers(k)
    OBVIOUS
  <2>1. CASE p < begin
    <3>1. m.base < begin
      BY <1>0, <1>3, <2>1
    <3> QED
      BY <1>1, <1>2, <2>1, <3>1
  <2>2. CASE p >= end
    <3>1. end < m.end
      BY <1>0, <1>3, <2>2
    <3> QED
      BY <1>1, <1>2, <2>2, <3>1
  <2> QED
    BY <2>1, <2>2
<1>7. q \in Seq(Trackers)
  BY <1>1, <1>2
<1> QED
  BY <1>4, <1>5, <1>6, <1>7 DEF q, K

\* The tracker munmap goes on with.
LEMMA LeftmostIs ==
    ASSUME NEW S, S # {}, \A k \in S : k.base \in Nat
    PROVE  W!Leftmost(S) \in S /\ \A k \in S : W!Leftmost(S).base <= k.base
<1>1. {k.base : k \in S} \in SUBSET Nat /\ {k.base : k \in S} # {}
  OBVIOUS
<1>2. PICK x \in {k.base : k \in S} : \A y \in {k.base : k \in S} : x <= y
  BY <1>1, LeastOf
<1>3. \E m \in S : \A k \in S : m.base <= k.base
  BY <1>2
<1> QED
  BY <1>3 DEF W!Leftmost

\* Without its view and its reserved tail nothing is left of a mapping.
LEMMA GoneIs ==
    ASSUME WmConstants, NEW m, KeyOK(m), NEW Tr, \A p \in Covers(m) : Tr[p] = Content(m, p)
    PROVE  LET g == W!mmap_unreserve(W!Set(Tr, m.base, m.flen, W!Free), m.base + m.flen,
                                     m.end - m.base - m.flen)
           IN  /\ g = [p \in W!Page |-> g[p]]
               /\ \A p \in W!Page : g[p] = IF p \in Covers(m) THEN W!Free ELSE Tr[p]
<1> DEFINE s == W!Set(Tr, m.base, m.flen, W!Free)
           b == m.base + m.flen
           n == m.end - m.base - m.flen
           g == W!mmap_unreserve(s, b, n)
<1>0. /\ m.base \in Nat /\ m.end \in Nat /\ m.flen \in Nat /\ m.end <= NPages /\ NPages \in Nat
      /\ m.flen <= m.end - m.base /\ m.base < m.end
  BY DEF KeyOK, Trackers, WmConstants
<1>1. \A p \in W!Page : s[p] = IF m.base <= p /\ p < b THEN W!Free ELSE Tr[p]
  BY <1>0 DEF W!Set, W!Span, W!Page
<1>2. \A p \in W!Page : p \in Covers(m) <=> m.base <= p /\ p < m.end
  BY CoversIs DEF W!Page
<1>3. s = [p \in W!Page |-> s[p]]
  BY DEF W!Set
<1>4. b \in Nat /\ n \in Nat /\ b + n = m.end
  BY <1>0
<1> HIDE DEF s
<1>5. CASE n > 0
  <2>1. \A p \in W!Page : b <= p /\ p < m.end => s[p] = W!Reserved
    <3> SUFFICES ASSUME NEW p \in W!Page, b <= p, p < m.end PROVE s[p] = W!Reserved
      OBVIOUS
    <3>1. p \in Int /\ m.base <= p /\ ~(p < b)
      BY <1>0, <1>4 DEF W!Page
    <3> QED
      BY <1>1, <1>2, <3>1 DEF Content
  <2>2. b \in W!Page /\ s[b] = W!Reserved
    BY <1>0, <1>4, <1>5, <2>1 DEF W!Page
  <2>3. g = [p \in W!Page |-> IF p \in W!Span(b, n) /\ s[p] = W!Reserved THEN W!Free ELSE s[p]]
    BY <1>5, <2>2 DEF W!mmap_unreserve
  <2> HIDE DEF b, n
  <2>4. \A p \in W!Page : p \in W!Span(b, n) <=> b <= p /\ p < m.end
    BY <1>4 DEF W!Span, W!Page
  <2> HIDE DEF g
  <2>5. ASSUME NEW p \in W!Page PROVE g[p] = IF p \in Covers(m) THEN W!Free ELSE Tr[p]
    <3>1. CASE b <= p /\ p < m.end
      <4>1. p \in Covers(m)
        BY <1>0, <1>2, <1>4, <3>1 DEF W!Page, b
      <4> QED
        BY <2>1, <2>3, <2>4, <3>1, <4>1
    <3>2. CASE ~(b <= p /\ p < m.end)
      <4>1. g[p] = s[p]
        BY <2>3, <2>4, <3>2
      <4>2. (m.base <= p /\ p < b) <=> (m.base <= p /\ p < m.end)
        BY <1>0, <1>4, <3>2 DEF W!Page
      <4> QED
        BY <1>1, <1>2, <4>1, <4>2
    <3> QED
      BY <3>1, <3>2
  <2>6. g = [p \in W!Page |-> g[p]]
    BY <2>3
  <2> QED
    BY <2>5, <2>6 DEF g, s, b, n
<1>6. CASE ~(n > 0)
  <2>1. g = s
    BY <1>6 DEF W!mmap_unreserve
  <2>2. b = m.end
    BY <1>4, <1>6
  <2> HIDE DEF g, b, n
  <2>3. \A p \in W!Page : g[p] = IF p \in Covers(m) THEN W!Free ELSE Tr[p]
    BY <1>1, <1>2, <2>1, <2>2
  <2>4. g = [p \in W!Page |-> g[p]]
    BY <1>3, <2>1
  <2> QED
    BY <2>3, <2>4 DEF g, s, b, n
<1> QED
  BY <1>5, <1>6

\* The tracker m that call c goes on with, the end E of the range of c, the end lo of
\* the part that is unmapped, and the end of the hole in m.
Hole(t, c, m, E, lo, end) ==
    /\ c = call[t] /\ c.pc = "unmap" /\ qlock \in {W!Nobody, t}
    /\ W!Met(c) # {} /\ c.left > 0 /\ m = W!Leftmost(W!Met(c))
    /\ E = c.addr + c.len /\ lo = E - c.left
    /\ end = IF E < m.end THEN E ELSE m.end

\* The hole mmap_split makes begins where the unmapped part of the range ends.
LEMMA HoleIs ==
    ASSUME WmConstants, WmGood, NEW t \in MapThreads, NEW c, NEW m, NEW E, NEW lo, NEW end,
           Hole(t, c, m, E, lo, end)
    PROVE  /\ m \in trackers /\ KeyOK(m) /\ lo \in Nat /\ end \in Nat /\ E \in Nat
           /\ m.base <= lo /\ lo < end /\ end <= m.end /\ end <= E /\ c.addr <= lo
           /\ (IF c.addr > m.base THEN c.addr ELSE m.base) = lo
           /\ (end = E \/ end = m.end)
           /\ Virtual = trackers
           /\ \A u \in MapThreads : Back(call[u]) = {}
<1> USE DEF Hole
<1>0. WmTypeOK /\ Listed /\ Holding /\ Covering
  BY DEF WmGood
<1>1. /\ \A u \in MapThreads : call[u].pc # "remap"
      /\ \A u \in MapThreads : Back(call[u]) = {}
      /\ Virtual = trackers
  <2>1. \A u \in MapThreads : call[u].pc # "remap"
    BY <1>0 DEF Holding, WmConstants
  <2>2. \A u \in MapThreads : Back(call[u]) = {}
    BY <1>0, <2>1, NoBack DEF WmTypeOK
  <2> QED
    BY <2>1, <2>2 DEF Virtual
<1>2. \A k \in trackers : KeyOK(k) /\ k.base \in Nat /\ k.end \in Nat /\ k.base < k.end
  BY <1>0, <1>1 DEF Listed, KeyOK, Trackers
<1>3. /\ W!Met(c) \subseteq trackers
      /\ \A k : k \in W!Met(c) <=> k \in trackers /\ k.base < E /\ k.end > c.addr
  BY DEF W!Met
<1>4. /\ m \in W!Met(c) /\ \A k \in W!Met(c) : m.base <= k.base
  BY <1>2, <1>3, LeftmostIs
<1>5. /\ m \in trackers /\ KeyOK(m) /\ m.base \in Nat /\ m.end \in Nat /\ m.base < m.end
      /\ m.base < E /\ m.end > c.addr
  BY <1>2, <1>3, <1>4
<1>6. /\ c.addr \in Int /\ c.len \in Nat /\ c.left \in Nat /\ Unmaps(c) /\ Placed(c) /\ c.left <= c.len
  BY <1>0 DEF WmTypeOK, CallOK, Unmaps, Calls
<1>7. c.addr \in Nat /\ E \in Nat /\ lo \in Nat /\ c.addr <= lo /\ lo < E
  BY <1>6 DEF Placed
<1>8. /\ \A p \in lo .. E - 1 : \E k \in trackers : p \in Covers(k)
      /\ \A p \in c.addr .. lo - 1 : \A k \in trackers : p \notin Covers(k)
  BY <1>0, <1>1, <1>6 DEF Covering
<1>9. m.base <= lo
  <2>1. lo \in lo .. E - 1
    BY <1>7
  <2>2. PICK k \in trackers : lo \in Covers(k)
    BY <1>8, <2>1
  <2>3. k.base <= lo /\ lo < k.end
    BY <1>2, <2>2, CoversIs
  <2>4. k \in W!Met(c)
    BY <1>2, <1>3, <1>7, <2>3
  <2> QED
    BY <1>2, <1>4, <1>5, <1>7, <2>3, <2>4
<1>10. \A p \in Int : m.base <= p /\ p < m.end => p \in Covers(m)
  BY <1>5, CoversIs
<1>11. m.end > lo
  <2> SUFFICES ASSUME m.end <= lo PROVE FALSE
    BY <1>5, <1>7
  <2>1. m.end - 1 \in c.addr .. lo - 1 /\ m.end - 1 \in Covers(m)
    BY <1>5, <1>7, <1>10
  <2> QED
    BY <1>5, <1>8, <2>1
<1>12. c.addr < lo => m.base = lo
  <2> SUFFICES ASSUME c.addr < lo, m.base < lo PROVE FALSE
    BY <1>5, <1>7, <1>9
  <2>1. lo - 1 \in c.addr .. lo - 1 /\ lo - 1 \in Covers(m)
    BY <1>5, <1>7, <1>10, <1>11
  <2> QED
    BY <1>5, <1>8, <2>1
<1>13. (IF c.addr > m.base THEN c.addr ELSE m.base) = lo
  BY <1>5, <1>7, <1>9, <1>12
<1>14. /\ end \in Nat /\ lo < end /\ end <= m.end /\ end <= E /\ (end = E \/ end = m.end)
  BY <1>5, <1>7, <1>11
<1> QED
  BY <1>1, <1>5, <1>7, <1>9, <1>13, <1>14

\* Call x is c with pieces q to put back and left addresses to unmap.
CutOf(c, q, left, x) ==
    /\ x \in Calls /\ x.pc = "remap" /\ x.back = q /\ x.left = left /\ x.addr = c.addr
    /\ x.len = c.len /\ x.off = c.off /\ x.map = c.map /\ x.reserved = c.reserved
    /\ x.fixed = c.fixed

LEMMA CutCall ==
    ASSUME NEW c \in Calls, NEW q \in Seq(Trackers), NEW two \in BOOLEAN, NEW left \in Nat
    PROVE  CutOf(c, q, left, [c EXCEPT !.pc = "remap", !.back = q, !.two = two, !.left = left])
<1> DEFINE y == [c EXCEPT !.pc = "remap", !.back = q, !.two = two, !.left = left]
<1>1. /\ y.pc = "remap" /\ y.back = q /\ y.left = left /\ y.addr = c.addr
      /\ y.len = c.len /\ y.off = c.off /\ y.map = c.map /\ y.reserved = c.reserved
      /\ y.fixed = c.fixed
  BY DEF Calls
<1>2. y \in Calls
  BY DEF Calls
<1> QED
  BY <1>1, <1>2 DEF CutOf

\* mmap_split takes a mapping out, with pieces of it to be put back.
LEMMA CutInv ==
    ASSUME WmConstants, WmGood, NEW t \in MapThreads, NEW c, NEW m, NEW E, NEW lo, NEW end,
           Hole(t, c, m, E, lo, end),
           NEW q, q = W!Pieces(m, lo, end),
           mem' = W!mmap_unreserve(W!Set(mem, m.base, m.flen, W!Free), m.base + m.flen,
                                   m.end - m.base - m.flen),
           trackers' = trackers \ {m}, qlock' = t, UNCHANGED <<leaked, promise>>,
           NEW left, left = c.left - (end - lo), NEW x, CutOf(c, q, left, x),
           call' = [call EXCEPT ![t] = x]
    PROVE  WmGood' /\ Honest
<1> DEFINE K == {q[n] : n \in DOMAIN q}
<1>0. WmTypeOK /\ Listed /\ Holding /\ Mapped /\ Covering /\ Promises
  BY DEF WmGood
<1>1. /\ m \in trackers /\ KeyOK(m) /\ lo \in Nat /\ end \in Nat /\ E \in Nat
      /\ m.base <= lo /\ lo < end /\ end <= m.end /\ end <= E /\ c.addr <= lo
      /\ (end = E \/ end = m.end)
      /\ Virtual = trackers
      /\ \A u \in MapThreads : Back(call[u]) = {}
  BY HoleIs
<1>4. /\ c = call[t] /\ c.pc = "unmap" /\ qlock \in {W!Nobody, t}
      /\ E = c.addr + c.len /\ lo = E - c.left
  BY DEF Hole
<1>5. m.base \in Nat /\ m.end \in Nat
  BY <1>1 DEF KeyOK, Trackers
<1>2. /\ q \in Seq(Trackers)
      /\ \A k \in K : /\ KeyOK(k) /\ Covers(k) \subseteq Covers(m)
                      /\ \A p \in Covers(k) : p < lo \/ p >= end
                      /\ \A p \in Covers(k) : Content(k, p) = Content(m, p)
      /\ \A k, l \in K : k # l => Covers(k) \cap Covers(l) = {}
      /\ \A p \in Covers(m) : p < lo \/ p >= end => \E k \in K : p \in Covers(k)
  BY <1>1, PiecesAre, SMTT(40)
<1> USE DEF CutOf
<1>3. /\ c \in Calls /\ CallOK(c) /\ Unmaps(c) /\ c.addr \in Int /\ c.len \in Nat /\ c.left \in Nat
      /\ Placed(c) /\ c.len > 0 /\ c.left <= c.len
  BY <1>0, <1>4 DEF WmTypeOK, CallOK, Calls, Unmaps
<1>6. /\ CallOK(x) /\ Unmaps(x) /\ Mine(x) = {} /\ Mine(c) = {} /\ Extent(x) = Extent(c) /\ Back(x) = K
      /\ c.addr + c.len - x.left = end
  <2>1. x.left <= c.len /\ c.addr + c.len - x.left = end
    BY <1>1, <1>3, <1>4
  <2>2. CallOK(x) /\ Unmaps(x)
    BY <1>3, <1>4, <2>1 DEF CallOK, Unmaps, Placed
  <2> QED
    BY <1>4, <2>1, <2>2 DEF Mine, Extent, Back
<1> HIDE DEF K
<1>7. /\ call' \in [MapThreads -> Calls] /\ \A u \in MapThreads : CallOK(call'[u])
      /\ call'[t] = x /\ \A u \in MapThreads \ {t} : call'[u] = call[u]
  BY <1>0, <1>6, Becomes
<1>8. Virtual' = (trackers \ {m}) \cup K
  <2>1. \A u \in MapThreads : Back(call'[u]) = IF u = t THEN K ELSE {}
    BY <1>1, <1>6, <1>7
  <2> QED
    BY <2>1 DEF Virtual
<1>9. /\ mem' = [p \in W!Page |-> mem'[p]]
      /\ \A p \in W!Page : mem'[p] = IF p \in Covers(m) THEN W!Free ELSE mem[p]
  <2>1. \A p \in Covers(m) : mem[p] = Content(m, p)
    BY <1>0, <1>1 DEF Mapped
  <2> QED
    BY <1>1, <2>1, GoneIs
<1>10. /\ \A k \in trackers \ {m} : Covers(k) \cap Covers(m) = {}
       /\ \A k \in trackers : KeyOK(k)
  BY <1>0, <1>1 DEF Listed
<1>11. \A u \in MapThreads : Unmaps(call'[u]) <=> Unmaps(call[u])
  BY <1>3, <1>4, <1>6, <1>7
<1>12. \A u \in MapThreads : Extent(call'[u]) = Extent(call[u]) /\ Mine(call'[u]) = Mine(call[u])
  BY <1>4, <1>6, <1>7
<1>13. \A p \in Covers(m) : lo <= p /\ p < end => p \in Extent(c)
  BY <1>1, <1>3, <1>4, CoversIs, SpanIs DEF Extent
<1>14. WmTypeOK'
  <2>1. mem' \in [W!Page -> {W!Free, W!Reserved} \cup {W!View(n) : n \in Nat}]
    BY <1>0, <1>9 DEF WmTypeOK
  <2> QED
    BY <1>0, <1>7, <2>1 DEF WmTypeOK
<1>15. Listed'
  BY <1>0, <1>1, <1>2, <1>8, <1>10 DEF Listed
<1>16. Holding'
  BY <1>4, <1>0, <1>1, <1>6, <1>7, <1>11 DEF Holding, WmConstants, Unmaps
<1>17. Mapped'
  <2>0. /\ \A k \in trackers : Covers(k) \subseteq W!Page
        /\ \A u \in MapThreads : Mine(call[u]) \subseteq W!Page
    BY <1>0, Inside
  <2>1. \A k \in trackers' : \A p \in Covers(k) : mem'[p] = Content(k, p)
    BY <1>0, <1>9, <1>10, <2>0 DEF Mapped
  <2>2. \A u \in MapThreads : \A p \in Mine(call'[u]) : mem'[p] = Content(KeyOf(call'[u]), p)
    <3> SUFFICES ASSUME NEW u \in MapThreads, NEW p \in Mine(call'[u])
                 PROVE  mem'[p] = Content(KeyOf(call'[u]), p)
      OBVIOUS
    <3>1. u # t /\ call'[u] = call[u]
      BY <1>6, <1>7
    <3>2. p \in W!Page /\ p \notin Covers(m) /\ mem[p] = Content(KeyOf(call[u]), p)
      BY <1>0, <1>1, <2>0, <3>1 DEF Mapped
    <3> QED
      BY <1>9, <3>1, <3>2
  <2>3. \A p \in W!Page \ leaked' : \/ mem'[p] = W!Free
                                    \/ \E k \in trackers' : p \in Covers(k)
                                    \/ \E u \in MapThreads : p \in Mine(call'[u])
    BY <1>0, <1>9, <1>12 DEF Mapped
  <2>4. \A u, v \in MapThreads : u # v => Mine(call'[u]) \cap Mine(call'[v]) = {}
    BY <1>0, <1>12 DEF Mapped
  <2>5. \A u \in MapThreads, k \in trackers' : Mine(call'[u]) \cap Covers(k) = {}
    BY <1>0, <1>12 DEF Mapped
  <2> QED
    BY <2>1, <2>2, <2>3, <2>4, <2>5 DEF Mapped, W!Page
<1>18. Covering'
  <2>1. \A u, v \in MapThreads : u # v /\ Unmaps(call'[u]) /\ Unmaps(call'[v]) =>
                                   Extent(call'[u]) \cap Extent(call'[v]) = {}
    BY <1>0, <1>11, <1>12 DEF Covering
  <2>2. /\ \A p \in lo .. E - 1 : \E k \in trackers : p \in Covers(k)
        /\ \A p \in c.addr .. lo - 1 : \A k \in trackers : p \notin Covers(k)
    BY <1>0, <1>1, <1>3, <1>4 DEF Covering
  <2>3. \A p \in end .. E - 1 : \E k \in Virtual' : p \in Covers(k)
    <3> SUFFICES ASSUME NEW p \in end .. E - 1 PROVE \E k \in Virtual' : p \in Covers(k)
      OBVIOUS
    <3>1. p \in lo .. E - 1 /\ p >= end
      BY <1>1
    <3>2. PICK k \in trackers : p \in Covers(k)
      BY <2>2, <3>1
    <3> QED
      BY <1>2, <1>8, <3>1, <3>2
  <2>4. \A p \in c.addr .. end - 1 : \A k \in Virtual' : p \notin Covers(k)
    <3> SUFFICES ASSUME NEW p \in c.addr .. end - 1, NEW k \in Virtual', p \in Covers(k) PROVE FALSE
      OBVIOUS
    <3>1. CASE p < lo
      <4>1. p \in c.addr .. lo - 1
        BY <1>1, <1>3, <1>4, <3>1
      <4> QED
        BY <1>1, <1>2, <1>8, <2>2, <4>1
    <3>2. CASE ~(p < lo)
      <4>1. p \in Covers(m) /\ p < end /\ p \in Int
        BY <1>1, <1>3, <1>4, <3>2, CoversIs DEF KeyOK, Trackers
      <4>2. k \notin trackers \ {m}
        BY <1>10, <4>1
      <4> QED
        <5>1. k \in K
          BY <1>8, <4>2
        <5>2. p < lo \/ p >= end
          BY <1>2, <5>1
        <5> QED
          BY <1>1, <3>2, <4>1, <5>2
    <3> QED
      BY <3>1, <3>2
  <2>5. \A k \in K : Covers(k) \cap Extent(c) = {}
    <3> SUFFICES ASSUME NEW k \in K, NEW p \in Covers(k), p \in Extent(c) PROVE FALSE
      OBVIOUS
    <3>1. p \in Int /\ c.addr <= p /\ p < E
      BY <1>3, <1>4, SpanIs DEF Extent
    <3>2. p \in Covers(m) /\ p < m.end
      BY <1>1, <1>2, CoversIs
    <3>3. CASE p < lo
      BY <1>1, <1>3, <1>4, <2>2, <3>1, <3>2, <3>3
    <3>4. CASE p >= end
      BY <1>1, <3>1, <3>2, <3>4 DEF KeyOK, Trackers
    <3> QED
      BY <1>2, <3>3, <3>4
  <2>6. ASSUME NEW u \in MapThreads, Unmaps(call'[u])
        PROVE  /\ \A p \in call'[u].addr + call'[u].len - call'[u].left .. call'[u].addr + call'[u].len - 1 :
                    \E k \in Virtual' : p \in Covers(k)
               /\ \A p \in call'[u].addr .. call'[u].addr + call'[u].len - call'[u].left - 1 :
                    \A k \in Virtual' : p \notin Covers(k)
               /\ \A k \in Back(call'[u]) : Covers(k) \cap Extent(call'[u]) = {}
    <3>1. CASE u = t
      <4>1. /\ call'[u] = x /\ call'[u].addr = c.addr /\ call'[u].len = c.len
            /\ call'[u].addr + call'[u].len - call'[u].left = end
            /\ call'[u].addr + call'[u].len = E
            /\ call'[u].addr \in Int /\ call'[u].len \in Nat /\ call'[u].left \in Nat
        BY <1>3, <1>4, <1>6, <1>7, <3>1 DEF Calls
      <4>2. Back(call'[u]) = K /\ Extent(call'[u]) = Extent(c)
        BY <1>6, <4>1
      <4>3. \A k \in Back(call'[u]) : Covers(k) \cap Extent(call'[u]) = {}
        BY <2>5, <4>2
      <4>4. ASSUME NEW p \in call'[u].addr + call'[u].len - call'[u].left
                             .. call'[u].addr + call'[u].len - 1
            PROVE  \E k \in Virtual' : p \in Covers(k)
        <5>1. p \in end .. E - 1
          BY <1>1, <4>4, <4>1
        <5> QED
          BY <2>3, <5>1
      <4>5. ASSUME NEW p \in call'[u].addr .. call'[u].addr + call'[u].len - call'[u].left - 1,
                   NEW k \in Virtual'
            PROVE  p \notin Covers(k)
        <5>1. p \in c.addr .. end - 1
          BY <1>1, <4>5, <4>1
        <5> QED
          BY <2>4, <5>1
      <4> QED
        BY <4>3, <4>4, <4>5
    <3>2. CASE u # t
      <4>1. call'[u] = call[u] /\ Unmaps(call[u]) /\ call[u].left = call[u].len
        BY <1>4, <1>0, <1>7, <2>6, <3>2 DEF Holding, WmConstants
      <4>2. call[u].addr \in Int /\ call[u].len \in Nat
        BY <1>0 DEF WmTypeOK, Calls
      <4>3. call[u].addr .. call[u].addr + call[u].len - call[u].left - 1 = {}
        BY <4>1, <4>2
      <4>4. ASSUME NEW p \in call[u].addr + call[u].len - call[u].left .. call[u].addr + call[u].len - 1
            PROVE  \E k \in Virtual' : p \in Covers(k)
        <5>1. p \in Extent(call[u]) /\ p \in Int
          BY <4>1, <4>2 DEF Extent, W!Span
        <5>2. p \notin Extent(c)
          BY <1>0, <1>3, <1>4, <3>2, <4>1, <5>1 DEF Covering
        <5>3. PICK k \in trackers : p \in Covers(k)
          BY <1>0, <1>1, <4>1 DEF Covering
        <5>4. CASE k # m
          BY <1>8, <5>3, <5>4
        <5>5. CASE k = m
          <6>1. p < lo \/ p >= end
            BY <1>1, <1>13, <5>1, <5>2, <5>3, <5>5
          <6> QED
            BY <1>2, <1>8, <5>3, <5>5, <6>1
        <5> QED
          BY <5>4, <5>5
      <4> QED
        BY <1>1, <4>1, <4>3, <4>4
    <3> QED
      BY <3>1, <3>2
  <2> QED
    BY <2>1, <2>6 DEF Covering
<1>19. Promises'
  <2>1. \A p : Unmapping(p)' <=> Unmapping(p)
    BY <1>11, <1>12 DEF Unmapping
  <2>2. ASSUME NEW p \in W!Page
        PROVE  /\ Unmapping(p)' => promise'[p] = W!Free
               /\ (\A k \in Virtual' : p \notin Covers(k)) => promise'[p] = W!Free
               /\ ~Unmapping(p)' => \A k \in Virtual' : p \in Covers(k) => promise'[p] = Content(k, p)
    <3>1. Unmapping(p)' => promise'[p] = W!Free
      BY <1>0, <2>1 DEF Promises
    <3>2. (\A k \in Virtual' : p \notin Covers(k)) => promise'[p] = W!Free
      <4> SUFFICES ASSUME \A k \in Virtual' : p \notin Covers(k) PROVE promise[p] = W!Free
        OBVIOUS
      <4>1. CASE p \in Covers(m)
        <5>1. lo <= p /\ p < end
          BY <1>1, <1>2, <1>8, <4>1 DEF W!Page
        <5>2. Unmapping(p)
          BY <1>3, <1>4, <1>13, <4>1, <5>1 DEF Unmapping
        <5> QED
          BY <1>0, <5>2 DEF Promises
      <4>2. CASE p \notin Covers(m)
        BY <1>0, <1>1, <1>8, <4>2 DEF Promises
      <4> QED
        BY <4>1, <4>2
    <3>3. ~Unmapping(p)' => \A k \in Virtual' : p \in Covers(k) => promise'[p] = Content(k, p)
      <4> SUFFICES ASSUME ~Unmapping(p), NEW k \in Virtual', p \in Covers(k)
                   PROVE  promise[p] = Content(k, p)
        BY <2>1
      <4>1. CASE k \in trackers
        BY <1>0, <1>1, <4>1 DEF Promises
      <4>2. CASE k \in K
        <5>1. p \in Covers(m) /\ Content(k, p) = Content(m, p)
          BY <1>2, <4>2
        <5> QED
          BY <1>0, <1>1, <5>1 DEF Promises
      <4> QED
        BY <1>8, <4>1, <4>2
    <3> QED
      BY <3>1, <3>2, <3>3
  <2> QED
    BY <2>2 DEF Promises, W!Page
<1>20. Honest
  BY <1>1, <1>9, <1>12 DEF Honest, Claimed
<1> QED
  BY <1>14, <1>15, <1>16, <1>17, <1>18, <1>19, <1>20 DEF WmGood

\* munmap is done: nothing of the range is left.
LEMMA EndInv ==
    ASSUME WmConstants, WmGood, NEW t \in MapThreads, NEW c, c = call[t], c.pc = "unmap",
           qlock \in {W!Nobody, t}, W!Met(c) = {} \/ c.left = 0,
           mem' = W!mmap_unreserve(mem, c.addr, c.left), qlock' = W!Nobody,
           UNCHANGED <<trackers, leaked, promise>>,
           NEW x, CallOK(x), ~Unmaps(x), Mine(x) = {}, call' = [call EXCEPT ![t] = x]
    PROVE  WmGood' /\ Honest
<1>0. WmTypeOK /\ Listed /\ Holding /\ Mapped /\ Covering /\ Promises
  BY DEF WmGood
<1>1. /\ \A u \in MapThreads : call[u].pc # "remap" /\ Back(call[u]) = {}
      /\ Virtual = trackers
  <2>1. \A u \in MapThreads : call[u].pc # "remap"
    BY <1>0 DEF Holding, WmConstants
  <2>2. \A u \in MapThreads : Back(call[u]) = {}
    BY <1>0, <2>1, NoBack DEF WmTypeOK
  <2> QED
    BY <2>1, <2>2 DEF Virtual
<1>2. /\ c \in Calls /\ CallOK(c) /\ Unmaps(c) /\ c.addr \in Int /\ c.len \in Nat /\ c.left \in Nat
      /\ Placed(c) /\ c.len > 0 /\ c.left <= c.len
  BY <1>0 DEF WmTypeOK, CallOK, Calls, Unmaps
<1>3. c.left = 0
  <2> SUFFICES ASSUME c.left > 0 PROVE W!Met(c) # {}
    BY <1>2
  <2>1. c.addr + c.len - c.left \in c.addr + c.len - c.left .. c.addr + c.len - 1
    BY <1>2
  <2>2. PICK k \in trackers : c.addr + c.len - c.left \in Covers(k)
    BY <1>0, <1>1, <1>2, <2>1 DEF Covering
  <2>3. KeyOK(k) /\ k.base \in Nat /\ k.end \in Nat
    BY <1>0, <1>1 DEF Listed, KeyOK, Trackers
  <2>4. k.base <= c.addr + c.len - c.left /\ c.addr + c.len - c.left < k.end
    BY <2>2, <2>3, CoversIs
  <2>5. k.base < c.addr + c.len /\ k.end > c.addr
    BY <1>2, <2>3, <2>4
  <2> QED
    BY <2>5 DEF W!Met
<1>4. mem' = mem
  BY <1>3 DEF W!mmap_unreserve
<1>5. \A p \in Extent(c) : \A k \in Virtual : p \notin Covers(k)
  <2> SUFFICES ASSUME NEW p \in Extent(c) PROVE \A k \in Virtual : p \notin Covers(k)
    OBVIOUS
  <2>1. p \in c.addr .. c.addr + c.len - c.left - 1
    BY <1>2, <1>3 DEF Extent, W!Span
  <2> QED
    BY <1>0, <1>2, <2>1 DEF Covering
<1>6. /\ call' \in [MapThreads -> Calls] /\ \A u \in MapThreads : CallOK(call'[u])
      /\ call'[t] = x /\ \A u \in MapThreads \ {t} : call'[u] = call[u]
  BY <1>0, Becomes
<1>7. x.pc # "remap" /\ Back(x) = {} /\ Mine(c) = {}
  BY <1>2, NoBack DEF Unmaps, Mine
<1>8. Virtual' = Virtual
  <2>1. \A u \in MapThreads : Back(call'[u]) = {}
    BY <1>1, <1>6, <1>7
  <2> QED
    BY <1>1, <2>1 DEF Virtual
<1>9. \A u \in MapThreads : Unmaps(call'[u]) => Unmaps(call[u]) /\ call'[u] = call[u] /\ u # t
  BY <1>6
<1>10. WmTypeOK'
  BY <1>0, <1>4, <1>6 DEF WmTypeOK
<1>11. Listed'
  BY <1>0, <1>8 DEF Listed
<1>12. Holding'
  <2>1. \A u \in MapThreads : call'[u].pc # "remap"
    BY <1>1, <1>6, <1>7
  <2>2. \A u \in MapThreads : Unmaps(call'[u]) => call'[u].left = call'[u].len
    BY <1>0, <1>9 DEF Holding, WmConstants
  <2> QED
    BY <2>1, <2>2 DEF Holding, WmConstants
<1>13. Mapped' /\ Honest
  <2>1. \A u \in MapThreads : Mine(call'[u]) = Mine(call[u])
    BY <1>6, <1>7
  <2>2. \A u \in MapThreads : \A p \in Mine(call[u]) : KeyOf(call'[u]) = KeyOf(call[u])
    BY <1>6, <1>7
  <2> QED
    BY <1>0, <1>4, <2>1, <2>2, MappedSame
<1>14. Covering'
  BY <1>0, <1>8, <1>9 DEF Covering
<1>15. Promises'
  <2>1. \A p : Unmapping(p)' => Unmapping(p)
    BY <1>9 DEF Unmapping
  <2>2. \A p : Unmapping(p) => Unmapping(p)' \/ p \in Extent(c)
    BY <1>6 DEF Unmapping
  <2>3. ASSUME NEW p \in W!Page
        PROVE  /\ Unmapping(p)' => promise'[p] = W!Free
               /\ (\A k \in Virtual' : p \notin Covers(k)) => promise'[p] = W!Free
               /\ ~Unmapping(p)' => \A k \in Virtual' : p \in Covers(k) => promise'[p] = Content(k, p)
    BY <1>0, <1>5, <1>8, <2>1, <2>2 DEF Promises
  <2> QED
    BY <2>3 DEF Promises, W!Page
<1> QED
  BY <1>10, <1>11, <1>12, <1>13, <1>14, <1>15 DEF WmGood

LEMMA BackCall ==
    ASSUME NEW c \in Calls, NEW y, y = [c EXCEPT !.pc = "map", !.left = 0]
    PROVE  /\ y \in Calls /\ y.pc = "map" /\ y.back = c.back /\ y.addr = c.addr
           /\ y.len = c.len /\ y.off = c.off /\ y.map = c.map /\ y.reserved = c.reserved
           /\ y.fixed = c.fixed
  BY DEF Calls

LEMMA ReturnsInv ==
    ASSUME WmConstants, NEW c, CallOK(c), c.pc = "unmap", NEW x,
           x = IF c.map THEN [c EXCEPT !.pc = "map", !.left = 0] ELSE W!Idle
    PROVE  CallOK(x) /\ ~Unmaps(x) /\ Mine(x) = {}
<1>1. /\ c \in Calls /\ Placed(c) /\ c.len > 0 /\ ~c.reserved /\ (c.map => c.fixed /\ c.off < FileSize)
      /\ c.back = <<>>
  BY DEF CallOK, Unmaps
<1>2. CASE c.map
  <2>1. /\ x \in Calls /\ x.pc = "map" /\ x.back = c.back /\ x.addr = c.addr
        /\ x.len = c.len /\ x.off = c.off /\ x.map = c.map /\ x.reserved = c.reserved
        /\ x.fixed = c.fixed
    BY <1>1, <1>2, BackCall
  <2>2. Placed(x)
    BY <1>1, <2>1 DEF Placed
  <2> QED
    BY <1>1, <1>2, <2>1, <2>2 DEF CallOK, Unmaps, Mine
<1>3. CASE ~c.map
  BY <1>3, IdleIs
<1> QED
  BY <1>2, <1>3

LEMMA SplitInv ==
    ASSUME WmConstants, WmGood, NEW t \in MapThreads, W!Unmap(t)
    PROVE  WmGood' /\ Honest
<1> DEFINE c == call[t]
           m == W!Leftmost(W!Met(c))
           E == c.addr + c.len
           lo == E - c.left
           begin == IF c.addr > m.base THEN c.addr ELSE m.base
           end == IF E < m.end THEN E ELSE m.end
           q == W!Pieces(m, begin, end)
<1>0. CallOK(c) /\ c \in Calls
  BY DEF WmGood, WmTypeOK, CallOK
<1>1. c.pc = "unmap" /\ qlock \in {W!Nobody, t} /\ UNCHANGED <<leaked, promise>>
  BY DEF W!Unmap
<1>2. CASE /\ W!Met(c) # {} /\ c.left > 0
           /\ mem' = W!mmap_unreserve(W!Set(mem, m.base, m.flen, W!Free), m.base + m.flen,
                                      m.end - m.base - m.flen)
           /\ trackers' = trackers \ {m} /\ qlock' = t
           /\ call' = [call EXCEPT ![t] = [c EXCEPT !.pc = "remap", !.back = q, !.two = Len(q) = 2,
                                                    !.left = @ - (end - begin)]]
  <2>1. Hole(t, c, m, E, lo, end)
    BY <1>1, <1>2 DEF Hole
  <2>2. /\ KeyOK(m) /\ lo \in Nat /\ end \in Nat /\ begin = lo /\ m.base <= lo /\ lo < end
        /\ end <= m.end /\ end <= E /\ c.addr <= lo /\ E \in Nat
    BY <2>1, HoleIs
  <2>3. q = W!Pieces(m, lo, end)
    BY <2>2
  <2>4. q \in Seq(Trackers)
    BY <2>2, <2>3, PiecesAre
  <2> DEFINE left == c.left - (end - lo)
             two == Len(q) = 2
  <2>5. left \in Nat /\ two \in BOOLEAN
    <3>1. c.addr \in Int /\ c.len \in Nat /\ c.left \in Nat
      BY <1>0 DEF Calls
    <3> HIDE DEF end, m
    <3> QED
      BY <2>2, <3>1
  <2> DEFINE x == [c EXCEPT !.pc = "remap", !.back = q, !.two = two, !.left = left]
  <2>6. call' = [call EXCEPT ![t] = x]
    BY <1>2, <2>2
  <2> HIDE DEF two, q, end, m, begin, lo, E
  <2>7. CutOf(c, q, left, x)
    <3> HIDE DEF left, c
    <3> QED
      BY <1>0, <2>4, <2>5, CutCall
  <2>8. left = c.left - (end - lo)
    OBVIOUS
  <2> HIDE DEF x, left
  <2>9. /\ mem' = W!mmap_unreserve(W!Set(mem, m.base, m.flen, W!Free), m.base + m.flen,
                                   m.end - m.base - m.flen)
        /\ trackers' = trackers \ {m} /\ qlock' = t
    BY <1>2
  <2> HIDE DEF c
  <2> QED
    BY <1>1, <2>1, <2>3, <2>6, <2>7, <2>8, <2>9, CutInv
<1>3. CASE /\ W!Met(c) = {} \/ c.left = 0
           /\ mem' = W!mmap_unreserve(mem, c.addr, c.left) /\ qlock' = W!Nobody
           /\ W!Returns(t) /\ UNCHANGED <<trackers, handles>>
  <2> DEFINE x == IF c.map THEN [c EXCEPT !.pc = "map", !.left = 0] ELSE W!Idle
  <2>1. call' = [call EXCEPT ![t] = x]
    BY <1>3 DEF W!Returns, W!Do
  <2>2. CallOK(x) /\ ~Unmaps(x) /\ Mine(x) = {}
    BY <1>0, <1>1, ReturnsInv
  <2> HIDE DEF x
  <2> QED
    BY <1>1, <1>3, <2>1, <2>2, EndInv
<1> QED
  BY <1>2, <1>3 DEF W!Unmap, W!Do

-----------------------------------------------------------------------------
\* A step of mmap_split that puts pieces back in the list.
LEMMA PutStep ==
    ASSUME WmConstants, WmGood, NEW t \in MapThreads, NEW c, c = call[t], Unmaps(c), NEW x, CallOK(x),
           Unmaps(x), x.addr = c.addr, x.len = c.len, x.left = c.left, Back(x) \subseteq Back(c),
           call' = [call EXCEPT ![t] = x], qlock = t, UNCHANGED <<qlock, promise>>,
           Virtual' = Virtual,
           mem' \in [W!Page -> {W!Free, W!Reserved} \cup {W!View(n) : n \in Nat}]
    PROVE  WmTypeOK' /\ Listed' /\ Holding' /\ Covering' /\ Promises'
<1>0. WmTypeOK /\ Listed /\ Holding /\ Covering /\ Promises
  BY DEF WmGood
<1>1. /\ call' \in [MapThreads -> Calls] /\ \A u \in MapThreads : CallOK(call'[u])
      /\ call'[t] = x /\ \A u \in MapThreads \ {t} : call'[u] = call[u]
  BY <1>0, Becomes
<1>2. \A u \in MapThreads : /\ Unmaps(call'[u]) <=> Unmaps(call[u])
                            /\ call'[u].addr = call[u].addr /\ call'[u].len = call[u].len
                            /\ call'[u].left = call[u].left /\ Extent(call'[u]) = Extent(call[u])
                            /\ Back(call'[u]) \subseteq Back(call[u])
  BY <1>1 DEF Extent
<1>3. WmTypeOK'
  BY <1>0, <1>1 DEF WmTypeOK
<1>4. Listed'
  BY <1>0 DEF Listed
<1>5. Holding'
  BY <1>0, <1>1, <1>2 DEF Holding
<1>6. Covering'
  BY <1>0, <1>2 DEF Covering
<1>7. Promises'
  <2>1. \A p : Unmapping(p)' <=> Unmapping(p)
    BY <1>2 DEF Unmapping
  <2> QED
    BY <1>0, <2>1 DEF Promises, W!Page
<1> QED
  BY <1>3, <1>4, <1>5, <1>6, <1>7

LEMMA BackIs ==
    ASSUME NEW S, NEW q \in Seq(S), q # <<>>
    PROVE  /\ Tail(q) \in Seq(S) /\ Head(q) \in S
           /\ {q[n] : n \in DOMAIN q} = {Head(q)} \cup {Tail(q)[n] : n \in DOMAIN Tail(q)}
<1>1. /\ Len(q) \in Nat \ {0} /\ Tail(q) \in Seq(S) /\ Len(Tail(q)) = Len(q) - 1 /\ Head(q) = q[1]
      /\ \A n \in 1 .. Len(q) - 1 : Tail(q)[n] = q[n + 1]
      /\ DOMAIN q = 1 .. Len(q) /\ DOMAIN Tail(q) = 1 .. Len(q) - 1
  OBVIOUS
<1>2. \A n \in 1 .. Len(q) : n = 1 \/ (n - 1 \in 1 .. Len(q) - 1 /\ Tail(q)[n - 1] = q[n])
  BY <1>1
<1>3. \A n \in 1 .. Len(q) - 1 : n + 1 \in 1 .. Len(q) /\ Tail(q)[n] = q[n + 1]
  BY <1>1
<1>4. 1 \in 1 .. Len(q) /\ q[1] \in S
  BY <1>1
<1> DEFINE A == {q[n] : n \in DOMAIN q}
           B == {Head(q)} \cup {Tail(q)[n] : n \in DOMAIN Tail(q)}
<1>5. ASSUME NEW k \in A PROVE k \in B
  <2>1. PICK n \in 1 .. Len(q) : k = q[n]
    BY <1>1
  <2>2. CASE n = 1
    BY <1>1, <2>1, <2>2
  <2>3. CASE n # 1
    <3>1. n - 1 \in DOMAIN Tail(q) /\ Tail(q)[n - 1] = k
      BY <1>1, <1>2, <2>1, <2>3
    <3> QED
      BY <3>1
  <2> QED
    BY <2>2, <2>3
<1>6. ASSUME NEW k \in B PROVE k \in A
  <2>1. CASE k = Head(q)
    BY <1>1, <1>4, <2>1
  <2>2. CASE k # Head(q)
    <3>1. PICK n \in 1 .. Len(q) - 1 : k = Tail(q)[n]
      BY <1>1, <2>2
    <3>2. n + 1 \in DOMAIN q /\ q[n + 1] = k
      BY <1>1, <1>3, <3>1
    <3> QED
      BY <3>2
  <2> QED
    BY <2>1, <2>2
<1>7. A = B
  BY <1>5, <1>6
<1> QED
  BY <1>1, <1>4, <1>7

LEMMA PutCall ==
    ASSUME NEW c \in Calls, NEW q \in Seq(Trackers)
    PROVE  LET y == [c EXCEPT !.back = q]
           IN  /\ y \in Calls /\ y.pc = c.pc /\ y.back = q /\ y.left = c.left
               /\ y.addr = c.addr /\ y.len = c.len /\ y.off = c.off /\ y.map = c.map
               /\ y.reserved = c.reserved /\ y.fixed = c.fixed
<1> DEFINE y == [c EXCEPT !.back = q]
<1>1. /\ y.pc = c.pc /\ y.back = q /\ y.left = c.left
      /\ y.addr = c.addr /\ y.len = c.len /\ y.off = c.off /\ y.map = c.map
      /\ y.reserved = c.reserved /\ y.fixed = c.fixed
  BY DEF Calls
<1>2. y \in Calls
  BY DEF Calls
<1> QED
  BY <1>1, <1>2

LEMMA AgainCall ==
    ASSUME NEW c \in Calls
    PROVE  LET y == [c EXCEPT !.pc = "unmap"]
           IN  /\ y \in Calls /\ y.pc = "unmap" /\ y.back = c.back /\ y.left = c.left
               /\ y.addr = c.addr /\ y.len = c.len /\ y.off = c.off /\ y.map = c.map
               /\ y.reserved = c.reserved /\ y.fixed = c.fixed
  BY DEF Calls

\* What PutBack(k) makes of memory that is free where k was.
LEMMA PutBackIs ==
    ASSUME WmConstants, WmTypeOK, NEW k, KeyOK(k)
    PROVE  /\ \A p \in W!Page : W!PutBack(k)[p] = IF p \in Covers(k) THEN Content(k, p) ELSE mem[p]
           /\ W!PutBack(k) \in [W!Page -> {W!Free, W!Reserved} \cup {W!View(n) : n \in Nat}]
           /\ W!TailFits(k) /\ W!ViewFits(k) => \A p \in Covers(k) : p \in W!Page /\ mem[p] = W!Free
<1>0. /\ k.base \in Nat /\ k.end \in Nat /\ k.flen \in Nat /\ k.off \in Nat
      /\ k.flen <= k.end - k.base /\ k.base < k.end
  BY DEF KeyOK, Trackers
<1>1. \A p : /\ p \in Covers(k) <=> p \in Int /\ k.base <= p /\ p < k.end
             /\ p \in W!Span(k.base, k.end - k.base) <=> p \in Int /\ k.base <= p /\ p < k.end
             /\ p \in W!Span(k.base, k.flen) <=> p \in Int /\ k.base <= p /\ p < k.base + k.flen
             /\ p \in W!Span(k.base + k.flen, k.end - k.base - k.flen) <=>
                  p \in Int /\ k.base + k.flen <= p /\ p < k.end
  BY <1>0, CoversIs DEF W!Span
<1>2. \A p \in W!Page : W!PutBack(k)[p] = IF p \in W!Span(k.base, k.flen) THEN W!View(k.off + (p - k.base))
                                          ELSE IF p \in W!Span(k.base, k.end - k.base) THEN W!Reserved
                                          ELSE mem[p]
  BY DEF W!PutBack, W!MapViewAt, W!Set
<1>3. \A p \in W!Page : p \in Int
  BY DEF W!Page
<1>4. ASSUME NEW p \in W!Page
      PROVE  W!PutBack(k)[p] = IF p \in Covers(k) THEN Content(k, p) ELSE mem[p]
  <2>1. CASE p \in Covers(k)
    BY <1>0, <1>1, <1>2, <1>3, <2>1 DEF Content
  <2>2. CASE p \notin Covers(k)
    BY <1>0, <1>1, <1>2, <1>3, <2>2
  <2> QED
    BY <2>1, <2>2
<1>5. \A p \in Covers(k) : p < k.base + k.flen => k.off + (p - k.base) \in Nat
  BY <1>0, <1>1
<1>6. \A p \in W!Page : W!PutBack(k)[p] \in {W!Free, W!Reserved} \cup {W!View(n) : n \in Nat}
  BY <1>4, <1>5 DEF Content, WmTypeOK
<1>7. DOMAIN W!PutBack(k) = W!Page /\ W!PutBack(k) = [p \in W!Page |-> W!PutBack(k)[p]]
  BY DEF W!PutBack, W!MapViewAt
<1>8. W!PutBack(k) \in [W!Page -> {W!Free, W!Reserved} \cup {W!View(n) : n \in Nat}]
  BY <1>6, <1>7
<1>9. ASSUME W!TailFits(k), W!ViewFits(k), NEW p \in Covers(k)
      PROVE  p \in W!Page /\ mem[p] = W!Free
  <2>1. p \in W!Span(k.base, k.flen) \/ p \in W!Span(k.base + k.flen, k.end - k.base - k.flen)
    BY <1>0, <1>1, <1>9
  <2> QED
    BY <1>9, <2>1 DEF W!TailFits, W!ViewFits, W!IsFree
<1> QED
  BY <1>4, <1>8, <1>9

LEMMA RemapInv ==
    ASSUME WmConstants, WmGood, astray = FALSE, NEW t \in MapThreads, W!Remap(t)
    PROVE  astray' \in BOOLEAN /\ (astray' \/ (WmGood' /\ Honest))
<1> DEFINE c == call[t]
           k == Head(c.back)
<1>0. WmTypeOK /\ Listed /\ Holding /\ Mapped /\ Covering /\ Promises
  BY DEF WmGood
<1>1. c.pc = "remap" /\ UNCHANGED <<leaked, promise>>
  BY DEF W!Remap
<1>2. CallOK(c) /\ c \in Calls /\ Unmaps(c) /\ qlock = t /\ c.back \in Seq(Trackers)
  BY <1>0, <1>1 DEF WmTypeOK, CallOK, Unmaps, Holding, Calls
<1>3. Mine(c) = {}
  BY <1>1 DEF Mine
<1>4. CASE /\ c.back = <<>> /\ call' = [call EXCEPT ![t] = [c EXCEPT !.pc = "unmap"]]
           /\ UNCHANGED <<mem, trackers, handles, qlock, astray>>
  <2> DEFINE x == [c EXCEPT !.pc = "unmap"]
  <2>1. /\ x \in Calls /\ x.pc = "unmap" /\ x.back = c.back /\ x.left = c.left
        /\ x.addr = c.addr /\ x.len = c.len /\ x.off = c.off /\ x.map = c.map
        /\ x.reserved = c.reserved /\ x.fixed = c.fixed
    BY <1>2, AgainCall
  <2>2. call' = [call EXCEPT ![t] = x]
    BY <1>4
  <2> HIDE DEF x
  <2>3. CallOK(x) /\ Unmaps(x) /\ Mine(x) = {} /\ Back(x) = Back(c)
    BY <1>2, <1>4, <2>1 DEF CallOK, Unmaps, Placed, Mine, Back
  <2>4. call'[t] = x /\ \A u \in MapThreads \ {t} : call'[u] = call[u]
    BY <1>0, <2>2, <2>3, Becomes
  <2>5. Virtual' = Virtual
    <3>1. \A u \in MapThreads : Back(call'[u]) = Back(call[u])
      BY <2>3, <2>4
    <3> QED
      BY <1>4, <3>1 DEF Virtual
  <2>6. mem' \in [W!Page -> {W!Free, W!Reserved} \cup {W!View(n) : n \in Nat}]
    BY <1>0, <1>4 DEF WmTypeOK
  <2>7. WmTypeOK' /\ Listed' /\ Holding' /\ Covering' /\ Promises'
    BY <1>1, <1>2, <1>4, <2>1, <2>2, <2>3, <2>5, <2>6, PutStep
  <2>8. Mapped' /\ Honest
    <3>1. \A u \in MapThreads : Mine(call'[u]) = Mine(call[u])
      BY <1>3, <2>3, <2>4
    <3>2. \A u \in MapThreads : \A p \in Mine(call[u]) : KeyOf(call'[u]) = KeyOf(call[u])
      BY <1>3, <2>4
    <3> QED
      BY <1>0, <1>1, <1>4, <3>1, <3>2, MappedSame
  <2> QED
    BY <1>4, <2>7, <2>8 DEF WmGood
<1>5. CASE /\ c.back # <<>> /\ W!TailFits(k) /\ W!ViewFits(k) /\ mem' = W!PutBack(k)
           /\ trackers' = trackers \cup {k} /\ call' = [call EXCEPT ![t] = [c EXCEPT !.back = Tail(@)]]
           /\ UNCHANGED <<handles, qlock, astray>>
  <2> DEFINE x == [c EXCEPT !.back = Tail(c.back)]
  <2>1. Tail(c.back) \in Seq(Trackers)
    BY <1>2, <1>5, BackIs
  <2>2. /\ x \in Calls /\ x.pc = c.pc /\ x.back = Tail(c.back) /\ x.left = c.left
        /\ x.addr = c.addr /\ x.len = c.len /\ x.off = c.off /\ x.map = c.map
        /\ x.reserved = c.reserved /\ x.fixed = c.fixed
    BY <1>2, <2>1, PutCall
  <2>3. call' = [call EXCEPT ![t] = x]
    BY <1>5
  <2> HIDE DEF x
  <2>4. CallOK(x) /\ Unmaps(x) /\ Mine(x) = {}
    BY <1>1, <1>2, <2>2 DEF CallOK, Unmaps, Placed, Mine
  <2>5. Back(c) = {k} \cup Back(x)
    <3>1. {c.back[n] : n \in DOMAIN c.back}
            = {k} \cup {Tail(c.back)[n] : n \in DOMAIN Tail(c.back)}
      BY <1>2, <1>5, BackIs
    <3> QED
      BY <2>2, <3>1, Zenon DEF Back
  <2> HIDE DEF k
  <2>6. call'[t] = x /\ \A u \in MapThreads \ {t} : call'[u] = call[u]
    BY <1>0, <2>3, <2>4, Becomes
  <2>7. k \in Virtual /\ Virtual' = Virtual
    <3>1. \A u \in MapThreads : Back(call'[u]) = IF u = t THEN Back(x) ELSE Back(call[u])
      BY <2>6
    <3> QED
      BY <1>5, <2>5, <3>1, SMTT(40) DEF Virtual
  <2>8. KeyOK(k) /\ \A m \in Virtual \ {k} : Covers(m) \cap Covers(k) = {}
    BY <1>0, <2>7 DEF Listed
  <2>9. /\ \A p \in W!Page : mem'[p] = IF p \in Covers(k) THEN Content(k, p) ELSE mem[p]
        /\ mem' \in [W!Page -> {W!Free, W!Reserved} \cup {W!View(n) : n \in Nat}]
        /\ \A p \in Covers(k) : p \in W!Page /\ mem[p] = W!Free
    BY <1>0, <1>5, <2>8, PutBackIs
  <2>10. WmTypeOK' /\ Listed' /\ Holding' /\ Covering' /\ Promises'
    BY <1>1, <1>2, <1>5, <2>2, <2>3, <2>4, <2>5, <2>7, <2>9, PutStep
  <2>11. Mapped'
    <3>0. /\ \A m \in trackers : Covers(m) \subseteq W!Page
          /\ \A u \in MapThreads : Mine(call[u]) \subseteq W!Page
      BY <1>0, Inside
    <3>1. \A u \in MapThreads : Mine(call'[u]) = Mine(call[u])
      BY <1>3, <2>4, <2>6
    <3>2. \A u \in MapThreads : Mine(call[u]) \cap Covers(k) = {}
      BY <1>0, <2>9, ContentIs DEF Mapped
    <3>3. \A m \in trackers : m # k => Covers(m) \cap Covers(k) = {}
      BY <2>8 DEF Virtual
    <3>4. \A m \in trackers' : \A p \in Covers(m) : mem'[p] = Content(m, p)
      <4> SUFFICES ASSUME NEW m \in trackers', NEW p \in Covers(m) PROVE mem'[p] = Content(m, p)
        OBVIOUS
      <4>1. CASE m = k
        BY <2>9, <4>1
      <4>2. CASE m # k
        <5>1. m \in trackers /\ p \notin Covers(k) /\ p \in W!Page
          BY <1>5, <3>0, <3>3, <4>2
        <5> QED
          BY <1>0, <2>9, <5>1 DEF Mapped
      <4> QED
        BY <4>1, <4>2
    <3>5. \A u \in MapThreads : \A p \in Mine(call'[u]) : mem'[p] = Content(KeyOf(call'[u]), p)
      <4> SUFFICES ASSUME NEW u \in MapThreads, NEW p \in Mine(call'[u])
                   PROVE  mem'[p] = Content(KeyOf(call'[u]), p)
        OBVIOUS
      <4>1. u # t /\ call'[u] = call[u]
        BY <2>4, <2>6
      <4>2. p \in W!Page /\ p \notin Covers(k) /\ mem[p] = Content(KeyOf(call[u]), p)
        BY <1>0, <3>0, <3>2, <4>1 DEF Mapped
      <4> QED
        BY <2>9, <4>1, <4>2
    <3>6. \A p \in W!Page \ leaked' : \/ mem'[p] = W!Free
                                      \/ \E m \in trackers' : p \in Covers(m)
                                      \/ \E u \in MapThreads : p \in Mine(call'[u])
      BY <1>0, <1>1, <1>5, <2>9, <3>1 DEF Mapped
    <3>7. \A u, v \in MapThreads : u # v => Mine(call'[u]) \cap Mine(call'[v]) = {}
      BY <1>0, <3>1 DEF Mapped
    <3>8. \A u \in MapThreads, m \in trackers' : Mine(call'[u]) \cap Covers(m) = {}
      BY <1>0, <1>5, <3>1, <3>2 DEF Mapped
    <3> QED
      BY <3>4, <3>5, <3>6, <3>7, <3>8 DEF Mapped, W!Page
  <2>12. Honest
    <3>1. \A u \in MapThreads : Mine(call'[u]) = Mine(call[u])
      BY <1>3, <2>4, <2>6
    <3> QED
      BY <1>1, <1>5, <2>9, <3>1 DEF Honest, Claimed
  <2> QED
    BY <1>5, <2>10, <2>11, <2>12 DEF WmGood
<1>6. CASE astray' = TRUE
  BY <1>6
<1> QED
  BY <1>4, <1>5, <1>6 DEF W!Remap, W!Do

LEMMA WmNextInv == ASSUME WmConstants, WmInv, [W!Next]_W!wmvars PROVE WmInv'
<1>1. CASE UNCHANGED W!wmvars
  <2>1. /\ UNCHANGED <<mem, trackers, qlock, call, leaked, astray, promise>>
    BY <1>1 DEF W!wmvars
  <2>2. Virtual' = Virtual /\ \A p : Unmapping(p)' <=> Unmapping(p)
    BY <2>1 DEF Virtual, Unmapping
  <2>3. WmTypeOK => WmTypeOK'
    BY <2>1 DEF WmTypeOK
  <2>4. Listed => Listed'
    BY <2>2 DEF Listed
  <2>5. Holding => Holding'
    BY <2>1 DEF Holding
  <2>6. Mapped => Mapped'
    BY <2>1, MappedSame
  <2>7. Covering => Covering'
    BY <2>1, <2>2 DEF Covering
  <2>8. Promises => Promises'
    BY <2>1, <2>2 DEF Promises, W!Page
  <2>9. Lost => Lost'
    BY <2>1 DEF Lost, Claimed, W!Page
  <2> QED
    BY <2>1, <2>3, <2>4, <2>5, <2>6, <2>7, <2>8, <2>9 DEF WmInv, WmGood
<1>2. CASE W!Next
  <2>1. astray = FALSE /\ WmGood /\ Lost
    BY <1>2 DEF W!Next, WmInv
  <2>2. PICK t \in MapThreads :
          \/ \E len \in 1 .. NPages, off \in 0 .. FileSize - 1 : W!mmap(t, W!NoRange, len, off)
          \/ \E r \in W!Ranges, off \in 0 .. FileSize - 1 : W!mmap(t, r[1], r[2], off)
          \/ W!Reserve(t) \/ W!MapView(t) \/ W!Insert(t) \/ W!InsertFails(t)
          \/ \E r \in W!Ranges : W!munmap(t, r[1], r[2])
          \/ W!Unmap(t) \/ W!UnmapFails(t) \/ W!Remap(t)
    BY <1>2 DEF W!Next
  <2>3. ASSUME NEW len \in 1 .. NPages, NEW off \in 0 .. FileSize - 1, W!mmap(t, W!NoRange, len, off)
        PROVE  WmInv'
    <3>1. W!NoRange \in Int /\ len \in Nat \ {0} /\ astray' = astray
      BY <2>3 DEF W!NoRange, W!mmap, WmConstants
    <3> QED
      BY <2>1, <2>3, <3>1, MmapInv, LostKept DEF WmInv
  <2>4. ASSUME NEW r \in W!Ranges, NEW off \in 0 .. FileSize - 1, W!mmap(t, r[1], r[2], off)
        PROVE  WmInv'
    <3>1. r[1] \in Int /\ r[1] >= 0 /\ r[2] \in Nat \ {0} /\ r[1] + r[2] <= NPages /\ astray' = astray
      BY <2>4, RangeIs DEF W!mmap
    <3> QED
      BY <2>1, <2>4, <3>1, MmapInv, LostKept DEF WmInv
  <2>5. CASE W!Reserve(t)
    <3>1. astray' = astray
      BY <2>5 DEF W!Reserve
    <3> QED
      BY <2>1, <2>5, <3>1, ReserveInv, LostKept DEF WmInv
  <2>6. CASE W!MapView(t)
    BY <2>1, <2>6, MapViewInv DEF WmInv
  <2>7. CASE W!Insert(t)
    <3>1. astray' = astray
      BY <2>7 DEF W!Insert
    <3> QED
      BY <2>1, <2>7, <3>1, InsertInv, LostKept DEF WmInv
  <2>8. ASSUME NEW r \in W!Ranges, W!munmap(t, r[1], r[2]) PROVE WmInv'
    <3>1. r[1] \in Int /\ r[1] >= 0 /\ r[2] \in Nat /\ r[2] > 0 /\ r[1] + r[2] <= NPages /\ astray' = astray
      BY <2>8, RangeIs DEF W!munmap
    <3> QED
      BY <2>1, <2>8, <3>1, MunmapInv, LostKept DEF WmInv
  <2>9. CASE W!Unmap(t)
    <3>1. astray' = astray
      BY <2>9 DEF W!Unmap
    <3> QED
      BY <2>1, <2>9, <3>1, SplitInv, LostKept DEF WmInv
  <2>10. CASE W!UnmapFails(t)
    BY <2>10 DEF W!UnmapFails, WmInv
  <2>11. CASE W!Remap(t)
    BY <2>1, <2>11, RemapInv, LostKept DEF WmInv
  <2>12. CASE W!InsertFails(t)
    <3>1. astray' = astray
      BY <2>12 DEF W!InsertFails
    <3> QED
      BY <2>1, <2>12, <3>1, InsertFailsInv DEF WmInv
  <2> QED
    BY <2>2, <2>3, <2>4, <2>5, <2>6, <2>7, <2>8, <2>9, <2>10, <2>11, <2>12
<1> QED
  BY <1>1, <1>2

\* What the program was told is mapped stays mapped, outside the addresses calls are
\* working on, until a mapping goes astray.
THEOREM MappingsStay == ASSUME WmConstants PROVE W!Spec => []MappingsKept
<1>1. W!Init => WmInv
  BY WmInitInv
<1>2. WmInv /\ [W!Next]_(W!wmvars) => WmInv'
  BY WmNextInv
<1>3. WmInv => MappingsKept
  <2> SUFFICES ASSUME WmGood, Lost, NEW p \in W!Page, p \notin W!Underway
               PROVE  IF p \in leaked THEN mem[p] # W!Free /\ promise[p] = W!Free
                      ELSE mem[p] = promise[p]
    BY DEF MappingsKept, W!MappingsKept, WmInv
  <2>0. WmTypeOK /\ Listed /\ Holding /\ Mapped /\ Covering /\ Promises
    BY DEF WmGood
  <2>1. \A t \in MapThreads : call[t].addr # W!NoRange =>
          /\ p \notin Extent(call[t]) /\ \A k \in Back(call[t]) : p \notin Covers(k)
    BY DEF W!Underway, Extent, Back, Covers
  <2>2. \A t \in MapThreads : CallOK(call[t]) /\ call[t] \in Calls
    BY <2>0 DEF WmTypeOK, CallOK
  <2>3. \A t \in MapThreads : Placed(call[t]) => call[t].addr # W!NoRange
    BY <2>2 DEF Placed, Calls, W!NoRange
  <2>4. ~Unmapping(p)
    BY <2>1, <2>2, <2>3 DEF Unmapping, CallOK
  <2>5. \A t \in MapThreads : p \notin Mine(call[t])
    <3> SUFFICES ASSUME NEW t \in MapThreads, p \in Mine(call[t]) PROVE FALSE
      OBVIOUS
    <3>1. call[t].addr \in Int /\ call[t].len \in Nat /\ call[t].off \in Nat
      BY <2>2 DEF Calls
    <3>2. CASE call[t].pc = "insert"
      BY <2>1, <2>2, <2>3, <3>2 DEF CallOK, Mine
    <3>3. CASE call[t].pc # "insert"
      <4>1. /\ call[t].pc = "map" /\ call[t].reserved
            /\ p \in W!Span(call[t].addr + Flen(call[t]), call[t].len - Flen(call[t]))
        BY <3>3 DEF Mine
      <4>2. Placed(call[t]) /\ call[t].off < FileSize /\ call[t].len > 0
        BY <2>2, <4>1 DEF CallOK
      <4>3. Flen(call[t]) \in Nat /\ Flen(call[t]) <= call[t].len
        BY <2>2, <4>2, FileLenIs
      <4>4. p \in Extent(call[t])
        BY <3>1, <4>1, <4>3 DEF Extent, W!Span
      <4> QED
        BY <2>1, <2>3, <4>2, <4>4
    <3> QED
      BY <3>2, <3>3
  <2>6. CASE \E m \in trackers : p \in Covers(m)
    <3>1. PICK m \in trackers : p \in Covers(m)
      BY <2>6
    <3>2. p \notin leaked
      BY <2>6 DEF Lost, Claimed
    <3> QED
      BY <2>0, <2>4, <3>1, <3>2 DEF Mapped, Promises, Virtual
  <2>7. CASE ~ \E m \in trackers : p \in Covers(m)
    <3>1. IF p \in leaked THEN mem[p] # W!Free ELSE mem[p] = W!Free
      BY <2>0, <2>5, <2>7 DEF Mapped, Lost
    <3>2. \A t \in MapThreads : \A k \in Back(call[t]) : p \notin Covers(k)
      <4> SUFFICES ASSUME NEW t \in MapThreads, NEW k \in Back(call[t]) PROVE p \notin Covers(k)
        OBVIOUS
      <4>1. call[t].pc = "remap"
        BY <2>2, NoBack
      <4> QED
        BY <2>1, <2>2, <2>3, <4>1 DEF CallOK, Unmaps
    <3>3. \A k \in Virtual : p \notin Covers(k)
      BY <2>7, <3>2 DEF Virtual
    <3> QED
      BY <2>0, <3>1, <3>3 DEF Promises
  <2> QED
    BY <2>6, <2>7
<1> QED
  BY <1>1, <1>2, <1>3, PTL DEF W!Spec

-----------------------------------------------------------------------------
(* The handles.                                                            *)

\* One pair for each tracker, and for each piece or view that has still none.
Own(c) == {n \in 0 .. 2 : n \in DOMAIN c.back \/ (n = 0 /\ c.pc = "insert")}
Counted ==
    /\ IsFiniteSet(trackers) /\ handles \in Int
    /\ \A t \in MapThreads : Len(call[t].back) <= 2
    /\ handles = Cardinality(trackers) + Cardinality(W!Pending)

\* The Cardinality of the emulation is the one the theorems of the library speak of.
LEMMA WmCardinality == \A S : W!Cardinality(S) = Cardinality(S)
  BY DEF W!Cardinality, Cardinality

LEMMA SlotsFinite == ASSUME WmConstants PROVE IsFiniteSet(MapThreads \X (0 .. 2))
<1>1. IsFiniteSet(MapThreads)
  BY DEF WmConstants
<1> DEFINE N == 0 .. 2
<1>2. IsFiniteSet(N)
  <2>1. \A n \in Nat : IsFiniteSet(0 .. n)
    BY FS_Interval
  <2> QED
    BY <2>1
<1> HIDE DEF N
<1>3. IsFiniteSet(MapThreads \X N)
  BY <1>1, <1>2, FS_Product
<1> QED
  BY <1>3 DEF N

LEMMA PendingIs ==
    ASSUME WmConstants
    PROVE  /\ \A u, n : <<u, n>> \in W!Pending <=> u \in MapThreads /\ n \in Own(call[u])
           /\ \A z \in W!Pending : z = <<z[1], z[2]>>
           /\ IsFiniteSet(W!Pending) /\ Cardinality(W!Pending) \in Nat
<1>1. /\ \A u, n : <<u, n>> \in W!Pending <=> u \in MapThreads /\ n \in Own(call[u])
      /\ \A z \in W!Pending : z = <<z[1], z[2]>>
  BY DEF W!Pending, Own
<1>2. W!Pending \subseteq MapThreads \X (0 .. 2)
  BY DEF W!Pending
<1>3. IsFiniteSet(MapThreads \X (0 .. 2))
  BY SlotsFinite
<1>4. IsFiniteSet(W!Pending)
  BY <1>2, <1>3, FS_Subset
<1> QED
  BY <1>1, <1>4, FS_CardinalityType

\* What a step of thread t does to the pairs of handles without a tracker.
LEMMA PendingStep ==
    ASSUME WmConstants, NEW t \in MapThreads, NEW x,
           call'[t] = x, \A u \in MapThreads \ {t} : call'[u] = call[u]
    PROVE  /\ Cardinality(W!Pending) \in Nat /\ Cardinality(W!Pending') \in Nat
           /\ Own(x) = Own(call[t]) => Cardinality(W!Pending') = Cardinality(W!Pending)
           /\ \A n : Own(x) = Own(call[t]) \cup {n} /\ n \notin Own(call[t]) =>
                       Cardinality(W!Pending') = Cardinality(W!Pending) + 1
           /\ \A n : Own(call[t]) = Own(x) \cup {n} /\ n \notin Own(x) =>
                       Cardinality(W!Pending') = Cardinality(W!Pending) - 1
           /\ Own(x) = {1, 2} /\ Own(call[t]) = {} =>
                Cardinality(W!Pending') = Cardinality(W!Pending) + 2
<1> DEFINE A == W!Pending
           B == W!Pending'
<1>1. /\ \A u, n : <<u, n>> \in A <=> u \in MapThreads /\ n \in Own(call[u])
      /\ \A z \in A : z = <<z[1], z[2]>>
      /\ IsFiniteSet(A) /\ Cardinality(A) \in Nat
  BY PendingIs
<1>2. /\ \A u, n : <<u, n>> \in B <=> u \in MapThreads /\ n \in Own(call'[u])
      /\ \A z \in B : z = <<z[1], z[2]>>
      /\ IsFiniteSet(B) /\ Cardinality(B) \in Nat
  <2>1. B \subseteq MapThreads \X (0 .. 2)
    BY DEF W!Pending
  <2>2. IsFiniteSet(B)
    BY <2>1, SlotsFinite, FS_Subset
  <2> QED
    BY <2>2, FS_CardinalityType DEF W!Pending, Own
<1> HIDE DEF A, B
<1>3. ASSUME NEW N, Own(x) = Own(call[t]) \cup N PROVE B = A \cup {<<t, n>> : n \in N}
  <2>1. ASSUME NEW z \in B PROVE z \in A \cup {<<t, n>> : n \in N}
    <3>1. z[1] \in MapThreads /\ z[2] \in Own(call'[z[1]]) /\ z = <<z[1], z[2]>>
      BY <1>2
    <3>2. CASE z[1] = t
      BY <1>1, <1>3, <3>1, <3>2
    <3>3. CASE z[1] # t
      BY <1>1, <3>1, <3>3
    <3> QED
      BY <3>2, <3>3
  <2>2. ASSUME NEW z \in A PROVE z \in B
    <3>1. z[1] \in MapThreads /\ z[2] \in Own(call[z[1]]) /\ z = <<z[1], z[2]>>
      BY <1>1
    <3> QED
      BY <1>2, <1>3, <3>1
  <2>3. \A n \in N : <<t, n>> \in B
    BY <1>2, <1>3
  <2> QED
    BY <2>1, <2>2, <2>3
<1>4. ASSUME NEW N, Own(call[t]) = Own(x) \cup N PROVE A = B \cup {<<t, n>> : n \in N}
  <2>1. ASSUME NEW z \in A PROVE z \in B \cup {<<t, n>> : n \in N}
    <3>1. z[1] \in MapThreads /\ z[2] \in Own(call[z[1]]) /\ z = <<z[1], z[2]>>
      BY <1>1
    <3>2. CASE z[1] = t
      BY <1>2, <1>4, <3>1, <3>2
    <3>3. CASE z[1] # t
      BY <1>2, <3>1, <3>3
    <3> QED
      BY <3>2, <3>3
  <2>2. ASSUME NEW z \in B PROVE z \in A
    <3>1. z[1] \in MapThreads /\ z[2] \in Own(call'[z[1]]) /\ z = <<z[1], z[2]>>
      BY <1>2
    <3> QED
      BY <1>1, <1>4, <3>1
  <2>3. \A n \in N : <<t, n>> \in A
    BY <1>1, <1>4
  <2> QED
    BY <2>1, <2>2, <2>3
<1>5. ASSUME Own(x) = Own(call[t]) PROVE Cardinality(B) = Cardinality(A)
  <2>1. Own(x) = Own(call[t]) \cup {}
    BY <1>5
  <2>2. B = A \cup {<<t, n>> : n \in {}}
    BY <1>3, <2>1
  <2>3. B = A
    BY <2>2
  <2> QED
    BY <2>3
<1>6. ASSUME NEW n, Own(x) = Own(call[t]) \cup {n}, n \notin Own(call[t])
      PROVE  Cardinality(B) = Cardinality(A) + 1
  <2>1. B = A \cup {<<t, n>>} /\ <<t, n>> \notin A
    BY <1>1, <1>3, <1>6
  <2> QED
    BY <1>1, <2>1, FS_AddElement
<1>7. ASSUME NEW n, Own(call[t]) = Own(x) \cup {n}, n \notin Own(x)
      PROVE  Cardinality(B) = Cardinality(A) - 1
  <2>1. A = B \cup {<<t, n>>} /\ <<t, n>> \notin B
    BY <1>2, <1>4, <1>7
  <2>2. Cardinality(A) = Cardinality(B) + 1
    BY <1>2, <2>1, FS_AddElement
  <2> QED
    BY <1>1, <1>2, <2>2
<1>8. ASSUME Own(x) = {1, 2}, Own(call[t]) = {} PROVE Cardinality(B) = Cardinality(A) + 2
  <2>1. Own(x) = Own(call[t]) \cup {1, 2}
    BY <1>8
  <2>2. B = (A \cup {<<t, 1>>}) \cup {<<t, 2>>}
    BY <1>3, <2>1
  <2>3. <<t, 1>> \notin A /\ <<t, 2>> \notin A \cup {<<t, 1>>}
    BY <1>1, <1>8
  <2>4. /\ Cardinality(A \cup {<<t, 1>>}) = Cardinality(A) + 1 /\ IsFiniteSet(A \cup {<<t, 1>>})
        /\ Cardinality(B) = Cardinality(A \cup {<<t, 1>>}) + 1
    BY <1>1, <2>2, <2>3, FS_AddElement
  <2> QED
    BY <1>1, <2>4
<1> QED
  BY <1>1, <1>2, <1>5, <1>6, <1>7, <1>8 DEF A, B

LEMMA OwnIs ==
    ASSUME NEW c \in Calls
    PROVE  /\ Len(c.back) \in Nat /\ DOMAIN c.back = 1 .. Len(c.back)
           /\ c.back = <<>> => Len(c.back) = 0 /\ Own(c) = IF c.pc = "insert" THEN {0} ELSE {}
           /\ c.pc # "insert" /\ Len(c.back) <= 2 => Own(c) = 1 .. Len(c.back)
<1>1. c.back \in Seq(Trackers)
  BY DEF Calls
<1>2. Len(c.back) \in Nat /\ DOMAIN c.back = 1 .. Len(c.back)
  BY <1>1
<1>3. c.back = <<>> => Len(c.back) = 0
  OBVIOUS
<1> QED
  BY <1>2, <1>3 DEF Own

\* A step without effect on the list and the handles.
LEMMA CountedSame ==
    ASSUME WmConstants, WmTypeOK, Counted, NEW t \in MapThreads, NEW x, CallOK(x),
           call' = [call EXCEPT ![t] = x], UNCHANGED <<trackers, handles>>,
           x.back = call[t].back, x.pc # "insert", call[t].pc # "insert"
    PROVE  Counted'
<1>1. call'[t] = x /\ \A u \in MapThreads \ {t} : call'[u] = call[u]
  BY Becomes
<1>2. Own(x) = Own(call[t])
  BY DEF Own
<1>3. Cardinality(W!Pending') = Cardinality(W!Pending)
  BY <1>1, <1>2, PendingStep
<1> QED
  BY <1>1, <1>3 DEF Counted

LEMMA CountedSide ==
    ASSUME WmConstants, WmGood, Counted, NEW t \in MapThreads, NEW x, CallOK(x),
           call' = [call EXCEPT ![t] = x], ~Unmaps(call[t]), x.pc # "remap"
    PROVE  /\ \A u \in MapThreads : Len(call'[u].back) <= 2
           /\ Cardinality(W!Pending) \in Nat
           /\ (x.pc = "insert" <=> call[t].pc = "insert") =>
                Cardinality(W!Pending') = Cardinality(W!Pending)
           /\ x.pc = "insert" /\ call[t].pc # "insert" =>
                Cardinality(W!Pending') = Cardinality(W!Pending) + 1
           /\ x.pc # "insert" /\ call[t].pc = "insert" =>
                Cardinality(W!Pending') = Cardinality(W!Pending) - 1
<1>1. /\ x \in Calls /\ x.back = <<>> /\ call[t] \in Calls /\ call[t].back = <<>>
  BY DEF WmGood, WmTypeOK, CallOK, Unmaps
<1>2. call'[t] = x /\ \A u \in MapThreads \ {t} : call'[u] = call[u]
  BY Becomes DEF WmGood
<1>3. /\ Own(x) = IF x.pc = "insert" THEN {0} ELSE {}
      /\ Own(call[t]) = IF call[t].pc = "insert" THEN {0} ELSE {}
      /\ Len(x.back) = 0
  BY <1>1, OwnIs
<1>4. \A u \in MapThreads : Len(call'[u].back) <= 2
  BY <1>2, <1>3 DEF Counted
<1>5. /\ Own(x) = Own(call[t]) => Cardinality(W!Pending') = Cardinality(W!Pending)
      /\ Own(x) = Own(call[t]) \cup {0} /\ 0 \notin Own(call[t]) =>
           Cardinality(W!Pending') = Cardinality(W!Pending) + 1
      /\ Own(call[t]) = Own(x) \cup {0} /\ 0 \notin Own(x) =>
           Cardinality(W!Pending') = Cardinality(W!Pending) - 1
      /\ Cardinality(W!Pending) \in Nat
  BY <1>2, PendingStep
<1>6. (x.pc = "insert" <=> call[t].pc = "insert") => Own(x) = Own(call[t])
  BY <1>3
<1>7. x.pc = "insert" /\ call[t].pc # "insert" => Own(x) = Own(call[t]) \cup {0} /\ 0 \notin Own(call[t])
  BY <1>3
<1>8. x.pc # "insert" /\ call[t].pc = "insert" => Own(call[t]) = Own(x) \cup {0} /\ 0 \notin Own(x)
  BY <1>3
<1> QED
  BY <1>4, <1>5, <1>6, <1>7, <1>8

\* The list grows by a tracker, or shrinks.
LEMMA ListCounts ==
    ASSUME IsFiniteSet(trackers), NEW k
    PROVE  /\ Cardinality(trackers) \in Nat
           /\ trackers' = trackers \cup {k} /\ k \notin trackers =>
                IsFiniteSet(trackers') /\ Cardinality(trackers') = Cardinality(trackers) + 1
           /\ trackers' = trackers \ {k} /\ k \in trackers =>
                IsFiniteSet(trackers') /\ Cardinality(trackers') = Cardinality(trackers) - 1
  BY FS_CardinalityType, FS_AddElement, FS_RemoveElement

LEMMA CountedInsert ==
    ASSUME WmConstants, WmGood, Counted, NEW t \in MapThreads, W!Insert(t)
    PROVE  Counted'
<1> DEFINE c == call[t]
           k == KeyOf(c)
<1>0. WmTypeOK /\ Listed /\ Mapped
  BY DEF WmGood
<1>1. /\ c.pc = "insert" /\ trackers' = trackers \cup {k} /\ handles' = handles
      /\ call' = [call EXCEPT ![t] = W!Idle]
  BY DEF W!Insert, W!Do, KeyOf, Flen
<1>2. /\ CallOK(c) /\ c \in Calls /\ ~Unmaps(c) /\ Mine(c) = Extent(c)
      /\ c.len > 0 /\ c.len \in Nat /\ c.addr \in Int
  BY <1>0, <1>1 DEF WmTypeOK, CallOK, Unmaps, Calls, Mine
<1>3. k \notin trackers
  <2>1. c.addr \in Extent(c)
    BY <1>2, SpanIs DEF Extent
  <2>2. k.base = c.addr /\ k.end = c.addr + c.len
    BY DEF KeyOf
  <2>3. c.addr \in Covers(k)
    BY <1>2, <2>2 DEF Covers, W!Span
  <2> QED
    BY <1>0, <1>2, <2>1, <2>3 DEF Mapped
<1> HIDE DEF k
<1>4. /\ \A u \in MapThreads : Len(call'[u].back) <= 2
      /\ Cardinality(W!Pending) \in Nat
      /\ Cardinality(W!Pending') = Cardinality(W!Pending) - 1
  BY <1>1, <1>2, IdleIs, CountedSide
<1>5. /\ IsFiniteSet(trackers') /\ Cardinality(trackers') = Cardinality(trackers) + 1
      /\ Cardinality(trackers) \in Nat
  BY <1>1, <1>3, ListCounts DEF Counted
<1> QED
  BY <1>1, <1>4, <1>5 DEF Counted

LEMMA CountedInsertFails ==
    ASSUME WmConstants, WmGood, Counted, NEW t \in MapThreads, W!InsertFails(t)
    PROVE  Counted'
<1>1. /\ call[t].pc = "insert" /\ trackers' = trackers /\ handles' = handles - 1
      /\ call' = [call EXCEPT ![t] = W!Idle]
  BY DEF W!InsertFails, W!Do
<1>2. /\ \A u \in MapThreads : Len(call'[u].back) <= 2
      /\ Cardinality(W!Pending) \in Nat
      /\ Cardinality(W!Pending') = Cardinality(W!Pending) - 1
  BY <1>1, IdleIs, CountedSide DEF Unmaps
<1>3. Cardinality(trackers) \in Nat
  BY FS_CardinalityType DEF Counted
<1> QED
  BY <1>1, <1>2, <1>3 DEF Counted

LEMMA CountedMapView ==
    ASSUME WmConstants, WmGood, Lost, Counted, astray = FALSE, NEW t \in MapThreads, W!MapView(t)
    PROVE  astray' \/ Counted'
<1> DEFINE c == call[t]
<1>1. c.pc = "map" /\ UNCHANGED trackers
  BY DEF W!MapView
<1>2. CallOK(c) /\ c \in Calls /\ ~Unmaps(c)
  BY <1>1 DEF WmGood, WmTypeOK, CallOK, Unmaps
<1>3. ASSUME NEW x, CallOK(x), x.pc = "insert", call' = [call EXCEPT ![t] = x], handles' = handles + 1
      PROVE  Counted'
  <2>1. /\ \A u \in MapThreads : Len(call'[u].back) <= 2
        /\ Cardinality(W!Pending) \in Nat
        /\ Cardinality(W!Pending') = Cardinality(W!Pending) + 1
    BY <1>1, <1>2, <1>3, CountedSide
  <2>2. Cardinality(trackers) \in Nat
    BY FS_CardinalityType DEF Counted
  <2> QED
    BY <1>1, <1>3, <2>1, <2>2 DEF Counted
<1>4. ASSUME call' = [call EXCEPT ![t] = W!Idle], handles' = handles
      PROVE  Counted'
  <2>1. /\ \A u \in MapThreads : Len(call'[u].back) <= 2
        /\ Cardinality(W!Pending') = Cardinality(W!Pending)
    BY <1>1, <1>2, <1>4, IdleIs, CountedSide
  <2> QED
    BY <1>1, <1>4, <2>1 DEF Counted
<1>5. \/ call' = [call EXCEPT ![t] = W!Idle] /\ handles' = handles
      \/ \E b : call' = [call EXCEPT ![t] = [c EXCEPT !.pc = "insert", !.addr = b]] /\ handles' = handles + 1
  BY DEF W!MapView, W!Do
<1>6. CASE call' = [call EXCEPT ![t] = W!Idle] /\ handles' = handles
  BY <1>4, <1>6
<1>7. CASE \E b : call' = [call EXCEPT ![t] = [c EXCEPT !.pc = "insert", !.addr = b]] /\ handles' = handles + 1
  <2>1. PICK b : call' = [call EXCEPT ![t] = [c EXCEPT !.pc = "insert", !.addr = b]] /\ handles' = handles + 1
    BY <1>7
  <2> DEFINE x == [c EXCEPT !.pc = "insert", !.addr = b]
  <2>2. x.pc = "insert"
    BY <1>2 DEF Calls
  <2>3. astray' \in BOOLEAN /\ (astray' \/ WmGood')
    BY MapViewInv
  <2>4. CASE WmGood'
    <3>1. call'[t] = x
      BY <2>1 DEF WmGood, WmTypeOK
    <3>2. CallOK(x)
      BY <2>4, <3>1 DEF WmGood, WmTypeOK
    <3> HIDE DEF x
    <3> QED
      BY <1>3, <2>1, <2>2, <3>2 DEF x
  <2> QED
    BY <2>3, <2>4
<1> QED
  BY <1>5, <1>6, <1>7

LEMMA PiecesFew ==
    ASSUME NEW m, NEW begin, NEW end
    PROVE  Len(W!Pieces(m, begin, end)) \in 0 .. 2
<1>1. \A a, b : Len(<<a>> \o <<b>>) = 2 /\ Len(<<a>> \o <<>>) = 1 /\ Len(<<>> \o <<b>>) = 1
  OBVIOUS
<1>2. Len(<<>> \o <<>>) = 0
  OBVIOUS
<1> QED
  BY <1>1, <1>2 DEF W!Pieces

LEMMA CountedUnmap ==
    ASSUME WmConstants, WmGood, WmGood', Counted, NEW t \in MapThreads, W!Unmap(t)
    PROVE  Counted'
<1> DEFINE c == call[t]
           m == W!Leftmost(W!Met(c))
           begin == IF c.addr > m.base THEN c.addr ELSE m.base
           end == IF c.addr + c.len < m.end THEN c.addr + c.len ELSE m.end
           q == W!Pieces(m, begin, end)
<1>0. CallOK(c) /\ c \in Calls /\ WmTypeOK
  BY DEF WmGood, WmTypeOK, CallOK
<1>1. c.pc = "unmap" /\ c.back = <<>> /\ Len(c.back) = 0 /\ Own(c) = {}
  <2>1. c.pc = "unmap" /\ c.back = <<>>
    BY <1>0 DEF W!Unmap, CallOK
  <2> QED
    BY <1>0, <2>1, OwnIs
<1>2. Cardinality(trackers) \in Nat /\ Cardinality(W!Pending) \in Nat
  BY FS_CardinalityType, PendingIs DEF Counted
<1>3. CASE /\ W!Met(c) # {} /\ c.left > 0 /\ qlock \in {W!Nobody, t}
           /\ trackers' = trackers \ {m} /\ handles' = W!HandlesFor(q)
           /\ call' = [call EXCEPT ![t] = [c EXCEPT !.pc = "remap", !.back = q, !.two = Len(q) = 2,
                                                    !.left = @ - (end - begin)]]
  <2>1. m \in trackers
    <3>1. Hole(t, c, m, c.addr + c.len, (c.addr + c.len) - c.left, end)
      <4>1. c.pc = "unmap" /\ qlock \in {W!Nobody, t} /\ W!Met(c) # {} /\ c.left > 0
        BY <1>1, <1>3
      <4> QED
        BY <4>1 DEF Hole
    <3> QED
      BY <3>1, HoleIs
  <2>2. /\ IsFiniteSet(trackers') /\ Cardinality(trackers') = Cardinality(trackers) - 1
    BY <1>3, <2>1, ListCounts DEF Counted
  <2>3. handles' = handles - 1 + Len(q)
    BY <1>3 DEF W!HandlesFor
  <2> DEFINE n == Len(q)
             x == call'[t]
  <2>4. n \in 0 .. 2
    BY PiecesFew
  <2> HIDE DEF q
  <2>5. x.pc = "remap" /\ x.back = q
    BY <1>0, <1>3 DEF WmTypeOK, Calls
  <2>6. x \in Calls /\ \A u \in MapThreads \ {t} : call'[u] = call[u]
    <3>1. x \in Calls
      BY DEF WmGood, WmTypeOK
    <3> QED
      BY <1>0, <1>3, <3>1 DEF WmTypeOK
  <2> HIDE DEF x
  <2>10. Len(x.back) = n
    BY <2>5, Zenon
  <2>11. handles' = handles - 1 + n
    BY <2>3
  <2> HIDE DEF n
  <2>7. Own(x) = 1 .. n
    <3>1. Len(x.back) <= 2
      BY <2>4, <2>10
    <3>2. Own(x) = 1 .. Len(x.back)
      BY <2>5, <2>6, <3>1, OwnIs
    <3> QED
      BY <2>10, <3>2, Zenon
  <2>8. Cardinality(W!Pending') = Cardinality(W!Pending) + n
    <3>1. /\ Own(x) = Own(c) => Cardinality(W!Pending') = Cardinality(W!Pending)
          /\ Own(x) = Own(c) \cup {1} /\ 1 \notin Own(c) =>
               Cardinality(W!Pending') = Cardinality(W!Pending) + 1
          /\ Own(x) = {1, 2} /\ Own(c) = {} => Cardinality(W!Pending') = Cardinality(W!Pending) + 2
      BY <2>6, PendingStep DEF x
    <3>2. CASE n = 0
      <4>1. Own(x) = Own(c)
        BY <1>1, <2>7, <3>2
      <4> QED
        BY <1>2, <3>1, <3>2, <4>1
    <3>3. CASE n = 1
      <4>1. Own(x) = Own(c) \cup {1} /\ 1 \notin Own(c)
        BY <1>1, <2>7, <3>3
      <4> QED
        BY <3>1, <3>3, <4>1
    <3>4. CASE n = 2
      <4>1. Own(x) = {1, 2}
        BY <2>7, <3>4
      <4> QED
        BY <1>1, <3>1, <3>4, <4>1
    <3> QED
      BY <2>4, <3>2, <3>3, <3>4
  <2>9. \A u \in MapThreads : Len(call'[u].back) <= 2
    <3>1. Len(x.back) <= 2
      BY <2>4, <2>10
    <3> QED
      BY <2>6, <3>1 DEF Counted, x
  <2> QED
    BY <1>2, <2>2, <2>4, <2>8, <2>9, <2>11, SMTT(40) DEF Counted
<1>4. CASE W!Returns(t) /\ UNCHANGED <<trackers, handles>>
  <2> DEFINE x == call'[t]
  <2>1. /\ call' = [call EXCEPT ![t] = IF c.map THEN [c EXCEPT !.pc = "map", !.left = 0] ELSE W!Idle]
    BY <1>4 DEF W!Returns, W!Do
  <2>2. x.pc \in {"map", "idle"} /\ x.back = <<>>
    BY <1>0, <1>1, <2>1, IdleIs DEF WmTypeOK, Calls
  <2>3. CallOK(x)
    BY DEF WmGood, WmTypeOK
  <2>4. call' = [call EXCEPT ![t] = x]
    BY <1>0, <2>1 DEF WmTypeOK
  <2> HIDE DEF x
  <2> QED
    BY <1>0, <1>1, <1>4, <2>2, <2>3, <2>4, CountedSame
<1> QED
  BY <1>3, <1>4 DEF W!Unmap, W!Do

LEMMA CountedRemap ==
    ASSUME WmConstants, WmGood, WmGood', Counted, astray' = FALSE, NEW t \in MapThreads, W!Remap(t)
    PROVE  Counted'
<1> DEFINE c == call[t]
           k == Head(c.back)
           x == call'[t]
<1>0. CallOK(c) /\ c \in Calls /\ WmTypeOK /\ Listed /\ Mapped /\ c.back \in Seq(Trackers)
  BY DEF WmGood, WmTypeOK, CallOK, Calls
<1>1. c.pc = "remap" /\ Len(c.back) <= 2 /\ Own(c) = 1 .. Len(c.back)
  <2>1. c.pc = "remap" /\ Len(c.back) <= 2
    BY DEF W!Remap, Counted
  <2> QED
    BY <1>0, <2>1, OwnIs
<1>2. CallOK(x) /\ x \in Calls
  BY DEF WmGood, WmTypeOK, CallOK
<1>3. Cardinality(trackers) \in Nat /\ Cardinality(W!Pending) \in Nat
  BY FS_CardinalityType, PendingIs DEF Counted
<1>4. CASE /\ c.back = <<>> /\ call' = [call EXCEPT ![t] = [c EXCEPT !.pc = "unmap"]]
           /\ UNCHANGED <<mem, trackers, handles, qlock, astray>>
  <2>1. x.pc = "unmap" /\ x.back = c.back
    BY <1>0, <1>4 DEF WmTypeOK, Calls
  <2>2. call' = [call EXCEPT ![t] = x]
    BY <1>0, <1>4 DEF WmTypeOK
  <2> HIDE DEF x
  <2> QED
    BY <1>0, <1>1, <1>2, <1>4, <2>1, <2>2, CountedSame
<1>5. CASE /\ c.back # <<>> /\ W!TailFits(k) /\ W!ViewFits(k) /\ mem' = W!PutBack(k)
           /\ trackers' = trackers \cup {k} /\ call' = [call EXCEPT ![t] = [c EXCEPT !.back = Tail(@)]]
           /\ UNCHANGED <<handles, qlock, astray>>
  <2>1. k \notin trackers
    <3>1. k \in Back(c)
      BY <1>0, <1>5, BackIs DEF Back
    <3>2. KeyOK(k)
      BY <1>0, <3>1 DEF Listed, Virtual
    <3>3. k.base \in Covers(k)
      BY <3>2, CoversIs DEF KeyOK, Trackers
    <3>4. mem[k.base] = W!Free
      BY <1>0, <1>5, <3>2, <3>3, PutBackIs
    <3> QED
      BY <1>0, <3>3, <3>4, ContentIs DEF Mapped
  <2>2. x.pc = "remap" /\ x.back = Tail(c.back)
    BY <1>0, <1>1, <1>5 DEF WmTypeOK, Calls
  <2>3. \A u \in MapThreads \ {t} : call'[u] = call[u]
    BY <1>0, <1>5 DEF WmTypeOK
  <2> DEFINE n == Len(c.back)
  <2>4. n \in Nat \ {0} /\ n <= 2 /\ Len(Tail(c.back)) = n - 1 /\ Own(c) = 1 .. n
    BY <1>0, <1>1, <1>5
  <2>10. Len(x.back) = Len(Tail(c.back))
    BY <2>2, Zenon
  <2> HIDE DEF x, k, n
  <2>11. Len(x.back) = n - 1 /\ Len(x.back) <= 2
    BY <2>4, <2>10
  <2>5. Own(x) = 1 .. n - 1
    <3>1. Own(x) = 1 .. Len(x.back)
      BY <1>2, <2>2, <2>11, OwnIs
    <3> QED
      BY <2>11, <3>1, Zenon
  <2>6. Own(c) = Own(x) \cup {n} /\ n \notin Own(x)
    BY <2>4, <2>5
  <2>7. Cardinality(W!Pending') = Cardinality(W!Pending) - 1
    BY <2>3, <2>6, PendingStep DEF x
  <2>8. /\ IsFiniteSet(trackers') /\ Cardinality(trackers') = Cardinality(trackers) + 1
    BY <1>5, <2>1, ListCounts DEF Counted
  <2>9. \A u \in MapThreads : Len(call'[u].back) <= 2
    BY <2>3, <2>11 DEF Counted, x
  <2> QED
    BY <1>3, <1>5, <2>7, <2>8, <2>9 DEF Counted
<1> QED
  BY <1>4, <1>5 DEF W!Remap, W!Do

\* mmap_split and the rest of munmap, and mmap, keep a pair of handles per tracker.
WmAll == WmInv /\ (astray \/ Counted)

LEMMA CountedStep == ASSUME WmConstants, WmAll, [W!Next]_W!wmvars PROVE WmAll'
<1>0. WmInv'
  BY WmNextInv DEF WmAll
<1>1. CASE UNCHANGED W!wmvars
  <2>1. W!Pending' = W!Pending
    BY <1>1 DEF W!wmvars, W!Pending
  <2> QED
    BY <1>0, <1>1, <2>1 DEF WmAll, Counted, W!wmvars
<1>2. CASE W!Next
  <2> SUFFICES ASSUME astray' = FALSE PROVE Counted'
    BY <1>0 DEF WmAll, WmInv
  <2>1. astray = FALSE /\ WmGood /\ Lost /\ WmGood' /\ Counted
    BY <1>0, <1>2 DEF W!Next, WmAll, WmInv
  <2>2. PICK t \in MapThreads :
          \/ \E len \in 1 .. NPages, off \in 0 .. FileSize - 1 : W!mmap(t, W!NoRange, len, off)
          \/ \E r \in W!Ranges, off \in 0 .. FileSize - 1 : W!mmap(t, r[1], r[2], off)
          \/ W!Reserve(t) \/ W!MapView(t) \/ W!Insert(t) \/ W!InsertFails(t)
          \/ \E r \in W!Ranges : W!munmap(t, r[1], r[2])
          \/ W!Unmap(t) \/ W!UnmapFails(t) \/ W!Remap(t)
    BY <1>2 DEF W!Next
  <2>3. WmTypeOK /\ call[t] \in Calls /\ CallOK(call[t]) /\ CallOK(call'[t])
    BY <2>1 DEF WmGood, WmTypeOK, CallOK
  <2>4. ASSUME NEW addr, NEW len, NEW off, W!mmap(t, addr, len, off) PROVE Counted'
    <3>1. /\ call[t].pc = "idle" /\ UNCHANGED <<trackers, handles>>
          /\ \E y : call' = [call EXCEPT ![t] = y]
      BY <2>4 DEF W!mmap, W!Do
    <3>2. call' = [call EXCEPT ![t] = call'[t]]
      BY <2>3, <3>1 DEF WmTypeOK
    <3>3. call'[t].pc \in {"unmap", "map"}
      <4> DEFINE d == [W!Idle EXCEPT !.addr = addr, !.len = len, !.off = off,
                                     !.fixed = addr # W!NoRange, !.map = TRUE]
      <4>1. \/ call' = [call EXCEPT ![t] = [d EXCEPT !.pc = "unmap", !.left = len]]
            \/ call' = [call EXCEPT ![t] = [d EXCEPT !.pc = "map"]]
        BY <2>4 DEF W!mmap, W!Do
      <4>2. [d EXCEPT !.pc = "unmap", !.left = len].pc = "unmap" /\ [d EXCEPT !.pc = "map"].pc = "map"
        BY DEF W!Idle
      <4> HIDE DEF d
      <4> QED
        BY <2>3, <4>1, <4>2 DEF WmTypeOK
    <3>4. call[t].back = <<>> /\ call'[t].back = <<>>
      BY <2>3, <3>1, <3>3 DEF CallOK
    <3> QED
      BY <2>1, <2>3, <3>1, <3>2, <3>3, <3>4, CountedSame
  <2>5. ASSUME NEW addr, NEW len, W!munmap(t, addr, len) PROVE Counted'
    <3> DEFINE y == [W!Idle EXCEPT !.pc = "unmap", !.addr = addr, !.len = len, !.left = len]
    <3>1. /\ call[t].pc = "idle" /\ UNCHANGED <<trackers, handles>> /\ call' = [call EXCEPT ![t] = y]
      BY <2>5 DEF W!munmap, W!Do
    <3>2. y.pc = "unmap"
      BY DEF W!Idle
    <3> HIDE DEF y
    <3>3. call'[t] = y
      BY <2>3, <3>1 DEF WmTypeOK
    <3>4. call[t].back = <<>> /\ y.back = <<>> /\ CallOK(y)
      BY <2>3, <3>1, <3>2, <3>3 DEF CallOK
    <3> QED
      BY <2>1, <2>3, <3>1, <3>2, <3>4, CountedSame
  <2>6. CASE W!Reserve(t)
    <3>1. /\ call[t].pc = "map" /\ UNCHANGED <<trackers, handles>>
          /\ \/ \E b : call' = [call EXCEPT ![t] = [call[t] EXCEPT !.addr = b, !.reserved = TRUE]]
             \/ call' = [call EXCEPT ![t] = W!Idle]
      BY <2>6 DEF W!Reserve, W!Do
    <3>2. call'[t].pc \in {"map", "idle"} /\ call' = [call EXCEPT ![t] = call'[t]]
      <4>1. CASE call' = [call EXCEPT ![t] = W!Idle]
        BY <2>3, <4>1, IdleIs DEF WmTypeOK
      <4>2. CASE \E b : call' = [call EXCEPT ![t] = [call[t] EXCEPT !.addr = b, !.reserved = TRUE]]
        <5>1. PICK b : call' = [call EXCEPT ![t] = [call[t] EXCEPT !.addr = b, !.reserved = TRUE]]
          BY <4>2
        <5> DEFINE y == [call[t] EXCEPT !.addr = b, !.reserved = TRUE]
        <5>2. y.pc = "map"
          BY <2>3, <3>1 DEF Calls
        <5>3. call' = [call EXCEPT ![t] = y]
          BY <5>1
        <5> HIDE DEF y
        <5> QED
          BY <2>3, <5>2, <5>3 DEF WmTypeOK
      <4> QED
        BY <3>1, <4>1, <4>2
    <3>3. call[t].back = <<>> /\ call'[t].back = <<>>
      BY <2>3, <3>1, <3>2 DEF CallOK
    <3> QED
      BY <2>1, <2>3, <3>1, <3>2, <3>3, CountedSame
  <2>7. CASE W!MapView(t)
    BY <2>1, <2>7, CountedMapView
  <2>8. CASE W!Insert(t)
    BY <2>1, <2>8, CountedInsert
  <2>9. CASE W!Unmap(t)
    BY <2>1, <2>9, CountedUnmap
  <2>10. CASE W!UnmapFails(t)
    BY <2>10 DEF W!UnmapFails
  <2>11. CASE W!Remap(t)
    BY <2>1, <2>11, CountedRemap
  <2>12. CASE W!InsertFails(t)
    BY <2>1, <2>12, CountedInsertFails
  <2> QED
    BY <2>2, <2>4, <2>5, <2>6, <2>7, <2>8, <2>9, <2>10, <2>11, <2>12
<1> QED
  BY <1>1, <1>2

\* Trackers are disjoint: the addresses they have of a range count up to its length
\* exactly when each address of it is in one.
LEMMA MsyncIs ==
    ASSUME WmConstants, WmGood, NEW r \in W!Ranges
    PROVE  W!msync(r[1], r[2]) <=>
             \A p \in W!Span(r[1], r[2]) : \E m \in trackers : m.base <= p /\ p < m.end
<1> DEFINE R == W!Span(r[1], r[2])
           had == {mp \in trackers \X R : mp[1].base <= mp[2] /\ mp[2] < mp[1].end}
           f == [mp \in had |-> mp[2]]
<1>1. r[1] \in Nat /\ r[2] \in Nat \ {0}
  BY RangeIs
<1>2. IsFiniteSet(R) /\ Cardinality(R) = r[2]
  <2>1. ASSUME NEW a \in Nat, NEW n \in Nat \ {0}
        PROVE  IsFiniteSet(a .. a + n - 1) /\ Cardinality(a .. a + n - 1) = n
    <3>1. a + n - 1 \in Int /\ ~(a > a + n - 1) /\ (a + n - 1) - a + 1 = n
      OBVIOUS
    <3>2. \A b \in Int : /\ IsFiniteSet(a .. b)
                         /\ Cardinality(a .. b) = IF a > b THEN 0 ELSE b - a + 1
      BY FS_Interval
    <3> QED
      BY <3>1, <3>2
  <2> QED
    BY <1>1, <2>1 DEF W!Span
<1>3. \A p \in R : p \in Int
  BY <1>1 DEF W!Span
<1> HIDE DEF R
<1>4. \A m, l \in trackers : \A p \in R :
        m.base <= p /\ p < m.end /\ l.base <= p /\ p < l.end => m = l
  <2> SUFFICES ASSUME NEW m \in trackers, NEW l \in trackers, NEW p \in R,
                      m.base <= p, p < m.end, l.base <= p, p < l.end
               PROVE  m = l
    OBVIOUS
  <2>1. KeyOK(m) /\ KeyOK(l)
    BY DEF WmGood, Listed, Virtual
  <2>2. p \in Covers(m) /\ p \in Covers(l)
    BY <1>3, <2>1, CoversIs
  <2> QED
    BY <2>2 DEF WmGood, Listed, Virtual
<1>5. \A mp \in had : mp[1] \in trackers /\ mp[2] \in R /\ mp = <<mp[1], mp[2]>>
                      /\ mp[1].base <= mp[2] /\ mp[2] < mp[1].end
  OBVIOUS
<1>6. \A m \in trackers, p \in R : m.base <= p /\ p < m.end => <<m, p>> \in had
  OBVIOUS
<1> HIDE DEF had
<1>7. f \in Injection(had, R)
  <2>1. f \in [had -> R]
    BY <1>5
  <2>2. ASSUME NEW a \in had, NEW b \in had, f[a] = f[b] PROVE a = b
    <3>1. a[2] = b[2]
      BY <2>2
    <3>2. a[1] = b[1]
      BY <1>4, <1>5, <3>1
    <3> QED
      BY <1>5, <3>1, <3>2
  <2> QED
    BY <2>1, <2>2 DEF Injection, IsInjective
<1>8. f \in Surjection(had, R) <=>
        \A p \in R : \E m \in trackers : m.base <= p /\ p < m.end
  <2>1. f \in Surjection(had, R) <=> \A p \in R : \E mp \in had : f[mp] = p
    BY <1>7 DEF Surjection, Injection
  <2>2. ASSUME NEW p \in R
        PROVE  (\E mp \in had : f[mp] = p) <=> (\E m \in trackers : m.base <= p /\ p < m.end)
    <3>1. ASSUME NEW mp \in had, f[mp] = p PROVE \E m \in trackers : m.base <= p /\ p < m.end
      <4>1. mp[2] = p
        BY <3>1
      <4> QED
        BY <1>5, <4>1
    <3>2. ASSUME NEW m \in trackers, m.base <= p, p < m.end PROVE \E mp \in had : f[mp] = p
      <4>1. <<m, p>> \in had /\ f[<<m, p>>] = p
        BY <1>6, <3>2
      <4> QED
        BY <4>1
    <3> QED
      BY <3>1, <3>2
  <2> QED
    BY <2>1, <2>2
<1> HIDE DEF f
<1>9. /\ IsFiniteSet(had) /\ Cardinality(had) \in Nat /\ Cardinality(had) <= Cardinality(R)
      /\ Cardinality(had) = Cardinality(R) <=> f \in Surjection(had, R)
  BY <1>2, <1>7, FS_Injection, FS_CardinalityType
<1>10. W!msync(r[1], r[2]) <=> Cardinality(had) >= r[2]
  BY WmCardinality DEF W!msync, had, R
<1> QED
  BY <1>1, <1>2, <1>8, <1>9, <1>10 DEF R

\* The list of mappings agrees with the address space and with the open handles, and
\* msync and mprotect find a range mapped exactly when all of it is.
THEOREM TrackersAgree == ASSUME WmConstants PROVE W!Spec => []TrackersExact
<1>1. W!Init => WmAll
  <2> SUFFICES ASSUME W!Init PROVE WmAll
    OBVIOUS
  <2>1. trackers = {} /\ handles = 0 /\ call = [t \in MapThreads |-> W!Idle]
    BY DEF W!Init
  <2>2. \A t \in MapThreads : Own(call[t]) = {} /\ Len(call[t].back) = 0
    BY <2>1, IdleIs, OwnIs
  <2>3. W!Pending = {}
    <3> SUFFICES ASSUME NEW z \in W!Pending PROVE FALSE
      OBVIOUS
    <3>1. z = <<z[1], z[2]>>
      BY PendingIs
    <3>2. z[1] \in MapThreads /\ z[2] \in Own(call[z[1]])
      BY <3>1, PendingIs
    <3> QED
      BY <2>2, <3>2
  <2>4. Counted
    BY <2>1, <2>2, <2>3, FS_EmptySet DEF Counted
  <2> QED
    BY <2>4, WmInitInv DEF WmAll
<1>2. WmAll /\ [W!Next]_(W!wmvars) => WmAll'
  BY CountedStep
<1>3. WmAll => TrackersExact
  <2> SUFFICES ASSUME WmGood, Counted
               PROVE  /\ \A m \in trackers :
                           /\ \A p \in W!Span(m.base, m.flen) : mem[p] = W!View(m.off + p - m.base)
                           /\ \A p \in m.base + m.flen .. m.end - 1 : mem[p] = W!Reserved
                           /\ \A k \in trackers \ {m} :
                                W!Span(m.base, m.end - m.base)
                                  \cap W!Span(k.base, k.end - k.base) = {}
                      /\ handles = W!Cardinality(trackers) + W!Cardinality(W!Pending)
                      /\ \A r \in W!Ranges :
                           W!msync(r[1], r[2]) <=> \A p \in W!Span(r[1], r[2]) :
                               \E m \in trackers : m.base <= p /\ p < m.end
    BY DEF TrackersExact, W!TrackersExact, WmAll, WmInv
  <2>1. ASSUME NEW m \in trackers
        PROVE  /\ \A p \in W!Span(m.base, m.flen) : mem[p] = W!View(m.off + p - m.base)
               /\ \A p \in m.base + m.flen .. m.end - 1 : mem[p] = W!Reserved
               /\ \A k \in trackers \ {m} :
                    W!Span(m.base, m.end - m.base) \cap W!Span(k.base, k.end - k.base) = {}
    <3>1. KeyOK(m) /\ \A p \in Covers(m) : mem[p] = Content(m, p)
      BY DEF WmGood, Listed, Virtual, Mapped
    <3>2. /\ m.base \in Nat /\ m.end \in Nat /\ m.flen \in Nat
          /\ m.flen <= m.end - m.base
      BY <3>1 DEF KeyOK, Trackers
    <3>3. \A p \in W!Span(m.base, m.flen) : p \in Covers(m) /\ p < m.base + m.flen
      BY <3>1, <3>2, CoversIs DEF W!Span
    <3>4. \A p \in m.base + m.flen .. m.end - 1 : p \in Covers(m) /\ ~(p < m.base + m.flen)
      BY <3>1, <3>2, CoversIs
    <3>5. \A k \in trackers \ {m} : Covers(m) \cap Covers(k) = {}
      BY DEF WmGood, Listed, Virtual
    <3> QED
      BY <3>1, <3>3, <3>4, <3>5 DEF Content, Covers
  <2>2. handles = W!Cardinality(trackers) + W!Cardinality(W!Pending)
    BY WmCardinality DEF Counted
  <2> QED
    BY <2>1, <2>2, MsyncIs
<1> QED
  BY <1>1, <1>2, <1>3, PTL DEF W!Spec
=============================================================================
