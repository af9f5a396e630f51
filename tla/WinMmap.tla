------------------------------- MODULE WinMmap -------------------------------
(***************************************************************************)
(* mmap, munmap, msync and mprotect of the Windows port, built on file     *)
(* mapping objects, views and reserved addresses.  A list of trackers      *)
(* under FileMappingQLock says what each address range stands for.  A view *)
(* can only be unmapped as a whole: to unmap a part, mmap_split unmaps all *)
(* of it and maps again what is to stay.                                   *)
(*                                                                         *)
(* Addresses and lengths are in units of Mmap_align.  The calls of the     *)
(* system are atomic; mmap makes its own without the lock, so another      *)
(* thread's mapping may take an address that was free a moment ago.        *)
(***************************************************************************)
EXTENDS Integers, Sequences, FiniteSets

CONSTANTS
    MapThreads,     \* the threads that map and unmap
    NPages,         \* the size of the address space
    FileSize,       \* the size of the file
    MaxMaps,        \* how many calls of mmap there are (bound)
    MaxErrors       \* how many allocations and system calls fail (bound)

Page == 0 .. NPages - 1
Free == [st |-> "free", off |-> 0]
Reserved == [st |-> "reserved", off |-> 0]
View(n) == [st |-> "view", off |-> n]       \* page n of the file
NoRange == -1

VARIABLES
    mem,            \* what the system has at each address
    trackers,       \* the trackers in FileMappingQHead
    handles,        \* how many pairs of file and mapping handles are open
    qlock,          \* who holds FileMappingQLock
    call,           \* where each thread is in its call
    maps,           \* calls of mmap so far
    errors,         \* allocations and system calls that failed
    leaked,         \* addresses that failed calls of mmap left taken for ever
    astray,         \* a mapping was put elsewhere than its reserved tail, or
                    \* mmap_split could not put one back
    promise         \* what the program was told of each address

wmvars == <<mem, trackers, handles, qlock, call, maps, errors, leaked, astray,
            promise>>

Idle == [pc |-> "idle", addr |-> NoRange, len |-> 0, off |-> 0, fixed |-> FALSE,
         reserved |-> FALSE, left |-> 0, back |-> <<>>, two |-> FALSE,
         map |-> FALSE]
Nobody == "nobody"

Span(b, n) == b .. b + n - 1
IsFree(m, b, n) == \A p \in Span(b, n) : p \in Page /\ m[p] = Free
Set(m, b, n, v) == [p \in Page |-> IF p \in Span(b, n) THEN v ELSE m[p]]

\* The view of n pages of the file, from page off on, at address b.
MapViewAt(m, b, n, off) ==
    [p \in Page |-> IF p \in Span(b, n) THEN View(off + (p - b)) ELSE m[p]]

\* mmap_unreserve: NtFreeVirtualMemory if the first address is reserved.
mmap_unreserve(m, b, n) ==
    IF n > 0 /\ b \in Page /\ m[b] = Reserved
    THEN [p \in Page |-> IF p \in Span(b, n) /\ m[p] = Reserved THEN Free
                         ELSE m[p]]
    ELSE m

Do(t, c) == call' = [call EXCEPT ![t] = c]

\* filelen: how much of a mapping the file has pages for.
FileLen(off, len) == IF FileSize - off < len THEN FileSize - off ELSE len

-----------------------------------------------------------------------------
(* mmap.                                                                   *)

\* The program unmaps and replaces what it has mapped, and no two threads do so
\* to the same addresses at the same time.
Owned(t, addr, len) ==
    /\ \A p \in Span(addr, len) :
         \E m \in trackers : m.base <= p /\ p < m.end
    /\ \A u \in MapThreads \ {t} :
         call[u].addr # NoRange =>
             Span(addr, len) \cap Span(call[u].addr, call[u].len) = {}

\* A mapping of the file from off on, anywhere or, with MAP_FIXED, at addr: then
\* what is there is unmapped first.  An offset beyond the file is refused.
mmap(t, addr, len, off) ==
    LET c == [Idle EXCEPT !.addr = addr, !.len = len, !.off = off,
                          !.fixed = addr # NoRange, !.map = TRUE]
    IN  /\ call[t].pc = "idle" /\ maps < MaxMaps
        /\ off < FileSize
        /\ c.fixed => Owned(t, addr, len)
        /\ maps' = maps + 1
        /\ promise' = IF c.fixed THEN Set(promise, addr, len, Free) ELSE promise
        /\ IF c.fixed THEN Do(t, [c EXCEPT !.pc = "unmap", !.left = len])
           ELSE Do(t, [c EXCEPT !.pc = "map"])
        /\ UNCHANGED <<mem, trackers, handles, qlock, errors, leaked, astray>>

\* One more call of the system or allocation fails.
Fails == errors < MaxErrors /\ errors' = errors + 1

\* A mapping that goes beyond the end of the file: the addresses of all of it are
\* reserved, and those the file has pages for are freed again for the view.
Reserve(t) ==
    LET c == call[t]
        flen == FileLen(c.off, c.len)
    IN  /\ c.pc = "map" /\ c.off + c.len > FileSize /\ ~c.reserved
        /\ \/ \E b \in IF c.fixed THEN {c.addr} ELSE Page :
                /\ IsFree(mem, b, c.len)
                /\ mem' = Set(mem, b + flen, c.len - flen, Reserved)
                /\ Do(t, [c EXCEPT !.addr = b, !.reserved = TRUE])
                /\ UNCHANGED errors
           \/ /\ \/ /\ \A b \in IF c.fixed THEN {c.addr} ELSE Page :
                          ~IsFree(mem, b, c.len)
                    /\ UNCHANGED errors
                 \/ Fails
              /\ Do(t, Idle)
              /\ UNCHANGED mem
        /\ UNCHANGED <<trackers, handles, qlock, maps, leaked, astray, promise>>

\* CreateFileMapping and MapViewOfFileEx at the address; if that is taken,
\* MapViewOfFileEx anywhere, unless MAP_FIXED was given.  When one of them fails,
\* the handles are closed but a reserved tail is not freed.
MapView(t) ==
    LET c == call[t]
        flen == FileLen(c.off, c.len)
        there == c.addr # NoRange /\ IsFree(mem, c.addr, flen)
        fits == IF there THEN {c.addr}
                ELSE IF c.fixed THEN {}
                ELSE {b \in Page : IsFree(mem, b, flen)}
    IN  /\ c.pc = "map" /\ (c.reserved \/ c.off + c.len <= FileSize)
        /\ \/ \E b \in fits :
                /\ mem' = MapViewAt(mem, b, flen, c.off)
                /\ handles' = handles + 1
                /\ astray' = (astray \/ (c.reserved /\ b # c.addr))
                /\ Do(t, [c EXCEPT !.pc = "insert", !.addr = b])
                /\ UNCHANGED <<errors, leaked>>
           \/ /\ (fits = {} /\ UNCHANGED errors) \/ Fails
              /\ leaked' = IF c.reserved
                           THEN leaked \cup Span(c.addr + flen, c.len - flen)
                           ELSE leaked
              /\ Do(t, Idle)
              /\ UNCHANGED <<mem, handles, astray>>
        /\ UNCHANGED <<trackers, qlock, maps, promise>>

Insert(t) ==
    LET c == call[t]
    IN  /\ c.pc = "insert" /\ qlock = Nobody
        /\ trackers' = trackers \cup
             {[base |-> c.addr, end |-> c.addr + c.len, off |-> c.off,
               flen |-> FileLen(c.off, c.len)]}
        /\ promise' = MapViewAt(Set(promise, c.addr, c.len, Reserved),
                                c.addr, FileLen(c.off, c.len), c.off)
        /\ Do(t, Idle)
        /\ UNCHANGED <<mem, handles, qlock, maps, errors, leaked, astray>>

\* The tracker cannot be allocated, which is before the lock is taken: the handles
\* are closed, and nobody will unmap the view or free the reserved tail.
InsertFails(t) ==
    LET c == call[t]
    IN  /\ c.pc = "insert" /\ Fails
        /\ handles' = handles - 1
        /\ leaked' = leaked \cup Span(c.addr, c.len)
        /\ Do(t, Idle)
        /\ UNCHANGED <<mem, trackers, qlock, maps, astray, promise>>

-----------------------------------------------------------------------------
(* munmap.                                                                 *)

munmap(t, addr, len) ==
    /\ call[t].pc = "idle" /\ Owned(t, addr, len)
    /\ promise' = Set(promise, addr, len, Free)
    /\ Do(t, [Idle EXCEPT !.pc = "unmap", !.addr = addr, !.len = len, !.left = len])
    /\ UNCHANGED <<mem, trackers, handles, qlock, maps, errors, leaked, astray>>

\* The next tracker in the list that the range meets.
Met(c) == {m \in trackers : m.base < c.addr + c.len /\ m.end > c.addr}
Leftmost(S) == CHOOSE m \in S : \A k \in S : m.base <= k.base

\* The trackers mmap_split makes for what stays before begin and after end.
Before(m, begin) ==
    [base |-> m.base, end |-> begin, off |-> m.off,
     flen |-> IF begin - m.base >= m.flen THEN m.flen ELSE begin - m.base]

\* Mistake: the tracker after the hole keeps the offset of the old one.
after_keeps_offset(m, end) ==
    [base |-> end, end |-> m.end, off |-> m.off,
     flen |-> IF end - m.base >= m.flen THEN 0 ELSE m.flen - (end - m.base)]

After(m, end) ==
    [base |-> end, end |-> m.end, off |-> m.off + (end - m.base),
     flen |-> IF end - m.base >= m.flen THEN 0 ELSE m.flen - (end - m.base)]

Pieces(m, begin, end) ==
    (IF begin > m.base THEN <<Before(m, begin)>> ELSE <<>>)
      \o (IF end < m.end THEN <<After(m, end)>> ELSE <<>>)

Returns(t) ==
    LET c == call[t]
    IN  Do(t, IF c.map THEN [c EXCEPT !.pc = "map", !.left = 0] ELSE Idle)

\* Mistake: the handles of a mapping that is unmapped as a whole stay open.
handles_kept(back) == handles + (IF back = <<>> THEN 0 ELSE Len(back) - 1)

\* The handles go to the first piece, are duplicated for the second, and closed
\* when there is none.
HandlesFor(back) == handles - 1 + Len(back)

\* mmap_split up to where the view is gone, the handles are duplicated or closed
\* and the tracker is out of the list; or, when nothing is left to unmap, the end
\* of munmap, which frees what of the range may be reserved and untracked.
Unmap(t) ==
    LET c == call[t]
        m == Leftmost(Met(c))
        begin == IF c.addr > m.base THEN c.addr ELSE m.base
        end == IF c.addr + c.len < m.end THEN c.addr + c.len ELSE m.end
        back == Pieces(m, begin, end)
        gone == mmap_unreserve(Set(mem, m.base, m.flen, Free), m.base + m.flen,
                               m.end - m.base - m.flen)
    IN  /\ c.pc = "unmap" /\ qlock \in {Nobody, t}
        /\ \/ /\ Met(c) # {} /\ c.left > 0
              /\ mem' = gone
              /\ trackers' = trackers \ {m}
              /\ handles' = HandlesFor(back)
              /\ qlock' = t
              /\ Do(t, [c EXCEPT !.pc = "remap", !.back = back,
                                 !.two = Len(back) = 2,
                                 !.left = @ - (end - begin)])
           \/ /\ Met(c) = {} \/ c.left = 0
              /\ mem' = mmap_unreserve(mem, c.addr, c.left)
              /\ qlock' = Nobody
              /\ Returns(t)
              /\ UNCHANGED <<trackers, handles>>
        /\ UNCHANGED <<maps, errors, leaked, astray, promise>>

\* mmap_split cannot allocate a tracker.  If it is the second, for a hole in the
\* middle, it closes the handles of the mapping, which stays in the list, and
\* frees the reserved part before the hole.
UnmapFails(t) ==
    LET c == call[t]
        m == Leftmost(Met(c))
        k == Before(m, c.addr)
        begins == m.base < c.addr
        ends == c.addr + c.len < m.end
    IN  /\ c.pc = "unmap" /\ qlock \in {Nobody, t}
        /\ Met(c) # {} /\ c.left > 0 /\ Fails
        /\ astray' = TRUE
        /\ qlock' = Nobody
        /\ Do(t, Idle)
        /\ \/ /\ begins \/ ends
              /\ UNCHANGED <<mem, handles>>
           \/ /\ begins /\ ends
              /\ handles' = handles - 1
              /\ mem' = mmap_unreserve(mem, k.base + k.flen,
                                       k.end - k.base - k.flen)
        /\ UNCHANGED <<trackers, maps, leaked, promise>>

\* Whether the reserved tail of a piece, and its view, can go where they were.
TailFits(k) == IsFree(mem, k.base + k.flen, k.end - k.base - k.flen)
ViewFits(k) == IsFree(mem, k.base, k.flen)

PutBack(k) == MapViewAt(Set(mem, k.base, k.end - k.base, Reserved),
                        k.base, k.flen, k.off)

\* The rest of mmap_split, one piece at a time.  A piece whose addresses have been
\* taken in the meantime is given up, with the one after it, or, if it is the
\* second one and its tail that does not fit, with the one before it.
Remap(t) ==
    LET c == call[t]
        k == Head(c.back)
        both == c.two /\ (Len(c.back) = 2 \/ ~TailFits(k))
    IN  /\ c.pc = "remap"
        /\ \/ /\ c.back = <<>>
              /\ Do(t, [c EXCEPT !.pc = "unmap"])
              /\ UNCHANGED <<mem, trackers, handles, qlock, astray>>
           \/ /\ c.back # <<>> /\ TailFits(k) /\ ViewFits(k)
              /\ mem' = PutBack(k)
              /\ trackers' = trackers \cup {k}
              /\ Do(t, [c EXCEPT !.back = Tail(@)])
              /\ UNCHANGED <<handles, qlock, astray>>
           \/ /\ c.back # <<>> /\ ~(TailFits(k) /\ ViewFits(k))
              /\ handles' = handles - (IF both THEN 2 ELSE 1)
              /\ qlock' = Nobody
              /\ astray' = TRUE
              /\ Do(t, Idle)
              /\ UNCHANGED <<mem, trackers>>
        /\ UNCHANGED <<maps, errors, leaked, promise>>

\* msync and mprotect: whether the whole range is mapped, found by taking off its
\* length the number of addresses each tracker has of it.
msync(addr, len) ==
    LET had == {mp \in trackers \X Span(addr, len) : mp[1].base <= mp[2] /\ mp[2] < mp[1].end}
    IN  Cardinality(had) >= len

Init ==
    /\ mem = [p \in Page |-> Free] /\ promise = [p \in Page |-> Free]
    /\ trackers = {} /\ handles = 0 /\ qlock = Nobody
    /\ call = [t \in MapThreads |-> Idle]
    /\ maps = 0 /\ errors = 0 /\ leaked = {} /\ astray = FALSE

Ranges == {r \in Page \X (1 .. NPages) : r[1] + r[2] <= NPages}

\* What happens after a mapping has gone astray is not followed.
Next ==
    /\ ~astray
    /\ \E t \in MapThreads :
         \/ \E len \in 1 .. NPages, off \in 0 .. FileSize - 1 : mmap(t, NoRange, len, off)
         \/ \E r \in Ranges, off \in 0 .. FileSize - 1 : mmap(t, r[1], r[2], off)
         \/ Reserve(t) \/ MapView(t) \/ Insert(t) \/ InsertFails(t)
         \/ \E r \in Ranges : munmap(t, r[1], r[2])
         \/ Unmap(t) \/ UnmapFails(t) \/ Remap(t)

Spec == Init /\ [][Next]_wmvars

-----------------------------------------------------------------------------
(* What makes the mappings correct, until one goes astray.                 *)

\* The addresses a call is working on.
Underway ==
    UNION {IF call[t].addr = NoRange THEN {} ELSE
             Span(call[t].addr, call[t].len)
               \cup UNION {Span(call[t].back[n].base,
                                 call[t].back[n].end - call[t].back[n].base) :
                             n \in DOMAIN call[t].back} : t \in MapThreads}

\* Apart from the addresses a call is working on, the program finds at each one
\* the page of the file it mapped there, whatever was unmapped or replaced around
\* it; what is beyond the file stays reserved, and what is unmapped is free.  Only
\* what a failed mmap leaked is neither mapped for the program nor free again.
MappingsKept ==
    ~astray => \A p \in Page \ Underway :
        IF p \in leaked THEN mem[p] # Free /\ promise[p] = Free
        ELSE mem[p] = promise[p]

\* The pieces that mmap_split, which makes at most two, has still to put back, and
\* the views that are not yet in the list.
Pending ==
    {tn \in MapThreads \X (0 .. 2) :
        \/ tn[2] \in DOMAIN call[tn[1]].back
        \/ tn[2] = 0 /\ call[tn[1]].pc = "insert"}

\* The trackers are disjoint, stand for what the system has at their addresses,
\* and there is one for every pair of handles; so a range is found to be mapped
\* exactly when all of it is.
TrackersExact ==
    ~astray =>
        /\ \A m \in trackers :
             /\ \A p \in Span(m.base, m.flen) : mem[p] = View(m.off + p - m.base)
             /\ \A p \in m.base + m.flen .. m.end - 1 : mem[p] = Reserved
             /\ \A k \in trackers \ {m} :
                  Span(m.base, m.end - m.base) \cap Span(k.base, k.end - k.base) = {}
        /\ handles = Cardinality(trackers) + Cardinality(Pending)
        /\ \A r \in Ranges :
             msync(r[1], r[2]) <=> \A p \in Span(r[1], r[2]) :
                                     \E m \in trackers : m.base <= p /\ p < m.end
=============================================================================
