------------------------------- MODULE Chunks -------------------------------
(***************************************************************************)
(* How a memory pool of the jemalloc fork hands out its chunks: chunk.c    *)
(* (free extents, split and coalesced), base.c (the fixed list of extent   *)
(* nodes of a pool) and huge.c (allocations of whole chunks), with the     *)
(* arena entry points that call them.                                      *)
(*                                                                         *)
(* The pool is one with pool_id # 0, as libvmem and libvmmalloc create: it *)
(* lives in a fixed region, takes extent nodes only from its preallocated  *)
(* list, and purging its pages does not zero them.  Sizes and addresses    *)
(* are in chunks.  The two trees of free extents hold the same nodes       *)
(* whenever chunks_mtx is free, so they are one set here.                  *)
(*                                                                         *)
(* An action is one critical section, or one step of a thread between two. *)
(* What a thread holds in its local variables while no lock protects it is *)
(* explicit: the range it is moving (hold), the rest of a split (trail)    *)
(* and the extent nodes it took off the list (nd).                         *)
(***************************************************************************)
EXTENDS Integers, FiniteSets

CONSTANTS
    Threads,
    NChunks,        \* usable chunks of the pool
    NNodes,         \* extent nodes preallocated when the pool is created
    Sizes,          \* sizes the clients ask for
    Aligns,         \* alignments the clients ask for
    ZeroInit        \* the zeroed argument of je_pool_create

ASSUME NChunksAssumption == NChunks \in Nat \ {0}
ASSUME NNodesAssumption == NNodes \in Nat \ {0}
ASSUME SizesAssumption == Sizes \subseteq 1..NChunks
ASSUME AlignsAssumption == Aligns \subseteq Nat \ {0}
ASSUME ZeroInitAssumption == ZeroInit \in BOOLEAN

VARIABLES
    free,       \* chunks_szad_mmap and chunks_ad_mmap
    huge,       \* the tree of huge allocations
    arena,      \* chunks in use by the arena
    spare,      \* arena->spare as a set: empty or one chunk
    base,       \* chunks consumed by base_alloc, never returned
    lost,       \* chunks no structure refers to any more
    dirty,      \* chunks that may contain non-zero bytes
    nodes,      \* length of the base_nodes list
    curchunks,  \* stats_chunks.curchunks
    pc, req, hold, trail, nd        \* each thread's control and locals

lists == <<free, huge, arena, spare, base, lost>>
counts == <<nodes, curchunks>>
locals == <<pc, req, hold, trail, nd>>
vars == <<lists, dirty, counts, locals>>

Chunk == 1..NChunks

\* extent_node_t, free or in a thread's hands; huge ones carry no zeroed flag.
Span == [addr : Nat, size : Nat, zeroed : BOOLEAN]
NoSpan == [addr |-> 0, size |-> 0, zeroed |-> FALSE]
Extent == [addr : Chunk, size : Chunk, zeroed : BOOLEAN]
Region == [addr : Chunk, size : Chunk]

Cells(e) == e.addr .. (e.addr + e.size - 1)

\* A call in progress: ptr is the huge allocation it works on (0 for none),
\* at the address it must get (new_addr, 0 for NULL), total the final size.
Request == [op : {"none", "palloc", "expand", "arena", "base", "dalloc"},
            ptr : 0..NChunks, at : Nat, size : Nat, total : Nat,
            align : Nat \ {0}, zero : BOOLEAN]
Call(op, ptr, size) == [op |-> op, ptr |-> ptr, at |-> 0, size |-> size,
                        total |-> size, align |-> 1, zero |-> FALSE]
NoRequest == Call("none", 0, 0)

Labels == {"idle", "recycle", "trailnode", "trail", "putnode",
           "register", "finish", "unlink", "uncount", "xnode",
           "record", "recordbare", "return"}

TypeOK ==
    /\ free \subseteq Extent
    /\ huge \subseteq Region
    /\ arena \subseteq Chunk
    /\ spare \subseteq Chunk
    /\ base \subseteq Chunk
    /\ lost \subseteq Chunk
    /\ dirty \subseteq Chunk
    /\ nodes \in Nat
    /\ curchunks \in Int
    /\ pc \in [Threads -> Labels]
    /\ req \in [Threads -> Request]
    /\ hold \in [Threads -> Span]
    /\ trail \in [Threads -> Span]
    /\ nd \in [Threads -> Nat]

\* pool_create_empty: the usable space is recorded as one free extent.
Init ==
    /\ free = {[addr |-> 1, size |-> NChunks, zeroed |-> ZeroInit]}
    /\ huge = {} /\ arena = {} /\ spare = {} /\ base = {} /\ lost = {}
    /\ dirty = IF ZeroInit THEN {} ELSE Chunk
    /\ nodes = NNodes - 1
    /\ curchunks = 0
    /\ pc = [t \in Threads |-> "idle"]
    /\ req = [t \in Threads |-> NoRequest]
    /\ hold = [t \in Threads |-> NoSpan]
    /\ trail = [t \in Threads |-> NoSpan]
    /\ nd = [t \in Threads |-> 0]

Goto(t, l) == pc' = [pc EXCEPT ![t] = l]

\* Mistake: the head of base_nodes is taken without a test for NULL.
TakeNodeUnchecked(t) ==
    /\ nodes' = nodes - 1
    /\ nd' = [nd EXCEPT ![t] = @ + 1]

\* base_node_alloc and base_node_dalloc for a pool other than 0.
TakeNode(t) ==
    /\ nodes > 0
    /\ nodes' = nodes - 1
    /\ nd' = [nd EXCEPT ![t] = @ + 1]

PutNode(t) ==
    /\ nd[t] > 0
    /\ nodes' = nodes + 1
    /\ nd' = [nd EXCEPT ![t] = @ - 1]

\* A client neither frees nor resizes an allocation twice at a time.
InUse(h) == \A t \in Threads : req[t].ptr # h.addr

(***************************************************************************)
(* Entry points                                                            *)
(***************************************************************************)

\* huge_palloc takes the node that will track the allocation first, and
\* returns NULL at once when there is none.
HugePalloc(t, size, align, zero) ==
    /\ pc[t] = "idle"
    /\ TakeNode(t)
    /\ req' = [req EXCEPT ![t] = [op |-> "palloc", ptr |-> 0, at |-> 0,
                                  size |-> size, total |-> size,
                                  align |-> align, zero |-> zero]]
    /\ Goto(t, "recycle")
    /\ UNCHANGED <<lists, dirty, curchunks, hold, trail>>

\* huge_ralloc to a larger size: first try to grow in place.
HugeExpand(t, h, size) ==
    /\ pc[t] = "idle" /\ h \in huge /\ InUse(h) /\ size > h.size
    /\ req' = [req EXCEPT ![t] = [op |-> "expand", ptr |-> h.addr,
                                  at |-> h.addr + h.size,
                                  size |-> size - h.size, total |-> size,
                                  align |-> 1, zero |-> FALSE]]
    /\ Goto(t, "recycle")
    /\ UNCHANGED <<lists, dirty, counts, hold, trail, nd>>

\* Mistake: the excess is freed but the huge node keeps its size.
HugeShrinkKeepsSize(t, h, size) ==
    /\ pc[t] = "idle" /\ h \in huge /\ InUse(h) /\ size < h.size
    /\ hold' = [hold EXCEPT ![t] = [addr |-> h.addr + size,
                                    size |-> h.size - size,
                                    zeroed |-> FALSE]]
    /\ req' = [req EXCEPT ![t] = Call("dalloc", h.addr, 0)]
    /\ Goto(t, "uncount")
    /\ UNCHANGED <<lists, dirty, counts, trail, nd>>

\* huge_ralloc_no_move to a smaller size: the node shrinks, the excess goes.
HugeShrink(t, h, size) ==
    /\ pc[t] = "idle" /\ h \in huge /\ InUse(h) /\ size < h.size
    /\ huge' = (huge \ {h}) \cup {[addr |-> h.addr, size |-> size]}
    /\ hold' = [hold EXCEPT ![t] = [addr |-> h.addr + size,
                                    size |-> h.size - size,
                                    zeroed |-> FALSE]]
    /\ req' = [req EXCEPT ![t] = Call("dalloc", h.addr, 0)]
    /\ Goto(t, "uncount")
    /\ UNCHANGED <<free, arena, spare, base, lost, dirty, counts, trail, nd>>

\* huge_dalloc, called by a client, or by huge_ralloc on the old allocation
\* once its contents are in the new one.
HugeDalloc(t, h) ==
    /\ h \in huge
    /\ \/ pc[t] = "idle" /\ InUse(h)
       \/ pc[t] = "unlink" /\ req[t].ptr = h.addr
    /\ huge' = huge \ {h}
    /\ hold' = [hold EXCEPT ![t] = [addr |-> h.addr, size |-> h.size,
                                    zeroed |-> FALSE]]
    /\ nd' = [nd EXCEPT ![t] = @ + 1]
    /\ req' = [req EXCEPT ![t] = Call("dalloc", 0, 0)]
    /\ Goto(t, "uncount")
    /\ UNCHANGED <<free, arena, spare, base, lost, dirty, counts, trail>>

\* arena_chunk_alloc: the spare if there is one, else a chunk of the pool,
\* for which arena_chunk_alloc_internal lets go of arena->lock.
ArenaChunkAlloc(t) ==
    /\ pc[t] = "idle"
    /\ \/ /\ spare # {}
          /\ arena' = arena \cup spare
          /\ spare' = {}
          /\ UNCHANGED <<pc, req>>
       \/ /\ spare = {}
          /\ req' = [req EXCEPT ![t] = Call("arena", 0, 1)]
          /\ Goto(t, "recycle")
          /\ UNCHANGED <<arena, spare>>
    /\ UNCHANGED <<free, huge, base, lost, dirty, counts, hold, trail, nd>>

\* arena_chunk_dalloc: an empty chunk becomes the spare, and the spare it
\* displaces goes back to the pool.
ArenaChunkDalloc(t, c) ==
    /\ pc[t] = "idle" /\ c \in arena
    /\ arena' = arena \ {c}
    /\ spare' = {c}
    /\ \/ /\ spare = {}
          /\ UNCHANGED <<pc, req, hold>>
       \/ \E s \in spare :
          /\ hold' = [hold EXCEPT ![t] = [addr |-> s, size |-> 1,
                                          zeroed |-> FALSE]]
          /\ req' = [req EXCEPT ![t] = Call("dalloc", 0, 0)]
          /\ Goto(t, "uncount")
    /\ UNCHANGED <<free, huge, base, lost, dirty, counts, trail, nd>>

\* base_pages_alloc through chunk_alloc_base, under base_mtx.
BasePagesAlloc(t) ==
    /\ pc[t] = "idle"
    /\ \A u \in Threads : req[u].op # "base"
    /\ req' = [req EXCEPT ![t] = Call("base", 0, 1)]
    /\ Goto(t, "recycle")
    /\ UNCHANGED <<lists, dirty, counts, hold, trail, nd>>

(***************************************************************************)
(* Allocation                                                              *)
(***************************************************************************)

\* ALIGNMENT_CEILING
AlignUp(a, n) == a + n - 1 - ((a + n - 1) % n)

\* extent_tree_szad_nsearch: the least free extent, by size and then address,
\* that is not below the key (size, addr).
SizeAddrLeq(s, a, e) == s < e.size \/ (s = e.size /\ a <= e.addr)
Nsearch(size, addr) ==
    {e \in free : /\ SizeAddrLeq(size, addr, e)
                  /\ \A f \in free : SizeAddrLeq(size, addr, f) =>
                                         SizeAddrLeq(e.size, e.addr, f)}

\* The extents chunk_recycle considers: the best fit, if its address is the
\* one asked for.
Candidates(r) ==
    {e \in Nsearch(r.size + r.align - 1, r.at) : r.at = 0 \/ e.addr = r.at}

\* chunk_recycle up to the point where it unlocks chunks_mtx.  The node of
\* the extent serves the leading or the trailing space; if there is both, the
\* lock is dropped to get another node, and the trailing space is in no tree.
RecycleFrom(t, e) ==
    LET ret   == AlignUp(e.addr, req[t].align)
        lead  == ret - e.addr
        rest  == e.size - lead - req[t].size
        front == [addr |-> e.addr, size |-> lead, zeroed |-> e.zeroed]
        back  == [addr |-> ret + req[t].size, size |-> rest,
                  zeroed |-> e.zeroed]
    IN  /\ hold' = [hold EXCEPT ![t] = [addr |-> ret, size |-> req[t].size,
                                        zeroed |-> e.zeroed]]
        /\ \/ /\ lead = 0 /\ rest = 0
              /\ free' = free \ {e}
              /\ nd' = [nd EXCEPT ![t] = @ + 1]
              /\ Goto(t, "putnode")
              /\ UNCHANGED trail
           \/ /\ lead = 0 /\ rest # 0
              /\ free' = (free \ {e}) \cup {back}
              /\ Goto(t, "register")
              /\ UNCHANGED <<trail, nd>>
           \/ /\ lead # 0 /\ rest = 0
              /\ free' = (free \ {e}) \cup {front}
              /\ Goto(t, "register")
              /\ UNCHANGED <<trail, nd>>
           \/ /\ lead # 0 /\ rest # 0
              /\ free' = (free \ {e}) \cup {front}
              /\ trail' = [trail EXCEPT ![t] = back]
              /\ Goto(t, "trailnode")
              /\ UNCHANGED nd

Recycle(t) ==
    /\ pc[t] = "recycle"
    /\ \/ \E e \in Candidates(req[t]) : RecycleFrom(t, e)
       \/ /\ Candidates(req[t]) = {}
          /\ Goto(t, "return")
          /\ UNCHANGED <<free, hold, trail, nd>>
    /\ UNCHANGED <<huge, arena, spare, base, lost, dirty, counts, req>>

\* The node for the trailing space.  Without one the result is given back by
\* chunk_dalloc_core, and nothing refers to the trailing space any more.
TrailNode(t) ==
    /\ pc[t] = "trailnode"
    /\ \/ /\ TakeNode(t)
          /\ Goto(t, "trail")
          /\ UNCHANGED <<lost, trail>>
       \/ /\ nodes = 0
          /\ lost' = lost \cup Cells(trail[t])
          /\ trail' = [trail EXCEPT ![t] = NoSpan]
          /\ Goto(t, "uncount")
          /\ UNCHANGED <<nodes, nd>>
    /\ UNCHANGED <<free, huge, arena, spare, base, dirty, curchunks,
                   req, hold>>

\* Mistake: the trailing space is not inserted after the lock was dropped.
InsertTrailForgotten(t) ==
    /\ pc[t] = "trail"
    /\ trail' = [trail EXCEPT ![t] = NoSpan]
    /\ Goto(t, "register")
    /\ UNCHANGED <<lists, dirty, counts, req, hold, nd>>

\* chunks_mtx is held again: the trailing space becomes a free extent.
InsertTrail(t) ==
    /\ pc[t] = "trail"
    /\ free' = free \cup {trail[t]}
    /\ trail' = [trail EXCEPT ![t] = NoSpan]
    /\ nd' = [nd EXCEPT ![t] = @ - 1]
    /\ Goto(t, "register")
    /\ UNCHANGED <<huge, arena, spare, base, lost, dirty, counts, req, hold>>

\* Mistake: the node of an exact fit is not given back.
SpareNodeDropped(t) ==
    /\ pc[t] = "putnode"
    /\ nd' = [nd EXCEPT ![t] = @ - 1]
    /\ Goto(t, "register")
    /\ UNCHANGED <<lists, dirty, counts, req, hold, trail>>

\* An exact fit needs no node any more.
SpareNode(t) ==
    /\ pc[t] = "putnode"
    /\ PutNode(t)
    /\ Goto(t, "register")
    /\ UNCHANGED <<lists, dirty, curchunks, req, hold, trail>>

\* Mistake: memory that was asked to be zero is not cleared.
RegisterUncleared(t) ==
    /\ pc[t] = "register"
    /\ curchunks' = curchunks + hold[t].size
    /\ Goto(t, "finish")
    /\ UNCHANGED <<lists, dirty, nodes, req, hold, trail, nd>>

\* The end of chunk_recycle clears the memory if it was asked to and the
\* extent was not known to be zero; chunk_register counts the chunks.
Register(t) ==
    /\ pc[t] = "register"
    /\ dirty' = IF req[t].zero /\ ~hold[t].zeroed
                THEN dirty \ Cells(hold[t]) ELSE dirty
    /\ curchunks' = curchunks + hold[t].size
    /\ Goto(t, "finish")
    /\ UNCHANGED <<lists, nodes, req, hold, trail, nd>>

\* The owner gets the memory and may write to it.
Finish(t) ==
    /\ pc[t] = "finish"
    /\ \/ /\ req[t].op = "palloc"
          /\ huge' = huge \cup {[addr |-> hold[t].addr, size |-> hold[t].size]}
          /\ nd' = [nd EXCEPT ![t] = @ - 1]
          /\ UNCHANGED <<arena, base>>
       \/ /\ req[t].op = "expand"
          /\ huge' = {h \in huge : h.addr # req[t].ptr} \cup
                       {[addr |-> req[t].ptr, size |-> req[t].total]}
          /\ UNCHANGED <<arena, base, nd>>
       \/ /\ req[t].op = "arena"
          /\ arena' = arena \cup Cells(hold[t])
          /\ UNCHANGED <<huge, base, nd>>
       \/ /\ req[t].op = "base"
          /\ base' = base \cup Cells(hold[t])
          /\ UNCHANGED <<huge, arena, nd>>
    /\ dirty' = dirty \cup Cells(hold[t])
    /\ hold' = [hold EXCEPT ![t] = NoSpan]
    /\ IF req[t].op = "palloc" /\ req[t].ptr # 0
       THEN Goto(t, "unlink") /\ UNCHANGED req
       ELSE Goto(t, "idle") /\ req' = [req EXCEPT ![t] = NoRequest]
    /\ UNCHANGED <<free, spare, lost, counts, trail>>

(***************************************************************************)
(* Deallocation                                                            *)
(***************************************************************************)

\* chunk_dalloc_core
Uncount(t) ==
    /\ pc[t] = "uncount"
    /\ curchunks' = curchunks - hold[t].size
    /\ Goto(t, "xnode")
    /\ UNCHANGED <<lists, dirty, nodes, req, hold, trail, nd>>

\* chunk_record takes a node before the lock, needed or not.
RecordNode(t) ==
    /\ pc[t] = "xnode"
    /\ \/ TakeNode(t) /\ Goto(t, "record")
       \/ nodes = 0 /\ Goto(t, "recordbare") /\ UNCHANGED <<nodes, nd>>
    /\ UNCHANGED <<lists, dirty, curchunks, req, hold, trail>>

\* Mistake: purged pages of the file are taken to be zero.
JoinedZeroed(a, s) == [addr |-> a, size |-> s, zeroed |-> TRUE]

\* A recorded extent: pages_purge leaves the pages of a file-mapped pool as
\* they are, so it is not zeroed, whatever it is joined with.
Joined(a, s) == [addr |-> a, size |-> s, zeroed |-> FALSE]

\* The free extents that start where c ends, and that end where c starts.
After(c) == {n \in free : n.addr = c.addr + c.size}
Before(c) == {p \in free : p.addr + p.size = c.addr}

\* chunk_record under chunks_mtx: join with the extent after, else use the
\* new node, then join with the extent before, whose node is left over.
\* Without a node and without an extent after, the range is dropped.
Record(t) ==
    /\ pc[t] \in {"record", "recordbare"}
    /\ LET c == hold[t] IN
          \/ \E n \in After(c), p \in Before(c) :
               /\ free' = (free \ {n, p}) \cup
                            {Joined(p.addr, p.size + c.size + n.size)}
               /\ nd' = [nd EXCEPT ![t] = @ + 1]
               /\ UNCHANGED lost
          \/ \E n \in After(c) :
               /\ Before(c) = {}
               /\ free' = (free \ {n}) \cup {Joined(c.addr, c.size + n.size)}
               /\ UNCHANGED <<nd, lost>>
          \/ /\ After(c) = {} /\ pc[t] = "record"
             /\ \E p \in Before(c) :
                  free' = (free \ {p}) \cup {Joined(p.addr, p.size + c.size)}
             /\ UNCHANGED <<nd, lost>>
          \/ /\ After(c) = {} /\ Before(c) = {} /\ pc[t] = "record"
             /\ free' = free \cup {Joined(c.addr, c.size)}
             /\ nd' = [nd EXCEPT ![t] = @ - 1]
             /\ UNCHANGED lost
          \/ /\ After(c) = {} /\ pc[t] = "recordbare"
             /\ lost' = lost \cup Cells(c)
             /\ UNCHANGED <<free, nd>>
    /\ hold' = [hold EXCEPT ![t] = NoSpan]
    /\ Goto(t, "return")
    /\ UNCHANGED <<huge, arena, spare, base, dirty, counts, req, trail>>

\* The nodes left in hand go back one by one.  A failed huge_ralloc_no_move
\* then falls back to huge_palloc, which needs a node; any other call returns.
Return(t) ==
    /\ pc[t] = "return"
    /\ \/ PutNode(t) /\ UNCHANGED <<pc, req>>
       \/ /\ nd[t] = 0 /\ req[t].op = "expand"
          /\ TakeNode(t)
          /\ req' = [req EXCEPT ![t] = Call("palloc", req[t].ptr, req[t].total)]
          /\ Goto(t, "recycle")
       \/ /\ nd[t] = 0 /\ (req[t].op # "expand" \/ nodes = 0)
          /\ req' = [req EXCEPT ![t] = NoRequest]
          /\ Goto(t, "idle")
          /\ UNCHANGED <<nodes, nd>>
    /\ UNCHANGED <<lists, dirty, curchunks, hold, trail>>

Enter(t) ==
    \/ \E s \in Sizes, a \in Aligns, z \in BOOLEAN : HugePalloc(t, s, a, z)
    \/ \E h \in huge, s \in Sizes : HugeExpand(t, h, s)
    \/ \E h \in huge, s \in Sizes : HugeShrink(t, h, s)
    \/ \E h \in huge : HugeDalloc(t, h)
    \/ ArenaChunkAlloc(t)
    \/ \E c \in arena : ArenaChunkDalloc(t, c)
    \/ BasePagesAlloc(t)

Step(t) ==
    \/ Recycle(t) \/ TrailNode(t) \/ InsertTrail(t)
    \/ SpareNode(t) \/ Register(t) \/ Finish(t)
    \/ Uncount(t) \/ RecordNode(t) \/ Record(t) \/ Return(t)

Next == \E t \in Threads : Enter(t) \/ Step(t)

Spec == Init /\ [][Next]_vars

(***************************************************************************)
(* Properties                                                              *)
(***************************************************************************)

\* Everything that refers to chunk c: a free extent, a huge allocation, the
\* arena, its spare, the base allocator, the leak, or a thread's locals.
Holders(c) ==
         {<<"free", e>> : e \in {f \in free : c \in Cells(f)}}
    \cup {<<"huge", h>> : h \in {g \in huge : c \in Cells(g)}}
    \cup {<<"hold", t>> : t \in {u \in Threads : c \in Cells(hold[u])}}
    \cup {<<"trail", t>> : t \in {u \in Threads : c \in Cells(trail[u])}}
    \cup {<<"arena", x>> : x \in arena \cap {c}}
    \cup {<<"spare", x>> : x \in spare \cap {c}}
    \cup {<<"base", x>> : x \in base \cap {c}}
    \cup {<<"lost", x>> : x \in lost \cap {c}}

\* No chunk is ever in two places: however the critical sections of
\* chunk_recycle, chunk_record and huge_ralloc interleave, memory handed to
\* one owner is not free, not another owner's, and not on its way elsewhere.
NeverTwice == \A c \in Chunk : \A x, y \in Holders(c) : x = y

\* No chunk vanishes without being counted as lost.
AllHeld == \A c \in Chunk : Holders(c) # {}

\* Whoever asks for zeroed memory gets it, from a zeroed extent or cleared.
ZeroDelivered ==
    \A t \in Threads :
        pc[t] = "finish" /\ req[t].zero => Cells(hold[t]) \cap dirty = {}

\* What je_pool_check asks of each free extent: it is not empty, lies in the
\* pool and, if it is marked zeroed, is.
FreeSound ==
    \A e \in free : /\ e.size # 0
                    /\ e.zeroed => Cells(e) \cap dirty = {}
                    /\ Cells(e) \subseteq Chunk

\* The nodes that threads have in hand, numbered for each of them.
NodesOut == UNION {{t} \X (1 .. nd[t]) : t \in Threads}

\* An extent node is in a tree, on the base_nodes list or in the hands of a
\* thread, never in two of them and never dropped: not by the joins of
\* chunk_record, not when chunk_recycle or huge_palloc fails half way.
NodesConserved ==
    nodes + Cardinality(free) + Cardinality(huge) + Cardinality(NodesOut)
        = NNodes

\* The total size of a set of extents: each counts its cells for itself.
Volume(S) == Cardinality(UNION {{e} \X Cells(e) : e \in S})

\* je_pool_check finds nothing wrong with the free extents, at any moment at
\* which it can hold chunks_mtx: none is empty, those marked zeroed are, and
\* all lie in the pool and fit in it beside the spare chunk.
CheckPasses ==
    /\ FreeSound
    /\ Volume(free) + Cardinality(spare) <= NChunks

\* The regions in use: huge allocations, and single chunks of the arena and
\* of the base allocator.
Live == huge \cup {[addr |-> c, size |-> 1] : c \in arena \cup spare \cup base}

Promise == INSTANCE Heap WITH live <- Live

\* Every step of every thread is one step of the abstract heap, or none: the
\* splitting, the dropped locks, the error paths and the moves of huge_ralloc
\* never show the callers anything but disjoint regions that come and go.
ImplementsHeap == Promise!Spec

(***************************************************************************)
(* The inductive invariant behind them                                     *)
(***************************************************************************)

\* Every range lies in the pool.
Inside ==
    /\ \A e \in free : e.addr + e.size <= NChunks + 1
    /\ \A h \in huge : h.addr + h.size <= NChunks + 1

\* An arena keeps at most one spare chunk.
OneSpare == \A x, y \in spare : x = y

\* The ranges a thread has in hand at each label.
Carrying == {"trailnode", "trail", "putnode", "register", "finish", "uncount",
             "xnode", "record", "recordbare"}
Locals(t) ==
    /\ IF pc[t] \in Carrying
       THEN hold[t] \in Extent /\ hold[t].addr + hold[t].size <= NChunks + 1
       ELSE hold[t] = NoSpan
    /\ IF pc[t] \in {"trailnode", "trail"}
       THEN trail[t] \in Extent /\ trail[t].addr + trail[t].size <= NChunks + 1
       ELSE trail[t] = NoSpan
    /\ pc[t] = "idle" => req[t] = NoRequest
    /\ pc[t] = "recycle" => req[t].size > 0

\* The nodes a thread must have in hand: one for a huge allocation in the
\* making, one for the node that an extent has just given up or is to get.
Pending(t) ==
    (IF req[t].op = "palloc" /\ pc[t] # "unlink" THEN 1 ELSE 0)
    + (IF pc[t] \in {"trail", "putnode", "record"} THEN 1 ELSE 0)
NodesInHand(t) == pc[t] # "return" => nd[t] >= Pending(t)

\* A call that resizes or moves an allocation has it to itself, and an
\* expansion in progress asks for, and gets, the range right behind it.
Resizing(t) ==
    /\ \A u \in Threads : u # t /\ req[t].ptr # 0 => req[u].ptr # req[t].ptr
    /\ req[t].ptr # 0 => \E h \in huge : h.addr = req[t].ptr
    /\ req[t].op = "expand" =>
          /\ req[t].ptr # 0 /\ req[t].align = 1
          /\ pc[t] \in {"recycle", "putnode", "register", "finish", "return"}
          /\ \E h \in huge : /\ h.addr = req[t].ptr
                             /\ h.addr + h.size = req[t].at
                             /\ h.size + req[t].size = req[t].total
          /\ pc[t] \in {"putnode", "register", "finish"} =>
                hold[t].addr = req[t].at /\ hold[t].size = req[t].size

\* An allocation has what it asked for in hand, and for the arena and the
\* base allocator that is a single chunk.
Exact(t) ==
    /\ req[t].op \in {"arena", "base"} => req[t].size = 1
    /\ pc[t] \in {"trailnode", "trail", "putnode", "register", "finish"} =>
          hold[t].size = req[t].size

IInv ==
    /\ TypeOK
    /\ Inside
    /\ OneSpare
    /\ \A t \in Threads :
          Locals(t) /\ NodesInHand(t) /\ Resizing(t) /\ Exact(t)
    /\ NeverTwice
    /\ AllHeld
=============================================================================
