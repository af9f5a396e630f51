---------------------------- MODULE ChunksProofs ----------------------------
(***************************************************************************)
(* Proofs about Chunks, for every number of threads, chunks and nodes and  *)
(* every set of sizes and alignments: no chunk is in two places or         *)
(* vanishes, zeroed flags are right, no extent node is lost, je_pool_check *)
(* passes, and Chunks implements Heap.                                     *)
(***************************************************************************)
EXTENDS Chunks, FiniteSetTheorems, TLAPS

\* ALIGNMENT_CEILING goes up by less than the alignment.
LEMMA AlignUpRange ==
    ASSUME NEW a \in Nat, NEW n \in Nat \ {0}
    PROVE  /\ AlignUp(a, n) \in Nat
           /\ a <= AlignUp(a, n)
           /\ AlignUp(a, n) <= a + n - 1
           /\ n = 1 => AlignUp(a, n) = a
<1>1. (a + n - 1) % n \in 0 .. (n - 1)
  OBVIOUS
<1> QED
  BY <1>1 DEF AlignUp

\* The assertion of chunk_recycle: the extent it found is large enough for
\* the leading space and the request, so no size is negative.
LEMMA RecycleFits ==
    ASSUME NEW r \in Request, NEW e \in Extent, e \in Candidates(r)
    PROVE  LET ret == AlignUp(e.addr, r.align)
           IN  /\ ret \in Nat
               /\ e.addr <= ret
               /\ ret + r.size <= e.addr + e.size
               /\ r.op = "expand" /\ r.align = 1 /\ r.at # 0 =>
                     ret = r.at /\ e.addr = r.at
<1>1. r.size + r.align - 1 <= e.size
  BY DEF Candidates, Nsearch, SizeAddrLeq, Request, Extent, Chunk
<1>2. r.at # 0 => e.addr = r.at
  BY DEF Candidates
<1>3. /\ r.align \in Nat \ {0} /\ r.size \in Nat /\ r.at \in Nat
      /\ e.addr \in Nat /\ e.size \in Nat
  BY NChunksAssumption DEF Request, Extent, Chunk
<1> DEFINE ret == AlignUp(e.addr, r.align)
<1>4. /\ ret \in Nat /\ e.addr <= ret /\ ret <= e.addr + r.align - 1
      /\ r.align = 1 => ret = e.addr
  BY <1>3, AlignUpRange
<1> HIDE DEF ret
<1>5. /\ ret \in Nat /\ e.addr <= ret /\ ret + r.size <= e.addr + e.size
      /\ r.op = "expand" /\ r.align = 1 /\ r.at # 0 =>
            ret = r.at /\ e.addr = r.at
  BY <1>1, <1>2, <1>3, <1>4
<1> QED
  BY <1>5 DEF ret

(***************************************************************************)
(* Types and the shape of a thread's locals                                *)
(***************************************************************************)

Shape ==
    /\ TypeOK
    /\ Inside
    /\ OneSpare
    /\ \A t \in Threads : Locals(t) /\ NodesInHand(t) /\ Resizing(t)

LEMMA CallType ==
    ASSUME NEW op \in {"none", "palloc", "arena", "base", "dalloc"},
           NEW p \in 0..NChunks, NEW n \in Nat
    PROVE  Call(op, p, n) \in Request
  BY DEF Call, Request

LEMMA SpanTypes ==
    /\ NoSpan \in Span
    /\ Extent \subseteq Span
    /\ Chunk \subseteq 0..NChunks
    /\ NoRequest \in Request
  BY NChunksAssumption, CallType DEF NoRequest, NoSpan, Span, Extent, Chunk

LEMMA InitShape == Init => Shape
<1> SUFFICES ASSUME Init PROVE Shape
  OBVIOUS
<1>1. TypeOK
  BY SpanTypes, NChunksAssumption, NNodesAssumption, ZeroInitAssumption
  DEF Init, TypeOK, Extent, Chunk, Labels
<1>2. Inside
  BY NChunksAssumption DEF Init, Inside
<1>3. ASSUME NEW t \in Threads
      PROVE  Locals(t) /\ NodesInHand(t) /\ Resizing(t)
  BY DEF Init, Locals, Carrying, NodesInHand, Pending, Resizing, NoRequest, Call
<1>4. OneSpare
  BY DEF Init, OneSpare
<1> QED
  BY <1>1, <1>2, <1>3, <1>4 DEF Shape

\* A range that does not reach beyond the pool has only chunks of the pool.
LEMMA CellsInside ==
    ASSUME NEW a \in Nat \ {0}, NEW n \in Nat, a + n <= NChunks + 1
    PROVE  a .. (a + n - 1) \subseteq Chunk
  BY NChunksAssumption DEF Chunk

\* What chunk_recycle does with the extent it found: it becomes the leading
\* space, the result and the trailing space, in this order and without gaps.
Split(t, e, front, got, back) ==
    /\ front.addr = e.addr /\ front.addr + front.size = got.addr
    /\ got.addr + got.size = back.addr
    /\ back.addr + back.size = e.addr + e.size
    /\ got.size = req[t].size
    /\ req[t].op = "expand" => got.addr = req[t].at /\ front.size = 0
    /\ hold' = [hold EXCEPT ![t] = got]
    /\ \/ /\ front.size = 0 /\ back.size = 0
          /\ free' = free \ {e}
          /\ nd' = [nd EXCEPT ![t] = @ + 1]
          /\ pc' = [pc EXCEPT ![t] = "putnode"]
          /\ trail' = trail
       \/ /\ front.size = 0 /\ back.size # 0
          /\ free' = (free \ {e}) \cup {back}
          /\ pc' = [pc EXCEPT ![t] = "register"]
          /\ trail' = trail /\ nd' = nd
       \/ /\ front.size # 0 /\ back.size = 0
          /\ free' = (free \ {e}) \cup {front}
          /\ pc' = [pc EXCEPT ![t] = "register"]
          /\ trail' = trail /\ nd' = nd
       \/ /\ front.size # 0 /\ back.size # 0
          /\ free' = (free \ {e}) \cup {front}
          /\ trail' = [trail EXCEPT ![t] = back]
          /\ pc' = [pc EXCEPT ![t] = "trailnode"]
          /\ nd' = nd

LEMMA RecycleSplits ==
    ASSUME Shape, NEW t \in Threads, Recycle(t), Candidates(req[t]) # {}
    PROVE  \E e \in free, front, got, back \in Span :
             /\ e \in Extent /\ e.addr + e.size <= NChunks + 1
             /\ got \in Extent /\ got.addr + got.size <= NChunks + 1
             /\ front.size # 0 => front \in Extent
             /\ back.size # 0 => back \in Extent
             /\ Split(t, e, front, got, back)
<1>1. PICK e \in Candidates(req[t]) : RecycleFrom(t, e)
  BY DEF Recycle
<1>2. req[t] \in Request /\ req[t].size \in Nat /\ req[t].size > 0
  BY DEF Shape, TypeOK, Request, Locals, Recycle
<1>3. /\ e \in free /\ e \in Extent /\ e.addr + e.size <= NChunks + 1
      /\ e.addr \in Nat \ {0} /\ e.size \in Nat \ {0} /\ e.zeroed \in BOOLEAN
  BY DEF Candidates, Nsearch, Shape, TypeOK, Inside, Extent, Chunk
<1> DEFINE ret   == AlignUp(e.addr, req[t].align)
           lead  == ret - e.addr
           rest  == e.size - lead - req[t].size
           front == [addr |-> e.addr, size |-> lead, zeroed |-> e.zeroed]
           back  == [addr |-> ret + req[t].size, size |-> rest,
                     zeroed |-> e.zeroed]
           got   == [addr |-> ret, size |-> req[t].size, zeroed |-> e.zeroed]
<1>4. /\ ret \in Nat /\ e.addr <= ret /\ ret + req[t].size <= e.addr + e.size
      /\ req[t].op = "expand" => ret = req[t].at /\ e.addr = req[t].at
  <2>1. req[t].op = "expand" => req[t].align = 1 /\ req[t].at # 0
    BY <1>2, NChunksAssumption DEF Shape, Resizing, TypeOK, Region, Chunk
  <2> QED
    BY <1>2, <1>3, <2>1, RecycleFits
<1>5. /\ hold' = [hold EXCEPT ![t] = got]
      /\ \/ /\ lead = 0 /\ rest = 0
            /\ free' = free \ {e}
            /\ nd' = [nd EXCEPT ![t] = @ + 1]
            /\ pc' = [pc EXCEPT ![t] = "putnode"]
            /\ trail' = trail
         \/ /\ lead = 0 /\ rest # 0
            /\ free' = (free \ {e}) \cup {back}
            /\ pc' = [pc EXCEPT ![t] = "register"]
            /\ trail' = trail /\ nd' = nd
         \/ /\ lead # 0 /\ rest = 0
            /\ free' = (free \ {e}) \cup {front}
            /\ pc' = [pc EXCEPT ![t] = "register"]
            /\ trail' = trail /\ nd' = nd
         \/ /\ lead # 0 /\ rest # 0
            /\ free' = (free \ {e}) \cup {front}
            /\ trail' = [trail EXCEPT ![t] = back]
            /\ pc' = [pc EXCEPT ![t] = "trailnode"]
            /\ nd' = nd
  BY <1>1 DEF RecycleFrom, Goto
<1> HIDE DEF ret
<1>6. /\ front \in Span /\ got \in Span /\ back \in Span
      /\ got \in Extent /\ got.addr + got.size <= NChunks + 1
      /\ front.size # 0 => front \in Extent
      /\ back.size # 0 => back \in Extent
  BY <1>2, <1>3, <1>4, NChunksAssumption DEF Span, Extent, Chunk
<1>7. /\ front.addr = e.addr /\ front.addr + front.size = got.addr
      /\ got.addr + got.size = back.addr
      /\ back.addr + back.size = e.addr + e.size
      /\ got.size = req[t].size
      /\ req[t].op = "expand" => got.addr = req[t].at /\ front.size = 0
      /\ front.size = lead /\ back.size = rest
  BY <1>2, <1>3, <1>4
<1> HIDE DEF front, back, got, lead, rest
<1>8. Split(t, e, front, got, back)
  BY <1>5, <1>7 DEF Split
<1> QED
  BY <1>3, <1>6, <1>8

LEMMA TypeStep ==
    ASSUME Shape, NEW t \in Threads, Enter(t) \/ Step(t)
    PROVE  TypeOK'
<1> USE DEF Shape, TypeOK, Goto, lists, counts, locals
<1>1. CASE \E s \in Sizes, a \in Aligns, z \in BOOLEAN : HugePalloc(t, s, a, z)
  BY <1>1, SizesAssumption, AlignsAssumption, NChunksAssumption
  DEF HugePalloc, TakeNode, Request, Labels, Chunk
<1>2. CASE \E h \in huge, s \in Sizes : HugeExpand(t, h, s)
  BY <1>2, SizesAssumption, NChunksAssumption
  DEF HugeExpand, Request, Region, Labels, Chunk
<1>3. CASE \E h \in huge, s \in Sizes : HugeShrink(t, h, s)
  <2>1. PICK h \in huge, s \in Sizes : HugeShrink(t, h, s)
    BY <1>3
  <2>2. /\ Call("dalloc", h.addr, 0) \in Request
        /\ [addr |-> h.addr, size |-> s] \in Region
        /\ [addr |-> h.addr + s, size |-> h.size - s, zeroed |-> FALSE] \in Span
    BY <2>1, CallType, SizesAssumption, NChunksAssumption
    DEF HugeShrink, Region, Span, Chunk
  <2> QED
    BY <2>1, <2>2 DEF HugeShrink, Labels
<1>4. CASE \E h \in huge : HugeDalloc(t, h)
  <2>1. PICK h \in huge : HugeDalloc(t, h)
    BY <1>4
  <2>2. /\ Call("dalloc", 0, 0) \in Request
        /\ [addr |-> h.addr, size |-> h.size, zeroed |-> FALSE] \in Span
    BY CallType, NChunksAssumption DEF Region, Span, Chunk
  <2> QED
    BY <2>1, <2>2 DEF HugeDalloc, Labels
<1>5. CASE ArenaChunkAlloc(t)
  <2>1. Call("arena", 0, 1) \in Request
    BY CallType, NChunksAssumption
  <2> QED
    BY <1>5, <2>1 DEF ArenaChunkAlloc, Labels
<1>6. CASE \E c \in arena : ArenaChunkDalloc(t, c)
  <2>1. PICK c \in arena : ArenaChunkDalloc(t, c)
    BY <1>6
  <2>2. /\ Call("dalloc", 0, 0) \in Request
        /\ \A x \in spare : [addr |-> x, size |-> 1, zeroed |-> FALSE] \in Span
    BY CallType, NChunksAssumption DEF Span, Chunk
  <2> QED
    BY <2>1, <2>2 DEF ArenaChunkDalloc, Labels
<1>7. CASE BasePagesAlloc(t)
  <2>1. Call("base", 0, 1) \in Request
    BY CallType, NChunksAssumption
  <2> QED
    BY <1>7, <2>1 DEF BasePagesAlloc, Labels
<1>8. CASE Recycle(t)
  <2>1. CASE Candidates(req[t]) = {}
    BY <1>8, <2>1 DEF Recycle, Labels
  <2>2. CASE Candidates(req[t]) # {}
    <3>1. PICK e \in free, front, got, back \in Span :
             /\ front.size # 0 => front \in Extent
             /\ back.size # 0 => back \in Extent
             /\ Split(t, e, front, got, back)
      BY <1>8, <2>2, RecycleSplits
    <3> QED
      BY <1>8, <3>1 DEF Recycle, Split, Labels
  <2> QED
    BY <2>1, <2>2
<1>9. CASE TrailNode(t)
  <2>1. CASE nodes = 0 /\ lost' = lost \cup Cells(trail[t]) /\
               trail' = [trail EXCEPT ![t] = NoSpan] /\ Goto(t, "uncount") /\
               UNCHANGED <<nodes, nd>>
    <3>1. Cells(trail[t]) \subseteq Chunk
      BY <1>9, CellsInside, NChunksAssumption
      DEF TrailNode, Locals, Extent, Cells, Chunk
    <3> QED
      BY <1>9, <2>1, <3>1, SpanTypes DEF TrailNode, Labels
  <2>2. CASE TakeNode(t) /\ Goto(t, "trail") /\ UNCHANGED <<lost, trail>>
    BY <1>9, <2>2 DEF TrailNode, TakeNode, Labels
  <2> QED
    BY <1>9, <2>1, <2>2 DEF TrailNode
<1>10. CASE InsertTrail(t)
  BY <1>10, SpanTypes DEF InsertTrail, Locals, NodesInHand, Pending, Labels
<1>11. CASE SpareNode(t)
  BY <1>11 DEF SpareNode, PutNode, Labels
<1>12. CASE Register(t)
  BY <1>12 DEF Register, Span, Labels
<1>13. CASE Finish(t)
  <2>1. /\ hold[t] \in Extent /\ hold[t].addr + hold[t].size <= NChunks + 1
        /\ Cells(hold[t]) \subseteq Chunk
        /\ [addr |-> hold[t].addr, size |-> hold[t].size] \in Region
    BY <1>13, CellsInside, NChunksAssumption
    DEF Finish, Locals, Carrying, Extent, Region, Cells, Chunk
  <2>2. req[t].op = "palloc" => nd[t] - 1 \in Nat
    BY <1>13 DEF Finish, NodesInHand, Pending
  <2>3. req[t].op = "expand" =>
          [addr |-> req[t].ptr, size |-> req[t].total] \in Region
    BY <1>13, <2>1, NChunksAssumption
    DEF Finish, Resizing, Region, Extent, Chunk, Request
  <2>4. /\ dirty' \subseteq Chunk /\ hold' \in [Threads -> Span]
        /\ pc' \in [Threads -> Labels] /\ req' \in [Threads -> Request]
    BY <1>13, <2>1, SpanTypes DEF Finish, Labels
  <2>5. /\ huge' \subseteq Region /\ nd' \in [Threads -> Nat]
        /\ arena' \subseteq Chunk /\ base' \subseteq Chunk
    BY <1>13, <2>1, <2>2, <2>3 DEF Finish
  <2> QED
    BY <1>13, <2>4, <2>5 DEF Finish
<1>14. CASE Uncount(t)
  BY <1>14 DEF Uncount, Span, Labels
<1>15. CASE RecordNode(t)
  BY <1>15 DEF RecordNode, TakeNode, Labels
<1>16. CASE Record(t)
  <2> DEFINE c == hold[t]
  <2>1. /\ c.addr \in Chunk /\ c.size \in Chunk
        /\ c.addr + c.size <= NChunks + 1 /\ Cells(c) \subseteq Chunk
    BY <1>16, CellsInside, NChunksAssumption
    DEF Record, Locals, Carrying, Extent, Cells, Chunk
  <2>2. /\ \A n \in After(c), p \in Before(c) :
              Joined(p.addr, p.size + c.size + n.size) \in Extent
        /\ \A n \in After(c) : Joined(c.addr, c.size + n.size) \in Extent
        /\ \A p \in Before(c) : Joined(p.addr, p.size + c.size) \in Extent
        /\ Joined(c.addr, c.size) \in Extent
    BY <2>1, NChunksAssumption DEF After, Before, Joined, Inside, Extent, Chunk
  <2>3. pc[t] = "record" => nd[t] - 1 \in Nat
    BY DEF NodesInHand, Pending
  <2> HIDE DEF c
  <2>4. /\ free' \subseteq Extent /\ lost' \subseteq Chunk
        /\ nd' \in [Threads -> Nat]
    BY <1>16, <2>1, <2>2, <2>3 DEF Record, c
  <2>5. pc' \in [Threads -> Labels] /\ hold' \in [Threads -> Span]
    BY <1>16, SpanTypes DEF Record, Labels
  <2> QED
    BY <1>16, <2>4, <2>5 DEF Record
<1>17. CASE Return(t)
  <2>1. req[t].ptr \in 0..NChunks /\ req[t].total \in Nat
    BY DEF Request
  <2>2. Call("palloc", req[t].ptr, req[t].total) \in Request
    BY <2>1, CallType
  <2> QED
    BY <1>17, <2>2, SpanTypes DEF Return, PutNode, TakeNode, Labels
<1> QED
  BY <1>1, <1>2, <1>3, <1>4, <1>5, <1>6, <1>7, <1>8, <1>9, <1>10, <1>11,
     <1>12, <1>13, <1>14, <1>15, <1>16, <1>17 DEF Enter, Step

LEMMA InsideStep ==
    ASSUME Shape, NEW t \in Threads, Enter(t) \/ Step(t)
    PROVE  Inside'
<1> USE DEF Shape, Inside, Goto, lists, counts
<1>1. CASE \E s \in Sizes, a \in Aligns, z \in BOOLEAN : HugePalloc(t, s, a, z)
  BY <1>1 DEF HugePalloc
<1>2. CASE \E h \in huge, s \in Sizes : HugeExpand(t, h, s)
  BY <1>2 DEF HugeExpand
<1>3. CASE \E h \in huge, s \in Sizes : HugeShrink(t, h, s)
  BY <1>3, NChunksAssumption, SizesAssumption
  DEF HugeShrink, TypeOK, Region, Chunk
<1>4. CASE \E h \in huge : HugeDalloc(t, h)
  BY <1>4 DEF HugeDalloc
<1>5. CASE ArenaChunkAlloc(t)
  BY <1>5 DEF ArenaChunkAlloc
<1>6. CASE \E c \in arena : ArenaChunkDalloc(t, c)
  BY <1>6 DEF ArenaChunkDalloc
<1>7. CASE BasePagesAlloc(t)
  BY <1>7 DEF BasePagesAlloc
<1>8. CASE Recycle(t)
  <2>1. CASE Candidates(req[t]) = {}
    BY <1>8, <2>1 DEF Recycle
  <2>2. CASE Candidates(req[t]) # {}
    <3>1. PICK e \in free, front, got, back \in Span :
             /\ e.addr + e.size <= NChunks + 1
             /\ e \in Extent
             /\ got \in Extent /\ got.addr + got.size <= NChunks + 1
             /\ front.size # 0 => front \in Extent
             /\ back.size # 0 => back \in Extent
             /\ Split(t, e, front, got, back)
      BY <1>8, <2>2, RecycleSplits DEF Shape
    <3> QED
      BY <1>8, <3>1, NChunksAssumption DEF Recycle, Split, Extent, Span, Chunk
  <2> QED
    BY <2>1, <2>2
<1>9. CASE TrailNode(t)
  BY <1>9 DEF TrailNode
<1>10. CASE InsertTrail(t)
  BY <1>10 DEF InsertTrail, Locals
<1>11. CASE SpareNode(t)
  BY <1>11 DEF SpareNode
<1>12. CASE Register(t)
  BY <1>12 DEF Register
<1>13. CASE Finish(t)
  BY <1>13, NChunksAssumption
  DEF Finish, Locals, Carrying, Resizing, TypeOK, Region, Extent, Chunk, Request
<1>14. CASE Uncount(t)
  BY <1>14 DEF Uncount
<1>15. CASE RecordNode(t)
  BY <1>15 DEF RecordNode
<1>16. CASE Record(t)
  BY <1>16, NChunksAssumption
  DEF Record, Locals, Carrying, After, Before, Joined, TypeOK, Extent, Chunk
<1>17. CASE Return(t)
  BY <1>17 DEF Return
<1> QED
  BY <1>1, <1>2, <1>3, <1>4, <1>5, <1>6, <1>7, <1>8, <1>9,
     <1>10, <1>11, <1>12, <1>13, <1>14, <1>15, <1>16, <1>17 DEF Enter, Step

LEMMA LocalsStep ==
    ASSUME Shape, NEW t \in Threads, Enter(t) \/ Step(t),
           NEW u \in Threads
    PROVE  Locals(u)'
<1> USE DEF Shape, TypeOK, Locals, Carrying, Goto, lists, counts
<1>1. CASE \E s \in Sizes, a \in Aligns, z \in BOOLEAN : HugePalloc(t, s, a, z)
  BY <1>1, SizesAssumption, NChunksAssumption DEF HugePalloc
<1>2. CASE \E h \in huge, s \in Sizes : HugeExpand(t, h, s)
  BY <1>2, SizesAssumption, NChunksAssumption
  DEF HugeExpand, Region, Chunk
<1>3. CASE \E h \in huge, s \in Sizes : HugeShrink(t, h, s)
  BY <1>3, SizesAssumption, NChunksAssumption
  DEF HugeShrink, Inside, Region, Extent, Chunk
<1>4. CASE \E h \in huge : HugeDalloc(t, h)
  BY <1>4, NChunksAssumption DEF HugeDalloc, Inside, Region, Extent, Chunk
<1>5. CASE ArenaChunkAlloc(t)
  BY <1>5 DEF ArenaChunkAlloc, Call
<1>6. CASE \E c \in arena : ArenaChunkDalloc(t, c)
  <2>1. PICK c \in arena : ArenaChunkDalloc(t, c)
    BY <1>6
  <2>2. CASE spare = {}
    BY <2>1, <2>2 DEF ArenaChunkDalloc
  <2>3. CASE spare # {}
    <3>1. PICK x \in spare :
             hold' = [hold EXCEPT ![t] = [addr |-> x, size |-> 1,
                                          zeroed |-> FALSE]]
      BY <2>1, <2>3 DEF ArenaChunkDalloc
    <3>2. /\ [addr |-> x, size |-> 1, zeroed |-> FALSE] \in Extent
          /\ x + 1 <= NChunks + 1
      BY NChunksAssumption DEF Extent, Chunk
    <3>3. pc' = [pc EXCEPT ![t] = "uncount"] /\ trail' = trail
      BY <2>1, <2>3 DEF ArenaChunkDalloc
    <3>4. \A v \in Threads : v # t => req'[v] = req[v]
      BY <2>1 DEF ArenaChunkDalloc
    <3>5. CASE u = t
      <4>1. /\ hold'[t] = [addr |-> x, size |-> 1, zeroed |-> FALSE]
            /\ pc'[t] = "uncount" /\ trail'[t] = NoSpan
        BY <2>1, <3>1, <3>3 DEF ArenaChunkDalloc
      <4>2. /\ hold'[t] \in Extent
            /\ hold'[t].addr + hold'[t].size <= NChunks + 1
        BY <4>1, <3>2
      <4> QED
        BY <3>5, <4>1, <4>2
    <3>6. CASE u # t
      BY <3>1, <3>3, <3>4, <3>6
    <3> QED
      BY <3>5, <3>6
  <2> QED
    BY <2>2, <2>3
<1>7. CASE BasePagesAlloc(t)
  BY <1>7 DEF BasePagesAlloc, Call
<1>8. CASE Recycle(t)
  <2>1. CASE Candidates(req[t]) = {}
    BY <1>8, <2>1 DEF Recycle
  <2>2. CASE Candidates(req[t]) # {}
    <3>1. PICK e \in free, front, got, back \in Span :
             /\ e.addr + e.size <= NChunks + 1
             /\ e \in Extent
             /\ got \in Extent /\ got.addr + got.size <= NChunks + 1
             /\ front.size # 0 => front \in Extent
             /\ back.size # 0 => back \in Extent
             /\ Split(t, e, front, got, back)
      BY <1>8, <2>2, RecycleSplits DEF Shape
    <3> QED
      BY <1>8, <3>1, NChunksAssumption DEF Recycle, Split, Extent, Span, Chunk
  <2> QED
    BY <2>1, <2>2
<1>9. CASE TrailNode(t)
  BY <1>9 DEF TrailNode
<1>10. CASE InsertTrail(t)
  BY <1>10 DEF InsertTrail
<1>11. CASE SpareNode(t)
  BY <1>11 DEF SpareNode
<1>12. CASE Register(t)
  BY <1>12 DEF Register
<1>13. CASE Finish(t)
  BY <1>13 DEF Finish
<1>14. CASE Uncount(t)
  BY <1>14 DEF Uncount
<1>15. CASE RecordNode(t)
  BY <1>15 DEF RecordNode
<1>16. CASE Record(t)
  BY <1>16 DEF Record
<1>17. CASE Return(t)
  BY <1>17, NChunksAssumption DEF Return, PutNode, TakeNode, Call, Resizing, Region, Chunk, Request
<1> QED
  BY <1>1, <1>2, <1>3, <1>4, <1>5, <1>6, <1>7, <1>8, <1>9,
     <1>10, <1>11, <1>12, <1>13, <1>14, <1>15, <1>16, <1>17 DEF Enter, Step

LEMMA NodesInHandStep ==
    ASSUME Shape, NEW t \in Threads, Enter(t) \/ Step(t),
           NEW u \in Threads
    PROVE  NodesInHand(u)'
<1> USE DEF Shape, TypeOK, NodesInHand, Pending, Goto, TakeNode, PutNode,
        Call, NoRequest, lists, counts
<1>1. CASE \E s \in Sizes, a \in Aligns, z \in BOOLEAN : HugePalloc(t, s, a, z)
  BY <1>1 DEF HugePalloc
<1>2. CASE \E h \in huge, s \in Sizes : HugeExpand(t, h, s)
  BY <1>2 DEF HugeExpand
<1>3. CASE \E h \in huge, s \in Sizes : HugeShrink(t, h, s)
  BY <1>3 DEF HugeShrink
<1>4. CASE \E h \in huge : HugeDalloc(t, h)
  BY <1>4 DEF HugeDalloc
<1>5. CASE ArenaChunkAlloc(t)
  BY <1>5 DEF ArenaChunkAlloc
<1>6. CASE \E c \in arena : ArenaChunkDalloc(t, c)
  BY <1>6 DEF ArenaChunkDalloc
<1>7. CASE BasePagesAlloc(t)
  BY <1>7 DEF BasePagesAlloc
<1>8. CASE Recycle(t)
  <2>1. CASE Candidates(req[t]) = {}
    BY <1>8, <2>1 DEF Recycle
  <2>2. CASE Candidates(req[t]) # {}
    <3>1. PICK e \in free, front, got, back \in Span :
             /\ e.addr + e.size <= NChunks + 1
             /\ e \in Extent
             /\ got \in Extent /\ got.addr + got.size <= NChunks + 1
             /\ front.size # 0 => front \in Extent
             /\ back.size # 0 => back \in Extent
             /\ Split(t, e, front, got, back)
      BY <1>8, <2>2, RecycleSplits DEF Shape
    <3> QED
      BY <1>8, <3>1 DEF Recycle, Split
  <2> QED
    BY <2>1, <2>2
<1>9. CASE TrailNode(t)
  BY <1>9 DEF TrailNode
<1>10. CASE InsertTrail(t)
  BY <1>10 DEF InsertTrail
<1>11. CASE SpareNode(t)
  BY <1>11 DEF SpareNode
<1>12. CASE Register(t)
  BY <1>12 DEF Register
<1>13. CASE Finish(t)
  BY <1>13 DEF Finish
<1>14. CASE Uncount(t)
  BY <1>14 DEF Uncount
<1>15. CASE RecordNode(t)
  BY <1>15 DEF RecordNode
<1>16. CASE Record(t)
  BY <1>16 DEF Record
<1>17. CASE Return(t)
  BY <1>17 DEF Return
<1> QED
  BY <1>1, <1>2, <1>3, <1>4, <1>5, <1>6, <1>7, <1>8, <1>9,
     <1>10, <1>11, <1>12, <1>13, <1>14, <1>15, <1>16, <1>17 DEF Enter, Step

LEMMA ResizingStep ==
    ASSUME Shape, NEW t \in Threads, Enter(t) \/ Step(t),
           NEW u \in Threads
    PROVE  Resizing(u)'
<1> USE DEF Shape, TypeOK, Resizing, Goto, Call, NoRequest, lists, counts
<1>1. CASE \E s \in Sizes, a \in Aligns, z \in BOOLEAN : HugePalloc(t, s, a, z)
  BY <1>1 DEF HugePalloc
<1>2. CASE \E h \in huge, s \in Sizes : HugeExpand(t, h, s)
  <2>1. PICK h \in huge, n \in Sizes : HugeExpand(t, h, n)
    BY <1>2
  <2>2. /\ h.addr \in Nat \ {0} /\ h.size \in Nat
        /\ n \in Nat /\ h.size + (n - h.size) = n
    BY <2>1, SizesAssumption, NChunksAssumption DEF Region, Chunk
  <2>3. /\ pc' = [pc EXCEPT ![t] = "recycle"] /\ hold' = hold /\ huge' = huge
        /\ req'[t].op = "expand" /\ req'[t].ptr = h.addr /\ req'[t].align = 1
        /\ req'[t].at = h.addr + h.size /\ req'[t].size = n - h.size
        /\ req'[t].total = n
        /\ \A v \in Threads : v # t => req'[v] = req[v] /\ req[v].ptr # h.addr
    BY <2>1 DEF HugeExpand, InUse
  <2>4. CASE u = t
    BY <2>2, <2>3, <2>4
  <2>5. CASE u # t
    BY <2>3, <2>5
  <2> QED
    BY <2>4, <2>5
<1>3. CASE \E h \in huge, s \in Sizes : HugeShrink(t, h, s)
  <2>1. PICK h \in huge, n \in Sizes : HugeShrink(t, h, n)
    BY <1>3
  <2>2. /\ huge' = (huge \ {h}) \cup {[addr |-> h.addr, size |-> n]}
        /\ req'[t] = Call("dalloc", h.addr, 0)
        /\ \A v \in Threads : v # t => /\ req'[v] = req[v] /\ pc'[v] = pc[v]
                                      /\ hold'[v] = hold[v]
                                      /\ req[v].ptr # h.addr
    BY <2>1 DEF HugeShrink, InUse
  <2>3. CASE u = t
    <3>1. \E g \in huge' : g.addr = h.addr
      <4> DEFINE g == [addr |-> h.addr, size |-> n]
      <4>1. g.addr = h.addr
        OBVIOUS
      <4>2. g \in huge'
        BY <2>2
      <4> QED
        BY <4>1, <4>2
    <3>2. req'[t].ptr = h.addr /\ req'[t].op = "dalloc"
      BY <2>2
    <3> QED
      BY <2>2, <2>3, <3>1, <3>2
  <2>4. CASE u # t
    <3>1. \A g \in huge : g.addr # h.addr => g \in huge'
      BY <2>2
    <3> QED
      BY <2>2, <2>4, <3>1
  <2> QED
    BY <2>3, <2>4
<1>4. CASE \E h \in huge : HugeDalloc(t, h)
  <2>1. PICK h \in huge : HugeDalloc(t, h)
    BY <1>4
  <2>2. h.addr # 0
    BY NChunksAssumption DEF Region, Chunk
  <2>3. /\ huge' = huge \ {h}
        /\ req'[t] = Call("dalloc", 0, 0)
        /\ \A v \in Threads : v # t => /\ req'[v] = req[v] /\ pc'[v] = pc[v]
                                      /\ hold'[v] = hold[v]
                                      /\ req[v].ptr # h.addr
    BY <2>1, <2>2 DEF HugeDalloc, InUse
  <2>4. CASE u = t
    BY <2>3, <2>4
  <2>5. CASE u # t
    <3>1. \A g \in huge : g.addr # h.addr => g \in huge'
      BY <2>3
    <3>2. \A v \in Threads : req'[v].ptr = req[v].ptr \/ req'[v].ptr = 0
      BY <2>3
    <3> QED
      BY <2>3, <2>5, <3>1, <3>2
  <2> QED
    BY <2>4, <2>5
<1>5. CASE ArenaChunkAlloc(t)
  BY <1>5 DEF ArenaChunkAlloc
<1>6. CASE \E c \in arena : ArenaChunkDalloc(t, c)
  BY <1>6 DEF ArenaChunkDalloc
<1>7. CASE BasePagesAlloc(t)
  BY <1>7 DEF BasePagesAlloc
<1>8. CASE Recycle(t)
  <2>1. CASE Candidates(req[t]) = {}
    BY <1>8, <2>1 DEF Recycle
  <2>2. CASE Candidates(req[t]) # {}
    <3>1. PICK e \in free, front, got, back \in Span :
             /\ e.addr + e.size <= NChunks + 1
             /\ e \in Extent
             /\ got \in Extent /\ got.addr + got.size <= NChunks + 1
             /\ front.size # 0 => front \in Extent
             /\ back.size # 0 => back \in Extent
             /\ Split(t, e, front, got, back)
      BY <1>8, <2>2, RecycleSplits DEF Shape
    <3> QED
      BY <1>8, <3>1 DEF Recycle, Split
  <2> QED
    BY <2>1, <2>2
<1>9. CASE TrailNode(t)
  BY <1>9 DEF TrailNode
<1>10. CASE InsertTrail(t)
  BY <1>10 DEF InsertTrail
<1>11. CASE SpareNode(t)
  BY <1>11 DEF SpareNode
<1>12. CASE Register(t)
  BY <1>12 DEF Register
<1>13. CASE Finish(t)
  BY <1>13, SMTT(40) DEF Finish
<1>14. CASE Uncount(t)
  BY <1>14 DEF Uncount
<1>15. CASE RecordNode(t)
  BY <1>15 DEF RecordNode
<1>16. CASE Record(t)
  BY <1>16 DEF Record
<1>17. CASE Return(t)
  BY <1>17, SMTT(40) DEF Return
<1> QED
  BY <1>1, <1>2, <1>3, <1>4, <1>5, <1>6, <1>7, <1>8, <1>9,
     <1>10, <1>11, <1>12, <1>13, <1>14, <1>15, <1>16, <1>17 DEF Enter, Step

LEMMA OneSpareStep ==
    ASSUME Shape, NEW t \in Threads, Enter(t) \/ Step(t)
    PROVE  OneSpare'
<1>1. spare' = spare \/ spare' = {} \/ \E c \in arena : spare' = {c}
  BY DEF Enter, Step, lists, HugePalloc, HugeExpand, HugeShrink, HugeDalloc,
     ArenaChunkAlloc, ArenaChunkDalloc, BasePagesAlloc, Recycle, TrailNode,
     InsertTrail, SpareNode, Register, Finish, Uncount, RecordNode, Record,
     Return
<1> QED
  BY <1>1 DEF Shape, OneSpare

LEMMA ShapeStep == Shape /\ [Next]_vars => Shape'
<1> SUFFICES ASSUME Shape, [Next]_vars PROVE Shape'
  OBVIOUS
<1>1. CASE UNCHANGED vars
  BY <1>1
  DEF Shape, TypeOK, Inside, OneSpare, Locals, NodesInHand, Pending, Resizing,
      vars, lists, counts, locals
<1>2. CASE Next
  BY <1>2, TypeStep, InsideStep, OneSpareStep, LocalsStep, NodesInHandStep,
     ResizingStep
  DEF Next, Shape
<1> QED
  BY <1>1, <1>2

\* Every variable of the pool keeps its type: no call drives the length of
\* base_nodes below zero, leaves an extent of size zero or outside the pool,
\* or forgets a range or a node in a thread's hands.
THEOREM TypeCorrect == Spec => []TypeOK
<1>1. Spec => []Shape
  BY InitShape, ShapeStep, PTL DEF Spec
<1>2. Shape => TypeOK
  BY DEF Shape
<1> QED
  BY <1>1, <1>2, PTL

(***************************************************************************)
(* One holder for every chunk                                              *)
(***************************************************************************)

\* Whatever holds c is the one of kind k and index i.
Sole(c, k, i) ==
    /\ \A e \in free : c \in Cells(e) => k = "free" /\ i = e
    /\ \A h \in huge : c \in Cells(h) => k = "huge" /\ i = h
    /\ \A u \in Threads : c \in Cells(hold[u]) => k = "hold" /\ i = u
    /\ \A u \in Threads : c \in Cells(trail[u]) => k = "trail" /\ i = u
    /\ c \in arena => k = "arena" /\ i = c
    /\ c \in spare => k = "spare" /\ i = c
    /\ c \in base => k = "base" /\ i = c
    /\ c \in lost => k = "lost" /\ i = c

Covered(c) ==
    \/ \E e \in free : c \in Cells(e)
    \/ \E h \in huge : c \in Cells(h)
    \/ \E u \in Threads : c \in Cells(hold[u]) \/ c \in Cells(trail[u])
    \/ c \in arena \/ c \in spare \/ c \in base \/ c \in lost

LEMMA NeverTwiceFromSole ==
    (\A c \in Chunk : \E k, i : Sole(c, k, i)) => NeverTwice
<1> SUFFICES ASSUME NEW c \in Chunk, NEW x \in Holders(c), NEW y \in Holders(c),
                    \E k, i : Sole(c, k, i)
             PROVE  x = y
  BY DEF NeverTwice
<1>1. PICK k, i : Sole(c, k, i)
  OBVIOUS
<1>2. x = <<k, i>> /\ y = <<k, i>>
  BY <1>1 DEF Holders, Sole
<1> QED
  BY <1>2

LEMMA AllHeldFromCovered == (\A c \in Chunk : Covered(c)) => AllHeld
<1> SUFFICES ASSUME NEW c \in Chunk, Covered(c) PROVE \E x : x \in Holders(c)
  BY DEF AllHeld
<1>1. CASE \E e \in free : c \in Cells(e)
  BY <1>1 DEF Holders
<1>2. CASE \E h \in huge : c \in Cells(h)
  BY <1>2 DEF Holders
<1>3. CASE \E u \in Threads : c \in Cells(hold[u]) \/ c \in Cells(trail[u])
  BY <1>3 DEF Holders
<1>4. CASE c \in arena \/ c \in spare \/ c \in base \/ c \in lost
  BY <1>4 DEF Holders
<1> QED
  BY <1>1, <1>2, <1>3, <1>4 DEF Covered

LEMMA EmptyCells == Cells(NoSpan) = {}
  BY DEF Cells, NoSpan

\* Steps that neither move a chunk nor touch a list.
LEMMA HoldersStay ==
    ASSUME NEW c, NEW k, NEW i, Sole(c, k, i), Covered(c),
           UNCHANGED <<lists, hold, trail>>
    PROVE  Sole(c, k, i)' /\ Covered(c)'
  BY DEF Sole, Covered, lists

LEMMA ShrinkHolders ==
    ASSUME Shape, NEW t \in Threads, NEW h \in huge, NEW n \in Sizes,
           HugeShrink(t, h, n),
           NEW c \in Chunk, NEW k, NEW i, Sole(c, k, i), Covered(c)
    PROVE  (\E k2, i2 : Sole(c, k2, i2)') /\ Covered(c)'
<1> DEFINE r == [addr |-> h.addr, size |-> n]
           x == [addr |-> h.addr + n, size |-> h.size - n, zeroed |-> FALSE]
<1>1. /\ huge' = (huge \ {h}) \cup {r}
      /\ hold' = [hold EXCEPT ![t] = x]
      /\ free' = free /\ arena' = arena /\ spare' = spare /\ base' = base
      /\ lost' = lost /\ trail' = trail
  BY DEF HugeShrink
<1>2. /\ h.addr \in Nat /\ h.size \in Nat /\ n \in Nat /\ n < h.size /\ c \in Nat
  BY SizesAssumption, NChunksAssumption
  DEF HugeShrink, Shape, TypeOK, Region, Chunk
<1>3. /\ c \in Cells(h) <=> c \in Cells(r) \/ c \in Cells(x)
      /\ ~(c \in Cells(r) /\ c \in Cells(x))
  BY <1>2 DEF Cells
<1>4. /\ hold \in [Threads -> Span] /\ Cells(hold[t]) = {}
  BY EmptyCells DEF HugeShrink, Shape, TypeOK, Locals, Carrying
<1>5. /\ hold'[t] = x
      /\ \A u \in Threads : u # t => hold'[u] = hold[u]
  BY <1>1, <1>4
<1> HIDE DEF r, x
<1>6. CASE c \in Cells(r)
  <2>1. Sole(c, "huge", r)' /\ Covered(c)'
    BY <1>1, <1>3, <1>4, <1>5, <1>6 DEF Sole, Covered
  <2> QED
    BY <2>1
<1>7. CASE c \in Cells(x)
  <2>1. Sole(c, "hold", t)' /\ Covered(c)'
    BY <1>1, <1>3, <1>4, <1>5, <1>7 DEF Sole, Covered
  <2> QED
    BY <2>1
<1>8. CASE c \notin Cells(h)
  <2>1. Sole(c, k, i)' /\ Covered(c)'
    BY <1>1, <1>3, <1>4, <1>5, <1>8 DEF Sole, Covered
  <2> QED
    BY <2>1
<1> QED
  BY <1>3, <1>6, <1>7, <1>8

LEMMA DallocHolders ==
    ASSUME Shape, NEW t \in Threads, NEW h \in huge, HugeDalloc(t, h),
           NEW c \in Chunk, NEW k, NEW i, Sole(c, k, i), Covered(c)
    PROVE  (\E k2, i2 : Sole(c, k2, i2)') /\ Covered(c)'
<1> DEFINE x == [addr |-> h.addr, size |-> h.size, zeroed |-> FALSE]
<1>1. /\ huge' = huge \ {h}
      /\ hold' = [hold EXCEPT ![t] = x]
      /\ free' = free /\ arena' = arena /\ spare' = spare /\ base' = base
      /\ lost' = lost /\ trail' = trail
  BY DEF HugeDalloc
<1>2. Cells(x) = Cells(h)
  BY DEF Cells
<1>3. /\ hold \in [Threads -> Span] /\ Cells(hold[t]) = {}
  BY EmptyCells DEF HugeDalloc, Shape, TypeOK, Locals, Carrying
<1>4. /\ hold'[t] = x
      /\ \A u \in Threads : u # t => hold'[u] = hold[u]
  BY <1>1, <1>3
<1> HIDE DEF x
<1>5. CASE c \in Cells(h)
  <2>1. Sole(c, "hold", t)' /\ Covered(c)'
    BY <1>1, <1>2, <1>3, <1>4, <1>5 DEF Sole, Covered
  <2> QED
    BY <2>1
<1>6. CASE c \notin Cells(h)
  <2>1. Sole(c, k, i)' /\ Covered(c)'
    BY <1>1, <1>2, <1>3, <1>4, <1>6 DEF Sole, Covered
  <2> QED
    BY <2>1
<1> QED
  BY <1>5, <1>6

LEMMA ArenaAllocHolders ==
    ASSUME Shape, NEW t \in Threads, ArenaChunkAlloc(t),
           NEW c \in Chunk, NEW k, NEW i, Sole(c, k, i), Covered(c)
    PROVE  (\E k2, i2 : Sole(c, k2, i2)') /\ Covered(c)'
<1>1. /\ free' = free /\ huge' = huge /\ base' = base /\ lost' = lost
      /\ hold' = hold /\ trail' = trail
      /\ \/ arena' = arena \cup spare /\ spare' = {}
         \/ arena' = arena /\ spare' = spare
  BY DEF ArenaChunkAlloc
<1>2. CASE c \in spare /\ spare' = {}
  <2>1. Sole(c, "arena", c)' /\ Covered(c)'
    BY <1>1, <1>2 DEF Sole, Covered
  <2> QED
    BY <2>1
<1>3. CASE ~(c \in spare /\ spare' = {})
  <2>1. Sole(c, k, i)' /\ Covered(c)'
    BY <1>1, <1>3 DEF Sole, Covered
  <2> QED
    BY <2>1
<1> QED
  BY <1>2, <1>3

LEMMA ArenaDallocHolders ==
    ASSUME Shape, NEW t \in Threads, NEW d \in arena, ArenaChunkDalloc(t, d),
           NEW c \in Chunk, NEW k, NEW i, Sole(c, k, i), Covered(c)
    PROVE  (\E k2, i2 : Sole(c, k2, i2)') /\ Covered(c)'
<1>1. /\ free' = free /\ huge' = huge /\ base' = base /\ lost' = lost
      /\ trail' = trail /\ arena' = arena \ {d} /\ spare' = {d}
  BY DEF ArenaChunkDalloc
<1>2. /\ hold \in [Threads -> Span] /\ Cells(hold[t]) = {}
  BY EmptyCells DEF ArenaChunkDalloc, Shape, TypeOK, Locals, Carrying
<1>3. CASE spare = {}
  <2>1. hold' = hold
    BY <1>3 DEF ArenaChunkDalloc
  <2>2. CASE c = d
    <3>1. Sole(c, "spare", c)' /\ Covered(c)'
      BY <1>1, <2>1, <2>2 DEF Sole, Covered
    <3> QED
      BY <3>1
  <2>3. CASE c # d
    <3>1. Sole(c, k, i)' /\ Covered(c)'
      BY <1>1, <1>3, <2>1, <2>3 DEF Sole, Covered
    <3> QED
      BY <3>1
  <2> QED
    BY <2>2, <2>3
<1>4. CASE spare # {}
  <2>1. PICK s \in spare :
           hold' = [hold EXCEPT ![t] = [addr |-> s, size |-> 1,
                                        zeroed |-> FALSE]]
    BY <1>4 DEF ArenaChunkDalloc
  <2> DEFINE x == [addr |-> s, size |-> 1, zeroed |-> FALSE]
  <2>2. c \in Cells(x) <=> c = s
    BY NChunksAssumption DEF Cells, Shape, TypeOK, Chunk
  <2>3. /\ hold'[t] = x
        /\ \A u \in Threads : u # t => hold'[u] = hold[u]
    BY <1>2, <2>1
  <2>4. \A y \in spare : y = s
    BY <1>4 DEF Shape, OneSpare
  <2> HIDE DEF x
  <2>5. CASE c = d
    <3>1. c # s
      BY <2>5 DEF Sole
    <3>2. Sole(c, "spare", c)' /\ Covered(c)'
      BY <1>1, <1>2, <2>2, <2>3, <2>5, <3>1 DEF Sole, Covered
    <3> QED
      BY <3>2
  <2>6. CASE c = s /\ c # d
    <3>1. Sole(c, "hold", t)' /\ Covered(c)'
      BY <1>1, <1>2, <2>2, <2>3, <2>6 DEF Sole, Covered
    <3> QED
      BY <3>1
  <2>7. CASE c # s /\ c # d
    <3>1. Sole(c, k, i)' /\ Covered(c)'
      BY <1>1, <1>2, <2>2, <2>3, <2>4, <2>7 DEF Sole, Covered
    <3> QED
      BY <3>1
  <2> QED
    BY <2>5, <2>6, <2>7
<1> QED
  BY <1>3, <1>4

LEMMA RecycleHolders ==
    ASSUME Shape, NEW t \in Threads, Recycle(t),
           NEW c \in Chunk, NEW k, NEW i, Sole(c, k, i), Covered(c)
    PROVE  (\E k2, i2 : Sole(c, k2, i2)') /\ Covered(c)'
<1>1. /\ huge' = huge /\ arena' = arena /\ spare' = spare /\ base' = base
      /\ lost' = lost
  BY DEF Recycle
<1>2. CASE Candidates(req[t]) = {}
  <2>1. free' = free /\ hold' = hold /\ trail' = trail
    BY <1>2 DEF Recycle
  <2> QED
    BY <1>1, <2>1, HoldersStay DEF lists
<1>3. CASE Candidates(req[t]) # {}
  <2>1. PICK e \in free, front, got, back \in Span :
           /\ e \in Extent /\ got \in Extent
           /\ Split(t, e, front, got, back)
    BY <1>3, RecycleSplits
  <2>2. /\ c \in Cells(e) <=>
              c \in Cells(front) \/ c \in Cells(got) \/ c \in Cells(back)
        /\ ~(c \in Cells(front) /\ c \in Cells(got))
        /\ ~(c \in Cells(front) /\ c \in Cells(back))
        /\ ~(c \in Cells(got) /\ c \in Cells(back))
        /\ front.size = 0 => c \notin Cells(front)
        /\ back.size = 0 => c \notin Cells(back)
    BY <2>1, NChunksAssumption DEF Split, Cells, Span, Extent, Chunk
  <2>3. /\ hold \in [Threads -> Span] /\ Cells(hold[t]) = {}
        /\ trail \in [Threads -> Span] /\ Cells(trail[t]) = {}
    BY EmptyCells DEF Recycle, Shape, TypeOK, Locals, Carrying
  <2>4. /\ hold'[t] = got
        /\ \A u \in Threads : u # t => hold'[u] = hold[u] /\ trail'[u] = trail[u]
    BY <2>1, <2>3 DEF Split
  <2>5. /\ c \notin Cells(front) => \A f \in free' : c \in Cells(f) =>
              (f \in free /\ f # e) \/ f = back
        /\ \A f \in free' : c \in Cells(f) =>
              (f \in free /\ f # e) \/ f = back \/ f = front
        /\ \A f \in free : f # e => f \in free'
        /\ c \in Cells(front) => front \in free'
        /\ c \in Cells(back) =>
              \/ back \in free' /\ Cells(trail'[t]) = {}
              \/ trail'[t] = back /\ back.size # 0 /\ free' = (free \ {e}) \cup {front}
        /\ Cells(trail'[t]) = {} \/ trail'[t] = back
    BY <2>1, <2>2, <2>3 DEF Split
  <2>6. CASE c \in Cells(front)
    <3>1. Sole(c, "free", front)' /\ Covered(c)'
      BY <1>1, <2>2, <2>3, <2>4, <2>5, <2>6 DEF Sole, Covered
    <3> QED
      BY <3>1
  <2>7. CASE c \in Cells(got)
    <3>1. Sole(c, "hold", t)' /\ Covered(c)'
      BY <1>1, <2>2, <2>3, <2>4, <2>5, <2>7 DEF Sole, Covered
    <3> QED
      BY <3>1
  <2>8. CASE c \in Cells(back) /\ back \in free' /\ Cells(trail'[t]) = {}
    <3>1. Sole(c, "free", back)' /\ Covered(c)'
      BY <1>1, <2>2, <2>3, <2>4, <2>5, <2>8 DEF Sole, Covered
    <3> QED
      BY <3>1
  <2>9. CASE c \in Cells(back) /\ trail'[t] = back /\
               free' = (free \ {e}) \cup {front}
    <3>1. Sole(c, "trail", t)' /\ Covered(c)'
      BY <1>1, <2>2, <2>3, <2>4, <2>9 DEF Sole, Covered
    <3> QED
      BY <3>1
  <2>10. CASE c \notin Cells(e)
    <3>1. Sole(c, k, i)' /\ Covered(c)'
      BY <1>1, <2>2, <2>3, <2>4, <2>5, <2>10 DEF Sole, Covered
    <3> QED
      BY <3>1
  <2> QED
    BY <2>2, <2>5, <2>6, <2>7, <2>8, <2>9, <2>10
<1> QED
  BY <1>2, <1>3

LEMMA TrailNodeHolders ==
    ASSUME Shape, NEW t \in Threads, TrailNode(t),
           NEW c \in Chunk, NEW k, NEW i, Sole(c, k, i), Covered(c)
    PROVE  (\E k2, i2 : Sole(c, k2, i2)') /\ Covered(c)'
<1>1. /\ free' = free /\ huge' = huge /\ arena' = arena /\ spare' = spare
      /\ base' = base /\ hold' = hold
  BY DEF TrailNode
<1>2. CASE UNCHANGED <<lost, trail>>
  BY <1>1, <1>2, HoldersStay DEF lists
<1>3. CASE lost' = lost \cup Cells(trail[t]) /\
             trail' = [trail EXCEPT ![t] = NoSpan]
  <2>1. /\ Cells(trail'[t]) = {}
        /\ \A u \in Threads : u # t => trail'[u] = trail[u]
    BY <1>3, EmptyCells DEF Shape, TypeOK
  <2>2. CASE c \in Cells(trail[t])
    <3>1. Sole(c, "lost", c)' /\ Covered(c)'
      BY <1>1, <1>3, <2>1, <2>2 DEF Sole, Covered
    <3> QED
      BY <3>1
  <2>3. CASE c \notin Cells(trail[t])
    <3>1. Sole(c, k, i)' /\ Covered(c)'
      BY <1>1, <1>3, <2>1, <2>3 DEF Sole, Covered
    <3> QED
      BY <3>1
  <2> QED
    BY <2>2, <2>3
<1> QED
  BY <1>2, <1>3 DEF TrailNode

LEMMA InsertTrailHolders ==
    ASSUME Shape, NEW t \in Threads, InsertTrail(t),
           NEW c \in Chunk, NEW k, NEW i, Sole(c, k, i), Covered(c)
    PROVE  (\E k2, i2 : Sole(c, k2, i2)') /\ Covered(c)'
<1>1. /\ free' = free \cup {trail[t]} /\ huge' = huge /\ arena' = arena
      /\ spare' = spare /\ base' = base /\ lost' = lost /\ hold' = hold
      /\ Cells(trail'[t]) = {}
      /\ \A u \in Threads : u # t => trail'[u] = trail[u]
  BY EmptyCells DEF InsertTrail, Shape, TypeOK
<1>2. CASE c \in Cells(trail[t])
  <2>0. PICK b : b = trail[t]
    OBVIOUS
  <2>1. Sole(c, "free", b)' /\ Covered(c)'
    BY <1>1, <1>2, <2>0 DEF Sole, Covered
  <2> QED
    BY <2>1
<1>3. CASE c \notin Cells(trail[t])
  <2>1. Sole(c, k, i)' /\ Covered(c)'
    BY <1>1, <1>3 DEF Sole, Covered
  <2> QED
    BY <2>1
<1> QED
  BY <1>2, <1>3

\* The owner of the memory that chunk_alloc_core found.
LEMMA FinishHolders ==
    ASSUME Shape, NEW t \in Threads, Finish(t),
           \A d \in Chunk : \E k2, i2 : Sole(d, k2, i2),
           NEW c \in Chunk, NEW k, NEW i, Sole(c, k, i), Covered(c)
    PROVE  (\E k2, i2 : Sole(c, k2, i2)') /\ Covered(c)'
<1>0. PICK g : g = hold[t]
  OBVIOUS
<1>1. /\ free' = free /\ spare' = spare /\ lost' = lost /\ trail' = trail
      /\ Cells(hold'[t]) = {}
      /\ \A u \in Threads : u # t => hold'[u] = hold[u]
  BY EmptyCells DEF Finish, Shape, TypeOK
<1>2. /\ g.addr \in Nat /\ g.size \in Nat /\ c \in Nat
  BY <1>0, NChunksAssumption DEF Shape, TypeOK, Span, Chunk
<1>3. CASE req[t].op = "palloc"
  <2> DEFINE r == [addr |-> g.addr, size |-> g.size]
  <2>1. huge' = huge \cup {r} /\ arena' = arena /\ base' = base
    BY <1>0, <1>3 DEF Finish
  <2>2. Cells(r) = Cells(g)
    BY DEF Cells
  <2> HIDE DEF r
  <2>3. CASE c \in Cells(g)
    <3>1. Sole(c, "huge", r)' /\ Covered(c)'
      BY <1>0, <1>1, <2>1, <2>2, <2>3 DEF Sole, Covered
    <3> QED
      BY <3>1
  <2>4. CASE c \notin Cells(g)
    <3>1. Sole(c, k, i)' /\ Covered(c)'
      BY <1>0, <1>1, <2>1, <2>2, <2>4 DEF Sole, Covered
    <3> QED
      BY <3>1
  <2> QED
    BY <2>3, <2>4
<1>4. CASE req[t].op = "expand"
  <2>0. PICK r : r = [addr |-> req[t].ptr, size |-> req[t].total]
    OBVIOUS
  <2>1. /\ huge' = {h \in huge : h.addr # req[t].ptr} \cup {r}
        /\ arena' = arena /\ base' = base
    BY <1>4, <2>0 DEF Finish
  <2>2. PICK h \in huge : /\ h.addr = req[t].ptr
                          /\ h.addr + h.size = req[t].at
                          /\ h.size + req[t].size = req[t].total
    BY <1>4 DEF Shape, Resizing
  <2>3. g.addr = req[t].at /\ g.size = req[t].size
    BY <1>0, <1>4 DEF Shape, Resizing, Finish
  <2>4. /\ h.addr \in Nat \ {0} /\ h.size \in Nat \ {0}
        /\ h.addr + h.size <= NChunks + 1
        /\ r.addr = h.addr /\ r.size = h.size + g.size
        /\ g.addr = h.addr + h.size
    BY <2>0, <2>2, <2>3, NChunksAssumption DEF Shape, TypeOK, Inside, Region, Chunk
  <2>5. /\ c \in Cells(r) <=> c \in Cells(h) \/ c \in Cells(g)
    BY <1>2, <2>4 DEF Cells
  <2>6. \A f \in huge : f.addr = req[t].ptr => f = h
    <3> SUFFICES ASSUME NEW f \in huge, f.addr = req[t].ptr PROVE f = h
      OBVIOUS
    <3>1. PICK k2, i2 : Sole(h.addr, k2, i2)
      BY DEF Shape, TypeOK, Region
    <3>2. h.addr \in Cells(h) /\ h.addr \in Cells(f)
      BY <2>2, <2>4, NChunksAssumption DEF Cells, Shape, TypeOK, Region, Chunk
    <3> QED
      BY <3>1, <3>2 DEF Sole
  <2>7. CASE c \in Cells(r)
    <3>1. Sole(c, "huge", r)' /\ Covered(c)'
      BY <1>0, <1>1, <2>1, <2>2, <2>5, <2>6, <2>7 DEF Sole, Covered
    <3> QED
      BY <3>1
  <2>8. CASE c \notin Cells(r)
    <3>1. Sole(c, k, i)' /\ Covered(c)'
      BY <1>0, <1>1, <2>1, <2>2, <2>5, <2>6, <2>8 DEF Sole, Covered
    <3> QED
      BY <3>1
  <2> QED
    BY <2>7, <2>8
<1>5. CASE req[t].op = "arena"
  <2>1. huge' = huge /\ arena' = arena \cup Cells(g) /\ base' = base
    BY <1>0, <1>5 DEF Finish
  <2>2. CASE c \in Cells(g)
    <3>1. Sole(c, "arena", c)' /\ Covered(c)'
      BY <1>0, <1>1, <2>1, <2>2 DEF Sole, Covered
    <3> QED
      BY <3>1
  <2>3. CASE c \notin Cells(g)
    <3>1. Sole(c, k, i)' /\ Covered(c)'
      BY <1>0, <1>1, <2>1, <2>3 DEF Sole, Covered
    <3> QED
      BY <3>1
  <2> QED
    BY <2>2, <2>3
<1>6. CASE req[t].op = "base"
  <2>1. huge' = huge /\ arena' = arena /\ base' = base \cup Cells(g)
    BY <1>0, <1>6 DEF Finish
  <2>2. CASE c \in Cells(g)
    <3>1. Sole(c, "base", c)' /\ Covered(c)'
      BY <1>0, <1>1, <2>1, <2>2 DEF Sole, Covered
    <3> QED
      BY <3>1
  <2>3. CASE c \notin Cells(g)
    <3>1. Sole(c, k, i)' /\ Covered(c)'
      BY <1>0, <1>1, <2>1, <2>3 DEF Sole, Covered
    <3> QED
      BY <3>1
  <2> QED
    BY <2>2, <2>3
<1> QED
  BY <1>3, <1>4, <1>5, <1>6 DEF Finish

\* chunk_record: the range in hand joins its free neighbours.
LEMMA RecordHolders ==
    ASSUME Shape, NEW t \in Threads, Record(t),
           NEW c \in Chunk, NEW k, NEW i, Sole(c, k, i), Covered(c)
    PROVE  (\E k2, i2 : Sole(c, k2, i2)') /\ Covered(c)'
<1>0. PICK g : g = hold[t]
  OBVIOUS
<1>1. /\ huge' = huge /\ arena' = arena /\ spare' = spare /\ base' = base
      /\ trail' = trail
      /\ Cells(hold'[t]) = {}
      /\ \A u \in Threads : u # t => hold'[u] = hold[u]
  BY EmptyCells DEF Record, Shape, TypeOK
<1>2. /\ g.addr \in Nat /\ g.size \in Nat /\ c \in Nat
      /\ \A f \in free : f.addr \in Nat /\ f.size \in Nat
  BY <1>0, NChunksAssumption DEF Shape, TypeOK, Span, Extent, Chunk
<1>3. ASSUME NEW gone \in SUBSET free, NEW j,
             free' = (free \ gone) \cup {j}, lost' = lost,
             c \in Cells(j) <=>
                c \in Cells(g) \/ \E f \in gone : c \in Cells(f)
      PROVE  (\E k2, i2 : Sole(c, k2, i2)') /\ Covered(c)'
  <2>1. CASE c \in Cells(j)
    <3>1. Sole(c, "free", j)' /\ Covered(c)'
      BY <1>0, <1>1, <1>3, <2>1 DEF Sole, Covered
    <3> QED
      BY <3>1
  <2>2. CASE c \notin Cells(j)
    <3>1. Sole(c, k, i)' /\ Covered(c)'
      BY <1>0, <1>1, <1>3, <2>2 DEF Sole, Covered
    <3> QED
      BY <3>1
  <2> QED
    BY <2>1, <2>2
<1>4. ASSUME NEW n \in After(g), NEW p \in Before(g), lost' = lost,
             free' = (free \ {n, p}) \cup
                        {Joined(p.addr, p.size + g.size + n.size)}
      PROVE  (\E k2, i2 : Sole(c, k2, i2)') /\ Covered(c)'
  <2> DEFINE j == Joined(p.addr, p.size + g.size + n.size)
  <2>1. c \in Cells(j) <=> c \in Cells(g) \/ \E f \in {n, p} : c \in Cells(f)
    BY <1>2 DEF After, Before, Joined, Cells
  <2>2. {n, p} \in SUBSET free
    BY DEF After, Before
  <2> HIDE DEF j
  <2> QED
    BY <1>3, <1>4, <2>1, <2>2 DEF j
<1>5. ASSUME NEW n \in After(g), lost' = lost,
             free' = (free \ {n}) \cup {Joined(g.addr, g.size + n.size)}
      PROVE  (\E k2, i2 : Sole(c, k2, i2)') /\ Covered(c)'
  <2> DEFINE j == Joined(g.addr, g.size + n.size)
  <2>1. c \in Cells(j) <=> c \in Cells(g) \/ \E f \in {n} : c \in Cells(f)
    BY <1>2 DEF After, Joined, Cells
  <2>2. {n} \in SUBSET free
    BY DEF After
  <2> HIDE DEF j
  <2> QED
    BY <1>3, <1>5, <2>1, <2>2 DEF j
<1>6. ASSUME NEW p \in Before(g), lost' = lost,
             free' = (free \ {p}) \cup {Joined(p.addr, p.size + g.size)}
      PROVE  (\E k2, i2 : Sole(c, k2, i2)') /\ Covered(c)'
  <2> DEFINE j == Joined(p.addr, p.size + g.size)
  <2>1. c \in Cells(j) <=> c \in Cells(g) \/ \E f \in {p} : c \in Cells(f)
    BY <1>2 DEF Before, Joined, Cells
  <2>2. {p} \in SUBSET free
    BY DEF Before
  <2> HIDE DEF j
  <2> QED
    BY <1>3, <1>6, <2>1, <2>2 DEF j
<1>7. CASE lost' = lost /\ free' = free \cup {Joined(g.addr, g.size)}
  <2> DEFINE j == Joined(g.addr, g.size)
  <2>1. c \in Cells(j) <=> c \in Cells(g) \/ \E f \in {} : c \in Cells(f)
    BY <1>2 DEF Joined, Cells
  <2>2. free' = (free \ {}) \cup {j} /\ {} \in SUBSET free
    BY <1>7
  <2> HIDE DEF j
  <2> QED
    BY <1>3, <1>7, <2>1, <2>2
<1>8. CASE free' = free /\ lost' = lost \cup Cells(g)
  <2>1. CASE c \in Cells(g)
    <3>1. Sole(c, "lost", c)' /\ Covered(c)'
      BY <1>0, <1>1, <1>8, <2>1 DEF Sole, Covered
    <3> QED
      BY <3>1
  <2>2. CASE c \notin Cells(g)
    <3>1. Sole(c, k, i)' /\ Covered(c)'
      BY <1>0, <1>1, <1>8, <2>2 DEF Sole, Covered
    <3> QED
      BY <3>1
  <2> QED
    BY <2>1, <2>2
<1>9. \/ \E n \in After(g), p \in Before(g) :
            /\ lost' = lost
            /\ free' = (free \ {n, p}) \cup
                         {Joined(p.addr, p.size + g.size + n.size)}
      \/ \E n \in After(g) :
            /\ lost' = lost
            /\ free' = (free \ {n}) \cup {Joined(g.addr, g.size + n.size)}
      \/ \E p \in Before(g) :
            /\ lost' = lost
            /\ free' = (free \ {p}) \cup {Joined(p.addr, p.size + g.size)}
      \/ lost' = lost /\ free' = free \cup {Joined(g.addr, g.size)}
      \/ free' = free /\ lost' = lost \cup Cells(g)
  BY <1>0 DEF Record
<1> QED
  BY <1>4, <1>5, <1>6, <1>7, <1>8, <1>9

\* Each chunk has one holder, whoever takes the step.
OneHolder == \A c \in Chunk : (\E k, i : Sole(c, k, i)) /\ Covered(c)

LEMMA InitHolder == Init => OneHolder
<1> SUFFICES ASSUME Init, NEW c \in Chunk
             PROVE  (\E k, i : Sole(c, k, i)) /\ Covered(c)
  BY DEF OneHolder
<1> DEFINE e == [addr |-> 1, size |-> NChunks, zeroed |-> ZeroInit]
<1>1. c \in Cells(e)
  BY NChunksAssumption DEF Cells, Chunk
<1>2. \A u \in Threads : Cells(hold[u]) = {} /\ Cells(trail[u]) = {}
  BY EmptyCells DEF Init
<1> HIDE DEF e
<1>3. free = {e} /\ huge = {} /\ arena = {} /\ spare = {} /\ base = {} /\ lost = {}
  BY DEF Init, e
<1>4. Sole(c, "free", e) /\ Covered(c)
  BY <1>1, <1>2, <1>3 DEF Sole, Covered
<1> QED
  BY <1>4

LEMMA HolderStep == Shape /\ OneHolder /\ [Next]_vars => OneHolder'
<1> SUFFICES ASSUME Shape, OneHolder, [Next]_vars, NEW c \in Chunk
             PROVE  (\E k2, i2 : Sole(c, k2, i2)') /\ Covered(c)'
  BY DEF OneHolder
<1>1. PICK k, i : Sole(c, k, i) /\ Covered(c)
  BY DEF OneHolder
<1>2. CASE UNCHANGED <<lists, hold, trail>>
  BY <1>1, <1>2, HoldersStay
<1>3. CASE Next
  <2>1. PICK t \in Threads : Enter(t) \/ Step(t)
    BY <1>3 DEF Next
  <2>2. CASE \E s \in Sizes, a \in Aligns, z \in BOOLEAN : HugePalloc(t, s, a, z)
    BY <1>2, <2>2 DEF HugePalloc
  <2>3. CASE \E h \in huge, s \in Sizes : HugeExpand(t, h, s)
    BY <1>2, <2>3 DEF HugeExpand
  <2>4. CASE \E h \in huge, s \in Sizes : HugeShrink(t, h, s)
    BY <1>1, <2>4, ShrinkHolders
  <2>5. CASE \E h \in huge : HugeDalloc(t, h)
    BY <1>1, <2>5, DallocHolders
  <2>6. CASE ArenaChunkAlloc(t)
    BY <1>1, <2>6, ArenaAllocHolders
  <2>7. CASE \E d \in arena : ArenaChunkDalloc(t, d)
    BY <1>1, <2>7, ArenaDallocHolders
  <2>8. CASE BasePagesAlloc(t) \/ SpareNode(t) \/ Register(t) \/ Uncount(t)
               \/ RecordNode(t) \/ Return(t)
    BY <1>2, <2>8
    DEF BasePagesAlloc, SpareNode, Register, Uncount, RecordNode, Return
  <2>9. CASE Recycle(t)
    BY <1>1, <2>9, RecycleHolders
  <2>10. CASE TrailNode(t)
    BY <1>1, <2>10, TrailNodeHolders
  <2>11. CASE InsertTrail(t)
    BY <1>1, <2>11, InsertTrailHolders
  <2>12. CASE Finish(t)
    BY <1>1, <2>12, FinishHolders DEF OneHolder
  <2>13. CASE Record(t)
    BY <1>1, <2>13, RecordHolders
  <2> QED
    BY <2>1, <2>2, <2>3, <2>4, <2>5, <2>6, <2>7, <2>8, <2>9, <2>10, <2>11,
       <2>12, <2>13 DEF Enter, Step
<1> QED
  BY <1>2, <1>3 DEF vars, locals

\* However many threads allocate, resize and free at once, a chunk of the
\* pool is never in two free extents, two allocations, or one of each.
THEOREM NoChunkTwice == Spec => []NeverTwice
<1>1. Init => Shape /\ OneHolder
  BY InitShape, InitHolder
<1>2. Shape /\ OneHolder /\ [Next]_vars => (Shape /\ OneHolder)'
  BY ShapeStep, HolderStep
<1>3. Shape /\ OneHolder => NeverTwice
  BY NeverTwiceFromSole DEF OneHolder
<1> QED
  BY <1>1, <1>2, <1>3, PTL DEF Spec

\* A chunk that leaves a list goes to another, to a thread's hands, or into
\* the leak of chunk_record and chunk_recycle: nowhere else is one dropped.
THEOREM NoChunkVanishes == Spec => []AllHeld
<1>1. Init => Shape /\ OneHolder
  BY InitShape, InitHolder
<1>2. Shape /\ OneHolder /\ [Next]_vars => (Shape /\ OneHolder)'
  BY ShapeStep, HolderStep
<1>3. Shape /\ OneHolder => AllHeld
  BY AllHeldFromCovered DEF OneHolder
<1> QED
  BY <1>1, <1>2, <1>3, PTL DEF Spec

(***************************************************************************)
(* Zeroed memory                                                           *)
(***************************************************************************)

Clean(e) == e.zeroed => Cells(e) \cap dirty = {}

\* The zeroed flag of a range is right wherever the range is: in a tree, or
\* in a thread's locals while no lock protects it.
FlagsRight ==
    /\ \A e \in free : Clean(e)
    /\ \A t \in Threads : Clean(hold[t]) /\ Clean(trail[t])

LEMMA InitFlags == Init => FlagsRight /\ ZeroDelivered
  BY DEF Init, FlagsRight, ZeroDelivered, Clean, NoSpan

\* The parts chunk_recycle splits an extent into lie in it.
LEMMA RecycleParts ==
    ASSUME Shape, NEW t \in Threads, Recycle(t), Candidates(req[t]) # {}
    PROVE  \E e \in free :
              /\ hold'[t].zeroed = e.zeroed
              /\ Cells(hold'[t]) \subseteq Cells(e)
              /\ trail'[t].zeroed => trail'[t] = trail[t] \/
                    (e.zeroed /\ Cells(trail'[t]) \subseteq Cells(e))
              /\ \A f \in free' : f \in free \/
                    (f.zeroed = e.zeroed /\ Cells(f) \subseteq Cells(e))
<1>1. PICK e \in Candidates(req[t]) : RecycleFrom(t, e)
  BY DEF Recycle
<1> DEFINE r == req[t]
           ret == AlignUp(e.addr, r.align)
           lead == ret - e.addr
           rest == e.size - lead - r.size
           front == [addr |-> e.addr, size |-> lead, zeroed |-> e.zeroed]
           got == [addr |-> ret, size |-> r.size, zeroed |-> e.zeroed]
           back == [addr |-> ret + r.size, size |-> rest, zeroed |-> e.zeroed]
<1>2. e \in free /\ e \in Extent /\ r \in Request
  BY DEF Candidates, Nsearch, Shape, TypeOK
<1>3. /\ ret \in Nat /\ e.addr <= ret /\ ret + r.size <= e.addr + e.size
      /\ e.addr \in Nat /\ e.size \in Nat /\ r.size \in Nat
  BY <1>1, <1>2, RecycleFits, NChunksAssumption DEF Request, Extent, Chunk
<1>4. /\ hold' = [hold EXCEPT ![t] = got]
      /\ trail' = trail \/ trail' = [trail EXCEPT ![t] = back]
      /\ \/ free' = free \ {e}
         \/ free' = (free \ {e}) \cup {back}
         \/ free' = (free \ {e}) \cup {front}
  BY <1>1 DEF RecycleFrom
<1> HIDE DEF ret
<1>5. /\ Cells(front) \subseteq Cells(e)
      /\ Cells(got) \subseteq Cells(e)
      /\ Cells(back) \subseteq Cells(e)
  BY <1>3 DEF Cells
<1>6. front.zeroed = e.zeroed /\ got.zeroed = e.zeroed /\ back.zeroed = e.zeroed
  OBVIOUS
<1> HIDE DEF front, got, back
<1>7. hold'[t] = got /\ (trail'[t] = trail[t] \/ trail'[t] = back)
  BY <1>4 DEF Shape, TypeOK
<1>8. \A f \in free' : f \in free \/ f = back \/ f = front
  BY <1>4
<1> QED
  BY <1>2, <1>5, <1>6, <1>7, <1>8

\* Only the owner of a range writes to it, and no other range has its cells.
LEMMA FinishClean ==
    ASSUME Shape, NeverTwice, FlagsRight, ZeroDelivered,
           NEW t \in Threads, Finish(t)
    PROVE  (FlagsRight /\ ZeroDelivered)'
<1> DEFINE g == Cells(hold[t])
<1>1. /\ dirty' = dirty \cup g /\ free' = free /\ trail' = trail
      /\ hold' = [hold EXCEPT ![t] = NoSpan]
      /\ pc' \in {[pc EXCEPT ![t] = "unlink"], [pc EXCEPT ![t] = "idle"]}
      /\ \A u \in Threads \ {t} : req'[u] = req[u]
  BY DEF Finish, Goto, Shape, TypeOK
<1>2. g \subseteq Chunk
  <2>1. hold[t] \in Extent /\ hold[t].addr + hold[t].size <= NChunks + 1
    BY DEF Shape, Locals, Carrying, Finish
  <2> QED
    BY <2>1, NChunksAssumption DEF Cells, Extent, Chunk
<1>3. \A e \in free : Cells(e) \cap g = {}
  <2> SUFFICES ASSUME NEW e \in free, NEW c \in Cells(e), c \in g
               PROVE  FALSE
    OBVIOUS
  <2>1. c \in Chunk /\ <<"free", e>> \in Holders(c) /\ <<"hold", t>> \in Holders(c)
    BY <1>2 DEF Holders
  <2> QED
    BY <2>1 DEF NeverTwice
<1>4. \A u \in Threads \ {t} : Cells(hold[u]) \cap g = {}
  <2> SUFFICES ASSUME NEW u \in Threads \ {t}, NEW c \in Cells(hold[u]), c \in g
               PROVE  FALSE
    OBVIOUS
  <2>1. c \in Chunk /\ <<"hold", u>> \in Holders(c) /\ <<"hold", t>> \in Holders(c)
    BY <1>2 DEF Holders
  <2> QED
    BY <2>1 DEF NeverTwice
<1>5. \A u \in Threads : Cells(trail[u]) \cap g = {}
  <2> SUFFICES ASSUME NEW u \in Threads, NEW c \in Cells(trail[u]), c \in g
               PROVE  FALSE
    OBVIOUS
  <2>1. c \in Chunk /\ <<"trail", u>> \in Holders(c) /\ <<"hold", t>> \in Holders(c)
    BY <1>2 DEF Holders
  <2> QED
    BY <2>1 DEF NeverTwice
<1> HIDE DEF g
<1>6. \A u \in Threads : u # t => hold'[u] = hold[u] /\ pc'[u] = pc[u]
  BY <1>1 DEF Shape, TypeOK
<1>7. hold'[t] = NoSpan /\ pc'[t] # "finish"
  BY <1>1 DEF Shape, TypeOK
<1>8. FlagsRight'
  BY <1>1, <1>3, <1>4, <1>5, <1>6, <1>7 DEF FlagsRight, Clean, NoSpan
<1>9. ZeroDelivered'
  BY <1>1, <1>4, <1>6, <1>7 DEF ZeroDelivered
<1> QED
  BY <1>8, <1>9

LEMMA FlagsStep ==
    Shape /\ NeverTwice /\ FlagsRight /\ ZeroDelivered /\ [Next]_vars
        => (FlagsRight /\ ZeroDelivered)'
<1> SUFFICES ASSUME Shape, NeverTwice, FlagsRight, ZeroDelivered, [Next]_vars
             PROVE  (FlagsRight /\ ZeroDelivered)'
  OBVIOUS
<1>0. /\ hold \in [Threads -> Span] /\ trail \in [Threads -> Span]
      /\ pc \in [Threads -> Labels] /\ req \in [Threads -> Request]
  BY DEF Shape, TypeOK
<1>1. ASSUME dirty' \subseteq dirty, \A e \in free' : e \in free \/ ~e.zeroed,
             \A u \in Threads : hold'[u] = hold[u] \/ ~hold'[u].zeroed,
             \A u \in Threads : trail'[u] = trail[u] \/ ~trail'[u].zeroed
      PROVE  FlagsRight'
  BY <1>1 DEF FlagsRight, Clean
<1>2. ASSUME dirty' \subseteq dirty, NEW t \in Threads, pc'[t] # "finish",
             \A u \in Threads : u # t =>
                hold'[u] = hold[u] /\ pc'[u] = pc[u] /\ req'[u] = req[u]
      PROVE  ZeroDelivered'
  BY <1>2 DEF ZeroDelivered
<1>3. CASE UNCHANGED vars
  <2>1. FlagsRight'
    BY <1>1, <1>3 DEF vars, lists, locals
  <2>2. ZeroDelivered'
    BY <1>3 DEF vars, locals, ZeroDelivered
  <2> QED
    BY <2>1, <2>2
<1>4. CASE Next
  <2>1. PICK t \in Threads : Enter(t) \/ Step(t)
    BY <1>4 DEF Next
  <2>2. CASE Enter(t) \/ Uncount(t) \/ RecordNode(t) \/ SpareNode(t) \/ Return(t)
    <3>1. /\ dirty' = dirty /\ free' = free /\ trail' = trail
          /\ \A u \in Threads : hold'[u] = hold[u] \/ ~hold'[u].zeroed
      BY <1>0, <2>2
      DEF Enter, HugePalloc, HugeExpand, HugeShrink, HugeDalloc, ArenaChunkAlloc,
          ArenaChunkDalloc, BasePagesAlloc, Uncount, RecordNode, SpareNode, Return,
          lists, counts
    <3>2. /\ pc'[t] # "finish"
          /\ \A u \in Threads : u # t =>
                hold'[u] = hold[u] /\ pc'[u] = pc[u] /\ req'[u] = req[u]
      BY <1>0, <2>2
      DEF Enter, HugePalloc, HugeExpand, HugeShrink, HugeDalloc, ArenaChunkAlloc,
          ArenaChunkDalloc, BasePagesAlloc, Uncount, RecordNode, SpareNode, Return,
          Goto, lists, counts
    <3> QED
      BY <1>1, <1>2, <3>1, <3>2
  <2>3. CASE Recycle(t) /\ Candidates(req[t]) = {}
    <3>1. /\ dirty' = dirty /\ free' = free /\ trail' = trail /\ hold' = hold
          /\ pc' = [pc EXCEPT ![t] = "return"] /\ req' = req
      BY <2>3 DEF Recycle, Goto
    <3> QED
      BY <1>0, <1>1, <1>2, <3>1
  <2>4. CASE Recycle(t) /\ Candidates(req[t]) # {}
    <3>1. PICK e \in free :
              /\ hold'[t].zeroed = e.zeroed
              /\ Cells(hold'[t]) \subseteq Cells(e)
              /\ trail'[t].zeroed => trail'[t] = trail[t] \/
                    (e.zeroed /\ Cells(trail'[t]) \subseteq Cells(e))
              /\ \A f \in free' : f \in free \/
                    (f.zeroed = e.zeroed /\ Cells(f) \subseteq Cells(e))
      BY <2>4, RecycleParts
    <3>2. /\ dirty' = dirty /\ req' = req /\ pc'[t] # "finish"
          /\ \A u \in Threads : u # t =>
                hold'[u] = hold[u] /\ trail'[u] = trail[u] /\ pc'[u] = pc[u]
      BY <1>0, <2>4 DEF Recycle, RecycleFrom, Goto
    <3>3. FlagsRight'
      BY <3>1, <3>2 DEF FlagsRight, Clean
    <3> QED
      BY <1>2, <3>2, <3>3
  <2>5. CASE TrailNode(t)
    <3>1. /\ dirty' = dirty /\ free' = free /\ hold' = hold /\ req' = req
          /\ \A u \in Threads : trail'[u] = trail[u] \/ ~trail'[u].zeroed
          /\ pc'[t] # "finish" /\ \A u \in Threads : u # t => pc'[u] = pc[u]
      BY <1>0, <2>5 DEF TrailNode, Goto, NoSpan
    <3> QED
      BY <1>1, <1>2, <3>1
  <2>6. CASE InsertTrail(t)
    <3>1. /\ dirty' = dirty /\ hold' = hold /\ req' = req
          /\ free' = free \cup {trail[t]}
          /\ \A u \in Threads : trail'[u] = trail[u] \/ ~trail'[u].zeroed
          /\ pc'[t] # "finish" /\ \A u \in Threads : u # t => pc'[u] = pc[u]
      BY <1>0, <2>6 DEF InsertTrail, Goto, NoSpan
    <3>2. FlagsRight'
      BY <3>1 DEF FlagsRight, Clean
    <3> QED
      BY <1>2, <3>1, <3>2
  <2>7. CASE Register(t)
    <3>1. /\ dirty' \subseteq dirty /\ free' = free /\ hold' = hold
          /\ trail' = trail /\ req' = req
          /\ req[t].zero /\ ~hold[t].zeroed => dirty' = dirty \ Cells(hold[t])
          /\ \A u \in Threads : u # t => pc'[u] = pc[u]
      BY <1>0, <2>7 DEF Register, Goto, lists
    <3>2. FlagsRight'
      BY <1>1, <3>1
    <3>3. ZeroDelivered'
      BY <3>1 DEF ZeroDelivered, FlagsRight, Clean
    <3> QED
      BY <3>2, <3>3
  <2>8. CASE Finish(t)
    BY <2>8, FinishClean
  <2>9. CASE Record(t)
    <3>1. /\ dirty' = dirty /\ trail' = trail /\ req' = req
          /\ \A u \in Threads : hold'[u] = hold[u] \/ ~hold'[u].zeroed
          /\ pc'[t] # "finish"
          /\ \A u \in Threads : u # t => pc'[u] = pc[u] /\ hold'[u] = hold[u]
      BY <1>0, <2>9 DEF Record, Goto, NoSpan
    <3>2. \A e \in free' : e \in free \/ ~e.zeroed
      BY <2>9 DEF Record, Joined
    <3> QED
      BY <1>1, <1>2, <3>1, <3>2
  <2> QED
    BY <2>1, <2>2, <2>3, <2>4, <2>5, <2>6, <2>7, <2>8, <2>9 DEF Step
<1> QED
  BY <1>3, <1>4

LEMMA FlagsKept == Spec => [](Shape /\ FlagsRight /\ ZeroDelivered)
<1> DEFINE I == Shape /\ OneHolder /\ FlagsRight /\ ZeroDelivered
<1>1. Init => I
  BY InitShape, InitHolder, InitFlags
<1>2. I /\ [Next]_vars => I'
  <2>1. Shape /\ OneHolder => NeverTwice
    BY NeverTwiceFromSole DEF OneHolder
  <2> QED
    BY <2>1, ShapeStep, HolderStep, FlagsStep
<1> QED
  BY <1>1, <1>2, PTL DEF Spec

\* Memory asked for with zero = true holds no old bytes when chunk_recycle
\* hands it over, whether it was cleared or the zeroed flag, carried through
\* every split while the locks were dropped, said it need not be.
THEOREM ZeroedOnDemand == Spec => []ZeroDelivered
  BY FlagsKept, PTL

\* je_pool_check finds every free extent in order, whenever it looks.
LEMMA FreeExtentsSound == Spec => []FreeSound
<1>1. Shape /\ FlagsRight => FreeSound
  <2> SUFFICES ASSUME Shape, FlagsRight, NEW e \in free
               PROVE  /\ e.size # 0
                      /\ e.zeroed => Cells(e) \cap dirty = {}
                      /\ Cells(e) \subseteq Chunk
    BY DEF FreeSound
  <2>1. e \in Extent /\ e.addr + e.size <= NChunks + 1
    BY DEF Shape, TypeOK, Inside
  <2>2. Cells(e) \subseteq Chunk /\ e.size # 0
    BY <2>1, NChunksAssumption DEF Cells, Extent, Chunk
  <2> QED
    BY <2>2 DEF FlagsRight, Clean
<1> QED
  BY <1>1, FlagsKept, PTL

(***************************************************************************)
(* Chunks implements Heap                                                  *)
(***************************************************************************)

Single(c) == [addr |-> c, size |-> 1]

AllExact == \A t \in Threads : Exact(t)

LEMMA InitExact == Init => AllExact
  BY DEF Init, AllExact, Exact, NoRequest, Call

LEMMA ExactStep == Shape /\ AllExact /\ [Next]_vars => AllExact'
<1> SUFFICES ASSUME Shape, AllExact, [Next]_vars, NEW u \in Threads
             PROVE  Exact(u)'
  BY DEF AllExact
<1> USE DEF AllExact, Exact, Shape, TypeOK, Goto, Call, NoRequest, lists, counts
<1>1. CASE UNCHANGED vars
  BY <1>1 DEF vars, locals
<1>2. CASE Next
  <2>1. PICK t \in Threads : Enter(t) \/ Step(t)
    BY <1>2 DEF Next
  <2>2. CASE Enter(t)
    BY <2>2 DEF Enter, HugePalloc, HugeExpand, HugeShrink, HugeDalloc,
                ArenaChunkAlloc, ArenaChunkDalloc, BasePagesAlloc
  <2>3. CASE Recycle(t)
    <3>1. CASE Candidates(req[t]) = {}
      BY <2>3, <3>1 DEF Recycle
    <3>2. CASE Candidates(req[t]) # {}
      <4>1. PICK e \in free, front, got, back \in Span :
               Split(t, e, front, got, back)
        BY <2>3, <3>2, RecycleSplits
      <4> QED
        BY <2>3, <4>1 DEF Recycle, Split
    <3> QED
      BY <3>1, <3>2
  <2>4. CASE Finish(t)
    BY <2>4 DEF Finish
  <2>5. CASE Record(t)
    BY <2>5 DEF Record
  <2>6. CASE TrailNode(t) \/ InsertTrail(t) \/ SpareNode(t) \/ Register(t)
    BY <2>6 DEF TrailNode, InsertTrail, SpareNode, Register
  <2>7. CASE Uncount(t) \/ RecordNode(t) \/ Return(t)
    BY <2>7 DEF Uncount, RecordNode, Return
  <2> QED
    BY <2>1, <2>2, <2>3, <2>4, <2>5, <2>6, <2>7 DEF Step
<1> QED
  BY <1>1, <1>2

(***************************************************************************)
(* The regions in use                                                      *)
(***************************************************************************)

LEMMA LiveTypes ==
    ASSUME Shape, NEW r \in Live
    PROVE  /\ r \in Region /\ r.addr \in Nat /\ r.size \in Nat
           /\ r.addr \in Cells(r) /\ Cells(r) \subseteq Chunk
           /\ r \in huge \/ \E d \in arena \cup spare \cup base : r = Single(d)
<1>1. CASE r \in huge
  BY <1>1, CellsInside, NChunksAssumption
  DEF Shape, TypeOK, Inside, Region, Chunk, Cells
<1>2. CASE \E d \in arena \cup spare \cup base : r = Single(d)
  <2>1. PICK d \in arena \cup spare \cup base : r = Single(d)
    BY <1>2
  <2>2. d \in Chunk /\ r.addr = d /\ r.size = 1
    BY <2>1 DEF Shape, TypeOK, Single
  <2>3. r \in Region
    BY <2>1, <2>2, NChunksAssumption DEF Single, Region, Chunk
  <2>4. r.addr \in Cells(r) /\ Cells(r) \subseteq Chunk
    BY <2>2, NChunksAssumption DEF Cells, Chunk
  <2> QED
    BY <2>1, <2>2, <2>3, <2>4, NChunksAssumption DEF Chunk
<1> QED
  BY <1>1, <1>2 DEF Live, Single

\* A chunk of a single region is that region's only one.
LEMMA SingleCells ==
    ASSUME NEW d \in Chunk, NEW c \in Cells(Single(d))
    PROVE  c = d
  BY NChunksAssumption DEF Cells, Single, Chunk

LEMMA LiveSeparate ==
    ASSUME Shape, OneHolder, NEW r \in Live, NEW s \in Live, NEW c,
           c \in Cells(r), c \in Cells(s)
    PROVE  r = s
<1>1. c \in Chunk
  BY LiveTypes
<1>2. PICK k, i : Sole(c, k, i)
  BY <1>1 DEF OneHolder
<1>3. \A q \in Live : c \in Cells(q) =>
         (q \in huge /\ k = "huge" /\ i = q) \/ (q = Single(c) /\ k # "huge")
  <2> SUFFICES ASSUME NEW q \in Live, c \in Cells(q)
               PROVE  (q \in huge /\ k = "huge" /\ i = q)
                         \/ (q = Single(c) /\ k # "huge")
    OBVIOUS
  <2>1. CASE q \in huge
    BY <1>2, <2>1 DEF Sole
  <2>2. CASE \E d \in arena \cup spare \cup base : q = Single(d)
    <3>1. PICK d \in arena \cup spare \cup base : q = Single(d)
      BY <2>2
    <3>2. c = d
      BY <3>1, SingleCells DEF Shape, TypeOK
    <3> QED
      BY <1>2, <3>1, <3>2 DEF Sole
  <2> QED
    BY <2>1, <2>2, LiveTypes
<1> QED
  BY <1>3

LEMMA HugeNotSingle ==
    ASSUME Shape, OneHolder, NEW h \in huge, NEW d \in arena \cup spare \cup base
    PROVE  h # Single(d)
<1> SUFFICES ASSUME h = Single(d) PROVE FALSE
  OBVIOUS
<1>1. d \in Chunk /\ d \in Cells(h)
  BY NChunksAssumption DEF Shape, TypeOK, Single, Cells, Chunk
<1>2. PICK k, i : Sole(d, k, i)
  BY <1>1 DEF OneHolder
<1> QED
  BY <1>1, <1>2 DEF Sole

LEMMA SinglesApart ==
    ASSUME Shape, OneHolder, NEW x \in spare
    PROVE  x \notin arena /\ x \notin base
<1>1. PICK k, i : Sole(x, k, i)
  BY DEF OneHolder, Shape, TypeOK
<1> QED
  BY <1>1 DEF Sole

LEMMA HoldNotLive ==
    ASSUME Shape, OneHolder, NEW t \in Threads, NEW r \in Live, NEW c,
           c \in Cells(hold[t]), c \in Cells(r)
    PROVE  FALSE
<1>1. c \in Chunk
  BY LiveTypes
<1>2. PICK k, i : Sole(c, k, i)
  BY <1>1 DEF OneHolder
<1>3. CASE r \in huge
  BY <1>2, <1>3 DEF Sole
<1>4. CASE \E d \in arena \cup spare \cup base : r = Single(d)
  <2>1. PICK d \in arena \cup spare \cup base : r = Single(d)
    BY <1>4
  <2>2. c = d
    BY <2>1, SingleCells DEF Shape, TypeOK
  <2> QED
    BY <1>2, <2>1, <2>2 DEF Sole
<1> QED
  BY <1>3, <1>4, LiveTypes

(***************************************************************************)
(* One lemma per action that callers can see                               *)
(***************************************************************************)

LEMMA ShrinkIsResize ==
    ASSUME Shape, OneHolder, NEW t \in Threads, NEW h \in huge, NEW n \in Sizes,
           HugeShrink(t, h, n)
    PROVE  Promise!Next
<1> DEFINE r == [addr |-> h.addr, size |-> n]
<1>1. /\ huge' = (huge \ {h}) \cup {r} /\ arena' = arena /\ spare' = spare
      /\ base' = base
  BY DEF HugeShrink
<1>2. h \in Live /\ h \in Region /\ r \in Region /\ Cells(r) \subseteq Cells(h)
      /\ Cells(h) \subseteq Chunk
  <2>1. h \in Live
    BY DEF Live
  <2>2. n \in Chunk /\ n < h.size
    BY SizesAssumption DEF HugeShrink, Chunk
  <2>3. h \in Region /\ h.addr \in Nat /\ h.size \in Nat /\ Cells(h) \subseteq Chunk
    BY <2>1, LiveTypes
  <2>4. r \in Region
    BY <2>2, <2>3 DEF Region
  <2>5. Cells(r) \subseteq Cells(h)
    BY <2>2, <2>3, NChunksAssumption DEF Cells, Chunk
  <2> QED
    BY <2>1, <2>3, <2>4, <2>5
<1>3. Live' = (Live \ {h}) \cup {r}
  BY <1>1, HugeNotSingle DEF Live, Single
<1>4. \A q \in Live \ {h} : Cells(r) \cap Cells(q) = {}
  BY <1>2, LiveSeparate
<1>5. r.addr = h.addr
  OBVIOUS
<1> HIDE DEF r
<1>6. Promise!Resize(h, r)
  BY <1>2, <1>3, <1>4, <1>5
  DEF Promise!Resize, Promise!Disjoint, Promise!Cells, Cells
<1> QED
  BY <1>2, <1>6 DEF Promise!Next, Promise!Region, Region

LEMMA DallocIsFree ==
    ASSUME Shape, OneHolder, NEW t \in Threads, NEW h \in huge, HugeDalloc(t, h)
    PROVE  Promise!Next
<1>1. /\ huge' = huge \ {h} /\ arena' = arena /\ spare' = spare /\ base' = base
  BY DEF HugeDalloc
<1>2. h \in Live /\ h \in Region
  BY DEF Live, Shape, TypeOK
<1>3. Live' = Live \ {h}
  BY <1>1, HugeNotSingle DEF Live, Single
<1>4. Promise!Free(h)
  BY <1>2, <1>3 DEF Promise!Free
<1> QED
  BY <1>2, <1>4 DEF Promise!Next, Promise!Region, Region

LEMMA ArenaDallocIsFree ==
    ASSUME Shape, OneHolder, NEW t \in Threads, NEW d \in arena,
           ArenaChunkDalloc(t, d)
    PROVE  Promise!Next \/ Live' = Live
<1>1. /\ huge' = huge /\ base' = base /\ arena' = arena \ {d} /\ spare' = {d}
  BY DEF ArenaChunkDalloc
<1>2. CASE spare = {}
  <2>1. arena' \cup spare' \cup base' = arena \cup spare \cup base
    BY <1>1, <1>2
  <2> QED
    BY <1>1, <2>1 DEF Live
<1>3. CASE spare # {}
  <2>1. PICK x : x \in spare
    BY <1>3
  <2>2. spare = {x}
    BY <2>1 DEF Shape, OneSpare
  <2>3. x \notin arena /\ x \notin base /\ x # d
    BY <2>1, SinglesApart
  <2>4. arena' \cup spare' \cup base' = (arena \cup spare \cup base) \ {x}
    BY <1>1, <2>2, <2>3
  <2>5. \A y, z : Single(y) = Single(z) => y = z
    <3>1. \A y : Single(y).addr = y
      BY DEF Single
    <3> QED
      BY <3>1
  <2>6. Single(x) \in Live /\ Single(x) \notin huge
    BY <2>1, HugeNotSingle DEF Live, Single
  <2>7. Live' = Live \ {Single(x)}
    <3>1. Live' = huge \cup {Single(y) : y \in (arena \cup spare \cup base) \ {x}}
      BY <1>1, <2>4 DEF Live, Single
    <3>2. Live = huge \cup {Single(y) : y \in arena \cup spare \cup base}
      BY DEF Live, Single
    <3> QED
      BY <3>1, <3>2, <2>5, <2>6
  <2>8. Single(x) \in Region
    BY <2>6, LiveTypes
  <2>9. Promise!Free(Single(x))
    BY <2>6, <2>7 DEF Promise!Free
  <2> QED
    BY <2>8, <2>9 DEF Promise!Next, Promise!Region, Region
<1> QED
  BY <1>2, <1>3

LEMMA FinishIsAlloc ==
    ASSUME Shape, OneHolder, AllExact, NEW t \in Threads, Finish(t)
    PROVE  Promise!Next
<1> DEFINE g == hold[t]
<1>1. /\ g \in Extent /\ Cells(g) \subseteq Chunk
      /\ g.addr \in Nat \ {0} /\ g.size \in Nat \ {0}
      /\ g.addr + g.size <= NChunks + 1 /\ g.size = req[t].size
  BY CellsInside, NChunksAssumption
  DEF Finish, Shape, Locals, Carrying, Extent, Chunk, Cells, AllExact, Exact
<1>2. spare' = spare
  BY DEF Finish
<1>3. ASSUME NEW r \in Region, Cells(r) = Cells(g), Live' = Live \cup {r}
      PROVE  Promise!Next
  <2>1. \A q \in Live : Cells(r) \cap Cells(q) = {}
    BY <1>3, HoldNotLive
  <2>2. Promise!Alloc(r)
    BY <1>1, <1>3, <2>1
    DEF Promise!Alloc, Promise!Disjoint, Promise!Cells, Cells
  <2> QED
    BY <2>2 DEF Promise!Next, Promise!Region, Region
<1>4. CASE req[t].op = "palloc"
  <2> DEFINE r == [addr |-> g.addr, size |-> g.size]
  <2>1. huge' = huge \cup {r} /\ arena' = arena /\ base' = base
    BY <1>4 DEF Finish
  <2>2. r \in Region /\ Cells(r) = Cells(g)
    BY <1>1 DEF Extent, Region, Cells
  <2>3. Live' = Live \cup {r}
    BY <1>2, <2>1 DEF Live
  <2> QED
    BY <1>3, <2>2, <2>3
<1>5. CASE req[t].op \in {"arena", "base"}
  <2>1. g.size = 1
    BY <1>1, <1>5 DEF AllExact, Exact
  <2>2. Cells(g) = {g.addr} /\ g.addr \in Chunk
    BY <1>1, <2>1 DEF Cells, Extent
  <2>3. huge' = huge /\ arena' \cup base' = arena \cup base \cup {g.addr}
    BY <1>5, <2>2 DEF Finish
  <2>4. Single(g.addr) \in Region /\ Cells(Single(g.addr)) = Cells(g)
    <3>1. 1 \in Chunk
      BY NChunksAssumption DEF Chunk
    <3>2. Single(g.addr) \in Region
      BY <2>2, <3>1 DEF Single, Region
    <3>3. Cells(Single(g.addr)) = Cells(g)
      BY <1>1, <2>1 DEF Single, Cells
    <3> QED
      BY <3>2, <3>3
  <2>5. Live' = Live \cup {Single(g.addr)}
    <3>1. arena' \cup spare' \cup base' = arena \cup spare \cup base \cup {g.addr}
      BY <1>2, <2>3
    <3>2. Live' = huge \cup
             {Single(y) : y \in arena \cup spare \cup base \cup {g.addr}}
      BY <2>3, <3>1 DEF Live, Single
    <3>3. Live = huge \cup {Single(y) : y \in arena \cup spare \cup base}
      BY DEF Live, Single
    <3> QED
      BY <3>2, <3>3
  <2> QED
    BY <1>3, <2>4, <2>5
<1>6. CASE req[t].op = "expand"
  <2> DEFINE r == [addr |-> req[t].ptr, size |-> req[t].total]
  <2>1. /\ huge' = {f \in huge : f.addr # req[t].ptr} \cup {r}
        /\ arena' = arena /\ base' = base
    BY <1>6 DEF Finish
  <2>2. PICK h \in huge : /\ h.addr = req[t].ptr
                          /\ h.addr + h.size = req[t].at
                          /\ h.size + req[t].size = req[t].total
    BY <1>6 DEF Shape, Resizing
  <2>3. g.addr = req[t].at /\ g.size = req[t].size
    BY <1>6 DEF Shape, Resizing, Finish
  <2>4. /\ h \in Live /\ h \in Region
        /\ h.addr \in Nat /\ h.size \in Nat /\ Cells(h) \subseteq Chunk
        /\ h.addr \in Chunk /\ h.size \in Chunk
    BY LiveTypes DEF Live, Region
  <2>5. r.addr = h.addr /\ r.size = h.size + g.size /\ g.addr = h.addr + h.size
    BY <2>2, <2>3
  <2>6. r \in Region /\ Cells(r) = Cells(h) \cup Cells(g)
    <3>1. r.size \in Chunk
      BY <1>1, <2>4, <2>5, NChunksAssumption DEF Chunk
    <3>2. r \in Region
      BY <2>2, <2>4, <2>5, <3>1 DEF Region
    <3>3. Cells(r) = Cells(h) \cup Cells(g)
      BY <1>1, <2>4, <2>5 DEF Cells
    <3> QED
      BY <3>2, <3>3
  <2> HIDE DEF r
  <2>7. {f \in huge : f.addr # req[t].ptr} = huge \ {h}
    <3>1. ASSUME NEW f \in huge, f.addr = req[t].ptr
          PROVE  f = h
      <4>1. f \in Live /\ f.addr \in Cells(f) /\ h.addr \in Cells(h)
        BY <2>4, LiveTypes DEF Live
      <4> QED
        BY <2>2, <2>4, <3>1, <4>1, LiveSeparate
    <3> QED
      BY <2>2, <3>1
  <2>8. Live' = (Live \ {h}) \cup {r}
    BY <1>2, <2>1, <2>7, HugeNotSingle DEF Live, Single
  <2>9. \A q \in Live \ {h} : Cells(r) \cap Cells(q) = {}
    BY <2>4, <2>6, LiveSeparate, HoldNotLive
  <2>10. Promise!Resize(h, r)
    BY <1>1, <2>4, <2>5, <2>6, <2>8, <2>9
    DEF Promise!Resize, Promise!Disjoint, Promise!Cells, Cells
  <2> QED
    BY <2>4, <2>6, <2>10 DEF Promise!Next, Promise!Region, Region
<1> QED
  BY <1>4, <1>5, <1>6 DEF Finish

LEMMA HeapStep ==
    Shape /\ OneHolder /\ AllExact /\ [Next]_vars => [Promise!Next]_Live
<1> SUFFICES ASSUME Shape, OneHolder, AllExact, [Next]_vars
             PROVE  Promise!Next \/ Live' = Live
  OBVIOUS
<1>1. CASE UNCHANGED <<huge, arena, spare, base>>
  BY <1>1 DEF Live
<1>2. CASE UNCHANGED vars
  BY <1>1, <1>2 DEF vars, lists
<1>3. CASE Next
  <2>1. PICK t \in Threads : Enter(t) \/ Step(t)
    BY <1>3 DEF Next
  <2>2. CASE \E h \in huge, n \in Sizes : HugeShrink(t, h, n)
    BY <2>2, ShrinkIsResize
  <2>3. CASE \E h \in huge : HugeDalloc(t, h)
    BY <2>3, DallocIsFree
  <2>4. CASE ArenaChunkAlloc(t)
    <3>1. huge' = huge /\ base' = base /\ arena' \cup spare' = arena \cup spare
      BY <2>4 DEF ArenaChunkAlloc
    <3>2. arena' \cup spare' \cup base' = arena \cup spare \cup base
      BY <3>1
    <3> QED
      BY <3>1, <3>2 DEF Live
  <2>5. CASE \E d \in arena : ArenaChunkDalloc(t, d)
    BY <2>5, ArenaDallocIsFree
  <2>6. CASE Finish(t)
    BY <2>6, FinishIsAlloc
  <2>7. CASE \/ \E s \in Sizes, a \in Aligns, z \in BOOLEAN : HugePalloc(t, s, a, z)
             \/ \E h \in huge, s \in Sizes : HugeExpand(t, h, s)
             \/ BasePagesAlloc(t) \/ Recycle(t) \/ TrailNode(t) \/ InsertTrail(t)
             \/ SpareNode(t) \/ Register(t) \/ Uncount(t) \/ RecordNode(t)
             \/ Record(t) \/ Return(t)
    BY <1>1, <2>7
    DEF HugePalloc, HugeExpand, BasePagesAlloc, Recycle, TrailNode, InsertTrail,
        SpareNode, Register, Uncount, RecordNode, Record, Return, lists
  <2> QED
    BY <2>1, <2>2, <2>3, <2>4, <2>5, <2>6, <2>7 DEF Enter, Step
<1> QED
  BY <1>2, <1>3

\* The chunk allocator implements the abstract heap: what callers see of any
\* number of threads that split, grow, move and join ranges with the locks
\* dropped in between are regions that never overlap.
THEOREM Refinement == Spec => ImplementsHeap
<1>1. Init => Shape /\ OneHolder /\ AllExact
  BY InitShape, InitHolder, InitExact
<1>2. Shape /\ OneHolder /\ AllExact /\ [Next]_vars
         => (Shape /\ OneHolder /\ AllExact)'
  BY ShapeStep, HolderStep, ExactStep
<1>3. Init => Promise!Init
  BY DEF Init, Promise!Init, Live
<1>4. Shape /\ OneHolder /\ AllExact /\ [Next]_vars => [Promise!Next]_Live
  BY HeapStep
<1> QED
  BY <1>1, <1>2, <1>3, <1>4, PTL DEF Spec, ImplementsHeap, Promise!Spec

(***************************************************************************)
(* Extent nodes                                                            *)
(***************************************************************************)

\* T has d elements more than S (fewer, if d is negative).
Differ(S, T, d) ==
    IsFiniteSet(T) /\ Cardinality(T) \in Int
        /\ Cardinality(T) = Cardinality(S) + d

LEMMA DifferSame ==
    ASSUME NEW S, IsFiniteSet(S)
    PROVE  Differ(S, S, 0)
<1>1. Cardinality(S) \in Nat
  BY FS_CardinalityType
<1> QED
  BY <1>1 DEF Differ

LEMMA DifferAdd ==
    ASSUME NEW S, IsFiniteSet(S), NEW x, x \notin S
    PROVE  Differ(S, S \cup {x}, 1)
<1>1. Cardinality(S) \in Nat
  BY FS_CardinalityType
<1>2. IsFiniteSet(S \cup {x}) /\ Cardinality(S \cup {x}) = Cardinality(S) + 1
  BY FS_AddElement
<1> QED
  BY <1>1, <1>2 DEF Differ

LEMMA DifferRemove ==
    ASSUME NEW S, IsFiniteSet(S), NEW x \in S
    PROVE  Differ(S, S \ {x}, -1)
<1>1. Cardinality(S) \in Nat
  BY FS_CardinalityType
<1>2. IsFiniteSet(S \ {x}) /\ Cardinality(S \ {x}) = Cardinality(S) - 1
  BY FS_RemoveElement
<1> QED
  BY <1>1, <1>2 DEF Differ

LEMMA DifferReplace ==
    ASSUME NEW S, IsFiniteSet(S), NEW x \in S, NEW y, y \notin S \ {x}
    PROVE  Differ(S, (S \ {x}) \cup {y}, 0)
<1>1. Cardinality(S) \in Nat
  BY FS_CardinalityType
<1>2. IsFiniteSet(S \ {x}) /\ Cardinality(S \ {x}) = Cardinality(S) - 1
  BY FS_RemoveElement
<1>3. /\ IsFiniteSet((S \ {x}) \cup {y})
      /\ Cardinality((S \ {x}) \cup {y}) = Cardinality(S \ {x}) + 1
  BY <1>2, FS_AddElement
<1> QED
  BY <1>1, <1>2, <1>3 DEF Differ

LEMMA OutUp ==
    ASSUME TypeOK, IsFiniteSet(NodesOut), NEW t \in Threads,
           nd' = [nd EXCEPT ![t] = @ + 1]
    PROVE  Differ(NodesOut, NodesOut', 1)
<1>1. /\ nd[t] \in Nat /\ nd'[t] = nd[t] + 1
      /\ \A u \in Threads : u # t => nd'[u] = nd[u]
  BY DEF TypeOK
<1> DEFINE x == <<t, nd[t] + 1>>
<1>2. 1 .. (nd[t] + 1) = (1 .. nd[t]) \cup {nd[t] + 1} /\ nd[t] + 1 \notin 1 .. nd[t]
  BY <1>1
<1>3. NodesOut' = NodesOut \cup {x}
  <2>1. ASSUME NEW z \in NodesOut' PROVE z \in NodesOut \cup {x}
    BY <1>1, <1>2 DEF NodesOut
  <2>2. ASSUME NEW z \in NodesOut PROVE z \in NodesOut'
    BY <1>1, <1>2 DEF NodesOut
  <2>3. x \in NodesOut'
    BY <1>1, <1>2 DEF NodesOut
  <2> QED
    BY <2>1, <2>2, <2>3
<1>4. x \notin NodesOut
  BY <1>1, <1>2 DEF NodesOut
<1> QED
  BY <1>3, <1>4, DifferAdd

LEMMA OutDown ==
    ASSUME TypeOK, IsFiniteSet(NodesOut), NEW t \in Threads, nd[t] > 0,
           nd' = [nd EXCEPT ![t] = @ - 1]
    PROVE  Differ(NodesOut, NodesOut', -1)
<1>1. /\ nd[t] \in Nat /\ nd'[t] = nd[t] - 1
      /\ \A u \in Threads : u # t => nd'[u] = nd[u]
  BY DEF TypeOK
<1> DEFINE x == <<t, nd[t]>>
<1>2. 1 .. (nd[t] - 1) = (1 .. nd[t]) \ {nd[t]} /\ nd[t] \in 1 .. nd[t]
  BY <1>1
<1>3. NodesOut' = NodesOut \ {x}
  <2>1. ASSUME NEW z \in NodesOut' PROVE z \in NodesOut \ {x}
    BY <1>1, <1>2 DEF NodesOut
  <2>2. ASSUME NEW z \in NodesOut, z # x PROVE z \in NodesOut'
    BY <1>1, <1>2, <2>2 DEF NodesOut
  <2> QED
    BY <2>1, <2>2
<1>4. x \in NodesOut
  BY <1>1, <1>2 DEF NodesOut
<1> QED
  BY <1>3, <1>4, DifferRemove

\* The ranges of the pool that a thread or a tree holds share no cell with a
\* free extent, or with a huge allocation, but their own.
LEMMA FreeAlone ==
    ASSUME OneHolder, NEW c \in Chunk, NEW e \in free, c \in Cells(e)
    PROVE  /\ \A f \in free : c \in Cells(f) => f = e
           /\ \A t \in Threads : c \notin Cells(hold[t]) /\ c \notin Cells(trail[t])
           /\ c \notin spare
<1>1. PICK k, i : Sole(c, k, i)
  BY DEF OneHolder
<1> QED
  BY <1>1 DEF Sole

LEMMA HugeAlone ==
    ASSUME OneHolder, NEW c \in Chunk, NEW h \in huge, c \in Cells(h)
    PROVE  /\ \A f \in huge : c \in Cells(f) => f = h
           /\ \A t \in Threads : c \notin Cells(hold[t])
<1>1. PICK k, i : Sole(c, k, i)
  BY DEF OneHolder
<1> QED
  BY <1>1 DEF Sole

\* A range begins with a cell of its own.
LEMMA FirstCell ==
    ASSUME NEW r, r.addr \in Chunk, r.size \in Nat \ {0}
    PROVE  r.addr \in Cells(r)
  BY NChunksAssumption DEF Cells, Chunk

Counted ==
    /\ IsFiniteSet(free) /\ IsFiniteSet(huge) /\ IsFiniteSet(NodesOut)
    /\ NodesConserved

\* A step moves nodes between the list, the trees and the threads' hands.
LEMMA CountMoved ==
    ASSUME TypeOK, Counted, NEW a \in Int, NEW b \in Int, NEW d \in Int, NEW e \in Int,
           nodes' = nodes + a, Differ(free, free', b), Differ(huge, huge', d),
           Differ(NodesOut, NodesOut', e), a + b + d + e = 0
    PROVE  Counted'
<1>1. /\ nodes \in Nat /\ Cardinality(free) \in Nat /\ Cardinality(huge) \in Nat
      /\ Cardinality(NodesOut) \in Nat
  BY FS_CardinalityType DEF TypeOK, Counted
<1>2. /\ Cardinality(free') = Cardinality(free) + b
      /\ Cardinality(huge') = Cardinality(huge) + d
      /\ Cardinality(NodesOut') = Cardinality(NodesOut) + e
      /\ IsFiniteSet(free') /\ IsFiniteSet(huge') /\ IsFiniteSet(NodesOut')
  BY DEF Differ
<1>3. nodes + Cardinality(free) + Cardinality(huge) + Cardinality(NodesOut) = NNodes
  BY DEF Counted, NodesConserved
<1>4. nodes' + Cardinality(free') + Cardinality(huge') + Cardinality(NodesOut')
         = NNodes
  BY <1>1, <1>2, <1>3
<1> QED
  BY <1>2, <1>4 DEF Counted, NodesConserved

LEMMA OutSame ==
    ASSUME IsFiniteSet(NodesOut), nd' = nd
    PROVE  Differ(NodesOut, NodesOut', 0)
<1>1. NodesOut' = NodesOut
  BY DEF NodesOut
<1> QED
  BY <1>1, DifferSame

\* Nothing moves.
LEMMA CountSame ==
    ASSUME TypeOK, Counted, nodes' = nodes, free' = free, huge' = huge, nd' = nd
    PROVE  Counted'
<1>1. /\ Differ(free, free', 0) /\ Differ(huge, huge', 0)
      /\ Differ(NodesOut, NodesOut', 0)
  BY DifferSame, OutSame DEF Counted
<1>2. nodes' = nodes + 0 /\ 0 \in Int
  BY DEF TypeOK
<1> QED
  BY <1>1, <1>2, CountMoved

\* base_node_alloc and base_node_dalloc.
LEMMA CountTake ==
    ASSUME TypeOK, Counted, NEW t \in Threads, TakeNode(t), free' = free, huge' = huge
    PROVE  Counted'
<1>1. /\ Differ(free, free', 0) /\ Differ(huge, huge', 0)
      /\ Differ(NodesOut, NodesOut', 1)
  BY DifferSame, OutUp DEF Counted, TakeNode
<1>2. nodes' = nodes + (-1)
  BY DEF TakeNode, TypeOK
<1> QED
  BY <1>1, <1>2, CountMoved

LEMMA CountPut ==
    ASSUME TypeOK, Counted, NEW t \in Threads, PutNode(t), free' = free, huge' = huge
    PROVE  Counted'
<1>1. /\ Differ(free, free', 0) /\ Differ(huge, huge', 0)
      /\ Differ(NodesOut, NodesOut', -1)
  BY DifferSame, OutDown DEF Counted, PutNode
<1>2. nodes' = nodes + 1
  BY DEF PutNode, TypeOK
<1> QED
  BY <1>1, <1>2, CountMoved

\* The trees of free extents change, and the nodes in hand with them.
LEMMA CountFree ==
    ASSUME TypeOK, Counted, NEW b \in Int, Differ(free, free', b),
           Differ(NodesOut, NodesOut', -b), huge' = huge, nodes' = nodes
    PROVE  Counted'
<1>1. Differ(huge, huge', 0)
  BY DifferSame DEF Counted
<1>2. nodes' = nodes + 0 /\ -b \in Int /\ 0 + b + 0 + (-b) = 0
  BY DEF TypeOK
<1> QED
  BY <1>1, <1>2, CountMoved

LEMMA CountHuge ==
    ASSUME TypeOK, Counted, NEW b \in Int, Differ(huge, huge', b),
           Differ(NodesOut, NodesOut', -b), free' = free, nodes' = nodes
    PROVE  Counted'
<1>1. Differ(free, free', 0)
  BY DifferSame DEF Counted
<1>2. nodes' = nodes + 0 /\ -b \in Int /\ 0 + 0 + b + (-b) = 0
  BY DEF TypeOK
<1> QED
  BY <1>1, <1>2, CountMoved

\* chunk_recycle: the node of the extent serves one of the parts, or is left.
LEMMA RecycleCounted ==
    ASSUME Shape, OneHolder, Counted, NEW t \in Threads, Recycle(t)
    PROVE  Counted'
<1>1. TypeOK /\ huge' = huge /\ nodes' = nodes
  BY DEF Shape, Recycle, counts
<1>2. CASE Candidates(req[t]) = {}
  <2>1. free' = free /\ nd' = nd
    BY <1>2 DEF Recycle
  <2> QED
    BY <1>1, <2>1, CountSame
<1>3. CASE Candidates(req[t]) # {}
  <2>1. PICK e \in free, front, got, back \in Span :
           /\ e \in Extent /\ e.addr + e.size <= NChunks + 1
           /\ got \in Extent
           /\ front.size # 0 => front \in Extent
           /\ back.size # 0 => back \in Extent
           /\ Split(t, e, front, got, back)
    BY <1>3, RecycleSplits
  <2>2. ASSUME NEW r \in Extent, Cells(r) \subseteq Cells(e)
        PROVE  r \notin free \ {e}
    <3>1. r.addr \in Cells(r) /\ r.addr \in Chunk
      BY FirstCell, NChunksAssumption DEF Extent, Chunk
    <3> QED
      BY <2>2, <3>1, FreeAlone
  <2>3. /\ back.size # 0 => Cells(back) \subseteq Cells(e)
        /\ front.size # 0 => Cells(front) \subseteq Cells(e)
    BY <2>1, NChunksAssumption DEF Split, Cells, Span, Extent, Chunk
  <2>4. CASE free' = free \ {e} /\ nd' = [nd EXCEPT ![t] = @ + 1]
    <3>1. Differ(free, free', -1) /\ Differ(NodesOut, NodesOut', 1)
      BY <1>1, <2>4, DifferRemove, OutUp DEF Counted
    <3> QED
      BY <1>1, <3>1, CountFree
  <2>5. CASE back.size # 0 /\ free' = (free \ {e}) \cup {back} /\ nd' = nd
    <3>1. back \notin free \ {e}
      BY <2>1, <2>2, <2>3, <2>5
    <3>2. Differ(free, free', 0) /\ Differ(NodesOut, NodesOut', 0)
      BY <2>5, <3>1, DifferReplace, OutSame DEF Counted
    <3> QED
      BY <1>1, <3>2, CountFree
  <2>6. CASE front.size # 0 /\ free' = (free \ {e}) \cup {front} /\ nd' = nd
    <3>1. front \notin free \ {e}
      BY <2>1, <2>2, <2>3, <2>6
    <3>2. Differ(free, free', 0) /\ Differ(NodesOut, NodesOut', 0)
      BY <2>6, <3>1, DifferReplace, OutSame DEF Counted
    <3> QED
      BY <1>1, <3>2, CountFree
  <2> QED
    BY <2>1, <2>4, <2>5, <2>6 DEF Split
<1> QED
  BY <1>2, <1>3

LEMMA InsertTrailCounted ==
    ASSUME Shape, OneHolder, Counted, NEW t \in Threads, InsertTrail(t)
    PROVE  Counted'
<1>1. /\ TypeOK /\ huge' = huge /\ nodes' = nodes
      /\ free' = free \cup {trail[t]} /\ nd' = [nd EXCEPT ![t] = @ - 1]
  BY DEF Shape, InsertTrail, counts
<1>2. nd[t] > 0
  BY DEF Shape, TypeOK, InsertTrail, NodesInHand, Pending
<1>3. trail[t] \in Extent
  BY DEF Shape, Locals, InsertTrail
<1>4. trail[t] \notin free
  <2>1. trail[t].addr \in Cells(trail[t]) /\ trail[t].addr \in Chunk
    BY <1>3, FirstCell, NChunksAssumption DEF Extent, Chunk
  <2> QED
    BY <2>1, FreeAlone
<1>5. Differ(free, free', 1) /\ Differ(NodesOut, NodesOut', -1)
  BY <1>1, <1>2, <1>4, DifferAdd, OutDown DEF Counted
<1> QED
  BY <1>1, <1>5, CountFree

\* chunk_record: of the nodes of the extents that join, one stays in the tree
\* and the others are in the thread's hands.
LEMMA RecordCounted ==
    ASSUME Shape, OneHolder, Counted, NEW t \in Threads, Record(t)
    PROVE  Counted'
<1>0. PICK g : g = hold[t]
  OBVIOUS
<1>1. TypeOK /\ huge' = huge /\ nodes' = nodes
  BY DEF Shape, Record, counts
<1>2. /\ g \in Extent /\ g.addr \in Nat \ {0} /\ g.size \in Nat \ {0}
      /\ g.addr + g.size <= NChunks + 1
      /\ \A f \in free : f.addr \in Nat /\ f.size \in Nat \ {0} /\ f.addr \in Chunk
  BY <1>0, NChunksAssumption
  DEF Shape, TypeOK, Locals, Carrying, Record, Extent, Chunk
<1>3. ASSUME NEW j, NEW c \in Chunk, NEW gone \in SUBSET free, c \in Cells(j),
             c \in Cells(g) \/ \E f \in gone : c \in Cells(f)
      PROVE  j \notin free \ gone
  BY <1>0, <1>3, FreeAlone
<1>4. g.addr \in Cells(g) /\ g.addr \in Chunk
  BY <1>2, FirstCell DEF Extent
<1>5. ASSUME NEW n \in After(g), NEW p \in Before(g),
             free' = (free \ {n, p}) \cup
                        {Joined(p.addr, p.size + g.size + n.size)},
             nd' = [nd EXCEPT ![t] = @ + 1]
      PROVE  Counted'
  <2> DEFINE j == Joined(p.addr, p.size + g.size + n.size)
  <2>1. n \in free /\ p \in free /\ n # p
    BY <1>2 DEF After, Before
  <2>2. g.addr \in Cells(j)
    BY <1>2, <2>1 DEF Before, Joined, Cells
  <2> HIDE DEF j
  <2>3. j \notin free \ {n, p}
    BY <1>3, <1>4, <2>1, <2>2
  <2>4. Differ(free, free \ {n}, -1)
    BY <2>1, DifferRemove DEF Counted
  <2>5. /\ IsFiniteSet(free \ {n}) /\ p \in free \ {n}
        /\ (free \ {n}) \ {p} = free \ {n, p} /\ j \notin (free \ {n}) \ {p}
    BY <2>1, <2>3, <2>4 DEF Differ
  <2>6. Differ(free \ {n}, free', 0)
    BY <1>5, <2>5, DifferReplace DEF j
  <2>7. Differ(free, free', -1)
    BY <2>4, <2>6 DEF Differ
  <2>8. Differ(NodesOut, NodesOut', 1)
    BY <1>1, <1>5, OutUp DEF Counted
  <2> QED
    BY <1>1, <2>7, <2>8, CountFree
<1>6. ASSUME NEW f \in free, NEW j, g.addr \in Cells(j),
             free' = (free \ {f}) \cup {j}, nd' = nd
      PROVE  Counted'
  <2>1. j \notin free \ {f}
    BY <1>3, <1>4, <1>6
  <2>2. Differ(free, free', 0) /\ Differ(NodesOut, NodesOut', 0)
    BY <1>6, <2>1, DifferReplace, OutSame DEF Counted
  <2> QED
    BY <1>1, <2>2, CountFree
<1>7. ASSUME NEW n \in After(g), nd' = nd,
             free' = (free \ {n}) \cup {Joined(g.addr, g.size + n.size)}
      PROVE  Counted'
  <2> DEFINE j == Joined(g.addr, g.size + n.size)
  <2>1. n \in free /\ g.addr \in Cells(j)
    BY <1>2 DEF After, Joined, Cells
  <2> HIDE DEF j
  <2> QED
    BY <1>6, <1>7, <2>1 DEF j
<1>8. ASSUME NEW p \in Before(g), nd' = nd,
             free' = (free \ {p}) \cup {Joined(p.addr, p.size + g.size)}
      PROVE  Counted'
  <2> DEFINE j == Joined(p.addr, p.size + g.size)
  <2>1. p \in free /\ g.addr \in Cells(j)
    BY <1>2 DEF Before, Joined, Cells
  <2> HIDE DEF j
  <2> QED
    BY <1>6, <1>8, <2>1 DEF j
<1>9. CASE /\ pc[t] = "record" /\ free' = free \cup {Joined(g.addr, g.size)}
           /\ nd' = [nd EXCEPT ![t] = @ - 1]
  <2> DEFINE j == Joined(g.addr, g.size)
  <2>1. g.addr \in Cells(j)
    BY <1>2 DEF Joined, Cells
  <2> HIDE DEF j
  <2>2. j \notin free \ {}
    BY <1>3, <1>4, <2>1
  <2>3. nd[t] > 0
    BY <1>9 DEF Shape, TypeOK, NodesInHand, Pending
  <2>4. Differ(free, free', 1) /\ Differ(NodesOut, NodesOut', -1)
    BY <1>1, <1>9, <2>2, <2>3, DifferAdd, OutDown DEF Counted, j
  <2> QED
    BY <1>1, <2>4, CountFree
<1>10. CASE free' = free /\ nd' = nd
  BY <1>1, <1>10, CountSame
<1>11. \/ \E n \in After(g), p \in Before(g) :
             /\ free' = (free \ {n, p}) \cup
                          {Joined(p.addr, p.size + g.size + n.size)}
             /\ nd' = [nd EXCEPT ![t] = @ + 1]
       \/ \E n \in After(g) :
             /\ free' = (free \ {n}) \cup {Joined(g.addr, g.size + n.size)}
             /\ nd' = nd
       \/ \E p \in Before(g) :
             /\ free' = (free \ {p}) \cup {Joined(p.addr, p.size + g.size)}
             /\ nd' = nd
       \/ /\ pc[t] = "record" /\ free' = free \cup {Joined(g.addr, g.size)}
          /\ nd' = [nd EXCEPT ![t] = @ - 1]
       \/ free' = free /\ nd' = nd
  BY <1>0 DEF Record
<1> QED
  BY <1>5, <1>7, <1>8, <1>9, <1>10, <1>11

\* A huge allocation takes over the node that huge_palloc began with; one
\* that grows keeps its own.
LEMMA FinishCounted ==
    ASSUME Shape, OneHolder, Counted, NEW t \in Threads, Finish(t)
    PROVE  Counted'
<1>0. PICK g : g = hold[t]
  OBVIOUS
<1>1. TypeOK /\ free' = free /\ nodes' = nodes
  BY DEF Shape, Finish, counts
<1>2. g \in Extent /\ g.addr \in Chunk /\ g.size \in Nat \ {0}
  BY <1>0, NChunksAssumption DEF Shape, Locals, Carrying, Finish, Extent, Chunk
<1>3. CASE req[t].op = "palloc"
  <2> DEFINE r == [addr |-> g.addr, size |-> g.size]
  <2>1. huge' = huge \cup {r} /\ nd' = [nd EXCEPT ![t] = @ - 1]
    BY <1>0, <1>3 DEF Finish
  <2>2. nd[t] > 0
    BY <1>3 DEF Shape, TypeOK, Finish, NodesInHand, Pending
  <2>3. g.addr \in Cells(g) /\ g.addr \in Cells(r)
    BY <1>2, NChunksAssumption DEF Cells, Chunk
  <2> HIDE DEF r
  <2>4. r \notin huge
    BY <1>0, <1>2, <2>3, HugeAlone
  <2>5. Differ(huge, huge', 1) /\ Differ(NodesOut, NodesOut', -1)
    BY <1>1, <2>1, <2>2, <2>4, DifferAdd, OutDown DEF Counted
  <2> QED
    BY <1>1, <2>5, CountHuge
<1>4. CASE req[t].op = "expand"
  <2> DEFINE r == [addr |-> req[t].ptr, size |-> req[t].total]
  <2>1. huge' = {h \in huge : h.addr # req[t].ptr} \cup {r} /\ nd' = nd
    BY <1>4 DEF Finish
  <2>2. PICK h \in huge : h.addr = req[t].ptr
    BY <1>4 DEF Shape, Resizing
  <2>3. \A f \in huge : f.addr = req[t].ptr => f = h
    <3> SUFFICES ASSUME NEW f \in huge, f.addr = req[t].ptr PROVE f = h
      OBVIOUS
    <3>1. /\ h.addr \in Chunk /\ h.size \in Nat \ {0}
          /\ f.addr \in Chunk /\ f.size \in Nat \ {0}
      BY NChunksAssumption DEF Shape, TypeOK, Region, Chunk
    <3>2. h.addr \in Cells(h) /\ f.addr \in Cells(f)
      BY <3>1, FirstCell
    <3> QED
      BY <2>2, <3>1, <3>2, HugeAlone
  <2>4. {f \in huge : f.addr # req[t].ptr} = huge \ {h}
    BY <2>2, <2>3
  <2>5. r \notin huge \ {h}
    <3>1. r.addr = req[t].ptr
      OBVIOUS
    <3> QED
      BY <2>3, <3>1
  <2>6. Differ(huge, huge', 0) /\ Differ(NodesOut, NodesOut', 0)
    BY <2>1, <2>4, <2>5, DifferReplace, OutSame DEF Counted
  <2> QED
    BY <1>1, <2>6, CountHuge
<1>5. CASE req[t].op \in {"arena", "base"}
  <2>1. huge' = huge /\ nd' = nd
    BY <1>5 DEF Finish
  <2> QED
    BY <1>1, <2>1, CountSame
<1> QED
  BY <1>3, <1>4, <1>5 DEF Finish

LEMMA ShrinkCounted ==
    ASSUME Shape, OneHolder, Counted, NEW t \in Threads, NEW h \in huge,
           NEW n \in Sizes, HugeShrink(t, h, n)
    PROVE  Counted'
<1> DEFINE r == [addr |-> h.addr, size |-> n]
<1>1. /\ TypeOK /\ free' = free /\ nodes' = nodes /\ nd' = nd
      /\ huge' = (huge \ {h}) \cup {r}
  BY DEF Shape, HugeShrink, counts
<1>2. /\ h.addr \in Chunk /\ h.size \in Nat \ {0} /\ n \in Nat \ {0}
  BY SizesAssumption, NChunksAssumption DEF Shape, TypeOK, Region, Chunk
<1>3. h.addr \in Cells(h) /\ h.addr \in Cells(r)
  BY <1>2, NChunksAssumption DEF Cells, Chunk
<1> HIDE DEF r
<1>4. r \notin huge \ {h}
  BY <1>2, <1>3, HugeAlone
<1>5. Differ(huge, huge', 0) /\ Differ(NodesOut, NodesOut', 0)
  BY <1>1, <1>4, DifferReplace, OutSame DEF Counted
<1> QED
  BY <1>1, <1>5, CountHuge

LEMMA DallocCounted ==
    ASSUME Shape, Counted, NEW t \in Threads, NEW h \in huge, HugeDalloc(t, h)
    PROVE  Counted'
<1>1. /\ TypeOK /\ free' = free /\ nodes' = nodes
      /\ nd' = [nd EXCEPT ![t] = @ + 1] /\ huge' = huge \ {h}
  BY DEF Shape, HugeDalloc, counts
<1>2. Differ(huge, huge', -1) /\ Differ(NodesOut, NodesOut', 1)
  BY <1>1, DifferRemove, OutUp DEF Counted
<1> QED
  BY <1>1, <1>2, CountHuge

LEMMA InitCounted == Init => Counted
<1> SUFFICES ASSUME Init PROVE Counted
  OBVIOUS
<1> DEFINE e == [addr |-> 1, size |-> NChunks, zeroed |-> ZeroInit]
<1>1. free = {e} /\ huge = {} /\ nodes = NNodes - 1
  BY DEF Init
<1>2. NodesOut = {}
  BY DEF Init, NodesOut
<1> HIDE DEF e
<1>3. /\ IsFiniteSet(free) /\ Cardinality(free) = 1
      /\ IsFiniteSet(huge) /\ Cardinality(huge) = 0
      /\ IsFiniteSet(NodesOut) /\ Cardinality(NodesOut) = 0
  BY <1>1, <1>2, FS_Singleton, FS_EmptySet
<1> QED
  BY <1>1, <1>3, NNodesAssumption DEF Counted, NodesConserved

LEMMA CountedStep == Shape /\ OneHolder /\ Counted /\ [Next]_vars => Counted'
<1> SUFFICES ASSUME Shape, OneHolder, Counted, [Next]_vars PROVE Counted'
  OBVIOUS
<1>0. TypeOK
  BY DEF Shape
<1>1. CASE UNCHANGED <<nodes, free, huge, nd>>
  BY <1>0, <1>1, CountSame
<1>2. CASE UNCHANGED vars
  BY <1>1, <1>2 DEF vars, lists, counts, locals
<1>3. CASE Next
  <2>1. PICK t \in Threads : Enter(t) \/ Step(t)
    BY <1>3 DEF Next
  <2>2. CASE \E s \in Sizes, a \in Aligns, z \in BOOLEAN : HugePalloc(t, s, a, z)
    BY <1>0, <2>2, CountTake DEF HugePalloc, lists
  <2>3. CASE \E h \in huge, s \in Sizes : HugeExpand(t, h, s)
    BY <1>1, <2>3 DEF HugeExpand, lists, counts
  <2>4. CASE \E h \in huge, s \in Sizes : HugeShrink(t, h, s)
    BY <2>4, ShrinkCounted
  <2>5. CASE \E h \in huge : HugeDalloc(t, h)
    BY <2>5, DallocCounted
  <2>6. CASE ArenaChunkAlloc(t) \/ \E d \in arena : ArenaChunkDalloc(t, d)
    BY <1>1, <2>6 DEF ArenaChunkAlloc, ArenaChunkDalloc, counts
  <2>7. CASE BasePagesAlloc(t) \/ Register(t) \/ Uncount(t)
    BY <1>1, <2>7 DEF BasePagesAlloc, Register, Uncount, lists, counts
  <2>8. CASE Recycle(t)
    BY <2>8, RecycleCounted
  <2>9. CASE TrailNode(t)
    <3>1. CASE TakeNode(t)
      BY <1>0, <2>9, <3>1, CountTake DEF TrailNode
    <3>2. CASE UNCHANGED <<nodes, nd>>
      BY <1>1, <2>9, <3>2 DEF TrailNode
    <3> QED
      BY <2>9, <3>1, <3>2 DEF TrailNode
  <2>10. CASE InsertTrail(t)
    BY <2>10, InsertTrailCounted
  <2>11. CASE SpareNode(t)
    BY <1>0, <2>11, CountPut DEF SpareNode, lists
  <2>12. CASE Finish(t)
    BY <2>12, FinishCounted
  <2>13. CASE RecordNode(t)
    <3>1. CASE TakeNode(t)
      BY <1>0, <2>13, <3>1, CountTake DEF RecordNode, lists
    <3>2. CASE UNCHANGED <<nodes, nd>>
      BY <1>1, <2>13, <3>2 DEF RecordNode, lists
    <3> QED
      BY <2>13, <3>1, <3>2 DEF RecordNode
  <2>14. CASE Record(t)
    BY <2>14, RecordCounted
  <2>15. CASE Return(t)
    <3>1. CASE TakeNode(t)
      BY <1>0, <2>15, <3>1, CountTake DEF Return, lists
    <3>2. CASE PutNode(t)
      BY <1>0, <2>15, <3>2, CountPut DEF Return, lists
    <3>3. CASE UNCHANGED <<nodes, nd>>
      BY <1>1, <2>15, <3>3 DEF Return, lists
    <3> QED
      BY <2>15, <3>1, <3>2, <3>3 DEF Return
  <2> QED
    BY <2>1, <2>2, <2>3, <2>4, <2>5, <2>6, <2>7, <2>8, <2>9, <2>10, <2>11,
       <2>12, <2>13, <2>14, <2>15 DEF Enter, Step
<1> QED
  BY <1>2, <1>3

\* No extent node is lost or used twice: the preallocated nodes are always
\* those on base_nodes, those of the free extents and of the huge
\* allocations, and those a thread has in hand, however calls interleave and
\* wherever they fail.
THEOREM NodesKept == Spec => []NodesConserved
<1>1. Init => Shape /\ OneHolder /\ Counted
  BY InitShape, InitHolder, InitCounted
<1>2. Shape /\ OneHolder /\ Counted /\ [Next]_vars
         => (Shape /\ OneHolder /\ Counted)'
  BY ShapeStep, HolderStep, CountedStep
<1>3. Counted => NodesConserved
  BY DEF Counted
<1> QED
  BY <1>1, <1>2, <1>3, PTL DEF Spec

(***************************************************************************)
(* je_pool_check                                                           *)
(***************************************************************************)

\* Free extents that overlap neither each other nor the spare fit in the pool.
LEMMA FreeFits ==
    ASSUME Shape, OneHolder
    PROVE  Volume(free) + Cardinality(spare) <= NChunks
<1> DEFINE V == UNION {{e} \X Cells(e) : e \in free}
           f == [v \in V |-> v[2]]
           room == Chunk \ spare
<1>1. ASSUME NEW v \in V
      PROVE  v = <<v[1], v[2]>> /\ v[1] \in free /\ v[2] \in Cells(v[1]) /\ v[2] \in Chunk
  <2>1. PICK e \in free : v \in {e} \X Cells(e)
    OBVIOUS
  <2>2. v = <<v[1], v[2]>> /\ v[1] = e /\ v[2] \in Cells(e)
    BY <2>1
  <2>3. Cells(e) \subseteq Chunk
    BY NChunksAssumption DEF Shape, TypeOK, Inside, Cells, Extent, Chunk
  <2> QED
    BY <2>2, <2>3
<1>2. f \in Injection(V, room)
  <2>1. f \in [V -> room]
    BY <1>1, FreeAlone
  <2>2. ASSUME NEW v \in V, NEW w \in V, f[v] = f[w] PROVE v = w
    <3>1. v[2] = w[2]
      BY <2>2
    <3>2. v[1] = w[1]
      BY <1>1, <3>1, FreeAlone
    <3> QED
      BY <1>1, <3>1, <3>2
  <2> QED
    BY <2>1, <2>2 DEF Injection, IsInjective
<1> HIDE DEF f
<1>3. IsFiniteSet(Chunk) /\ Cardinality(Chunk) = NChunks
  BY FS_Interval, NChunksAssumption DEF Chunk
<1>4. spare \subseteq Chunk /\ Chunk \cap spare = spare
  BY DEF Shape, TypeOK
<1>5. IsFiniteSet(room) /\ Cardinality(room) = NChunks - Cardinality(spare)
  BY <1>3, <1>4, FS_Difference
<1>6. IsFiniteSet(spare) /\ Cardinality(spare) \in Nat
  BY <1>3, <1>4, FS_Subset, FS_CardinalityType
<1> HIDE DEF room
<1>7. IsFiniteSet(V) /\ Cardinality(V) <= Cardinality(room)
  BY <1>2, <1>5, FS_Injection
<1>8. Cardinality(V) \in Nat
  BY <1>7, FS_CardinalityType
<1>9. Volume(free) = Cardinality(V)
  BY DEF Volume
<1> QED
  BY <1>5, <1>6, <1>7, <1>8, <1>9, NChunksAssumption

\* je_pool_check passes, whenever it looks: every free extent is in order,
\* and together with the spare chunk they fit in the pool.
THEOREM PoolCheckPasses == Spec => []CheckPasses
<1>1. Spec => [](Shape /\ OneHolder)
  <2>1. Init => Shape /\ OneHolder
    BY InitShape, InitHolder
  <2>2. Shape /\ OneHolder /\ [Next]_vars => (Shape /\ OneHolder)'
    BY ShapeStep, HolderStep
  <2> QED
    BY <2>1, <2>2, PTL DEF Spec
<1>2. FreeSound /\ Shape /\ OneHolder => CheckPasses
  BY FreeFits DEF CheckPasses
<1> QED
  BY <1>1, <1>2, FreeExtentsSound, PTL
=============================================================================
