-------------------------------- MODULE Heap --------------------------------
(***************************************************************************)
(* What a pool promises its callers: the regions in use are disjoint.  A   *)
(* new region lies in the pool and touches no other, a region grows at its *)
(* end into space nobody uses, shrinks at its end, or is given up.         *)
(***************************************************************************)
EXTENDS Integers

CONSTANT Chunk          \* the chunks of the pool
VARIABLE live           \* the regions in use

Region == [addr : Chunk, size : Chunk]
Cells(r) == r.addr .. (r.addr + r.size - 1)

Disjoint(r, S) == \A q \in S : Cells(r) \cap Cells(q) = {}

Init == live = {}

Alloc(r) ==
    /\ Cells(r) \subseteq Chunk
    /\ Disjoint(r, live)
    /\ live' = live \cup {r}

Resize(r, s) ==
    /\ r \in live /\ s.addr = r.addr
    /\ Cells(s) \subseteq Chunk
    /\ Disjoint(s, live \ {r})
    /\ live' = (live \ {r}) \cup {s}

Free(r) ==
    /\ r \in live
    /\ live' = live \ {r}

Next ==
    \/ \E r \in Region : Alloc(r)
    \/ \E r, s \in Region : Resize(r, s)
    \/ \E r \in Region : Free(r)

Spec == Init /\ [][Next]_live
=============================================================================
