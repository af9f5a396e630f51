--------------------------- MODULE ArenaRunsProofs ---------------------------
(***************************************************************************)
(* Pages are in one place, and zeros are zeros, for any number of threads, *)
(* chunks and pages.                                                       *)
(*                                                                         *)
(* The invariant Inv is a ledger: the runs that are out (held by the       *)
(* application, by the bins, or by a thread in the middle of an operation) *)
(* against what each chunk's page map says.  A chunk is cut into free and  *)
(* allocated runs without gap or overlap, or is the spare, or is held as a *)
(* whole, or is not the arena's.  The lemmas go from one map element to    *)
(* one chunk (Layout, View), from a chunk to all of them (Ledger), and     *)
(* from there to the step of a thread (Stepped, RunStep): whatever runs it *)
(* exchanges, the map does not change on those of the others.              *)
(***************************************************************************)
EXTENDS ArenaRuns, FiniteSetTheorems, SequenceTheorems, TLAPS

Bits == [alloc : BOOLEAN, large : BOOLEAN, size : 0 .. NPages, dirty : BOOLEAN, unz : BOOLEAN]

\* The arena as a record, and the first pages of the free runs of chunk c.
IsArena(A) ==
    /\ A = [map |-> A.map, cnt |-> A.cnt, avail |-> A.avail, spare |-> A.spare,
            ndirty |-> A.ndirty, nactive |-> A.nactive, npurgatory |-> A.npurgatory]
    /\ A.map \in [Chunks -> [Pages -> Bits]]
    /\ A.cnt \in [Chunks -> [adjac : Int, avail : Int, dirty : Int]]
    /\ A.avail \subseteq Chunks \X Pages
    /\ A.spare \in Chunks \cup {None}

Avail(A, c) == {i \in Pages : <<c, i>> \in A.avail}

\* B differs from A in chunk c only; in the map of c only on the pages X.
Else(A, B, c) ==
    /\ IsArena(B) /\ B.spare = A.spare
    /\ \A d \in Chunks \ {c} : /\ B.map[d] = A.map[d] /\ Avail(B, d) = Avail(A, d)
                               /\ B.cnt[d].dirty = A.cnt[d].dirty

Kept(A, B, c, X) == \A k \in Pages \ X : B.map[c][k] = A.map[c][k]

MapOnly(A, B, c, X) ==
    /\ Else(A, B, c) /\ Kept(A, B, c, X)
    /\ B.avail = A.avail /\ B.cnt = A.cnt

-----------------------------------------------------------------------------
(* The setters of the page map.                                            *)

SetElem(A, c, i, b) == [A EXCEPT !.map[c][i] = b]

LEMMA ElemSet ==
    ASSUME NEW A, IsArena(A), NEW c \in Chunks, NEW i \in Pages, NEW b \in Bits,
           NEW B, B = SetElem(A, c, i, b)
    PROVE  MapOnly(A, B, c, {i}) /\ B.map[c][i] = b
<1> DEFINE m == A.map
           w == [m EXCEPT ![c][i] = b]
<1>1. /\ B = [map |-> w, cnt |-> A.cnt, avail |-> A.avail, spare |-> A.spare,
              ndirty |-> A.ndirty, nactive |-> A.nactive, npurgatory |-> A.npurgatory]
      /\ m \in [Chunks -> [Pages -> Bits]]
  BY DEF IsArena, SetElem
<1>2. w \in [Chunks -> [Pages -> Bits]] /\ w[c][i] = b
  BY <1>1
<1>3. /\ \A d \in Chunks \ {c} : w[d] = m[d]
      /\ \A k \in Pages \ {i} : w[c][k] = m[c][k]
  BY <1>1
<1> HIDE DEF w
<1>4. /\ B.map = w /\ B.cnt = A.cnt /\ B.avail = A.avail /\ B.spare = A.spare
      /\ B.ndirty = A.ndirty /\ B.nactive = A.nactive /\ B.npurgatory = A.npurgatory
  BY <1>1
<1>5. IsArena(B)
  BY <1>1, <1>2, <1>4 DEF IsArena
<1> QED
  BY <1>2, <1>3, <1>4, <1>5 DEF MapOnly, Else, Kept, Avail

LEMMA ElemType ==
    ASSUME NEW A, IsArena(A), NEW c \in Chunks, NEW i \in Pages
    PROVE  /\ A.map[c] \in [Pages -> Bits] /\ A.map[c][i] \in Bits
           /\ A.map[c][i].alloc \in BOOLEAN /\ A.map[c][i].large \in BOOLEAN
           /\ A.map[c][i].size \in 0 .. NPages
           /\ A.map[c][i].dirty \in BOOLEAN /\ A.map[c][i].unz \in BOOLEAN
  BY DEF IsArena, Bits

LEMMA UnallocatedSet ==
    ASSUME NEW A, IsArena(A), NEW c \in Chunks, NEW i \in Pages, NEW n \in 0 .. NPages,
           NEW dirty \in BOOLEAN, NEW unz \in BOOLEAN,
           NEW B, B = arena_mapbits_unallocated_set(A, c, i, n, dirty, unz)
    PROVE  /\ MapOnly(A, B, c, {i})
           /\ B.map[c][i] = [alloc |-> FALSE, large |-> FALSE, size |-> n,
                             dirty |-> dirty, unz |-> unz]
<1> DEFINE b == [alloc |-> FALSE, large |-> FALSE, size |-> n, dirty |-> dirty, unz |-> unz]
<1>1. b \in Bits
  BY DEF Bits
<1>2. B = SetElem(A, c, i, b)
  BY DEF SetElem, arena_mapbits_unallocated_set
<1> HIDE DEF b
<1>3. MapOnly(A, B, c, {i}) /\ B.map[c][i] = b
  BY <1>1, <1>2, ElemSet
<1> QED
  BY <1>3 DEF b

LEMMA LargeSet ==
    ASSUME NEW A, IsArena(A), NEW c \in Chunks, NEW i \in Pages, NEW n \in 0 .. NPages,
           NEW dirty \in BOOLEAN,
           NEW B, B = arena_mapbits_large_set(A, c, i, n, dirty)
    PROVE  /\ MapOnly(A, B, c, {i})
           /\ B.map[c][i] = [alloc |-> TRUE, large |-> TRUE, size |-> n,
                             dirty |-> dirty, unz |-> A.map[c][i].unz]
<1> DEFINE b == [alloc |-> TRUE, large |-> TRUE, size |-> n, dirty |-> dirty,
                 unz |-> A.map[c][i].unz]
<1>1. b \in Bits
  BY ElemType DEF Bits
<1>2. B = SetElem(A, c, i, b)
  BY DEF SetElem, arena_mapbits_large_set
<1> HIDE DEF b
<1>3. MapOnly(A, B, c, {i}) /\ B.map[c][i] = b
  BY <1>1, <1>2, ElemSet
<1> QED
  BY <1>3 DEF b

LEMMA SizeSet ==
    ASSUME NEW A, IsArena(A), NEW c \in Chunks, NEW i \in Pages, NEW n \in 0 .. NPages,
           NEW B, B = arena_mapbits_unallocated_size_set(A, c, i, n)
    PROVE  /\ MapOnly(A, B, c, {i})
           /\ B.map[c][i] = [A.map[c][i] EXCEPT !.size = n]
<1> DEFINE b == [A.map[c][i] EXCEPT !.size = n]
<1>1. b \in Bits
  BY ElemType DEF Bits
<1>2. B = SetElem(A, c, i, b)
  BY DEF SetElem, arena_mapbits_unallocated_size_set
<1> HIDE DEF b
<1>3. MapOnly(A, B, c, {i}) /\ B.map[c][i] = b
  BY <1>1, <1>2, ElemSet
<1> QED
  BY <1>3 DEF b

LEMMA MapOnlyTwice ==
    ASSUME NEW A, NEW B, NEW C, NEW c \in Chunks, NEW X, NEW Y,
           MapOnly(A, B, c, X), MapOnly(B, C, c, Y)
    PROVE  MapOnly(A, C, c, X \cup Y)
  BY DEF MapOnly, Else, Kept

LEMMA MapOnlyWider ==
    ASSUME NEW A, NEW B, NEW c \in Chunks, NEW X, NEW Y, MapOnly(A, B, c, X), X \subseteq Y
    PROVE  MapOnly(A, B, c, Y)
  BY DEF MapOnly, Else, Kept

-----------------------------------------------------------------------------
(* What a page map stands for: free runs and allocated runs.               *)

Span(i, n) == i .. i + n - 1

\* The pages that hold something are known to, unless the first one says dirty.
Clean(m, T, i, n) == m[i].dirty \/ \A k \in Span(i, n) : k \in T => m[k].unz

\* The map m has a free run at i; the pages T hold something other than zeros.
FreeAt(m, T, i) ==
    LET n == m[i].size
    IN  /\ i \in Pages /\ n \in Nat \ {0} /\ i + n - 1 <= NPages
        /\ ~m[i].alloc /\ ~m[i + n - 1].alloc
        /\ m[i + n - 1].size = n /\ m[i + n - 1].dirty = m[i].dirty
        /\ Clean(m, T, i, n)

\* The map m has the allocated run r.
RunAt(m, r) ==
    /\ r.i \in Pages /\ r.n \in Nat \ {0} /\ r.i + r.n - 1 <= NPages
    /\ m[r.i].alloc /\ m[r.i + r.n - 1].alloc
    /\ m[r.i].large = ~r.small
    /\ IF r.small THEN r.n = SmallPages ELSE m[r.i].size = r.n

FreeSpan(m, i) == Span(i, m[i].size)
RunSpan(r) == Span(r.i, r.n)

\* The free runs at F and the allocated runs R share no page, and have all pages
\* but those of the hole X.
Layout(m, T, F, R, X) ==
    /\ \A i \in F : FreeAt(m, T, i) /\ \A k \in FreeSpan(m, i) : k \notin X
    /\ \A r \in R : RunAt(m, r) /\ \A k \in RunSpan(r) : k \notin X
    /\ \A i, j \in F : i # j => \A k \in FreeSpan(m, i) : k \notin FreeSpan(m, j)
    /\ \A r, s \in R : r # s => \A k \in RunSpan(r) : k \notin RunSpan(s)
    /\ \A i \in F, r \in R : \A k \in FreeSpan(m, i) : k \notin RunSpan(r)
    /\ \A k \in Pages \ X : \/ \E i \in F : k \in FreeSpan(m, i)
                            \/ \E r \in R : k \in RunSpan(r)

LEMMA LayoutRemove ==
    ASSUME NEW m, NEW T, NEW F, NEW R, NEW X, Layout(m, T, F, R, X), NEW i \in F
    PROVE  Layout(m, T, F \ {i}, R, X \cup FreeSpan(m, i))
  BY DEF Layout

LEMMA LayoutInsert ==
    ASSUME NEW m, NEW T, NEW F, NEW R, NEW X, Layout(m, T, F, R, X),
           NEW i, FreeAt(m, T, i), \A k \in FreeSpan(m, i) : k \in X
    PROVE  Layout(m, T, F \cup {i}, R, X \ FreeSpan(m, i)) /\ i \notin F
<1>1. i \in FreeSpan(m, i)
  BY DEF FreeAt, FreeSpan, Span, Pages
<1> QED
  BY <1>1 DEF Layout

LEMMA LayoutTake ==
    ASSUME NEW m, NEW T, NEW F, NEW R, NEW X, Layout(m, T, F, R, X), NEW r \in R
    PROVE  Layout(m, T, F, R \ {r}, X \cup RunSpan(r))
  BY DEF Layout

LEMMA LayoutAdd ==
    ASSUME NEW m, NEW T, NEW F, NEW R, NEW X, Layout(m, T, F, R, X),
           NEW r, RunAt(m, r), \A k \in RunSpan(r) : k \in X
    PROVE  Layout(m, T, F, R \cup {r}, X \ RunSpan(r)) /\ r \notin R
<1>1. r.i \in RunSpan(r)
  BY DEF RunAt, RunSpan, Span, Pages
<1> QED
  BY <1>1 DEF Layout

LEMMA LayoutMap ==
    ASSUME NEW m, NEW T, NEW F, NEW R, NEW X, Layout(m, T, F, R, X),
           NEW w, \A k \in Pages \ X : w[k] = m[k]
    PROVE  /\ Layout(w, T, F, R, X)
           /\ \A i \in F : w[i] = m[i] /\ FreeSpan(w, i) = FreeSpan(m, i)
<1>1. ASSUME NEW i \in F
      PROVE  w[i] = m[i] /\ FreeSpan(w, i) = FreeSpan(m, i) /\ FreeAt(w, T, i)
  <2>1. /\ FreeAt(m, T, i) /\ \A k \in FreeSpan(m, i) : k \in Pages \ X
        /\ i \in FreeSpan(m, i) /\ i + m[i].size - 1 \in FreeSpan(m, i)
    BY ArenaRunsAssumption DEF Layout, FreeAt, FreeSpan, Span, Pages
  <2>2. \A k \in FreeSpan(m, i) : w[k] = m[k]
    BY <2>1
  <2> QED
    BY <2>1, <2>2 DEF FreeAt, FreeSpan, Clean
<1>2. ASSUME NEW r \in R
      PROVE  RunAt(w, r)
  <2>1. /\ RunAt(m, r) /\ \A k \in RunSpan(r) : k \in Pages \ X
        /\ r.i \in RunSpan(r) /\ r.i + r.n - 1 \in RunSpan(r)
    BY ArenaRunsAssumption DEF Layout, RunAt, RunSpan, Span, Pages
  <2>2. w[r.i] = m[r.i] /\ w[r.i + r.n - 1] = m[r.i + r.n - 1]
    BY <2>1
  <2> QED
    BY <2>1, <2>2 DEF RunAt
<1> QED
  BY <1>1, <1>2 DEF Layout

\* Whoever has an allocated run may write to it.
LEMMA LayoutTouch ==
    ASSUME NEW m, NEW T, NEW F, NEW R, NEW X, Layout(m, T, F, R, X),
           NEW U, \A k \in U \ T : k \in X \/ \E r \in R : k \in RunSpan(r)
    PROVE  Layout(m, U, F, R, X)
<1>1. ASSUME NEW i \in F
      PROVE  FreeAt(m, U, i)
  BY DEF Layout, FreeAt, FreeSpan, Clean
<1> QED
  BY <1>1 DEF Layout

\* Whoever has an allocated run may change the unzeroed flags of its pages.
LEMMA LayoutFlags ==
    ASSUME NEW m, NEW T, NEW F, NEW R, NEW X, Layout(m, T, F, R, X),
           NEW w, \A k \in Pages : \/ w[k] = m[k]
                                   \/ /\ \E r \in R : k \in RunSpan(r)
                                      /\ w[k].alloc = m[k].alloc /\ w[k].large = m[k].large
                                      /\ w[k].size = m[k].size
    PROVE  /\ Layout(w, T, F, R, X)
           /\ \A i \in F : w[i] = m[i] /\ FreeSpan(w, i) = FreeSpan(m, i)
<1>1. ASSUME NEW i \in F
      PROVE  w[i] = m[i] /\ FreeSpan(w, i) = FreeSpan(m, i) /\ FreeAt(w, T, i)
  <2>1. /\ FreeAt(m, T, i) /\ \A k \in FreeSpan(m, i) : k \in Pages
        /\ i \in FreeSpan(m, i) /\ i + m[i].size - 1 \in FreeSpan(m, i)
    BY ArenaRunsAssumption DEF Layout, FreeAt, FreeSpan, Span, Pages
  <2>2. \A k \in FreeSpan(m, i) : w[k] = m[k]
    BY <2>1 DEF Layout
  <2> QED
    BY <2>1, <2>2 DEF FreeAt, FreeSpan, Clean
<1>2. ASSUME NEW r \in R
      PROVE  RunAt(w, r)
  <2>1. RunAt(m, r) /\ r.i \in Pages /\ r.i + r.n - 1 \in Pages
    BY ArenaRunsAssumption DEF Layout, RunAt, RunSpan, Span, Pages
  <2>2. /\ w[r.i].alloc = m[r.i].alloc /\ w[r.i].large = m[r.i].large
        /\ w[r.i].size = m[r.i].size /\ w[r.i + r.n - 1].alloc = m[r.i + r.n - 1].alloc
    BY <2>1
  <2> QED
    BY <2>1, <2>2 DEF RunAt
<1> QED
  BY <1>1, <1>2 DEF Layout

\* The page after a hole, or the first one, begins a run; the one before a hole ends one.
LEMMA HeadAfter ==
    ASSUME NEW m, NEW T, NEW F, NEW R, NEW X, Layout(m, T, F, R, X),
           NEW k \in Pages, k \notin X, k = 1 \/ k - 1 \in X
    PROVE  /\ k \in F \/ \E r \in R : r.i = k
           /\ ~m[k].alloc => k \in F
<1>1. CASE \E i \in F : k \in FreeSpan(m, i)
  <2>1. PICK i \in F : k \in FreeSpan(m, i)
    BY <1>1
  <2>2. i = k
    BY <2>1 DEF Layout, FreeAt, FreeSpan, Span, Pages
  <2> QED
    BY <2>2
<1>2. CASE \E r \in R : k \in RunSpan(r)
  <2>1. PICK r \in R : k \in RunSpan(r)
    BY <1>2
  <2>2. RunAt(m, r) /\ \A x \in RunSpan(r) : x \notin X
    BY DEF Layout
  <2>3. r.i = k
    BY <2>1, <2>2 DEF RunAt, RunSpan, Span, Pages
  <2> QED
    BY <2>2, <2>3 DEF RunAt
<1> QED
  BY <1>1, <1>2 DEF Layout

LEMMA TailBefore ==
    ASSUME NEW m, NEW T, NEW F, NEW R, NEW X, Layout(m, T, F, R, X),
           NEW k \in Pages, k \notin X, k + 1 \in X, ~m[k].alloc
    PROVE  /\ k + 1 - m[k].size \in F /\ m[k].size \in Nat \ {0}
           /\ m[k + 1 - m[k].size].size = m[k].size
<1>1. CASE \E i \in F : k \in FreeSpan(m, i)
  <2>1. PICK i \in F : k \in FreeSpan(m, i)
    BY <1>1
  <2>2. FreeAt(m, T, i) /\ \A x \in FreeSpan(m, i) : x \notin X
    BY DEF Layout
  <2>3. i + m[i].size - 1 = k
    BY <2>1, <2>2 DEF FreeAt, FreeSpan, Span, Pages
  <2>4. m[k].size = m[i].size /\ m[i].size \in Nat \ {0} /\ i \in Pages
    BY <2>2, <2>3 DEF FreeAt
  <2>5. k + 1 - m[k].size = i
    BY <2>3, <2>4 DEF Pages
  <2> QED
    BY <2>4, <2>5
<1>2. CASE \E r \in R : k \in RunSpan(r)
  <2>1. PICK r \in R : k \in RunSpan(r)
    BY <1>2
  <2>2. RunAt(m, r) /\ \A x \in RunSpan(r) : x \notin X
    BY DEF Layout
  <2>3. r.i + r.n - 1 = k
    BY <2>1, <2>2 DEF RunAt, RunSpan, Span, Pages
  <2> QED
    BY <2>2, <2>3 DEF RunAt
<1> QED
  BY <1>1, <1>2 DEF Layout

DirtyPages(m, F) == {k \in Pages : \E i \in F : m[i].dirty /\ k \in FreeSpan(m, i)}

LEMMA SpanSize ==
    ASSUME NEW i \in Nat, NEW n \in Nat
    PROVE  IsFiniteSet(Span(i, n)) /\ Cardinality(Span(i, n)) = n
<1>1. /\ IsFiniteSet(i .. i + n - 1)
      /\ Cardinality(i .. i + n - 1) = IF i > i + n - 1 THEN 0 ELSE i + n - 1 - i + 1
  BY FS_Interval
<1> QED
  BY <1>1 DEF Span

LEMMA DirtyFinite ==
    ASSUME NEW m, NEW F
    PROVE  IsFiniteSet(DirtyPages(m, F)) /\ Cardinality(DirtyPages(m, F)) \in Nat
<1>1. IsFiniteSet(Pages)
  BY FS_Interval, ArenaRunsAssumption DEF Pages
<1>2. DirtyPages(m, F) \subseteq Pages
  BY DEF DirtyPages
<1> QED
  BY <1>1, <1>2, FS_Subset, FS_CardinalityType

\* The dirty pages with and without the free run at i.
LEMMA DirtyCount ==
    ASSUME NEW m, NEW T, NEW F, NEW R, NEW X, Layout(m, T, F, R, X), NEW i \in F
    PROVE  Cardinality(DirtyPages(m, F)) =
             Cardinality(DirtyPages(m, F \ {i})) + (IF m[i].dirty THEN m[i].size ELSE 0)
<1> DEFINE G == F \ {i}
<1>1. /\ FreeAt(m, T, i)
      /\ \A j \in G : \A k \in FreeSpan(m, j) : k \notin FreeSpan(m, i)
  BY DEF Layout
<1>2. i \in Nat /\ m[i].size \in Nat /\ \A k \in FreeSpan(m, i) : k \in Pages
  BY <1>1, ArenaRunsAssumption DEF FreeAt, FreeSpan, Span, Pages
<1>3. CASE m[i].dirty
  <2>1. DirtyPages(m, F) = DirtyPages(m, G) \cup FreeSpan(m, i)
    BY <1>2, <1>3 DEF DirtyPages
  <2>2. DirtyPages(m, G) \cap FreeSpan(m, i) = {}
    BY <1>1 DEF DirtyPages
  <2>3. IsFiniteSet(FreeSpan(m, i)) /\ Cardinality(FreeSpan(m, i)) = m[i].size
    BY <1>2, SpanSize DEF FreeSpan
  <2>4. Cardinality(DirtyPages(m, F)) =
          Cardinality(DirtyPages(m, G)) + Cardinality(FreeSpan(m, i)) - Cardinality({})
    BY <2>1, <2>2, <2>3, DirtyFinite, FS_Union, ZenonT(60)
  <2>5. Cardinality({}) = 0
    BY FS_EmptySet
  <2>6. Cardinality(DirtyPages(m, G)) \in Nat
    BY DirtyFinite
  <2> QED
    BY <1>2, <1>3, <2>3, <2>4, <2>5, <2>6
<1>4. CASE ~m[i].dirty
  <2>1. DirtyPages(m, F) = DirtyPages(m, G)
    BY <1>4 DEF DirtyPages
  <2>2. Cardinality(DirtyPages(m, G)) \in Nat
    BY DirtyFinite
  <2> QED
    BY <1>4, <2>1, <2>2
<1> QED
  BY <1>3, <1>4

-----------------------------------------------------------------------------
(* The tree of free runs.                                                  *)

\* Chunk c has the allocated runs R, and the pages X belong to no run.
View(A, c, T, R, X) ==
    /\ Layout(A.map[c], T, Avail(A, c), R, X)
    /\ A.cnt[c].dirty = Cardinality(DirtyPages(A.map[c], Avail(A, c)))

LEMMA AdjacentType ==
    ASSUME NEW A, NEW c, NEW i, NEW n, NEW p, NEW s
    PROVE  Adjacent(A, c, i, n, p, s) \in Int
<1>1. /\ (IF p /\ arena_avail_adjac_pred(A, c, i) THEN 1 ELSE 0) \in Int
      /\ (IF s /\ arena_avail_adjac_succ(A, c, i, n) THEN 1 ELSE 0) \in Int
  OBVIOUS
<1> QED
  BY <1>1 DEF Adjacent

LEMMA RemoveFields ==
    ASSUME NEW A, IsArena(A), NEW c \in Chunks, NEW i \in Pages, NEW n \in Nat, NEW p, NEW s,
           NEW B, B = arena_avail_remove(A, c, i, n, p, s)
    PROVE  /\ Else(A, B, c) /\ B.map = A.map
           /\ B.avail = A.avail \ {<<c, i>>} /\ Avail(B, c) = Avail(A, c) \ {i}
           /\ B.cnt[c].dirty = A.cnt[c].dirty - (IF A.map[c][i].dirty THEN n ELSE 0)
<1> DEFINE k == Adjacent(A, c, i, n, p, s)
           d == IF A.map[c][i].dirty THEN n ELSE 0
           e == [adjac |-> A.cnt[c].adjac - k, avail |-> A.cnt[c].avail - 1,
                 dirty |-> A.cnt[c].dirty - d]
           q == [A.cnt EXCEPT ![c] = e]
<1>1. k \in Int /\ d \in Int
  BY AdjacentType
<1>2. B = [map |-> A.map, cnt |-> q, avail |-> A.avail \ {<<c, i>>}, spare |-> A.spare,
           ndirty |-> A.ndirty - d, nactive |-> A.nactive, npurgatory |-> A.npurgatory]
  BY DEF IsArena, arena_avail_remove
<1> HIDE DEF k, d
<1>3. e \in [adjac : Int, avail : Int, dirty : Int] /\ e.dirty = A.cnt[c].dirty - d
  <2>1. A.cnt[c] \in [adjac : Int, avail : Int, dirty : Int]
    BY DEF IsArena
  <2>2. A.cnt[c].adjac \in Int /\ A.cnt[c].avail \in Int /\ A.cnt[c].dirty \in Int
    BY <2>1
  <2> QED
    BY <1>1, <2>2
<1> HIDE DEF e
<1>4. /\ q \in [Chunks -> [adjac : Int, avail : Int, dirty : Int]]
      /\ q[c] = e /\ \A x \in Chunks \ {c} : q[x] = A.cnt[x]
  BY <1>3 DEF IsArena
<1> HIDE DEF q
<1>5. /\ B.map = A.map /\ B.cnt = q /\ B.avail = A.avail \ {<<c, i>>} /\ B.spare = A.spare
      /\ B.ndirty = A.ndirty - d /\ B.nactive = A.nactive /\ B.npurgatory = A.npurgatory
  BY <1>2
<1>6. IsArena(B)
  <2>1. B = [map |-> B.map, cnt |-> B.cnt, avail |-> B.avail, spare |-> B.spare,
             ndirty |-> B.ndirty, nactive |-> B.nactive, npurgatory |-> B.npurgatory]
    BY <1>2, <1>5
  <2> QED
    BY <1>4, <1>5, <2>1 DEF IsArena
<1>7. /\ \A x \in Chunks \ {c} : Avail(B, x) = Avail(A, x)
      /\ Avail(B, c) = Avail(A, c) \ {i}
  BY <1>5 DEF Avail
<1>8. d = IF A.map[c][i].dirty THEN n ELSE 0
  BY DEF d
<1> QED
  BY <1>3, <1>4, <1>5, <1>6, <1>7, <1>8 DEF Else

LEMMA InsertFields ==
    ASSUME NEW A, IsArena(A), NEW c \in Chunks, NEW i \in Pages, NEW n \in Nat, NEW p, NEW s,
           NEW B, B = arena_avail_insert(A, c, i, n, p, s)
    PROVE  /\ Else(A, B, c) /\ B.map = A.map
           /\ B.avail = A.avail \cup {<<c, i>>} /\ Avail(B, c) = Avail(A, c) \cup {i}
           /\ B.cnt[c].dirty = A.cnt[c].dirty + (IF A.map[c][i].dirty THEN n ELSE 0)
<1> DEFINE k == Adjacent(A, c, i, n, p, s)
           d == IF A.map[c][i].dirty THEN n ELSE 0
           e == [adjac |-> A.cnt[c].adjac + k, avail |-> A.cnt[c].avail + 1,
                 dirty |-> A.cnt[c].dirty + d]
           q == [A.cnt EXCEPT ![c] = e]
<1>1. k \in Int /\ d \in Int
  BY AdjacentType
<1>2. B = [map |-> A.map, cnt |-> q, avail |-> A.avail \cup {<<c, i>>}, spare |-> A.spare,
           ndirty |-> A.ndirty + d, nactive |-> A.nactive, npurgatory |-> A.npurgatory]
  BY DEF IsArena, arena_avail_insert
<1> HIDE DEF k, d
<1>3. e \in [adjac : Int, avail : Int, dirty : Int] /\ e.dirty = A.cnt[c].dirty + d
  <2>1. A.cnt[c] \in [adjac : Int, avail : Int, dirty : Int]
    BY DEF IsArena
  <2>2. A.cnt[c].adjac \in Int /\ A.cnt[c].avail \in Int /\ A.cnt[c].dirty \in Int
    BY <2>1
  <2> QED
    BY <1>1, <2>2
<1> HIDE DEF e
<1>4. /\ q \in [Chunks -> [adjac : Int, avail : Int, dirty : Int]]
      /\ q[c] = e /\ \A x \in Chunks \ {c} : q[x] = A.cnt[x]
  BY <1>3 DEF IsArena
<1> HIDE DEF q
<1>5. /\ B.map = A.map /\ B.cnt = q /\ B.avail = A.avail \cup {<<c, i>>} /\ B.spare = A.spare
      /\ B.ndirty = A.ndirty + d /\ B.nactive = A.nactive /\ B.npurgatory = A.npurgatory
  BY <1>2
<1>6. IsArena(B)
  <2>1. B = [map |-> B.map, cnt |-> B.cnt, avail |-> B.avail, spare |-> B.spare,
             ndirty |-> B.ndirty, nactive |-> B.nactive, npurgatory |-> B.npurgatory]
    BY <1>2, <1>5
  <2>2. B.avail \subseteq Chunks \X Pages
    BY <1>5 DEF IsArena
  <2> QED
    BY <1>4, <1>5, <2>1, <2>2 DEF IsArena
<1>7. /\ \A x \in Chunks \ {c} : Avail(B, x) = Avail(A, x)
      /\ Avail(B, c) = Avail(A, c) \cup {i}
  BY <1>5 DEF Avail
<1>8. d = IF A.map[c][i].dirty THEN n ELSE 0
  BY DEF d
<1> QED
  BY <1>3, <1>4, <1>5, <1>6, <1>7, <1>8 DEF Else

Removed(A, B, c, i) ==
    Else(A, B, c) /\ B.map = A.map /\ Avail(B, c) = Avail(A, c) \ {i}
Inserted(A, B, c, i) ==
    Else(A, B, c) /\ B.map = A.map /\ Avail(B, c) = Avail(A, c) \cup {i}

LEMMA ViewRemove ==
    ASSUME NEW A, IsArena(A), NEW c \in Chunks, NEW T, NEW R, NEW X, View(A, c, T, R, X),
           NEW i \in Avail(A, c), NEW p, NEW s,
           NEW B, B = arena_avail_remove(A, c, i, A.map[c][i].size, p, s),
           NEW Y, Y = X \cup FreeSpan(A.map[c], i)
    PROVE  Removed(A, B, c, i) /\ View(B, c, T, R, Y)
<1> DEFINE m == A.map[c]
           F == Avail(A, c)
           d == IF m[i].dirty THEN m[i].size ELSE 0
<1>1. Layout(m, T, F, R, X) /\ A.cnt[c].dirty = Cardinality(DirtyPages(m, F))
  BY DEF View
<1>2. i \in Pages /\ m[i].size \in Nat
  BY ElemType, ArenaRunsAssumption DEF Avail
<1>3. /\ Else(A, B, c) /\ B.map = A.map /\ Avail(B, c) = F \ {i}
      /\ B.cnt[c].dirty = A.cnt[c].dirty - d
  BY <1>2, RemoveFields
<1>4. Layout(m, T, F \ {i}, R, X \cup FreeSpan(m, i))
  BY <1>1, LayoutRemove
<1>5. Cardinality(DirtyPages(m, F)) = Cardinality(DirtyPages(m, F \ {i})) + d
  BY <1>1, DirtyCount
<1>6. d \in Nat /\ Cardinality(DirtyPages(m, F \ {i})) \in Nat
  BY <1>2, DirtyFinite
<1>7. B.cnt[c].dirty = Cardinality(DirtyPages(m, F \ {i}))
  BY <1>1, <1>3, <1>5, <1>6
<1> QED
  BY <1>3, <1>4, <1>7 DEF View, Removed

LEMMA ViewInsert ==
    ASSUME NEW A, IsArena(A), NEW c \in Chunks, NEW T, NEW R, NEW X, View(A, c, T, R, X),
           NEW i, FreeAt(A.map[c], T, i), \A k \in FreeSpan(A.map[c], i) : k \in X,
           NEW p, NEW s,
           NEW B, B = arena_avail_insert(A, c, i, A.map[c][i].size, p, s),
           NEW Y, Y = X \ FreeSpan(A.map[c], i)
    PROVE  Inserted(A, B, c, i) /\ View(B, c, T, R, Y)
<1> DEFINE m == A.map[c]
           F == Avail(A, c)
           d == IF m[i].dirty THEN m[i].size ELSE 0
<1>1. Layout(m, T, F, R, X) /\ A.cnt[c].dirty = Cardinality(DirtyPages(m, F))
  BY DEF View
<1>2. i \in Pages /\ m[i].size \in Nat
  BY DEF FreeAt
<1>3. /\ Else(A, B, c) /\ B.map = A.map /\ Avail(B, c) = F \cup {i}
      /\ B.cnt[c].dirty = A.cnt[c].dirty + d
  BY <1>2, InsertFields
<1>4. Layout(m, T, F \cup {i}, R, X \ FreeSpan(m, i)) /\ i \notin F
  BY <1>1, LayoutInsert
<1>5. (F \cup {i}) \ {i} = F
  BY <1>4
<1>6. Cardinality(DirtyPages(m, F \cup {i})) = Cardinality(DirtyPages(m, F)) + d
  <2>1. i \in F \cup {i}
    OBVIOUS
  <2>2. Cardinality(DirtyPages(m, F \cup {i})) =
          Cardinality(DirtyPages(m, (F \cup {i}) \ {i})) + d
    BY <1>4, <2>1, DirtyCount
  <2> QED
    BY <1>5, <2>2
<1> QED
  BY <1>1, <1>3, <1>4, <1>6 DEF View, Inserted

\* B differs from A in chunk c only, and in its map on the pages X only.
Within(A, B, c, X) == Else(A, B, c) /\ Kept(A, B, c, X)

LEMMA WithinTwice ==
    ASSUME NEW A, NEW B, NEW C, NEW c \in Chunks, NEW X, NEW Y, NEW Z,
           Within(A, B, c, X), Within(B, C, c, Y),
           \A k \in Pages : k \in X \/ k \in Y => k \in Z
    PROVE  Within(A, C, c, Z)
  BY DEF Within, Else, Kept

LEMMA WithinSelf ==
    ASSUME NEW A, IsArena(A), NEW c \in Chunks, NEW X
    PROVE  Within(A, A, c, X)
  BY DEF Within, Else, Kept

LEMMA ViewMap ==
    ASSUME NEW A, IsArena(A), NEW c \in Chunks, NEW T, NEW R, NEW X, View(A, c, T, R, X),
           NEW B, NEW Y, MapOnly(A, B, c, Y), \A k \in Y : k \in X
    PROVE  Within(A, B, c, Y) /\ View(B, c, T, R, X) /\ Avail(B, c) = Avail(A, c)
<1> DEFINE m == A.map[c]
           w == B.map[c]
           F == Avail(A, c)
<1>1. /\ Layout(m, T, F, R, X) /\ A.cnt[c].dirty = Cardinality(DirtyPages(m, F))
      /\ Avail(B, c) = F /\ B.cnt = A.cnt /\ \A k \in Pages \ X : w[k] = m[k]
  BY DEF View, MapOnly, Kept, Avail
<1> HIDE DEF m, w, F
<1>2. Layout(w, T, F, R, X) /\ \A i \in F : w[i] = m[i] /\ FreeSpan(w, i) = FreeSpan(m, i)
  BY <1>1, LayoutMap
<1>3. DirtyPages(w, F) = DirtyPages(m, F)
  BY <1>2 DEF DirtyPages
<1>4. Within(A, B, c, Y)
  BY DEF MapOnly, Within
<1>5. View(B, c, T, R, X)
  BY <1>1, <1>2, <1>3 DEF View, m, w, F
<1> QED
  BY <1>1, <1>4, <1>5 DEF F

LEMMA ViewTake ==
    ASSUME NEW A, NEW c, NEW T, NEW R, NEW X, View(A, c, T, R, X), NEW r \in R,
           NEW Y, Y = X \cup RunSpan(r), NEW Q, Q = R \ {r}
    PROVE  View(A, c, T, Q, Y)
  BY LayoutTake DEF View

LEMMA ViewAdd ==
    ASSUME NEW A, NEW c, NEW T, NEW R, NEW X, View(A, c, T, R, X),
           NEW r, RunAt(A.map[c], r), \A k \in RunSpan(r) : k \in X,
           NEW Y, Y = X \ RunSpan(r), NEW Q, Q = R \cup {r}
    PROVE  View(A, c, T, Q, Y) /\ r \notin R
  BY LayoutAdd DEF View

LEMMA ViewTouch ==
    ASSUME NEW A, NEW c, NEW T, NEW R, NEW X, View(A, c, T, R, X),
           NEW U, \A k \in U \ T : k \in X \/ \E r \in R : k \in RunSpan(r)
    PROVE  View(A, c, U, R, X)
  BY LayoutTouch DEF View

\* Counters of the arena as a whole.
WithActive(A, v) == [A EXCEPT !.nactive = v]
WithPurgatory(A, v) == [A EXCEPT !.npurgatory = v]
WithSpare(A, v) == [A EXCEPT !.spare = v]

LEMMA ActiveOnly ==
    ASSUME NEW A, IsArena(A), NEW c \in Chunks, NEW v
    PROVE  MapOnly(A, WithActive(A, v), c, {}) /\ WithActive(A, v).map = A.map
<1> DEFINE B == WithActive(A, v)
<1>1. B = [map |-> A.map, cnt |-> A.cnt, avail |-> A.avail, spare |-> A.spare,
           ndirty |-> A.ndirty, nactive |-> v, npurgatory |-> A.npurgatory]
  BY DEF IsArena, WithActive
<1> HIDE DEF B
<1>2. /\ B.map = A.map /\ B.cnt = A.cnt /\ B.avail = A.avail /\ B.spare = A.spare
      /\ B.ndirty = A.ndirty /\ B.nactive = v /\ B.npurgatory = A.npurgatory
  BY <1>1
<1>3. IsArena(B)
  BY <1>1, <1>2 DEF IsArena
<1> QED
  BY <1>2, <1>3 DEF MapOnly, Else, Kept, Avail, B

LEMMA PurgatoryOnly ==
    ASSUME NEW A, IsArena(A), NEW c \in Chunks, NEW v
    PROVE  MapOnly(A, WithPurgatory(A, v), c, {}) /\ WithPurgatory(A, v).map = A.map
<1> DEFINE B == WithPurgatory(A, v)
<1>1. B = [map |-> A.map, cnt |-> A.cnt, avail |-> A.avail, spare |-> A.spare,
           ndirty |-> A.ndirty, nactive |-> A.nactive, npurgatory |-> v]
  BY DEF IsArena, WithPurgatory
<1> HIDE DEF B
<1>2. /\ B.map = A.map /\ B.cnt = A.cnt /\ B.avail = A.avail /\ B.spare = A.spare
      /\ B.ndirty = A.ndirty /\ B.nactive = A.nactive /\ B.npurgatory = v
  BY <1>1
<1>3. IsArena(B)
  BY <1>1, <1>2 DEF IsArena
<1> QED
  BY <1>2, <1>3 DEF MapOnly, Else, Kept, Avail, B

LEMMA SpareOnly ==
    ASSUME NEW A, IsArena(A), NEW v \in Chunks \cup {None}, NEW B, B = WithSpare(A, v)
    PROVE  IsArena(B) /\ B.map = A.map /\ B.cnt = A.cnt /\ B.avail = A.avail /\ B.spare = v
<1>1. B = [map |-> A.map, cnt |-> A.cnt, avail |-> A.avail, spare |-> v,
           ndirty |-> A.ndirty, nactive |-> A.nactive, npurgatory |-> A.npurgatory]
  BY DEF IsArena, WithSpare
<1>2. /\ B.map = A.map /\ B.cnt = A.cnt /\ B.avail = A.avail /\ B.spare = v
      /\ B.ndirty = A.ndirty /\ B.nactive = A.nactive /\ B.npurgatory = A.npurgatory
  BY <1>1
<1>3. IsArena(B)
  BY <1>1, <1>2 DEF IsArena
<1> QED
  BY <1>2, <1>3

-----------------------------------------------------------------------------
(* Splitting.                                                              *)

\* Both ends of a free run are written; what is between keeps its flags.
FreeMarked(A, c, i, n, d, u, v) ==
    arena_mapbits_unallocated_set(arena_mapbits_unallocated_set(A, c, i, n, d, u),
                                  c, i + n - 1, n, d, v)

FreeRun(m, T, i, n, d) == FreeAt(m, T, i) /\ m[i].size = n /\ m[i].dirty = d

MayMark(m, T, i, n, d, u, v) ==
    /\ i \in Pages /\ n \in Nat \ {0} /\ i + n - 1 <= NPages
    /\ d \in BOOLEAN /\ u \in BOOLEAN /\ v \in BOOLEAN
    /\ d \/ \A k \in Span(i, n) : k \in T => m[k].unz
    /\ ~d => u = m[i].unz /\ v = m[i + n - 1].unz

LEMMA MarkedFree ==
    ASSUME NEW A, IsArena(A), NEW c \in Chunks, NEW T, NEW i, NEW n, NEW d, NEW u, NEW v,
           MayMark(A.map[c], T, i, n, d, u, v),
           NEW B, B = FreeMarked(A, c, i, n, d, u, v)
    PROVE  MapOnly(A, B, c, Span(i, n)) /\ FreeRun(B.map[c], T, i, n, d)
<1> DEFINE C == arena_mapbits_unallocated_set(A, c, i, n, d, u)
           last == i + n - 1
<1>0. /\ i \in Pages /\ n \in Nat \ {0} /\ i + n - 1 <= NPages
      /\ d \in BOOLEAN /\ u \in BOOLEAN /\ v \in BOOLEAN
      /\ d \/ \A k \in Span(i, n) : k \in T => A.map[c][k].unz
      /\ ~d => u = A.map[c][i].unz /\ v = A.map[c][i + n - 1].unz
  BY DEF MayMark
<1>1. n \in 0 .. NPages /\ last \in Pages
  BY <1>0, ArenaRunsAssumption DEF Pages
<1>2. /\ MapOnly(A, C, c, {i})
      /\ C.map[c][i] = [alloc |-> FALSE, large |-> FALSE, size |-> n, dirty |-> d, unz |-> u]
  BY <1>0, <1>1, UnallocatedSet
<1>3. IsArena(C)
  BY <1>2 DEF MapOnly, Else
<1>4. B = arena_mapbits_unallocated_set(C, c, last, n, d, v)
  BY DEF FreeMarked
<1> HIDE DEF C, last
<1>5. /\ MapOnly(C, B, c, {last})
      /\ B.map[c][last] = [alloc |-> FALSE, large |-> FALSE, size |-> n, dirty |-> d, unz |-> v]
  BY <1>1, <1>3, <1>4, <1>0, UnallocatedSet
<1>6. MapOnly(A, B, c, {i} \cup {last})
  BY <1>2, <1>5, MapOnlyTwice
<1>7. {i} \cup {last} \subseteq Span(i, n)
  BY <1>0 DEF last, Span, Pages
<1>8. MapOnly(A, B, c, Span(i, n))
  BY <1>6, <1>7, MapOnlyWider
<1>9. /\ i # last => B.map[c][i] = C.map[c][i]
      /\ \A k \in Pages : k # i /\ k # last => B.map[c][k] = A.map[c][k]
  BY <1>0, <1>1, <1>5, <1>6 DEF MapOnly, Kept
<1>10. /\ B.map[c][i].alloc = FALSE /\ B.map[c][i].size = n /\ B.map[c][i].dirty = d
       /\ B.map[c][last].alloc = FALSE /\ B.map[c][last].size = n /\ B.map[c][last].dirty = d
       /\ i # last => B.map[c][i].unz = u
       /\ B.map[c][last].unz = v
  BY <1>2, <1>5, <1>9
<1>11. \A k \in Span(i, n) : k \in Pages
  BY <1>0, ArenaRunsAssumption DEF Span, Pages
<1>12. ~d => \A k \in Span(i, n) : B.map[c][k].unz = A.map[c][k].unz
  BY <1>0, <1>9, <1>10, <1>11 DEF last
<1>13. Clean(B.map[c], T, i, n)
  BY <1>0, <1>10, <1>12 DEF Clean
<1> QED
  BY <1>0, <1>8, <1>10, <1>13 DEF FreeAt, FreeRun, last

\* The first need pages of a free run are cut off it, and belong to no run yet.
LEMMA SplitRemove ==
    ASSUME NEW A, IsArena(A), NEW c \in Chunks, NEW T, NEW R, View(A, c, T, R, {}),
           NEW i \in Avail(A, c), NEW need \in Nat \ {0}, need <= A.map[c][i].size,
           NEW B, B = arena_run_split_remove(A, c, i, need)
    PROVE  /\ Within(A, B, c, Span(i + need, A.map[c][i].size - need))
           /\ View(B, c, T, R, Span(i, need))
<1> DEFINE m == A.map[c]
           n == m[i].size
           rest == i + need
           last == i + n - 1
           cut0 == arena_avail_remove(A, c, i, n, TRUE, TRUE)
           v == (cut0.nactive + need) % Word
           cut == WithActive(cut0, v)
           u1 == ~m[i].dirty /\ m[rest].unz
           u2 == ~m[i].dirty /\ m[last].unz
           marked == FreeMarked(cut, c, rest, n - need, m[i].dirty, u1, u2)
<1>1. FreeAt(m, T, i) /\ i \in Pages /\ n \in Nat /\ i + n - 1 <= NPages /\ i \in Nat
  BY DEF View, Layout, FreeAt, Pages
<1>2. /\ Else(A, cut0, c) /\ cut0.map = A.map
      /\ View(cut0, c, T, R, Span(i, n))
  <2>1. Span(i, n) = {} \cup FreeSpan(A.map[c], i) /\ n = A.map[c][i].size
    BY DEF FreeSpan
  <2>2. PICK p, s : cut0 = arena_avail_remove(A, c, i, A.map[c][i].size, p, s)
    OBVIOUS
  <2>3. PICK X, Y : X = {} /\ Y = Span(i, n)
    OBVIOUS
  <2>4. View(A, c, T, R, X) /\ Y = X \cup FreeSpan(A.map[c], i)
    BY <2>1, <2>3
  <2> HIDE DEF m, n, cut0
  <2>5. Removed(A, cut0, c, i) /\ View(cut0, c, T, R, Y)
    BY <2>2, <2>4, ViewRemove
  <2> QED
    BY <2>3, <2>5 DEF Removed
<1>3. IsArena(cut0)
  BY <1>2 DEF Else
<1>4. MapOnly(cut0, cut, c, {}) /\ cut.map = A.map
  BY <1>2, <1>3, ActiveOnly
<1>6. Within(cut0, cut, c, {}) /\ View(cut, c, T, R, Span(i, n)) /\ IsArena(cut)
  <2> HIDE DEF cut, cut0
  <2>1. \A k \in {} : k \in Span(i, n)
    OBVIOUS
  <2>2. Within(cut0, cut, c, {}) /\ View(cut, c, T, R, Span(i, n))
    BY <1>2, <1>3, <1>4, <2>1, ViewMap
  <2> QED
    BY <1>4, <2>2 DEF MapOnly, Else
<1>7. Within(A, cut0, c, {})
  BY <1>2 DEF Within, Kept
<1>8. Within(A, cut, c, {})
  <2> HIDE DEF cut, cut0
  <2> QED
    BY <1>6, <1>7 DEF Within, Else, Kept
<1>9. B = IF n = need THEN cut
          ELSE arena_avail_insert(marked, c, rest, n - need, FALSE, TRUE)
  <2>1. [cut0 EXCEPT !.nactive = (@ + need) % Word] = cut
    BY DEF WithActive
  <2>2. rest + (n - need) - 1 = last
    BY <1>1
  <2> QED
    BY <2>1, <2>2 DEF arena_run_split_remove, FreeMarked
<1> HIDE DEF cut0, cut, u1, u2, v
<1>10. CASE n = need
  <2>1. B = cut /\ Span(i, n) = Span(i, need)
    BY <1>9, <1>10
  <2>2. Within(A, B, c, Span(rest, n - need))
    BY <1>8, <2>1 DEF Within, Kept
  <2> QED
    BY <1>6, <2>1, <2>2
<1>11. CASE n # need
  <2>1. rest \in Pages /\ n - need \in Nat \ {0} /\ rest + (n - need) - 1 = last /\ last <= NPages
    <3>1. need < n /\ need >= 1
      BY <1>1, <1>11
    <3> HIDE DEF n
    <3> QED
      BY <1>1, <3>1, ArenaRunsAssumption DEF Pages
  <2>2. m[i].dirty \in BOOLEAN /\ u1 \in BOOLEAN /\ u2 \in BOOLEAN
    BY <1>1, ElemType DEF u1, u2
  <2>3. ~m[i].dirty => u1 = m[rest].unz /\ u2 = m[last].unz
    <3>1. last \in Pages
      BY <1>1, <2>1 DEF Pages
    <3>2. m[rest].unz \in BOOLEAN /\ m[last].unz \in BOOLEAN
      BY <2>1, <3>1, ElemType
    <3> QED
      BY <3>2 DEF u1, u2
  <2>4. m[i].dirty \/ \A k \in Span(rest, n - need) : k \in T => m[k].unz
    BY <1>1, <2>1 DEF FreeAt, Clean, Span
  <2>5. cut.map[c] = m
    BY <1>4
  <2>6. /\ MapOnly(cut, marked, c, Span(rest, n - need))
        /\ FreeAt(marked.map[c], T, rest) /\ marked.map[c][rest].size = n - need
    <3>1. rest + (n - need) - 1 <= NPages
      BY <2>1
    <3>2. ~m[i].dirty => u1 = cut.map[c][rest].unz
                         /\ u2 = cut.map[c][rest + (n - need) - 1].unz
      BY <2>1, <2>3, <2>5
    <3>3. m[i].dirty \/ \A k \in Span(rest, n - need) : k \in T => cut.map[c][k].unz
      BY <2>4, <2>5
    <3>4. PICK l : l = n - need
      OBVIOUS
    <3>5. PICK d : d = m[i].dirty
      OBVIOUS
    <3>6. rest \in Pages /\ l \in Nat \ {0}
      BY <2>1, <3>4
    <3> HIDE DEF m, n, rest, last
    <3>8. MayMark(cut.map[c], T, rest, l, d, u1, u2)
      BY <2>2, <3>1, <3>2, <3>3, <3>4, <3>5, <3>6 DEF MayMark
    <3>9. marked = FreeMarked(cut, c, rest, l, d, u1, u2)
      BY <3>4, <3>5
    <3> HIDE DEF marked
    <3>7. MapOnly(cut, marked, c, Span(rest, l)) /\ FreeRun(marked.map[c], T, rest, l, d)
      BY <1>6, <3>8, <3>9, MarkedFree
    <3> QED
      BY <3>4, <3>7 DEF FreeRun
  <2>7. \A k \in Span(rest, n - need) : k \in Span(i, n)
    BY <1>1, <2>1 DEF Span
  <2> HIDE DEF marked
  <2>8. Within(cut, marked, c, Span(rest, n - need)) /\ View(marked, c, T, R, Span(i, n))
    BY <1>6, <2>6, <2>7, ViewMap
  <2>9. IsArena(marked)
    BY <2>8 DEF Within, Else
  <2>10. FreeSpan(marked.map[c], rest) = Span(rest, n - need)
    BY <2>6 DEF FreeSpan
  <2>11. B = arena_avail_insert(marked, c, rest, marked.map[c][rest].size, FALSE, TRUE)
    BY <1>9, <1>11, <2>6
  <2>12. /\ Else(marked, B, c) /\ B.map = marked.map
         /\ View(B, c, T, R, Span(i, need))
    <3>1. Span(i, need) = Span(i, n) \ FreeSpan(marked.map[c], rest)
      <4>1. need <= n /\ need \in Nat /\ n \in Nat /\ i \in Nat
        BY <1>1
      <4> HIDE DEF n
      <4> QED
        BY <2>10, <4>1 DEF Span
    <3>2. \A k \in FreeSpan(marked.map[c], rest) : k \in Span(i, n)
      BY <2>7, <2>10
    <3>3. PICK p, s : B = arena_avail_insert(marked, c, rest, marked.map[c][rest].size, p, s)
      BY <2>11
    <3>4. PICK X, Y : X = Span(i, n) /\ Y = Span(i, need)
      OBVIOUS
    <3> HIDE DEF m, n, rest, last
    <3>5. /\ View(marked, c, T, R, X) /\ Y = X \ FreeSpan(marked.map[c], rest)
          /\ \A k \in FreeSpan(marked.map[c], rest) : k \in X
      BY <2>8, <3>1, <3>2, <3>4
    <3>6. Inserted(marked, B, c, rest) /\ View(B, c, T, R, Y)
      BY <2>6, <2>9, <3>3, <3>5, ViewInsert
    <3> QED
      BY <3>4, <3>6 DEF Inserted
  <2>14. Within(marked, B, c, {})
    BY <2>12 DEF Within, Kept
  <2>15. Within(A, marked, c, Span(rest, n - need))
    BY <1>8, <2>8, WithinTwice
  <2>16. Within(A, B, c, Span(rest, n - need))
    BY <2>14, <2>15, WithinTwice
  <2> QED
    BY <2>12, <2>16
<1> QED
  BY <1>10, <1>11

Run(c, i, n, small) == [c |-> c, i |-> i, n |-> n, small |-> small]

\* The run at i keeps its flags, the dirty flag of its first page being d.
Flags(A, B, c, i, n, d) ==
    B.map[c][i].dirty = d /\ \A k \in Span(i, n) : B.map[c][k].unz = A.map[c][k].unz

LEMMA MarkedLarge ==
    ASSUME NEW A, IsArena(A), NEW c \in Chunks, NEW i \in Pages, NEW n \in Nat \ {0},
           i + n - 1 <= NPages, NEW d \in BOOLEAN,
           NEW B, B = MarkLarge(A, c, i, n, d)
    PROVE  /\ MapOnly(A, B, c, Span(i, n))
           /\ RunAt(B.map[c], Run(c, i, n, FALSE)) /\ Flags(A, B, c, i, n, d)
<1> DEFINE last == i + n - 1
           C == arena_mapbits_large_set(A, c, last, 0, d)
<1>1. n \in 0 .. NPages /\ last \in Pages /\ 0 \in 0 .. NPages
  BY ArenaRunsAssumption DEF Pages
<1>2. /\ MapOnly(A, C, c, {last})
      /\ C.map[c][last] = [alloc |-> TRUE, large |-> TRUE, size |-> 0, dirty |-> d,
                           unz |-> A.map[c][last].unz]
  BY <1>1, LargeSet
<1>3. IsArena(C)
  BY <1>2 DEF MapOnly, Else
<1>4. B = arena_mapbits_large_set(C, c, i, n, d)
  BY DEF MarkLarge
<1> HIDE DEF C, last
<1>5. /\ MapOnly(C, B, c, {i})
      /\ B.map[c][i] = [alloc |-> TRUE, large |-> TRUE, size |-> n, dirty |-> d,
                        unz |-> C.map[c][i].unz]
  BY <1>1, <1>3, <1>4, LargeSet
<1>6. MapOnly(A, B, c, {last} \cup {i})
  BY <1>2, <1>5, MapOnlyTwice
<1>7. {last} \cup {i} \subseteq Span(i, n)
  BY DEF last, Span, Pages
<1>8. MapOnly(A, B, c, Span(i, n))
  BY <1>6, <1>7, MapOnlyWider
<1>9. /\ i # last => B.map[c][last] = C.map[c][last] /\ C.map[c][i] = A.map[c][i]
      /\ \A k \in Pages : k # i /\ k # last => B.map[c][k] = A.map[c][k]
  BY <1>1, <1>2, <1>5, <1>6 DEF MapOnly, Kept
<1>10. /\ B.map[c][i].alloc = TRUE /\ B.map[c][i].size = n /\ B.map[c][i].dirty = d
       /\ B.map[c][i].large = TRUE /\ B.map[c][last].alloc = TRUE
       /\ B.map[c][i].unz = A.map[c][i].unz /\ B.map[c][last].unz = A.map[c][last].unz
  BY <1>2, <1>5, <1>9
<1>11. \A k \in Span(i, n) : k \in Pages
  BY ArenaRunsAssumption DEF Span, Pages
<1>12. \A k \in Span(i, n) : B.map[c][k].unz = A.map[c][k].unz
  BY <1>9, <1>10, <1>11
<1>13. RunAt(B.map[c], Run(c, i, n, FALSE))
  BY <1>10 DEF RunAt, Run, last
<1> QED
  BY <1>8, <1>10, <1>12, <1>13 DEF Flags

SetMap(A, c, w) == [A EXCEPT !.map[c] = w]

LEMMA MapSet ==
    ASSUME NEW A, IsArena(A), NEW c \in Chunks, NEW w \in [Pages -> Bits], NEW X,
           \A k \in Pages \ X : w[k] = A.map[c][k],
           NEW B, B = SetMap(A, c, w)
    PROVE  MapOnly(A, B, c, X) /\ B.map[c] = w
<1> DEFINE m == A.map
           v == [m EXCEPT ![c] = w]
<1>1. /\ B = [map |-> v, cnt |-> A.cnt, avail |-> A.avail, spare |-> A.spare,
              ndirty |-> A.ndirty, nactive |-> A.nactive, npurgatory |-> A.npurgatory]
      /\ m \in [Chunks -> [Pages -> Bits]]
  BY DEF IsArena, SetMap
<1>2. v \in [Chunks -> [Pages -> Bits]] /\ v[c] = w /\ \A d \in Chunks \ {c} : v[d] = m[d]
  BY <1>1
<1> HIDE DEF v
<1>4. /\ B.map = v /\ B.cnt = A.cnt /\ B.avail = A.avail /\ B.spare = A.spare
      /\ B.ndirty = A.ndirty /\ B.nactive = A.nactive /\ B.npurgatory = A.npurgatory
  BY <1>1
<1>5. IsArena(B)
  BY <1>1, <1>2, <1>4 DEF IsArena
<1> QED
  BY <1>2, <1>4, <1>5 DEF MapOnly, Else, Kept, Avail

\* The runs R and the run at i are the runs of the chunk.
Split(A, B, c, T, R, i, n, small) ==
    /\ Within(A, B, c, FreeSpan(A.map[c], i))
    /\ View(B, c, T, R \cup {Run(c, i, n, small)}, {})
    /\ Run(c, i, n, small) \notin R
    /\ Clean(B.map[c], T, i, n)

\* What arena_run_split_remove left without a run, marked as one.
LEMMA SplitMarked ==
    ASSUME NEW A, IsArena(A), NEW c \in Chunks, NEW T, NEW R, View(A, c, T, R, {}),
           NEW i \in Avail(A, c), NEW n \in Nat \ {0}, n <= A.map[c][i].size, NEW small,
           NEW B, NEW C, C = arena_run_split_remove(A, c, i, n),
           MapOnly(C, B, c, Span(i, n)), RunAt(B.map[c], Run(c, i, n, small)),
           Flags(C, B, c, i, n, A.map[c][i].dirty)
    PROVE  Split(A, B, c, T, R, i, n, small)
<1> DEFINE m == A.map[c]
           r == Run(c, i, n, small)
           Y == Span(i + n, m[i].size - n)
<1>1. FreeAt(m, T, i) /\ i \in Nat /\ m[i].size \in Nat
  BY DEF View, Layout, FreeAt, Pages
<1>2. Within(A, C, c, Y) /\ View(C, c, T, R, Span(i, n))
  BY SplitRemove
<1>3. IsArena(C)
  BY <1>2 DEF Within, Else
<1>4. Within(C, B, c, Span(i, n)) /\ View(B, c, T, R, Span(i, n))
  BY <1>2, <1>3, ViewMap
<1>5. RunSpan(r) = Span(i, n)
  BY DEF Run, RunSpan
<1>6. View(B, c, T, R \cup {r}, {}) /\ r \notin R
  <2>1. PICK Z, Q, X : Z = {} /\ Q = R \cup {r} /\ X = Span(i, n)
    OBVIOUS
  <2>2. Z = X \ RunSpan(r) /\ \A k \in RunSpan(r) : k \in X
    BY <1>5, <2>1
  <2> HIDE DEF r
  <2>3. View(B, c, T, Q, Z) /\ r \notin R
    BY <1>4, <2>1, <2>2, ViewAdd, SMTT(40) DEF r
  <2> QED
    BY <2>1, <2>3
<1>7. Within(A, B, c, FreeSpan(m, i))
  <2>1. \A k \in Pages : k \in Y \/ k \in Span(i, n) => k \in FreeSpan(m, i)
    <3>1. PICK z \in Nat : z = m[i].size
      BY <1>1
    <3>2. n <= z
      BY <3>1
    <3>3. Y = Span(i + n, z - n) /\ FreeSpan(m, i) = Span(i, z)
      BY <3>1 DEF FreeSpan
    <3>4. \A k \in Pages : k \in Span(i + n, z - n) \/ k \in Span(i, n) => k \in Span(i, z)
      BY <1>1, <3>2 DEF Span
    <3> QED
      BY <3>3, <3>4
  <2> QED
    BY <1>2, <1>4, <2>1, WithinTwice
<1>8. Clean(B.map[c], T, i, n)
  <2>1. \A k \in Span(i, n) : k \in Span(i, m[i].size) /\ k \in Pages /\ k \notin Y
    BY <1>1, ArenaRunsAssumption, SMTT(40) DEF Span, FreeAt, Pages
  <2>2. \A k \in Span(i, n) : C.map[c][k] = m[k]
    BY <1>2, <2>1 DEF Within, Kept
  <2>3. m[i].dirty \/ \A k \in Span(i, n) : k \in T => m[k].unz
    BY <1>1, <2>1 DEF FreeAt, Clean
  <2> QED
    BY <2>2, <2>3 DEF Clean, Flags
<1> QED
  BY <1>6, <1>7, <1>8 DEF Split

LEMMA SplitLarge ==
    ASSUME NEW A, IsArena(A), NEW c \in Chunks, NEW T, NEW R, View(A, c, T, R, {}),
           NEW i \in Avail(A, c), NEW n \in Nat \ {0}, n <= A.map[c][i].size,
           NEW B, B = arena_run_split_large(A, c, i, n)
    PROVE  Split(A, B, c, T, R, i, n, FALSE)
<1> DEFINE C == arena_run_split_remove(A, c, i, n)
           d == A.map[c][i].dirty
<1>1. /\ i \in Pages /\ i + n - 1 <= NPages /\ d \in BOOLEAN
  <2>1. FreeAt(A.map[c], T, i)
    BY DEF View, Layout
  <2>2. i \in Pages /\ i + A.map[c][i].size - 1 <= NPages /\ A.map[c][i].size \in Nat
    BY <2>1 DEF FreeAt
  <2>3. d \in BOOLEAN
    BY <2>2, ElemType
  <2>4. i + n - 1 <= NPages
    BY <2>2, ArenaRunsAssumption DEF Pages
  <2> QED
    BY <2>2, <2>3, <2>4
<1>2. IsArena(C)
  BY SplitRemove DEF Within, Else
<1>3. B = MarkLarge(C, c, i, n, d)
  BY DEF arena_run_split_large
<1> HIDE DEF C, d
<1>4. /\ MapOnly(C, B, c, Span(i, n))
      /\ RunAt(B.map[c], Run(c, i, n, FALSE)) /\ Flags(C, B, c, i, n, d)
  BY <1>1, <1>2, <1>3, MarkedLarge
<1>5. C = arena_run_split_remove(A, c, i, n) /\ Flags(C, B, c, i, n, A.map[c][i].dirty)
  BY <1>4 DEF C, d
<1> QED
  BY <1>4, <1>5, SplitMarked

LEMMA SplitSmall ==
    ASSUME NEW A, IsArena(A), NEW c \in Chunks, NEW T, NEW R, View(A, c, T, R, {}),
           NEW i \in Avail(A, c), NEW n \in Nat \ {0}, n <= A.map[c][i].size, n = SmallPages,
           NEW B, B = arena_run_split_small(A, c, i, n)
    PROVE  Split(A, B, c, T, R, i, n, TRUE)
<1> DEFINE C == arena_run_split_remove(A, c, i, n)
           d == A.map[c][i].dirty
           last == i + n - 1
           w == [k \in Pages |->
                   IF k \in i .. last
                   THEN arena_mapbits_small_set(C.map[c][k], k - i, d /\ k \in {i, last})
                   ELSE C.map[c][k]]
<1>1. i \in Pages /\ i \in Nat /\ last <= NPages /\ last \in Pages /\ d \in BOOLEAN
  <2>1. FreeAt(A.map[c], T, i)
    BY DEF View, Layout
  <2>2. i \in Pages /\ i + A.map[c][i].size - 1 <= NPages /\ A.map[c][i].size \in Nat
    BY <2>1 DEF FreeAt
  <2> QED
    BY <2>2, ElemType, ArenaRunsAssumption DEF Pages
<1>2. IsArena(C)
  BY SplitRemove DEF Within, Else
<1>3. B = SetMap(C, c, w)
  BY DEF arena_run_split_small, SetMap
<1>4. C = arena_run_split_remove(A, c, i, n)
  OBVIOUS
<1> HIDE DEF C
<1>5. ASSUME NEW k \in Pages PROVE w[k] \in Bits
  <2>1. CASE k \in i .. last
    <3>1. w[k] = [alloc |-> TRUE, large |-> FALSE, size |-> k - i,
                  dirty |-> (d /\ k \in {i, last}), unz |-> C.map[c][k].unz]
      BY <2>1 DEF arena_mapbits_small_set
    <3> HIDE DEF w, d
    <3>2. k - i \in 0 .. NPages
      BY <1>1, <2>1, ArenaRunsAssumption DEF Pages
    <3>3. C.map[c][k].unz \in BOOLEAN
      BY <1>2, ElemType
    <3>4. PICK e \in BOOLEAN : e = (d /\ k \in {i, last})
      BY <1>1
    <3>5. w[k] = [alloc |-> TRUE, large |-> FALSE, size |-> k - i, dirty |-> e,
                  unz |-> C.map[c][k].unz]
      BY <3>1, <3>4, Zenon
    <3> QED
      BY <3>2, <3>3, <3>5 DEF Bits
  <2>2. CASE k \notin i .. last
    BY <1>2, <2>2, ElemType
  <2> QED
    BY <2>1, <2>2
<1>6. /\ w \in [Pages -> Bits]
      /\ \A k \in Pages \ Span(i, n) : w[k] = C.map[c][k]
  BY <1>5 DEF Span
<1>7. /\ w[i].alloc = TRUE /\ w[i].large = FALSE /\ w[last].alloc = TRUE /\ w[i].dirty = d
      /\ \A k \in Span(i, n) : w[k].unz = C.map[c][k].unz
  <2>1. \A k \in Span(i, n) : /\ k \in Pages /\ k \in i .. last
                              /\ w[k] = arena_mapbits_small_set(C.map[c][k], k - i, d /\ k \in {i, last})
    BY <1>1, ArenaRunsAssumption DEF Span, Pages
  <2>2. i \in Span(i, n) /\ last \in Span(i, n)
    BY <1>1 DEF Span
  <2> HIDE DEF w
  <2>3. /\ w[i] = arena_mapbits_small_set(C.map[c][i], i - i, d /\ i \in {i, last})
        /\ w[last] = arena_mapbits_small_set(C.map[c][last], last - i, d /\ last \in {i, last})
    BY <2>1, <2>2
  <2>4. w[i].alloc = TRUE /\ w[i].large = FALSE /\ w[last].alloc = TRUE
    BY <2>3 DEF arena_mapbits_small_set
  <2>5. w[i].dirty = (d /\ i \in {i, last})
    BY <2>3 DEF arena_mapbits_small_set
  <2>6. (d /\ i \in {i, last}) = d
    BY <1>1
  <2>7. \A k \in Span(i, n) : w[k].unz = C.map[c][k].unz
    <3> SUFFICES ASSUME NEW k \in Span(i, n) PROVE w[k].unz = C.map[c][k].unz
      OBVIOUS
    <3>1. PICK e : e = (d /\ k \in {i, last})
      OBVIOUS
    <3>2. w[k] = arena_mapbits_small_set(C.map[c][k], k - i, e)
      BY <2>1, <3>1, Zenon
    <3> QED
      BY <3>2 DEF arena_mapbits_small_set
  <2> QED
    BY <2>4, <2>5, <2>6, <2>7
<1> HIDE DEF w
<1>8. MapOnly(C, B, c, Span(i, n)) /\ B.map[c] = w
  BY <1>2, <1>3, <1>6, MapSet
<1>9. Flags(C, B, c, i, n, A.map[c][i].dirty)
  BY <1>7, <1>8 DEF Flags, d
<1>10. RunAt(B.map[c], Run(c, i, n, TRUE))
  BY <1>1, <1>7, <1>8 DEF RunAt, Run
<1> QED
  BY <1>4, <1>8, <1>9, <1>10, SplitMarked

-----------------------------------------------------------------------------
(* Joining, and giving a run back.                                         *)

\* What a free run of n pages at i has but for its size.
FreeEnds(m, T, i, n, d) ==
    /\ i \in Pages /\ n \in Nat \ {0} /\ i + n - 1 <= NPages
    /\ ~m[i].alloc /\ ~m[i + n - 1].alloc /\ m[i].dirty = d /\ m[i + n - 1].dirty = d
    /\ d \/ \A k \in Span(i, n) : k \in T => m[k].unz

LEMMA SizedFree ==
    ASSUME NEW A, IsArena(A), NEW c \in Chunks, NEW i, NEW n, NEW d \in BOOLEAN, NEW T,
           FreeEnds(A.map[c], T, i, n, d), NEW B, B = Sized(A, c, i, n)
    PROVE  MapOnly(A, B, c, Span(i, n)) /\ FreeRun(B.map[c], T, i, n, d)
<1> DEFINE last == i + n - 1
           C == arena_mapbits_unallocated_size_set(A, c, i, n)
<1>0. /\ i \in Pages /\ n \in Nat \ {0} /\ i + n - 1 <= NPages
      /\ ~A.map[c][i].alloc /\ ~A.map[c][i + n - 1].alloc
      /\ A.map[c][i].dirty = d /\ A.map[c][i + n - 1].dirty = d
      /\ d \/ \A k \in Span(i, n) : k \in T => A.map[c][k].unz
  BY DEF FreeEnds
<1>1. n \in 0 .. NPages /\ last \in Pages
  BY <1>0, ArenaRunsAssumption DEF Pages
<1>2. MapOnly(A, C, c, {i}) /\ C.map[c][i] = [A.map[c][i] EXCEPT !.size = n]
  BY <1>0, <1>1, SizeSet
<1>3. IsArena(C)
  BY <1>2 DEF MapOnly, Else
<1>4. B = arena_mapbits_unallocated_size_set(C, c, last, n)
  BY DEF Sized
<1> HIDE DEF C, last
<1>5. MapOnly(C, B, c, {last}) /\ B.map[c][last] = [C.map[c][last] EXCEPT !.size = n]
  BY <1>1, <1>3, <1>4, SizeSet
<1>6. MapOnly(A, B, c, {i} \cup {last})
  BY <1>2, <1>5, MapOnlyTwice
<1>7. {i} \cup {last} \subseteq Span(i, n)
  BY <1>0 DEF last, Span, Pages
<1>8. MapOnly(A, B, c, Span(i, n))
  BY <1>6, <1>7, MapOnlyWider
<1>9. /\ i # last => B.map[c][i] = C.map[c][i] /\ C.map[c][last] = A.map[c][last]
      /\ \A k \in Pages : k # i /\ k # last => B.map[c][k] = A.map[c][k]
  BY <1>1, <1>2, <1>5, <1>6, <1>0 DEF MapOnly, Kept
<1>10. A.map[c][i] \in Bits /\ A.map[c][last] \in Bits /\ C.map[c][last] \in Bits
  BY <1>0, <1>1, <1>3, ElemType
<1>11. /\ C.map[c][i].alloc = A.map[c][i].alloc /\ C.map[c][i].dirty = A.map[c][i].dirty
       /\ C.map[c][i].unz = A.map[c][i].unz /\ C.map[c][i].size = n
  BY <1>2, <1>10 DEF Bits
<1>12. /\ B.map[c][last].alloc = C.map[c][last].alloc
       /\ B.map[c][last].dirty = C.map[c][last].dirty
       /\ B.map[c][last].unz = C.map[c][last].unz /\ B.map[c][last].size = n
  BY <1>5, <1>10 DEF Bits
<1>13. /\ B.map[c][i].alloc = A.map[c][i].alloc /\ B.map[c][i].dirty = A.map[c][i].dirty
       /\ B.map[c][i].unz = A.map[c][i].unz /\ B.map[c][i].size = n
       /\ B.map[c][last].alloc = A.map[c][last].alloc
       /\ B.map[c][last].dirty = A.map[c][last].dirty
       /\ B.map[c][last].unz = A.map[c][last].unz
  BY <1>9, <1>11, <1>12
<1>14. \A k \in Span(i, n) : k \in Pages
  BY <1>0, ArenaRunsAssumption DEF Span, Pages
<1>15. \A k \in Span(i, n) : B.map[c][k].unz = A.map[c][k].unz
  BY <1>9, <1>13, <1>14
<1>16. Clean(B.map[c], T, i, n)
  BY <1>0, <1>13, <1>15 DEF Clean
<1>17. ~B.map[c][i].alloc /\ ~B.map[c][last].alloc
  BY <1>0, <1>13 DEF last
<1>18. B.map[c][i].dirty = d /\ B.map[c][last].dirty = d /\ B.map[c][last].size = n
  BY <1>0, <1>12, <1>13, SMTT(40) DEF last
<1> QED
  BY <1>0, <1>8, <1>13, <1>16, <1>17, <1>18 DEF FreeAt, FreeRun, last

\* A free run of n pages at i that is not yet in the tree.
Loose(A, c, T, R, i, n, d) ==
    /\ IsArena(A) /\ View(A, c, T, R, Span(i, n))
    /\ FreeAt(A.map[c], T, i) /\ A.map[c][i].size = n /\ A.map[c][i].dirty = d

\* The same with a free run around it.
Wider(A, B, c, T, R, i, n, j, l, d) ==
    /\ Loose(B, c, T, R, j, l, d) /\ Within(A, B, c, Span(j, l))
    /\ \A k \in Span(i, n) : k \in Span(j, l)

LEMMA JoinedNext ==
    ASSUME NEW A, NEW c \in Chunks, NEW T, NEW R, NEW i, NEW n, NEW d \in BOOLEAN,
           Loose(A, c, T, R, i, n, d), IsFree(A, c, i + n, d),
           NEW k, k = A.map[c][i + n].size,
           NEW B, B = Sized(arena_avail_remove(A, c, i + n, k, FALSE, TRUE), c, i, n + k)
    PROVE  Wider(A, B, c, T, R, i, n, i, n + k, d)
<1> DEFINE m == A.map[c]
           next == i + n
           C == arena_avail_remove(A, c, next, k, FALSE, TRUE)
           X == Span(i, n)
           Y == Span(i, n + k)
<1>1. /\ IsArena(A) /\ View(A, c, T, R, X) /\ FreeAt(m, T, i) /\ m[i].size = n /\ m[i].dirty = d
      /\ Layout(m, T, Avail(A, c), R, X)
  BY DEF Loose, View
<1>2. i \in Pages /\ i \in Nat /\ n \in Nat \ {0} /\ i + n - 1 <= NPages
  BY <1>1 DEF FreeAt, Pages
<1>3. next \in Pages /\ ~m[next].alloc /\ m[next].dirty = d
  BY DEF IsFree
<1>4. next \notin X /\ next - 1 \in X
  BY <1>2 DEF Span
<1>5. next \in Avail(A, c)
  BY <1>1, <1>3, <1>4, HeadAfter
<1>6. FreeAt(m, T, next) /\ m[next].size = k
  BY <1>1, <1>5 DEF Layout
<1>7. k \in Nat \ {0} /\ next + k - 1 <= NPages
  BY <1>6 DEF FreeAt
<1>8. Y = X \cup FreeSpan(m, next)
  BY <1>2, <1>6, <1>7 DEF FreeSpan, Span
<1>9. Removed(A, C, c, next) /\ View(C, c, T, R, Y)
  <2>1. PICK p, s, Z : C = arena_avail_remove(A, c, next, A.map[c][next].size, p, s) /\ Z = X
    BY <1>6
  <2>2. View(A, c, T, R, Z) /\ Y = Z \cup FreeSpan(A.map[c], next)
    BY <1>1, <1>8, <2>1
  <2> HIDE DEF C, X, Y, next
  <2> QED
    BY <1>1, <1>5, <2>1, <2>2, ViewRemove
<1>10. C.map[c] = m /\ IsArena(C) /\ Within(A, C, c, {})
  BY <1>9 DEF Removed, Else, Within, Kept
<1> HIDE DEF C
<1>11. /\ n + k \in Nat \ {0} /\ i + (n + k) - 1 = next + k - 1 /\ next + k - 1 <= NPages
  BY <1>2, <1>7
<1>12. ~m[next + k - 1].alloc /\ m[next + k - 1].dirty = d /\ ~m[i].alloc
  BY <1>1, <1>3, <1>6 DEF FreeAt
<1>13. d \/ \A x \in Y : x \in T => m[x].unz
  BY <1>1, <1>3, <1>6, <1>8, SMTT(40) DEF FreeAt, Clean, FreeSpan
<1>14. MapOnly(C, B, c, Y) /\ FreeRun(B.map[c], T, i, n + k, d)
  <2>1. PICK l : l = n + k
    OBVIOUS
  <2>2. FreeEnds(m, T, i, l, d) /\ Y = Span(i, l)
    BY <1>1, <1>2, <1>11, <1>12, <1>13, <2>1 DEF FreeEnds
  <2>3. B = Sized(C, c, i, l) /\ FreeEnds(C.map[c], T, i, l, d)
    BY <1>10, <2>1, <2>2 DEF C
  <2> HIDE DEF m, next, X, Y
  <2>4. MapOnly(C, B, c, Span(i, l)) /\ FreeRun(B.map[c], T, i, l, d)
    BY <1>10, <2>3, SizedFree
  <2> QED
    BY <2>1, <2>2, <2>4
<1>15. Within(C, B, c, Y) /\ View(B, c, T, R, Y)
  <2>1. \A x \in Y : x \in Y
    BY ZenonT(60)
  <2> HIDE DEF Y
  <2> QED
    BY <1>9, <1>10, <1>14, <2>1, ViewMap, ZenonT(60)
<1>16. IsArena(B)
  BY <1>15 DEF Within, Else
<1>17. Within(A, B, c, Y)
  <2> HIDE DEF Y
  <2> QED
    BY <1>10, <1>15, ZenonT(60) DEF Within, Else, Kept
<1>18. \A x \in X : x \in Y
  BY <1>8
<1> QED
  BY <1>14, <1>15, <1>16, <1>17, <1>18 DEF Wider, Loose, FreeRun

LEMMA JoinedPrev ==
    ASSUME NEW A, NEW c \in Chunks, NEW T, NEW R, NEW i, NEW n, NEW d \in BOOLEAN,
           Loose(A, c, T, R, i, n, d), IsFree(A, c, i - 1, d),
           NEW k, k = A.map[c][i - 1].size, NEW head, head = i - k,
           NEW B, B = Sized(arena_avail_remove(A, c, head, k, TRUE, FALSE), c, head, n + k)
    PROVE  Wider(A, B, c, T, R, i, n, head, n + k, d)
<1> DEFINE m == A.map[c]
           C == arena_avail_remove(A, c, head, k, TRUE, FALSE)
           X == Span(i, n)
           Y == Span(head, n + k)
<1>1. /\ IsArena(A) /\ View(A, c, T, R, X) /\ FreeAt(m, T, i) /\ m[i].size = n /\ m[i].dirty = d
      /\ Layout(m, T, Avail(A, c), R, X)
  BY DEF Loose, View
<1>2. i \in Pages /\ i \in Nat /\ n \in Nat \ {0} /\ i + n - 1 <= NPages
  BY <1>1 DEF FreeAt, Pages
<1>3. i - 1 \in Pages /\ ~m[i - 1].alloc /\ m[i - 1].dirty = d
  BY DEF IsFree
<1>4. i - 1 \notin X /\ (i - 1) + 1 \in X
  BY <1>2 DEF Span
<1>5. head \in Avail(A, c) /\ m[head].size = k /\ k \in Nat \ {0}
  <2>1. PICK e : e = i - 1
    OBVIOUS
  <2>2. e \in Pages /\ e \notin X /\ e + 1 \in X /\ ~m[e].alloc /\ k = m[e].size
    BY <1>3, <1>4, <2>1
  <2> HIDE DEF m, X
  <2>3. e + 1 - m[e].size \in Avail(A, c) /\ m[e].size \in Nat \ {0}
        /\ m[e + 1 - m[e].size].size = m[e].size
    BY <1>1, <2>2, TailBefore
  <2>4. e + 1 - m[e].size = head
    BY <1>2, <2>1, <2>2, <2>3
  <2> QED
    BY <2>2, <2>3, <2>4
<1>6. FreeAt(m, T, head)
  BY <1>1, <1>5, SMTT(40) DEF Layout
<1>7. head \in Pages /\ head \in Nat /\ head + k = i
  BY <1>2, <1>5, <1>6 DEF FreeAt, Pages
<1>8. Y = X \cup FreeSpan(m, head)
  BY <1>2, <1>5, <1>7 DEF FreeSpan, Span
<1>9. Removed(A, C, c, head) /\ View(C, c, T, R, Y)
  <2>1. PICK p, s, Z : C = arena_avail_remove(A, c, head, A.map[c][head].size, p, s) /\ Z = X
    BY <1>5
  <2>2. View(A, c, T, R, Z) /\ Y = Z \cup FreeSpan(A.map[c], head)
    BY <1>1, <1>8, <2>1
  <2> HIDE DEF C, X, Y
  <2> QED
    BY <1>1, <1>5, <2>1, <2>2, ViewRemove
<1>10. C.map[c] = m /\ IsArena(C) /\ Within(A, C, c, {})
  BY <1>9 DEF Removed, Else, Within, Kept
<1> HIDE DEF C
<1>11. /\ n + k \in Nat \ {0} /\ head + (n + k) - 1 = i + n - 1
  BY <1>2, <1>5, <1>7, SMTT(40)
<1>12. /\ ~m[i + n - 1].alloc /\ m[i + n - 1].dirty = d
       /\ ~m[head].alloc /\ m[head].dirty = d
  <2>1. head + k - 1 = i - 1
    BY <1>2, <1>5, <1>7, SMTT(40)
  <2> QED
    BY <1>1, <1>3, <1>5, <1>6, <2>1 DEF FreeAt
<1>13. d \/ \A x \in Y : x \in T => m[x].unz
  BY <1>1, <1>5, <1>6, <1>8, <1>12, ZenonT(60) DEF FreeAt, Clean, FreeSpan
<1>14. MapOnly(C, B, c, Y) /\ FreeRun(B.map[c], T, head, n + k, d)
  <2>1. PICK l : l = n + k
    BY ZenonT(60)
  <2>2. FreeEnds(m, T, head, l, d) /\ Y = Span(head, l)
    BY <1>2, <1>7, <1>11, <1>12, <1>13, <2>1, SMTT(40) DEF FreeEnds
  <2>3. B = Sized(C, c, head, l) /\ FreeEnds(C.map[c], T, head, l, d)
    BY <1>10, <2>1, <2>2 DEF C
  <2> HIDE DEF m, X, Y
  <2>4. MapOnly(C, B, c, Span(head, l)) /\ FreeRun(B.map[c], T, head, l, d)
    BY <1>10, <2>3, SizedFree
  <2> QED
    BY <2>1, <2>2, <2>4
<1>15. Within(C, B, c, Y) /\ View(B, c, T, R, Y)
  <2>1. \A x \in Y : x \in Y
    BY ZenonT(60)
  <2> HIDE DEF Y
  <2> QED
    BY <1>9, <1>10, <1>14, <2>1, ViewMap
<1>16. IsArena(B)
  BY <1>15, ZenonT(60) DEF Within, Else
<1>17. Within(A, B, c, Y)
  <2> HIDE DEF Y
  <2> QED
    BY <1>10, <1>15, ZenonT(60) DEF Within, Else, Kept
<1>18. \A x \in X : x \in Y
  BY <1>8
<1> QED
  BY <1>14, <1>15, <1>16, <1>17, <1>18 DEF Wider, Loose, FreeRun

LEMMA Coalesced ==
    ASSUME NEW A, NEW c \in Chunks, NEW T, NEW R, NEW i, NEW n, NEW d \in BOOLEAN,
           Loose(A, c, T, R, i, n, d),
           NEW r, r = arena_run_coalesce(A, c, i, n, d)
    PROVE  Wider(A, r.a, c, T, R, i, n, r.i, r.n, d)
<1> DEFINE q0 == [a |-> A, i |-> i, n |-> n]
           q == JoinNext(q0, c, d)
<1>1. Wider(A, A, c, T, R, i, n, i, n, d)
  BY WithinSelf DEF Wider, Loose
<1>2. q0.a = A /\ q0.i = i /\ q0.n = n
  OBVIOUS
<1>3. Wider(A, q.a, c, T, R, i, n, q.i, q.n, d)
  <2>1. CASE ~IsFree(A, c, i + n, d)
    <3>1. q = q0
      BY <1>2, <2>1 DEF JoinNext
    <3> QED
      BY <1>1, <1>2, <3>1
  <2>2. CASE IsFree(A, c, i + n, d)
    <3>1. PICK k, B : /\ k = A.map[c][i + n].size
                      /\ B = Sized(arena_avail_remove(A, c, i + n, k, FALSE, TRUE), c, i, n + k)
      OBVIOUS
    <3>2. q = [a |-> B, i |-> i, n |-> n + k]
      BY <1>2, <2>2, <3>1 DEF JoinNext
    <3>3. Wider(A, B, c, T, R, i, n, i, n + k, d)
      BY <2>2, <3>1, JoinedNext
    <3>4. q.a = B /\ q.i = i /\ q.n = n + k
      BY <3>2
    <3> QED
      BY <3>3, <3>4
  <2> QED
    BY <2>1, <2>2
<1>4. r = JoinPrev(q, c, d)
  BY DEF arena_run_coalesce
<1> HIDE DEF q
<1>5. Loose(q.a, c, T, R, q.i, q.n, d) /\ IsArena(q.a)
  BY <1>3 DEF Wider, Loose
<1>6. CASE ~IsFree(q.a, c, q.i - 1, d)
  <2>1. r = q
    BY <1>4, <1>6 DEF JoinPrev
  <2> QED
    BY <1>3, <2>1
<1>7. CASE IsFree(q.a, c, q.i - 1, d)
  <2>1. PICK k, head, B :
          /\ k = q.a.map[c][q.i - 1].size /\ head = q.i - k
          /\ B = Sized(arena_avail_remove(q.a, c, head, k, TRUE, FALSE), c, head, q.n + k)
    OBVIOUS
  <2>2. r = [a |-> B, i |-> head, n |-> q.n + k]
    BY <1>4, <1>7, <2>1, ZenonT(60) DEF JoinPrev
  <2>3. Wider(q.a, B, c, T, R, q.i, q.n, head, q.n + k, d)
    BY <1>5, <1>7, <2>1, JoinedPrev
  <2>4. r.a = B /\ r.i = head /\ r.n = q.n + k
    BY <2>2
  <2>5. Wider(q.a, r.a, c, T, R, q.i, q.n, r.i, r.n, d)
    BY <2>3, <2>4
  <2>6. /\ Within(A, q.a, c, Span(q.i, q.n)) /\ Within(q.a, r.a, c, Span(r.i, r.n))
        /\ \A x \in Pages : x \in Span(q.i, q.n) \/ x \in Span(r.i, r.n) => x \in Span(r.i, r.n)
    BY <1>3, <2>5 DEF Wider
  <2>7. Within(A, r.a, c, Span(r.i, r.n))
    BY <2>6, WithinTwice
  <2> QED
    BY <1>3, <2>5, <2>7 DEF Wider
<1> QED
  BY <1>6, <1>7

\* A chunk of which the arena has no run in the tree; one that is free as a whole.
Unused(A, c) == Avail(A, c) = {} /\ A.cnt[c].dirty = 0
Empty(A, c, T) == Unused(A, c) /\ FreeAt(A.map[c], T, 1) /\ A.map[c][1].size = NPages

PurgeJob == [do |-> "maybe_purge"]
UnmapJob(c) == [do |-> "unmap", c |-> c]

\* What becomes of chunk c when a run is given back: it has the runs R, or it becomes
\* the spare, and an older spare is on its way out.
Others(A, B, c) ==
    \A d \in Chunks \ {c} : /\ B.map[d] = A.map[d] /\ Avail(B, d) = Avail(A, d)
                            /\ B.cnt[d].dirty = A.cnt[d].dirty
RunsKept(A, B, c, R) == \A r \in R : \A k \in RunSpan(r) : B.map[c][k] = A.map[c][k]
Stays(A, g, c, T, R) ==
    /\ g.a.spare = A.spare /\ View(g.a, c, T, R, {})
    /\ g.then = <<>> \/ g.then = <<PurgeJob>>
Becomes(A, g, c, T, R) ==
    /\ R = {} /\ g.a.spare = c /\ Empty(g.a, c, T)
    /\ A.spare = None => g.then = <<>> \/ g.then = <<PurgeJob>>
    /\ A.spare # None => \/ g.then = <<UnmapJob(A.spare)>>
                         \/ g.then = <<UnmapJob(A.spare), PurgeJob>>
Given(A, g, c, T, R) ==
    /\ IsArena(g.a) /\ Others(A, g.a, c) /\ RunsKept(A, g.a, c, R)
    /\ Stays(A, g, c, T, R) \/ Becomes(A, g, c, T, R)

LEMMA Purged ==
    ASSUME NEW a, NEW q, NEW d, NEW g, g = ThenPurge([a |-> a, then |-> q], d)
    PROVE  g.a = a /\ (g.then = q \/ g.then = Append(q, PurgeJob))
<1>1. CASE d
  <2>1. g = [[a |-> a, then |-> q] EXCEPT !.then = Append(@, PurgeJob)]
    BY <1>1 DEF ThenPurge, PurgeJob
  <2>2. g = [a |-> a, then |-> Append(q, PurgeJob)]
    BY <2>1
  <2> QED
    BY <2>2
<1>2. CASE ~d
  <2>1. g = [a |-> a, then |-> q]
    BY <1>2 DEF ThenPurge
  <2> QED
    BY <2>1
<1> QED
  BY <1>1, <1>2

LEMMA AppendPurge ==
    ASSUME NEW c
    PROVE  /\ Append(<<>>, PurgeJob) = <<PurgeJob>>
           /\ Append(<<UnmapJob(c)>>, PurgeJob) = <<UnmapJob(c), PurgeJob>>
<1>1. PICK p, u : p = PurgeJob /\ u = UnmapJob(c)
  OBVIOUS
<1>2. Append(<<>>, p) = <<p>> /\ Append(<<u>>, p) = <<u, p>>
  <2> DEFINE S == {p, u}
  <2>1. /\ <<>> \in Seq(S) /\ Len(<<>>) = 0
        /\ <<p>> \in Seq(S) /\ Len(<<p>>) = 1 /\ <<p>>[1] = p
        /\ <<u>> \in Seq(S) /\ Len(<<u>>) = 1 /\ <<u>>[1] = u
        /\ <<u, p>> \in Seq(S) /\ Len(<<u, p>>) = 2 /\ <<u, p>>[1] = u /\ <<u, p>>[2] = p
    OBVIOUS
  <2>2. p \in S
    OBVIOUS
  <2> HIDE DEF S
  <2>3. /\ Append(<<>>, p) \in Seq(S) /\ Len(Append(<<>>, p)) = 1 /\ Append(<<>>, p)[1] = p
    BY <2>1, <2>2, AppendProperties
  <2>4. /\ Append(<<u>>, p) \in Seq(S) /\ Len(Append(<<u>>, p)) = 2
        /\ Append(<<u>>, p)[1] = u /\ Append(<<u>>, p)[2] = p
    BY <2>1, <2>2, AppendProperties
  <2>5. PICK v, w : v = Append(<<>>, p) /\ w = <<p>>
    OBVIOUS
  <2>6. v \in Seq(S) /\ w \in Seq(S) /\ Len(v) = Len(w) /\ \A k \in 1 .. Len(v) : v[k] = w[k]
    BY <2>1, <2>3, <2>5
  <2>7. v = w
    BY <2>6, SeqEqual
  <2>8. PICK x, y : x = Append(<<u>>, p) /\ y = <<u, p>>
    OBVIOUS
  <2>9. x \in Seq(S) /\ y \in Seq(S) /\ Len(x) = Len(y)
    BY <2>1, <2>4, <2>8
  <2>10. Len(x) = 2 /\ x[1] = y[1] /\ x[2] = y[2]
    BY <2>1, <2>4, <2>8
  <2>11. \A k \in 1 .. Len(x) : x[k] = y[k]
    BY <2>10
  <2>12. x = y
    BY <2>9, <2>11, SeqEqual
  <2> QED
    BY <2>5, <2>7, <2>8, <2>12
<1> QED
  BY <1>1, <1>2

LEMMA NowAvailable ==
    ASSUME NEW A, NEW c \in Chunks, NEW T, NEW R, NEW r, NEW d \in BOOLEAN,
           Loose(A, c, T, R, r.i, r.n, d), r.a = A,
           NEW g, g = Available(r, c, d)
    PROVE  Given(A, g, c, T, R)
<1> DEFINE m == A.map[c]
           i == r.i
           n == r.n
           X == Span(i, n)
           C == arena_avail_insert(A, c, i, n, TRUE, TRUE)
<1>1. /\ IsArena(A) /\ View(A, c, T, R, X) /\ FreeAt(m, T, i) /\ m[i].size = n
      /\ i \in Pages /\ n \in Nat \ {0} /\ i + n - 1 <= NPages /\ i \in Nat
  BY DEF Loose, FreeAt, Pages
<1>2. FreeSpan(m, i) = X
  BY <1>1 DEF FreeSpan
<1>3. Inserted(A, C, c, i) /\ View(C, c, T, R, {})
  <2>1. PICK p, s, Z, Y : /\ C = arena_avail_insert(A, c, i, A.map[c][i].size, p, s)
                          /\ Z = X /\ Y = {}
    BY <1>1
  <2>2. /\ View(A, c, T, R, Z) /\ Y = Z \ FreeSpan(A.map[c], i)
        /\ \A k \in FreeSpan(A.map[c], i) : k \in Z
    BY <1>1, <1>2, <2>1
  <2> HIDE DEF C, X, i, n
  <2>3. Inserted(A, C, c, i) /\ View(C, c, T, R, Y)
    BY <1>1, <2>1, <2>2, ViewInsert DEF m
  <2> QED
    BY <2>1, <2>3
<1>4. /\ IsArena(C) /\ C.map = A.map /\ C.spare = A.spare /\ Others(A, C, c)
      /\ Avail(C, c) = Avail(A, c) \cup {i}
  BY <1>3 DEF Inserted, Else, Others
<1>5. g = ThenPurge(Freed(C, c, n), d)
  BY DEF Available
<1> HIDE DEF C
<1>6. CASE n # NPages
  <2>1. Freed(C, c, n) = [a |-> C, then |-> <<>>]
    BY <1>6 DEF Freed
  <2>2. g.a = C /\ (g.then = <<>> \/ g.then = <<PurgeJob>>)
    BY <1>5, <2>1, Purged, AppendPurge
  <2>3. Stays(A, g, c, T, R)
    BY <1>3, <1>4, <2>2 DEF Stays
  <2>4. IsArena(g.a) /\ Others(A, g.a, c) /\ RunsKept(A, g.a, c, R)
    BY <1>4, <2>2 DEF RunsKept
  <2> QED
    BY <2>3, <2>4 DEF Given
<1>7. CASE n = NPages
  <2>1. i = 1 /\ X = Pages
    BY <1>1, <1>7, ArenaRunsAssumption DEF Pages, Span
  <2>2. R = {}
    <3> SUFFICES ASSUME NEW s \in R PROVE FALSE
      OBVIOUS
    <3>1. RunAt(m, s) /\ \A k \in RunSpan(s) : k \notin X
      BY <1>1 DEF View, Layout
    <3>2. s.i \in RunSpan(s) /\ s.i \in Pages
      BY <3>1 DEF RunAt, RunSpan, Span, Pages
    <3> QED
      BY <2>1, <3>1, <3>2
  <2>3. Avail(A, c) = {}
    <3> SUFFICES ASSUME NEW s \in Avail(A, c) PROVE FALSE
      OBVIOUS
    <3>1. FreeAt(m, T, s) /\ \A k \in FreeSpan(m, s) : k \notin X
      BY <1>1 DEF View, Layout
    <3>2. s \in FreeSpan(m, s) /\ s \in Pages
      BY <3>1 DEF FreeAt, FreeSpan, Span, Pages
    <3> QED
      BY <2>1, <3>1, <3>2
  <2> DEFINE D == arena_avail_remove(C, c, 1, NPages, FALSE, FALSE)
             E == WithSpare(D, c)
             q == IF C.spare = None THEN <<>> ELSE <<[do |-> "unmap", c |-> C.spare]>>
  <2>4. Removed(C, D, c, 1) /\ View(D, c, T, R, Pages)
    <3>1. PICK p, s, Z, Y : /\ D = arena_avail_remove(C, c, 1, C.map[c][1].size, p, s)
                            /\ Z = {} /\ Y = Pages
      BY <1>1, <1>4, <1>7, <2>1
    <3>2. View(C, c, T, R, Z) /\ Y = Z \cup FreeSpan(C.map[c], 1) /\ 1 \in Avail(C, c)
      BY <1>2, <1>3, <1>4, <2>1, <3>1
    <3> HIDE DEF D
    <3>3. Removed(C, D, c, 1) /\ View(D, c, T, R, Y)
      BY <1>4, <3>1, <3>2, ViewRemove, SMTT(40)
    <3> QED
      BY <3>1, <3>3
  <2>5. IsArena(D) /\ D.map = A.map /\ Others(A, D, c) /\ Avail(D, c) = {}
    <3>1. IsArena(D) /\ D.map = A.map /\ Avail(D, c) = (Avail(A, c) \cup {i}) \ {1}
      BY <1>4, <2>4 DEF Removed, Else
    <3>2. Others(A, D, c)
      BY <1>4, <2>4 DEF Removed, Else, Others
    <3> QED
      BY <2>1, <2>3, <3>1, <3>2
  <2>6. D.cnt[c].dirty = 0
    <3>1. DirtyPages(D.map[c], {}) = {}
      BY DEF DirtyPages
    <3>2. D.cnt[c].dirty = Cardinality({})
      BY <2>4, <2>5, <3>1 DEF View
    <3> QED
      BY <3>2, FS_EmptySet
  <2>7. Freed(C, c, n) = [a |-> E, then |-> q]
    BY <1>7 DEF Freed, arena_chunk_dalloc, WithSpare
  <2> HIDE DEF D
  <2>8. IsArena(E) /\ E.map = D.map /\ E.cnt = D.cnt /\ E.avail = D.avail /\ E.spare = c
    BY <2>5, SpareOnly
  <2> HIDE DEF E
  <2>9. Others(A, E, c) /\ Unused(E, c)
    BY <2>5, <2>6, <2>8 DEF Others, Unused, Avail
  <2>10. Empty(E, c, T)
    BY <1>1, <1>7, <2>1, <2>5, <2>8, <2>9 DEF Empty
  <2>11. g.a = E /\ (g.then = q \/ g.then = Append(q, PurgeJob))
    <3> HIDE DEF q
    <3> QED
      BY <1>5, <2>7, Purged
  <2>12. A.spare = None => g.then = <<>> \/ g.then = <<PurgeJob>>
    BY <1>4, <2>11, AppendPurge
  <2>13. A.spare # None => \/ g.then = <<UnmapJob(A.spare)>>
                           \/ g.then = <<UnmapJob(A.spare), PurgeJob>>
    <3> SUFFICES ASSUME A.spare # None
                 PROVE  \/ g.then = <<UnmapJob(A.spare)>>
                        \/ g.then = <<UnmapJob(A.spare), PurgeJob>>
      OBVIOUS
    <3>1. q = <<UnmapJob(A.spare)>>
      BY <1>4 DEF UnmapJob
    <3> QED
      BY <2>11, <3>1, AppendPurge
  <2>14. Becomes(A, g, c, T, R)
    BY <2>2, <2>8, <2>10, <2>11, <2>12, <2>13 DEF Becomes
  <2>15. IsArena(g.a) /\ Others(A, g.a, c) /\ RunsKept(A, g.a, c, R)
    BY <2>2, <2>8, <2>9, <2>11 DEF RunsKept
  <2> QED
    BY <2>14, <2>15 DEF Given
<1> QED
  BY <1>6, <1>7

\* The pages of a run that is given back hold zeros where their flags say so, or the
\* run is going to be dirty.
Zeroish(A, c, T, r, d) == d \/ \A k \in RunSpan(r) : k \in T => A.map[c][k].unz
BackDirty(A, c, r, dirty, cleaned) == dirty \/ (~cleaned /\ A.map[c][r.i].dirty)

LEMMA RunPagesAre ==
    ASSUME NEW A, NEW c, NEW r, RunAt(A.map[c], r), r.small \in BOOLEAN
    PROVE  RunPages(A, c, r.i) = r.n
  BY DEF RunAt, RunPages

LEMMA Dalloc ==
    ASSUME NEW A, IsArena(A), NEW c \in Chunks, NEW T, NEW R, View(A, c, T, R, {}),
           NEW r \in R, r.small \in BOOLEAN, NEW dirty \in BOOLEAN, NEW cleaned \in BOOLEAN,
           Zeroish(A, c, T, r, BackDirty(A, c, r, dirty, cleaned)),
           NEW g, g = arena_run_dalloc(A, c, r.i, dirty, cleaned), NEW Q, Q = R \ {r}
    PROVE  Given(A, g, c, T, Q)
<1> DEFINE m == A.map[c]
           i == r.i
           n == r.n
           d == dirty \/ (~cleaned /\ A.map[c][i].dirty)
           X == Span(i, n)
           v == (A.nactive - n) % Word
           B == WithActive(A, v)
           u1 == ~d /\ m[i].unz
           u2 == ~d /\ m[i + n - 1].unz
           M == FreeMarked(B, c, i, n, d, u1, u2)
           q == arena_run_coalesce(M, c, i, n, d)
<1>1. RunAt(m, r) /\ RunPages(A, c, i) = n
  BY RunPagesAre DEF View, Layout
<1>2. i \in Pages /\ i \in Nat /\ n \in Nat \ {0} /\ i + n - 1 <= NPages /\ i + n - 1 \in Pages
  BY <1>1, ArenaRunsAssumption DEF RunAt, Pages
<1>3. /\ d \in BOOLEAN /\ u1 \in BOOLEAN /\ u2 \in BOOLEAN
      /\ m[i].unz \in BOOLEAN /\ m[i + n - 1].unz \in BOOLEAN
  BY <1>2, ElemType, SMTT(40)
<1>4. g = Available(q, c, d)
  <2>1. [A EXCEPT !.nactive = (@ - n) % Word] = B
    BY DEF WithActive
  <2> QED
    BY <1>1, <2>1 DEF arena_run_dalloc, FreeMarked
<1>5. d \/ \A k \in X : k \in T => m[k].unz
  BY DEF Zeroish, BackDirty, RunSpan
<1>6. ~d => u1 = m[i].unz /\ u2 = m[i + n - 1].unz
  BY <1>3
<1>7. MapOnly(A, B, c, {}) /\ B.map = A.map
  BY ActiveOnly
<1>8. IsArena(B) /\ B.map[c] = m
  BY <1>7 DEF MapOnly, Else
<1>9. View(A, c, T, Q, X)
  <2>1. PICK Z : Z = {}
    OBVIOUS
  <2>2. View(A, c, T, R, Z) /\ X = Z \cup RunSpan(r)
    BY <2>1 DEF RunSpan
  <2> HIDE DEF X
  <2> QED
    BY <2>2, ViewTake
<1> HIDE DEF B, d, u1, u2
<1>10. MapOnly(B, M, c, X) /\ FreeRun(M.map[c], T, i, n, d)
  <2>1. PICK w, h, l : w = d /\ h = i /\ l = n
    OBVIOUS
  <2>2. MayMark(B.map[c], T, h, l, w, u1, u2)
    BY <1>2, <1>3, <1>5, <1>6, <1>8, <2>1 DEF MayMark
  <2>4. M = FreeMarked(B, c, h, l, w, u1, u2)
    BY <2>1
  <2> HIDE DEF M
  <2>3. MapOnly(B, M, c, Span(h, l)) /\ FreeRun(M.map[c], T, h, l, w)
    BY <1>8, <2>2, <2>4, MarkedFree
  <2> QED
    BY <2>1, <2>3
<1> HIDE DEF M
<1>11. Within(A, B, c, {}) /\ View(B, c, T, Q, X)
  <2>1. \A k \in {} : k \in X
    OBVIOUS
  <2> HIDE DEF X
  <2> QED
    BY <1>7, <1>9, <2>1, ViewMap
<1>12. Within(B, M, c, X) /\ View(M, c, T, Q, X)
  <2>1. \A k \in X : k \in X
    OBVIOUS
  <2> HIDE DEF X
  <2> QED
    BY <1>8, <1>10, <1>11, <2>1, ViewMap
<1>13. IsArena(M) /\ M.spare = A.spare /\ Others(A, M, c) /\ Kept(A, M, c, X)
  <2> HIDE DEF X
  <2> QED
    BY <1>11, <1>12 DEF Within, Else, Kept, Others
<1>14. Loose(M, c, T, Q, i, n, d)
  BY <1>10, <1>12, <1>13 DEF Loose, FreeRun
<1>15. Wider(M, q.a, c, T, Q, i, n, q.i, q.n, d)
  <2> HIDE DEF i, n
  <2> QED
    BY <1>3, <1>14, Coalesced
<1> HIDE DEF q
<1>16. Loose(q.a, c, T, Q, q.i, q.n, d) /\ Within(M, q.a, c, Span(q.i, q.n))
  BY <1>15 DEF Wider
<1>17. Given(q.a, g, c, T, Q)
  BY <1>3, <1>4, <1>16, NowAvailable
<1>18. q.a.spare = A.spare /\ Others(A, q.a, c)
  BY <1>13, <1>16 DEF Within, Else, Others
<1>19. RunsKept(A, q.a, c, Q)
  <2> SUFFICES ASSUME NEW s \in Q, NEW k \in RunSpan(s) PROVE q.a.map[c][k] = m[k]
    BY DEF RunsKept
  <2>1. RunAt(q.a.map[c], s) /\ \A x \in RunSpan(s) : x \notin Span(q.i, q.n)
    BY <1>16 DEF Loose, View, Layout
  <2>2. k \in Pages /\ k \notin Span(q.i, q.n) /\ k \notin X
    <3>1. k \in Pages
      BY <2>1, ArenaRunsAssumption DEF RunAt, RunSpan, Span, Pages
    <3>2. \A x \in X : x \in Span(q.i, q.n)
      BY <1>15 DEF Wider
    <3> QED
      BY <2>1, <3>1, <3>2
  <2> QED
    BY <1>13, <1>16, <2>2 DEF Kept, Within
<1>20. Others(A, g.a, c) /\ RunsKept(A, g.a, c, Q) /\ IsArena(g.a)
  BY <1>17, <1>18, <1>19 DEF Given, Others, RunsKept
<1>21. Stays(A, g, c, T, Q) \/ Becomes(A, g, c, T, Q)
  BY <1>17, <1>18 DEF Given, Stays, Becomes
<1> QED
  BY <1>20, <1>21 DEF Given

-----------------------------------------------------------------------------
(* All chunks: what the arena says, against the runs that are out.         *)

Whole(c) == Run(c, 0, HugePages, FALSE)
RunsIn(O, c) == {r \in O : r.c = c}
TouchedIn(T, c) == {k \in Pages : <<c, k>> \in T}

\* Chunk c is cut into runs, is the spare, is held as a whole, or is not the arena's.
ChunkOK(A, c, T, has, R) ==
    \/ has /\ A.spare # c /\ View(A, c, T, R, {})
    \/ has /\ A.spare = c /\ R = {} /\ Empty(A, c, T)
    \/ has /\ A.spare # c /\ R = {Whole(c)} /\ Unused(A, c)
    \/ ~has /\ A.spare # c /\ R = {} /\ Unused(A, c)

\* The runs O are out, of the chunks tk; the pages T hold something.
Ledger(A, tk, T, O) ==
    \A c \in Chunks : ChunkOK(A, c, TouchedIn(T, c), c \in tk, RunsIn(O, c))

Book(O) ==
    \A r \in O : r = Run(r.c, r.i, r.n, r.small) /\ r.c \in Chunks /\ r.small \in BOOLEAN

\* The map does not change on the runs of O.
Quiet(A, B, O) ==
    \A s \in O : s.i # 0 => \A k \in RunSpan(s) : B.map[s.c][k] = A.map[s.c][k]

CutUp(A, c, tk, T, O) ==
    c \in tk /\ A.spare # c /\ View(A, c, TouchedIn(T, c), RunsIn(O, c), {})

LEMMA ChunkFrame ==
    ASSUME NEW A, NEW B, NEW d, NEW T, NEW has, NEW R, ChunkOK(A, d, T, has, R),
           B.map[d] = A.map[d], Avail(B, d) = Avail(A, d), B.cnt[d].dirty = A.cnt[d].dirty,
           B.spare = d <=> A.spare = d
    PROVE  ChunkOK(B, d, T, has, R)
  BY DEF ChunkOK, View, Empty, Unused

LEMMA RunChunk ==
    ASSUME NEW A, NEW tk, NEW T, NEW O, Ledger(A, tk, T, O), NEW r \in O,
           r.c \in Chunks, r.i # 0
    PROVE  CutUp(A, r.c, tk, T, O) /\ RunAt(A.map[r.c], r) /\ r \in RunsIn(O, r.c)
<1>1. r \in RunsIn(O, r.c)
  BY DEF RunsIn
<1>2. ChunkOK(A, r.c, TouchedIn(T, r.c), r.c \in tk, RunsIn(O, r.c))
  BY DEF Ledger
<1>3. r # Whole(r.c)
  BY DEF Whole, Run
<1>4. CutUp(A, r.c, tk, T, O)
  BY <1>1, <1>2, <1>3 DEF ChunkOK, CutUp
<1> QED
  BY <1>1, <1>4 DEF CutUp, View, Layout

LEMMA AvailChunk ==
    ASSUME NEW A, NEW tk, NEW T, NEW O, Ledger(A, tk, T, O), NEW c \in Chunks,
           Avail(A, c) # {} \/ A.cnt[c].dirty # 0
    PROVE  CutUp(A, c, tk, T, O)
<1>1. ChunkOK(A, c, TouchedIn(T, c), c \in tk, RunsIn(O, c))
  BY DEF Ledger
<1> QED
  BY <1>1 DEF ChunkOK, CutUp, Empty, Unused

\* A step on one chunk.
LEMMA OneChunk ==
    ASSUME NEW A, NEW B, NEW c \in Chunks, NEW tk, NEW T, NEW O, NEW tl, NEW P,
           Ledger(A, tk, T, O), Else(A, B, c),
           \A d \in Chunks \ {c} : RunsIn(P, d) = RunsIn(O, d) /\ (d \in tl <=> d \in tk),
           ChunkOK(B, c, TouchedIn(T, c), c \in tl, RunsIn(P, c))
    PROVE  Ledger(B, tl, T, P)
<1> SUFFICES ASSUME NEW d \in Chunks
             PROVE  ChunkOK(B, d, TouchedIn(T, d), d \in tl, RunsIn(P, d))
  BY DEF Ledger
<1>1. CASE d = c
  BY <1>1
<1>2. CASE d # c
  <2>1. ChunkOK(A, d, TouchedIn(T, d), d \in tk, RunsIn(O, d))
    BY DEF Ledger
  <2>2. /\ B.map[d] = A.map[d] /\ Avail(B, d) = Avail(A, d)
        /\ B.cnt[d].dirty = A.cnt[d].dirty /\ B.spare = A.spare
    BY <1>2 DEF Else
  <2>3. ChunkOK(B, d, TouchedIn(T, d), d \in tk, RunsIn(O, d))
    BY <2>1, <2>2, ChunkFrame
  <2>4. RunsIn(P, d) = RunsIn(O, d) /\ (d \in tl <=> d \in tk)
    BY <1>2
  <2> QED
    BY <2>3, <2>4 DEF ChunkOK
<1> QED
  BY <1>1, <1>2

\* A run of another chunk, or one that the free run at i does not touch, is quiet.
LEMMA QuietWithin ==
    ASSUME NEW A, NEW B, NEW c \in Chunks, NEW tk, NEW T, NEW O, Ledger(A, tk, T, O), Book(O),
           NEW X, Within(A, B, c, X), NEW P, P \subseteq O,
           \A s \in P : s.c = c /\ s.i # 0 => \A k \in RunSpan(s) : k \notin X
    PROVE  Quiet(A, B, P)
<1> SUFFICES ASSUME NEW s \in P, s.i # 0, NEW k \in RunSpan(s)
             PROVE  B.map[s.c][k] = A.map[s.c][k]
  BY DEF Quiet
<1>1. s \in O /\ s.c \in Chunks
  BY DEF Book
<1>2. RunAt(A.map[s.c], s)
  BY <1>1, RunChunk
<1>3. k \in Pages
  BY <1>2, ArenaRunsAssumption DEF RunAt, RunSpan, Span, Pages
<1>4. CASE s.c = c
  BY <1>3, <1>4 DEF Within, Kept
<1>5. CASE s.c # c
  BY <1>1, <1>5 DEF Within, Else
<1> QED
  BY <1>4, <1>5

\* What a split does: the run is new, and nobody else notices.
NewRun(A, B, tk, T, O, r) ==
    /\ IsArena(B) /\ B.spare = A.spare /\ Ledger(B, tk, T, O \cup {r}) /\ r \notin O
    /\ Quiet(A, B, O) /\ Clean(B.map[r.c], TouchedIn(T, r.c), r.i, r.n)
    /\ r.i \in Pages /\ r.n \in Nat \ {0} /\ r.i + r.n - 1 <= NPages

LEMMA LedgerSplit ==
    ASSUME NEW A, IsArena(A), NEW tk, NEW T, NEW O, Ledger(A, tk, T, O), Book(O),
           NEW c \in Chunks, NEW i \in Avail(A, c), NEW n \in Nat \ {0},
           n <= A.map[c][i].size, NEW small \in BOOLEAN, NEW B,
           \/ ~small /\ B = arena_run_split_large(A, c, i, n)
           \/ small /\ n = SmallPages /\ B = arena_run_split_small(A, c, i, n)
    PROVE  NewRun(A, B, tk, T, O, Run(c, i, n, small))
<1> DEFINE U == TouchedIn(T, c)
           R == RunsIn(O, c)
           r == Run(c, i, n, small)
<1>1. CutUp(A, c, tk, T, O)
  BY AvailChunk
<1>2. c \in tk /\ A.spare # c /\ View(A, c, U, R, {})
  BY <1>1 DEF CutUp
<1>3. Split(A, B, c, U, R, i, n, small)
  <2> HIDE DEF U, R
  <2>1. CASE ~small /\ B = arena_run_split_large(A, c, i, n)
    <3>1. Split(A, B, c, U, R, i, n, FALSE)
      BY <1>2, <2>1, SplitLarge
    <3>2. small = FALSE
      BY <2>1
    <3> QED
      BY <3>1, <3>2
  <2>2. CASE small /\ n = SmallPages /\ B = arena_run_split_small(A, c, i, n)
    <3>1. Split(A, B, c, U, R, i, n, TRUE)
      BY <1>2, <2>2, SplitSmall
    <3>2. small = TRUE
      BY <2>2
    <3> QED
      BY <3>1, <3>2
  <2> QED
    BY <2>1, <2>2
<1>4. /\ Within(A, B, c, FreeSpan(A.map[c], i)) /\ View(B, c, U, R \cup {r}, {})
      /\ r \notin R /\ Clean(B.map[c], U, i, n)
  BY <1>3 DEF Split
<1>5. r.c = c /\ r.i = i /\ r.n = n
  BY DEF Run
<1> HIDE DEF r
<1>6. IsArena(B) /\ B.spare = A.spare /\ Else(A, B, c)
  BY <1>4 DEF Within, Else
<1>7. RunsIn(O \cup {r}, c) = R \cup {r}
  BY <1>5 DEF RunsIn
<1>8. \A d \in Chunks \ {c} : RunsIn(O \cup {r}, d) = RunsIn(O, d)
  BY <1>5 DEF RunsIn
<1>9. ChunkOK(B, c, TouchedIn(T, c), c \in tk, RunsIn(O \cup {r}, c))
  BY <1>2, <1>4, <1>6, <1>7 DEF ChunkOK
<1>10. Ledger(B, tk, T, O \cup {r})
  BY <1>6, <1>8, <1>9, OneChunk
<1>11. r \notin O
  BY <1>4, <1>5 DEF RunsIn
<1>12. \A s \in O : s.c = c /\ s.i # 0 => \A k \in RunSpan(s) : k \notin FreeSpan(A.map[c], i)
  BY <1>2 DEF View, Layout, RunsIn
<1>13. Quiet(A, B, O)
  BY <1>4, <1>12, QuietWithin
<1>14. i \in Pages /\ i + n - 1 <= NPages
  <2>1. FreeAt(A.map[c], U, i)
    BY <1>2 DEF View, Layout
  <2>2. i \in Pages /\ i + A.map[c][i].size - 1 <= NPages /\ A.map[c][i].size \in Nat
    BY <2>1 DEF FreeAt
  <2> QED
    BY <2>2, ArenaRunsAssumption DEF Pages
<1> QED
  BY <1>4, <1>5, <1>6, <1>10, <1>11, <1>13, <1>14 DEF NewRun, r

-----------------------------------------------------------------------------
(* The jobs of a thread, and the runs they hold.                           *)

Plain(r) == Run(r.c, r.i, r.n, FALSE)

JobRuns(j) ==
    IF j.do = "trim" THEN {Run(j.c, j.i, j.n + j.trail, FALSE)}
    ELSE IF j.do = "init" THEN {Run(j.c, j.i, j.n, FALSE)}
    ELSE IF j.do \in {"stash", "stashed", "unstash"} THEN {Plain(j.runs[k]) : k \in DOMAIN j.runs}
    ELSE IF j.do = "unmap" THEN {Whole(j.c)}
    ELSE {}

RunsOK(q) ==
    /\ q \in Seq([c : Chunks, i : Pages, n : Nat])
    /\ \A k, l \in DOMAIN q : q[k] = q[l] => k = l

JobOK(j) ==
    \/ /\ j.do = "newchunk" /\ j.kind \in {"small", "large"} /\ j.zero \in BOOLEAN
       /\ j.n \in Pages /\ j.al \in 1 .. 2 /\ j.n + j.al - 1 <= NPages
       /\ j.kind = "small" => j.n = SmallPages /\ j.al = 1
    \/ /\ j.do = "trim" /\ j.c \in Chunks /\ j.i \in Pages /\ j.n \in Nat \ {0}
       /\ j.trail \in Nat /\ j.zero \in BOOLEAN
    \/ /\ j.do = "init" /\ j.c \in Chunks /\ j.i \in Pages /\ j.n \in Nat \ {0}
       /\ j.zero \in BOOLEAN
    \/ /\ j.do = "stash" /\ j.c \in Chunks /\ j.i \in Pages /\ RunsOK(j.runs)
       /\ j = [do |-> "stash", c |-> j.c, i |-> j.i, runs |-> j.runs, all |-> j.all,
               left |-> j.left, dirty |-> j.dirty, again |-> j.again]
    \/ j.do = "stashed" /\ RunsOK(j.runs)
    \/ j.do = "unstash" /\ j.runs # <<>> /\ RunsOK(j.runs)
    \/ j.do = "unmap" /\ j.c \in Chunks
    \/ j.do \in {"maybe_purge", "purge", "huge"}

\* The flags of the pages of r are right as they are; at least unless r is dirty.
ZeroRun(A, T, r) == \A k \in RunSpan(r) : <<r.c, k>> \in T => A.map[r.c][k].unz
CleanRun(A, T, r) == A.map[r.c][r.i].dirty \/ ZeroRun(A, T, r)

JobZero(A, T, j) ==
    /\ j.do \in {"trim", "init"} => \A r \in JobRuns(j) : CleanRun(A, T, r)
    /\ j.do = "unstash" => \A r \in JobRuns(j) : ZeroRun(A, T, r)

IsSeq(q) == q \in Seq({q[x] : x \in DOMAIN q})
HandOf(q) == UNION {JobRuns(q[k]) : k \in DOMAIN q}
Once(q) == \A k, l \in DOMAIN q : k # l => JobRuns(q[k]) \cap JobRuns(q[l]) = {}
JobsZero(A, T, q) == \A k \in DOMAIN q : JobZero(A, T, q[k])

Queue(q) ==
    /\ IsSeq(q) /\ Once(q)
    /\ \A k \in DOMAIN q : /\ JobOK(q[k])
                           /\ q[k].do \in {"newchunk", "huge"} => Len(q) = 1
                           /\ q[k].do = "stash" => k = 1

\* Jobs that may follow others.
Follow(q) ==
    /\ IsSeq(q) /\ Once(q)
    /\ \A k \in DOMAIN q : JobOK(q[k]) /\ q[k].do \notin {"newchunk", "huge", "stash"}

LEMMA SeqFacts ==
    ASSUME NEW q, IsSeq(q)
    PROVE  Len(q) \in Nat /\ DOMAIN q = 1 .. Len(q)
  BY DEF IsSeq

LEMMA EmptyFollow ==
    /\ Follow(<<>>) /\ HandOf(<<>>) = {}
    /\ \A A, T : JobsZero(A, T, <<>>)
<1>1. DOMAIN <<>> = {} /\ IsSeq(<<>>)
  BY DEF IsSeq
<1> QED
  BY <1>1 DEF Follow, HandOf, Once, JobsZero

LEMMA OneJob ==
    ASSUME NEW j, NEW q, q = <<j>>
    PROVE  /\ IsSeq(q) /\ Once(q) /\ Len(q) = 1 /\ DOMAIN q = {1} /\ q[1] = j
           /\ HandOf(q) = JobRuns(j)
           /\ \A A, T : JobZero(A, T, j) => JobsZero(A, T, q)
<1>1. Len(q) = 1 /\ DOMAIN q = {1} /\ q[1] = j /\ q \in Seq({j})
  OBVIOUS
<1>2. {q[x] : x \in DOMAIN q} = {j}
  BY <1>1
<1> QED
  BY <1>1, <1>2 DEF IsSeq, HandOf, Once, JobsZero

LEMMA OneFollow ==
    ASSUME NEW j, JobOK(j), NEW q, q = <<j>>
    PROVE  /\ Queue(q)
           /\ j.do \notin {"newchunk", "huge", "stash"} => Follow(q)
  BY OneJob DEF Queue, Follow

LEMMA FollowQueue ==
    ASSUME NEW q, Follow(q)
    PROVE  Queue(q)
  BY DEF Follow, Queue

Joined(p, q, s) ==
    /\ IsSeq(s) /\ Len(s) = Len(p) + Len(q)
    /\ \A i \in 1 .. Len(p) : s[i] = p[i]
    /\ \A i \in 1 .. Len(q) : s[Len(p) + i] = q[i]
    /\ \A i \in DOMAIN s : \/ i \in DOMAIN p /\ s[i] = p[i]
                           \/ i - Len(p) \in DOMAIN q /\ s[i] = q[i - Len(p)]

LEMMA ConcatSeq ==
    ASSUME NEW p, NEW q, IsSeq(p), IsSeq(q), NEW s, s = p \o q
    PROVE  Joined(p, q, s)
<1> DEFINE S == {p[x] : x \in DOMAIN p} \cup {q[x] : x \in DOMAIN q}
<1>1. p \in Seq(S) /\ q \in Seq(S)
  BY SeqMonotonic DEF IsSeq
<1>2. /\ s \in Seq(S) /\ Len(s) = Len(p) + Len(q)
      /\ \A i \in 1 .. Len(p) : s[i] = p[i]
      /\ \A i \in 1 .. Len(q) : s[Len(p) + i] = q[i]
  <2> HIDE DEF S
  <2>1. /\ p \o q \in Seq(S) /\ Len(p \o q) = Len(p) + Len(q)
        /\ \A i \in 1 .. Len(p) : (p \o q)[i] = p[i]
        /\ \A i \in 1 .. Len(q) : (p \o q)[Len(p) + i] = q[i]
    BY <1>1, ConcatProperties
  <2> QED
    BY <2>1
<1>3. IsSeq(s)
  <2>1. s \in Seq(Range(s))
    BY <1>2, SeqOfRange
  <2> QED
    BY <2>1 DEF IsSeq, Range
<1>4. Len(p) \in Nat /\ Len(q) \in Nat /\ DOMAIN p = 1 .. Len(p) /\ DOMAIN q = 1 .. Len(q)
  BY SeqFacts
<1>5. ASSUME NEW i \in DOMAIN s
      PROVE  \/ i \in DOMAIN p /\ s[i] = p[i]
             \/ i - Len(p) \in DOMAIN q /\ s[i] = q[i - Len(p)]
  <2>1. i \in 1 .. Len(p) + Len(q)
    BY <1>2, <1>3, SeqFacts
  <2>2. CASE i <= Len(p)
    BY <1>2, <1>4, <2>1, <2>2
  <2>3. CASE i > Len(p)
    <3>1. i - Len(p) \in 1 .. Len(q) /\ Len(p) + (i - Len(p)) = i
      BY <1>4, <2>1, <2>3
    <3>2. s[Len(p) + (i - Len(p))] = q[i - Len(p)]
      BY <1>2, <3>1
    <3> QED
      BY <1>4, <3>1, <3>2
  <2> QED
    BY <1>4, <2>1, <2>2, <2>3
<1> QED
  BY <1>2, <1>3, <1>5 DEF Joined

\* One queue of jobs before another.
LEMMA ConcatJobs ==
    ASSUME NEW p, NEW q, IsSeq(p), IsSeq(q), Once(p), Once(q), HandOf(p) \cap HandOf(q) = {},
           NEW s, s = p \o q
    PROVE  /\ Once(s) /\ HandOf(s) = HandOf(p) \cup HandOf(q)
           /\ \A A, T : JobsZero(A, T, p) /\ JobsZero(A, T, q) => JobsZero(A, T, s)
<1>1. /\ Len(s) = Len(p) + Len(q)
      /\ \A i \in 1 .. Len(p) : s[i] = p[i]
      /\ \A i \in 1 .. Len(q) : s[Len(p) + i] = q[i]
      /\ \A i \in DOMAIN s : \/ i \in DOMAIN p /\ s[i] = p[i]
                             \/ i - Len(p) \in DOMAIN q /\ s[i] = q[i - Len(p)]
      /\ Len(p) \in Nat /\ DOMAIN p = 1 .. Len(p) /\ Len(q) \in Nat /\ DOMAIN q = 1 .. Len(q)
      /\ DOMAIN s = 1 .. Len(s)
  <2>1. Joined(p, q, s)
    BY ConcatSeq
  <2> QED
    BY <2>1, SeqFacts DEF Joined
<1>2. \A i \in DOMAIN p : i \in DOMAIN s /\ s[i] = p[i]
  BY <1>1
<1>3. \A i \in DOMAIN q : Len(p) + i \in DOMAIN s /\ s[Len(p) + i] = q[i]
  BY <1>1
<1>4. HandOf(s) = HandOf(p) \cup HandOf(q)
  <2>1. HandOf(s) \subseteq HandOf(p) \cup HandOf(q)
    BY <1>1 DEF HandOf
  <2>2. HandOf(p) \subseteq HandOf(s)
    BY <1>2 DEF HandOf
  <2>3. HandOf(q) \subseteq HandOf(s)
    BY <1>3 DEF HandOf
  <2> QED
    BY <2>1, <2>2, <2>3
<1>5. Once(s)
  <2> SUFFICES ASSUME NEW k \in DOMAIN s, NEW l \in DOMAIN s, k # l
               PROVE  JobRuns(s[k]) \cap JobRuns(s[l]) = {}
    BY DEF Once
  <2>1. CASE k \in DOMAIN p /\ s[k] = p[k] /\ l \in DOMAIN p /\ s[l] = p[l]
    BY <2>1 DEF Once
  <2>2. CASE k \in DOMAIN p /\ s[k] = p[k] /\ l - Len(p) \in DOMAIN q /\ s[l] = q[l - Len(p)]
    BY <2>2 DEF HandOf
  <2>3. CASE l \in DOMAIN p /\ s[l] = p[l] /\ k - Len(p) \in DOMAIN q /\ s[k] = q[k - Len(p)]
    BY <2>3 DEF HandOf
  <2>4. CASE /\ k - Len(p) \in DOMAIN q /\ s[k] = q[k - Len(p)]
             /\ l - Len(p) \in DOMAIN q /\ s[l] = q[l - Len(p)]
    <3>1. k - Len(p) # l - Len(p)
      BY <1>1
    <3> QED
      BY <2>4, <3>1 DEF Once
  <2> QED
    BY <1>1, <2>1, <2>2, <2>3, <2>4
<1>6. \A A, T : JobsZero(A, T, p) /\ JobsZero(A, T, q) => JobsZero(A, T, s)
  BY <1>1 DEF JobsZero
<1> QED
  BY <1>4, <1>5, <1>6

LEMMA ConcatFollow ==
    ASSUME NEW p, NEW q, Follow(p), Follow(q), HandOf(p) \cap HandOf(q) = {},
           NEW s, s = p \o q
    PROVE  Follow(s)
<1>1. /\ IsSeq(s)
      /\ \A i \in DOMAIN s : \/ i \in DOMAIN p /\ s[i] = p[i]
                             \/ i - Len(p) \in DOMAIN q /\ s[i] = q[i - Len(p)]
  <2>1. IsSeq(p) /\ IsSeq(q)
    BY DEF Follow
  <2> QED
    <3>1. Joined(p, q, s)
      BY <2>1, ConcatSeq
    <3> QED
      BY <3>1 DEF Joined
<1>2. Once(s)
  BY ConcatJobs DEF Follow
<1> QED
  BY <1>1, <1>2 DEF Follow

StashFirst(s, j) ==
    /\ Queue(s) /\ s # <<>> /\ Head(s) = j /\ s[1] = j
    /\ \A k \in DOMAIN s : k # 1 => s[k].do # "stash"

LEMMA StashQueue ==
    ASSUME NEW j, JobOK(j), j.do = "stash", NEW q, Follow(q), JobRuns(j) \cap HandOf(q) = {},
           NEW s, s = <<j>> \o q
    PROVE  StashFirst(s, j)
<1> DEFINE p == <<j>>
<1>1. IsSeq(p) /\ Once(p) /\ Len(p) = 1 /\ DOMAIN p = {1} /\ p[1] = j /\ HandOf(p) = JobRuns(j)
  BY OneJob
<1> HIDE DEF p
<1>2. s = p \o q
  BY DEF p
<1>3. IsSeq(q) /\ Once(q)
  BY DEF Follow
<1>4. /\ IsSeq(s) /\ Len(s) = Len(p) + Len(q)
      /\ \A i \in 1 .. Len(p) : s[i] = p[i]
      /\ \A i \in DOMAIN s : \/ i \in DOMAIN p /\ s[i] = p[i]
                             \/ i - Len(p) \in DOMAIN q /\ s[i] = q[i - Len(p)]
  <2>1. Joined(p, q, s)
    BY <1>1, <1>2, <1>3, ConcatSeq
  <2> QED
    BY <2>1 DEF Joined
<1>5. Once(s)
  BY <1>1, <1>2, <1>3, ConcatJobs
<1>6. s[1] = j /\ Len(s) \in Nat \ {0}
  BY <1>1, <1>3, <1>4, SeqFacts
<1>7. s # <<>> /\ Head(s) = j
  BY <1>4, <1>6 DEF IsSeq
<1>8. \A k \in DOMAIN s : k # 1 => JobOK(s[k]) /\ s[k].do \notin {"newchunk", "huge", "stash"}
  BY <1>1, <1>4 DEF Follow
<1> QED
  BY <1>4, <1>5, <1>6, <1>7, <1>8 DEF Queue, StashFirst

\* The first job of a queue and the others.
LEMMA FirstJob ==
    ASSUME NEW q, Queue(q), q # <<>>, NEW j, j = Head(q), NEW s, s = Tail(q)
    PROVE  /\ JobOK(j) /\ Follow(s) /\ JobRuns(j) \cap HandOf(s) = {}
           /\ HandOf(q) = JobRuns(j) \cup HandOf(s)
           /\ \A A, T : JobsZero(A, T, q) => JobZero(A, T, j) /\ JobsZero(A, T, s)
           /\ j = q[1] /\ 1 \in DOMAIN q
<1>1. /\ IsSeq(q) /\ Len(q) \in Nat \ {0} /\ DOMAIN q = 1 .. Len(q)
      /\ j = q[1] /\ 1 \in DOMAIN q
  BY DEF Queue, IsSeq
<1>2. /\ Len(s) = Len(q) - 1 /\ DOMAIN s = 1 .. Len(s)
      /\ \A i \in 1 .. Len(s) : s[i] = q[i + 1]
      /\ s \in Seq({q[x] : x \in DOMAIN q})
  BY HeadTailProperties DEF Queue, IsSeq
<1>3. IsSeq(s)
  <2>1. s \in Seq(Range(s))
    BY <1>2, SeqOfRange
  <2> QED
    BY <2>1 DEF IsSeq, Range
<1>4. \A i \in DOMAIN s : i + 1 \in DOMAIN q /\ i + 1 # 1 /\ s[i] = q[i + 1] /\ Len(q) # 1
  BY <1>1, <1>2
<1>5. \A i \in DOMAIN q : i = 1 \/ (i - 1 \in DOMAIN s /\ s[i - 1] = q[i])
  BY <1>1, <1>2
<1>6. \A k, l \in DOMAIN q : k # l => JobRuns(q[k]) \cap JobRuns(q[l]) = {}
  BY DEF Queue, Once
<1>7. Once(s)
  <2> SUFFICES ASSUME NEW k \in DOMAIN s, NEW l \in DOMAIN s, k # l
               PROVE  JobRuns(s[k]) \cap JobRuns(s[l]) = {}
    BY DEF Once
  <2>1. k + 1 # l + 1
    BY <1>2
  <2> QED
    BY <1>4, <1>6, <2>1
<1>8. Follow(s)
  BY <1>3, <1>4, <1>7 DEF Follow, Queue
<1>9. JobRuns(j) \cap HandOf(s) = {}
  BY <1>1, <1>4, <1>6 DEF HandOf
<1>10. HandOf(q) = JobRuns(j) \cup HandOf(s)
  BY <1>1, <1>4, <1>5 DEF HandOf
<1>11. JobOK(j)
  BY <1>1 DEF Queue
<1>12. \A A, T : JobsZero(A, T, q) => JobZero(A, T, j) /\ JobsZero(A, T, s)
  BY <1>1, <1>4 DEF JobsZero
<1> QED
  BY <1>1, <1>8, <1>9, <1>10, <1>11, <1>12

-----------------------------------------------------------------------------
(* A run is given back: the ledger of all chunks.                          *)

\* What is left to be done: an older spare to be unmapped, a purge.
Chores(q, s) ==
    \/ s = None /\ (q = <<>> \/ q = <<PurgeJob>>)
    \/ s # None /\ (q = <<UnmapJob(s)>> \/ q = <<UnmapJob(s), PurgeJob>>)

SpareRuns(s) == IF s = None THEN {} ELSE {Whole(s)}

LEMMA ChoresFollow ==
    ASSUME NEW s \in Chunks \cup {None}, NEW q, Chores(q, s)
    PROVE  Follow(q) /\ HandOf(q) = SpareRuns(s) /\ \A A, T : JobsZero(A, T, q)
<1>1. /\ JobOK(PurgeJob) /\ JobRuns(PurgeJob) = {} /\ \A A, T : JobZero(A, T, PurgeJob)
      /\ PurgeJob.do \notin {"newchunk", "huge", "stash"}
  BY DEF JobOK, JobRuns, JobZero, PurgeJob
<1> DEFINE P == <<PurgeJob>>
<1>2. Follow(P) /\ HandOf(P) = {} /\ \A A, T : JobsZero(A, T, P)
  BY <1>1, OneJob, OneFollow
<1>3. CASE s = None
  BY <1>2, <1>3, EmptyFollow DEF Chores, SpareRuns
<1>4. CASE s # None
  <2> DEFINE j == UnmapJob(s)
             U == <<j>>
  <2>1. /\ JobOK(j) /\ JobRuns(j) = {Whole(s)} /\ \A A, T : JobZero(A, T, j)
        /\ j.do \notin {"newchunk", "huge", "stash"}
    BY <1>4 DEF JobOK, JobRuns, JobZero, UnmapJob
  <2> HIDE DEF j
  <2>2. Follow(U) /\ HandOf(U) = {Whole(s)} /\ \A A, T : JobsZero(A, T, U)
    BY <2>1, OneJob, OneFollow
  <2>3. U \o P = <<j, PurgeJob>>
    <3>1. U \in Seq({j, PurgeJob}) /\ PurgeJob \in {j, PurgeJob}
      OBVIOUS
    <3>2. Append(U, PurgeJob) = U \o P
      BY <3>1, AppendIsConcat
    <3>3. Append(U, PurgeJob) = <<j, PurgeJob>>
      BY AppendPurge DEF j
    <3> QED
      BY <3>2, <3>3
  <2> HIDE DEF U, P
  <2>4. PICK w : w = U \o P
    OBVIOUS
  <2>5. HandOf(U) \cap HandOf(P) = {}
    BY <1>2
  <2>6. Follow(w)
    BY <1>2, <2>2, <2>4, <2>5, ConcatFollow
  <2>7. HandOf(w) = HandOf(U) \cup HandOf(P) /\ \A A, T : JobsZero(A, T, w)
    BY <1>2, <2>2, <2>4, <2>5, ConcatJobs DEF Follow
  <2>8. q = U \/ q = w
    BY <1>4, <2>3, <2>4 DEF Chores, U, j
  <2> QED
    BY <1>2, <1>4, <2>2, <2>6, <2>7, <2>8 DEF SpareRuns
<1> QED
  BY <1>3, <1>4

\* Run r is back; H, a chunk to be unmapped, is new if nothing else was in r's chunk.
GivenBack(A, g, tk, T, O, r, H) ==
    /\ IsArena(g.a) /\ Quiet(A, g.a, O \ {r})
    /\ Ledger(g.a, tk, T, (O \ {r}) \cup H) /\ H \cap O = {} /\ r \notin H
    /\ Follow(g.then) /\ HandOf(g.then) = H /\ \A B, U : JobsZero(B, U, g.then)
    /\ H = {} \/ RunsIn(O \ {r}, r.c) = {}

LEMMA LedgerDalloc ==
    ASSUME NEW A, IsArena(A), NEW tk, NEW T, NEW O, Ledger(A, tk, T, O), Book(O),
           NEW r \in O, r.i # 0, NEW dirty \in BOOLEAN, NEW cleaned \in BOOLEAN,
           BackDirty(A, r.c, r, dirty, cleaned) \/ ZeroRun(A, T, r),
           NEW g, g = arena_run_dalloc(A, r.c, r.i, dirty, cleaned)
    PROVE  \E H : GivenBack(A, g, tk, T, O, r, H)
<1> DEFINE c == r.c
           U == TouchedIn(T, c)
           R == RunsIn(O, c)
           Q == R \ {r}
<1>1. c \in Chunks /\ r.small \in BOOLEAN
  BY DEF Book
<1>2. CutUp(A, c, tk, T, O) /\ RunAt(A.map[c], r) /\ r \in R
  BY <1>1, RunChunk
<1>3. c \in tk /\ A.spare # c /\ View(A, c, U, R, {})
  BY <1>2 DEF CutUp
<1>4. Zeroish(A, c, U, r, BackDirty(A, c, r, dirty, cleaned))
  BY DEF Zeroish, ZeroRun, TouchedIn
<1>5. Given(A, g, c, U, Q)
  <2> HIDE DEF U, R
  <2>1. PICK x : x = c
    OBVIOUS
  <2>2. /\ View(A, x, U, R, {}) /\ Zeroish(A, x, U, r, BackDirty(A, x, r, dirty, cleaned))
        /\ g = arena_run_dalloc(A, x, r.i, dirty, cleaned) /\ x \in Chunks
    BY <1>1, <1>3, <1>4, <2>1
  <2>3. PICK q : q = Q
    OBVIOUS
  <2> HIDE DEF c
  <2>4. Given(A, g, x, U, q)
    BY <1>1, <1>2, <2>2, <2>3, Dalloc
  <2> QED
    BY <2>1, <2>3, <2>4
<1>6. IsArena(g.a) /\ Others(A, g.a, c) /\ RunsKept(A, g.a, c, Q)
  BY <1>5 DEF Given
<1>7. Quiet(A, g.a, O \ {r})
  <2> SUFFICES ASSUME NEW s \in O \ {r}, s.i # 0, NEW k \in RunSpan(s)
               PROVE  g.a.map[s.c][k] = A.map[s.c][k]
    BY DEF Quiet
  <2>1. CASE s.c = c
    BY <1>6, <2>1 DEF RunsKept, RunsIn
  <2>2. CASE s.c # c
    BY <1>6, <2>2 DEF Others, Book
  <2> QED
    BY <2>1, <2>2
<1>8. RunsIn(O \ {r}, c) = Q /\ \A d \in Chunks \ {c} : RunsIn(O \ {r}, d) = RunsIn(O, d)
  BY DEF RunsIn
<1>9. CASE Stays(A, g, c, U, Q)
  <2>1. /\ g.a.spare = A.spare /\ View(g.a, c, U, Q, {})
        /\ g.then = <<>> \/ g.then = <<PurgeJob>>
    BY <1>9 DEF Stays
  <2>2. Else(A, g.a, c)
    BY <1>6, <2>1 DEF Else, Others
  <2>3. ChunkOK(g.a, c, TouchedIn(T, c), c \in tk, RunsIn(O \ {r}, c))
    BY <1>3, <1>8, <2>1 DEF ChunkOK
  <2>4. Ledger(g.a, tk, T, O \ {r})
    BY <1>1, <1>8, <2>2, <2>3, OneChunk
  <2>5. Chores(g.then, None)
    BY <2>1 DEF Chores
  <2>6. Follow(g.then) /\ HandOf(g.then) = {} /\ \A B, V : JobsZero(B, V, g.then)
    <3>1. None \in Chunks \cup {None}
      OBVIOUS
    <3> QED
      BY <2>5, <3>1, ChoresFollow DEF SpareRuns
  <2>7. (O \ {r}) \cup {} = O \ {r}
    OBVIOUS
  <2>8. GivenBack(A, g, tk, T, O, r, {})
    BY <1>6, <1>7, <2>4, <2>6, <2>7 DEF GivenBack
  <2> QED
    BY <2>8
<1>10. CASE Becomes(A, g, c, U, Q)
  <2> DEFINE s == A.spare
             H == SpareRuns(s)
             P == (O \ {r}) \cup H
  <2>1. /\ Q = {} /\ g.a.spare = c /\ Empty(g.a, c, U)
        /\ s = None => g.then = <<>> \/ g.then = <<PurgeJob>>
        /\ s # None => \/ g.then = <<UnmapJob(s)>>
                       \/ g.then = <<UnmapJob(s), PurgeJob>>
    BY <1>10 DEF Becomes
  <2>2. Chores(g.then, s) /\ s \in Chunks \cup {None}
    BY <2>1 DEF Chores, IsArena
  <2>3. Follow(g.then) /\ HandOf(g.then) = H /\ \A B, V : JobsZero(B, V, g.then)
    BY <2>2, ChoresFollow
  <2>4. \A h \in H : h = Whole(s) /\ h.c = s /\ h.i = 0 /\ s \in Chunks
    BY <2>2 DEF SpareRuns, Whole, Run
  <2>5. s \in Chunks => RunsIn(O, s) = {} /\ s \in tk /\ Empty(A, s, TouchedIn(T, s))
    BY DEF Ledger, ChunkOK
  <2>6. H \cap O = {} /\ r \notin H
    BY <2>4, <2>5 DEF RunsIn
  <2>7. Ledger(g.a, tk, T, P)
    <3> SUFFICES ASSUME NEW d \in Chunks
                 PROVE  ChunkOK(g.a, d, TouchedIn(T, d), d \in tk, RunsIn(P, d))
      BY DEF Ledger
    <3>1. CASE d = c
      <4>1. RunsIn(P, c) = {}
        BY <1>3, <1>8, <2>1, <2>4 DEF RunsIn
      <4> QED
        BY <1>3, <2>1, <3>1, <4>1 DEF ChunkOK
    <3>2. CASE d # c /\ d = s
      <4>1. RunsIn(P, d) = {Whole(d)}
        <5>1. H = {Whole(d)}
          BY <3>2, ArenaRunsAssumption DEF SpareRuns, Chunks
        <5> QED
          BY <2>4, <2>5, <3>2, <5>1 DEF RunsIn
      <4>2. Unused(A, d) /\ d \in tk
        BY <2>5, <3>2 DEF Empty
      <4>3. Unused(g.a, d)
        BY <1>6, <3>2, <4>2 DEF Unused, Others
      <4> QED
        BY <2>1, <3>2, <4>1, <4>2, <4>3 DEF ChunkOK
    <3>3. CASE d # c /\ d # s
      <4>1. RunsIn(P, d) = RunsIn(O, d)
        BY <1>8, <2>4, <3>3 DEF RunsIn
      <4>2. ChunkOK(A, d, TouchedIn(T, d), d \in tk, RunsIn(O, d))
        BY DEF Ledger
      <4>3. /\ g.a.map[d] = A.map[d] /\ Avail(g.a, d) = Avail(A, d)
            /\ g.a.cnt[d].dirty = A.cnt[d].dirty /\ (g.a.spare = d <=> A.spare = d)
        BY <1>6, <2>1, <3>3 DEF Others
      <4> QED
        BY <4>1, <4>2, <4>3, ChunkFrame
    <3> QED
      BY <3>1, <3>2, <3>3
  <2>8. GivenBack(A, g, tk, T, O, r, H)
    BY <1>6, <1>7, <1>8, <2>1, <2>3, <2>6, <2>7 DEF GivenBack
  <2> QED
    BY <2>8
<1> QED
  BY <1>5, <1>9, <1>10 DEF Given

-----------------------------------------------------------------------------
(* Runs that change hands, size or kind, on the same pages.                *)

Covers(R, X) == \A k \in Pages : k \in X <=> \E r \in R : k \in RunSpan(r)
Disjoint(R) == \A r, s \in R : r # s => \A k \in RunSpan(r) : k \notin RunSpan(s)

Replaced(m, w, T, F, R, Old, New, X, Q) ==
    /\ Layout(w, T, F, Q, {}) /\ New \cap (R \ Old) = {}
    /\ \A i \in F : w[i] = m[i] /\ FreeSpan(w, i) = FreeSpan(m, i)
    /\ \A r \in R \ Old : \A k \in RunSpan(r) : k \notin X

LEMMA LayoutSwap ==
    ASSUME NEW m, NEW T, NEW F, NEW R, Layout(m, T, F, R, {}), NEW Old, Old \subseteq R,
           NEW X, Covers(Old, X), NEW w, \A k \in Pages \ X : w[k] = m[k],
           NEW New, \A r \in New : RunAt(w, r), Covers(New, X), Disjoint(New),
           NEW Q, Q = (R \ Old) \cup New
    PROVE  Replaced(m, w, T, F, R, Old, New, X, Q)
<1> DEFINE S == R \ Old
<1>1. \A i \in F : FreeAt(m, T, i) /\ \A k \in FreeSpan(m, i) : k \in Pages
  BY ArenaRunsAssumption DEF Layout, FreeAt, FreeSpan, Span, Pages
<1>2. \A r \in R : RunAt(m, r) /\ \A k \in RunSpan(r) : k \in Pages
  BY ArenaRunsAssumption DEF Layout, RunAt, RunSpan, Span, Pages
<1>3. \A i \in F : \A k \in FreeSpan(m, i) : k \notin X
  BY <1>1 DEF Layout, Covers
<1>4. \A r \in S : \A k \in RunSpan(r) : k \notin X
  BY <1>2 DEF Layout, Covers
<1>5. \A k \in Pages \ X : \/ \E i \in F : k \in FreeSpan(m, i)
                           \/ \E r \in S : k \in RunSpan(r)
  BY DEF Layout, Covers
<1>6. Layout(m, T, F, S, X)
  BY <1>3, <1>4, <1>5 DEF Layout
<1> HIDE DEF S
<1>7. /\ Layout(w, T, F, S, X)
      /\ \A i \in F : w[i] = m[i] /\ FreeSpan(w, i) = FreeSpan(m, i)
  BY <1>6, LayoutMap
<1>8. \A r \in New : RunAt(w, r) /\ r.i \in RunSpan(r) /\ \A k \in RunSpan(r) : k \in Pages
  BY ArenaRunsAssumption DEF RunAt, RunSpan, Span, Pages
<1>9. \A r \in New : \A k \in RunSpan(r) : k \in X
  BY <1>8 DEF Covers
<1>10. New \cap S = {}
  BY <1>7, <1>8, <1>9 DEF Layout
<1>11. Layout(w, T, F, S \cup New, {})
  <2>1. \A r \in S \cup New : RunAt(w, r)
    BY <1>7, <1>8 DEF Layout
  <2>2. \A r, s \in S \cup New : r # s => \A k \in RunSpan(r) : k \notin RunSpan(s)
    BY <1>7, <1>9 DEF Layout, Disjoint
  <2>3. \A i \in F, r \in S \cup New : \A k \in FreeSpan(w, i) : k \notin RunSpan(r)
    BY <1>7, <1>9 DEF Layout
  <2>4. \A k \in Pages : \/ \E i \in F : k \in FreeSpan(w, i)
                         \/ \E r \in S \cup New : k \in RunSpan(r)
    BY <1>7 DEF Layout, Covers
  <2> QED
    BY <1>7, <2>1, <2>2, <2>3, <2>4 DEF Layout
<1> QED
  BY <1>4, <1>7, <1>10, <1>11 DEF S, Replaced

\* The runs Old become the runs New; nobody else notices.
Swapped(A, B, tk, T, O, Old, New) ==
    /\ IsArena(B) /\ B.spare = A.spare
    /\ Ledger(B, tk, T, (O \ Old) \cup New) /\ New \cap (O \ Old) = {}
    /\ Quiet(A, B, O \ Old)

LEMMA LedgerSwap ==
    ASSUME NEW A, IsArena(A), NEW tk, NEW T, NEW O, Ledger(A, tk, T, O), Book(O),
           NEW c \in Chunks, NEW Old, Old # {}, \A r \in Old : r \in O /\ r.c = c /\ r.i # 0,
           NEW X, Covers(Old, X), NEW B, MapOnly(A, B, c, X),
           NEW New, \A r \in New : RunAt(B.map[c], r) /\ r.c = c, Covers(New, X), Disjoint(New)
    PROVE  Swapped(A, B, tk, T, O, Old, New)
<1> DEFINE U == TouchedIn(T, c)
           R == RunsIn(O, c)
           Q == (R \ Old) \cup New
           P == (O \ Old) \cup New
           m == A.map[c]
           w == B.map[c]
           F == Avail(A, c)
<1>1. PICK r0 \in Old : r0 \in O /\ r0.c = c /\ r0.i # 0
  OBVIOUS
<1>2. CutUp(A, c, tk, T, O)
  BY <1>1, RunChunk
<1>3. c \in tk /\ A.spare # c /\ Layout(m, U, F, R, {}) /\ A.cnt[c].dirty = Cardinality(DirtyPages(m, F))
  BY <1>2 DEF CutUp, View
<1>4. Old \subseteq R /\ \A k \in Pages \ X : w[k] = m[k]
  BY DEF RunsIn, MapOnly, Kept
<1>5. /\ Layout(w, U, F, Q, {}) /\ New \cap (R \ Old) = {}
      /\ \A i \in F : w[i] = m[i] /\ FreeSpan(w, i) = FreeSpan(m, i)
      /\ \A r \in R \ Old : \A k \in RunSpan(r) : k \notin X
  <2>1. PICK q : q = Q
    OBVIOUS
  <2>2. \A r \in New : RunAt(w, r)
    OBVIOUS
  <2> HIDE DEF U, R, Q, m, w, F
  <2>3. q = (R \ Old) \cup New
    BY <2>1 DEF Q
  <2>4. Replaced(m, w, U, F, R, Old, New, X, q)
    BY <1>3, <1>4, <2>2, <2>3, LayoutSwap
  <2> QED
    BY <2>1, <2>4 DEF Replaced
<1>6. /\ IsArena(B) /\ B.spare = A.spare /\ Else(A, B, c) /\ Avail(B, c) = F
      /\ B.cnt[c].dirty = A.cnt[c].dirty
  BY DEF MapOnly, Else, Avail
<1>7. DirtyPages(w, F) = DirtyPages(m, F)
  <2> HIDE DEF w, m, F
  <2> QED
    BY <1>5 DEF DirtyPages
<1>8. View(B, c, U, Q, {})
  BY <1>3, <1>5, <1>6, <1>7 DEF View
<1>9. RunsIn(P, c) = Q /\ \A d \in Chunks \ {c} : RunsIn(P, d) = RunsIn(O, d)
  BY DEF RunsIn
<1>10. ChunkOK(B, c, TouchedIn(T, c), c \in tk, RunsIn(P, c))
  BY <1>3, <1>6, <1>8, <1>9 DEF ChunkOK
<1>11. Ledger(B, tk, T, P)
  <2> HIDE DEF P
  <2> QED
    BY <1>6, <1>9, <1>10, OneChunk
<1>12. New \cap (O \ Old) = {}
  BY <1>5 DEF RunsIn
<1>13. Quiet(A, B, O \ Old)
  <2>1. Within(A, B, c, X) /\ O \ Old \subseteq O
    BY DEF MapOnly, Within
  <2>2. \A s \in O \ Old : s.c = c /\ s.i # 0 => \A k \in RunSpan(s) : k \notin X
    BY <1>5 DEF RunsIn
  <2> QED
    BY <2>1, <2>2, QuietWithin
<1> QED
  BY <1>6, <1>11, <1>12, <1>13 DEF Swapped

-----------------------------------------------------------------------------
(* The application writes to its runs, or the system clears them.          *)

LEMMA LedgerTouch ==
    ASSUME NEW A, NEW tk, NEW T, NEW O, Ledger(A, tk, T, O), NEW U,
           \A c \in Chunks, k \in Pages :
              <<c, k>> \in U => <<c, k>> \in T \/ \E r \in RunsIn(O, c) : k \in RunSpan(r)
    PROVE  Ledger(A, tk, U, O)
<1> SUFFICES ASSUME NEW c \in Chunks
             PROVE  ChunkOK(A, c, TouchedIn(U, c), c \in tk, RunsIn(O, c))
  BY DEF Ledger
<1> DEFINE V == TouchedIn(T, c)
           W == TouchedIn(U, c)
           R == RunsIn(O, c)
<1>1. ChunkOK(A, c, V, c \in tk, R)
  BY DEF Ledger
<1>2. \A k \in W \ V : \E r \in R : k \in RunSpan(r)
  BY DEF TouchedIn
<1> HIDE DEF V, W, R
<1>3. CASE c \in tk /\ A.spare # c /\ View(A, c, V, R, {})
  <2>1. \A k \in W \ V : k \in {} \/ \E r \in R : k \in RunSpan(r)
    BY <1>2
  <2>2. View(A, c, W, R, {})
    BY <1>3, <2>1, ViewTouch
  <2> QED
    BY <1>3, <2>2 DEF ChunkOK, W, R
<1>4. CASE c \in tk /\ A.spare = c /\ R = {} /\ Empty(A, c, V)
  <2>1. FreeAt(A.map[c], W, 1)
    BY <1>2, <1>4 DEF Empty, FreeAt, Clean
  <2> QED
    BY <1>4, <2>1 DEF ChunkOK, Empty, W, R
<1>5. CASE c \notin tk \/ (R = {Whole(c)} /\ Unused(A, c) /\ A.spare # c)
  BY <1>1, <1>5 DEF ChunkOK, W, R
<1> QED
  BY <1>1, <1>3, <1>4, <1>5 DEF ChunkOK

-----------------------------------------------------------------------------
(* Chunks that come, or come back.                                         *)

\* A chunk that is free as a whole gets into the tree.
Opened(A, B, c, tk, T, O) ==
    /\ IsArena(B) /\ Ledger(B, tk, T, O) /\ Quiet(A, B, O)
    /\ 1 \in Avail(B, c) /\ B.map[c][1].size = NPages

LEMMA WholeView ==
    ASSUME NEW A, IsArena(A), NEW c \in Chunks, NEW T, Empty(A, c, T),
           NEW B, B = arena_avail_insert(A, c, 1, NPages, FALSE, FALSE)
    PROVE  Inserted(A, B, c, 1) /\ View(B, c, T, {}, {}) /\ 1 \in Avail(B, c)
<1>1. Avail(A, c) = {} /\ A.cnt[c].dirty = 0 /\ FreeAt(A.map[c], T, 1) /\ A.map[c][1].size = NPages
  BY DEF Empty, Unused
<1>2. FreeSpan(A.map[c], 1) = Pages
  BY <1>1, ArenaRunsAssumption DEF FreeSpan, Span, Pages
<1>3. View(A, c, T, {}, Pages)
  <2>1. DirtyPages(A.map[c], {}) = {}
    BY DEF DirtyPages
  <2>2. Cardinality({}) = 0
    BY FS_EmptySet
  <2>3. Layout(A.map[c], T, {}, {}, Pages)
    BY DEF Layout
  <2> QED
    BY <1>1, <2>1, <2>2, <2>3 DEF View
<1>4. PICK p, X, Y, R, n : p = FALSE /\ X = Pages /\ Y = {} /\ R = {} /\ n = NPages
  OBVIOUS
<1>5. /\ View(A, c, T, R, X) /\ \A k \in FreeSpan(A.map[c], 1) : k \in X
      /\ B = arena_avail_insert(A, c, 1, A.map[c][1].size, p, p)
      /\ Y = X \ FreeSpan(A.map[c], 1)
  BY <1>1, <1>2, <1>3, <1>4
<1>6. Inserted(A, B, c, 1) /\ View(B, c, T, R, Y)
  BY <1>1, <1>5, ViewInsert
<1> QED
  BY <1>4, <1>6 DEF Inserted

LEMMA LedgerSpare ==
    ASSUME NEW A, IsArena(A), NEW tk, NEW T, NEW O, Ledger(A, tk, T, O), Book(O),
           NEW c \in Chunks, A.spare = c,
           NEW B, B = arena_avail_insert([A EXCEPT !.spare = None], c, 1, NPages, FALSE, FALSE)
    PROVE  Opened(A, B, c, tk, T, O)
<1> DEFINE C == WithSpare(A, None)
           U == TouchedIn(T, c)
<1>1. IsArena(C) /\ C.map = A.map /\ C.cnt = A.cnt /\ C.avail = A.avail /\ C.spare = None
  BY SpareOnly
<1>2. B = arena_avail_insert(C, c, 1, NPages, FALSE, FALSE)
  BY DEF WithSpare
<1> HIDE DEF C
<1>3. c \in tk /\ RunsIn(O, c) = {} /\ Empty(A, c, U)
  BY DEF Ledger, ChunkOK
<1>4. Empty(C, c, U)
  BY <1>1, <1>3 DEF Empty, Unused, Avail
<1>5. Inserted(C, B, c, 1) /\ View(B, c, U, {}, {}) /\ 1 \in Avail(B, c)
  BY <1>1, <1>2, <1>4, WholeView
<1>6. IsArena(B) /\ B.map = A.map /\ B.spare = None
  BY <1>1, <1>5 DEF Inserted, Else
<1>7. Ledger(B, tk, T, O)
  <2> SUFFICES ASSUME NEW d \in Chunks
               PROVE  ChunkOK(B, d, TouchedIn(T, d), d \in tk, RunsIn(O, d))
    BY DEF Ledger
  <2>1. B.spare # d
    BY <1>6, ArenaRunsAssumption DEF Chunks
  <2>2. CASE d = c
    BY <1>3, <1>5, <2>1, <2>2 DEF ChunkOK
  <2>3. CASE d # c
    <3>1. /\ B.map[d] = A.map[d] /\ Avail(B, d) = Avail(A, d)
          /\ B.cnt[d].dirty = A.cnt[d].dirty /\ (B.spare = d <=> A.spare = d)
      BY <1>1, <1>5, <2>1, <2>3 DEF Inserted, Else, Avail
    <3>2. ChunkOK(A, d, TouchedIn(T, d), d \in tk, RunsIn(O, d))
      BY DEF Ledger
    <3> QED
      BY <3>1, <3>2, ChunkFrame
  <2> QED
    BY <2>2, <2>3
<1>8. Quiet(A, B, O)
  BY <1>6 DEF Quiet
<1> QED
  BY <1>3, <1>5, <1>6, <1>7, <1>8 DEF Opened, Empty

NewMap(A, c, zero) ==
    [i \in Pages |-> IF zero
                     THEN [alloc |-> FALSE, large |-> FALSE, size |-> 0, dirty |-> FALSE,
                           unz |-> FALSE]
                     ELSE [A.map[c][i] EXCEPT !.unz = TRUE]]
NoCounts == [avail |-> 0, adjac |-> 0, dirty |-> 0]
FreshChunk(A, c, w) == [A EXCEPT !.map[c] = w, !.cnt[c] = NoCounts]

LEMMA FreshFields ==
    ASSUME NEW A, IsArena(A), NEW c \in Chunks, NEW w \in [Pages -> Bits],
           NEW B, B = FreshChunk(A, c, w)
    PROVE  /\ Else(A, B, c) /\ B.map[c] = w /\ B.avail = A.avail
           /\ B.cnt[c].dirty = 0
<1> DEFINE m == [A.map EXCEPT ![c] = w]
           q == [A.cnt EXCEPT ![c] = NoCounts]
<1>1. B = [map |-> m, cnt |-> q, avail |-> A.avail, spare |-> A.spare,
           ndirty |-> A.ndirty, nactive |-> A.nactive, npurgatory |-> A.npurgatory]
  BY DEF IsArena, FreshChunk
<1>2. /\ m \in [Chunks -> [Pages -> Bits]] /\ m[c] = w
      /\ \A d \in Chunks \ {c} : m[d] = A.map[d]
  BY DEF IsArena
<1>3. /\ q \in [Chunks -> [adjac : Int, avail : Int, dirty : Int]] /\ q[c] = NoCounts
      /\ \A d \in Chunks \ {c} : q[d] = A.cnt[d]
  BY DEF IsArena, NoCounts
<1> HIDE DEF m, q
<1>4. /\ B.map = m /\ B.cnt = q /\ B.avail = A.avail /\ B.spare = A.spare
      /\ B.ndirty = A.ndirty /\ B.nactive = A.nactive /\ B.npurgatory = A.npurgatory
  BY <1>1
<1>5. IsArena(B)
  BY <1>1, <1>2, <1>3, <1>4 DEF IsArena
<1> QED
  BY <1>2, <1>3, <1>4, <1>5 DEF Else, Avail, NoCounts

LEMMA LedgerInit ==
    ASSUME NEW A, IsArena(A), NEW tk, NEW T, NEW O, Ledger(A, tk, T, O), Book(O),
           NEW c \in Chunks, c \notin tk, NEW zero \in BOOLEAN,
           zero => T \cap ({c} \X Pages) = {},
           NEW B, B = arena_avail_insert(arena_chunk_init_hard(A, c, zero),
                                         c, 1, NPages, FALSE, FALSE)
    PROVE  Opened(A, B, c, tk \cup {c}, T, O)
<1> DEFINE U == TouchedIn(T, c)
           w == NewMap(A, c, zero)
           G == FreshChunk(A, c, w)
           C == FreeMarked(G, c, 1, NPages, FALSE, ~zero, ~zero)
<1>1. 1 \in Pages /\ NPages \in Pages /\ 1 + NPages - 1 = NPages /\ NPages \in Nat \ {0}
  BY ArenaRunsAssumption DEF Pages
<1>2. arena_chunk_init_hard(A, c, zero) = C
  BY <1>1 DEF arena_chunk_init_hard, FreeMarked, FreshChunk, NewMap, NoCounts
<1>3. w \in [Pages -> Bits]
  <2>1. \A i \in Pages : A.map[c][i] \in Bits
    BY ElemType
  <2>2. 0 \in 0 .. NPages
    BY ArenaRunsAssumption
  <2>3. \A i \in Pages : [A.map[c][i] EXCEPT !.unz = TRUE] \in Bits
    BY <2>1 DEF Bits
  <2> QED
    BY <2>2, <2>3 DEF NewMap, Bits
<1>4. \A i \in Pages : w[i].unz = ~zero
  <2>1. \A i \in Pages : [A.map[c][i] EXCEPT !.unz = TRUE].unz = TRUE
    BY ElemType DEF Bits
  <2> QED
    BY <2>1 DEF NewMap
<1> HIDE DEF w
<1>5. /\ Else(A, G, c) /\ G.map[c] = w /\ G.avail = A.avail /\ G.cnt[c].dirty = 0
  BY <1>3, FreshFields
<1> HIDE DEF G
<1>6. RunsIn(O, c) = {} /\ Unused(A, c) /\ A.spare # c
  BY DEF Ledger, ChunkOK
<1>7. IsArena(G) /\ Unused(G, c)
  BY <1>5, <1>6 DEF Unused, Else, Avail
<1>8. MapOnly(G, C, c, Pages) /\ FreeRun(C.map[c], U, 1, NPages, FALSE)
  <2>1. PICK d, u, n : d = FALSE /\ u = ~zero /\ n = NPages
    OBVIOUS
  <2>2. \A k \in Span(1, n) : k \in U => w[k].unz
    <3>1. CASE zero
      BY <3>1 DEF TouchedIn
    <3>2. CASE ~zero
      BY <1>1, <1>4, <2>1, <3>2 DEF Span, Pages
    <3> QED
      BY <3>1, <3>2
  <2>3. MayMark(w, U, 1, n, d, u, u)
    <3>1. u = w[1].unz /\ u = w[1 + n - 1].unz /\ u \in BOOLEAN /\ d \in BOOLEAN
      BY <1>1, <1>4, <2>1
    <3>2. 1 \in Pages /\ n \in Nat \ {0} /\ 1 + n - 1 <= NPages
      BY <1>1, <2>1
    <3> QED
      BY <2>2, <3>1, <3>2 DEF MayMark
  <2>4. C = FreeMarked(G, c, 1, n, d, u, u) /\ MayMark(G.map[c], U, 1, n, d, u, u)
    BY <1>5, <2>1, <2>3
  <2> HIDE DEF C, U
  <2>5. MapOnly(G, C, c, Span(1, n)) /\ FreeRun(C.map[c], U, 1, n, d)
    BY <1>7, <2>4, MarkedFree
  <2>6. Span(1, n) = Pages
    BY <1>1, <2>1 DEF Span, Pages
  <2> QED
    BY <2>1, <2>5, <2>6
<1> HIDE DEF C
<1>9. IsArena(C) /\ Empty(C, c, U) /\ Else(A, C, c)
  <2>1. IsArena(C) /\ C.avail = G.avail /\ C.cnt = G.cnt /\ Else(G, C, c)
    BY <1>8 DEF MapOnly, Else
  <2>2. Unused(C, c)
    BY <1>7, <2>1 DEF Unused, Avail
  <2>3. Else(A, C, c)
    BY <1>5, <2>1 DEF Else
  <2> QED
    BY <1>8, <2>1, <2>2, <2>3 DEF Empty, FreeRun
<1>10. Inserted(C, B, c, 1) /\ View(B, c, U, {}, {}) /\ 1 \in Avail(B, c)
  BY <1>2, <1>9, WholeView
<1>11. /\ Else(A, B, c) /\ B.map = C.map
  BY <1>9, <1>10 DEF Inserted, Else
<1>12. Ledger(B, tk \cup {c}, T, O)
  <2>1. ChunkOK(B, c, TouchedIn(T, c), c \in tk \cup {c}, RunsIn(O, c))
    BY <1>6, <1>10, <1>11 DEF ChunkOK, Else
  <2>2. \A d \in Chunks \ {c} : RunsIn(O, d) = RunsIn(O, d) /\ (d \in tk \cup {c} <=> d \in tk)
    OBVIOUS
  <2> QED
    BY <1>11, <2>1, <2>2, OneChunk
<1>13. Quiet(A, B, O)
  <2>1. \A s \in O : s.c # c /\ s.c \in Chunks
    BY <1>6 DEF RunsIn, Book
  <2> QED
    BY <1>11, <2>1 DEF Quiet, Else
<1>14. B.map[c][1].size = NPages /\ IsArena(B)
  BY <1>9, <1>11 DEF Empty, Else
<1> QED
  BY <1>10, <1>12, <1>13, <1>14 DEF Opened

-----------------------------------------------------------------------------
(* The flags after a purge.                                                *)

Reflagged(A, S, ps) ==
    [A EXCEPT !.map = [c \in Chunks |-> [i \in Pages |->
        IF <<c, i>> \in S THEN [A.map[c][i] EXCEPT !.unz = <<c, i>> \notin ps]
        ELSE A.map[c][i]]]]

Reflags(A, B, S, ps) ==
    /\ IsArena(B) /\ B.spare = A.spare /\ B.avail = A.avail /\ B.cnt = A.cnt
    /\ \A c \in Chunks, k \in Pages :
         /\ <<c, k>> \notin S => B.map[c][k] = A.map[c][k]
         /\ <<c, k>> \in S =>
              /\ B.map[c][k].alloc = A.map[c][k].alloc /\ B.map[c][k].large = A.map[c][k].large
              /\ B.map[c][k].size = A.map[c][k].size
              /\ B.map[c][k].unz = (<<c, k>> \notin ps)

LEMMA FlagFields ==
    ASSUME NEW A, IsArena(A), NEW S, NEW ps, NEW B, B = Reflagged(A, S, ps)
    PROVE  Reflags(A, B, S, ps)
<1> DEFINE b(c, i) == [A.map[c][i] EXCEPT !.unz = <<c, i>> \notin ps]
           w == [c \in Chunks |-> [i \in Pages |->
                   IF <<c, i>> \in S THEN b(c, i) ELSE A.map[c][i]]]
<1>1. ASSUME NEW c \in Chunks, NEW i \in Pages
      PROVE  /\ b(c, i) \in Bits /\ A.map[c][i] \in Bits
             /\ b(c, i).alloc = A.map[c][i].alloc /\ b(c, i).large = A.map[c][i].large
             /\ b(c, i).size = A.map[c][i].size
             /\ b(c, i).unz = (<<c, i>> \notin ps)
  <2>1. PICK u \in BOOLEAN : u = (<<c, i>> \notin ps)
    OBVIOUS
  <2>2. b(c, i) = [A.map[c][i] EXCEPT !.unz = u]
    BY <2>1
  <2>3. A.map[c][i] \in Bits
    BY ElemType
  <2> HIDE DEF b
  <2>4. /\ b(c, i) \in Bits
        /\ b(c, i).alloc = A.map[c][i].alloc /\ b(c, i).large = A.map[c][i].large
        /\ b(c, i).size = A.map[c][i].size /\ b(c, i).unz = u
    BY <2>2, <2>3 DEF Bits
  <2> QED
    BY <2>1, <2>3, <2>4
<1>2. B = [map |-> w, cnt |-> A.cnt, avail |-> A.avail, spare |-> A.spare,
           ndirty |-> A.ndirty, nactive |-> A.nactive, npurgatory |-> A.npurgatory]
  BY DEF IsArena, Reflagged
<1> HIDE DEF b
<1>3. /\ w \in [Chunks -> [Pages -> Bits]]
      /\ \A c \in Chunks, i \in Pages :
            w[c][i] = IF <<c, i>> \in S THEN b(c, i) ELSE A.map[c][i]
  BY <1>1
<1> HIDE DEF w
<1>4. /\ B.map = w /\ B.cnt = A.cnt /\ B.avail = A.avail /\ B.spare = A.spare
      /\ B.ndirty = A.ndirty /\ B.nactive = A.nactive /\ B.npurgatory = A.npurgatory
  BY <1>2
<1>5. IsArena(B)
  BY <1>2, <1>3, <1>4 DEF IsArena
<1> QED
  BY <1>1, <1>3, <1>4, <1>5 DEF Reflags

PagesIn(H, S) ==
    \A c \in Chunks, k \in Pages : <<c, k>> \in S <=> \E r \in H : r.c = c /\ k \in RunSpan(r)

LEMMA LedgerFlags ==
    ASSUME NEW A, IsArena(A), NEW tk, NEW T, NEW O, Ledger(A, tk, T, O), Book(O),
           NEW H, H \subseteq O, \A r \in H : r.i # 0, NEW S, PagesIn(H, S), NEW ps,
           NEW B, B = Reflagged(A, S, ps), NEW U, U = T \ ps
    PROVE  /\ Reflags(A, B, S, ps) /\ Ledger(B, tk, U, O) /\ Quiet(A, B, O \ H)
           /\ \A r \in H : ZeroRun(B, U, r)
<1>1. Reflags(A, B, S, ps)
  BY FlagFields
<1>2. \A r \in O : r.i # 0 => RunAt(A.map[r.c], r) /\ r.c \in Chunks /\ \A k \in RunSpan(r) : k \in Pages
  <2> SUFFICES ASSUME NEW r \in O, r.i # 0
               PROVE  RunAt(A.map[r.c], r) /\ r.c \in Chunks /\ \A k \in RunSpan(r) : k \in Pages
    OBVIOUS
  <2>1. r.c \in Chunks
    BY DEF Book
  <2>2. RunAt(A.map[r.c], r)
    BY <2>1, RunChunk
  <2> QED
    BY <2>1, <2>2, ArenaRunsAssumption DEF RunAt, RunSpan, Span, Pages
<1>3. Ledger(B, tk, T, O)
  <2> SUFFICES ASSUME NEW c \in Chunks
               PROVE  ChunkOK(B, c, TouchedIn(T, c), c \in tk, RunsIn(O, c))
    BY DEF Ledger
  <2> DEFINE m == A.map[c]
             w == B.map[c]
             V == TouchedIn(T, c)
             R == RunsIn(O, c)
             F == Avail(A, c)
  <2>1. ChunkOK(A, c, V, c \in tk, R)
    BY DEF Ledger
  <2>2. Avail(B, c) = F /\ B.cnt[c].dirty = A.cnt[c].dirty /\ B.spare = A.spare
    BY <1>1 DEF Reflags, Avail
  <2>3. \A k \in Pages : \/ w[k] = m[k]
                         \/ /\ \E r \in R : k \in RunSpan(r)
                            /\ w[k].alloc = m[k].alloc /\ w[k].large = m[k].large
                            /\ w[k].size = m[k].size
    <3> SUFFICES ASSUME NEW k \in Pages, w[k] # m[k]
                 PROVE  /\ \E r \in R : k \in RunSpan(r)
                        /\ w[k].alloc = m[k].alloc /\ w[k].large = m[k].large
                        /\ w[k].size = m[k].size
      OBVIOUS
    <3>1. <<c, k>> \in S
      BY <1>1 DEF Reflags
    <3>2. \E r \in H : r.c = c /\ k \in RunSpan(r)
      BY <3>1 DEF PagesIn
    <3> QED
      BY <1>1, <3>1, <3>2 DEF Reflags, RunsIn
  <2>4. CASE c \in tk /\ A.spare # c /\ View(A, c, V, R, {})
    <3> HIDE DEF m, w, V, R, F
    <3>1. Layout(m, V, F, R, {}) /\ A.cnt[c].dirty = Cardinality(DirtyPages(m, F))
      BY <2>4 DEF View, m, F
    <3>2. Layout(w, V, F, R, {}) /\ \A i \in F : w[i] = m[i] /\ FreeSpan(w, i) = FreeSpan(m, i)
      BY <2>3, <3>1, LayoutFlags
    <3>3. DirtyPages(w, F) = DirtyPages(m, F)
      BY <3>2 DEF DirtyPages
    <3>4. View(B, c, V, R, {})
      BY <2>2, <3>1, <3>2, <3>3 DEF View, w
    <3> QED
      BY <2>2, <2>4, <3>4 DEF ChunkOK, V, R
  <2>5. CASE c \in tk /\ A.spare = c /\ R = {} /\ Empty(A, c, V)
    <3>1. \A k \in Pages : w[k] = m[k]
      BY <2>3, <2>5
    <3>2. FreeAt(m, V, 1) /\ m[1].size = NPages
      BY <2>5 DEF Empty
    <3> HIDE DEF m, w, V, R, F
    <3>3. 1 \in Pages /\ NPages \in Pages /\ 1 + NPages - 1 = NPages
      BY ArenaRunsAssumption DEF Pages
    <3>4. FreeAt(w, V, 1) /\ w[1].size = NPages
      BY <3>1, <3>2, <3>3 DEF FreeAt, Clean, Span, Pages
    <3>5. Empty(B, c, V)
      BY <2>2, <2>5, <3>4 DEF Empty, Unused, w, F
    <3> QED
      BY <2>2, <2>5, <3>5 DEF ChunkOK, V, R
  <2>6. CASE c \notin tk \/ (R = {Whole(c)} /\ Unused(A, c) /\ A.spare # c)
    <3> HIDE DEF m, w, V, R, F
    <3> QED
      BY <2>1, <2>2, <2>6 DEF ChunkOK, Unused, F, V, R
  <2> HIDE DEF m, w, V, R, F
  <2> QED
    BY <2>1, <2>4, <2>5, <2>6 DEF ChunkOK
<1>4. Ledger(B, tk, U, O)
  <2>1. \A c \in Chunks, k \in Pages :
          <<c, k>> \in U => <<c, k>> \in T \/ \E r \in RunsIn(O, c) : k \in RunSpan(r)
    OBVIOUS
  <2> QED
    BY <1>3, <2>1, LedgerTouch
<1>5. Quiet(A, B, O \ H)
  <2> SUFFICES ASSUME NEW s \in O \ H, s.i # 0, NEW k \in RunSpan(s)
               PROVE  B.map[s.c][k] = A.map[s.c][k]
    BY DEF Quiet
  <2>1. s.c \in Chunks /\ k \in Pages
    BY <1>2
  <2>2. <<s.c, k>> \notin S
    <3> SUFFICES ASSUME NEW r \in H, r.c = s.c, k \in RunSpan(r)
                 PROVE  FALSE
      BY <2>1 DEF PagesIn
    <3>1. CutUp(A, s.c, tk, T, O)
      BY <2>1, RunChunk
    <3>2. r \in RunsIn(O, s.c) /\ s \in RunsIn(O, s.c) /\ r # s
      BY DEF RunsIn
    <3> QED
      BY <3>1, <3>2 DEF CutUp, View, Layout
  <2> QED
    BY <1>1, <2>1, <2>2 DEF Reflags
<1>6. \A r \in H : ZeroRun(B, U, r)
  <2> SUFFICES ASSUME NEW r \in H, NEW k \in RunSpan(r), <<r.c, k>> \in U
               PROVE  B.map[r.c][k].unz
    BY DEF ZeroRun
  <2>1. r.c \in Chunks /\ k \in Pages
    BY <1>2
  <2>2. <<r.c, k>> \in S /\ <<r.c, k>> \notin ps
    BY <2>1 DEF PagesIn
  <2> QED
    BY <1>1, <2>1, <2>2 DEF Reflags
<1> QED
  BY <1>1, <1>4, <1>5, <1>6

-----------------------------------------------------------------------------
(* The invariant, and what a step of one thread has to show for it.        *)

Hands(jb) == UNION {HandOf(jb[t]) : t \in Threads}
Out(jb, ow) == ow \cup Hands(jb)

\* A run is in one place: with the application and the bins, or with one thread.
Apart(jb, ow) ==
    /\ \A t \in Threads : ow \cap HandOf(jb[t]) = {}
    /\ \A t, u \in Threads : t # u => HandOf(jb[t]) \cap HandOf(jb[u]) = {}

\* A walk through the runs of a chunk is at the first page of one, under the lock.
WalkAt(A, tk, O, j) ==
    /\ j.c \in tk /\ A.spare # j.c /\ Whole(j.c) \notin O
    /\ j.i \in Avail(A, j.c) \/ \E r \in RunsIn(O, j.c) : r.i = j.i

Walks(A, tk, lk, jb, O) ==
    \A t \in Threads : \A k \in DOMAIN jb[t] :
        jb[t][k].do = "stash" => lk = t /\ WalkAt(A, tk, O, jb[t][k])

\* The flags are right where a run is cut for a caller, or on its way back.
Zeros(A, T, jb, ow) ==
    /\ \A r \in ow : r.small => CleanRun(A, T, r)
    /\ \A t \in Threads : JobsZero(A, T, jb[t])

Good(A, tk, lk, jb, ow, T) ==
    /\ IsArena(A) /\ tk \subseteq Chunks /\ Book(ow)
    /\ jb = [t \in Threads |-> jb[t]] /\ \A t \in Threads : Queue(jb[t])
    /\ Apart(jb, ow) /\ Ledger(A, tk, T, Out(jb, ow))
    /\ Zeros(A, T, jb, ow) /\ Walks(A, tk, lk, jb, Out(jb, ow))

LEMMA RunType ==
    ASSUME NEW q, RunsOK(q), NEW k \in DOMAIN q
    PROVE  /\ q[k].c \in Chunks /\ q[k].i \in Pages /\ q[k].n \in Nat
           /\ q[k] = [c |-> q[k].c, i |-> q[k].i, n |-> q[k].n]
<1> DEFINE S == [c : Chunks, i : Pages, n : Nat]
<1>1. q \in Seq(S)
  BY DEF RunsOK
<1> HIDE DEF S
<1>2. q[k] \in S
  BY <1>1
<1> QED
  BY <1>2 DEF S

LEMMA JobBook ==
    ASSUME NEW j, JobOK(j)
    PROVE  Book(JobRuns(j))
<1> SUFFICES ASSUME NEW r \in JobRuns(j)
             PROVE  r = Run(r.c, r.i, r.n, r.small) /\ r.c \in Chunks /\ r.small \in BOOLEAN
  BY DEF Book
<1>1. \E c \in Chunks : \E i, n : r = Run(c, i, n, FALSE)
  <2>1. CASE j.do \in {"stash", "stashed", "unstash"}
    <3>1. RunsOK(j.runs)
      BY <2>1 DEF JobOK
    <3>2. PICK k \in DOMAIN j.runs : r = Plain(j.runs[k])
      BY <2>1 DEF JobRuns
    <3>3. j.runs[k].c \in Chunks
      BY <3>1, RunType
    <3> QED
      BY <3>2, <3>3 DEF Plain
  <2>2. CASE j.do \in {"trim", "init"}
    BY <2>2 DEF JobOK, JobRuns
  <2>3. CASE j.do = "unmap"
    BY <2>3 DEF JobOK, JobRuns, Whole
  <2> QED
    BY <2>1, <2>2, <2>3 DEF JobRuns
<1> QED
  BY <1>1 DEF Run

LEMMA QueueBook ==
    ASSUME NEW q, Queue(q)
    PROVE  Book(HandOf(q))
<1>1. \A k \in DOMAIN q : Book(JobRuns(q[k]))
  BY JobBook DEF Queue
<1> QED
  BY <1>1 DEF HandOf, Book

LEMMA OutBook ==
    ASSUME NEW A, NEW tk, NEW lk, NEW jb, NEW ow, NEW T, Good(A, tk, lk, jb, ow, T)
    PROVE  Book(Out(jb, ow))
<1>1. \A t \in Threads : Book(HandOf(jb[t]))
  BY QueueBook DEF Good
<1>2. Book(ow)
  BY DEF Good
<1> QED
  BY <1>1, <1>2 DEF Out, Hands, Book

\* On the runs of O nothing changes, but for pages that get cleared.
Same(A, B, T, U, O) ==
    \A s \in O : s.i # 0 => \A k \in RunSpan(s) :
        B.map[s.c][k] = A.map[s.c][k] /\ (<<s.c, k>> \in U => <<s.c, k>> \in T)

LEMMA SameRun ==
    ASSUME NEW A, NEW B, NEW T, NEW U, NEW r, Same(A, B, T, U, {r}), r.i # 0
    PROVE  /\ ZeroRun(A, T, r) => ZeroRun(B, U, r)
           /\ CleanRun(A, T, r) /\ r.i \in RunSpan(r) => CleanRun(B, U, r)
  BY DEF Same, ZeroRun, CleanRun

LEMMA SameJob ==
    ASSUME NEW A, NEW B, NEW T, NEW U, NEW j, JobOK(j), JobZero(A, T, j),
           Same(A, B, T, U, JobRuns(j))
    PROVE  JobZero(B, U, j)
<1>1. ASSUME NEW r \in JobRuns(j), j.do \in {"trim", "init"}
      PROVE  CleanRun(B, U, r)
  <2>1. r.i \in Pages /\ r.n \in Nat \ {0}
    BY <1>1 DEF JobOK, JobRuns, Run
  <2>2. r.i # 0 /\ r.i \in RunSpan(r)
    BY <2>1 DEF RunSpan, Span, Pages
  <2>3. Same(A, B, T, U, {r})
    BY DEF Same
  <2> QED
    BY <1>1, <2>2, <2>3, SameRun DEF JobZero
<1>2. ASSUME NEW r \in JobRuns(j), j.do = "unstash"
      PROVE  ZeroRun(B, U, r)
  <2>1. RunsOK(j.runs)
    BY <1>2 DEF JobOK
  <2>2. PICK k \in DOMAIN j.runs : r = Plain(j.runs[k])
    BY <1>2 DEF JobRuns
  <2>3. r.i \in Pages
    BY <2>1, <2>2, RunType DEF Plain, Run
  <2>4. r.i # 0
    BY <2>3 DEF Pages
  <2>5. Same(A, B, T, U, {r})
    BY DEF Same
  <2> QED
    BY <1>2, <2>4, <2>5, SameRun DEF JobZero
<1> QED
  BY <1>1, <1>2 DEF JobZero

LEMMA SameJobs ==
    ASSUME NEW A, NEW B, NEW T, NEW U, NEW q, \A k \in DOMAIN q : JobOK(q[k]),
           JobsZero(A, T, q), Same(A, B, T, U, HandOf(q))
    PROVE  JobsZero(B, U, q)
<1> SUFFICES ASSUME NEW k \in DOMAIN q PROVE JobZero(B, U, q[k])
  BY DEF JobsZero
<1>1. Same(A, B, T, U, JobRuns(q[k]))
  BY DEF Same, HandOf
<1>2. JobOK(q[k]) /\ JobZero(A, T, q[k])
  BY DEF JobsZero
<1> QED
  BY <1>1, <1>2, SameJob

\* A run of small regions is never a whole chunk.
LEMMA SmallRun ==
    ASSUME NEW A, NEW tk, NEW T, NEW O, Ledger(A, tk, T, O), Book(O), NEW r \in O, r.small
    PROVE  r.i # 0 /\ r.i \in RunSpan(r)
<1>1. r.c \in Chunks /\ r \in RunsIn(O, r.c)
  BY DEF Book, RunsIn
<1>2. r # Whole(r.c)
  BY DEF Whole, Run
<1>3. RunAt(A.map[r.c], r)
  BY <1>1, <1>2 DEF Ledger, ChunkOK, View, Layout
<1> QED
  BY <1>3 DEF RunAt, RunSpan, Span, Pages

SetJobs(jb, t, js) == [jb EXCEPT ![t] = js]

\* Thread t goes from the jobs jb[t] to js; the runs Gone of its own or of the
\* application are exchanged for New.
Stepped(A, B, tl, jb, ow, W, T, U, t, js, Gone, New) ==
    /\ IsArena(B) /\ tl \subseteq Chunks /\ Book(W) /\ Queue(js)
    /\ Gone \subseteq ow \cup HandOf(jb[t])
    /\ W \cup HandOf(js) = ((ow \cup HandOf(jb[t])) \ Gone) \cup New
    /\ W \cap HandOf(js) = {} /\ New \cap (Out(jb, ow) \ Gone) = {}
    /\ Ledger(B, tl, U, (Out(jb, ow) \ Gone) \cup New)
    /\ Same(A, B, T, U, Out(jb, ow) \ Gone)
    /\ \A r \in W : r.small => r \in ow \ Gone \/ CleanRun(B, U, r)
    /\ JobsZero(B, U, js)

LEMMA StepGood ==
    ASSUME NEW A, NEW tk, NEW lk, NEW jb, NEW ow, NEW T, Good(A, tk, lk, jb, ow, T),
           NEW B, NEW tl, NEW ln, NEW W, NEW U, NEW t \in Threads, NEW js, NEW Gone, NEW New,
           Stepped(A, B, tl, jb, ow, W, T, U, t, js, Gone, New),
           NEW jn, jn = SetJobs(jb, t, js),
           Walks(B, tl, ln, jn, (Out(jb, ow) \ Gone) \cup New)
    PROVE  Good(B, tl, ln, jn, W, U)
<1> DEFINE O == Out(jb, ow)
           P == (O \ Gone) \cup New
           mine == ow \cup HandOf(jb[t])
<1>1. /\ jn[t] = js /\ jn = [u \in Threads |-> jn[u]]
      /\ \A u \in Threads \ {t} : jn[u] = jb[u]
  BY DEF Good, SetJobs
<1>2. /\ IsArena(B) /\ tl \subseteq Chunks /\ Book(W) /\ Queue(js)
      /\ Gone \subseteq mine /\ W \cup HandOf(js) = (mine \ Gone) \cup New
      /\ W \cap HandOf(js) = {} /\ New \cap (O \ Gone) = {}
      /\ Ledger(B, tl, U, P) /\ Same(A, B, T, U, O \ Gone)
      /\ \A r \in W : r.small => r \in ow \ Gone \/ CleanRun(B, U, r)
      /\ JobsZero(B, U, js) /\ Walks(B, tl, ln, jn, P)
  BY DEF Stepped
<1>3. \A u \in Threads \ {t} : HandOf(jb[u]) \cap mine = {} /\ HandOf(jb[u]) \subseteq O \ Gone
  BY <1>2 DEF Good, Apart, Out, Hands
<1>4. Out(jn, W) = P
  <2>1. Out(jn, W) = W \cup HandOf(js) \cup UNION {HandOf(jb[u]) : u \in Threads \ {t}}
    <3>1. Hands(jn) = HandOf(jn[t]) \cup UNION {HandOf(jn[u]) : u \in Threads \ {t}}
      BY DEF Hands
    <3>2. {HandOf(jn[u]) : u \in Threads \ {t}} = {HandOf(jb[u]) : u \in Threads \ {t}}
      BY <1>1
    <3> QED
      BY <1>1, <3>1, <3>2 DEF Out
  <2>2. O = mine \cup UNION {HandOf(jb[u]) : u \in Threads \ {t}}
    BY DEF Out, Hands
  <2> HIDE DEF O, mine
  <2>3. O \ Gone = (mine \ Gone) \cup UNION {HandOf(jb[u]) : u \in Threads \ {t}}
    BY <1>3, <2>2
  <2> QED
    BY <1>2, <2>1, <2>3
<1>5. \A u \in Threads : Queue(jn[u])
  BY <1>1, <1>2 DEF Good
<1>6. Apart(jn, W)
  <2>1. \A u \in Threads \ {t} : /\ HandOf(jn[u]) = HandOf(jb[u])
                                 /\ HandOf(jb[u]) \cap W = {}
                                 /\ HandOf(jb[u]) \cap HandOf(js) = {}
    <3> HIDE DEF O, mine
    <3> QED
      BY <1>1, <1>2, <1>3
  <2>2. \A u, v \in Threads \ {t} : u # v => HandOf(jb[u]) \cap HandOf(jb[v]) = {}
    BY DEF Good, Apart
  <2> QED
    BY <1>1, <1>2, <2>1, <2>2 DEF Apart
<1>7. Zeros(B, U, jn, W)
  <2>1. ASSUME NEW r \in W, r.small
        PROVE  CleanRun(B, U, r)
    <3>1. CASE r \in ow \ Gone
      <4>1. r \in O \ Gone /\ CleanRun(A, T, r)
        BY <2>1, <3>1 DEF Good, Zeros, Out
      <4>2. Same(A, B, T, U, {r})
        BY <1>2, <4>1 DEF Same
      <4>3. Book(O) /\ Ledger(A, tk, T, O)
        BY OutBook DEF Good
      <4>4. r.i # 0 /\ r.i \in RunSpan(r)
        <5> HIDE DEF O
        <5> QED
          BY <2>1, <4>1, <4>3, SmallRun
      <4> QED
        BY <4>1, <4>2, <4>4, SameRun
    <3> QED
      BY <1>2, <2>1, <3>1
  <2>2. ASSUME NEW u \in Threads
        PROVE  JobsZero(B, U, jn[u])
    <3>1. CASE u = t
      BY <1>1, <1>2, <3>1
    <3>2. CASE u # t
      <4>1. /\ JobsZero(A, T, jb[u]) /\ \A k \in DOMAIN jb[u] : JobOK(jb[u][k])
        BY DEF Good, Zeros, Queue
      <4>2. Same(A, B, T, U, HandOf(jb[u]))
        BY <1>2, <1>3, <3>2 DEF Same
      <4>3. JobsZero(B, U, jb[u])
        BY <4>1, <4>2, SameJobs
      <4> QED
        BY <1>1, <3>2, <4>3
    <3> QED
      BY <3>1, <3>2
  <2> QED
    BY <2>1, <2>2 DEF Zeros
<1> QED
  BY <1>1, <1>2, <1>4, <1>5, <1>6, <1>7 DEF Good

\* A walk that is among the jobs js of t is where it has to be.
OnWalk(B, tl, ln, P, t, js) ==
    \A k \in DOMAIN js : js[k].do = "stash" => ln = t /\ WalkAt(B, tl, P, js[k])

\* A step under the lock: nobody else is on a walk.
LEMMA LockedGood ==
    ASSUME NEW A, NEW tk, NEW lk, NEW jb, NEW ow, NEW T, Good(A, tk, lk, jb, ow, T),
           NEW B, NEW tl, NEW ln, NEW W, NEW U, NEW t \in Threads, NEW js, NEW Gone, NEW New,
           Stepped(A, B, tl, jb, ow, W, T, U, t, js, Gone, New),
           NEW jn, jn = SetJobs(jb, t, js), lk \in {t, None},
           OnWalk(B, tl, ln, (Out(jb, ow) \ Gone) \cup New, t, js)
    PROVE  Good(B, tl, ln, jn, W, U)
<1>1. jn[t] = js /\ \A u \in Threads \ {t} : jn[u] = jb[u]
  BY DEF Good, SetJobs
<1>2. \A u \in Threads \ {t} : \A k \in DOMAIN jb[u] : jb[u][k].do # "stash"
  BY ArenaRunsAssumption DEF Good, Walks
<1>3. Walks(B, tl, ln, jn, (Out(jb, ow) \ Gone) \cup New)
  <2> SUFFICES ASSUME NEW u \in Threads, NEW k \in DOMAIN jn[u], jn[u][k].do = "stash"
               PROVE  ln = u /\ WalkAt(B, tl, (Out(jb, ow) \ Gone) \cup New, jn[u][k])
    BY DEF Walks
  <2>1. CASE u = t
    BY <1>1, <2>1 DEF OnWalk
  <2>2. CASE u # t
    BY <1>1, <1>2, <2>2
  <2> QED
    BY <2>1, <2>2
<1> QED
  BY <1>1, <1>3, StepGood

LEMMA QuietSame ==
    ASSUME NEW A, NEW B, NEW T, NEW O, Quiet(A, B, O)
    PROVE  Same(A, B, T, T, O)
  BY DEF Quiet, Same

LEMMA QuietTwice ==
    ASSUME NEW A, NEW B, NEW C, NEW O, NEW P, \A s \in O : s \in P,
           Quiet(A, B, O), Quiet(B, C, P)
    PROVE  Quiet(A, C, O)
<1> SUFFICES ASSUME NEW s \in O, s.i # 0, NEW k \in RunSpan(s)
             PROVE  C.map[s.c][k] = A.map[s.c][k]
  BY DEF Quiet
<1>1. B.map[s.c][k] = A.map[s.c][k]
  BY DEF Quiet
<1>2. C.map[s.c][k] = B.map[s.c][k]
  BY DEF Quiet
<1> QED
  BY <1>1, <1>2

LEMMA SameTwice ==
    ASSUME NEW A, NEW B, NEW C, NEW T, NEW U, NEW V, NEW O, NEW P, O \subseteq P,
           Same(A, B, T, U, O), Same(B, C, U, V, P)
    PROVE  Same(A, C, T, V, O)
  BY DEF Same

\* The parts of the invariant that every step starts from.
Known(A, tk, jb, ow, T, t) ==
    /\ IsArena(A) /\ tk \subseteq Chunks /\ Book(ow) /\ Queue(jb[t])
    /\ Book(Out(jb, ow)) /\ Ledger(A, tk, T, Out(jb, ow))
    /\ ow \cup HandOf(jb[t]) \subseteq Out(jb, ow) /\ ow \cap HandOf(jb[t]) = {}
    /\ JobsZero(A, T, jb[t]) /\ \A r \in ow : r.small => CleanRun(A, T, r)

LEMMA GoodKnown ==
    ASSUME NEW A, NEW tk, NEW lk, NEW jb, NEW ow, NEW T, Good(A, tk, lk, jb, ow, T),
           NEW t \in Threads
    PROVE  Known(A, tk, jb, ow, T, t)
<1>1. Book(Out(jb, ow))
  BY OutBook
<1> QED
  BY <1>1 DEF Known, Good, Apart, Zeros, Out, Hands

-----------------------------------------------------------------------------
(* Cutting an allocated run in two, and giving one part back.              *)

\* The large run r as k pages and the rest.
HeadOf(r, k) == Run(r.c, r.i, k, FALSE)
TailOf(r, k) == Run(r.c, r.i + k, r.n - k, FALSE)

\* The pages of r keep their flags, and the first page of p says what that of r said.
FlagsKept(A, B, r, p) ==
    /\ B.map[p.c][p.i].dirty = A.map[r.c][r.i].dirty
    /\ \A x \in RunSpan(p) : B.map[p.c][x].unz = A.map[r.c][x].unz
    /\ \A x \in RunSpan(p) : x \in RunSpan(r)
    /\ p.c = r.c

LEMMA FlagsClean ==
    ASSUME NEW A, NEW B, NEW T, NEW r, NEW p, FlagsKept(A, B, r, p)
    PROVE  /\ CleanRun(A, T, r) => CleanRun(B, T, p)
           /\ ZeroRun(A, T, r) => ZeroRun(B, T, p)
  BY DEF FlagsKept, CleanRun, ZeroRun

LEMMA CutRun ==
    ASSUME NEW A, IsArena(A), NEW tk, NEW T, NEW O, Ledger(A, tk, T, O), Book(O),
           NEW r \in O, r.i # 0, ~r.small, NEW k \in Nat \ {0}, k < r.n,
           NEW B, B = CutLarge(A, r.c, r.i, r.n, k)
    PROVE  /\ Swapped(A, B, tk, T, O, {r}, {HeadOf(r, k), TailOf(r, k)})
           /\ FlagsKept(A, B, r, HeadOf(r, k)) /\ FlagsKept(A, B, r, TailOf(r, k))
           /\ HeadOf(r, k) # TailOf(r, k)
<1> DEFINE c == r.c
           i == r.i
           n == r.n
           d == A.map[c][i].dirty
           C == MarkLarge(A, c, i, k, d)
           h == HeadOf(r, k)
           l == TailOf(r, k)
           X == Span(i, n)
<1>1. c \in Chunks /\ r.small \in BOOLEAN
  BY DEF Book
<1>2. RunAt(A.map[c], r)
  BY <1>1, RunChunk
<1>3. /\ i \in Pages /\ n \in Nat \ {0} /\ i + n - 1 <= NPages /\ i \in Nat \ {0}
      /\ i + k \in Pages /\ i + k - 1 <= NPages /\ n - k \in 0 .. NPages /\ n - k \in Nat \ {0}
      /\ i + n - 1 \in Pages /\ i + k + (n - k) - 1 = i + n - 1
  BY <1>2, ArenaRunsAssumption DEF RunAt, Pages
<1>4. d \in BOOLEAN
  BY <1>1, <1>3, ElemType
<1>5. /\ MapOnly(A, C, c, Span(i, k)) /\ RunAt(C.map[c], h) /\ Flags(A, C, c, i, k, d)
  <2>1. PICK cc, ii, dd : cc = c /\ ii = i /\ dd = d
    OBVIOUS
  <2>2. C = MarkLarge(A, cc, ii, k, dd) /\ h = Run(cc, ii, k, FALSE)
    BY <2>1 DEF HeadOf
  <2>3. cc \in Chunks /\ ii \in Pages /\ ii + k - 1 <= NPages /\ dd \in BOOLEAN
    BY <1>1, <1>3, <1>4, <2>1
  <2> HIDE DEF C
  <2>4. MapOnly(A, C, cc, Span(ii, k)) /\ RunAt(C.map[cc], Run(cc, ii, k, FALSE))
        /\ Flags(A, C, cc, ii, k, dd)
    BY <2>2, <2>3, MarkedLarge
  <2> QED
    BY <2>1, <2>4 DEF HeadOf
<1>6. B = arena_mapbits_large_set(C, c, i + k, n - k, d)
  BY DEF CutLarge
<1> HIDE DEF C
<1>7. IsArena(C)
  BY <1>5 DEF MapOnly, Else
<1>8. /\ MapOnly(C, B, c, {i + k})
      /\ B.map[c][i + k] = [alloc |-> TRUE, large |-> TRUE, size |-> n - k,
                            dirty |-> d, unz |-> C.map[c][i + k].unz]
  <2>1. PICK cc, ii, nn, dd : cc = c /\ ii = i + k /\ nn = n - k /\ dd = d
    OBVIOUS
  <2>2. /\ cc \in Chunks /\ ii \in Pages /\ nn \in 0 .. NPages /\ dd \in BOOLEAN
        /\ B = arena_mapbits_large_set(C, cc, ii, nn, dd)
    BY <1>1, <1>3, <1>4, <1>6, <2>1
  <2>3. /\ MapOnly(C, B, cc, {ii})
        /\ B.map[cc][ii] = [alloc |-> TRUE, large |-> TRUE, size |-> nn,
                            dirty |-> dd, unz |-> C.map[cc][ii].unz]
    BY <1>7, <2>2, LargeSet
  <2> QED
    BY <2>1, <2>3
<1>9. MapOnly(A, B, c, X)
  <2>1. MapOnly(A, B, c, Span(i, k) \cup {i + k})
    BY <1>1, <1>5, <1>8, MapOnlyTwice
  <2>2. Span(i, k) \cup {i + k} \subseteq X
    BY <1>3 DEF Span
  <2> HIDE DEF X
  <2> QED
    BY <1>1, <2>1, <2>2, MapOnlyWider
<1>10. /\ \A x \in Pages \ {i + k} : B.map[c][x] = C.map[c][x]
       /\ \A x \in Pages \ Span(i, k) : C.map[c][x] = A.map[c][x]
  BY <1>5, <1>8 DEF MapOnly, Kept
<1>11. h.c = c /\ h.i = i /\ h.n = k /\ ~h.small /\ l.c = c /\ l.i = i + k /\ l.n = n - k /\ ~l.small
  BY DEF HeadOf, TailOf, Run
<1>12. RunSpan(h) = Span(i, k) /\ RunSpan(l) = Span(i + k, n - k) /\ RunSpan(r) = X
  BY <1>11 DEF RunSpan
<1>13. h # l
  BY <1>3, <1>11
<1> HIDE DEF h, l
<1>14. /\ \A x \in Span(i, k) : x \in Pages /\ x # i + k /\ x \in X
       /\ \A x \in Span(i + k, n - k) : x \in Pages /\ x \notin Span(i, k) /\ x \in X
       /\ \A x \in X : x \in Pages /\ (x \in Span(i, k) \/ x \in Span(i + k, n - k))
       /\ i \in Span(i, k) /\ i + k - 1 \in Span(i, k)
       /\ i + k \in Span(i + k, n - k) /\ i + n - 1 \in Span(i + k, n - k)
  BY <1>3, ArenaRunsAssumption DEF Span, Pages
<1>15. RunAt(B.map[c], h)
  <2>1. B.map[c][i] = C.map[c][i] /\ B.map[c][i + k - 1] = C.map[c][i + k - 1]
    BY <1>10, <1>14
  <2> QED
    BY <1>5, <1>11, <2>1 DEF RunAt
<1>16. RunAt(B.map[c], l)
  <2>1. B.map[c][i + n - 1].alloc
    <3>1. CASE i + n - 1 = i + k
      BY <1>8, <3>1
    <3>2. CASE i + n - 1 # i + k
      BY <1>2, <1>10, <1>14, <3>2 DEF RunAt
    <3> QED
      BY <3>1, <3>2
  <2>2. /\ B.map[c][l.i].alloc /\ B.map[c][l.i].large /\ B.map[c][l.i].size = l.n
        /\ B.map[c][l.i + l.n - 1].alloc
    BY <1>3, <1>8, <1>11, <2>1
  <2> QED
    BY <1>3, <1>11, <2>2 DEF RunAt
<1>17. Covers({r}, X) /\ Covers({h, l}, X) /\ Disjoint({h, l})
  BY <1>12, <1>14 DEF Covers, Disjoint
<1>18. Swapped(A, B, tk, T, O, {r}, {h, l})
  <2>1. PICK Old, New : Old = {r} /\ New = {h, l}
    OBVIOUS
  <2>2. /\ Old # {} /\ \A s \in Old : s \in O /\ s.c = c /\ s.i # 0
        /\ \A s \in New : RunAt(B.map[c], s) /\ s.c = c
        /\ Covers(Old, X) /\ Covers(New, X) /\ Disjoint(New)
    BY <1>11, <1>15, <1>16, <1>17, <2>1
  <2> HIDE DEF X, c
  <2>3. Swapped(A, B, tk, T, O, Old, New)
    BY <1>1, <1>9, <2>2, LedgerSwap
  <2> QED
    BY <2>1, <2>3
<1>19. \A x \in X : B.map[c][x].unz = A.map[c][x].unz
  <2> SUFFICES ASSUME NEW x \in X PROVE B.map[c][x].unz = A.map[c][x].unz
    OBVIOUS
  <2>1. CASE x \in Span(i, k)
    BY <1>5, <1>10, <1>14, <2>1 DEF Flags
  <2>2. CASE x = i + k
    BY <1>8, <1>10, <1>14, <2>2
  <2>3. CASE x \notin Span(i, k) /\ x # i + k
    BY <1>10, <1>14, <2>3
  <2> QED
    BY <2>1, <2>2, <2>3
<1>20. FlagsKept(A, B, r, h)
  BY <1>5, <1>10, <1>11, <1>12, <1>14, <1>19, SMTT(40) DEF FlagsKept, Flags
<1>21. FlagsKept(A, B, r, l)
  BY <1>8, <1>11, <1>12, <1>14, <1>19 DEF FlagsKept
<1> QED
  BY <1>13, <1>18, <1>20, <1>21 DEF h, l

\* A part of r is back, the other one, rest, is what is left of it.
Trimmed(A, g, tk, T, O, r, rest) ==
    /\ IsArena(g.a) /\ Quiet(A, g.a, O \ {r})
    /\ Ledger(g.a, tk, T, (O \ {r}) \cup {rest}) /\ rest \notin O \ {r}
    /\ Follow(g.then) /\ HandOf(g.then) = {} /\ \A B, U : JobsZero(B, U, g.then)
    /\ CleanRun(A, T, r) => CleanRun(g.a, T, rest)

LEMMA TrimRun ==
    ASSUME NEW A, IsArena(A), NEW tk, NEW T, NEW O, Ledger(A, tk, T, O), Book(O),
           NEW r \in O, r.i # 0, ~r.small, NEW k \in Nat \ {0}, k < r.n,
           NEW p, NEW rest, \/ p = HeadOf(r, k) /\ rest = TailOf(r, k)
                            \/ p = TailOf(r, k) /\ rest = HeadOf(r, k),
           NEW dirty \in BOOLEAN, dirty \/ CleanRun(A, T, r),
           NEW g, g = arena_run_dalloc(CutLarge(A, r.c, r.i, r.n, k), p.c, p.i, dirty, FALSE)
    PROVE  Trimmed(A, g, tk, T, O, r, rest)
<1> DEFINE B == CutLarge(A, r.c, r.i, r.n, k)
           P == (O \ {r}) \cup {p, rest}
<1>1. /\ Swapped(A, B, tk, T, O, {r}, {HeadOf(r, k), TailOf(r, k)})
      /\ FlagsKept(A, B, r, HeadOf(r, k)) /\ FlagsKept(A, B, r, TailOf(r, k))
      /\ HeadOf(r, k) # TailOf(r, k)
  BY CutRun
<1>2. {HeadOf(r, k), TailOf(r, k)} = {p, rest}
  OBVIOUS
<1>3. /\ Swapped(A, B, tk, T, O, {r}, {p, rest}) /\ p # rest
      /\ FlagsKept(A, B, r, p) /\ FlagsKept(A, B, r, rest)
  BY <1>1, <1>2
<1>4. r.c \in Chunks /\ RunAt(A.map[r.c], r)
  <2>1. r.c \in Chunks
    BY DEF Book
  <2> QED
    BY <2>1, RunChunk
<1>5. /\ p.c = r.c /\ rest.c = r.c /\ p.i # 0 /\ rest.i # 0 /\ rest.n \in Nat \ {0} /\ rest.i \in Nat
      /\ p = Run(p.c, p.i, p.n, p.small) /\ p.small \in BOOLEAN
      /\ rest = Run(rest.c, rest.i, rest.n, rest.small) /\ rest.small \in BOOLEAN
  <2>1. r.i \in Pages /\ r.n \in Nat \ {0}
    BY <1>4 DEF RunAt
  <2>2. r.i \in Nat \ {0} /\ r.i + k # 0 /\ r.n - k \in Nat \ {0} /\ r.i + k \in Nat
    BY <2>1 DEF Pages
  <2>3. /\ HeadOf(r, k).c = r.c /\ HeadOf(r, k).i = r.i /\ HeadOf(r, k).n = k
        /\ HeadOf(r, k).small = FALSE
        /\ TailOf(r, k).c = r.c /\ TailOf(r, k).i = r.i + k /\ TailOf(r, k).n = r.n - k
        /\ TailOf(r, k).small = FALSE
    BY DEF HeadOf, TailOf, Run
  <2>4. /\ HeadOf(r, k) = Run(HeadOf(r, k).c, HeadOf(r, k).i, HeadOf(r, k).n, HeadOf(r, k).small)
        /\ TailOf(r, k) = Run(TailOf(r, k).c, TailOf(r, k).i, TailOf(r, k).n, TailOf(r, k).small)
    BY <2>3 DEF HeadOf, TailOf
  <2>5. CASE p = HeadOf(r, k) /\ rest = TailOf(r, k)
    BY <2>2, <2>3, <2>4, <2>5
  <2>6. CASE p = TailOf(r, k) /\ rest = HeadOf(r, k)
    BY <2>2, <2>3, <2>4, <2>6
  <2> QED
    BY <2>5, <2>6
<1>6. rest.i \in RunSpan(rest)
  BY <1>5 DEF RunSpan, Span
<1> HIDE DEF B
<1>7. /\ IsArena(B) /\ Ledger(B, tk, T, P) /\ {p, rest} \cap (O \ {r}) = {}
      /\ Quiet(A, B, O \ {r})
  BY <1>3 DEF Swapped
<1>8. Book(P)
  BY <1>4, <1>5 DEF Book
<1>9. BackDirty(B, p.c, p, dirty, FALSE) \/ ZeroRun(B, T, p)
  <2>1. CASE dirty
    BY <2>1 DEF BackDirty
  <2>2. CASE ~dirty
    <3>1. CleanRun(A, T, r)
      BY <2>2
    <3>2. CleanRun(B, T, p)
      BY <1>3, <3>1, FlagsClean
    <3> QED
      BY <3>2 DEF CleanRun, BackDirty
  <2> QED
    BY <2>1, <2>2
<1> HIDE DEF P
<1>10. PICK H : GivenBack(B, g, tk, T, P, p, H)
  <2>1. PICK cl : cl = FALSE
    OBVIOUS
  <2>2. /\ cl \in BOOLEAN
        /\ BackDirty(B, p.c, p, dirty, cl) \/ ZeroRun(B, T, p)
        /\ g = arena_run_dalloc(B, p.c, p.i, dirty, cl)
    BY <1>9, <2>1 DEF B
  <2>3. p \in P
    BY DEF P
  <2> QED
    BY <1>5, <1>7, <1>8, <2>2, <2>3, LedgerDalloc
<1>11. H = {}
  <2>1. rest \in RunsIn(P \ {p}, p.c)
    BY <1>3, <1>5 DEF RunsIn, P
  <2> QED
    BY <1>10, <2>1 DEF GivenBack
<1>12. (P \ {p}) \cup H = (O \ {r}) \cup {rest} /\ P \ {p} = (O \ {r}) \cup {rest}
  BY <1>3, <1>7, <1>11 DEF P
<1>13. /\ IsArena(g.a) /\ Quiet(B, g.a, P \ {p}) /\ Ledger(g.a, tk, T, (O \ {r}) \cup {rest})
       /\ Follow(g.then) /\ HandOf(g.then) = {} /\ \A C, U : JobsZero(C, U, g.then)
  BY <1>10, <1>11, <1>12 DEF GivenBack
<1>14. Quiet(A, g.a, O \ {r}) /\ Quiet(B, g.a, {rest})
  <2>1. \A s \in O \ {r} : s \in P \ {p}
    BY <1>12
  <2>2. rest \in P \ {p}
    BY <1>12
  <2>3. Quiet(A, g.a, O \ {r})
    BY <1>7, <1>13, <2>1, QuietTwice
  <2>4. Quiet(B, g.a, {rest})
    BY <1>13, <2>2 DEF Quiet
  <2> QED
    BY <2>3, <2>4
<1>15. CleanRun(A, T, r) => CleanRun(g.a, T, rest)
  <2>1. Same(B, g.a, T, T, {rest})
    BY <1>14, QuietSame
  <2>2. CleanRun(A, T, r) => CleanRun(B, T, rest)
    BY <1>3, FlagsClean
  <2>3. CleanRun(B, T, rest) => CleanRun(g.a, T, rest)
    BY <1>5, <1>6, <2>1, SameRun
  <2> QED
    BY <2>2, <2>3
<1> QED
  BY <1>7, <1>13, <1>14, <1>15 DEF Trimmed

\* The first page, then the last one: what makes a large run of more than one page.
LEMMA MarkedEnds ==
    ASSUME NEW A, IsArena(A), NEW c \in Chunks, NEW i \in Pages, NEW n \in Nat, n > 1,
           i + n - 1 <= NPages, NEW d \in BOOLEAN,
           NEW B, B = arena_mapbits_large_set(arena_mapbits_large_set(A, c, i, n, d),
                                              c, i + n - 1, 0, d)
    PROVE  /\ MapOnly(A, B, c, Span(i, n))
           /\ RunAt(B.map[c], Run(c, i, n, FALSE)) /\ Flags(A, B, c, i, n, d)
<1> DEFINE C == arena_mapbits_large_set(A, c, i, n, d)
           l == i + n - 1
<1>1. l \in Pages /\ l # i /\ n \in 0 .. NPages /\ 0 \in 0 .. NPages /\ i \in Nat \ {0}
  BY ArenaRunsAssumption DEF Pages
<1>2. /\ MapOnly(A, C, c, {i})
      /\ C.map[c][i] = [alloc |-> TRUE, large |-> TRUE, size |-> n,
                        dirty |-> d, unz |-> A.map[c][i].unz]
  BY <1>1, LargeSet
<1> HIDE DEF C
<1>3. IsArena(C)
  BY <1>2 DEF MapOnly, Else
<1>4. /\ MapOnly(C, B, c, {l})
      /\ B.map[c][l] = [alloc |-> TRUE, large |-> TRUE, size |-> 0,
                        dirty |-> d, unz |-> C.map[c][l].unz]
  <2>1. PICK z : z = 0
    OBVIOUS
  <2>2. B = arena_mapbits_large_set(C, c, l, z, d) /\ z \in 0 .. NPages
    BY <1>1, <2>1 DEF C
  <2> HIDE DEF l
  <2>3. /\ MapOnly(C, B, c, {l})
        /\ B.map[c][l] = [alloc |-> TRUE, large |-> TRUE, size |-> z,
                          dirty |-> d, unz |-> C.map[c][l].unz]
    BY <1>1, <1>3, <2>2, LargeSet
  <2> QED
    BY <2>1, <2>3
<1>5. MapOnly(A, B, c, Span(i, n))
  <2>1. MapOnly(A, B, c, {i} \cup {l})
    BY <1>2, <1>4, MapOnlyTwice
  <2>2. {i} \cup {l} \subseteq Span(i, n)
    BY <1>1 DEF Span
  <2> QED
    BY <2>1, <2>2, MapOnlyWider
<1>6. /\ \A k \in Pages \ {l} : B.map[c][k] = C.map[c][k]
      /\ \A k \in Pages \ {i} : C.map[c][k] = A.map[c][k]
  BY <1>2, <1>4 DEF MapOnly, Kept
<1>7. B.map[c][i] = [alloc |-> TRUE, large |-> TRUE, size |-> n, dirty |-> d, unz |-> A.map[c][i].unz]
  BY <1>1, <1>2, <1>6
<1>8. RunAt(B.map[c], Run(c, i, n, FALSE))
  <2> DEFINE r == Run(c, i, n, FALSE)
  <2>1. r.i = i /\ r.n = n /\ r.small = FALSE
    BY DEF Run
  <2> HIDE DEF r
  <2>2. /\ B.map[c][i].alloc /\ B.map[c][l].alloc /\ B.map[c][i].large = TRUE
        /\ B.map[c][i].size = n
    BY <1>4, <1>7
  <2>3. RunAt(B.map[c], r)
    <3>1. l = r.i + r.n - 1 /\ r.n \in Nat \ {0} /\ r.i \in Pages /\ r.i + r.n - 1 <= NPages
      BY <1>1, <2>1
    <3> HIDE DEF l
    <3>2. B.map[c][r.i].alloc /\ B.map[c][r.i + r.n - 1].alloc /\ B.map[c][r.i].size = r.n
      BY <2>1, <2>2, <3>1
    <3>3. B.map[c][r.i].large = ~r.small
      BY <2>1, <2>2
    <3> QED
      BY <2>1, <3>1, <3>2, <3>3 DEF RunAt
  <2> QED
    BY <2>3 DEF r
<1>9. \A k \in Span(i, n) : B.map[c][k].unz = A.map[c][k].unz
  <2> SUFFICES ASSUME NEW k \in Span(i, n) PROVE B.map[c][k].unz = A.map[c][k].unz
    OBVIOUS
  <2>1. k \in Pages
    BY ArenaRunsAssumption DEF Span, Pages
  <2>2. CASE k = i
    BY <1>7, <2>2
  <2>3. CASE k = l
    BY <1>1, <1>4, <1>6, <2>3
  <2>4. CASE k # i /\ k # l
    BY <1>6, <2>1, <2>4
  <2> QED
    BY <2>2, <2>3, <2>4
<1>10. B.map[c][i].dirty = d
  BY <1>7
<1> QED
  BY <1>5, <1>8, <1>9, <1>10 DEF Flags

-----------------------------------------------------------------------------
(* The actions.                                                            *)

Inv == Good(arena, taken, lock, jobs, owned, touched) /\ zeroed

LEMMA LockedNext ==
    ASSUME Inv, NEW t \in Threads, Locked(t), NEW js, jobs' = SetJobs(jobs, t, js),
           NEW Gone, NEW New,
           Stepped(arena, arena', taken', jobs, owned, owned', touched, touched', t, js, Gone, New),
           OnWalk(arena', taken', lock', (Out(jobs, owned) \ Gone) \cup New, t, js), zeroed'
    PROVE  Inv'
<1>1. Good(arena, taken, lock, jobs, owned, touched) /\ lock \in {t, None}
  BY DEF Inv, Locked
<1>2. Good(arena', taken', lock', jobs', owned', touched')
  BY <1>1, LockedGood
<1> QED
  BY <1>2 DEF Inv

\* Jobs that are right as they are, without a walk, and hold the runs H.
NoStash(q) == \A k \in DOMAIN q : q[k].do # "stash"
Queued(q, H, B, U) == Follow(q) /\ Queue(q) /\ NoStash(q) /\ HandOf(q) = H /\ JobsZero(B, U, q)

LEMMA NoWalk ==
    ASSUME NEW q, NoStash(q), NEW B, NEW tl, NEW ln, NEW P, NEW t
    PROVE  OnWalk(B, tl, ln, P, t, q)
  BY DEF NoStash, OnWalk

LEMMA FollowNoStash ==
    ASSUME NEW q, Follow(q)
    PROVE  Queue(q) /\ NoStash(q)
  BY DEF Follow, Queue, NoStash

LEMMA IdleKnown ==
    ASSUME Inv, NEW t \in Threads, Idle(t)
    PROVE  /\ Known(arena, taken, jobs, owned, touched, t) /\ zeroed
           /\ HandOf(jobs[t]) = {} /\ Locked(t)
  BY GoodKnown, EmptyFollow DEF Inv, Idle, Locked

\* What the jobs of g and those after them come to.
LEMMA ThenJobs ==
    ASSUME NEW p, NEW q, Follow(p), Follow(q), HandOf(p) \cap HandOf(q) = {},
           NEW B, NEW U, JobsZero(B, U, p), JobsZero(B, U, q), NEW js, js = p \o q,
           NEW H, H = HandOf(p) \cup HandOf(q)
    PROVE  Queued(js, H, B, U)
<1>1. Follow(js)
  BY ConcatFollow
<1>2. HandOf(js) = HandOf(p) \cup HandOf(q) /\ JobsZero(B, U, js)
  BY ConcatJobs DEF Follow
<1> QED
  BY <1>1, <1>2, FollowNoStash DEF Queued

LEMMA DallocLargeInv ==
    ASSUME Inv, NEW t \in Threads, NEW r \in Large, arena_dalloc_large(t, r)
    PROVE  Inv'
<1> DEFINE A == arena
           O == Out(jobs, owned)
           g == arena_run_dalloc(arena, r.c, r.i, TRUE, FALSE)
           js == g.then \o <<>>
<1>1. /\ Idle(t) /\ arena' = g.a /\ jobs' = SetJobs(jobs, t, js)
      /\ owned' = owned \ {r} /\ taken' = taken /\ touched' = touched /\ zeroed' = zeroed
  BY DEF arena_dalloc_large, GoOn, Continue, SetJobs
<1>2. /\ Known(A, taken, jobs, owned, touched, t) /\ zeroed
      /\ HandOf(jobs[t]) = {} /\ Locked(t)
  BY <1>1, IdleKnown
<1>3. /\ IsArena(A) /\ Ledger(A, taken, touched, O) /\ Book(O) /\ owned \subseteq O
      /\ taken \subseteq Chunks /\ Book(owned)
  BY <1>2 DEF Known
<1>4. r \in owned /\ r \in O /\ r.i # 0
  BY <1>3 DEF Large
<1>5. PICK H : GivenBack(A, g, taken, touched, O, r, H)
  <2>1. PICK d, cl, gg : d = TRUE /\ cl = FALSE /\ gg = g
    OBVIOUS
  <2>2. /\ d \in BOOLEAN /\ cl \in BOOLEAN /\ gg = arena_run_dalloc(A, r.c, r.i, d, cl)
        /\ BackDirty(A, r.c, r, d, cl)
    BY <2>1 DEF BackDirty
  <2> HIDE DEF O, g
  <2>3. \E H : GivenBack(A, gg, taken, touched, O, r, H)
    BY <1>3, <1>4, <2>2, LedgerDalloc
  <2> QED
    BY <2>1, <2>3
<1> HIDE DEF g
<1>6. /\ IsArena(g.a) /\ Quiet(A, g.a, O \ {r})
      /\ Ledger(g.a, taken, touched, (O \ {r}) \cup H) /\ H \cap O = {} /\ r \notin H
      /\ Follow(g.then) /\ HandOf(g.then) = H /\ JobsZero(g.a, touched, g.then)
  BY <1>5 DEF GivenBack
<1>7. Queued(js, H, g.a, touched)
  <2>1. PICK p, q, s : p = g.then /\ q = <<>> /\ s = js
    OBVIOUS
  <2>2. /\ Follow(p) /\ Follow(q) /\ HandOf(p) \cap HandOf(q) = {} /\ HandOf(p) \cup HandOf(q) = H
        /\ JobsZero(g.a, touched, p) /\ JobsZero(g.a, touched, q) /\ s = p \o q
    BY <1>6, <2>1, EmptyFollow
  <2>3. Queued(s, H, g.a, touched)
    BY <2>2, ThenJobs
  <2> QED
    BY <2>1, <2>3
<1> HIDE DEF js
<1>8. Same(A, g.a, touched, touched, O \ {r})
  BY <1>6, QuietSame
<1>9. Stepped(A, arena', taken', jobs, owned, owned', touched, touched', t, js, {r}, H)
  <2>1. Book(owned') /\ \A s \in owned' : s \in owned \ {r}
    BY <1>1, <1>3 DEF Book
  <2>2. /\ {r} \subseteq owned \cup HandOf(jobs[t])
        /\ owned' \cup HandOf(js) = ((owned \cup HandOf(jobs[t])) \ {r}) \cup H
        /\ owned' \cap HandOf(js) = {} /\ H \cap (O \ {r}) = {}
    BY <1>1, <1>2, <1>3, <1>4, <1>6, <1>7 DEF Queued
  <2> QED
    BY <1>1, <1>3, <1>6, <1>7, <1>8, <2>1, <2>2 DEF Stepped, Queued
<1>10. OnWalk(arena', taken', lock', (Out(jobs, owned) \ {r}) \cup H, t, js)
  BY <1>7, NoWalk DEF Queued
<1> QED
  BY <1>1, <1>2, <1>9, <1>10, LockedNext

-----------------------------------------------------------------------------
(* The runs taken for purging.                                             *)

RunSet(q) == {Plain(q[k]) : k \in DOMAIN q}

LEMMA StashRuns ==
    ASSUME NEW j, j.do \in {"stash", "stashed", "unstash"}
    PROVE  JobRuns(j) = RunSet(j.runs)
  BY DEF JobRuns, RunSet

LEMMA StashJob ==
    ASSUME NEW j, JobOK(j), j.do = "stash"
    PROVE  /\ j.c \in Chunks /\ j.i \in Pages /\ RunsOK(j.runs)
           /\ j = [do |-> "stash", c |-> j.c, i |-> j.i, runs |-> j.runs, all |-> j.all,
                   left |-> j.left, dirty |-> j.dirty, again |-> j.again]
  BY DEF JobOK

LEMMA PlainInjective ==
    ASSUME NEW p, NEW q, p = [c |-> p.c, i |-> p.i, n |-> p.n], q = [c |-> q.c, i |-> q.i, n |-> q.n],
           Plain(p) = Plain(q)
    PROVE  p = q
<1>1. Plain(p).c = p.c /\ Plain(p).i = p.i /\ Plain(p).n = p.n
  BY DEF Plain, Run
<1>2. Plain(q).c = q.c /\ Plain(q).i = q.i /\ Plain(q).n = q.n
  BY DEF Plain, Run
<1>3. p.c = q.c /\ p.i = q.i /\ p.n = q.n
  BY <1>1, <1>2
<1> QED
  BY <1>3

LEMMA RunsTail ==
    ASSUME NEW q, RunsOK(q), q # <<>>, NEW r, r = Head(q), NEW s, s = Tail(q)
    PROVE  /\ RunsOK(s) /\ RunSet(q) = {Plain(r)} \cup RunSet(s) /\ Plain(r) \notin RunSet(s)
           /\ r = [c |-> r.c, i |-> r.i, n |-> r.n] /\ r.c \in Chunks /\ r.i \in Pages /\ r.n \in Nat
<1> DEFINE S == [c : Chunks, i : Pages, n : Nat]
<1>1. q \in Seq(S)
  BY DEF RunsOK
<1>2. \A k \in DOMAIN q : q[k] \in S /\ q[k] = [c |-> q[k].c, i |-> q[k].i, n |-> q[k].n]
  BY RunType
<1> HIDE DEF S
<1>3. /\ s \in Seq(S) /\ Len(q) \in Nat \ {0} /\ DOMAIN q = 1 .. Len(q) /\ r = q[1]
      /\ Len(s) = Len(q) - 1 /\ DOMAIN s = 1 .. Len(s)
      /\ \A i \in 1 .. Len(s) : s[i] = q[i + 1]
  BY <1>1, HeadTailProperties
<1>4. 1 \in DOMAIN q /\ \A i \in DOMAIN s : i + 1 \in DOMAIN q /\ i + 1 # 1 /\ s[i] = q[i + 1]
  BY <1>3
<1>5. \A i \in DOMAIN q : i = 1 \/ (i - 1 \in DOMAIN s /\ s[i - 1] = q[i])
  BY <1>3
<1>6. ASSUME NEW k \in DOMAIN s, NEW l \in DOMAIN s, s[k] = s[l]
      PROVE  k = l
  <2>1. k + 1 = l + 1
    BY <1>4, <1>6 DEF RunsOK
  <2> QED
    BY <1>3, <2>1
<1>7. RunsOK(s)
  BY <1>3, <1>6 DEF RunsOK, S
<1>8. RunSet(q) = {Plain(r)} \cup RunSet(s)
  <2>1. RunSet(q) \subseteq {Plain(r)} \cup RunSet(s)
    BY <1>3, <1>5 DEF RunSet
  <2>2. Plain(r) \in RunSet(q)
    BY <1>3, <1>4 DEF RunSet
  <2>3. RunSet(s) \subseteq RunSet(q)
    BY <1>4 DEF RunSet
  <2> QED
    BY <2>1, <2>2, <2>3
<1>9. Plain(r) \notin RunSet(s)
  <2> SUFFICES ASSUME NEW k \in DOMAIN s, Plain(r) = Plain(s[k])
               PROVE  FALSE
    BY DEF RunSet
  <2>1. Plain(q[1]) = Plain(q[k + 1]) /\ k + 1 \in DOMAIN q /\ k + 1 # 1
    BY <1>3, <1>4
  <2>2. q[1] = q[k + 1]
    BY <1>2, <1>4, <2>1, PlainInjective
  <2> QED
    BY <1>4, <2>1, <2>2 DEF RunsOK
<1>10. r.c \in Chunks /\ r.i \in Pages /\ r.n \in Nat
  BY <1>3, <1>4, RunType
<1> QED
  BY <1>2, <1>3, <1>4, <1>7, <1>8, <1>9, <1>10

LEMMA RunsAppend ==
    ASSUME NEW q, RunsOK(q), NEW r, r = [c |-> r.c, i |-> r.i, n |-> r.n],
           r.c \in Chunks, r.i \in Pages, r.n \in Nat, Plain(r) \notin RunSet(q),
           NEW s, s = Append(q, r)
    PROVE  RunsOK(s) /\ RunSet(s) = RunSet(q) \cup {Plain(r)}
<1> DEFINE S == [c : Chunks, i : Pages, n : Nat]
<1>1. q \in Seq(S)
  BY DEF RunsOK
<1>2. r \in S
  OBVIOUS
<1> HIDE DEF S
<1>3. /\ s \in Seq(S) /\ Len(s) = Len(q) + 1 /\ s[Len(q) + 1] = r
      /\ \A i \in 1 .. Len(q) : s[i] = q[i]
      /\ Len(q) \in Nat /\ DOMAIN q = 1 .. Len(q) /\ DOMAIN s = 1 .. Len(s)
  BY <1>1, <1>2, AppendProperties
<1>4. /\ Len(q) + 1 \in DOMAIN s /\ Len(q) + 1 \notin DOMAIN q
      /\ \A i \in DOMAIN q : i \in DOMAIN s /\ s[i] = q[i]
      /\ \A i \in DOMAIN s : i = Len(q) + 1 \/ i \in DOMAIN q
  BY <1>3
<1>5. RunSet(s) = RunSet(q) \cup {Plain(r)}
  BY <1>3, <1>4 DEF RunSet
<1>6. \A k \in DOMAIN q : q[k] # r
  BY DEF RunSet
<1>7. ASSUME NEW k \in DOMAIN s, NEW l \in DOMAIN s, s[k] = s[l]
      PROVE  k = l
  <2>1. CASE k \in DOMAIN q /\ l \in DOMAIN q
    BY <1>4, <1>7, <2>1 DEF RunsOK
  <2>2. CASE k = Len(q) + 1 /\ l = Len(q) + 1
    BY <2>2
  <2>3. CASE k = Len(q) + 1 /\ l \in DOMAIN q
    BY <1>3, <1>4, <1>6, <1>7, <2>3
  <2>4. CASE l = Len(q) + 1 /\ k \in DOMAIN q
    BY <1>3, <1>4, <1>6, <1>7, <2>4
  <2> QED
    BY <1>4, <2>1, <2>2, <2>3, <2>4
<1> QED
  BY <1>3, <1>5, <1>7 DEF RunsOK, S

LEMMA EmptyRuns == RunsOK(<<>>) /\ RunSet(<<>>) = {}
  BY DEF RunsOK, RunSet

LEMMA UnstashJobs ==
    ASSUME NEW q, RunsOK(q), NEW B, NEW U, \A r \in RunSet(q) : ZeroRun(B, U, r)
    PROVE  Follow(Unstash(q)) /\ HandOf(Unstash(q)) = RunSet(q) /\ JobsZero(B, U, Unstash(q))
<1>1. CASE q = <<>>
  BY <1>1, EmptyFollow, EmptyRuns DEF Unstash
<1>2. CASE q # <<>>
  <2> DEFINE j == [do |-> "unstash", runs |-> q]
  <2>1. j.do = "unstash" /\ j.runs = q
    OBVIOUS
  <2>2. Unstash(q) = <<j>>
    BY <1>2 DEF Unstash
  <2> HIDE DEF j
  <2>3. JobOK(j) /\ JobRuns(j) = RunSet(q)
    BY <1>2, <2>1, StashRuns DEF JobOK
  <2>4. JobZero(B, U, j)
    BY <2>1, <2>3 DEF JobZero
  <2>5. Follow(<<j>>)
    BY <2>1, <2>3, OneFollow
  <2>6. HandOf(<<j>>) = JobRuns(j) /\ JobsZero(B, U, <<j>>)
    BY <2>4, OneJob
  <2> QED
    BY <2>2, <2>3, <2>5, <2>6
<1> QED
  BY <1>1, <1>2

-----------------------------------------------------------------------------
(* Steps of a thread that has jobs.                                        *)

\* The job j comes first, the jobs s after it.
At(t, j, s) ==
    /\ JobOK(j) /\ Follow(s) /\ JobRuns(j) \cap HandOf(s) = {}
    /\ HandOf(jobs[t]) = JobRuns(j) \cup HandOf(s)
    /\ JobZero(arena, touched, j) /\ JobsZero(arena, touched, s)
    /\ JobRuns(j) \cup HandOf(s) \subseteq Out(jobs, owned)
    /\ owned \cap (JobRuns(j) \cup HandOf(s)) = {}
    /\ j = jobs[t][1] /\ 1 \in DOMAIN jobs[t]

LEMMA JobKnown ==
    ASSUME Inv, NEW t \in Threads, jobs[t] # <<>>, NEW j, j = This(t), NEW s, s = Tail(jobs[t])
    PROVE  Known(arena, taken, jobs, owned, touched, t) /\ zeroed /\ At(t, j, s)
<1>1. Known(arena, taken, jobs, owned, touched, t) /\ zeroed
  BY GoodKnown DEF Inv
<1>2. Queue(jobs[t]) /\ JobsZero(arena, touched, jobs[t])
  BY <1>1 DEF Known
<1>3. PICK q : q = jobs[t]
  OBVIOUS
<1>4. /\ JobOK(j) /\ Follow(s) /\ JobRuns(j) \cap HandOf(s) = {}
      /\ HandOf(q) = JobRuns(j) \cup HandOf(s)
      /\ JobsZero(arena, touched, q) => JobZero(arena, touched, j) /\ JobsZero(arena, touched, s)
      /\ j = q[1] /\ 1 \in DOMAIN q
  BY <1>2, <1>3, FirstJob DEF This
<1> QED
  BY <1>1, <1>2, <1>3, <1>4 DEF At, Known

LEMMA TailZero ==
    ASSUME NEW A, NEW B, NEW T, NEW U, NEW s, Follow(s), JobsZero(A, T, s),
           NEW O, Same(A, B, T, U, O), HandOf(s) \subseteq O
    PROVE  JobsZero(B, U, s)
<1>1. Same(A, B, T, U, HandOf(s))
  BY DEF Same
<1>2. \A k \in DOMAIN s : JobOK(s[k])
  BY DEF Follow
<1> QED
  BY <1>1, <1>2, SameJobs

LEMMA UnstashInv ==
    ASSUME Inv, NEW t \in Threads, arena_chunk_unstash_purged(t)
    PROVE  Inv'
<1> DEFINE A == arena
           T == touched
           O == Out(jobs, owned)
           j == This(t)
           s == Tail(jobs[t])
           q == j.runs
           x == Head(q)
           r == Plain(x)
           g == arena_run_dalloc(arena, x.c, x.i, FALSE, TRUE)
           u == Unstash(Tail(q))
           js == g.then \o (u \o s)
<1>1. /\ Locked(t) /\ jobs[t] # <<>> /\ j.do = "unstash"
      /\ arena' = g.a /\ jobs' = SetJobs(jobs, t, js)
      /\ owned' = owned /\ taken' = taken /\ touched' = touched /\ zeroed' = zeroed
  <2>1. /\ Job(t, "unstash") /\ Locked(t) /\ GoOn(t, g, u \o s)
        /\ UNCHANGED <<taken, owned, touched, zeroed, failed>>
    BY DEF arena_chunk_unstash_purged
  <2>2. jobs[t] # <<>> /\ j.do = "unstash"
    BY <2>1 DEF Job, This
  <2> HIDE DEF g, u, s, j
  <2> QED
    BY <2>1, <2>2 DEF GoOn, Continue, SetJobs
<1>2. Known(A, taken, jobs, owned, T, t) /\ zeroed /\ At(t, j, s)
  BY <1>1, JobKnown
<1>3. /\ IsArena(A) /\ Ledger(A, taken, T, O) /\ Book(O) /\ owned \subseteq O
      /\ taken \subseteq Chunks /\ Book(owned)
  BY <1>2 DEF Known
<1>4. /\ JobOK(j) /\ Follow(s) /\ JobRuns(j) \cap HandOf(s) = {}
      /\ HandOf(jobs[t]) = JobRuns(j) \cup HandOf(s)
      /\ JobZero(A, T, j) /\ JobsZero(A, T, s)
      /\ JobRuns(j) \cup HandOf(s) \subseteq O /\ owned \cap (JobRuns(j) \cup HandOf(s)) = {}
  BY <1>2 DEF At
<1> HIDE DEF s, O, j
<1>5. RunsOK(q) /\ q # <<>> /\ JobRuns(j) = RunSet(q)
  BY <1>1, <1>4, StashRuns DEF JobOK
<1>6. /\ RunsOK(Tail(q)) /\ RunSet(q) = {r} \cup RunSet(Tail(q)) /\ r \notin RunSet(Tail(q))
      /\ x.c \in Chunks /\ x.i \in Pages
  <2>1. PICK y, z : y = x /\ z = Tail(q)
    OBVIOUS
  <2>2. /\ RunsOK(z) /\ RunSet(q) = {Plain(y)} \cup RunSet(z) /\ Plain(y) \notin RunSet(z)
        /\ y.c \in Chunks /\ y.i \in Pages
    BY <1>5, <2>1, RunsTail
  <2> QED
    BY <2>1, <2>2
<1>7. r.c = x.c /\ r.i = x.i /\ r.i # 0 /\ r \in O
  BY <1>4, <1>5, <1>6 DEF Plain, Run, Pages
<1>8. ZeroRun(A, T, r) /\ \A y \in RunSet(Tail(q)) : ZeroRun(A, T, y)
  BY <1>1, <1>4, <1>5, <1>6 DEF JobZero
<1> HIDE DEF r
<1>9. PICK H : GivenBack(A, g, taken, T, O, r, H)
  <2>1. PICK d, cl, gg : d = FALSE /\ cl = TRUE /\ gg = g
    OBVIOUS
  <2>2. d \in BOOLEAN /\ cl \in BOOLEAN /\ gg = arena_run_dalloc(A, r.c, r.i, d, cl)
    BY <1>7, <2>1
  <2> HIDE DEF g
  <2>3. \E H : GivenBack(A, gg, taken, T, O, r, H)
    BY <1>3, <1>7, <1>8, <2>2, LedgerDalloc
  <2> QED
    BY <2>1, <2>3
<1> HIDE DEF g
<1>10. /\ IsArena(g.a) /\ Quiet(A, g.a, O \ {r})
       /\ Ledger(g.a, taken, T, (O \ {r}) \cup H) /\ H \cap O = {} /\ r \notin H
       /\ Follow(g.then) /\ HandOf(g.then) = H /\ JobsZero(g.a, T, g.then)
  BY <1>9 DEF GivenBack
<1>11. Same(A, g.a, T, T, O \ {r})
  BY <1>10, QuietSame
<1>12. Follow(u) /\ HandOf(u) = RunSet(Tail(q)) /\ JobsZero(A, T, u)
  BY <1>6, <1>8, UnstashJobs
<1> HIDE DEF u
<1>13. Queued(u \o s, HandOf(u) \cup HandOf(s), A, T)
  <2>1. HandOf(u) \cap HandOf(s) = {}
    BY <1>4, <1>5, <1>6, <1>12
  <2> QED
    BY <1>4, <1>12, <2>1, ThenJobs
<1>14. Queued(js, H \cup (HandOf(u) \cup HandOf(s)), g.a, T)
  <2>1. PICK w : w = u \o s
    OBVIOUS
  <2>2. Follow(w) /\ HandOf(w) = HandOf(u) \cup HandOf(s) /\ JobsZero(A, T, w)
    BY <1>13, <2>1 DEF Queued
  <2>3. HandOf(w) \subseteq O \ {r}
    BY <1>4, <1>5, <1>6, <1>12, <2>2
  <2>4. JobsZero(g.a, T, w)
    BY <1>11, <2>2, <2>3, TailZero
  <2>5. HandOf(g.then) \cap HandOf(w) = {}
    BY <1>10, <2>3
  <2>6. js = g.then \o w /\ H \cup (HandOf(u) \cup HandOf(s)) = HandOf(g.then) \cup HandOf(w)
    BY <1>10, <2>1, <2>2
  <2> HIDE DEF js
  <2> QED
    BY <1>10, <2>2, <2>4, <2>5, <2>6, ThenJobs
<1> HIDE DEF js
<1>15. Stepped(A, arena', taken', jobs, owned, owned', T, touched', t, js, {r}, H)
  <2>1. /\ {r} \subseteq owned \cup HandOf(jobs[t])
        /\ owned' \cup HandOf(js) = ((owned \cup HandOf(jobs[t])) \ {r}) \cup H
        /\ owned' \cap HandOf(js) = {} /\ H \cap (O \ {r}) = {}
        /\ \A y \in owned' : y \in owned \ {r}
    BY <1>1, <1>3, <1>4, <1>5, <1>6, <1>10, <1>12, <1>14 DEF Queued
  <2> QED
    BY <1>1, <1>3, <1>10, <1>11, <1>14, <2>1 DEF Stepped, Queued, O
<1>16. OnWalk(arena', taken', lock', (Out(jobs, owned) \ {r}) \cup H, t, js)
  BY <1>14, NoWalk DEF Queued
<1> QED
  BY <1>1, <1>2, <1>15, <1>16, LockedNext

-----------------------------------------------------------------------------
(* Steps that change counters, and announce a purge.                       *)

Counters(A, B) ==
    IsArena(B) /\ B.map = A.map /\ B.cnt = A.cnt /\ B.avail = A.avail /\ B.spare = A.spare

LEMMA CountersOnly ==
    ASSUME NEW A, IsArena(A), NEW v
    PROVE  Counters(A, A) /\ Counters(A, WithActive(A, v)) /\ Counters(A, WithPurgatory(A, v))
<1>1. 1 \in Chunks
  BY ArenaRunsAssumption DEF Chunks
<1>2. MapOnly(A, WithActive(A, v), 1, {}) /\ WithActive(A, v).map = A.map
  BY <1>1, ActiveOnly
<1>3. MapOnly(A, WithPurgatory(A, v), 1, {}) /\ WithPurgatory(A, v).map = A.map
  BY <1>1, PurgatoryOnly
<1>4. Counters(A, WithActive(A, v))
  BY <1>2 DEF Counters, MapOnly, Else
<1>5. Counters(A, WithPurgatory(A, v))
  BY <1>3 DEF Counters, MapOnly, Else
<1>6. Counters(A, A)
  BY DEF Counters
<1> QED
  BY <1>4, <1>5, <1>6

LEMMA CountersTwice ==
    ASSUME NEW A, NEW B, NEW C, Counters(A, B), Counters(B, C)
    PROVE  Counters(A, C)
  BY DEF Counters

LEMMA LedgerCounters ==
    ASSUME NEW A, NEW B, Counters(A, B), NEW tk, NEW T, NEW O, Ledger(A, tk, T, O)
    PROVE  Ledger(B, tk, T, O) /\ Same(A, B, T, T, O)
<1>1. ASSUME NEW d \in Chunks
      PROVE  ChunkOK(B, d, TouchedIn(T, d), d \in tk, RunsIn(O, d))
  <2>1. ChunkOK(A, d, TouchedIn(T, d), d \in tk, RunsIn(O, d))
    BY DEF Ledger
  <2>2. /\ B.map[d] = A.map[d] /\ Avail(B, d) = Avail(A, d) /\ B.cnt[d].dirty = A.cnt[d].dirty
        /\ (B.spare = d <=> A.spare = d)
    BY DEF Counters, Avail
  <2> QED
    BY <2>1, <2>2, ChunkFrame
<1>2. Same(A, B, T, T, O)
  BY DEF Same, Counters
<1> QED
  BY <1>1, <1>2 DEF Ledger

\* The jobs q hold no run and walk nowhere.
Bare(q) == Follow(q) /\ HandOf(q) = {} /\ \A B, U : JobsZero(B, U, q)

\* A walk begins, in a chunk with dirty pages.
Begins(A, j) ==
    /\ JobOK(j) /\ j.do = "stash" /\ j.i = 1 /\ j.runs = <<>>
    /\ j.c \in Chunks /\ A.cnt[j.c].dirty # 0

PurgeResult(A, g) ==
    /\ Counters(A, g.a)
    /\ Bare(g.then) \/ \E j : g.then = <<j>> /\ Begins(A, j)

LEMMA BareJobs ==
    /\ Bare(<<>>)
    /\ \A j : j.do \in {"maybe_purge", "purge"} => Bare(<<j>>)
<1>1. Bare(<<>>)
  BY EmptyFollow DEF Bare
<1>2. ASSUME NEW j, j.do \in {"maybe_purge", "purge"}
      PROVE  Bare(<<j>>)
  <2>1. JobOK(j) /\ JobRuns(j) = {} /\ \A B, U : JobZero(B, U, j)
    BY <1>2 DEF JobOK, JobRuns, JobZero
  <2>2. Follow(<<j>>)
    BY <1>2, <2>1, OneFollow
  <2> QED
    BY <2>1, <2>2, OneJob DEF Bare
<1> QED
  BY <1>1, <1>2

LEMMA PurgeStarts ==
    ASSUME NEW A, IsArena(A), NEW all, NEW g, g = arena_purge(A, all)
    PROVE  PurgeResult(A, g)
<1> DEFINE k == arena_compute_npurgatory(A, all)
           v == (A.npurgatory + k) % Word
           j == [do |-> "purge", left |-> k, back |-> 0, all |-> all]
<1>1. g.a = WithPurgatory(A, v) /\ g.then = <<j>> /\ j.do = "purge"
  BY DEF arena_purge, WithPurgatory
<1> HIDE DEF v, j
<1>2. Counters(A, g.a) /\ Bare(g.then)
  BY <1>1, CountersOnly, BareJobs
<1> QED
  BY <1>2 DEF PurgeResult

LEMMA MayPurge ==
    ASSUME NEW A, IsArena(A), NEW g, g = arena_maybe_purge(A)
    PROVE  PurgeResult(A, g)
<1>1. g = arena_purge(A, FALSE) \/ (g.a = A /\ g.then = <<>>)
  BY DEF arena_maybe_purge
<1>2. CASE g = arena_purge(A, FALSE)
  <2>1. PICK al : al = FALSE
    BY Zenon
  <2>2. g = arena_purge(A, al)
    BY <1>2, <2>1, Zenon
  <2> QED
    BY <2>2, PurgeStarts
<1>3. CASE g.a = A /\ g.then = <<>>
  BY <1>3, CountersOnly, BareJobs DEF PurgeResult
<1> QED
  BY <1>1, <1>2, <1>3

LEMMA RoundResult ==
    ASSUME NEW A, IsArena(A), NEW left, NEW back, NEW all, NEW g, g = PurgeRound(A, left, back, all)
    PROVE  PurgeResult(A, g)
<1> DEFINE v == (A.npurgatory + back) % Word
           B == WithPurgatory(A, v)
           lf == (left + back) % Word
           first == arena_chunk_dirty_first(B)
           c == CHOOSE x \in first : TRUE
           n == B.cnt[c].dirty
           more == IF n > lf /\ B.cnt[c].adjac = 0 THEN n - lf ELSE 0
<1>1. Counters(A, B)
  BY CountersOnly
<1>2. g = IF lf = 0 THEN [a |-> B, then |-> <<>>]
          ELSE IF first = {} THEN [a |-> [B EXCEPT !.npurgatory = (@ - lf) % Word], then |-> <<>>]
          ELSE Round(B, c, lf + more - n, more - n, n, all)
  BY DEF PurgeRound, WithPurgatory
<1>3. \A x \in first : x \in Chunks /\ B.cnt[x].dirty # 0
  BY DEF arena_chunk_dirty_first
<1>4. first # {} => c \in first
  OBVIOUS
<1> HIDE DEF B, first, c, lf, more, n
<1>5. IsArena(B)
  BY <1>1 DEF Counters
<1>6. CASE lf = 0
  BY <1>1, <1>2, <1>6, BareJobs DEF PurgeResult
<1>7. CASE lf # 0 /\ first = {}
  <2> DEFINE w == (B.npurgatory - lf) % Word
  <2>1. g.a = WithPurgatory(B, w) /\ g.then = <<>>
    BY <1>2, <1>7 DEF WithPurgatory
  <2> HIDE DEF w
  <2>2. Counters(B, g.a)
    BY <1>5, <2>1, CountersOnly
  <2> QED
    BY <1>1, <2>1, <2>2, CountersTwice, BareJobs DEF PurgeResult
<1>8. CASE lf # 0 /\ first # {}
  <2> DEFINE w == (B.npurgatory + (more - n)) % Word
             j == [do |-> "stash", c |-> c, i |-> 1, runs |-> <<>>,
                   all |-> all \/ B.cnt[c].adjac = 0,
                   left |-> (lf + more - n) % Word, dirty |-> n, again |-> all]
  <2>1. g.a = WithPurgatory(B, w) /\ g.then = <<j>>
    BY <1>2, <1>8 DEF WithPurgatory, Round
  <2>2. /\ j.do = "stash" /\ j.c = c /\ j.i = 1 /\ j.runs = <<>>
        /\ j = [do |-> "stash", c |-> j.c, i |-> j.i, runs |-> j.runs, all |-> j.all,
                left |-> j.left, dirty |-> j.dirty, again |-> j.again]
    OBVIOUS
  <2> HIDE DEF w, j
  <2>3. Counters(B, g.a)
    BY <1>5, <2>1, CountersOnly
  <2>4. c \in Chunks /\ A.cnt[c].dirty # 0
    BY <1>1, <1>3, <1>4, <1>8 DEF Counters
  <2>5. 1 \in Pages
    BY ArenaRunsAssumption DEF Pages
  <2>6. JobOK(j)
    BY <2>2, <2>4, <2>5, EmptyRuns DEF JobOK
  <2>7. Begins(A, j)
    BY <2>2, <2>4, <2>6 DEF Begins
  <2> QED
    BY <1>1, <2>1, <2>3, <2>7, CountersTwice DEF PurgeResult
<1> QED
  BY <1>6, <1>7, <1>8

\* A step that changes counters only, and goes on with g's jobs, then s.
LEMMA PurgeStep ==
    ASSUME Inv, NEW t \in Threads, Locked(t), NEW g, PurgeResult(arena, g),
           NEW s, Follow(s), HandOf(s) = HandOf(jobs[t]), JobsZero(arena, touched, s),
           GoOn(t, g, s), UNCHANGED <<taken, owned, touched, zeroed>>
    PROVE  Inv'
<1> DEFINE A == arena
           T == touched
           O == Out(jobs, owned)
           js == g.then \o s
           H == HandOf(s)
<1>1. /\ arena' = g.a /\ jobs' = SetJobs(jobs, t, js)
      /\ lock' = (IF js = <<>> \/ Head(js).do \in Unlocked THEN None ELSE t)
      /\ taken' = taken /\ owned' = owned /\ touched' = touched /\ zeroed' = zeroed
  BY DEF GoOn, Continue, SetJobs
<1>2. Known(A, taken, jobs, owned, T, t) /\ zeroed
  BY GoodKnown DEF Inv
<1>3. /\ IsArena(A) /\ Ledger(A, taken, T, O) /\ Book(owned) /\ taken \subseteq Chunks
      /\ owned \cap HandOf(jobs[t]) = {} /\ owned \cup HandOf(jobs[t]) \subseteq O
      /\ \A r \in owned : r.small => CleanRun(A, T, r)
  BY <1>2 DEF Known
<1>4. Counters(A, g.a) /\ (Bare(g.then) \/ \E j : g.then = <<j>> /\ Begins(A, j))
  BY DEF PurgeResult
<1> HIDE DEF O
<1>5. IsArena(g.a) /\ Ledger(g.a, taken, T, O) /\ Same(A, g.a, T, T, O)
  BY <1>3, <1>4, LedgerCounters DEF Counters
<1>6. JobsZero(g.a, T, s)
  BY <1>3, <1>5, TailZero
<1>7. /\ Queue(js) /\ HandOf(js) = H /\ JobsZero(g.a, T, js)
      /\ OnWalk(arena', taken', lock', (O \ {}) \cup {}, t, js)
  <2>1. CASE Bare(g.then)
    <3>1. PICK p, w : p = g.then /\ w = js
      OBVIOUS
    <3>2. /\ Follow(p) /\ HandOf(p) \cap HandOf(s) = {} /\ JobsZero(g.a, T, p) /\ w = p \o s
          /\ H = HandOf(p) \cup HandOf(s)
      BY <2>1, <3>1 DEF Bare
    <3> HIDE DEF H, js
    <3>3. Queued(w, H, g.a, T)
      BY <1>6, <3>2, ThenJobs
    <3> QED
      BY <3>1, <3>3, NoWalk DEF Queued
  <2>2. CASE \E j : g.then = <<j>> /\ Begins(A, j)
    <3>1. PICK j : g.then = <<j>> /\ Begins(A, j)
      BY <2>2
    <3>2. /\ JobOK(j) /\ j.do = "stash" /\ j.i = 1 /\ j.runs = <<>>
          /\ j.c \in Chunks /\ A.cnt[j.c].dirty # 0
      BY <3>1 DEF Begins
    <3>3. JobRuns(j) = {}
      BY <3>2, StashRuns, EmptyRuns
    <3>4. PICK w, p : w = js /\ p = <<j>>
      OBVIOUS
    <3>5. JobRuns(j) \cap HandOf(s) = {} /\ w = <<j>> \o s /\ w = p \o s
      BY <3>1, <3>3, <3>4
    <3> HIDE DEF js
    <3>6. /\ Queue(w) /\ w # <<>> /\ Head(w) = j /\ w[1] = j
          /\ \A k \in DOMAIN w : k # 1 => w[k].do # "stash"
      <4>1. StashFirst(w, j)
        BY <3>2, <3>5, StashQueue
      <4> QED
        BY <4>1 DEF StashFirst
    <3>7. HandOf(w) = H /\ JobsZero(g.a, T, w)
      <4>1. IsSeq(p) /\ Once(p) /\ HandOf(p) = JobRuns(j)
        BY <3>4, OneJob
      <4>2. JobZero(g.a, T, j)
        BY <3>2 DEF JobZero
      <4>3. JobsZero(g.a, T, p)
        BY <3>4, <4>2, OneJob
      <4>4. HandOf(p) \cap HandOf(s) = {} /\ HandOf(p) = {}
        BY <3>3, <4>1
      <4>5. IsSeq(s) /\ Once(s)
        BY DEF Follow
      <4>6. HandOf(w) = HandOf(p) \cup HandOf(s)
        BY <3>5, <4>1, <4>4, <4>5, ConcatJobs
      <4>7. JobsZero(g.a, T, w)
        BY <1>6, <3>5, <4>1, <4>3, <4>4, <4>5, ConcatJobs
      <4> QED
        BY <4>4, <4>6, <4>7
    <3>8. lock' = t
      BY <1>1, <3>2, <3>4, <3>6 DEF Unlocked
    <3>9. CutUp(A, j.c, taken, T, O)
      BY <1>3, <3>2, AvailChunk
    <3>10. WalkAt(g.a, taken, O, j)
      <4> DEFINE F == Avail(A, j.c)
                 R == RunsIn(O, j.c)
                 V == TouchedIn(T, j.c)
      <4>1. j.c \in taken /\ A.spare # j.c /\ Layout(A.map[j.c], V, F, R, {})
        BY <3>9 DEF CutUp, View
      <4>2. 1 \in Pages
        BY ArenaRunsAssumption DEF Pages
      <4>3. 1 \in F \/ \E r \in R : r.i = 1
        <5>1. PICK k, X : k = 1 /\ X = {}
          OBVIOUS
        <5>2. k \in Pages /\ k \notin X /\ (k = 1 \/ k - 1 \in X) /\ Layout(A.map[j.c], V, F, R, X)
          BY <4>1, <4>2, <5>1
        <5> HIDE DEF F, R, V
        <5>3. k \in F \/ \E r \in R : r.i = k
          BY <5>2, HeadAfter
        <5> QED
          BY <5>1, <5>3
      <4>4. Whole(j.c) \notin O
        <5> SUFFICES ASSUME Whole(j.c) \in R PROVE FALSE
          BY DEF RunsIn, Whole, Run
        <5>1. RunAt(A.map[j.c], Whole(j.c))
          BY <4>1 DEF Layout
        <5> QED
          BY <5>1 DEF RunAt, Whole, Run, Pages
      <4>5. g.a.spare = A.spare /\ Avail(g.a, j.c) = F
        BY <1>4 DEF Counters, Avail
      <4> QED
        BY <3>2, <4>1, <4>3, <4>4, <4>5 DEF WalkAt
    <3>11. OnWalk(arena', taken', lock', (O \ {}) \cup {}, t, w)
      <4>1. (O \ {}) \cup {} = O
        OBVIOUS
      <4> QED
        BY <1>1, <3>6, <3>8, <3>10, <4>1 DEF OnWalk
    <3> QED
      BY <3>4, <3>6, <3>7, <3>11
  <2> QED
    BY <1>4, <2>1, <2>2
<1> HIDE DEF js
<1>8. Stepped(A, arena', taken', jobs, owned, owned', T, touched', t, js, {}, {})
  <2>1. /\ {} \subseteq owned \cup HandOf(jobs[t])
        /\ owned' \cup HandOf(js) = ((owned \cup HandOf(jobs[t])) \ {}) \cup {}
        /\ owned' \cap HandOf(js) = {} /\ {} \cap (O \ {}) = {}
        /\ \A y \in owned' : y \in owned \ {}
    BY <1>1, <1>3, <1>7
  <2>2. (O \ {}) \cup {} = O /\ O \ {} = O
    OBVIOUS
  <2>3. Ledger(g.a, taken, T, (O \ {}) \cup {}) /\ Same(A, g.a, T, T, O \ {})
    BY <1>5, <2>2
  <2> QED
    BY <1>1, <1>3, <1>5, <1>7, <2>1, <2>3 DEF Stepped, O
<1> QED
  BY <1>1, <1>2, <1>7, <1>8, LockedNext DEF O

LEMMA PurgeAllInv ==
    ASSUME Inv, NEW t \in Threads, arena_purge_all(t)
    PROVE  Inv'
<1> DEFINE g == arena_purge(arena, TRUE)
<1>1. Idle(t) /\ GoOn(t, g, <<>>) /\ UNCHANGED <<taken, owned, touched, zeroed>>
  BY DEF arena_purge_all
<1>2. /\ Known(arena, taken, jobs, owned, touched, t) /\ HandOf(jobs[t]) = {} /\ Locked(t)
  BY <1>1, IdleKnown
<1>3. PurgeResult(arena, g)
  <2>1. PICK al : al = TRUE
    OBVIOUS
  <2>2. g = arena_purge(arena, al) /\ IsArena(arena)
    BY <1>2, <2>1 DEF Known
  <2> HIDE DEF g
  <2> QED
    BY <2>2, PurgeStarts
<1> HIDE DEF g
<1>4. PICK s : s = <<>>
  OBVIOUS
<1>5. /\ Follow(s) /\ HandOf(s) = HandOf(jobs[t]) /\ JobsZero(arena, touched, s)
      /\ GoOn(t, g, s)
  BY <1>1, <1>2, <1>4, EmptyFollow
<1> QED
  BY <1>1, <1>2, <1>3, <1>5, PurgeStep

LEMMA PurgeInv ==
    ASSUME Inv, NEW t \in Threads, Purge(t)
    PROVE  Inv'
<1> DEFINE j == This(t)
           s == Tail(jobs[t])
           g == IF j.do = "maybe_purge" THEN arena_maybe_purge(arena)
                ELSE PurgeRound(arena, j.left, j.back, j.all)
<1>1. /\ Job(t, "maybe_purge") \/ Job(t, "purge")
      /\ Locked(t) /\ GoOn(t, g, s) /\ UNCHANGED <<taken, owned, touched, zeroed>>
  BY DEF Purge
<1>2. jobs[t] # <<>> /\ j.do \in {"maybe_purge", "purge"}
  BY <1>1 DEF Job, This
<1>3. Known(arena, taken, jobs, owned, touched, t) /\ At(t, j, s)
  BY <1>2, JobKnown
<1> HIDE DEF j, s
<1>4. PurgeResult(arena, g)
  <2>1. IsArena(arena)
    BY <1>3 DEF Known
  <2>2. CASE j.do = "maybe_purge"
    BY <2>1, <2>2, MayPurge
  <2>3. CASE j.do # "maybe_purge"
    BY <2>1, <2>3, RoundResult
  <2> QED
    BY <2>2, <2>3
<1> HIDE DEF g
<1>5. Follow(s) /\ HandOf(s) = HandOf(jobs[t]) /\ JobsZero(arena, touched, s)
  <2>1. JobRuns(j) = {}
    BY <1>2 DEF JobRuns
  <2> QED
    BY <1>3, <2>1 DEF At
<1> QED
  BY <1>1, <1>4, <1>5, PurgeStep

-----------------------------------------------------------------------------
(* Chunks that are held as a whole.                                        *)

\* Who has a run at 0 has the whole chunk.
LEMMA WholeChunk ==
    ASSUME NEW A, NEW tk, NEW T, NEW O, Ledger(A, tk, T, O), NEW r \in O, r.c \in Chunks, r.i = 0
    PROVE  /\ r = Whole(r.c) /\ RunsIn(O, r.c) = {Whole(r.c)} /\ r.c \in tk
           /\ A.spare # r.c /\ Unused(A, r.c)
<1> DEFINE c == r.c
           V == TouchedIn(T, c)
<1>1. r \in RunsIn(O, c)
  BY DEF RunsIn
<1>2. ChunkOK(A, c, V, c \in tk, RunsIn(O, c))
  BY DEF Ledger
<1>3. ~View(A, c, V, RunsIn(O, c), {})
  <2> SUFFICES ASSUME View(A, c, V, RunsIn(O, c), {}) PROVE FALSE
    OBVIOUS
  <2>1. RunAt(A.map[c], r)
    BY <1>1 DEF View, Layout
  <2> QED
    BY <2>1 DEF RunAt, Pages
<1> QED
  BY <1>1, <1>2, <1>3 DEF ChunkOK

LEMMA LedgerLeave ==
    ASSUME NEW A, IsArena(A), NEW tk, NEW T, NEW O, Ledger(A, tk, T, O),
           NEW c \in Chunks, NEW r \in O, r = Whole(c), NEW tl, tl = tk \ {c},
           NEW P, P = O \ {r}
    PROVE  Ledger(A, tl, T, P)
<1>1. r.c = c /\ r.i = 0
  BY DEF Whole, Run
<1>2. RunsIn(O, c) = {r} /\ A.spare # c /\ Unused(A, c)
  BY <1>1, WholeChunk
<1>3. Else(A, A, c)
  BY DEF Else
<1>4. \A d \in Chunks \ {c} : RunsIn(P, d) = RunsIn(O, d) /\ (d \in tl <=> d \in tk)
  BY <1>1 DEF RunsIn
<1>5. RunsIn(P, c) = {} /\ c \notin tl
  BY <1>2 DEF RunsIn
<1>6. ChunkOK(A, c, TouchedIn(T, c), c \in tl, RunsIn(P, c))
  BY <1>2, <1>5 DEF ChunkOK
<1> QED
  BY <1>3, <1>4, <1>6, OneChunk

Arrived(A, tl, U, P, O, r, c) ==
    Ledger(A, tl, U, P) /\ r \notin O /\ RunsIn(O, c) = {}

LEMMA LedgerCome ==
    ASSUME NEW A, IsArena(A), NEW tk, NEW T, NEW O, Ledger(A, tk, T, O),
           NEW c \in Chunks, c \notin tk, NEW r, r = Whole(c), NEW tl, tl = tk \cup {c},
           NEW P, P = O \cup {r}, NEW U, U = T \cup ({c} \X Pages)
    PROVE  Arrived(A, tl, U, P, O, r, c)
<1>1. r.c = c /\ r.i = 0 /\ r.n = NPages + 1
  BY DEF Whole, Run, HugePages
<1>2. RunsIn(O, c) = {} /\ A.spare # c /\ Unused(A, c)
  <2>1. ChunkOK(A, c, TouchedIn(T, c), c \in tk, RunsIn(O, c))
    BY DEF Ledger
  <2> QED
    BY <2>1 DEF ChunkOK
<1>3. r \notin O
  BY <1>1, <1>2 DEF RunsIn
<1>4. Else(A, A, c)
  BY DEF Else
<1>5. \A d \in Chunks \ {c} : RunsIn(P, d) = RunsIn(O, d) /\ (d \in tl <=> d \in tk)
  BY <1>1 DEF RunsIn
<1>6. RunsIn(P, c) = {r} /\ c \in tl
  BY <1>1, <1>2 DEF RunsIn
<1>7. ChunkOK(A, c, TouchedIn(T, c), c \in tl, RunsIn(P, c))
  BY <1>2, <1>6 DEF ChunkOK
<1>8. Ledger(A, tl, T, P)
  BY <1>4, <1>5, <1>7, OneChunk
<1>9. \A d \in Chunks, k \in Pages :
         <<d, k>> \in U => <<d, k>> \in T \/ \E s \in RunsIn(P, d) : k \in RunSpan(s)
  <2>1. \A k \in Pages : k \in RunSpan(r)
    BY <1>1, ArenaRunsAssumption DEF RunSpan, Span, Pages
  <2> QED
    BY <1>6, <2>1
<1>10. Ledger(A, tl, U, P)
  BY <1>8, <1>9, LedgerTouch
<1> QED
  BY <1>2, <1>3, <1>10 DEF Arrived

LEMMA UnmapInv ==
    ASSUME Inv, NEW t \in Threads, arena_chunk_dalloc_internal(t)
    PROVE  Inv'
<1> DEFINE A == arena
           T == touched
           O == Out(jobs, owned)
           j == This(t)
           s == Tail(jobs[t])
           r == Whole(j.c)
<1>1. /\ Locked(t) /\ jobs[t] # <<>> /\ j.do = "unmap"
      /\ arena' = A /\ jobs' = SetJobs(jobs, t, s)
      /\ owned' = owned /\ taken' = taken \ {j.c} /\ touched' = touched /\ zeroed' = zeroed
  <2>1. /\ Job(t, "unmap") /\ Locked(t) /\ Continue(t, arena, s)
        /\ taken' = taken \ {j.c} /\ UNCHANGED <<owned, touched, zeroed, failed>>
    BY DEF arena_chunk_dalloc_internal
  <2>2. jobs[t] # <<>> /\ j.do = "unmap"
    BY <2>1 DEF Job, This
  <2> HIDE DEF s, j
  <2> QED
    BY <2>1, <2>2 DEF Continue, SetJobs
<1>2. Known(A, taken, jobs, owned, T, t) /\ zeroed /\ At(t, j, s)
  BY <1>1, JobKnown
<1>3. /\ IsArena(A) /\ Ledger(A, taken, T, O) /\ Book(O) /\ owned \subseteq O
      /\ taken \subseteq Chunks /\ Book(owned)
  BY <1>2 DEF Known
<1>4. /\ JobOK(j) /\ Follow(s) /\ JobRuns(j) \cap HandOf(s) = {}
      /\ HandOf(jobs[t]) = JobRuns(j) \cup HandOf(s)
      /\ JobsZero(A, T, s)
      /\ JobRuns(j) \cup HandOf(s) \subseteq O /\ owned \cap (JobRuns(j) \cup HandOf(s)) = {}
  BY <1>2 DEF At
<1> HIDE DEF s, O, j
<1>5. JobRuns(j) = {r} /\ j.c \in Chunks
  BY <1>1, <1>4 DEF JobRuns, JobOK
<1> HIDE DEF r
<1>6. Ledger(A, taken', T, O \ {r})
  <2>1. r \in O /\ r = Whole(j.c)
    BY <1>4, <1>5 DEF r
  <2> QED
    BY <1>1, <1>3, <1>5, <2>1, LedgerLeave
<1>7. Queue(s) /\ NoStash(s)
  BY <1>4, FollowNoStash
<1>8. Stepped(A, arena', taken', jobs, owned, owned', T, touched', t, s, {r}, {})
  <2>1. /\ {r} \subseteq owned \cup HandOf(jobs[t])
        /\ owned' \cup HandOf(s) = ((owned \cup HandOf(jobs[t])) \ {r}) \cup {}
        /\ owned' \cap HandOf(s) = {} /\ {} \cap (O \ {r}) = {}
        /\ \A y \in owned' : y \in owned \ {r}
    BY <1>1, <1>3, <1>4, <1>5
  <2>2. (O \ {r}) \cup {} = O \ {r} /\ taken' \subseteq Chunks
    BY <1>1, <1>3
  <2>3. Ledger(arena', taken', touched', (O \ {r}) \cup {})
    BY <1>1, <1>6, <2>2
  <2>4. Same(A, arena', T, touched', O \ {r})
    BY <1>1 DEF Same
  <2> QED
    BY <1>1, <1>3, <1>4, <1>7, <2>1, <2>2, <2>3, <2>4 DEF Stepped, O
<1>9. OnWalk(arena', taken', lock', (Out(jobs, owned) \ {r}) \cup {}, t, s)
  BY <1>7, NoWalk
<1> QED
  BY <1>1, <1>2, <1>8, <1>9, LockedNext

LEMMA HugeInv ==
    ASSUME Inv, NEW t \in Threads, HugeAnswer(t)
    PROVE  Inv'
<1> DEFINE A == arena
           T == touched
           O == Out(jobs, owned)
<1>1. PICK js : js = <<>>
  OBVIOUS
<1>2. /\ jobs[t] # <<>> /\ This(t).do = "huge" /\ jobs' = SetJobs(jobs, t, js)
      /\ arena' = A /\ lock' = lock /\ zeroed' = zeroed
  BY <1>1 DEF HugeAnswer, Job, This, SetJobs
<1>3. Known(A, taken, jobs, owned, T, t) /\ zeroed
  BY <1>2, JobKnown
<1>4. /\ IsArena(A) /\ Ledger(A, taken, T, O) /\ Book(O) /\ owned \subseteq O
      /\ taken \subseteq Chunks /\ Book(owned)
  BY <1>3 DEF Known
<1>5. HandOf(jobs[t]) = {}
  <2>1. PICK j, s : j = Head(jobs[t]) /\ s = Tail(jobs[t])
    OBVIOUS
  <2>2. Queue(jobs[t])
    BY <1>3 DEF Known
  <2>3. HandOf(jobs[t]) = JobRuns(j) \cup HandOf(s) /\ j = jobs[t][1] /\ 1 \in DOMAIN jobs[t]
    BY <1>2, <2>1, <2>2, FirstJob
  <2>4. JobRuns(j) = {} /\ j.do = "huge"
    BY <1>2, <2>1 DEF JobRuns, This
  <2>5. Len(jobs[t]) = 1
    BY <2>2, <2>3, <2>4 DEF Queue
  <2>6. s = <<>>
    BY <2>1, <2>2, <2>5 DEF Queue, IsSeq
  <2> QED
    BY <2>3, <2>4, <2>6, EmptyFollow
<1>6. Follow(js) /\ Queue(js) /\ NoStash(js) /\ HandOf(js) = {} /\ \A B, U : JobsZero(B, U, js)
  BY <1>1, EmptyFollow, FollowNoStash
<1> HIDE DEF O
<1>7. ASSUME NEW New, NEW U, owned' = owned \cup New, touched' = U,
             taken' \subseteq Chunks, taken \subseteq taken', Book(owned'),
             Ledger(A, taken', U, O \cup New), New \cap O = {}, Same(A, A, T, U, O),
             \A r \in New : ~r.small /\ r.c \notin taken
      PROVE  Inv'
  <2>1. Stepped(A, arena', taken', jobs, owned, owned', T, touched', t, js, {}, New)
    <3>1. /\ {} \subseteq owned \cup HandOf(jobs[t])
          /\ owned' \cup HandOf(js) = ((owned \cup HandOf(jobs[t])) \ {}) \cup New
          /\ owned' \cap HandOf(js) = {} /\ New \cap (O \ {}) = {}
          /\ \A y \in owned' : y.small => y \in owned \ {}
      BY <1>4, <1>5, <1>6, <1>7
    <3>2. (O \ {}) \cup New = O \cup New /\ O \ {} = O
      OBVIOUS
    <3>3. Ledger(A, taken', U, (O \ {}) \cup New) /\ Same(A, A, T, U, O \ {})
      BY <1>7, <3>2
    <3> QED
      BY <1>2, <1>4, <1>6, <1>7, <3>1, <3>3 DEF Stepped, O
  <2>2. ASSUME NEW u \in Threads, NEW k \in DOMAIN jobs'[u], jobs'[u][k].do = "stash"
        PROVE  lock' = u /\ WalkAt(arena', taken', (O \ {}) \cup New, jobs'[u][k])
    <3>1. jobs = [x \in Threads |-> jobs[x]] /\ Walks(A, taken, lock, jobs, O)
      BY DEF Inv, Good, O
    <3>2. u # t
      BY <1>2, <1>6, <2>2, <3>1 DEF SetJobs, NoStash
    <3>3. jobs'[u] = jobs[u]
      BY <1>2, <3>1, <3>2 DEF SetJobs
    <3>4. lock = u /\ WalkAt(A, taken, O, jobs[u][k])
      BY <2>2, <3>1, <3>3 DEF Walks
    <3>5. PICK j : j = jobs[u][k]
      OBVIOUS
    <3>6. /\ j.c \in taken /\ A.spare # j.c /\ Whole(j.c) \notin O
          /\ j.i \in Avail(A, j.c) \/ \E r \in RunsIn(O, j.c) : r.i = j.i
      BY <3>4, <3>5 DEF WalkAt
    <3>7. Whole(j.c) \notin New
      BY <1>7, <3>6 DEF Whole, Run
    <3>8. \A r \in RunsIn(O, j.c) : r \in RunsIn((O \ {}) \cup New, j.c)
      BY DEF RunsIn
    <3>9. WalkAt(A, taken', (O \ {}) \cup New, j)
      BY <1>7, <3>6, <3>7, <3>8 DEF WalkAt
    <3> QED
      BY <1>2, <3>3, <3>4, <3>5, <3>9
  <2>3. Walks(arena', taken', lock', jobs', (O \ {}) \cup New)
    BY <2>2 DEF Walks
  <2>4. Good(arena', taken', lock', jobs', owned', touched')
    BY <1>2, <2>1, <2>3, StepGood DEF Inv, O
  <2> QED
    BY <1>2, <1>3, <2>4 DEF Inv
<1>8. ASSUME NEW c \in Chunks \ taken, taken' = taken \cup {c},
             owned' = owned \cup {[c |-> c, i |-> 0, n |-> HugePages, small |-> FALSE]},
             touched' = touched \cup ({c} \X Pages)
      PROVE  Inv'
  <2>1. PICK r, New, U : r = Whole(c) /\ New = {r} /\ U = T \cup ({c} \X Pages)
    OBVIOUS
  <2>2. r = [c |-> c, i |-> 0, n |-> HugePages, small |-> FALSE]
    BY <2>1 DEF Whole, Run
  <2>3. owned' = owned \cup New /\ r.c = c /\ ~r.small /\ r.small \in BOOLEAN
    BY <1>8, <2>1, <2>2
  <2>4. Ledger(A, taken', U, O \cup {r}) /\ r \notin O /\ RunsIn(O, c) = {}
    <3>1. PICK P : P = O \cup {r}
      OBVIOUS
    <3>2. Arrived(A, taken', U, P, O, r, c)
      BY <1>4, <1>8, <2>1, <3>1, LedgerCome
    <3> QED
      BY <3>1, <3>2 DEF Arrived
  <2>5. Same(A, A, T, U, O)
    <3>1. \A s \in O : s.c # c
      BY <2>4 DEF RunsIn
    <3> QED
      BY <2>1, <3>1 DEF Same
  <2>6. Book(owned')
    <3>1. r = Run(r.c, r.i, r.n, r.small)
      BY <2>2 DEF Run
    <3> QED
      BY <1>4, <1>8, <2>1, <2>3, <3>1 DEF Book
  <2> QED
    BY <1>4, <1>7, <1>8, <2>1, <2>3, <2>4, <2>5, <2>6
<1>9. CASE UNCHANGED <<taken, owned, touched>>
  <2>1. PICK New : New = {}
    OBVIOUS
  <2>2. owned' = owned \cup New /\ O \cup New = O /\ New \cap O = {} /\ Same(A, A, T, T, O)
    BY <1>9, <2>1 DEF Same
  <2>3. Ledger(A, taken', T, O \cup New) /\ Book(owned')
    BY <1>4, <1>9, <2>2
  <2> QED
    BY <1>4, <1>7, <1>9, <2>1, <2>2, <2>3
<1> QED
  BY <1>8, <1>9 DEF HugeAnswer

LEMMA AllocHugeInv ==
    ASSUME Inv, NEW t \in Threads, arena_chunk_alloc_huge(t)
    PROVE  Inv'
<1> DEFINE A == arena
           T == touched
           O == Out(jobs, owned)
           v == (arena.nactive + HugePages) % Word
           j == [do |-> "huge"]
           B == WithActive(A, v)
<1>1. PICK js : js = <<j>>
  OBVIOUS
<1>2. /\ Idle(t) /\ arena' = B /\ jobs' = SetJobs(jobs, t, js)
      /\ taken' = taken /\ owned' = owned /\ touched' = touched /\ zeroed' = zeroed
  BY <1>1 DEF arena_chunk_alloc_huge, Continue, SetJobs, WithActive
<1>3. j.do = "huge"
  OBVIOUS
<1> HIDE DEF j, v, B
<1>4. Known(A, taken, jobs, owned, T, t) /\ zeroed /\ HandOf(jobs[t]) = {} /\ Locked(t)
  BY <1>2, IdleKnown
<1>5. /\ IsArena(A) /\ Ledger(A, taken, T, O) /\ owned \subseteq O
      /\ taken \subseteq Chunks /\ Book(owned)
  BY <1>4 DEF Known
<1> HIDE DEF O
<1>6. Counters(A, B)
  BY <1>5, CountersOnly DEF B
<1>7. IsArena(B) /\ Ledger(B, taken, T, O) /\ Same(A, B, T, T, O)
  BY <1>5, <1>6, LedgerCounters DEF Counters
<1>8. JobOK(j) /\ JobRuns(j) = {} /\ JobZero(B, T, j)
  BY <1>3 DEF JobOK, JobRuns, JobZero
<1>9. Queue(js) /\ HandOf(js) = {} /\ JobsZero(B, T, js) /\ NoStash(js)
  <2>1. Queue(js)
    BY <1>1, <1>8, OneFollow
  <2>2. DOMAIN js = {1} /\ js[1] = j /\ HandOf(js) = {} /\ JobsZero(B, T, js)
    BY <1>1, <1>8, OneJob
  <2> QED
    BY <1>3, <2>1, <2>2 DEF NoStash
<1>10. Stepped(A, arena', taken', jobs, owned, owned', T, touched', t, js, {}, {})
  <2>1. /\ {} \subseteq owned \cup HandOf(jobs[t])
        /\ owned' \cup HandOf(js) = ((owned \cup HandOf(jobs[t])) \ {}) \cup {}
        /\ owned' \cap HandOf(js) = {} /\ {} \cap (O \ {}) = {}
        /\ \A y \in owned' : y \in owned \ {}
    BY <1>2, <1>4, <1>5, <1>9
  <2>2. (O \ {}) \cup {} = O /\ O \ {} = O
    OBVIOUS
  <2>3. Ledger(B, taken, T, (O \ {}) \cup {}) /\ Same(A, B, T, T, O \ {})
    BY <1>7, <2>2
  <2> QED
    BY <1>2, <1>5, <1>7, <1>9, <2>1, <2>3 DEF Stepped, O
<1>11. OnWalk(arena', taken', lock', (Out(jobs, owned) \ {}) \cup {}, t, js)
  BY <1>9, NoWalk
<1> QED
  BY <1>2, <1>4, <1>10, <1>11, LockedNext

LEMMA DallocHugeInv ==
    ASSUME Inv, NEW t \in Threads, NEW r \in Huge, arena_chunk_dalloc_huge(t, r)
    PROVE  Inv'
<1> DEFINE A == arena
           T == touched
           O == Out(jobs, owned)
           v == (arena.nactive - HugePages) % Word
           B == WithActive(A, v)
<1>1. PICK js : js = <<>>
  OBVIOUS
<1>2. /\ Idle(t) /\ arena' = B /\ jobs' = jobs /\ taken' = taken \ {r.c}
      /\ owned' = owned \ {r} /\ touched' = touched /\ zeroed' = zeroed
  BY DEF arena_chunk_dalloc_huge, WithActive
<1> HIDE DEF v, B
<1>3. jobs' = SetJobs(jobs, t, js)
  <2>1. jobs = [x \in Threads |-> jobs[x]] /\ jobs[t] = js
    BY <1>1, <1>2 DEF Inv, Good, Idle
  <2> QED
    BY <1>2, <2>1 DEF SetJobs
<1>4. Known(A, taken, jobs, owned, T, t) /\ zeroed /\ HandOf(jobs[t]) = {} /\ Locked(t)
  BY <1>2, IdleKnown
<1>5. /\ IsArena(A) /\ Ledger(A, taken, T, O) /\ owned \subseteq O /\ Book(O)
      /\ taken \subseteq Chunks /\ Book(owned)
  BY <1>4 DEF Known
<1> HIDE DEF O
<1>6. Counters(A, B)
  BY <1>5, CountersOnly DEF B
<1>7. IsArena(B) /\ Ledger(B, taken, T, O) /\ Same(A, B, T, T, O)
  BY <1>5, <1>6, LedgerCounters DEF Counters
<1>8. r \in owned /\ r \in O /\ r.i = 0 /\ r.c \in Chunks
  BY <1>5 DEF Huge, Book
<1>9. r = Whole(r.c)
  BY <1>5, <1>8, WholeChunk
<1>10. Ledger(B, taken', T, O \ {r})
  <2>1. PICK c : c = r.c
    OBVIOUS
  <2>2. c \in Chunks /\ r = Whole(c) /\ taken' = taken \ {c}
    BY <1>2, <1>8, <1>9, <2>1
  <2> QED
    BY <1>7, <1>8, <2>2, LedgerLeave
<1>11. Queue(js) /\ HandOf(js) = {} /\ JobsZero(B, T, js) /\ NoStash(js)
  BY <1>1, EmptyFollow, FollowNoStash
<1>12. Stepped(A, arena', taken', jobs, owned, owned', T, touched', t, js, {r}, {})
  <2>1. /\ {r} \subseteq owned \cup HandOf(jobs[t])
        /\ owned' \cup HandOf(js) = ((owned \cup HandOf(jobs[t])) \ {r}) \cup {}
        /\ owned' \cap HandOf(js) = {} /\ {} \cap (O \ {r}) = {}
        /\ \A y \in owned' : y \in owned \ {r}
    BY <1>2, <1>4, <1>8, <1>11
  <2>2. (O \ {r}) \cup {} = O \ {r} /\ taken' \subseteq Chunks
    BY <1>2, <1>5
  <2>3. Ledger(B, taken', T, (O \ {r}) \cup {})
    BY <1>10, <2>2
  <2>4. Same(A, B, T, T, O \ {r}) /\ Book(owned')
    BY <1>2, <1>5, <1>7 DEF Same, Book
  <2> QED
    BY <1>2, <1>7, <1>11, <2>1, <2>2, <2>3, <2>4 DEF Stepped, O
<1>13. OnWalk(arena', taken', lock', (Out(jobs, owned) \ {r}) \cup {}, t, js)
  BY <1>11, NoWalk
<1>14. zeroed'
  BY <1>2, <1>4
<1> QED
  BY <1>3, <1>4, <1>12, <1>13, <1>14, LockedNext

-----------------------------------------------------------------------------
(* Purging without the lock, and the walk that comes before it.            *)

LEMMA StashedPagesIn ==
    ASSUME NEW q, RunsOK(q), NEW H, H = RunSet(q), NEW S, S = StashedPages(q)
    PROVE  PagesIn(H, S) /\ \A r \in H : r.i # 0
<1>1. ASSUME NEW k \in DOMAIN q
      PROVE  /\ q[k].i \in Pages /\ Plain(q[k]).c = q[k].c /\ Plain(q[k]).i = q[k].i
             /\ RunSpan(Plain(q[k])) = q[k].i .. q[k].i + q[k].n - 1
  BY RunType DEF Plain, Run, RunSpan, Span
<1>2. \A r \in H : r.i # 0
  BY <1>1 DEF RunSet, Pages
<1>3. ASSUME NEW c \in Chunks, NEW p \in Pages
      PROVE  <<c, p>> \in S <=> \E r \in H : r.c = c /\ p \in RunSpan(r)
  <2>1. <<c, p>> \in S <=> \E k \in DOMAIN q : q[k].c = c /\ p \in q[k].i .. q[k].i + q[k].n - 1
    BY DEF StashedPages, PagesOf
  <2>2. (\E r \in H : r.c = c /\ p \in RunSpan(r))
          <=> \E k \in DOMAIN q : Plain(q[k]).c = c /\ p \in RunSpan(Plain(q[k]))
    BY DEF RunSet
  <2> QED
    BY <1>1, <2>1, <2>2
<1> QED
  BY <1>2, <1>3 DEF PagesIn

LEMMA PurgeStashedInv ==
    ASSUME Inv, NEW t \in Threads, arena_chunk_purge_stashed(t)
    PROVE  Inv'
<1> DEFINE A == arena
           B == arena'
           T == touched
           U == touched'
           O == Out(jobs, owned)
           j == This(t)
           s == Tail(jobs[t])
           q == j.runs
           H == RunSet(q)
           S == StashedPages(q)
           u == Unstash(q)
           js == u \o s
<1>1. /\ jobs[t] # <<>> /\ j.do = "stashed" /\ jobs' = SetJobs(jobs, t, js)
      /\ owned' = owned /\ taken' = taken /\ lock' = lock /\ zeroed' = zeroed
      /\ \E ps : B = Reflagged(A, S, ps) /\ U = T \ ps
  BY DEF arena_chunk_purge_stashed, Job, This, SetJobs, Reflagged
<1>2. PICK ps : B = Reflagged(A, S, ps) /\ U = T \ ps
  BY <1>1
<1>3. Known(A, taken, jobs, owned, T, t) /\ zeroed /\ At(t, j, s)
  BY <1>1, JobKnown
<1>4. /\ IsArena(A) /\ Ledger(A, taken, T, O) /\ Book(O) /\ owned \subseteq O
      /\ taken \subseteq Chunks /\ Book(owned)
      /\ \A r \in owned : r.small => CleanRun(A, T, r)
  BY <1>3 DEF Known
<1>5. /\ JobOK(j) /\ Follow(s) /\ JobRuns(j) \cap HandOf(s) = {}
      /\ HandOf(jobs[t]) = JobRuns(j) \cup HandOf(s)
      /\ JobsZero(A, T, s)
      /\ JobRuns(j) \cup HandOf(s) \subseteq O /\ owned \cap (JobRuns(j) \cup HandOf(s)) = {}
  BY <1>3 DEF At
<1> HIDE DEF s, O, j
<1>6. RunsOK(q) /\ JobRuns(j) = H
  BY <1>1, <1>5, StashRuns DEF JobOK
<1>7. PagesIn(H, S) /\ \A r \in H : r.i # 0
  BY <1>6, StashedPagesIn
<1> HIDE DEF H, S, B, U
<1>8. H \subseteq O
  BY <1>5, <1>6
<1>9. /\ Reflags(A, B, S, ps) /\ Ledger(B, taken, U, O) /\ Quiet(A, B, O \ H)
      /\ \A r \in H : ZeroRun(B, U, r)
  BY <1>2, <1>4, <1>7, <1>8, LedgerFlags
<1>10. Same(A, B, T, U, O \ H)
  BY <1>2, <1>9 DEF Quiet, Same
<1>11. Follow(u) /\ HandOf(u) = H /\ JobsZero(B, U, u)
  BY <1>6, <1>9, UnstashJobs DEF H
<1>12. JobsZero(B, U, s)
  <2>1. HandOf(s) \subseteq O \ H
    BY <1>5, <1>6
  <2> QED
    BY <1>5, <1>10, <2>1, TailZero
<1> HIDE DEF u
<1>13. Queued(js, H \cup HandOf(s), B, U)
  <2>1. HandOf(u) \cap HandOf(s) = {} /\ H \cup HandOf(s) = HandOf(u) \cup HandOf(s)
    BY <1>5, <1>6, <1>11
  <2> QED
    BY <1>5, <1>11, <1>12, <2>1, ThenJobs
<1> HIDE DEF js
<1>14. IsArena(B) /\ B.spare = A.spare /\ B.avail = A.avail
  BY <1>9 DEF Reflags
<1>15. (O \ H) \cup H = O
  BY <1>8
<1>16. Stepped(A, B, taken', jobs, owned, owned', T, U, t, js, H, H)
  <2>1. /\ H \subseteq owned \cup HandOf(jobs[t])
        /\ owned' \cup HandOf(js) = ((owned \cup HandOf(jobs[t])) \ H) \cup H
        /\ owned' \cap HandOf(js) = {} /\ H \cap (O \ H) = {}
        /\ \A y \in owned' : y \in owned \ H
    BY <1>1, <1>5, <1>6, <1>13 DEF Queued
  <2>2. Ledger(B, taken', U, (O \ H) \cup H)
    BY <1>1, <1>9, <1>15
  <2> QED
    BY <1>1, <1>4, <1>10, <1>13, <1>14, <2>1, <2>2 DEF Stepped, Queued, O
<1>17. Walks(B, taken', lock', jobs', (O \ H) \cup H)
  <2>1. jobs = [x \in Threads |-> jobs[x]] /\ Walks(A, taken, lock, jobs, O)
    BY DEF Inv, Good, O
  <2>2. ASSUME NEW v \in Threads, NEW k \in DOMAIN jobs'[v], jobs'[v][k].do = "stash"
        PROVE  lock' = v /\ WalkAt(B, taken', O, jobs'[v][k])
    <3>1. v # t
      BY <1>1, <1>13, <2>1, <2>2 DEF SetJobs, NoStash, Queued
    <3>2. jobs'[v] = jobs[v]
      BY <1>1, <2>1, <3>1 DEF SetJobs
    <3>3. lock = v /\ WalkAt(A, taken, O, jobs[v][k])
      BY <2>1, <2>2, <3>2 DEF Walks
    <3> QED
      BY <1>1, <1>14, <3>2, <3>3 DEF WalkAt, Avail
  <2> QED
    BY <1>15, <2>2 DEF Walks
<1>18. Good(B, taken', lock', jobs', owned', U)
  BY <1>1, <1>16, <1>17, StepGood DEF Inv, O
<1> QED
  BY <1>1, <1>3, <1>18 DEF Inv, B, U

\* A run, free or allocated, begins at i; the next one, if any, n pages further on.
HeadAt(A, O, c, i) == i \in Avail(A, c) \/ \E r \in RunsIn(O, c) : r.i = i
NextHead(A, O, c, i, n) ==
    /\ i \in Pages /\ n \in Nat \ {0} /\ i + n - 1 <= NPages
    /\ i + n <= NPages => HeadAt(A, O, c, i + n)

LEMMA WalkNext ==
    ASSUME NEW A, IsArena(A), NEW tk, NEW T, NEW O, Ledger(A, tk, T, O), Book(O),
           NEW c \in Chunks, c \in tk, A.spare # c, Whole(c) \notin O,
           NEW i, HeadAt(A, O, c, i), NEW n, n = Stride(A, c, i)
    PROVE  NextHead(A, O, c, i, n)
<1> DEFINE m == A.map[c]
           V == TouchedIn(T, c)
           F == Avail(A, c)
           R == RunsIn(O, c)
<1>1. Layout(m, V, F, R, {})
  <2>1. ChunkOK(A, c, V, c \in tk, R)
    BY DEF Ledger
  <2>2. R # {Whole(c)}
    BY DEF RunsIn
  <2> QED
    BY <2>1, <2>2 DEF ChunkOK, View
<1> HIDE DEF m, V, F, R
<1>2. ASSUME NEW X, NEW G, NEW Q, Layout(m, V, G, Q, X), G \subseteq F, Q \subseteq R,
             X = Span(i, n), i \in Pages, n \in Nat \ {0}, i + n - 1 <= NPages
      PROVE  NextHead(A, O, c, i, n)
  <2> SUFFICES ASSUME i + n <= NPages PROVE i + n \in F \/ \E r \in R : r.i = i + n
    BY <1>2 DEF NextHead, HeadAt, F, R
  <2>1. PICK k : k = i + n
    OBVIOUS
  <2>2. k \in Pages /\ k \notin X /\ k - 1 \in X
    <3>1. i \in Nat /\ i >= 1 /\ n \in Nat /\ n >= 1 /\ NPages \in Nat
      BY <1>2, ArenaRunsAssumption DEF Pages
    <3>2. k \in 1 .. NPages /\ k \notin i .. i + n - 1 /\ k - 1 \in i .. i + n - 1
      BY <2>1, <3>1
    <3> QED
      BY <1>2, <3>2 DEF Span, Pages
  <2>3. k \in G \/ \E r \in Q : r.i = k
    BY <1>2, <2>2, HeadAfter
  <2> QED
    BY <1>2, <2>1, <2>3
<1>3. CASE i \in F
  <2>1. FreeAt(m, V, i)
    BY <1>1, <1>3 DEF Layout
  <2>2. n = m[i].size /\ i \in Pages /\ n \in Nat \ {0} /\ i + n - 1 <= NPages
    BY <2>1 DEF FreeAt, Stride, m
  <2>3. PICK X, G : X = {} \cup FreeSpan(m, i) /\ G = F \ {i}
    OBVIOUS
  <2>4. Layout(m, V, G, R, X)
    BY <1>1, <1>3, <2>3, LayoutRemove
  <2>5. X = Span(i, n) /\ G \subseteq F
    BY <2>2, <2>3 DEF FreeSpan
  <2> QED
    BY <1>2, <2>2, <2>4, <2>5
<1>4. CASE \E r \in R : r.i = i
  <2>1. PICK r \in R : r.i = i
    BY <1>4
  <2>2. RunAt(m, r) /\ r.small \in BOOLEAN
    BY <1>1, <2>1 DEF Layout, Book, R, RunsIn
  <2>3. RunPages(A, c, r.i) = r.n
    BY <2>2, RunPagesAre DEF m
  <2>4. n = r.n /\ i \in Pages /\ n \in Nat \ {0} /\ i + n - 1 <= NPages
    BY <2>1, <2>2, <2>3 DEF RunAt, Stride, m
  <2>5. PICK X, Q : X = {} \cup RunSpan(r) /\ Q = R \ {r}
    OBVIOUS
  <2>6. Layout(m, V, F, Q, X)
    BY <1>1, <2>1, <2>5, LayoutTake
  <2>7. X = Span(i, n) /\ Q \subseteq R
    BY <2>1, <2>4, <2>5 DEF RunSpan
  <2> QED
    BY <1>2, <2>4, <2>6, <2>7
<1> QED
  BY <1>3, <1>4 DEF HeadAt, F, R

\* What one step of the walk does: the run at i is passed by, or taken.
Walked(A, B, tk, T, O, c, i, n, q, runs, N) ==
    /\ IsArena(B) /\ B.spare = A.spare /\ Ledger(B, tk, T, O \cup N) /\ N \cap O = {}
    /\ Quiet(A, B, O) /\ RunsOK(runs) /\ RunSet(runs) = RunSet(q) \cup N
    /\ NextHead(B, O \cup N, c, i, n) /\ Whole(c) \notin O \cup N

LEMMA WalkPasses ==
    ASSUME NEW A, IsArena(A), NEW tk, NEW T, NEW O, Ledger(A, tk, T, O), Book(O),
           NEW c \in Chunks, c \in tk, A.spare # c, Whole(c) \notin O,
           NEW i, HeadAt(A, O, c, i), NEW n, n = Stride(A, c, i), NEW q, RunsOK(q), RunSet(q) \subseteq O
    PROVE  Walked(A, A, tk, T, O, c, i, n, q, q, {})
<1>1. NextHead(A, O, c, i, n)
  BY WalkNext
<1>2. O \cup {} = O /\ {} \cap O = {} /\ RunSet(q) \cup {} = RunSet(q)
  OBVIOUS
<1>3. Quiet(A, A, O)
  BY DEF Quiet
<1> QED
  BY <1>1, <1>2, <1>3 DEF Walked

LEMMA WalkTakes ==
    ASSUME NEW A, IsArena(A), NEW tk, NEW T, NEW O, Ledger(A, tk, T, O), Book(O),
           NEW c \in Chunks, c \in tk, A.spare # c, Whole(c) \notin O,
           NEW i, HeadAt(A, O, c, i), NEW n, n = Stride(A, c, i), ~A.map[c][i].alloc,
           NEW q, RunsOK(q), RunSet(q) \subseteq O,
           NEW B, B = arena_run_split_large(A, c, i, n),
           NEW x, x = [c |-> c, i |-> i, n |-> n], NEW runs, runs = Append(q, x)
    PROVE  Walked(A, B, tk, T, O, c, i, n, q, runs, {Plain(x)})
<1>1. i \in Pages /\ n \in Nat \ {0} /\ i + n - 1 <= NPages
  <2>1. NextHead(A, O, c, i, n)
    BY WalkNext
  <2> QED
    BY <2>1 DEF NextHead
<1>2. i \in Avail(A, c)
  <2>1. ASSUME NEW r \in RunsIn(O, c), r.i = i PROVE FALSE
    <3>1. r.i # 0 /\ r.c = c /\ r \in O
      BY <1>1, <2>1 DEF Pages, RunsIn
    <3>2. RunAt(A.map[r.c], r)
      BY <3>1, RunChunk
    <3> QED
      BY <2>1, <3>1, <3>2 DEF RunAt
  <2> QED
    BY <2>1 DEF HeadAt
<1>3. n <= A.map[c][i].size
  BY <1>1 DEF Stride
<1>4. PICK r : r = Run(c, i, n, FALSE)
  OBVIOUS
<1>5. NewRun(A, B, tk, T, O, r)
  <2>1. PICK small : small = FALSE
    OBVIOUS
  <2>2. small \in BOOLEAN /\ ~small
    BY <2>1
  <2>3. NewRun(A, B, tk, T, O, Run(c, i, n, small))
    BY <1>1, <1>2, <1>3, <2>2, LedgerSplit
  <2> QED
    BY <1>4, <2>1, <2>3
<1>6. /\ IsArena(B) /\ B.spare = A.spare /\ Ledger(B, tk, T, O \cup {r}) /\ r \notin O
      /\ Quiet(A, B, O)
  BY <1>5 DEF NewRun
<1>7. /\ x.c = c /\ x.i = i /\ x.n = n /\ x = [c |-> x.c, i |-> x.i, n |-> x.n] /\ Plain(x) = r
      /\ r.c = c /\ r.i = i /\ r.n = n /\ r.small = FALSE /\ r = Run(r.c, r.i, r.n, r.small)
  BY <1>4 DEF Plain, Run
<1>8. RunsOK(runs) /\ RunSet(runs) = RunSet(q) \cup {Plain(x)}
  <2>1. Plain(x) \notin RunSet(q)
    BY <1>6, <1>7
  <2>2. PICK y : y = x
    OBVIOUS
  <2>3. /\ y = [c |-> y.c, i |-> y.i, n |-> y.n] /\ y.c \in Chunks /\ y.i \in Pages /\ y.n \in Nat
        /\ Plain(y) \notin RunSet(q) /\ runs = Append(q, y)
    BY <1>1, <1>7, <2>1, <2>2
  <2>4. RunsOK(runs) /\ RunSet(runs) = RunSet(q) \cup {Plain(y)}
    BY <2>3, RunsAppend
  <2> QED
    BY <2>2, <2>4
<1>9. PICK P : P = O \cup {r}
  OBVIOUS
<1>10. Book(P) /\ Whole(c) \notin P
  <2>1. Whole(c).i = 0 /\ r.i # 0
    BY <1>1, <1>7 DEF Whole, Run, Pages
  <2>2. r.c \in Chunks /\ r.small \in BOOLEAN
    BY <1>7
  <2> QED
    BY <1>7, <1>9, <2>1, <2>2 DEF Book
<1>11. HeadAt(B, P, c, i) /\ n = Stride(B, c, i)
  <2>1. r \in P /\ r.c \in Chunks /\ r.i # 0
    BY <1>1, <1>7, <1>9 DEF Pages
  <2>2. RunAt(B.map[r.c], r) /\ r \in RunsIn(P, r.c)
    BY <1>6, <1>9, <2>1, RunChunk
  <2>3. PICK a, b, d : a = r.c /\ b = r.i /\ d = r.n
    OBVIOUS
  <2>4. r.small \in BOOLEAN
    BY <1>7
  <2>5. RunPages(B, r.c, r.i) = r.n
    BY <2>2, <2>4, RunPagesAre
  <2>6. B.map[a][b].alloc /\ RunPages(B, a, b) = d
    BY <2>2, <2>3, <2>5 DEF RunAt
  <2>7. Stride(B, a, b) = d
    BY <2>6 DEF Stride
  <2>8. a = c /\ b = i /\ d = n
    BY <1>7, <2>3
  <2> QED
    BY <1>7, <2>2, <2>7, <2>8 DEF HeadAt
<1>12. NextHead(B, P, c, i, n)
  <2>1. Ledger(B, tk, T, P) /\ B.spare # c
    BY <1>6, <1>9
  <2>2. PICK C, l : C = B /\ l = n
    OBVIOUS
  <2>3. /\ IsArena(C) /\ Ledger(C, tk, T, P) /\ C.spare # c /\ HeadAt(C, P, c, i)
        /\ l = Stride(C, c, i)
    <3>1. l = Stride(C, c, i)
      BY <1>11, <2>2, Zenon
    <3>2. IsArena(C) /\ C.spare # c
      BY <1>6, <2>1, <2>2, Zenon
    <3>3. Ledger(C, tk, T, P) /\ HeadAt(C, P, c, i)
      BY <1>11, <2>1, <2>2, Zenon
    <3> QED
      BY <3>1, <3>2, <3>3
  <2>4. NextHead(C, P, c, i, l)
    BY <1>10, <2>3, WalkNext
  <2> QED
    BY <2>2, <2>4
<1> QED
  BY <1>6, <1>7, <1>8, <1>9, <1>10, <1>12 DEF Walked

LEMMA TwoJobs ==
    ASSUME NEW y, NEW z, NEW p, p = <<y>>, NEW b, b = <<z>>
    PROVE  p \o b = <<y, z>>
<1> DEFINE S == {y, z}
<1>1. PICK w, v : w = p \o b /\ v = <<y, z>>
  OBVIOUS
<1>2. p \in Seq(S) /\ b \in Seq(S) /\ Len(p) = 1 /\ Len(b) = 1 /\ p[1] = y /\ b[1] = z
  OBVIOUS
<1>3. v \in Seq(S) /\ Len(v) = 2 /\ v[1] = y /\ v[2] = z
  BY <1>1
<1> HIDE DEF S
<1>4. w \in Seq(S) /\ Len(w) = 2 /\ w[1] = y /\ w[2] = z
  BY <1>1, <1>2, ConcatProperties
<1>5. Len(w) = Len(v) /\ \A k \in 1 .. Len(w) : w[k] = v[k]
  BY <1>3, <1>4
<1>6. w = v
  BY <1>3, <1>4, <1>5, SeqEqual
<1> QED
  BY <1>1, <1>6

\* The walk goes on at v, with the runs q.
IsWalk(j) ==
    j = [do |-> "stash", c |-> j.c, i |-> j.i, runs |-> j.runs, all |-> j.all,
         left |-> j.left, dirty |-> j.dirty, again |-> j.again]
MoveTo(j, v, q) == [j EXCEPT !.i = v, !.runs = q]
Moved(y, j, v, q) == IsWalk(y) /\ y.do = "stash" /\ y.c = j.c /\ y.i = v /\ y.runs = q

LEMMA WalkJob ==
    ASSUME NEW j, IsWalk(j), NEW v, NEW q, NEW y, y = MoveTo(j, v, q)
    PROVE  Moved(y, j, v, q)
<1>1. PICK a, b, d, e, f, g, k :
          /\ j = [do |-> "stash", c |-> a, i |-> b, runs |-> d, all |-> e,
                  left |-> f, dirty |-> g, again |-> k]
          /\ a = j.c
  BY DEF IsWalk
<1>2. y = [do |-> "stash", c |-> a, i |-> v, runs |-> q, all |-> e,
           left |-> f, dirty |-> g, again |-> k]
  BY <1>1 DEF MoveTo
<1>3. IsWalk(y) /\ y.do = "stash" /\ y.c = a /\ y.i = v /\ y.runs = q
  BY <1>2 DEF IsWalk
<1> QED
  BY <1>1, <1>3 DEF Moved

LEMMA StashInv ==
    ASSUME Inv, NEW t \in Threads, arena_chunk_stash_dirty(t)
    PROVE  Inv'
<1> DEFINE A == arena
           T == touched
           O == Out(jobs, owned)
           j == This(t)
           s == Tail(jobs[t])
           c == j.c
           i == j.i
           q == j.runs
           n == Stride(A, c, i)
           stash == Purgeable(A, c, i, j.all)
           x == [c |-> c, i |-> i, n |-> n]
           B == IF stash THEN arena_run_split_large(A, c, i, n) ELSE A
           runs == IF stash THEN Append(q, x) ELSE q
           js == WalkOn(j, i + n, runs) \o s
<1>1. /\ Locked(t) /\ jobs[t] # <<>> /\ j.do = "stash"
      /\ arena' = B /\ jobs' = SetJobs(jobs, t, js)
      /\ lock' = (IF js = <<>> \/ Head(js).do \in Unlocked THEN None ELSE t)
      /\ owned' = owned /\ taken' = taken /\ touched' = touched /\ zeroed' = zeroed
  <2>1. /\ Job(t, "stash") /\ Locked(t) /\ Continue(t, B, js)
        /\ UNCHANGED <<taken, owned, touched, zeroed, failed>>
    BY DEF arena_chunk_stash_dirty
  <2>2. jobs[t] # <<>> /\ j.do = "stash"
    BY <2>1 DEF Job, This
  <2> HIDE DEF s, j, B, js
  <2> QED
    BY <2>1, <2>2 DEF Continue, SetJobs
<1>2. Known(A, taken, jobs, owned, T, t) /\ zeroed /\ At(t, j, s)
  BY <1>1, JobKnown
<1>3. /\ IsArena(A) /\ Ledger(A, taken, T, O) /\ Book(O) /\ owned \subseteq O
      /\ taken \subseteq Chunks /\ Book(owned)
  BY <1>2 DEF Known
<1>4. /\ JobOK(j) /\ Follow(s) /\ JobRuns(j) \cap HandOf(s) = {}
      /\ HandOf(jobs[t]) = JobRuns(j) \cup HandOf(s)
      /\ JobsZero(A, T, s)
      /\ JobRuns(j) \cup HandOf(s) \subseteq O /\ owned \cap (JobRuns(j) \cup HandOf(s)) = {}
      /\ j = jobs[t][1] /\ 1 \in DOMAIN jobs[t]
  BY <1>2 DEF At
<1> HIDE DEF s, O, j
<1>5. c \in taken /\ A.spare # c /\ Whole(c) \notin O /\ HeadAt(A, O, c, i)
  <2>1. Walks(A, taken, lock, jobs, O)
    BY DEF Inv, Good, O
  <2>2. WalkAt(A, taken, O, j)
    BY <1>1, <1>4, <2>1 DEF Walks
  <2> QED
    BY <2>2 DEF WalkAt, HeadAt
<1>6. /\ c \in Chunks /\ RunsOK(q) /\ JobRuns(j) = RunSet(q) /\ RunSet(q) \subseteq O
      /\ j = [do |-> "stash", c |-> j.c, i |-> j.i, runs |-> j.runs, all |-> j.all,
              left |-> j.left, dirty |-> j.dirty, again |-> j.again]
  <2>1. j.do = "stash" /\ JobOK(j)
    BY <1>1, <1>4
  <2>2. JobRuns(j) = RunSet(j.runs)
    BY <2>1, StashRuns
  <2>3. RunSet(j.runs) \subseteq O
    BY <1>4, <2>2
  <2> QED
    BY <2>1, <2>2, <2>3, StashJob, SMTT(40)
<1>7. PICK N : Walked(A, B, taken, T, O, c, i, n, q, runs, N)
  <2>1. CASE stash
    <3>1. PICK C, w, y, l : C = B /\ w = runs /\ y = x /\ l = n
      OBVIOUS
    <3>2. ~A.map[c][i].alloc
      BY <2>1 DEF Purgeable
    <3>3. /\ l = Stride(A, c, i) /\ C = arena_run_split_large(A, c, i, l)
          /\ y = [c |-> c, i |-> i, n |-> l] /\ w = Append(q, y)
      BY <2>1, <3>1
    <3> HIDE DEF n, stash, B, runs, x, c, i, q
    <3>4. Walked(A, C, taken, T, O, c, i, l, q, w, {Plain(y)})
      BY <1>3, <1>5, <1>6, <3>2, <3>3, WalkTakes
    <3> QED
      BY <3>1, <3>4
  <2>2. CASE ~stash
    <3>1. PICK l : l = n
      OBVIOUS
    <3>2. B = A /\ runs = q /\ l = Stride(A, c, i)
      BY <2>2, <3>1
    <3> HIDE DEF n, stash, B, runs, x, c, i, q
    <3>3. Walked(A, A, taken, T, O, c, i, l, q, q, {})
      BY <1>3, <1>5, <1>6, <3>2, WalkPasses
    <3> QED
      BY <3>1, <3>2, <3>3
  <2> QED
    BY <2>1, <2>2
<1> HIDE DEF n, stash, x, B, runs
<1>8. /\ IsArena(B) /\ B.spare = A.spare /\ Ledger(B, taken, T, O \cup N) /\ N \cap O = {}
      /\ Quiet(A, B, O) /\ RunsOK(runs) /\ RunSet(runs) = RunSet(q) \cup N
      /\ NextHead(B, O \cup N, c, i, n) /\ Whole(c) \notin O \cup N
  BY <1>7 DEF Walked
<1>9. Same(A, B, T, T, O)
  BY <1>8, QuietSame
<1>10. JobsZero(B, T, s)
  <2>1. HandOf(s) \subseteq O
    BY <1>4
  <2> QED
    BY <1>4, <1>9, <2>1, TailZero
<1>11. RunSet(runs) \cap HandOf(s) = {}
  BY <1>4, <1>6, <1>8
<1>12. /\ i \in Pages /\ n \in Nat \ {0} /\ i + n - 1 <= NPages
       /\ i + n <= NPages => HeadAt(B, O \cup N, c, i + n)
  BY <1>8 DEF NextHead
<1>13. /\ Queue(js) /\ HandOf(js) = RunSet(runs) \cup HandOf(s) /\ JobsZero(B, T, js)
       /\ OnWalk(B, taken, lock', O \cup N, t, js)
  <2>1. CASE i + n <= NPages
    <3> DEFINE y == [j EXCEPT !.i = i + n, !.runs = runs]
    <3>1. /\ y.do = "stash" /\ y.c = c /\ y.i = i + n /\ y.runs = runs
          /\ y = [do |-> "stash", c |-> y.c, i |-> y.i, runs |-> y.runs, all |-> y.all,
                  left |-> y.left, dirty |-> y.dirty, again |-> y.again]
      <4>1. IsWalk(j)
        BY <1>6 DEF IsWalk
      <4>2. PICK v, w : v = i + n /\ w = y
        OBVIOUS
      <4>3. w = MoveTo(j, v, runs)
        BY <4>2 DEF MoveTo
      <4> HIDE DEF y
      <4>4. Moved(w, j, v, runs)
        BY <4>1, <4>3, WalkJob
      <4>5. Moved(y, j, i + n, runs)
        BY <4>2, <4>4
      <4> QED
        BY <4>5 DEF Moved, IsWalk
    <3>2. js = <<y>> \o s
      BY <2>1 DEF WalkOn
    <3> HIDE DEF y, js
    <3>3. i + n \in Pages
      BY <1>12, <2>1, ArenaRunsAssumption DEF Pages
    <3>4. JobOK(y)
      BY <1>6, <1>8, <3>1, <3>3 DEF JobOK
    <3>5. JobRuns(y) = RunSet(runs) /\ JobZero(B, T, y)
      BY <3>1, StashRuns DEF JobZero
    <3>6. StashFirst(js, y)
      BY <1>4, <1>11, <3>1, <3>2, <3>4, <3>5, StashQueue
    <3>7. /\ Queue(js) /\ js # <<>> /\ Head(js) = y /\ js[1] = y
          /\ \A k \in DOMAIN js : k # 1 => js[k].do # "stash"
      BY <3>6 DEF StashFirst
    <3>8. lock' = t
      BY <1>1, <3>1, <3>7 DEF Unlocked
    <3>9. WalkAt(B, taken, O \cup N, y)
      BY <1>5, <1>8, <1>12, <2>1, <3>1 DEF WalkAt, HeadAt
    <3>10. OnWalk(B, taken, lock', O \cup N, t, js)
      BY <3>7, <3>8, <3>9 DEF OnWalk
    <3>11. HandOf(js) = RunSet(runs) \cup HandOf(s) /\ JobsZero(B, T, js)
      <4>1. PICK p : p = <<y>>
        OBVIOUS
      <4>2. IsSeq(p) /\ Once(p) /\ HandOf(p) = JobRuns(y)
        BY <4>1, OneJob
      <4>3. JobsZero(B, T, p)
        BY <3>5, <4>1, OneJob
      <4>4. HandOf(p) \cap HandOf(s) = {} /\ IsSeq(s) /\ Once(s) /\ js = p \o s
        BY <1>4, <1>11, <3>2, <3>5, <4>1, <4>2 DEF Follow
      <4>5. HandOf(js) = HandOf(p) \cup HandOf(s)
        BY <4>2, <4>4, ConcatJobs
      <4>6. JobsZero(B, T, js)
        BY <1>10, <4>2, <4>3, <4>4, ConcatJobs
      <4> QED
        BY <3>5, <4>2, <4>5, <4>6
    <3> QED
      BY <3>7, <3>10, <3>11
  <2>2. CASE ~(i + n <= NPages)
    <3> DEFINE y == [do |-> "stashed", runs |-> runs]
               z == [do |-> "purge", left |-> j.left, back |-> j.dirty - RunSum(runs),
                     all |-> j.again]
    <3>1. y.do = "stashed" /\ y.runs = runs /\ z.do = "purge"
      OBVIOUS
    <3>2. WalkOn(j, i + n, runs) = <<y, z>>
      BY <2>2 DEF WalkOn
    <3> HIDE DEF y, z
    <3>3. JobOK(y) /\ JobRuns(y) = RunSet(runs) /\ JobZero(B, T, y)
      BY <1>8, <3>1, StashRuns DEF JobOK, JobZero
    <3>4. PICK p, b : p = <<y>> /\ b = <<z>>
      OBVIOUS
    <3>5. Follow(p) /\ HandOf(p) = RunSet(runs) /\ JobsZero(B, T, p)
      BY <3>1, <3>3, <3>4, OneFollow, OneJob
    <3>6. Follow(b) /\ HandOf(b) = {} /\ JobsZero(B, T, b)
      BY <3>1, <3>4, BareJobs DEF Bare
    <3>7. PICK w : w = p \o b
      OBVIOUS
    <3>8. WalkOn(j, i + n, runs) = w
      BY <3>2, <3>4, <3>7, TwoJobs
    <3>9. HandOf(p) \cap HandOf(b) = {} /\ RunSet(runs) = HandOf(p) \cup HandOf(b)
      BY <3>5, <3>6
    <3>10. Queued(w, RunSet(runs), B, T)
      BY <3>5, <3>6, <3>7, <3>9, ThenJobs
    <3>11. Follow(w) /\ HandOf(w) = RunSet(runs) /\ JobsZero(B, T, w) /\ js = w \o s
      BY <3>8, <3>10 DEF Queued
    <3> HIDE DEF js
    <3>12. PICK H : H = RunSet(runs) \cup HandOf(s)
      OBVIOUS
    <3>13. HandOf(w) \cap HandOf(s) = {} /\ H = HandOf(w) \cup HandOf(s)
      BY <1>11, <3>11, <3>12
    <3>14. Queued(js, H, B, T)
      BY <1>4, <1>10, <3>11, <3>13, ThenJobs
    <3> QED
      BY <3>12, <3>14, NoWalk DEF Queued
  <2> QED
    BY <2>1, <2>2
<1> HIDE DEF js
<1>14. (O \ {}) \cup N = O \cup N /\ O \ {} = O
  OBVIOUS
<1>15. Stepped(A, arena', taken', jobs, owned, owned', T, touched', t, js, {}, N)
  <2>1. /\ {} \subseteq owned \cup HandOf(jobs[t])
        /\ owned' \cup HandOf(js) = ((owned \cup HandOf(jobs[t])) \ {}) \cup N
        /\ owned' \cap HandOf(js) = {} /\ N \cap (O \ {}) = {}
        /\ \A y \in owned' : y \in owned \ {}
    BY <1>1, <1>3, <1>4, <1>6, <1>8, <1>13
  <2>2. Ledger(B, taken, T, (O \ {}) \cup N) /\ Same(A, B, T, T, O \ {})
    BY <1>8, <1>9, <1>14
  <2> QED
    BY <1>1, <1>3, <1>8, <1>13, <2>1, <2>2 DEF Stepped, O
<1>16. OnWalk(arena', taken', lock', (Out(jobs, owned) \ {}) \cup N, t, js)
  BY <1>1, <1>13, <1>14 DEF O
<1>17. zeroed'
  BY <1>1, <1>2
<1> QED
  BY <1>1, <1>15, <1>16, <1>17, LockedNext

-----------------------------------------------------------------------------
(* Steps that end in jobs without a walk.                                  *)

\* Thread t goes on with the jobs js, which hold the runs H.
RunStep(B, U, tl, W, js, H, t, Gone, New) ==
    /\ IsArena(B) /\ tl \subseteq Chunks
    /\ Ledger(B, tl, U, (Out(jobs, owned) \ Gone) \cup New)
    /\ Same(arena, B, touched, U, Out(jobs, owned) \ Gone)
    /\ New \cap (Out(jobs, owned) \ Gone) = {} /\ Gone \subseteq owned \cup HandOf(jobs[t])
    /\ Queued(js, H, B, U)
    /\ W \cup H = ((owned \cup HandOf(jobs[t])) \ Gone) \cup New
    /\ W \cap H = {} /\ Book(W)
    /\ \A y \in W : y.small => y \in owned \ Gone \/ CleanRun(B, U, y)

LEMMA RunNext ==
    ASSUME Inv, NEW t \in Threads, Locked(t), NEW js, NEW H, NEW Gone, NEW New,
           RunStep(arena', touched', taken', owned', js, H, t, Gone, New),
           jobs' = SetJobs(jobs, t, js), zeroed'
    PROVE  Inv'
<1>1. Stepped(arena, arena', taken', jobs, owned, owned', touched, touched', t, js, Gone, New)
  BY DEF RunStep, Stepped, Queued
<1>2. OnWalk(arena', taken', lock', (Out(jobs, owned) \ Gone) \cup New, t, js)
  BY NoWalk DEF RunStep, Queued
<1> QED
  BY <1>1, <1>2, LockedNext

LEMMA BareThen ==
    ASSUME NEW q, Bare(q), NEW s, Follow(s), NEW B, NEW U, JobsZero(B, U, s),
           NEW js, js = q \o s, NEW H, H = HandOf(s)
    PROVE  Queued(js, H, B, U)
<1>1. Follow(q) /\ HandOf(q) \cap HandOf(s) = {} /\ H = HandOf(q) \cup HandOf(s) /\ JobsZero(B, U, q)
  BY DEF Bare
<1> QED
  BY <1>1, ThenJobs

LEMMA FollowQueued ==
    ASSUME NEW s, Follow(s), NEW B, NEW U, JobsZero(B, U, s), NEW H, H = HandOf(s)
    PROVE  Queued(s, H, B, U)
  BY FollowNoStash DEF Queued

\* Two allocated runs of a chunk share no page.
LEMMA RunsApart ==
    ASSUME NEW A, NEW tk, NEW T, NEW O, Ledger(A, tk, T, O), NEW r \in O, NEW s \in O, r # s,
           r.c \in Chunks, s.c = r.c, r.i # 0, NEW k \in RunSpan(r)
    PROVE  k \notin RunSpan(s)
<1>1. CutUp(A, r.c, tk, T, O) /\ r \in RunsIn(O, r.c)
  BY RunChunk
<1>2. s \in RunsIn(O, r.c)
  BY DEF RunsIn
<1>3. Layout(A.map[r.c], TouchedIn(T, r.c), Avail(A, r.c), RunsIn(O, r.c), {})
  BY <1>1 DEF CutUp, View
<1> QED
  BY <1>1, <1>2, <1>3 DEF Layout

\* Some pages of the run r are written to.
Wrote(A, tk, T, U, O, r) == Ledger(A, tk, U, O) /\ Same(A, A, T, U, O \ {r})

OnlyIn(T, U, r) == \A c, k : <<c, k>> \in U => <<c, k>> \in T \/ (c = r.c /\ k \in RunSpan(r))

LEMMA WriteSome ==
    ASSUME NEW A, NEW tk, NEW T, NEW O, Ledger(A, tk, T, O), NEW r \in O, r.c \in Chunks, r.i # 0,
           NEW U, OnlyIn(T, U, r)
    PROVE  Wrote(A, tk, T, U, O, r)
<1>1. \A c \in Chunks, k \in Pages :
          <<c, k>> \in U => <<c, k>> \in T \/ \E s \in RunsIn(O, c) : k \in RunSpan(s)
  BY DEF RunsIn, OnlyIn
<1>2. Ledger(A, tk, U, O)
  BY <1>1, LedgerTouch
<1>3. ASSUME NEW s \in O \ {r}, NEW k \in RunSpan(s), <<s.c, k>> \in U
      PROVE  <<s.c, k>> \in T
  <2> SUFFICES ASSUME s.c = r.c, k \in RunSpan(r) PROVE FALSE
    BY <1>3 DEF OnlyIn
  <2> QED
    BY <1>3, RunsApart
<1> QED
  BY <1>2, <1>3 DEF Wrote, Same

LEMMA WriteRun ==
    ASSUME NEW A, NEW tk, NEW T, NEW O, Ledger(A, tk, T, O), NEW r \in O, r.c \in Chunks, r.i # 0,
           NEW n, n \in Nat, r.n \in Nat, n <= r.n, r.i \in Nat,
           NEW U, U = T \cup PagesOf(r.c, r.i, n)
    PROVE  Wrote(A, tk, T, U, O, r)
<1>1. \A k \in r.i .. r.i + n - 1 : k \in RunSpan(r)
  BY DEF RunSpan, Span
<1>2. OnlyIn(T, U, r)
  BY <1>1 DEF PagesOf, OnlyIn
<1> QED
  BY <1>2, WriteSome

-----------------------------------------------------------------------------
(* arena_palloc after the leading pages.                                   *)

LEMMA TrimNothing ==
    ASSUME NEW A, IsArena(A), NEW tk, NEW T, NEW O, Ledger(A, tk, T, O), NEW r \in O,
           NEW g, g.a = A, g.then = <<>>
    PROVE  Trimmed(A, g, tk, T, O, r, r)
<1>1. (O \ {r}) \cup {r} = O
  OBVIOUS
<1>2. Quiet(A, A, O \ {r})
  BY DEF Quiet
<1> QED
  BY <1>1, <1>2, EmptyFollow DEF Trimmed

LEMMA PallocTailInv ==
    ASSUME Inv, NEW t \in Threads, arena_palloc_tail(t)
    PROVE  Inv'
<1> DEFINE A == arena
           T == touched
           O == Out(jobs, owned)
           j == This(t)
           s == Tail(jobs[t])
           g == IF j.trail = 0 THEN [a |-> arena, then |-> <<>>]
                ELSE arena_run_trim_tail(arena, j.c, j.i, j.n + j.trail, j.n, FALSE)
           e == [do |-> "init", c |-> j.c, i |-> j.i, n |-> j.n, zero |-> j.zero]
           f == <<e>> \o s
           js == g.then \o f
           r == Run(j.c, j.i, j.n + j.trail, FALSE)
           rest == Run(j.c, j.i, j.n, FALSE)
<1>1. /\ Locked(t) /\ jobs[t] # <<>> /\ j.do = "trim"
      /\ arena' = g.a /\ jobs' = SetJobs(jobs, t, js)
      /\ owned' = owned /\ taken' = taken /\ touched' = touched /\ zeroed' = zeroed
  <2>1. /\ Job(t, "trim") /\ Locked(t) /\ GoOn(t, g, f)
        /\ UNCHANGED <<taken, owned, touched, zeroed, failed>>
    BY DEF arena_palloc_tail
  <2>2. jobs[t] # <<>> /\ j.do = "trim"
    BY <2>1 DEF Job, This
  <2> HIDE DEF f, j, g
  <2> QED
    BY <2>1, <2>2 DEF GoOn, Continue, SetJobs
<1>2. Known(A, taken, jobs, owned, T, t) /\ zeroed /\ At(t, j, s)
  BY <1>1, JobKnown
<1>3. /\ IsArena(A) /\ Ledger(A, taken, T, O) /\ Book(O) /\ owned \subseteq O
      /\ taken \subseteq Chunks /\ Book(owned)
  BY <1>2 DEF Known
<1>4. /\ JobOK(j) /\ Follow(s) /\ JobRuns(j) \cap HandOf(s) = {}
      /\ HandOf(jobs[t]) = JobRuns(j) \cup HandOf(s)
      /\ JobZero(A, T, j) /\ JobsZero(A, T, s)
      /\ JobRuns(j) \cup HandOf(s) \subseteq O /\ owned \cap (JobRuns(j) \cup HandOf(s)) = {}
  BY <1>2 DEF At
<1> HIDE DEF s, O, j
<1>5. /\ JobRuns(j) = {r} /\ j.c \in Chunks /\ j.i \in Pages /\ j.n \in Nat \ {0}
      /\ j.trail \in Nat /\ j.zero \in BOOLEAN
  BY <1>1, <1>4 DEF JobRuns, JobOK
<1>6. CleanRun(A, T, r) /\ r \in O
  BY <1>1, <1>4, <1>5 DEF JobZero
<1>7. /\ r.c = j.c /\ r.i = j.i /\ r.n = j.n + j.trail /\ r.small = FALSE /\ r.i # 0
      /\ rest.c = j.c /\ rest.i = j.i /\ rest.n = j.n
  BY <1>5 DEF Run, Pages
<1> HIDE DEF r
<1>8. Trimmed(A, g, taken, T, O, r, rest)
  <2>1. CASE j.trail = 0
    <3>1. rest = r
      <4>1. PICK n, l : n = j.n /\ l = j.n + j.trail
        OBVIOUS
      <4>2. n = l
        BY <1>5, <2>1, <4>1
      <4>3. rest = Run(j.c, j.i, n, FALSE) /\ r = Run(j.c, j.i, l, FALSE)
        BY <4>1, Zenon DEF r
      <4> QED
        BY <4>2, <4>3
    <3>2. PICK h : h = g
      OBVIOUS
    <3>3. h.a = A /\ h.then = <<>>
      BY <2>1, <3>2
    <3> HIDE DEF g, rest
    <3>4. Trimmed(A, h, taken, T, O, r, r)
      BY <1>3, <1>6, <3>3, TrimNothing
    <3> QED
      BY <3>1, <3>2, <3>4
  <2>2. CASE j.trail # 0
    <3>1. PICK k, d, h, p, x : k = j.n /\ d = FALSE /\ h = g /\ p = TailOf(r, k) /\ x = HeadOf(r, k)
      OBVIOUS
    <3>2. k \in Nat \ {0} /\ k < r.n /\ d \in BOOLEAN /\ ~r.small
      <4>1. k \in Nat \ {0} /\ d \in BOOLEAN
        BY <1>5, <3>1
      <4>2. j.n < j.n + j.trail
        BY <1>5, <2>2
      <4>3. k < r.n
        BY <1>7, <3>1, <4>2
      <4> QED
        BY <1>7, <4>1, <4>3
    <3>3. x = rest /\ p.c = r.c /\ p.i = r.i + k
      BY <1>7, <3>1 DEF HeadOf, TailOf, Run
    <3>4. h = arena_run_dalloc(CutLarge(A, r.c, r.i, r.n, k), p.c, p.i, d, FALSE)
      BY <1>7, <2>2, <3>1, <3>3 DEF arena_run_trim_tail
    <3> HIDE DEF g, rest
    <3>5. Trimmed(A, h, taken, T, O, r, x)
      BY <1>3, <1>6, <1>7, <3>1, <3>2, <3>4, TrimRun
    <3> QED
      BY <3>1, <3>3, <3>5
  <2> QED
    BY <2>1, <2>2
<1> HIDE DEF g
<1>9. /\ IsArena(g.a) /\ Quiet(A, g.a, O \ {r})
      /\ Ledger(g.a, taken, T, (O \ {r}) \cup {rest}) /\ rest \notin O \ {r}
      /\ Bare(g.then) /\ CleanRun(g.a, T, rest)
  BY <1>6, <1>8 DEF Trimmed, Bare
<1>10. Same(A, g.a, T, T, O \ {r})
  BY <1>9, QuietSame
<1>11. /\ e.do = "init" /\ e.c = j.c /\ e.i = j.i /\ e.n = j.n /\ e.zero = j.zero
  OBVIOUS
<1> HIDE DEF e
<1>12. JobOK(e) /\ JobRuns(e) = {rest} /\ JobZero(g.a, T, e)
  <2>1. JobOK(e)
    BY <1>5, <1>11 DEF JobOK
  <2>2. JobRuns(e) = {rest}
    BY <1>11 DEF JobRuns
  <2> HIDE DEF rest
  <2>3. JobZero(g.a, T, e)
    BY <1>9, <1>11, <2>2 DEF JobZero
  <2> QED
    BY <2>1, <2>2, <2>3
<1> HIDE DEF rest
<1>13. Queued(f, {rest} \cup HandOf(s), g.a, T)
  <2>1. PICK p : p = <<e>>
    OBVIOUS
  <2>2. Follow(p) /\ HandOf(p) = {rest} /\ JobsZero(g.a, T, p)
    BY <1>11, <1>12, <2>1, OneFollow, OneJob
  <2>3. HandOf(s) \subseteq O \ {r}
    BY <1>4, <1>5
  <2>4. JobsZero(g.a, T, s)
    BY <1>4, <1>10, <2>3, TailZero
  <2>5. PICK H : H = {rest} \cup HandOf(s)
    OBVIOUS
  <2>6. HandOf(p) \cap HandOf(s) = {} /\ H = HandOf(p) \cup HandOf(s) /\ f = p \o s
    BY <1>9, <2>1, <2>2, <2>3, <2>5
  <2> HIDE DEF f
  <2>7. Queued(f, H, g.a, T)
    BY <1>4, <2>2, <2>4, <2>6, ThenJobs
  <2> QED
    BY <2>5, <2>7
<1> HIDE DEF f
<1>14. Follow(f) /\ JobsZero(g.a, T, f) /\ HandOf(f) = {rest} \cup HandOf(s)
  BY <1>13 DEF Queued
<1>15. Queued(js, HandOf(f), g.a, T)
  BY <1>9, <1>14, BareThen
<1> HIDE DEF js
<1>16. RunStep(arena', touched', taken', owned', js, HandOf(f), t, {r}, {rest})
  <2>1. /\ {r} \subseteq owned \cup HandOf(jobs[t])
        /\ owned' \cup HandOf(f) = ((owned \cup HandOf(jobs[t])) \ {r}) \cup {rest}
        /\ {rest} \cap (O \ {r}) = {}
        /\ \A y \in owned' : y \in owned \ {r}
    BY <1>1, <1>3, <1>4, <1>5, <1>9, <1>14
  <2>2. owned' \cap HandOf(f) = {}
    BY <1>1, <1>3, <1>4, <1>5, <1>6, <1>9, <1>14
  <2> QED
    BY <1>1, <1>3, <1>9, <1>10, <1>15, <2>1, <2>2 DEF RunStep, O
<1>17. zeroed'
  BY <1>1, <1>2
<1> QED
  BY <1>1, <1>16, <1>17, RunNext

\* What is known of a run of a chunk that is cut up.
RunFacts(A, r) ==
    /\ r.c \in Chunks /\ r.i \in Pages /\ r.i \in Nat /\ r.i # 0 /\ r.n \in Nat \ {0}
    /\ r.i + r.n - 1 <= NPages /\ r.small \in BOOLEAN
    /\ r = Run(r.c, r.i, r.n, r.small) /\ RunAt(A.map[r.c], r)

LEMMA RunKnown ==
    ASSUME NEW A, NEW tk, NEW T, NEW O, Ledger(A, tk, T, O), Book(O), NEW r \in O, r.i # 0
    PROVE  RunFacts(A, r)
<1>1. r = Run(r.c, r.i, r.n, r.small) /\ r.c \in Chunks /\ r.small \in BOOLEAN
  BY DEF Book
<1>2. RunAt(A.map[r.c], r)
  BY <1>1, RunChunk
<1> QED
  BY <1>1, <1>2 DEF RunAt, RunFacts, Pages

Resized(r, n) == [r EXCEPT !.n = n]

LEMMA NewSize ==
    ASSUME NEW A, NEW r, RunFacts(A, r), NEW n
    PROVE  Resized(r, n) = Run(r.c, r.i, n, r.small)
<1>1. PICK a, b, d, e : r = [c |-> a, i |-> b, n |-> d, small |-> e] /\ a = r.c /\ b = r.i /\ e = r.small
  BY DEF RunFacts, Run
<1>2. Resized(r, n) = [c |-> a, i |-> b, n |-> n, small |-> e]
  BY <1>1 DEF Resized
<1> QED
  BY <1>1, <1>2 DEF Run

LEMMA ShrinkInv ==
    ASSUME Inv, NEW t \in Threads, NEW r \in Large, NEW n \in 1 .. r.n - 1,
           arena_ralloc_large_shrink(t, r, n)
    PROVE  Inv'
<1> DEFINE A == arena
           T == touched
           O == Out(jobs, owned)
           g == arena_run_trim_tail(arena, r.c, r.i, r.n, n, TRUE)
           js == g.then \o <<>>
           rest == HeadOf(r, n)
<1>1. /\ Idle(t) /\ n < r.n /\ arena' = g.a /\ jobs' = SetJobs(jobs, t, js)
      /\ owned' = (owned \ {r}) \cup {[r EXCEPT !.n = n]}
      /\ taken' = taken /\ touched' = touched /\ zeroed' = zeroed
  BY DEF arena_ralloc_large_shrink, GoOn, Continue, SetJobs
<1>2. Known(A, taken, jobs, owned, T, t) /\ zeroed /\ HandOf(jobs[t]) = {} /\ Locked(t)
  BY <1>1, IdleKnown
<1>3. /\ IsArena(A) /\ Ledger(A, taken, T, O) /\ Book(O) /\ owned \subseteq O
      /\ taken \subseteq Chunks /\ Book(owned)
  BY <1>2 DEF Known
<1>4. r \in owned /\ r \in O /\ r.i # 0 /\ ~r.small
  BY <1>3 DEF Large
<1> HIDE DEF O
<1>5. RunFacts(A, r)
  BY <1>3, <1>4, RunKnown
<1>6. r.small = FALSE /\ r = Run(r.c, r.i, r.n, r.small) /\ r.c \in Chunks
  BY <1>4, <1>5 DEF RunFacts
<1>7. [r EXCEPT !.n = n] = rest
  <2>1. Resized(r, n) = Run(r.c, r.i, n, r.small)
    BY <1>5, NewSize
  <2> QED
    BY <1>6, <2>1 DEF HeadOf, Resized
<1>8. Trimmed(A, g, taken, T, O, r, rest)
  <2>1. PICK k, d, h, p, x : k = n /\ d = TRUE /\ h = g /\ p = TailOf(r, k) /\ x = rest
    OBVIOUS
  <2>2. k \in Nat \ {0} /\ k < r.n /\ d \in BOOLEAN /\ d
    <3>1. r.n \in Nat
      BY <1>5 DEF RunFacts
    <3> QED
      BY <1>1, <2>1, <3>1
  <2>3. p.c = r.c /\ p.i = r.i + k /\ x = HeadOf(r, k)
    BY <2>1 DEF TailOf, Run
  <2>4. h = arena_run_dalloc(CutLarge(A, r.c, r.i, r.n, k), p.c, p.i, d, FALSE)
    BY <2>1, <2>3 DEF arena_run_trim_tail
  <2> HIDE DEF g, rest
  <2>5. Trimmed(A, h, taken, T, O, r, x)
    BY <1>3, <1>4, <2>1, <2>2, <2>3, <2>4, TrimRun
  <2> QED
    BY <2>1, <2>5
<1> HIDE DEF g
<1>9. /\ IsArena(g.a) /\ Quiet(A, g.a, O \ {r})
      /\ Ledger(g.a, taken, T, (O \ {r}) \cup {rest}) /\ rest \notin O \ {r}
      /\ Bare(g.then)
  BY <1>8 DEF Trimmed, Bare
<1>10. Same(A, g.a, T, T, O \ {r})
  BY <1>9, QuietSame
<1>11. Queued(js, {}, g.a, T)
  <2>1. PICK s, H : s = <<>> /\ H = {}
    OBVIOUS
  <2>2. Follow(s) /\ HandOf(s) = H /\ JobsZero(g.a, T, s) /\ js = g.then \o s
    BY <2>1, EmptyFollow
  <2> HIDE DEF js
  <2>3. Queued(js, H, g.a, T)
    BY <1>9, <2>2, BareThen
  <2> QED
    BY <2>1, <2>3
<1> HIDE DEF js
<1>12. rest = Run(rest.c, rest.i, rest.n, rest.small) /\ rest.c \in Chunks /\ rest.small = FALSE
  BY <1>6 DEF HeadOf, Run
<1> HIDE DEF rest
<1>13. RunStep(arena', touched', taken', owned', js, {}, t, {r}, {rest})
  <2>1. owned' = (owned \ {r}) \cup {rest}
    BY <1>1, <1>7
  <2>2. /\ {r} \subseteq owned \cup HandOf(jobs[t])
        /\ owned' \cup {} = ((owned \cup HandOf(jobs[t])) \ {r}) \cup {rest}
        /\ owned' \cap {} = {} /\ {rest} \cap (O \ {r}) = {}
        /\ \A y \in owned' : y.small => y \in owned \ {r}
    BY <1>2, <1>4, <1>9, <1>12, <2>1
  <2>3. Book(owned')
    BY <1>3, <1>12, <2>1 DEF Book
  <2> QED
    BY <1>1, <1>3, <1>9, <1>10, <1>11, <2>2, <2>3 DEF RunStep, O
<1>14. zeroed'
  BY <1>1, <1>2
<1> QED
  BY <1>1, <1>2, <1>13, <1>14, RunNext

\* What the caller of a clean run is told about zeros is true.
LEMMA ZeroTold ==
    ASSUME NEW A, NEW T, NEW r, CleanRun(A, T, r)
    PROVE  PagesOf(r.c, r.i, r.n) \cap T \subseteq {r.c} \X arena_run_zero(A, r.c, r.i, r.n)
  BY DEF CleanRun, ZeroRun, PagesOf, arena_run_zero, RunSpan, Span

LEMMA PallocInitInv ==
    ASSUME Inv, NEW t \in Threads, arena_palloc_init(t)
    PROVE  Inv'
<1> DEFINE A == arena
           T == touched
           U == touched'
           O == Out(jobs, owned)
           j == This(t)
           s == Tail(jobs[t])
           B == arena_run_init_large(arena, j.c, j.i, j.n)
           r == Run(j.c, j.i, j.n, FALSE)
<1>1. /\ Locked(t) /\ jobs[t] # <<>> /\ j.do = "init"
      /\ arena' = B /\ jobs' = SetJobs(jobs, t, s) /\ taken' = taken
      /\ owned' = owned \cup {r}
      /\ zeroed' = (zeroed /\ (j.zero => PagesOf(j.c, j.i, j.n) \cap T
                                            \subseteq {j.c} \X arena_run_zero(A, j.c, j.i, j.n)))
      /\ U = T \cup PagesOf(j.c, j.i, j.n)
  <2>1. /\ Job(t, "init") /\ Locked(t) /\ Continue(t, B, s)
        /\ Deliver(j.c, j.i, j.n, j.zero, arena_run_zero(arena, j.c, j.i, j.n))
        /\ UNCHANGED <<taken, failed>>
    BY DEF arena_palloc_init
  <2>2. jobs[t] # <<>> /\ j.do = "init"
    BY <2>1 DEF Job, This
  <2> HIDE DEF s, j, B
  <2> QED
    BY <2>1, <2>2 DEF Continue, SetJobs, Deliver, Run
<1>2. Known(A, taken, jobs, owned, T, t) /\ zeroed /\ At(t, j, s)
  BY <1>1, JobKnown
<1>3. /\ IsArena(A) /\ Ledger(A, taken, T, O) /\ Book(O) /\ owned \subseteq O
      /\ taken \subseteq Chunks /\ Book(owned)
  BY <1>2 DEF Known
<1>4. /\ JobOK(j) /\ Follow(s) /\ JobRuns(j) \cap HandOf(s) = {}
      /\ HandOf(jobs[t]) = JobRuns(j) \cup HandOf(s)
      /\ JobZero(A, T, j) /\ JobsZero(A, T, s)
      /\ JobRuns(j) \cup HandOf(s) \subseteq O /\ owned \cap (JobRuns(j) \cup HandOf(s)) = {}
  BY <1>2 DEF At
<1> HIDE DEF s, O, j, U
<1>5. /\ JobRuns(j) = {r} /\ j.c \in Chunks /\ j.i \in Pages /\ j.n \in Nat \ {0}
  BY <1>1, <1>4 DEF JobRuns, JobOK
<1>6. CleanRun(A, T, r) /\ r \in O
  BY <1>1, <1>4, <1>5 DEF JobZero
<1>7. /\ r.c = j.c /\ r.i = j.i /\ r.n = j.n /\ r.small = FALSE /\ r.i # 0
  BY <1>5 DEF Run, Pages
<1>8. RunFacts(A, r)
  BY <1>3, <1>6, <1>7, RunKnown
<1>9. /\ MapOnly(A, B, j.c, Span(j.i, j.n)) /\ RunAt(B.map[j.c], r)
  <2>1. PICK d : d = A.map[j.c][j.i].dirty
    OBVIOUS
  <2>2. d \in BOOLEAN
    BY <1>3, <1>5, <2>1, ElemType
  <2>3. j.i + j.n - 1 <= NPages
    BY <1>7, <1>8 DEF RunFacts
  <2>4. B = MarkLarge(A, j.c, j.i, j.n, d)
    BY <2>1 DEF arena_run_init_large
  <2> HIDE DEF B
  <2> QED
    BY <1>3, <1>5, <2>2, <2>3, <2>4, MarkedLarge
<1> HIDE DEF r, B
<1>10. Swapped(A, B, taken, T, O, {r}, {r})
  <2>1. PICK c, X, Old : c = j.c /\ X = Span(j.i, j.n) /\ Old = {r}
    OBVIOUS
  <2>2. /\ c \in Chunks /\ Old # {} /\ \A y \in Old : y \in O /\ y.c = c /\ y.i # 0
    BY <1>5, <1>6, <1>7, <2>1
  <2>3. X = RunSpan(r)
    BY <1>7, <2>1 DEF RunSpan
  <2>4. Covers(Old, X) /\ Disjoint(Old)
    BY <2>1, <2>3 DEF Covers, Disjoint
  <2>5. MapOnly(A, B, c, X) /\ \A y \in Old : RunAt(B.map[c], y) /\ y.c = c
    BY <1>7, <1>9, <2>1
  <2>6. Swapped(A, B, taken, T, O, Old, Old)
    BY <1>3, <2>2, <2>4, <2>5, LedgerSwap
  <2> QED
    BY <2>1, <2>6
<1>11. /\ IsArena(B) /\ Ledger(B, taken, T, (O \ {r}) \cup {r}) /\ Quiet(A, B, O \ {r})
  BY <1>10 DEF Swapped
<1>12. (O \ {r}) \cup {r} = O
  BY <1>6
<1>13. Wrote(B, taken, T, U, O, r)
  <2>1. PICK n : n = r.n
    OBVIOUS
  <2>2. /\ r.c \in Chunks /\ n \in Nat /\ r.n \in Nat /\ n <= r.n /\ r.i \in Nat /\ r.i # 0
    BY <1>8, <2>1 DEF RunFacts
  <2>3. U = T \cup PagesOf(r.c, r.i, n)
    BY <1>1, <1>7, <2>1
  <2>4. Ledger(B, taken, T, O)
    BY <1>11, <1>12
  <2> QED
    BY <1>6, <2>2, <2>3, <2>4, WriteRun
<1>14. Ledger(B, taken, U, (O \ {r}) \cup {r}) /\ Same(A, B, T, U, O \ {r})
  <2>1. Same(A, B, T, T, O \ {r})
    BY <1>11, QuietSame
  <2>2. Same(B, B, T, U, O \ {r}) /\ Ledger(B, taken, U, O)
    BY <1>13 DEF Wrote
  <2>3. Same(A, B, T, U, O \ {r})
    BY <2>1, <2>2, SameTwice
  <2> QED
    BY <1>12, <2>2, <2>3
<1>15. Queued(s, HandOf(s), B, U)
  <2>1. HandOf(s) \subseteq O \ {r}
    BY <1>4, <1>5
  <2>2. JobsZero(B, U, s)
    BY <1>4, <1>14, <2>1, TailZero
  <2> QED
    BY <1>4, <2>2, FollowQueued
<1>16. RunStep(arena', touched', taken', owned', s, HandOf(s), t, {r}, {r})
  <2>1. /\ {r} \subseteq owned \cup HandOf(jobs[t])
        /\ owned' \cup HandOf(s) = ((owned \cup HandOf(jobs[t])) \ {r}) \cup {r}
        /\ owned' \cap HandOf(s) = {} /\ {r} \cap (O \ {r}) = {}
        /\ \A y \in owned' : y.small => y \in owned \ {r}
    BY <1>1, <1>4, <1>5, <1>7
  <2>2. Book(owned')
    BY <1>1, <1>3, <1>8 DEF Book, RunFacts
  <2> QED
    BY <1>1, <1>3, <1>11, <1>14, <1>15, <2>1, <2>2 DEF RunStep, O, U
<1>17. zeroed'
  <2>1. PagesOf(r.c, r.i, r.n) \cap T \subseteq {r.c} \X arena_run_zero(A, r.c, r.i, r.n)
    BY <1>6, ZeroTold
  <2> QED
    BY <1>1, <1>2, <1>7, <2>1
<1> QED
  BY <1>1, <1>16, <1>17, RunNext

-----------------------------------------------------------------------------
(* A run of small regions is given back.                                   *)

\* The run r, some pages of which were written to, is back.
BackWritten(A, g, tk, T, U, O, r, H) ==
    /\ IsArena(g.a) /\ Ledger(g.a, tk, U, (O \ {r}) \cup H) /\ H \cap (O \ {r}) = {}
    /\ Same(A, g.a, T, U, O \ {r})
    /\ Follow(g.then) /\ HandOf(g.then) = H /\ JobsZero(g.a, U, g.then)

\* From what the run is when it is written to, P being all runs then.
LEMMA WriteBack ==
    ASSUME NEW A, NEW B, NEW tk, NEW T, NEW U, NEW O, NEW r \in O, NEW P, NEW p \in P,
           IsArena(B), Ledger(B, tk, T, P), Book(P), P \ {p} = O \ {r}, Quiet(A, B, O \ {r}),
           p.i # 0, NEW past \in Nat, past <= p.n, U = T \cup PagesOf(p.c, p.i, past),
           NEW g, g = arena_run_dalloc(B, p.c, p.i, TRUE, FALSE)
    PROVE  \E H : BackWritten(A, g, tk, T, U, O, r, H)
<1>1. RunFacts(B, p)
  BY RunKnown
<1>2. Wrote(B, tk, T, U, P, p)
  <2>1. p.c \in Chunks /\ p.n \in Nat /\ p.i \in Nat
    BY <1>1 DEF RunFacts
  <2> QED
    BY <2>1, WriteRun
<1>3. Ledger(B, tk, U, P) /\ Same(B, B, T, U, P \ {p})
  BY <1>2 DEF Wrote
<1>4. PICK H : GivenBack(B, g, tk, U, P, p, H)
  <2>1. PICK d, cl : d = TRUE /\ cl = FALSE
    OBVIOUS
  <2>2. d \in BOOLEAN /\ cl \in BOOLEAN /\ g = arena_run_dalloc(B, p.c, p.i, d, cl)
    BY <2>1
  <2>3. BackDirty(B, p.c, p, d, cl)
    BY <2>1 DEF BackDirty
  <2> QED
    BY <1>3, <2>2, <2>3, LedgerDalloc
<1>5. /\ IsArena(g.a) /\ Quiet(B, g.a, O \ {r})
      /\ Ledger(g.a, tk, U, (O \ {r}) \cup H) /\ H \cap P = {}
      /\ Follow(g.then) /\ HandOf(g.then) = H /\ JobsZero(g.a, U, g.then)
  BY <1>4 DEF GivenBack
<1>6. H \cap (O \ {r}) = {}
  BY <1>5
<1>7. Same(A, g.a, T, U, O \ {r})
  <2>1. PICK Q : Q = O \ {r}
    OBVIOUS
  <2>2. Same(A, B, T, T, Q) /\ Same(B, g.a, U, U, Q)
    BY <1>5, <2>1, QuietSame
  <2>3. Same(B, B, T, U, Q)
    BY <1>3, <2>1
  <2>4. Same(A, B, T, U, Q)
    BY <2>2, <2>3, SameTwice
  <2>5. Same(A, g.a, T, U, Q)
    <3>1. PICK K, V : K = g.a /\ V = U
      OBVIOUS
    <3>2. Same(A, B, T, V, Q) /\ Same(B, K, V, V, Q) /\ Q \subseteq Q
      BY <2>2, <2>4, <3>1
    <3>3. Same(A, K, T, V, Q)
      BY <3>2, SameTwice
    <3> QED
      BY <3>1, <3>3
  <2> QED
    BY <2>1, <2>5
<1> QED
  BY <1>5, <1>6, <1>7 DEF BackWritten

\* The small run marked as a large one, without its last pages, which were not used.
BinCut(A, r, past) ==
    arena_run_trim_tail(
      arena_mapbits_large_set(
        arena_mapbits_large_set(A, r.c, r.i, r.n, FALSE), r.c, r.i + r.n - 1, 0, FALSE),
      r.c, r.i, r.n, past, FALSE)

CutBin(A, B, tk, T, O, r, p) ==
    /\ IsArena(B) /\ Ledger(B, tk, T, (O \ {r}) \cup {p}) /\ p \notin O \ {r}
    /\ Quiet(A, B, O \ {r})

LEMMA BinTail ==
    ASSUME NEW A, IsArena(A), NEW tk, NEW T, NEW O, Ledger(A, tk, T, O), Book(O),
           NEW r \in O, r.i # 0, ~A.map[r.c][r.i].dirty, CleanRun(A, T, r),
           NEW past \in Nat \ {0}, past < r.n, NEW g, g = BinCut(A, r, past)
    PROVE  CutBin(A, g.a, tk, T, O, r, HeadOf(r, past))
<1> DEFINE C == arena_mapbits_large_set(arena_mapbits_large_set(A, r.c, r.i, r.n, FALSE),
                                        r.c, r.i + r.n - 1, 0, FALSE)
           x == Run(r.c, r.i, r.n, FALSE)
           X == Span(r.i, r.n)
<1>1. RunFacts(A, r)
  BY RunKnown
<1>2. /\ r.c \in Chunks /\ r.i \in Pages /\ r.n \in Nat /\ r.i + r.n - 1 <= NPages /\ r.n > 1
  BY <1>1 DEF RunFacts
<1>3. g = arena_run_trim_tail(C, r.c, r.i, r.n, past, FALSE)
  BY DEF BinCut
<1>4. MapOnly(A, C, r.c, X) /\ RunAt(C.map[r.c], x) /\ Flags(A, C, r.c, r.i, r.n, FALSE)
  <2>1. PICK c, i, n, d, K : c = r.c /\ i = r.i /\ n = r.n /\ d = FALSE /\ K = C
    OBVIOUS
  <2>2. /\ c \in Chunks /\ i \in Pages /\ n \in Nat /\ i + n - 1 <= NPages /\ n > 1 /\ d \in BOOLEAN
    BY <1>2, <2>1
  <2>3. K = arena_mapbits_large_set(arena_mapbits_large_set(A, c, i, n, d), c, i + n - 1, 0, d)
    BY <2>1
  <2> HIDE DEF C
  <2>4. /\ MapOnly(A, K, c, Span(i, n))
        /\ RunAt(K.map[c], Run(c, i, n, FALSE)) /\ Flags(A, K, c, i, n, d)
    BY <2>2, <2>3, MarkedEnds
  <2> QED
    BY <2>1, <2>4
<1>5. x.c = r.c /\ x.i = r.i /\ x.n = r.n /\ x.small = FALSE /\ x = Run(x.c, x.i, x.n, x.small)
  BY DEF Run
<1> HIDE DEF C, x
<1>6. Swapped(A, C, tk, T, O, {r}, {x})
  <2>1. PICK c, Old, New : c = r.c /\ Old = {r} /\ New = {x}
    OBVIOUS
  <2>2. /\ c \in Chunks /\ Old # {} /\ \A y \in Old : y \in O /\ y.c = c /\ y.i # 0
    BY <1>2, <2>1
  <2>3. X = RunSpan(r) /\ X = RunSpan(x)
    BY <1>5 DEF RunSpan
  <2>4. Covers(Old, X) /\ Covers(New, X) /\ Disjoint(New)
    BY <2>1, <2>3 DEF Covers, Disjoint
  <2>5. MapOnly(A, C, c, X) /\ \A y \in New : RunAt(C.map[c], y) /\ y.c = c
    BY <1>4, <1>5, <2>1
  <2> HIDE DEF X
  <2>6. Swapped(A, C, tk, T, O, Old, New)
    BY <2>2, <2>4, <2>5, LedgerSwap
  <2> QED
    BY <2>1, <2>6
<1>7. PICK P : P = (O \ {r}) \cup {x}
  OBVIOUS
<1>8. /\ IsArena(C) /\ Ledger(C, tk, T, P) /\ x \notin O \ {r} /\ Quiet(A, C, O \ {r})
  BY <1>6, <1>7 DEF Swapped
<1>9. Book(P) /\ x \in P /\ P \ {x} = O \ {r}
  BY <1>2, <1>5, <1>7, <1>8 DEF Book
<1>10. CleanRun(C, T, x)
  <2>1. ZeroRun(A, T, r)
    BY DEF CleanRun
  <2>2. \A k \in Span(r.i, r.n) : C.map[r.c][k].unz = A.map[r.c][k].unz
    BY <1>4 DEF Flags
  <2>3. ZeroRun(C, T, x)
    BY <1>5, <2>1, <2>2 DEF ZeroRun, RunSpan
  <2> QED
    BY <2>3 DEF CleanRun
<1>11. HeadOf(x, past) = HeadOf(r, past)
  BY <1>5 DEF HeadOf
<1>12. Trimmed(C, g, tk, T, P, x, HeadOf(x, past))
  <2>1. PICK d, p, y : d = FALSE /\ p = TailOf(x, past) /\ y = HeadOf(x, past)
    OBVIOUS
  <2>2. past < x.n /\ d \in BOOLEAN /\ ~x.small /\ x.i # 0
    BY <1>5, <2>1
  <2>3. p.c = x.c /\ p.i = x.i + past
    BY <2>1 DEF TailOf, Run
  <2>4. g = arena_run_dalloc(CutLarge(C, x.c, x.i, x.n, past), p.c, p.i, d, FALSE)
    BY <1>3, <1>5, <2>1, <2>3 DEF arena_run_trim_tail
  <2>5. Trimmed(C, g, tk, T, P, x, y)
    BY <1>8, <1>9, <1>10, <2>1, <2>2, <2>4, TrimRun
  <2> QED
    BY <2>1, <2>5
<1>13. PICK y : y = HeadOf(r, past)
  OBVIOUS
<1>14. /\ IsArena(g.a) /\ Quiet(C, g.a, P \ {x})
       /\ Ledger(g.a, tk, T, (P \ {x}) \cup {y}) /\ y \notin P \ {x}
  BY <1>11, <1>12, <1>13 DEF Trimmed
<1>15. Quiet(A, g.a, O \ {r})
  <2>1. Quiet(C, g.a, O \ {r}) /\ \A z \in O \ {r} : z \in O \ {r}
    BY <1>9, <1>14
  <2> QED
    BY <1>8, <2>1, QuietTwice
<1> QED
  BY <1>9, <1>13, <1>14, <1>15 DEF CutBin

LEMMA BinRunInv ==
    ASSUME Inv, NEW t \in Threads, NEW r \in Small, NEW past \in 1 .. r.n,
           arena_dalloc_bin_run(t, r, past)
    PROVE  Inv'
<1> DEFINE A == arena
           T == touched
           O == Out(jobs, owned)
           U == touched \cup PagesOf(r.c, r.i, past)
           clean == ~A.map[r.c][r.i].dirty /\ past < r.n
           B == IF clean THEN BinCut(A, r, past).a ELSE A
           g == arena_run_dalloc(B, r.c, r.i, TRUE, FALSE)
           js == g.then \o <<>>
<1>1. /\ Idle(t) /\ arena' = g.a /\ jobs' = SetJobs(jobs, t, js)
      /\ owned' = owned \ {r} /\ taken' = taken /\ touched' = U /\ zeroed' = zeroed
  BY DEF arena_dalloc_bin_run, GoOn, Continue, SetJobs, BinCut
<1>2. Known(A, taken, jobs, owned, T, t) /\ zeroed /\ HandOf(jobs[t]) = {} /\ Locked(t)
  BY <1>1, IdleKnown
<1>3. /\ IsArena(A) /\ Ledger(A, taken, T, O) /\ Book(O) /\ owned \subseteq O
      /\ taken \subseteq Chunks /\ Book(owned)
      /\ \A y \in owned : y.small => CleanRun(A, T, y)
  BY <1>2 DEF Known
<1> HIDE DEF O
<1>4. r \in owned /\ r \in O /\ r.small /\ CleanRun(A, T, r)
  BY <1>3 DEF Small
<1>5. r.i # 0
  BY <1>3, <1>4, SmallRun
<1>6. RunFacts(A, r)
  BY <1>3, <1>4, <1>5, RunKnown
<1>7. past \in Nat \ {0} /\ past <= r.n /\ r.n \in Nat
  BY <1>6 DEF RunFacts
<1>8. PICK H : BackWritten(A, g, taken, T, U, O, r, H)
  <2>1. CASE clean
    <3>1. PICK h, p, x, P : h = BinCut(A, r, past) /\ p = HeadOf(r, past) /\ x = g
                            /\ P = (O \ {r}) \cup {p}
      OBVIOUS
    <3>2. CutBin(A, h.a, taken, T, O, r, p)
      BY <1>3, <1>4, <1>5, <1>7, <2>1, <3>1, BinTail
    <3>3. /\ IsArena(h.a) /\ Ledger(h.a, taken, T, P) /\ p \notin O \ {r}
          /\ Quiet(A, h.a, O \ {r})
      BY <3>1, <3>2 DEF CutBin
    <3>4. /\ p.c = r.c /\ p.i = r.i /\ p.n = past /\ p.small = FALSE
          /\ p = Run(p.c, p.i, p.n, p.small)
      BY <3>1 DEF HeadOf, Run
    <3>5. r.c \in Chunks
      BY <1>6 DEF RunFacts
    <3>6. Book(P) /\ p \in P /\ P \ {p} = O \ {r}
      BY <1>3, <3>1, <3>3, <3>4, <3>5 DEF Book
    <3>7. x = arena_run_dalloc(h.a, p.c, p.i, TRUE, FALSE)
      BY <2>1, <3>1, <3>4
    <3>8. PICK V, K : V = U /\ K = h.a
      OBVIOUS
    <3>9. V = T \cup PagesOf(p.c, p.i, past) /\ past <= p.n /\ p.i # 0 /\ past \in Nat
      BY <1>5, <1>7, <3>4, <3>8
    <3> HIDE DEF U, B, g, clean
    <3>10. /\ IsArena(K) /\ Ledger(K, taken, T, P) /\ Quiet(A, K, O \ {r})
           /\ x = arena_run_dalloc(K, p.c, p.i, TRUE, FALSE)
      BY <3>3, <3>7, <3>8
    <3>11. \E H : BackWritten(A, x, taken, T, V, O, r, H)
      BY <1>4, <3>6, <3>9, <3>10, WriteBack
    <3> QED
      BY <3>1, <3>8, <3>11
  <2>2. CASE ~clean
    <3>1. B = A
      BY <2>2
    <3>2. PICK V, x : V = U /\ x = g
      OBVIOUS
    <3>3. V = T \cup PagesOf(r.c, r.i, past) /\ x = arena_run_dalloc(A, r.c, r.i, TRUE, FALSE)
      BY <3>1, <3>2
    <3>4. Quiet(A, A, O \ {r})
      BY DEF Quiet
    <3> HIDE DEF U, B, g, clean
    <3>5. \E H : BackWritten(A, x, taken, T, V, O, r, H)
      BY <1>3, <1>4, <1>5, <1>7, <3>3, <3>4, WriteBack
    <3> QED
      BY <3>2, <3>5
  <2> QED
    BY <2>1, <2>2
<1> HIDE DEF g, U, B, clean
<1>9. /\ IsArena(g.a) /\ Ledger(g.a, taken, U, (O \ {r}) \cup H) /\ H \cap (O \ {r}) = {}
      /\ Same(A, g.a, T, U, O \ {r})
      /\ Follow(g.then) /\ HandOf(g.then) = H /\ JobsZero(g.a, U, g.then)
  BY <1>8 DEF BackWritten
<1>10. Queued(js, H, g.a, U)
  <2>1. PICK p, q, s : p = g.then /\ q = <<>> /\ s = js
    OBVIOUS
  <2>2. /\ Follow(p) /\ Follow(q) /\ HandOf(p) \cap HandOf(q) = {} /\ HandOf(p) \cup HandOf(q) = H
        /\ JobsZero(g.a, U, p) /\ JobsZero(g.a, U, q) /\ s = p \o q
    BY <1>9, <2>1, EmptyFollow
  <2>3. Queued(s, H, g.a, U)
    BY <2>2, ThenJobs
  <2> QED
    BY <2>1, <2>3
<1> HIDE DEF js
<1>11. RunStep(arena', touched', taken', owned', js, H, t, {r}, H)
  <2>1. /\ {r} \subseteq owned \cup HandOf(jobs[t])
        /\ owned' \cup H = ((owned \cup HandOf(jobs[t])) \ {r}) \cup H
        /\ owned' \cap H = {} /\ H \cap (O \ {r}) = {}
        /\ \A y \in owned' : y \in owned \ {r}
    BY <1>1, <1>2, <1>3, <1>4, <1>9
  <2>2. Book(owned')
    BY <1>1, <1>3 DEF Book
  <2> QED
    BY <1>1, <1>3, <1>9, <1>10, <2>1, <2>2 DEF RunStep, O
<1>12. zeroed'
  BY <1>1, <1>2
<1> QED
  BY <1>1, <1>2, <1>11, <1>12, RunNext, SMTT(40)

-----------------------------------------------------------------------------
(* A large run grows into the free run after it.                           *)

LEMMA FreeAfter ==
    ASSUME NEW A, IsArena(A), NEW tk, NEW T, NEW O, Ledger(A, tk, T, O), Book(O),
           NEW r \in O, r.i # 0, NEW next, next = r.i + r.n, next <= NPages,
           ~A.map[r.c][next].alloc
    PROVE  next \in Avail(A, r.c) /\ FreeAt(A.map[r.c], TouchedIn(T, r.c), next)
<1> DEFINE c == r.c
           m == A.map[c]
           V == TouchedIn(T, c)
           F == Avail(A, c)
           R == RunsIn(O, c)
<1>1. RunFacts(A, r)
  BY RunKnown
<1>2. Layout(m, V, F, R, {}) /\ r \in R
  <2>1. c \in Chunks
    BY <1>1 DEF RunFacts
  <2>2. CutUp(A, c, tk, T, O) /\ r \in R
    BY <2>1, RunChunk
  <2> QED
    BY <2>2 DEF CutUp, View
<1>3. PICK X, Q : X = {} \cup RunSpan(r) /\ Q = R \ {r}
  OBVIOUS
<1>4. ~m[next].alloc
  OBVIOUS
<1> HIDE DEF m, V, F, R, c
<1>5. Layout(m, V, F, Q, X)
  BY <1>2, <1>3, LayoutTake
<1>6. next \in Pages /\ next \notin X /\ next - 1 \in X
  <2>1. r.i \in Nat /\ r.i >= 1 /\ r.n \in Nat /\ r.n >= 1 /\ NPages \in Nat
    BY <1>1, ArenaRunsAssumption DEF RunFacts
  <2>2. next \in 1 .. NPages /\ next \notin r.i .. r.i + r.n - 1 /\ next - 1 \in r.i .. r.i + r.n - 1
    BY <2>1
  <2> QED
    BY <1>3, <2>2 DEF Pages, RunSpan, Span
<1>7. next \in F
  BY <1>4, <1>5, <1>6, HeadAfter
<1>8. FreeAt(m, V, next)
  BY <1>2, <1>7 DEF Layout
<1> QED
  BY <1>7, <1>8 DEF m, V, F, c

GrownTo(A, D, tk, T, O, r, y) ==
    /\ IsArena(D) /\ Ledger(D, tk, T, (O \ {r}) \cup {y}) /\ y \notin O \ {r}
    /\ Quiet(A, D, O \ {r})

LEMMA GrowRun ==
    ASSUME NEW A, IsArena(A), NEW tk, NEW T, NEW O, Ledger(A, tk, T, O), Book(O),
           NEW r \in O, r.i # 0, ~r.small, NEW next, next = r.i + r.n,
           next \in Avail(A, r.c), NEW k \in Nat \ {0}, k <= A.map[r.c][next].size,
           NEW D, D = Grown(arena_run_split_large(A, r.c, next, k), r, k)
    PROVE  GrownTo(A, D, tk, T, O, r, Run(r.c, r.i, r.n + k, FALSE))
<1>1. PICK C, c, i, n, x, y, P :
        /\ C = arena_run_split_large(A, r.c, next, k) /\ c = r.c /\ i = r.i /\ n = r.n + k
        /\ x = Run(r.c, next, k, FALSE) /\ y = Run(r.c, r.i, r.n + k, FALSE) /\ P = O \cup {x}
  OBVIOUS
<1>2. RunFacts(A, r)
  BY RunKnown
<1>3. /\ c \in Chunks /\ i \in Pages /\ i \in Nat /\ r.n \in Nat /\ r.n >= 1 /\ n \in Nat /\ n > 1
      /\ next = i + r.n
  BY <1>1, <1>2 DEF RunFacts
<1>4. NewRun(A, C, tk, T, O, x)
  <2>1. PICK small : small = FALSE
    OBVIOUS
  <2>2. /\ small \in BOOLEAN /\ ~small /\ C = arena_run_split_large(A, c, next, k)
        /\ next \in Avail(A, c) /\ k <= A.map[c][next].size /\ x = Run(c, next, k, small)
    BY <1>1, <2>1
  <2>3. NewRun(A, C, tk, T, O, Run(c, next, k, small))
    BY <1>3, <2>2, LedgerSplit
  <2> QED
    BY <2>2, <2>3
<1>5. /\ IsArena(C) /\ Ledger(C, tk, T, P) /\ x \notin O /\ Quiet(A, C, O) /\ next + k - 1 <= NPages
  BY <1>1, <1>4 DEF NewRun, Run
<1>6. /\ x.c = c /\ x.i = next /\ x.n = k /\ x.small = FALSE /\ x = Run(x.c, x.i, x.n, x.small)
      /\ y.c = c /\ y.i = i /\ y.n = n /\ y.small = FALSE
  BY <1>1 DEF Run
<1>7. i + n - 1 <= NPages /\ i + n - 1 \in Pages /\ i + n - 1 = r.i + r.n + k - 1
  BY <1>1, <1>3, <1>5, ArenaRunsAssumption DEF Pages
<1>8. MapOnly(C, D, c, Span(i, n)) /\ RunAt(D.map[c], y)
  <2>1. PICK d : d = (C.map[r.c][r.i].dirty \/ C.map[r.c][r.i + r.n + k - 1].dirty)
    OBVIOUS
  <2>2. C.map[r.c][r.i].dirty \in BOOLEAN /\ C.map[r.c][r.i + r.n + k - 1].dirty \in BOOLEAN
    <3>1. C.map[c][i].dirty \in BOOLEAN /\ C.map[c][i + n - 1].dirty \in BOOLEAN
      BY <1>3, <1>5, <1>7, ElemType
    <3> QED
      BY <1>1, <1>7, <3>1
  <2>3. d \in BOOLEAN
    BY <2>1, <2>2
  <2>4. D = arena_mapbits_large_set(
              arena_mapbits_large_set(C, r.c, r.i, r.n + k, d), r.c, r.i + r.n + k - 1, 0, d)
    <3>1. D = Grown(C, r, k)
      BY <1>1, Zenon
    <3>2. D = arena_mapbits_large_set(
                arena_mapbits_large_set(
                  C, r.c, r.i, r.n + k,
                  C.map[r.c][r.i].dirty \/ C.map[r.c][r.i + r.n + k - 1].dirty),
                r.c, r.i + r.n + k - 1, 0,
                C.map[r.c][r.i].dirty \/ C.map[r.c][r.i + r.n + k - 1].dirty)
      BY <3>1, Zenon DEF Grown
    <3> QED
      BY <2>1, <3>2, Zenon
  <2>5. D = arena_mapbits_large_set(arena_mapbits_large_set(C, c, i, n, d), c, i + n - 1, 0, d)
    BY <1>1, <1>7, <2>4
  <2>6. MapOnly(C, D, c, Span(i, n)) /\ RunAt(D.map[c], Run(c, i, n, FALSE))
    BY <1>3, <1>5, <1>7, <2>3, <2>5, MarkedEnds
  <2> QED
    BY <1>1, <2>6
<1>9. Swapped(C, D, tk, T, P, {r, x}, {y})
  <2>1. PICK Old, New, X : Old = {r, x} /\ New = {y} /\ X = Span(i, n)
    OBVIOUS
  <2>2. Book(P)
    BY <1>1, <1>3, <1>6 DEF Book
  <2>3. x.i # 0
    BY <1>3, <1>6
  <2>4. /\ Old # {} /\ \A z \in Old : z \in P /\ z.c = c /\ z.i # 0
    BY <1>1, <1>6, <2>1, <2>3
  <2>5. Covers(New, X) /\ Disjoint(New)
    BY <1>6, <2>1 DEF Covers, Disjoint, RunSpan
  <2>6. Covers(Old, X)
    <3>1. \A z : z \in i .. i + n - 1 <=> (z \in i .. i + r.n - 1 \/ z \in next .. next + k - 1)
      BY <1>1, <1>3
    <3>2. RunSpan(r) = i .. i + r.n - 1 /\ RunSpan(x) = next .. next + k - 1 /\ X = i .. i + n - 1
      BY <1>1, <1>6, <2>1 DEF RunSpan, Span
    <3> QED
      BY <2>1, <3>1, <3>2 DEF Covers
  <2>7. MapOnly(C, D, c, X) /\ \A z \in New : RunAt(D.map[c], z) /\ z.c = c
    BY <1>6, <1>8, <2>1
  <2>8. Swapped(C, D, tk, T, P, Old, New)
    BY <1>3, <1>5, <2>2, <2>4, <2>5, <2>6, <2>7, LedgerSwap
  <2> QED
    BY <2>1, <2>8
<1>10. P \ {r, x} = O \ {r}
  BY <1>1, <1>5
<1>11. /\ IsArena(D) /\ Ledger(D, tk, T, (O \ {r}) \cup {y}) /\ {y} \cap (O \ {r}) = {}
       /\ Quiet(C, D, O \ {r})
  BY <1>9, <1>10 DEF Swapped
<1>12. Quiet(A, D, O \ {r})
  <2>1. PICK Q : Q = O \ {r}
    OBVIOUS
  <2>2. Quiet(A, C, Q) /\ Quiet(C, D, Q) /\ \A z \in Q : z \in Q
    BY <1>5, <1>11, <2>1 DEF Quiet
  <2>3. Quiet(A, D, Q)
    BY <2>2, QuietTwice
  <2> QED
    BY <2>1, <2>3
<1> QED
  BY <1>1, <1>11, <1>12 DEF GrownTo

LEMMA GrowInv ==
    ASSUME Inv, NEW t \in Threads, NEW r \in Large, NEW n \in r.n .. NPages, NEW extra \in 0 .. 1,
           NEW zero \in BOOLEAN, arena_ralloc_large_grow(t, r, n, extra, zero)
    PROVE  Inv'
<1> DEFINE A == arena
           T == touched
           U == touched'
           D == arena'
           O == Out(jobs, owned)
           next == r.i + r.n
           size == A.map[r.c][next].size
           k == IF r.n + size <= n + extra THEN size ELSE n + extra - r.n
           y == Run(r.c, r.i, r.n + k, FALSE)
<1>1. /\ Idle(t) /\ n + extra > r.n /\ next <= NPages /\ ~A.map[r.c][next].alloc
      /\ D = Grown(arena_run_split_large(A, r.c, next, k), r, k)
      /\ owned' = (owned \ {r}) \cup {Resized(r, r.n + k)}
      /\ zeroed' = (zeroed /\ (zero => PagesOf(r.c, next, k) \cap T
                                         \subseteq {r.c} \X arena_run_zero(A, r.c, next, k)))
      /\ U = T \cup PagesOf(r.c, next, k)
      /\ taken' = taken /\ lock' = lock /\ jobs' = jobs
  BY ZenonT(60) DEF arena_ralloc_large_grow, Resized
<1> HIDE DEF U, D
<1>2. Known(A, taken, jobs, owned, T, t) /\ zeroed /\ HandOf(jobs[t]) = {} /\ Locked(t)
  BY <1>1, IdleKnown
<1>3. /\ IsArena(A) /\ Ledger(A, taken, T, O) /\ Book(O) /\ owned \subseteq O
      /\ taken \subseteq Chunks /\ Book(owned)
  BY <1>2 DEF Known
<1>4. r \in owned /\ r \in O /\ r.i # 0 /\ ~r.small
  BY <1>3 DEF Large
<1> HIDE DEF O
<1>5. RunFacts(A, r)
  BY <1>3, <1>4, RunKnown
<1>6. next \in Avail(A, r.c) /\ FreeAt(A.map[r.c], TouchedIn(T, r.c), next)
  <2>1. PICK x : x = next
    OBVIOUS
  <2>2. x = r.i + r.n /\ x <= NPages /\ ~A.map[r.c][x].alloc
    <3>1. x = r.i + r.n
      BY <2>1
    <3> HIDE DEF next, k, y
    <3>2. next <= NPages /\ ~A.map[r.c][next].alloc
      BY <1>1
    <3> QED
      BY <2>1, <3>1, <3>2
  <2>3. x \in Avail(A, r.c) /\ FreeAt(A.map[r.c], TouchedIn(T, r.c), x)
    BY <1>3, <1>4, <2>2, FreeAfter
  <2> QED
    BY <2>1, <2>3
<1>7. size \in Nat \ {0} /\ next \in Pages /\ next + size - 1 <= NPages
  <2>1. PICK x, m : x = next /\ m = A.map[r.c]
    OBVIOUS
  <2>2. size = m[x].size /\ FreeAt(m, TouchedIn(T, r.c), x)
    BY <1>6, <2>1
  <2>3. m[x].size \in Nat \ {0} /\ x \in Pages /\ x + m[x].size - 1 <= NPages
    BY <2>2 DEF FreeAt
  <2> HIDE DEF size, next
  <2> QED
    BY <2>1, <2>2, <2>3
<1>8. /\ r.c \in Chunks /\ r.i \in Nat /\ r.n \in Nat /\ r.n >= 1 /\ r.small = FALSE
      /\ next = r.i + r.n /\ r.i >= 1
  BY <1>4, <1>5 DEF RunFacts
<1> HIDE DEF size, next
<1>9. k \in Nat \ {0} /\ k <= size
  <2>1. n \in Nat /\ extra \in Nat
    BY <1>8
  <2> QED
    BY <1>1, <1>7, <1>8, <2>1
<1> HIDE DEF k
<1>10. GrownTo(A, D, taken, T, O, r, y)
  <2>1. k <= A.map[r.c][next].size
    BY <1>9 DEF size
  <2> QED
    BY <1>1, <1>3, <1>4, <1>6, <1>8, <1>9, <2>1, GrowRun
<1>11. /\ IsArena(D) /\ Ledger(D, taken, T, (O \ {r}) \cup {y}) /\ y \notin O \ {r}
       /\ Quiet(A, D, O \ {r})
  BY <1>10 DEF GrownTo
<1>12. Resized(r, r.n + k) = y
  <2>1. PICK x : x = r.n + k
    OBVIOUS
  <2>2. Resized(r, x) = Run(r.c, r.i, x, r.small)
    BY <1>5, NewSize
  <2> QED
    BY <1>8, <2>1, <2>2
<1>13. /\ y.c = r.c /\ y.i = r.i /\ y.n = r.n + k /\ y.small = FALSE
       /\ y = Run(y.c, y.i, y.n, y.small)
  BY DEF Run
<1> HIDE DEF y
<1>14. PICK Q : Q = (O \ {r}) \cup {y}
  OBVIOUS
<1>15. OnlyIn(T, U, y)
  <2>1. \A z \in next .. next + k - 1 : z \in r.i .. r.i + (r.n + k) - 1
    BY <1>8, <1>9
  <2>2. RunSpan(y) = r.i .. r.i + (r.n + k) - 1
    BY <1>13 DEF RunSpan, Span
  <2> QED
    BY <1>1, <1>13, <2>1, <2>2 DEF OnlyIn, PagesOf
<1>16. Wrote(D, taken, T, U, Q, y)
  <2>1. Ledger(D, taken, T, Q) /\ y \in Q /\ y.c \in Chunks /\ y.i # 0
    BY <1>4, <1>8, <1>11, <1>13, <1>14
  <2> QED
    BY <1>15, <2>1, WriteSome
<1>17. Ledger(D, taken, U, (O \ {r}) \cup {y}) /\ Same(A, D, T, U, O \ {r})
  <2>1. Q \ {y} = O \ {r}
    BY <1>11, <1>14
  <2>2. PICK Z : Z = O \ {r}
    OBVIOUS
  <2>3. Ledger(D, taken, U, Q) /\ Same(D, D, T, U, Z)
    BY <1>16, <2>1, <2>2 DEF Wrote
  <2>4. Same(A, D, T, T, Z) /\ Z \subseteq Z
    BY <1>11, <2>2, QuietSame
  <2>5. Same(A, D, T, U, Z)
    BY <2>3, <2>4, SameTwice
  <2> QED
    BY <1>14, <2>2, <2>3, <2>5
<1>18. PICK js : js = <<>>
  OBVIOUS
<1>19. jobs' = SetJobs(jobs, t, js)
  <2>1. jobs = [x \in Threads |-> jobs[x]] /\ jobs[t] = js
    BY <1>1, <1>18 DEF Inv, Good, Idle
  <2> QED
    BY <1>1, <2>1 DEF SetJobs
<1>20. Queued(js, {}, D, U)
  BY <1>18, EmptyFollow, FollowNoStash DEF Queued
<1>21. RunStep(arena', touched', taken', owned', js, {}, t, {r}, {y})
  <2>1. owned' = (owned \ {r}) \cup {y}
    BY <1>1, <1>12
  <2>2. /\ {r} \subseteq owned \cup HandOf(jobs[t])
        /\ owned' \cup {} = ((owned \cup HandOf(jobs[t])) \ {r}) \cup {y}
        /\ owned' \cap {} = {} /\ {y} \cap (O \ {r}) = {}
        /\ \A z \in owned' : z.small => z \in owned \ {r}
    BY <1>2, <1>4, <1>11, <1>13, <2>1
  <2>3. Book(owned')
    BY <1>3, <1>8, <1>13, <2>1 DEF Book
  <2>4. taken' \subseteq Chunks
    BY <1>1, <1>3
  <2> QED
    BY <1>1, <1>11, <1>17, <1>20, <2>2, <2>3, <2>4 DEF RunStep, O, D, U
<1>22. zeroed'
  <2>1. Clean(A.map[r.c], TouchedIn(T, r.c), next, size)
    BY <1>6 DEF FreeAt, size
  <2>2. ASSUME NEW z \in next .. next + k - 1, <<r.c, z>> \in T
        PROVE  z \in arena_run_zero(A, r.c, next, k)
    <3>1. z \in Span(next, size) /\ z \in Pages
      BY <1>7, <1>9, ArenaRunsAssumption DEF Span, Pages
    <3>2. z \in TouchedIn(T, r.c)
      BY <2>2, <3>1 DEF TouchedIn
    <3> QED
      BY <2>1, <3>1, <3>2 DEF Clean, arena_run_zero
  <2>3. PagesOf(r.c, next, k) \cap T \subseteq {r.c} \X arena_run_zero(A, r.c, next, k)
    BY <2>2 DEF PagesOf
  <2> QED
    BY <1>1, <1>2, <2>3
<1> QED
  BY <1>2, <1>19, <1>21, <1>22, RunNext, SMTT(40)

-----------------------------------------------------------------------------
(* A run is cut from a free run that was found, or brought in.             *)

\* The arena is A when thread t, which holds nothing, takes n pages at i.
Ready(t, A, tl, c, i, n) ==
    /\ Locked(t) /\ HandOf(jobs[t]) = {}
    /\ IsArena(A) /\ tl \subseteq Chunks /\ Ledger(A, tl, touched, Out(jobs, owned))
    /\ Quiet(arena, A, Out(jobs, owned)) /\ Book(Out(jobs, owned)) /\ Book(owned)
    /\ owned \subseteq Out(jobs, owned)
    /\ c \in Chunks /\ i \in Avail(A, c) /\ n \in Nat \ {0} /\ n <= A.map[c][i].size

\* The run x is cut out of A, which becomes B.
CutOut(A, B, tl, x) ==
    /\ IsArena(B) /\ Ledger(B, tl, touched, Out(jobs, owned) \cup {x}) /\ x \notin Out(jobs, owned)
    /\ Quiet(arena, B, Out(jobs, owned)) /\ CleanRun(B, touched, x) /\ RunFacts(B, x)
    /\ Book(Out(jobs, owned) \cup {x})

LEMMA ReadyCut ==
    ASSUME NEW t, NEW A, NEW tl, NEW c, NEW i, NEW n, Ready(t, A, tl, c, i, n),
           NEW small \in BOOLEAN, NEW B,
           \/ ~small /\ B = arena_run_split_large(A, c, i, n)
           \/ small /\ n = SmallPages /\ B = arena_run_split_small(A, c, i, n),
           NEW x, x = Run(c, i, n, small)
    PROVE  CutOut(A, B, tl, x)
<1> DEFINE T == touched
           O == Out(jobs, owned)
<1>1. /\ IsArena(A) /\ Ledger(A, tl, T, O) /\ Quiet(arena, A, O) /\ Book(O)
      /\ c \in Chunks /\ i \in Avail(A, c) /\ n \in Nat \ {0} /\ n <= A.map[c][i].size
  BY DEF Ready
<1> HIDE DEF O
<1>2. NewRun(A, B, tl, T, O, x)
  BY <1>1, LedgerSplit
<1>3. /\ IsArena(B) /\ Ledger(B, tl, T, O \cup {x}) /\ x \notin O
      /\ Quiet(A, B, O) /\ Clean(B.map[x.c], TouchedIn(T, x.c), x.i, x.n)
      /\ x.i \in Pages /\ x.n \in Nat \ {0} /\ x.i + x.n - 1 <= NPages
  BY <1>2 DEF NewRun
<1>4. x.c = c /\ x.small = small /\ x = Run(x.c, x.i, x.n, x.small)
  BY DEF Run
<1>5. Book(O \cup {x})
  BY <1>1, <1>4 DEF Book
<1>6. PICK P : P = O \cup {x}
  OBVIOUS
<1>7. Ledger(B, tl, T, P) /\ Book(P) /\ x \in P /\ x.i # 0
  BY <1>3, <1>5, <1>6 DEF Pages
<1>8. RunFacts(B, x)
  BY <1>7, RunKnown
<1>9. CleanRun(B, T, x)
  <2>1. ASSUME NEW k \in Span(x.i, x.n) PROVE k \in Pages
    BY <1>3, ArenaRunsAssumption DEF Span, Pages
  <2> QED
    BY <1>3, <2>1 DEF Clean, CleanRun, ZeroRun, RunSpan, TouchedIn
<1>10. Quiet(arena, B, O)
  <2>1. \A s \in O : s \in O
    OBVIOUS
  <2> QED
    BY <1>1, <1>3, <2>1, QuietTwice
<1> QED
  BY <1>3, <1>5, <1>8, <1>9, <1>10 DEF CutOut, O

\* What the caller of a free run is told about zeros is true.
LEMMA FreeTold ==
    ASSUME NEW t, NEW A, NEW tl, NEW c, NEW i, NEW n, Ready(t, A, tl, c, i, n)
    PROVE  PagesOf(c, i, n) \cap touched \subseteq {c} \X arena_run_zero(A, c, i, n)
<1> DEFINE T == touched
           O == Out(jobs, owned)
           m == A.map[c]
<1>1. /\ Ledger(A, tl, T, O)
      /\ c \in Chunks /\ i \in Avail(A, c) /\ n \in Nat \ {0} /\ n <= m[i].size
  BY DEF Ready
<1>2. FreeAt(m, TouchedIn(T, c), i)
  <2>1. Avail(A, c) # {}
    BY <1>1
  <2>2. CutUp(A, c, tl, T, O)
    BY <1>1, <2>1, AvailChunk
  <2> QED
    BY <1>1, <2>2 DEF CutUp, View, Layout
<1>3. PICK z : z = m[i].size
  OBVIOUS
<1>4. z \in Nat /\ i \in Pages /\ i + z - 1 <= NPages /\ Clean(m, TouchedIn(T, c), i, z) /\ n <= z
  BY <1>1, <1>2, <1>3 DEF FreeAt
<1>5. ASSUME NEW k \in i .. i + n - 1, <<c, k>> \in T
      PROVE  k \in arena_run_zero(A, c, i, n)
  <2>1. k \in Span(i, z) /\ k \in Pages
    BY <1>1, <1>4, ArenaRunsAssumption DEF Span, Pages
  <2>2. k \in TouchedIn(T, c)
    BY <1>5, <2>1 DEF TouchedIn
  <2> QED
    BY <1>4, <2>1, <2>2 DEF Clean, arena_run_zero
<1> QED
  BY <1>5 DEF PagesOf

LEMMA TakeSmall ==
    ASSUME Inv, NEW t \in Threads, NEW A, NEW c, NEW i, Ready(t, A, taken', c, i, SmallPages),
           Continue(t, arena_run_split_small(A, c, i, SmallPages), <<>>),
           owned' = owned \cup {[c |-> c, i |-> i, n |-> SmallPages, small |-> TRUE]},
           UNCHANGED <<touched, zeroed>>
    PROVE  Inv'
<1> DEFINE T == touched
           O == Out(jobs, owned)
<1>1. PICK js, x, small, n : /\ js = <<>> /\ small = TRUE /\ n = SmallPages
                             /\ x = Run(c, i, n, small)
  OBVIOUS
<1>2. /\ arena' = arena_run_split_small(A, c, i, n) /\ jobs' = SetJobs(jobs, t, js)
      /\ owned' = owned \cup {x} /\ touched' = touched /\ zeroed' = zeroed
  BY <1>1 DEF Continue, SetJobs, Run
<1>3. /\ Locked(t) /\ HandOf(jobs[t]) = {} /\ taken' \subseteq Chunks /\ Book(owned)
      /\ owned \subseteq O
  BY DEF Ready
<1>4. small \in BOOLEAN /\ small /\ Ready(t, A, taken', c, i, n)
  BY <1>1
<1>5. CutOut(A, arena', taken', x)
  BY <1>1, <1>2, <1>4, ReadyCut
<1>6. /\ IsArena(arena') /\ Ledger(arena', taken', T, O \cup {x}) /\ x \notin O
      /\ Quiet(arena, arena', O) /\ CleanRun(arena', T, x) /\ Book(O \cup {x})
  BY <1>5 DEF CutOut
<1>7. Same(arena, arena', T, T, O)
  BY <1>6, QuietSame
<1>8. Queued(js, {}, arena', T)
  BY <1>1, EmptyFollow, FollowNoStash DEF Queued
<1> HIDE DEF O
<1>9. RunStep(arena', touched', taken', owned', js, {}, t, {}, {x})
  <2>1. /\ {} \subseteq owned \cup HandOf(jobs[t])
        /\ owned' \cup {} = ((owned \cup HandOf(jobs[t])) \ {}) \cup {x}
        /\ owned' \cap {} = {} /\ {x} \cap (O \ {}) = {}
        /\ \A y \in owned' : y \in owned \ {} \/ CleanRun(arena', T, y)
    BY <1>2, <1>3, <1>6
  <2>2. Book(owned')
    BY <1>2, <1>3, <1>6 DEF Book
  <2>3. (O \ {}) \cup {x} = O \cup {x} /\ O \ {} = O
    OBVIOUS
  <2>4. Ledger(arena', taken', T, (O \ {}) \cup {x}) /\ Same(arena, arena', T, T, O \ {})
    BY <1>6, <1>7, <2>3
  <2> QED
    BY <1>2, <1>3, <1>6, <1>8, <2>1, <2>2, <2>4 DEF RunStep, O
<1>10. zeroed'
  BY <1>2 DEF Inv
<1> QED
  BY <1>2, <1>3, <1>9, <1>10, RunNext

LEMMA TakeLarge ==
    ASSUME Inv, NEW t \in Threads, NEW A, NEW c, NEW i, NEW n, Ready(t, A, taken', c, i, n),
           NEW zero, Continue(t, arena_run_split_large(A, c, i, n), <<>>),
           Deliver(c, i, n, zero, arena_run_zero(A, c, i, n))
    PROVE  Inv'
<1> DEFINE T == touched
           U == touched'
           O == Out(jobs, owned)
<1>1. PICK js, x, small : js = <<>> /\ small = FALSE /\ x = Run(c, i, n, small)
  OBVIOUS
<1>2. /\ arena' = arena_run_split_large(A, c, i, n) /\ jobs' = SetJobs(jobs, t, js)
      /\ owned' = owned \cup {x} /\ U = T \cup PagesOf(c, i, n)
      /\ zeroed' = (zeroed /\ (zero => PagesOf(c, i, n) \cap T
                                         \subseteq {c} \X arena_run_zero(A, c, i, n)))
  BY <1>1 DEF Continue, SetJobs, Run, Deliver
<1>3. /\ Locked(t) /\ HandOf(jobs[t]) = {} /\ taken' \subseteq Chunks /\ Book(owned)
      /\ owned \subseteq O
  BY DEF Ready
<1>4. small \in BOOLEAN /\ ~small
  BY <1>1
<1>5. CutOut(A, arena', taken', x)
  BY <1>1, <1>2, <1>4, ReadyCut
<1> HIDE DEF U
<1>6. /\ IsArena(arena') /\ Ledger(arena', taken', T, O \cup {x}) /\ x \notin O
      /\ Quiet(arena, arena', O) /\ Book(O \cup {x}) /\ RunFacts(arena', x)
  BY <1>5 DEF CutOut
<1>7. x.c = c /\ x.i = i /\ x.n = n /\ x.small = FALSE
  BY <1>1 DEF Run
<1> HIDE DEF O
<1>8. PICK P : P = O \cup {x}
  OBVIOUS
<1>9. Wrote(arena', taken', T, U, P, x)
  <2>1. /\ x.c \in Chunks /\ x.i # 0 /\ x.n \in Nat /\ x.i \in Nat
    BY <1>6 DEF RunFacts
  <2>2. x \in P /\ Ledger(arena', taken', T, P) /\ n \in Nat /\ n <= x.n
        /\ U = T \cup PagesOf(x.c, x.i, n)
    BY <1>2, <1>6, <1>7, <1>8, <2>1
  <2> QED
    BY <2>1, <2>2, WriteRun
<1>10. Ledger(arena', taken', U, O \cup {x}) /\ Same(arena, arena', T, U, O)
  <2>1. P \ {x} = O
    BY <1>6, <1>8
  <2>2. Ledger(arena', taken', U, P) /\ Same(arena', arena', T, U, O)
    BY <1>9, <2>1 DEF Wrote
  <2>3. Same(arena, arena', T, T, O) /\ O \subseteq O
    BY <1>6, QuietSame
  <2>4. Same(arena, arena', T, U, O)
    BY <2>2, <2>3, SameTwice
  <2> QED
    BY <1>8, <2>2, <2>4
<1>11. Queued(js, {}, arena', U)
  BY <1>1, EmptyFollow, FollowNoStash DEF Queued
<1>12. RunStep(arena', touched', taken', owned', js, {}, t, {}, {x})
  <2>1. /\ {} \subseteq owned \cup HandOf(jobs[t])
        /\ owned' \cup {} = ((owned \cup HandOf(jobs[t])) \ {}) \cup {x}
        /\ owned' \cap {} = {} /\ {x} \cap (O \ {}) = {}
        /\ \A y \in owned' : y.small => y \in owned \ {}
    BY <1>2, <1>3, <1>6, <1>7
  <2>2. Book(owned')
    BY <1>2, <1>3, <1>6 DEF Book
  <2>3. (O \ {}) \cup {x} = O \cup {x} /\ O \ {} = O
    OBVIOUS
  <2>4. Ledger(arena', taken', U, (O \ {}) \cup {x}) /\ Same(arena, arena', T, U, O \ {})
    BY <1>10, <2>3
  <2> QED
    BY <1>3, <1>6, <1>11, <2>1, <2>2, <2>4 DEF RunStep, O, U
<1>13. zeroed'
  <2>1. PagesOf(c, i, n) \cap touched \subseteq {c} \X arena_run_zero(A, c, i, n)
    BY FreeTold
  <2> QED
    BY <1>2, <2>1 DEF Inv
<1> QED
  BY <1>2, <1>3, <1>12, <1>13, RunNext

\* The run x is cut out for an aligned allocation, and its leading pages go back.
LEMMA LeadTrimmed ==
    ASSUME NEW A, NEW B, NEW tl, NEW x, CutOut(A, B, tl, x), ~x.small,
           NEW lead \in 0 .. 1, lead < x.n,
           NEW g, g = TrimLead(B, x.c, x.i, x.n, lead),
           NEW O, O = Out(jobs, owned),
           NEW rest, rest = Run(x.c, x.i + lead, x.n - lead, FALSE)
    PROVE  Trimmed(B, g, tl, touched, O \cup {x}, x, rest)
<1> DEFINE T == touched
<1>1. PICK P : P = O \cup {x}
  OBVIOUS
<1>2. IsArena(B) /\ Ledger(B, tl, T, P) /\ CleanRun(B, T, x) /\ RunFacts(B, x) /\ Book(P) /\ x \in P
  BY <1>1 DEF CutOut
<1>3. /\ x.c \in Chunks /\ x.i \in Nat /\ x.i # 0 /\ x.n \in Nat \ {0}
      /\ x = Run(x.c, x.i, x.n, x.small) /\ x.small = FALSE
  BY <1>2 DEF RunFacts
<1>4. CASE lead = 0
  <2>1. x.i + lead = x.i /\ x.n - lead = x.n
    BY <1>3, <1>4
  <2>2. rest = x
    BY <1>3, <2>1
  <2>3. g.a = B /\ g.then = <<>>
    BY <1>4 DEF TrimLead
  <2>4. Trimmed(B, g, tl, T, P, x, x)
    BY <1>2, <2>3, TrimNothing
  <2> QED
    BY <1>1, <2>2, <2>4
<1>5. CASE lead # 0
  <2>1. lead \in Nat \ {0} /\ x.n - (x.n - lead) = lead
    BY <1>3, <1>5
  <2>2. PICK d, p : d = FALSE /\ p = HeadOf(x, lead)
    OBVIOUS
  <2>3. p.c = x.c /\ p.i = x.i /\ rest = TailOf(x, lead)
    BY <2>2 DEF HeadOf, TailOf, Run
  <2>4. d \in BOOLEAN
    BY <2>2
  <2>5. g = arena_run_dalloc(CutLarge(B, x.c, x.i, x.n, lead), p.c, p.i, d, FALSE)
    <3>1. g = arena_run_trim_head(B, x.c, x.i, x.n, x.n - lead)
      BY <1>5 DEF TrimLead
    <3>2. g = arena_run_dalloc(CutLarge(B, x.c, x.i, x.n, x.n - (x.n - lead)), x.c, x.i, FALSE, FALSE)
      BY <3>1 DEF arena_run_trim_head
    <3> QED
      BY <2>1, <2>2, <2>3, <3>2
  <2>6. Trimmed(B, g, tl, T, P, x, rest)
    BY <1>2, <1>3, <2>1, <2>2, <2>3, <2>4, <2>5, TrimRun
  <2> QED
    BY <1>1, <2>6
<1> QED
  BY <1>4, <1>5

LEMMA TakeTrim ==
    ASSUME Inv, NEW t \in Threads, NEW A, NEW c, NEW i, NEW n \in Nat \ {0}, NEW m, m = n + 1,
           Ready(t, A, taken', c, i, m), NEW zero \in BOOLEAN,
           NEW lead \in 0 .. 1, NEW trail, trail = 1 - lead,
           GoOn(t, TrimLead(arena_run_split_large(A, c, i, m), c, i, m, lead),
                <<[do |-> "trim", c |-> c, i |-> i + lead, n |-> n, trail |-> trail,
                   zero |-> zero]>>),
           UNCHANGED <<owned, touched, zeroed>>
    PROVE  Inv'
<1> DEFINE T == touched
           O == Out(jobs, owned)
           e == [do |-> "trim", c |-> c, i |-> i + lead, n |-> n, trail |-> trail, zero |-> zero]
<1>1. PICK B, g, x, small, f, js, rest, k :
        /\ B = arena_run_split_large(A, c, i, m) /\ g = TrimLead(B, c, i, m, lead)
        /\ small = FALSE /\ x = Run(c, i, m, small) /\ f = <<e>> /\ js = g.then \o f
        /\ k = m - lead /\ rest = Run(c, i + lead, k, FALSE)
  OBVIOUS
<1>2. /\ arena' = g.a /\ jobs' = SetJobs(jobs, t, js)
      /\ owned' = owned /\ touched' = touched /\ zeroed' = zeroed
  BY <1>1 DEF GoOn, Continue, SetJobs
<1>3. /\ Locked(t) /\ HandOf(jobs[t]) = {} /\ taken' \subseteq Chunks /\ Book(owned)
      /\ owned \subseteq O
  BY DEF Ready
<1>4. small \in BOOLEAN /\ ~small
  BY <1>1
<1>5. CutOut(A, B, taken', x)
  BY <1>1, <1>4, ReadyCut
<1>6. Quiet(arena, B, O) /\ x \notin O /\ CleanRun(B, T, x) /\ RunFacts(B, x)
  BY <1>5 DEF CutOut
<1>7. x.c = c /\ x.i = i /\ x.n = m /\ x.small = FALSE
  BY <1>1 DEF Run
<1>8. c \in Chunks /\ i \in Nat \ {0} /\ i + m - 1 <= NPages
  BY <1>6, <1>7 DEF RunFacts
<1>9. /\ lead < x.n /\ n + trail = k /\ i + lead \in Pages /\ trail \in Nat
  BY <1>1, <1>7, <1>8, ArenaRunsAssumption DEF Pages
<1> HIDE DEF O, e
<1>10. Trimmed(B, g, taken', T, O \cup {x}, x, rest)
  <2>1. PICK Q : Q = O
    OBVIOUS
  <2>2. /\ g = TrimLead(B, x.c, x.i, x.n, lead) /\ Q = Out(jobs, owned)
        /\ rest = Run(x.c, x.i + lead, x.n - lead, FALSE) /\ ~x.small
    BY <1>1, <1>7, <2>1 DEF O
  <2>3. Trimmed(B, g, taken', T, Q \cup {x}, x, rest)
    BY <1>5, <1>9, <2>2, LeadTrimmed
  <2> QED
    BY <2>1, <2>3
<1>11. (O \cup {x}) \ {x} = O
  BY <1>6
<1>12. /\ IsArena(g.a) /\ Quiet(B, g.a, O) /\ Ledger(g.a, taken', T, O \cup {rest}) /\ rest \notin O
       /\ Bare(g.then) /\ CleanRun(g.a, T, rest)
  BY <1>6, <1>10, <1>11 DEF Trimmed, Bare
<1>13. Same(arena, g.a, T, T, O)
  <2>1. \A s \in O : s \in O
    OBVIOUS
  <2>2. Quiet(arena, g.a, O)
    BY <1>6, <1>12, <2>1, QuietTwice
  <2> QED
    BY <2>2, QuietSame
<1>14. /\ e.do = "trim" /\ e.c = c /\ e.i = i + lead /\ e.n = n /\ e.trail = trail /\ e.zero = zero
  BY DEF e
<1>15. JobOK(e) /\ JobRuns(e) = {rest} /\ JobZero(g.a, T, e)
  <2>1. JobOK(e)
    BY <1>8, <1>9, <1>14 DEF JobOK
  <2>2. JobRuns(e) = {rest}
    BY <1>1, <1>9, <1>14 DEF JobRuns
  <2>3. JobZero(g.a, T, e)
    BY <1>12, <1>14, <2>2 DEF JobZero
  <2> QED
    BY <2>1, <2>2, <2>3
<1>16. Follow(f) /\ HandOf(f) = {rest} /\ JobsZero(g.a, T, f)
  BY <1>1, <1>14, <1>15, OneFollow, OneJob
<1>17. Queued(js, {rest}, g.a, T)
  <2>1. PICK H : H = {rest}
    OBVIOUS
  <2>2. Queued(js, H, g.a, T)
    BY <1>1, <1>12, <1>16, <2>1, BareThen
  <2> QED
    BY <2>1, <2>2
<1>18. RunStep(arena', touched', taken', owned', js, {rest}, t, {}, {rest})
  <2>1. /\ {} \subseteq owned \cup HandOf(jobs[t])
        /\ owned' \cup {rest} = ((owned \cup HandOf(jobs[t])) \ {}) \cup {rest}
        /\ owned' \cap {rest} = {} /\ {rest} \cap (O \ {}) = {}
        /\ \A y \in owned' : y \in owned \ {}
    BY <1>2, <1>3, <1>12
  <2>2. (O \ {}) \cup {rest} = O \cup {rest} /\ O \ {} = O
    OBVIOUS
  <2>3. Ledger(arena', taken', T, (O \ {}) \cup {rest}) /\ Same(arena, arena', T, T, O \ {})
    BY <1>2, <1>12, <1>13, <2>2
  <2> QED
    BY <1>2, <1>3, <1>12, <1>17, <2>1, <2>3 DEF RunStep, O
<1>19. zeroed'
  BY <1>2 DEF Inv
<1> QED
  BY <1>2, <1>3, <1>18, <1>19, RunNext

LEMMA LeadIs ==
    ASSUME NEW i \in Nat
    PROVE  (-i) % 2 \in 0 .. 1
  OBVIOUS

Wants(j) ==
    /\ j.kind \in {"small", "large"} /\ j.zero \in BOOLEAN
    /\ j.n \in Pages /\ j.al \in 1 .. 2 /\ j.n + j.al - 1 <= NPages
    /\ j.kind = "small" => j.n = SmallPages /\ j.al = 1

LEMMA TakeInv ==
    ASSUME Inv, NEW t \in Threads, NEW j, Wants(j), NEW A, NEW c, NEW i,
           NEW m, m = j.n + j.al - 1, Ready(t, A, taken', c, i, m), Take(t, A, c, i, j)
    PROVE  Inv'
<1>1. /\ j.kind \in {"small", "large"} /\ j.zero \in BOOLEAN
      /\ j.n \in Nat \ {0} /\ j.al \in 1 .. 2
      /\ j.kind = "small" => j.n = SmallPages /\ j.al = 1
  BY ArenaRunsAssumption DEF Wants, Pages
<1>2. CASE j.kind = "small"
  <2>1. m = SmallPages /\ j.n = SmallPages
    BY <1>1, <1>2, ArenaRunsAssumption
  <2>2. /\ Continue(t, arena_run_split_small(A, c, i, j.n), <<>>)
        /\ owned' = owned \cup {[c |-> c, i |-> i, n |-> j.n, small |-> TRUE]}
        /\ UNCHANGED <<touched, zeroed>>
    BY <1>2 DEF Take
  <2> QED
    BY <2>1, <2>2, TakeSmall
<1>3. CASE j.kind = "large" /\ j.al = 1
  <2>1. m = j.n
    BY <1>1, <1>3
  <2>2. /\ Continue(t, arena_run_split_large(A, c, i, j.n), <<>>)
        /\ Deliver(c, i, j.n, j.zero, arena_run_zero(A, c, i, j.n))
    BY <1>3 DEF Take
  <2>3. /\ Continue(t, arena_run_split_large(A, c, i, m), <<>>)
        /\ Deliver(c, i, m, j.zero, arena_run_zero(A, c, i, m))
    BY <2>1, <2>2
  <2> QED
    BY <2>3, TakeLarge
<1>4. CASE j.kind = "large" /\ j.al # 1
  <2>1. j.al = 2 /\ j.al - 1 = 1
    BY <1>1, <1>4
  <2>2. PICK n, lead, trail : n = j.n /\ lead = (-i) % 2 /\ trail = 1 - lead
    OBVIOUS
  <2>3. /\ GoOn(t, TrimLead(arena_run_split_large(A, c, i, n + j.al - 1), c, i, n + j.al - 1, lead),
                <<[do |-> "trim", c |-> c, i |-> i + lead, n |-> n,
                   trail |-> j.al - 1 - lead, zero |-> j.zero]>>)
        /\ UNCHANGED <<owned, touched, zeroed>>
    BY <1>4, <2>1, <2>2 DEF Take
  <2>4. i \in Nat
    BY ArenaRunsAssumption DEF Ready, Avail, Pages
  <2>5. lead \in 0 .. 1
    BY <2>2, <2>4, LeadIs
  <2>6. n + j.al - 1 = m /\ m = n + 1 /\ j.al - 1 - lead = trail
    BY <1>1, <2>1, <2>2, <2>5
  <2>7. GoOn(t, TrimLead(arena_run_split_large(A, c, i, m), c, i, m, lead),
             <<[do |-> "trim", c |-> c, i |-> i + lead, n |-> n, trail |-> trail,
                zero |-> j.zero]>>)
    BY <2>3, <2>6
  <2>8. PICK zero : zero = j.zero
    OBVIOUS
  <2>9. GoOn(t, TrimLead(arena_run_split_large(A, c, i, m), c, i, m, lead),
             <<[do |-> "trim", c |-> c, i |-> i + lead, n |-> n, trail |-> trail,
                zero |-> zero]>>)
    BY <2>7, <2>8
  <2>10. n \in Nat \ {0} /\ m = n + 1 /\ zero \in BOOLEAN /\ trail = 1 - lead
    BY <1>1, <2>2, <2>6, <2>8
  <2>11. UNCHANGED <<owned, touched, zeroed>>
    BY <2>3
  <2> QED
    BY <2>5, <2>9, <2>10, <2>11, TakeTrim
<1> QED
  BY <1>1, <1>2, <1>3, <1>4

\* What the thread has before it looks for a free run.
Before(t, tl) ==
    /\ Locked(t) /\ HandOf(jobs[t]) = {}
    /\ IsArena(arena) /\ tl \subseteq Chunks /\ Ledger(arena, taken, touched, Out(jobs, owned))
    /\ Book(Out(jobs, owned)) /\ Book(owned) /\ owned \subseteq Out(jobs, owned)

LEMMA FoundInv ==
    ASSUME Inv, NEW t \in Threads, Before(t, taken), taken' = taken, NEW j, Wants(j), Found(t, arena, j)
    PROVE  Inv'
<1>1. PICK m : m = j.n + j.al - 1
  OBVIOUS
<1>2. PICK r \in BestFits(arena, m) : Take(t, arena, r[1], r[2], j)
  BY <1>1 DEF Found
<1>3. r \in arena.avail /\ arena.map[r[1]][r[2]].size >= m
  BY <1>2 DEF BestFits
<1>4. PICK c, i : c = r[1] /\ i = r[2]
  OBVIOUS
<1>5. c \in Chunks /\ i \in Pages /\ r = <<c, i>>
  BY <1>3, <1>4 DEF Before, IsArena
<1>6. i \in Avail(arena, c)
  BY <1>3, <1>5 DEF Avail
<1>7. m \in Nat \ {0}
  BY <1>1, ArenaRunsAssumption DEF Wants, Pages
<1>8. arena.map[c][i].size \in 0 .. NPages
  BY <1>5, ElemType DEF Before
<1>9. m <= arena.map[c][i].size
  BY <1>3, <1>4, <1>7, <1>8, ArenaRunsAssumption
<1>10. Ready(t, arena, taken', c, i, m)
  BY <1>5, <1>6, <1>7, <1>9 DEF Before, Ready, Quiet
<1>11. Take(t, arena, c, i, j)
  BY <1>2, <1>4
<1> QED
  BY <1>1, <1>10, <1>11, TakeInv

\* A chunk that is free as a whole came into the tree.
LEMMA OpenedInv ==
    ASSUME Inv, NEW t \in Threads, NEW tl, Before(t, tl), taken' = tl, NEW j, Wants(j),
           NEW B, NEW c \in Chunks, Opened(arena, B, c, tl, touched, Out(jobs, owned)),
           Take(t, B, c, 1, j)
    PROVE  Inv'
<1>1. PICK m, i : m = j.n + j.al - 1 /\ i = 1
  OBVIOUS
<1>2. m \in Nat \ {0} /\ m <= NPages
  BY <1>1, ArenaRunsAssumption DEF Wants, Pages
<1>3. Ready(t, B, taken', c, i, m)
  BY <1>1, <1>2 DEF Before, Ready, Opened
<1>4. Take(t, B, c, i, j)
  BY <1>1
<1> QED
  BY <1>1, <1>3, <1>4, TakeInv

\* Nothing but the jobs of t, which hold no run, changes.
LEMMA JobsOnly ==
    ASSUME Inv, NEW t \in Threads, Before(t, taken), NEW js, Queue(js), NoStash(js), HandOf(js) = {},
           JobsZero(arena, touched, js), Continue(t, arena, js),
           UNCHANGED <<taken, owned, touched, zeroed>>
    PROVE  Inv'
<1> DEFINE A == arena
           T == touched
           O == Out(jobs, owned)
<1>1. /\ arena' = A /\ jobs' = SetJobs(jobs, t, js)
      /\ taken' = taken /\ owned' = owned /\ touched' = touched /\ zeroed' = zeroed
  BY DEF Continue, SetJobs
<1>2. /\ IsArena(A) /\ Ledger(A, taken, T, O) /\ owned \subseteq O
      /\ taken \subseteq Chunks /\ Book(owned) /\ Locked(t) /\ HandOf(jobs[t]) = {}
  BY DEF Before
<1> HIDE DEF O
<1>3. Same(A, A, T, T, O)
  BY DEF Same
<1>4. Stepped(A, arena', taken', jobs, owned, owned', T, touched', t, js, {}, {})
  <2>1. /\ {} \subseteq owned \cup HandOf(jobs[t])
        /\ owned' \cup HandOf(js) = ((owned \cup HandOf(jobs[t])) \ {}) \cup {}
        /\ owned' \cap HandOf(js) = {} /\ {} \cap (O \ {}) = {}
        /\ \A y \in owned' : y \in owned \ {}
    BY <1>1, <1>2
  <2>2. (O \ {}) \cup {} = O /\ O \ {} = O
    OBVIOUS
  <2>3. Ledger(A, taken, T, (O \ {}) \cup {}) /\ Same(A, A, T, T, O \ {})
    BY <1>2, <1>3, <2>2
  <2> QED
    BY <1>1, <1>2, <2>1, <2>3 DEF Stepped, O
<1>5. OnWalk(arena', taken', lock', (Out(jobs, owned) \ {}) \cup {}, t, js)
  BY NoWalk
<1>6. zeroed'
  BY <1>1 DEF Inv
<1> QED
  BY <1>1, <1>2, <1>4, <1>5, <1>6, LockedNext

LEMMA RunAllocInv ==
    ASSUME Inv, NEW t \in Threads, NEW kind, NEW n, NEW al, NEW zero \in BOOLEAN,
           \/ kind = "large" /\ n \in Pages /\ al \in 1 .. 2
           \/ kind = "small" /\ n = SmallPages /\ al = 1,
           arena_run_alloc(t, kind, n, al, zero)
    PROVE  Inv'
<1> DEFINE A == arena
           j == [do |-> "newchunk", kind |-> kind, n |-> n, al |-> al, zero |-> zero]
           B == arena_avail_insert([arena EXCEPT !.spare = None], arena.spare, 1, NPages,
                                   FALSE, FALSE)
<1>1. /\ Idle(t) /\ n + al - 1 <= NPages /\ taken' = taken
      /\ \/ Found(t, arena, j)
         \/ arena.spare # None /\ Take(t, B, arena.spare, 1, j)
         \/ Continue(t, arena, <<j>>) /\ UNCHANGED <<owned, touched, zeroed>>
  BY DEF arena_run_alloc
<1> HIDE DEF B
<1>2. Known(A, taken, jobs, owned, touched, t) /\ HandOf(jobs[t]) = {} /\ Locked(t)
  BY <1>1, IdleKnown
<1>3. Before(t, taken)
  BY <1>2 DEF Known, Before
<1>4. /\ j.do = "newchunk" /\ j.kind = kind /\ j.n = n /\ j.al = al /\ j.zero = zero
  OBVIOUS
<1> HIDE DEF j
<1>5. Wants(j)
  BY <1>1, <1>4, ArenaRunsAssumption DEF Wants, Pages
<1>6. CASE Found(t, arena, j)
  BY <1>1, <1>3, <1>5, <1>6, FoundInv
<1>7. CASE arena.spare # None /\ Take(t, B, arena.spare, 1, j)
  <2>1. PICK c : c = arena.spare
    OBVIOUS
  <2>2. c \in Chunks /\ Take(t, B, c, 1, j)
    BY <1>3, <1>7, <2>1 DEF Before, IsArena
  <2>3. B = arena_avail_insert([arena EXCEPT !.spare = None], c, 1, NPages, FALSE, FALSE)
    BY <2>1 DEF B
  <2>4. PICK O : O = Out(jobs, owned)
    OBVIOUS
  <2>5. IsArena(A) /\ Ledger(A, taken, touched, O) /\ Book(O)
    BY <1>3, <2>4 DEF Before
  <2>6. Opened(A, B, c, taken, touched, O)
    BY <2>1, <2>2, <2>3, <2>5, LedgerSpare
  <2>7. Opened(arena, B, c, taken, touched, Out(jobs, owned))
    BY <2>4, <2>6
  <2> QED
    BY <1>1, <1>3, <1>5, <2>2, <2>7, OpenedInv
<1>8. CASE Continue(t, arena, <<j>>) /\ UNCHANGED <<owned, touched, zeroed>>
  <2>1. PICK js : js = <<j>>
    OBVIOUS
  <2>2. JobOK(j) /\ JobRuns(j) = {} /\ JobZero(A, touched, j)
    BY <1>4, <1>5 DEF JobOK, JobRuns, JobZero, Wants
  <2>3. Queue(js)
    BY <2>1, <2>2, OneFollow
  <2>4. DOMAIN js = {1} /\ js[1] = j /\ HandOf(js) = {} /\ JobsZero(A, touched, js)
    BY <2>1, <2>2, OneJob
  <2>5. NoStash(js)
    BY <1>4, <2>4 DEF NoStash
  <2>6. Continue(t, arena, js) /\ UNCHANGED <<taken, owned, touched, zeroed>>
    BY <1>1, <1>8, <2>1
  <2> QED
    BY <1>3, <2>3, <2>4, <2>5, <2>6, JobsOnly
<1> QED
  BY <1>1, <1>6, <1>7, <1>8

LEMMA ChunkAllocInv ==
    ASSUME Inv, NEW t \in Threads, arena_chunk_alloc(t)
    PROVE  Inv'
<1> DEFINE A == arena
           j == This(t)
           B(c, zero) == arena_avail_insert(arena_chunk_init_hard(arena, c, zero),
                                            c, 1, NPages, FALSE, FALSE)
<1>1. /\ jobs[t] # <<>> /\ j.do = "newchunk" /\ Locked(t)
      /\ \/ \E c \in Chunks \ taken, zero \in BOOLEAN :
               /\ zero => touched \cap ({c} \X Pages) = {}
               /\ taken' = taken \cup {c} /\ Take(t, B(c, zero), c, 1, j)
         \/ Found(t, arena, j) /\ taken' = taken
         \/ Continue(t, arena, <<>>) /\ UNCHANGED <<taken, owned, touched, zeroed>>
  BY DEF arena_chunk_alloc, Job, This
<1>2. PICK s : s = Tail(jobs[t])
  OBVIOUS
<1>3. Known(A, taken, jobs, owned, touched, t) /\ At(t, j, s)
  BY <1>1, <1>2, JobKnown
<1> HIDE DEF j
<1>4. JobOK(j) /\ HandOf(jobs[t]) = JobRuns(j) \cup HandOf(s) /\ j = jobs[t][1] /\ 1 \in DOMAIN jobs[t]
  BY <1>3 DEF At
<1>5. HandOf(jobs[t]) = {}
  <2>1. JobRuns(j) = {}
    BY <1>1 DEF JobRuns
  <2>2. Queue(jobs[t])
    BY <1>3 DEF Known
  <2>3. Len(jobs[t]) = 1
    BY <1>1, <1>4, <2>2 DEF Queue
  <2>4. s = <<>>
    BY <1>2, <2>2, <2>3 DEF Queue, IsSeq
  <2> QED
    BY <1>4, <2>1, <2>4, EmptyFollow
<1>6. Before(t, taken)
  BY <1>1, <1>3, <1>5 DEF Known, Before
<1>7. Wants(j)
  BY <1>1, <1>4 DEF JobOK, Wants
<1>8. ASSUME NEW c \in Chunks \ taken, NEW zero \in BOOLEAN,
             zero => touched \cap ({c} \X Pages) = {},
             taken' = taken \cup {c}, Take(t, B(c, zero), c, 1, j)
      PROVE  Inv'
  <2>1. PICK D, O, tl : D = B(c, zero) /\ O = Out(jobs, owned) /\ tl = taken \cup {c}
    OBVIOUS
  <2>2. IsArena(A) /\ Ledger(A, taken, touched, O) /\ Book(O) /\ taken \subseteq Chunks
    BY <1>6, <2>1 DEF Before
  <2>3. D = arena_avail_insert(arena_chunk_init_hard(A, c, zero), c, 1, NPages, FALSE, FALSE)
    BY <2>1
  <2>4. c \in Chunks /\ c \notin taken
    OBVIOUS
  <2>5. Opened(A, D, c, taken \cup {c}, touched, O)
    BY <1>8, <2>2, <2>3, <2>4, LedgerInit
  <2>6. Opened(arena, D, c, tl, touched, Out(jobs, owned)) /\ taken' = tl /\ Take(t, D, c, 1, j)
    BY <1>8, <2>1, <2>5
  <2>7. Before(t, tl)
    BY <1>6, <2>1, <2>2, <2>4 DEF Before
  <2> QED
    BY <1>7, <2>4, <2>6, <2>7, OpenedInv
<1>9. CASE Found(t, arena, j) /\ taken' = taken
  BY <1>6, <1>7, <1>9, FoundInv
<1>10. CASE Continue(t, arena, <<>>) /\ UNCHANGED <<taken, owned, touched, zeroed>>
  <2>1. PICK js : js = <<>>
    OBVIOUS
  <2>2. Queue(js) /\ NoStash(js) /\ HandOf(js) = {} /\ JobsZero(arena, touched, js)
    BY <2>1, EmptyFollow, FollowNoStash
  <2>3. Continue(t, arena, js)
    BY <1>10, <2>1
  <2> QED
    BY <1>6, <1>10, <2>2, <2>3, JobsOnly
<1> QED
  BY <1>1, <1>8, <1>9, <1>10

-----------------------------------------------------------------------------
(* The invariant holds in every state.                                     *)

LEMMA InitInv ==
    ASSUME Init
    PROVE  Inv
<1>1. /\ arena.map = [c \in Chunks |-> [i \in Pages |->
                       [alloc |-> FALSE, large |-> FALSE, size |-> 0, dirty |-> FALSE, unz |-> FALSE]]]
      /\ arena.cnt = [c \in Chunks |-> [avail |-> 0, adjac |-> 0, dirty |-> 0]]
      /\ arena.avail = {} /\ arena.spare = None
      /\ arena = [map |-> arena.map, cnt |-> arena.cnt, avail |-> arena.avail, spare |-> arena.spare,
                  ndirty |-> arena.ndirty, nactive |-> arena.nactive,
                  npurgatory |-> arena.npurgatory]
      /\ taken = {} /\ jobs = [t \in Threads |-> <<>>]
      /\ owned = {} /\ touched = {} /\ zeroed
  BY DEF Init
<1>2. IsArena(arena)
  BY <1>1, ArenaRunsAssumption DEF IsArena, Bits
<1>3. \A t \in Threads : jobs[t] = <<>>
  BY <1>1
<1>4. \A t \in Threads : Queue(jobs[t]) /\ HandOf(jobs[t]) = {} /\ NoStash(jobs[t])
  BY <1>3, EmptyFollow, FollowNoStash
<1>5. \A t \in Threads : JobsZero(arena, touched, jobs[t])
  BY <1>3, EmptyFollow
<1>6. Out(jobs, owned) = {}
  BY <1>1, <1>4 DEF Out, Hands
<1>7. Ledger(arena, taken, touched, {})
  <2>1. ASSUME NEW c \in Chunks
        PROVE  ChunkOK(arena, c, TouchedIn(touched, c), c \in taken, RunsIn({}, c))
    <3>1. arena.cnt[c].dirty = 0 /\ Avail(arena, c) = {} /\ arena.spare # c
      BY <1>1, ArenaRunsAssumption DEF Avail, Chunks
    <3> QED
      BY <1>1, <3>1 DEF ChunkOK, Unused, RunsIn
  <2> QED
    BY <2>1 DEF Ledger
<1>8. Walks(arena, taken, lock, jobs, {})
  BY <1>4 DEF Walks, NoStash
<1>9. Apart(jobs, owned) /\ Zeros(arena, touched, jobs, owned) /\ Book(owned)
  BY <1>1, <1>4, <1>5 DEF Apart, Zeros, Book
<1>10. jobs = [t \in Threads |-> jobs[t]] /\ taken \subseteq Chunks
  BY <1>1
<1> QED
  BY <1>1, <1>2, <1>4, <1>6, <1>7, <1>8, <1>9, <1>10 DEF Inv, Good

LEMMA NextInv ==
    ASSUME Inv, [Next]_vars
    PROVE  Inv'
<1>1. ASSUME NEW t \in Threads, Operation(t)
      PROVE  Inv'
  <2>1. ASSUME NEW n \in Pages, NEW al \in 1 .. 2, NEW zero \in BOOLEAN,
               arena_run_alloc(t, "large", n, al, zero)
        PROVE  Inv'
    <3>1. PICK kind : kind = "large"
      OBVIOUS
    <3>2. arena_run_alloc(t, kind, n, al, zero)
      BY <2>1, <3>1
    <3> QED
      BY <3>1, <3>2, RunAllocInv
  <2>2. CASE arena_run_alloc(t, "small", SmallPages, 1, FALSE)
    <3>1. PICK kind, n, al, zero : kind = "small" /\ n = SmallPages /\ al = 1 /\ zero = FALSE
      OBVIOUS
    <3>2. arena_run_alloc(t, kind, n, al, zero) /\ zero \in BOOLEAN
      BY <2>2, <3>1
    <3> QED
      BY <3>1, <3>2, RunAllocInv
  <2>3. ASSUME NEW r \in Large, arena_dalloc_large(t, r)
        PROVE  Inv'
    BY <2>3, DallocLargeInv
  <2>4. ASSUME NEW r \in Small, NEW past \in 1 .. r.n, arena_dalloc_bin_run(t, r, past)
        PROVE  Inv'
    BY <2>4, BinRunInv
  <2>5. ASSUME NEW r \in Large, NEW n \in 1 .. r.n - 1, arena_ralloc_large_shrink(t, r, n)
        PROVE  Inv'
    BY <2>5, ShrinkInv
  <2>6. ASSUME NEW r \in Large, NEW n \in r.n .. NPages, NEW extra \in 0 .. 1, NEW zero \in BOOLEAN,
               arena_ralloc_large_grow(t, r, n, extra, zero)
        PROVE  Inv'
    BY <2>6, GrowInv
  <2>7. CASE arena_purge_all(t)
    BY <2>7, PurgeAllInv
  <2>8. CASE arena_chunk_alloc_huge(t)
    BY <2>8, AllocHugeInv
  <2>9. ASSUME NEW r \in Huge, arena_chunk_dalloc_huge(t, r)
        PROVE  Inv'
    BY <2>9, DallocHugeInv
  <2> QED
    BY <1>1, <2>1, <2>2, <2>3, <2>4, <2>5, <2>6, <2>7, <2>8, <2>9 DEF Operation
<1>2. ASSUME NEW t \in Threads, Step(t)
      PROVE  Inv'
  <2>1. CASE arena_chunk_alloc(t)
    BY <2>1, ChunkAllocInv
  <2>2. CASE arena_palloc_tail(t)
    BY <2>2, PallocTailInv
  <2>3. CASE arena_palloc_init(t)
    BY <2>3, PallocInitInv
  <2>4. CASE Purge(t)
    BY <2>4, PurgeInv
  <2>5. CASE arena_chunk_stash_dirty(t)
    BY <2>5, StashInv
  <2>6. CASE arena_chunk_purge_stashed(t)
    BY <2>6, PurgeStashedInv
  <2>7. CASE arena_chunk_unstash_purged(t)
    BY <2>7, UnstashInv
  <2>8. CASE arena_chunk_dalloc_internal(t)
    BY <2>8, UnmapInv
  <2>9. CASE HugeAnswer(t)
    BY <2>9, HugeInv
  <2> QED
    BY <1>2, <2>1, <2>2, <2>3, <2>4, <2>5, <2>6, <2>7, <2>8, <2>9 DEF Step
<1>3. CASE UNCHANGED vars
  <2>1. /\ arena' = arena /\ taken' = taken /\ lock' = lock /\ jobs' = jobs /\ owned' = owned
        /\ touched' = touched /\ zeroed' = zeroed
    BY <1>3 DEF vars
  <2>2. Good(arena', taken', lock', jobs', owned', touched')
    BY <2>1 DEF Inv
  <2> QED
    BY <2>1, <2>2 DEF Inv
<1> QED
  BY <1>1, <1>2, <1>3 DEF Next

LEMMA Invariance == Spec => []Inv
<1>1. Init => Inv
  BY InitInv
<1>2. Inv /\ [Next]_vars => Inv'
  BY NextInv
<1> QED
  BY <1>1, <1>2, PTL DEF Spec

-----------------------------------------------------------------------------
(* Who has the pages of a chunk.                                           *)

Stashing == {"stash", "stashed", "unstash"}
Kind(j) == IF j.do = "unmap" THEN "leaving" ELSE IF j.do \in Stashing THEN "stash" ELSE j.do
Grip(j, t, r) == <<Kind(j), t, RunSpan(r) \ {0}>>

\* What one job holds of chunk c.
GripOf(h, j, t, c) == \E r \in JobRuns(j) : r.c = c /\ h = Grip(j, t, r)

JobHeld(h, j, t, c) ==
    \/ j.do = "trim" /\ j.c = c /\ h = <<"trim", t, j.i .. j.i + j.n + j.trail - 1>>
    \/ j.do = "init" /\ j.c = c /\ h = <<"init", t, j.i .. j.i + j.n - 1>>
    \/ /\ j.do \in Stashing
       /\ \E k \in DOMAIN j.runs : /\ j.runs[k].c = c
                                   /\ h = <<"stash", t, j.runs[k].i .. j.runs[k].i + j.runs[k].n - 1>>
    \/ j.do = "unmap" /\ j.c = c /\ h = <<"leaving", t, Pages>>

LEMMA JobHeldIs ==
    ASSUME NEW j, JobOK(j), NEW t, NEW c, NEW h
    PROVE  JobHeld(h, j, t, c) <=> GripOf(h, j, t, c)
<1>1. \A i \in Pages : \A n : (i .. i + n - 1) \ {0} = i .. i + n - 1
  BY DEF Pages
<1>2. CASE j.do = "trim"
  <2>1. j.i \in Pages /\ j.n \in Nat /\ j.trail \in Nat
    BY <1>2 DEF JobOK
  <2>2. PICK r : r = Run(j.c, j.i, j.n + j.trail, FALSE)
    OBVIOUS
  <2>3. JobRuns(j) = {r} /\ r.c = j.c /\ r.i = j.i /\ r.n = j.n + j.trail
    BY <1>2, <2>2 DEF JobRuns, Run
  <2>4. RunSpan(r) = j.i .. j.i + j.n + j.trail - 1
    <3>1. j.i + (j.n + j.trail) - 1 = j.i + j.n + j.trail - 1
      BY <2>1, ArenaRunsAssumption DEF Pages
    <3> QED
      BY <2>3, <3>1 DEF RunSpan, Span
  <2>5. RunSpan(r) \ {0} = RunSpan(r)
    BY <1>1, <2>1, <2>3 DEF RunSpan, Span
  <2>6. Grip(j, t, r) = <<"trim", t, j.i .. j.i + j.n + j.trail - 1>>
    BY <1>2, <2>4, <2>5 DEF Grip, Kind, Stashing
  <2>7. GripOf(h, j, t, c) <=> j.c = c /\ h = Grip(j, t, r)
    BY <2>3 DEF GripOf
  <2>8. JobHeld(h, j, t, c) <=> j.c = c /\ h = <<"trim", t, j.i .. j.i + j.n + j.trail - 1>>
    BY <1>2 DEF JobHeld, Stashing
  <2> QED
    BY <2>6, <2>7, <2>8
<1>3. CASE j.do = "init"
  <2>1. j.i \in Pages
    BY <1>3 DEF JobOK
  <2>2. PICK r : r = Run(j.c, j.i, j.n, FALSE)
    OBVIOUS
  <2>3. JobRuns(j) = {r} /\ r.c = j.c /\ r.i = j.i /\ r.n = j.n
    BY <1>3, <2>2 DEF JobRuns, Run
  <2>4. RunSpan(r) = j.i .. j.i + j.n - 1
    BY <2>3 DEF RunSpan, Span
  <2>5. RunSpan(r) \ {0} = RunSpan(r)
    BY <1>1, <2>1, <2>3 DEF RunSpan, Span
  <2>6. Grip(j, t, r) = <<"init", t, j.i .. j.i + j.n - 1>>
    BY <1>3, <2>4, <2>5 DEF Grip, Kind, Stashing
  <2>7. GripOf(h, j, t, c) <=> j.c = c /\ h = Grip(j, t, r)
    BY <2>3 DEF GripOf
  <2>8. JobHeld(h, j, t, c) <=> j.c = c /\ h = <<"init", t, j.i .. j.i + j.n - 1>>
    BY <1>3 DEF JobHeld, Stashing
  <2> QED
    BY <2>6, <2>7, <2>8
<1>4. CASE j.do \in Stashing
  <2>1. JobRuns(j) = {Plain(j.runs[k]) : k \in DOMAIN j.runs} /\ RunsOK(j.runs)
    BY <1>4 DEF JobRuns, JobOK, Stashing
  <2>2. ASSUME NEW k \in DOMAIN j.runs
        PROVE  /\ Plain(j.runs[k]).c = j.runs[k].c
               /\ Grip(j, t, Plain(j.runs[k]))
                    = <<"stash", t, j.runs[k].i .. j.runs[k].i + j.runs[k].n - 1>>
    <3>1. j.runs[k].i \in Pages
      BY <2>1, RunType
    <3>2. PICK r : r = Plain(j.runs[k])
      OBVIOUS
    <3>3. r.c = j.runs[k].c /\ r.i = j.runs[k].i /\ r.n = j.runs[k].n
      BY <3>2 DEF Plain, Run
    <3>4. RunSpan(r) = j.runs[k].i .. j.runs[k].i + j.runs[k].n - 1
      BY <3>3 DEF RunSpan, Span
    <3>5. RunSpan(r) \ {0} = RunSpan(r)
      BY <1>1, <3>1, <3>4
    <3>6. Kind(j) = "stash"
      BY <1>4 DEF Kind, Stashing
    <3> QED
      BY <3>2, <3>3, <3>4, <3>5, <3>6 DEF Grip
  <2>3. GripOf(h, j, t, c) <=> \E k \in DOMAIN j.runs : /\ Plain(j.runs[k]).c = c
                                                        /\ h = Grip(j, t, Plain(j.runs[k]))
    BY <2>1 DEF GripOf
  <2>4. JobHeld(h, j, t, c) <=>
          \E k \in DOMAIN j.runs : /\ j.runs[k].c = c
                                   /\ h = <<"stash", t, j.runs[k].i .. j.runs[k].i + j.runs[k].n - 1>>
    BY <1>4 DEF JobHeld, Stashing
  <2> QED
    BY <2>2, <2>3, <2>4
<1>5. CASE j.do = "unmap"
  <2>1. PICK r : r = Whole(j.c)
    OBVIOUS
  <2>2. JobRuns(j) = {r} /\ r.c = j.c /\ r.i = 0 /\ r.n = NPages + 1
    BY <1>5, <2>1 DEF JobRuns, Whole, Run, HugePages
  <2>3. RunSpan(r) = 0 .. 0 + (NPages + 1) - 1
    BY <2>2 DEF RunSpan, Span
  <2>4. RunSpan(r) \ {0} = Pages
    BY <2>3, ArenaRunsAssumption DEF Pages
  <2>5. Grip(j, t, r) = <<"leaving", t, Pages>>
    BY <1>5, <2>4 DEF Grip, Kind
  <2>6. GripOf(h, j, t, c) <=> j.c = c /\ h = Grip(j, t, r)
    BY <2>2 DEF GripOf
  <2>7. JobHeld(h, j, t, c) <=> j.c = c /\ h = <<"leaving", t, Pages>>
    BY <1>5 DEF JobHeld, Stashing
  <2> QED
    BY <2>5, <2>6, <2>7
<1>6. CASE j.do \notin Stashing \cup {"trim", "init", "unmap"}
  <2>1. JobRuns(j) = {}
    BY <1>6 DEF JobRuns, Stashing
  <2> QED
    BY <1>6, <2>1 DEF GripOf, JobHeld
<1> QED
  BY <1>2, <1>3, <1>4, <1>5, <1>6

LEMMA InHandIs ==
    ASSUME NEW t \in Threads, \A k \in DOMAIN jobs[t] : JobOK(jobs[t][k]), NEW c, NEW h
    PROVE  h \in InHand(t, c) <=> \E k \in DOMAIN jobs[t] : GripOf(h, jobs[t][k], t, c)
<1>1. h \in InHand(t, c) <=> \E j \in Range(jobs[t]) : JobHeld(h, j, t, c)
  <2> DEFINE J(do) == {j \in Range(jobs[t]) : j.do = do}
             stash == UNION {Range(j.runs) : j \in J("stash") \cup J("stashed") \cup J("unstash")}
             H1 == {<<"trim", t, j.i .. j.i + j.n + j.trail - 1>> : j \in {x \in J("trim") : x.c = c}}
             H2 == {<<"init", t, j.i .. j.i + j.n - 1>> : j \in {x \in J("init") : x.c = c}}
             H3 == {<<"stash", t, r.i .. r.i + r.n - 1>> : r \in {x \in stash : x.c = c}}
             H4 == {<<"leaving", t, Pages>> : j \in {x \in J("unmap") : x.c = c}}
  <2>1. InHand(t, c) = H1 \cup H2 \cup H3 \cup H4
    BY DEF InHand
  <2>2. h \in H1 <=> \E j \in Range(jobs[t]) :
                       j.do = "trim" /\ j.c = c /\ h = <<"trim", t, j.i .. j.i + j.n + j.trail - 1>>
    OBVIOUS
  <2>3. h \in H2 <=> \E j \in Range(jobs[t]) :
                       j.do = "init" /\ j.c = c /\ h = <<"init", t, j.i .. j.i + j.n - 1>>
    OBVIOUS
  <2>4. h \in H4 <=> \E j \in Range(jobs[t]) :
                       j.do = "unmap" /\ j.c = c /\ h = <<"leaving", t, Pages>>
    OBVIOUS
  <2>5. h \in H3 <=> \E j \in Range(jobs[t]) :
                       /\ j.do \in Stashing
                       /\ \E k \in DOMAIN j.runs :
                            /\ j.runs[k].c = c
                            /\ h = <<"stash", t, j.runs[k].i .. j.runs[k].i + j.runs[k].n - 1>>
    <3>1. \A r : r \in stash <=> \E j \in Range(jobs[t]) :
                                   j.do \in Stashing /\ \E k \in DOMAIN j.runs : r = j.runs[k]
      BY DEF Range, Stashing
    <3>2. h \in H3 <=> \E r \in stash : r.c = c /\ h = <<"stash", t, r.i .. r.i + r.n - 1>>
      OBVIOUS
    <3> HIDE DEF stash, H3
    <3> QED
      BY <3>1, <3>2
  <2> HIDE DEF H1, H2, H3, H4
  <2> QED
    BY <2>1, <2>2, <2>3, <2>4, <2>5 DEF JobHeld
<1>2. h \in InHand(t, c) <=> \E k \in DOMAIN jobs[t] : JobHeld(h, jobs[t][k], t, c)
  BY <1>1 DEF Range
<1>3. \A k \in DOMAIN jobs[t] : JobHeld(h, jobs[t][k], t, c) <=> GripOf(h, jobs[t][k], t, c)
  BY JobHeldIs
<1> QED
  BY <1>2, <1>3

\* The four ways to have pages of chunk c.
FreeHold(h, c, i) == i \in Avail(arena, c) /\ h = <<"free", None, FreeSpan(arena.map[c], i)>>
OwnHold(h, c, r) == r \in owned /\ r.c = c /\ h = <<"owned", None, RunSpan(r)>>
JobHold(h, c, t, k, r) ==
    /\ t \in Threads /\ k \in DOMAIN jobs[t] /\ r \in JobRuns(jobs[t][k]) /\ r.c = c
    /\ h = Grip(jobs[t][k], t, r)
SpareHold(h, c) == arena.spare = c /\ h = <<"spare", None, Pages>>

LEMMA HeldIs ==
    ASSUME Inv, NEW c \in Chunks, NEW h
    PROVE  h \in Held(c) <=> \/ \E i : FreeHold(h, c, i)
                             \/ \E r : OwnHold(h, c, r)
                             \/ \E t, k, r : JobHold(h, c, t, k, r)
                             \/ SpareHold(h, c)
<1> DEFINE H1 == {<<"free", None, r[2] .. r[2] + Width(c, r[2]) - 1>> : r \in {x \in arena.avail : x[1] = c}}
           H2 == {<<"owned", None, r.i .. r.i + r.n - 1>> : r \in {x \in owned : x.c = c}}
           H3 == UNION {InHand(t, c) : t \in Threads}
           H4 == IF c = arena.spare THEN {<<"spare", None, Pages>>} ELSE {}
<1>1. Held(c) = H1 \cup H2 \cup H3 \cup H4
  BY DEF Held
<1>2. h \in H1 <=> \E i : FreeHold(h, c, i)
  <2>1. arena.avail \subseteq Chunks \X Pages
    BY DEF Inv, Good, IsArena
  <2>2. h \in H1 <=> \E r \in arena.avail : /\ r[1] = c
                                            /\ h = <<"free", None, FreeSpan(arena.map[c], r[2])>>
    BY DEF Width, FreeSpan, Span
  <2>3. ASSUME NEW r \in arena.avail, r[1] = c
        PROVE  r[2] \in Avail(arena, c)
    <3>1. r = <<r[1], r[2]>> /\ r[2] \in Pages
      BY <2>1
    <3> QED
      BY <2>3, <3>1 DEF Avail
  <2>4. ASSUME NEW i \in Avail(arena, c)
        PROVE  \E r \in arena.avail : r[1] = c /\ r[2] = i
    BY DEF Avail
  <2> HIDE DEF H1
  <2>5. ASSUME h \in H1
        PROVE  \E i : FreeHold(h, c, i)
    BY <2>2, <2>3, <2>5 DEF FreeHold
  <2>6. ASSUME NEW i, FreeHold(h, c, i)
        PROVE  h \in H1
    BY <2>2, <2>4, <2>6 DEF FreeHold
  <2> QED
    BY <2>5, <2>6
<1>3. h \in H2 <=> \E r : OwnHold(h, c, r)
  BY DEF OwnHold, RunSpan, Span
<1>4. h \in H3 <=> \E t, k, r : JobHold(h, c, t, k, r)
  <2>1. \A t \in Threads : h \in InHand(t, c) <=> \E k \in DOMAIN jobs[t] : GripOf(h, jobs[t][k], t, c)
    <3>1. \A t \in Threads : \A k \in DOMAIN jobs[t] : JobOK(jobs[t][k])
      BY DEF Inv, Good, Queue
    <3> QED
      BY <3>1, InHandIs
  <2>2. h \in H3 <=> \E t \in Threads : h \in InHand(t, c)
    OBVIOUS
  <2> HIDE DEF H3
  <2> QED
    BY <2>1, <2>2 DEF GripOf, JobHold
<1>5. h \in H4 <=> SpareHold(h, c)
  BY DEF SpareHold
<1> HIDE DEF H1, H2, H3, H4
<1> QED
  BY <1>1, <1>2, <1>3, <1>4, <1>5

\* A page that is held is of a free run, of a run that is out, or of the spare.
Place(p, h, c) ==
    \/ \E i : FreeHold(h, c, i) /\ p \in FreeSpan(arena.map[c], i)
    \/ \E r : OwnHold(h, c, r) /\ p \in RunSpan(r)
    \/ \E t, k, r : JobHold(h, c, t, k, r) /\ p \in RunSpan(r)
    \/ SpareHold(h, c) /\ p \in Pages

LEMMA HeldPlace ==
    ASSUME Inv, NEW c \in Chunks, NEW h \in Held(c), NEW p \in h[3]
    PROVE  Place(p, h, c)
<1>1. CASE \E i : FreeHold(h, c, i)
  BY <1>1 DEF FreeHold, Place
<1>2. CASE \E r : OwnHold(h, c, r)
  BY <1>2 DEF OwnHold, Place
<1>3. CASE \E t, k, r : JobHold(h, c, t, k, r)
  <2>1. PICK t, k, r : JobHold(h, c, t, k, r)
    BY <1>3
  <2>2. p \in RunSpan(r)
    BY <2>1 DEF JobHold, Grip
  <2> QED
    BY <2>1, <2>2 DEF Place
<1>4. CASE SpareHold(h, c)
  BY <1>4 DEF SpareHold, Place
<1> QED
  BY <1>1, <1>2, <1>3, <1>4, HeldIs

\* The run r is held in the one way h.
RunHold(h, c, r) == OwnHold(h, c, r) \/ \E t, k : JobHold(h, c, t, k, r)

LEMMA RunHeld ==
    ASSUME Inv, NEW c \in Chunks
    PROVE  /\ \A r \in RunsIn(Out(jobs, owned), c) : \E h : RunHold(h, c, r)
           /\ \A r, h : RunHold(h, c, r) => r \in RunsIn(Out(jobs, owned), c)
           /\ \A r, g, h : RunHold(g, c, r) /\ RunHold(h, c, r) => g = h
<1>1. \A r : r \in Out(jobs, owned) <=>
               r \in owned \/ \E t \in Threads : \E k \in DOMAIN jobs[t] : r \in JobRuns(jobs[t][k])
  BY DEF Out, Hands, HandOf
<1>2. ASSUME NEW r \in RunsIn(Out(jobs, owned), c)
      PROVE  \E h : RunHold(h, c, r)
  <2>1. r.c = c
    BY DEF RunsIn
  <2>2. CASE r \in owned
    BY <2>1, <2>2 DEF RunHold, OwnHold
  <2>3. CASE \E t \in Threads : \E k \in DOMAIN jobs[t] : r \in JobRuns(jobs[t][k])
    BY <2>1, <2>3 DEF RunHold, JobHold
  <2> QED
    BY <1>1, <2>2, <2>3 DEF RunsIn
<1>3. ASSUME NEW r, NEW h, RunHold(h, c, r)
      PROVE  r \in RunsIn(Out(jobs, owned), c)
  BY <1>1, <1>3 DEF RunHold, OwnHold, JobHold, RunsIn
<1>4. ASSUME NEW r, NEW g, NEW h, RunHold(g, c, r), RunHold(h, c, r)
      PROVE  g = h
  <2>1. /\ \A t \in Threads : owned \cap HandOf(jobs[t]) = {}
        /\ \A t, u \in Threads : t # u => HandOf(jobs[t]) \cap HandOf(jobs[u]) = {}
        /\ \A t \in Threads : Once(jobs[t])
    BY DEF Inv, Good, Apart, Queue
  <2>2. \A t \in Threads : \A k \in DOMAIN jobs[t] : JobRuns(jobs[t][k]) \subseteq HandOf(jobs[t])
    BY DEF HandOf
  <2>3. ASSUME NEW t, NEW k, JobHold(g, c, t, k, r) \/ JobHold(h, c, t, k, r)
        PROVE  r \notin owned
    BY <2>1, <2>2, <2>3 DEF JobHold
  <2>4. ASSUME NEW t, NEW k, NEW u, NEW l, JobHold(g, c, t, k, r), JobHold(h, c, u, l, r)
        PROVE  g = h
    <3>1. t = u
      BY <2>1, <2>2, <2>4 DEF JobHold
    <3>2. k = l
      BY <2>1, <2>4, <3>1 DEF JobHold, Once
    <3> QED
      BY <2>4, <3>1, <3>2 DEF JobHold
  <2>5. CASE OwnHold(g, c, r)
    BY <1>4, <2>3, <2>5 DEF RunHold, OwnHold
  <2>6. CASE OwnHold(h, c, r)
    BY <1>4, <2>3, <2>6 DEF RunHold, OwnHold
  <2> QED
    BY <1>4, <2>4, <2>5, <2>6 DEF RunHold
<1> QED
  BY <1>2, <1>3, <1>4

\* No two holds of a chunk share a page.
LEMMA HoldsApart ==
    ASSUME Inv, NEW c \in Chunks, NEW g \in Held(c), NEW h \in Held(c), NEW p, p \in g[3], p \in h[3]
    PROVE  g = h
<1> DEFINE R == RunsIn(Out(jobs, owned), c)
           m == arena.map[c]
           F == Avail(arena, c)
<1>1. ChunkOK(arena, c, TouchedIn(touched, c), c \in taken, R)
  BY DEF Inv, Good, Ledger
<1>2. ASSUME NEW x, Place(p, x, c)
      PROVE  \/ \E i \in F : FreeHold(x, c, i) /\ p \in FreeSpan(m, i)
             \/ \E r \in R : RunHold(x, c, r) /\ p \in RunSpan(r)
             \/ SpareHold(x, c)
  BY <1>2, RunHeld DEF Place, RunHold, FreeHold
<1>3. Place(p, g, c) /\ Place(p, h, c)
  BY HeldPlace
<1>4. \A r \in R : RunHold(g, c, r) /\ RunHold(h, c, r) => g = h
  BY RunHeld
<1> HIDE DEF R, m, F
<1>5. CASE arena.spare = c
  <2>1. R = {} /\ F = {}
    BY <1>1, <1>5 DEF ChunkOK, Empty, Unused, F
  <2>2. SpareHold(g, c) /\ SpareHold(h, c)
    BY <1>2, <1>3, <2>1
  <2> QED
    BY <2>2 DEF SpareHold
<1>6. CASE arena.spare # c /\ View(arena, c, TouchedIn(touched, c), R, {})
  <2>1. Layout(m, TouchedIn(touched, c), F, R, {})
    BY <1>6 DEF View, m, F
  <2>2. /\ \A i, j \in F : p \in FreeSpan(m, i) /\ p \in FreeSpan(m, j) => i = j
        /\ \A r, s \in R : p \in RunSpan(r) /\ p \in RunSpan(s) => r = s
        /\ \A i \in F, r \in R : ~(p \in FreeSpan(m, i) /\ p \in RunSpan(r))
    BY <2>1 DEF Layout
  <2>3. ~SpareHold(g, c) /\ ~SpareHold(h, c)
    BY <1>6 DEF SpareHold
  <2>4. CASE \E i \in F : FreeHold(g, c, i) /\ p \in FreeSpan(m, i)
    <3>1. PICK i \in F : FreeHold(g, c, i) /\ p \in FreeSpan(m, i)
      BY <2>4
    <3>2. FreeHold(h, c, i)
      BY <1>2, <1>3, <2>2, <2>3, <3>1
    <3> QED
      BY <3>1, <3>2 DEF FreeHold
  <2>5. CASE \E r \in R : RunHold(g, c, r) /\ p \in RunSpan(r)
    <3>1. PICK r \in R : RunHold(g, c, r) /\ p \in RunSpan(r)
      BY <2>5
    <3>2. RunHold(h, c, r)
      BY <1>2, <1>3, <2>2, <2>3, <3>1
    <3> QED
      BY <1>4, <3>1, <3>2
  <2> QED
    BY <1>2, <1>3, <2>3, <2>4, <2>5
<1>7. CASE arena.spare # c /\ Unused(arena, c) /\ (R = {} \/ R = {Whole(c)})
  <2>1. F = {} /\ \A r, s \in R : r = s
    BY <1>7 DEF Unused, F
  <2>2. ~SpareHold(g, c) /\ ~SpareHold(h, c)
    BY <1>7 DEF SpareHold
  <2>3. PICK r \in R : RunHold(g, c, r)
    BY <1>2, <1>3, <2>1, <2>2
  <2>4. RunHold(h, c, r)
    BY <1>2, <1>3, <2>1, <2>2
  <2> QED
    BY <1>4, <2>3, <2>4
<1> QED
  BY <1>1, <1>5, <1>6, <1>7 DEF ChunkOK

\* Every page of a chunk the arena has is held.
LEMMA HoldsAll ==
    ASSUME Inv, NEW c \in taken
    PROVE  (UNION {h[3] : h \in Held(c)}) \ {0} = Pages
<1> DEFINE R == RunsIn(Out(jobs, owned), c)
           m == arena.map[c]
           F == Avail(arena, c)
<1>1. c \in Chunks
  BY DEF Inv, Good
<1>2. ChunkOK(arena, c, TouchedIn(touched, c), c \in taken, R)
  BY <1>1 DEF Inv, Good, Ledger
<1>3. CASE arena.spare # c /\ View(arena, c, TouchedIn(touched, c), R, {})
  <2>1. Layout(m, TouchedIn(touched, c), F, R, {})
    BY <1>3 DEF View
  <2>2. ASSUME NEW h \in Held(c), NEW p \in h[3]
        PROVE  p \in Pages
    <3>1. \/ \E i \in F : p \in FreeSpan(m, i)
          \/ \E r \in R : p \in RunSpan(r)
      BY <1>1, <1>3, HeldPlace, RunHeld DEF Place, RunHold, FreeHold, SpareHold
    <3> HIDE DEF R, F, m
    <3>2. ASSUME NEW i \in F, p \in FreeSpan(m, i)
          PROVE  p \in Pages
      <4>1. FreeAt(m, TouchedIn(touched, c), i)
        BY <2>1 DEF Layout
      <4>2. PICK n : n = m[i].size
        OBVIOUS
      <4>3. i \in Pages /\ n \in Nat /\ i + n - 1 <= NPages /\ p \in i .. i + n - 1
        BY <3>2, <4>1, <4>2 DEF FreeAt, FreeSpan, Span
      <4> QED
        BY <4>3, ArenaRunsAssumption DEF Pages
    <3>3. ASSUME NEW r \in R, p \in RunSpan(r)
          PROVE  p \in Pages
      <4>1. RunAt(m, r)
        BY <2>1 DEF Layout
      <4>2. r.i \in Pages /\ r.n \in Nat /\ r.i + r.n - 1 <= NPages /\ p \in r.i .. r.i + r.n - 1
        BY <3>3, <4>1 DEF RunAt, RunSpan, Span
      <4> QED
        BY <4>2, ArenaRunsAssumption DEF Pages
    <3> QED
      BY <3>1, <3>2, <3>3
  <2>3. ASSUME NEW p \in Pages
        PROVE  \E h \in Held(c) : p \in h[3]
    <3>1. \/ \E i \in F : p \in FreeSpan(m, i)
          \/ \E r \in R : p \in RunSpan(r)
      BY <2>1 DEF Layout
    <3>2. ASSUME NEW i \in F, p \in FreeSpan(m, i)
          PROVE  \E h \in Held(c) : p \in h[3]
      <4>1. PICK h : h = <<"free", None, FreeSpan(m, i)>>
        OBVIOUS
      <4>2. FreeHold(h, c, i) /\ p \in h[3]
        BY <3>2, <4>1 DEF FreeHold
      <4> QED
        BY <1>1, <4>2, HeldIs
    <3>3. ASSUME NEW r \in R, p \in RunSpan(r)
          PROVE  \E h \in Held(c) : p \in h[3]
      <4>1. PICK h : RunHold(h, c, r)
        BY <1>1, RunHeld
      <4>2. p # 0
        BY DEF Pages
      <4>3. p \in h[3]
        BY <3>3, <4>1, <4>2 DEF RunHold, OwnHold, JobHold, Grip
      <4>4. h \in Held(c)
        BY <1>1, <4>1, HeldIs DEF RunHold
      <4> QED
        BY <4>3, <4>4
    <3> QED
      BY <3>1, <3>2, <3>3
  <2>4. 0 \notin Pages
    BY DEF Pages
  <2> QED
    BY <2>2, <2>3, <2>4
<1>4. CASE arena.spare = c
  <2>1. R = {} /\ F = {}
    BY <1>2, <1>4 DEF ChunkOK, Empty, Unused
  <2>2. ASSUME NEW h \in Held(c), NEW p \in h[3]
        PROVE  p \in Pages
    <3>1. Place(p, h, c)
      BY <1>1, HeldPlace
    <3>2. \A r, x : RunHold(x, c, r) => r \in R
      BY <1>1, RunHeld
    <3>3. ~ \E r, x : RunHold(x, c, r)
      BY <2>1, <3>2
    <3>4. ~ \E i : FreeHold(h, c, i)
      BY <2>1 DEF FreeHold
    <3> QED
      BY <3>1, <3>3, <3>4 DEF Place, RunHold
  <2>3. \E h \in Held(c) : h[3] = Pages
    <3>1. PICK h : h = <<"spare", None, Pages>>
      OBVIOUS
    <3>2. SpareHold(h, c) /\ h[3] = Pages
      BY <1>4, <3>1 DEF SpareHold
    <3> QED
      BY <1>1, <3>2, HeldIs
  <2>4. 0 \notin Pages
    BY DEF Pages
  <2> QED
    BY <2>2, <2>3, <2>4
<1>5. CASE arena.spare # c /\ R = {Whole(c)} /\ Unused(arena, c)
  <2>1. F = {} /\ Whole(c) \in R
    BY <1>5 DEF Unused
  <2>2. PICK w : w = Whole(c)
    OBVIOUS
  <2>3. w.i = 0 /\ w.n = NPages + 1
    BY <2>2 DEF Whole, Run, HugePages
  <2>4. RunSpan(w) \ {0} = Pages
    <3>1. RunSpan(w) = 0 .. 0 + (NPages + 1) - 1
      BY <2>3 DEF RunSpan, Span
    <3> QED
      BY <3>1, ArenaRunsAssumption DEF Pages
  <2>5. ASSUME NEW h \in Held(c), NEW p \in h[3], p # 0
        PROVE  p \in Pages
    <3>1. \E r \in R : p \in RunSpan(r)
      BY <1>1, <1>5, <2>1, HeldPlace, RunHeld DEF Place, RunHold, FreeHold, SpareHold
    <3>2. p \in RunSpan(w)
      BY <1>5, <2>2, <3>1
    <3> QED
      BY <2>4, <2>5, <3>2
  <2>6. PICK h : RunHold(h, c, w)
    BY <1>1, <2>1, <2>2, RunHeld
  <2>7. h \in Held(c)
    BY <1>1, <2>6, HeldIs DEF RunHold
  <2>8. Pages \subseteq h[3]
    BY <2>4, <2>6 DEF RunHold, OwnHold, JobHold, Grip
  <2>9. 0 \notin Pages
    BY DEF Pages
  <2> QED
    BY <2>5, <2>7, <2>8, <2>9
<1> QED
  BY <1>2, <1>3, <1>4, <1>5 DEF ChunkOK

-----------------------------------------------------------------------------
(* The theorems.                                                           *)

\* Every page of every chunk the arena has is in exactly one place, whatever threads
\* do while another has dropped arena->lock in the middle of an allocation, a purge or
\* the return of a chunk (arena.c:420-535, 920-1171, 1183-1395).
THEOREM PagesInOnePlace == Spec => []PagesPartitioned
<1>1. Inv => PagesPartitioned
  <2> SUFFICES ASSUME Inv PROVE PagesPartitioned
    OBVIOUS
  <2>1. taken \subseteq Chunks
    BY DEF Inv, Good
  <2>2. ASSUME NEW c \in taken, NEW g \in Held(c), NEW h \in Held(c), g # h
        PROVE  g[3] \cap h[3] = {}
    BY <2>1, <2>2, HoldsApart
  <2> QED
    BY <2>2, HoldsAll DEF PagesPartitioned
<1> QED
  BY <1>1, Invariance, PTL

\* A run asked for with zero holds zeros where arena_run_zero does not clear it: the
\* unzeroed flags of free and cut runs never claim more than is true, through splits,
\* joins, trims and purges that did or did not zero the pages (arena.c:430-520, 978-1024).
THEOREM ZeroPromiseKept == Spec => []ZeroDelivered
<1>1. Inv => ZeroDelivered
  BY DEF Inv, ZeroDelivered
<1> QED
  BY <1>1, Invariance, PTL

=============================================================================
