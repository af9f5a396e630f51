----------------------------- MODULE BinsProofs -----------------------------
(***************************************************************************)
(* RegionsPartitioned, NonfullRunsKnown and StatsExact of Bins for any     *)
(* numbers of threads, arenas, runs and regions, and caches of any size.   *)
(***************************************************************************)
EXTENDS Bins, FiniteSetTheorems, SequenceTheorems, WellFoundedInduction, TLAPS

\* None is not the name of anything.
Constants ==
    /\ None \notin Nat \cup Threads \cup Arenas
    /\ \A a, s, i : None # <<a, s, i>>
    /\ \A a, q, n, d : None # [arena |-> a, avail |-> q, low_water |-> n,
                               lg_fill_div |-> d]

-----------------------------------------------------------------------------
(* Runs and bins.                                                          *)

RunRecs(n) == [free : SUBSET (0 .. n - 1), nfree : Nat, nextind : 0 .. n]

\* A run of n regions: its count and its high-water mark agree with its bitmap.
RunOK(r, n) ==
    /\ r \in RunRecs(n)
    /\ r.nfree = Cardinality(r.free)
    /\ \A i \in 0 .. n - 1 : i \notin r.free => i < r.nextind

BinRecs(S, n) == [runcur : S \cup {None}, runs : SUBSET S, curruns : Int,
                  allocated : Int, run : [S -> RunRecs(n)]]

\* A bin with slots S for runs of n regions, of which M are mapped and B are
\* between the arena and the bin.  Only mapped runs have regions out; those of B
\* have none.  The others that have room are known, once, and are not empty.
BinOK(b, S, n, M, B) ==
    /\ n \in Nat \ {0} /\ S \subseteq Nat /\ M \subseteq S /\ B \subseteq M
    /\ b \in BinRecs(S, n)
    /\ \A s \in S : RunOK(b.run[s], n)
    /\ \A s \in S : s \notin M \/ s \in B => b.run[s].free = 0 .. n - 1
    /\ b.runs \cup ({b.runcur} \ {None}) \subseteq M \ B
    /\ b.runcur \notin b.runs
    /\ \A s \in b.runs : b.run[s].free # {}
    /\ \A s \in M \ B : b.run[s].free # {} =>
         /\ s \in b.runs \cup {b.runcur}
         /\ b.run[s].free # 0 .. n - 1

LEMMA NoneIsNoNat == ASSUME Constants PROVE None \notin Nat
  BY DEF Constants

LEMMA MinIsLeast ==
    ASSUME NEW S \in SUBSET Nat, S # {}
    PROVE  Min(S) \in S /\ \A y \in S : Min(S) <= y
<1> DEFINE R == {ss \in Nat \X Nat : ss[1] < ss[2]}
<1>1. R = OpToRel(<, Nat)
  BY Zenon DEF OpToRel
<1>2. IsWellFoundedOn(R, Nat)
  BY <1>1, NatLessThanWellFounded, Zenon
<1> HIDE DEF R
<1>3. PICK x \in S : \A y \in S : ~(<<y, x>> \in R)
  BY <1>2, WFMin
<1>4. ASSUME NEW y \in S PROVE x <= y
  <2>1. x \in Nat /\ y \in Nat /\ <<y, x>> \in Nat \X Nat
    OBVIOUS
  <2>2. <<y, x>> \in R <=> y < x
    BY <2>1 DEF R
  <2> QED
    BY <1>3, <2>1, <2>2
<1> QED
  BY <1>4 DEF Min

LEMMA LowestIs ==
    ASSUME Constants, NEW S \in SUBSET Nat
    PROVE  IF S = {} THEN Lowest(S) = None ELSE Lowest(S) \in S /\ Lowest(S) # None
<1>1. None \notin S
  <2>1. None \notin Nat
    BY NoneIsNoNat
  <2> QED
    BY <2>1
<1>2. S # {} => Min(S) \in S
  BY MinIsLeast
<1> QED
  BY <1>1, <1>2 DEF Lowest

LEMMA RunCounts ==
    ASSUME NEW n \in Nat \ {0}, NEW r, RunOK(r, n)
    PROVE  /\ IsFiniteSet(r.free)
           /\ r.free \subseteq 0 .. n - 1
           /\ r.nfree \in Nat /\ r.nextind \in 0 .. n
           /\ r.nfree > 0 <=> r.free # {}
           /\ r.nfree = n <=> r.free = 0 .. n - 1
<1>1. r.free \in SUBSET (0 .. n - 1) /\ r.nfree \in Nat /\ r.nextind \in 0 .. n
  BY DEF RunOK, RunRecs
<1>2. IsFiniteSet(0 .. n - 1) /\ Cardinality(0 .. n - 1) = n
  BY FS_Interval
<1>3. IsFiniteSet(r.free) /\ (Cardinality(r.free) = n => r.free = 0 .. n - 1)
  BY <1>1, <1>2, FS_Subset
<1>4. Cardinality(r.free) = 0 <=> r.free = {}
  BY <1>3, FS_EmptySet
<1> QED
  BY <1>1, <1>2, <1>3, <1>4 DEF RunOK

\* The record of a bin after one of its runs has changed.
WithRun(b, s, r) == [b EXCEPT !.run[s] = r]

LEMMA WithRunIs ==
    ASSUME NEW S, NEW n, NEW b \in BinRecs(S, n), NEW s \in S, NEW r \in RunRecs(n)
    PROVE  LET c == WithRun(b, s, r)
           IN  /\ c \in BinRecs(S, n)
               /\ c.runcur = b.runcur /\ c.runs = b.runs
               /\ c.run[s] = r
               /\ \A x \in S : x # s => c.run[x] = b.run[x]
  BY DEF WithRun, BinRecs

\* arena_run_reg_alloc takes a region that is free, and only that.
TakenRun(r) ==
    [free |-> r.free \ {Min(r.free)}, nfree |-> r.nfree - 1,
     nextind |-> IF Min(r.free) = r.nextind THEN Min(r.free) + 1 ELSE r.nextind]

LEMMA TakenRunOK ==
    ASSUME NEW n \in Nat \ {0}, NEW r, RunOK(r, n), r.free # {}
    PROVE  /\ RunOK(TakenRun(r), n)
           /\ Min(r.free) \in r.free
           /\ TakenRun(r).free = r.free \ {Min(r.free)}
<1> DEFINE i == Min(r.free)
<1>1. /\ IsFiniteSet(r.free) /\ r.free \subseteq 0 .. n - 1
      /\ r.nfree \in Nat /\ r.nextind \in 0 .. n /\ r.nfree > 0
      /\ r.nfree = Cardinality(r.free)
  BY RunCounts DEF RunOK
<1>2. i \in r.free /\ \A y \in r.free : i <= y
  BY <1>1, MinIsLeast
<1>3. Cardinality(r.free \ {i}) = Cardinality(r.free) - 1
  BY <1>1, <1>2, FS_RemoveElement
<1> HIDE DEF i
<1>4. i <= r.nextind
  <2>1. CASE r.nextind < n
    BY <1>1, <1>2, <2>1 DEF RunOK
  <2>2. CASE r.nextind = n
    BY <1>1, <1>2, <2>2
  <2> QED
    BY <1>1, <2>1, <2>2
<1> DEFINE r2 == [free |-> r.free \ {i}, nfree |-> r.nfree - 1,
                  nextind |-> IF i = r.nextind THEN i + 1 ELSE r.nextind]
<1>5. r2 \in RunRecs(n)
  BY <1>1, <1>2, <1>4 DEF RunRecs
<1>6. \A j \in 0 .. n - 1 : j \notin r2.free => j < r2.nextind
  BY <1>1, <1>2, <1>4 DEF RunOK
<1>7. RunOK(r2, n) /\ r2.free = r.free \ {i}
  BY <1>1, <1>3, <1>5, <1>6 DEF RunOK
<1> QED
  BY <1>2, <1>7 DEF TakenRun, i

LEMMA RegAllocIs ==
    ASSUME NEW S, NEW n, NEW b \in BinRecs(S, n), NEW s \in S
    PROVE  /\ arena_run_reg_alloc(b, s) = WithRun(b, s, TakenRun(b.run[s]))
           /\ bitmap_sfu(b, s) = Min(b.run[s].free)
  BY DEF arena_run_reg_alloc, bitmap_sfu, WithRun, TakenRun, BinRecs

\* arena_run_reg_dalloc gives back a region that is out, and only that.
GivenRun(r, i) == [free |-> r.free \cup {i}, nfree |-> r.nfree + 1,
                   nextind |-> r.nextind]

LEMMA GivenRunOK ==
    ASSUME NEW n \in Nat \ {0}, NEW r, RunOK(r, n), NEW i \in 0 .. n - 1, i \notin r.free
    PROVE  /\ RunOK(GivenRun(r, i), n)
           /\ GivenRun(r, i).free = r.free \cup {i}
           /\ GivenRun(r, i).nfree = r.nfree + 1
<1>1. IsFiniteSet(r.free) /\ r \in RunRecs(n) /\ r.nfree = Cardinality(r.free)
  BY RunCounts DEF RunOK
<1>2. Cardinality(r.free \cup {i}) = Cardinality(r.free) + 1
  BY <1>1, FS_AddElement
<1>3. /\ GivenRun(r, i) \in RunRecs(n)
      /\ GivenRun(r, i).free = r.free \cup {i}
      /\ GivenRun(r, i).nfree = r.nfree + 1
      /\ GivenRun(r, i).nextind = r.nextind
  BY <1>1 DEF GivenRun, RunRecs
<1> QED
  BY <1>1, <1>2, <1>3 DEF RunOK

LEMMA RegDallocIs ==
    ASSUME NEW S, NEW n, NEW b \in BinRecs(S, n), NEW p, p[2] \in S
    PROVE  arena_run_reg_dalloc(b, p) = WithRun(b, p[2], GivenRun(b.run[p[2]], p[3]))
  BY DEF arena_run_reg_dalloc, WithRun, GivenRun, RunOf, BinRecs

\* From bin b to bin c, region i of run s was taken, or given back.
Took(b, c, S, s, i) ==
    /\ s \in S /\ i \in b.run[s].free
    /\ c.run[s].free = b.run[s].free \ {i}
    /\ \A x \in S : x # s => c.run[x].free = b.run[x].free
Gave(b, c, S, s, i) ==
    /\ s \in S /\ i \notin b.run[s].free
    /\ c.run[s].free = b.run[s].free \cup {i}
    /\ \A x \in S : x # s => c.run[x].free = b.run[x].free

SameFree(b, c, S) == \A s \in S : b.run[s].free = c.run[s].free

LEMMA RunTypes ==
    ASSUME NEW b, NEW S, NEW n, NEW M, NEW B, BinOK(b, S, n, M, B)
    PROVE  /\ b \in BinRecs(S, n) /\ n \in Nat \ {0}
           /\ b.runs \in SUBSET S /\ b.runs \in SUBSET Nat
           /\ b.runcur \in S \cup {None}
           /\ \A s \in S : b.run[s] \in RunRecs(n) /\ RunOK(b.run[s], n)
  BY DEF BinOK, BinRecs

LEMMA HasRoomIs ==
    ASSUME Constants, NEW b, NEW S, NEW n, NEW M, NEW B, BinOK(b, S, n, M, B)
    PROVE  HasRoom(b) <=> b.runcur # None /\ b.run[b.runcur].free # {}
<1>1. \A s \in S : b.run[s].nfree > 0 <=> b.run[s].free # {}
  BY RunTypes, RunCounts
<1> QED
  BY <1>1, RunTypes DEF HasRoom

\* The counters of a bin do not matter to its runs.
LEMMA SameBin ==
    ASSUME NEW b, NEW S, NEW n, NEW M, NEW B, BinOK(b, S, n, M, B),
           NEW c \in BinRecs(S, n), c.run = b.run, c.runcur = b.runcur, c.runs = b.runs
    PROVE  BinOK(c, S, n, M, B)
  BY DEF BinOK

\* arena_run_reg_alloc from runcur.
LEMMA AllocCur ==
    ASSUME Constants, NEW b, NEW S, NEW n, NEW M, NEW B, BinOK(b, S, n, M, B), HasRoom(b)
    PROVE  LET s == b.runcur
               c == arena_run_reg_alloc(b, s)
           IN  /\ BinOK(c, S, n, M, B)
               /\ Took(b, c, S, s, bitmap_sfu(b, s))
               /\ c.runcur = b.runcur /\ c.runs = b.runs
               /\ s \in M \ B
<1> DEFINE s == b.runcur
           r == TakenRun(b.run[s])
           c == WithRun(b, s, r)
           i == Min(b.run[s].free)
<1>1. /\ s \in S /\ s # None /\ b.run[s].free # {}
      /\ RunOK(b.run[s], n) /\ b \in BinRecs(S, n) /\ n \in Nat \ {0}
  BY HasRoomIs, RunTypes
<1>2. arena_run_reg_alloc(b, s) = c /\ bitmap_sfu(b, s) = i
  BY <1>1, RegAllocIs
<1>3. RunOK(r, n) /\ i \in b.run[s].free /\ r.free = b.run[s].free \ {i}
  BY <1>1, TakenRunOK
<1>4. r \in RunRecs(n) /\ b.run[s].free \subseteq 0 .. n - 1
  BY <1>1, <1>3, RunCounts DEF RunOK
<1> HIDE DEF r, i
<1>5. /\ c \in BinRecs(S, n) /\ c.runcur = s /\ c.runs = b.runs /\ c.run[s] = r
      /\ \A x \in S : x # s => c.run[x] = b.run[x]
  BY <1>1, <1>4, WithRunIs
<1> HIDE DEF c
<1>6. s \in M \ B
  BY <1>1 DEF BinOK
<1>7. BinOK(c, S, n, M, B)
  <2>1. \A x \in S : RunOK(c.run[x], n)
    BY <1>3, <1>5 DEF BinOK
  <2>2. \A x \in S : x \notin M \/ x \in B => c.run[x].free = 0 .. n - 1
    BY <1>5, <1>6 DEF BinOK
  <2>3. c.run[s].free # 0 .. n - 1
    BY <1>3, <1>4, <1>5
  <2>4. s \notin c.runs /\ \A x \in c.runs : c.run[x].free # {}
    BY <1>5 DEF BinOK, BinRecs
  <2>5. \A x \in M \ B : c.run[x].free # {} =>
          /\ x \in c.runs \cup {c.runcur}
          /\ c.run[x].free # 0 .. n - 1
    BY <1>5, <2>3 DEF BinOK
  <2> QED
    BY <1>5, <2>1, <2>2, <2>4, <2>5 DEF BinOK
<1>8. Took(b, c, S, s, i)
  BY <1>1, <1>3, <1>5 DEF Took
<1> QED
  BY <1>2, <1>5, <1>6, <1>7, <1>8

LEMMA NoCur ==
    ASSUME Constants, NEW b, NEW S, NEW n, NEW M, NEW B, BinOK(b, S, n, M, B), ~HasRoom(b)
    PROVE  LET c == [b EXCEPT !.runcur = None]
           IN  /\ BinOK(c, S, n, M, B) /\ c.run = b.run /\ c.runs = b.runs
               /\ c.runcur = None
<1> DEFINE c == [b EXCEPT !.runcur = None]
<1>1. /\ c \in BinRecs(S, n) /\ c.run = b.run /\ c.runs = b.runs
      /\ c.runcur = None
  BY RunTypes DEF BinRecs
<1>2. b.runcur # None => b.run[b.runcur].free = {}
  BY HasRoomIs
<1>3. None \notin b.runs /\ None \notin S
  BY RunTypes, NoneIsNoNat, ZenonT(60) DEF BinOK
<1> HIDE DEF c
<1>4. BinOK(c, S, n, M, B)
  BY <1>1, <1>2, <1>3 DEF BinOK
<1> QED
  BY <1>1, <1>4 DEF c

\* The first non-full run takes the place of a runcur that is full or NULL.
LEMMA FirstRun ==
    ASSUME Constants, NEW b, NEW S, NEW n, NEW M, NEW B, BinOK(b, S, n, M, B),
           ~HasRoom(b), b.runs # {}
    PROVE  LET s == Lowest(b.runs)
               c == [Tryget(b) EXCEPT !.runcur = s]
           IN  /\ BinOK(c, S, n, M, B) /\ c.run = b.run /\ c.runcur = s
               /\ HasRoom(c)
<1> DEFINE s == Lowest(b.runs)
           c == [Tryget(b) EXCEPT !.runcur = s]
<1>1. s \in b.runs /\ s # None /\ s \in S
  BY LowestIs, RunTypes
<1> HIDE DEF s
<1>2. /\ c \in BinRecs(S, n) /\ c.run = b.run /\ c.runs = b.runs \ {s}
      /\ c.runcur = s
  BY <1>1, RunTypes DEF BinRecs, Tryget, s
<1>3. b.runcur # None => b.run[b.runcur].free = {}
  BY HasRoomIs
<1> HIDE DEF c
<1>4. BinOK(c, S, n, M, B)
  <2>1. c.runs \cup ({c.runcur} \ {None}) \subseteq M \ B
    BY <1>1, <1>2 DEF BinOK
  <2>2. c.runcur \notin c.runs /\ \A x \in c.runs : c.run[x].free # {}
    BY <1>2 DEF BinOK
  <2>3. ASSUME NEW x \in M \ B, c.run[x].free # {}
        PROVE  x \in c.runs \cup {c.runcur} /\ c.run[x].free # 0 .. n - 1
    <3>1. x \in b.runs \cup {b.runcur} /\ b.run[x].free # 0 .. n - 1
      BY <1>2, <2>3 DEF BinOK
    <3>2. x \in S /\ x # None
      BY NoneIsNoNat DEF BinOK
    <3>3. x # b.runcur
      BY <1>2, <1>3, <2>3, <3>2
    <3> QED
      BY <1>2, <3>1, <3>3
  <2> QED
    BY <1>2, <2>1, <2>2, <2>3 DEF BinOK
<1>5. HasRoom(c)
  <2>1. c.runcur # None /\ c.run[c.runcur].free # {}
    BY <1>1, <1>2 DEF BinOK
  <2> QED
    BY <1>4, <2>1, HasRoomIs
<1> QED
  BY <1>2, <1>4, <1>5 DEF c, s

\* A run the thread brought from the arena takes the place of a runcur that is
\* full or NULL, and the region is taken from it.
LEMMA OwnRun ==
    ASSUME Constants, NEW b, NEW S, NEW n, NEW M, NEW B, BinOK(b, S, n, M, B),
           ~HasRoom(b), NEW s \in B
    PROVE  LET d == [b EXCEPT !.runcur = s]
               c == arena_run_reg_alloc(d, s)
           IN  BinOK(c, S, n, M, B \ {s}) /\ Took(b, c, S, s, bitmap_sfu(d, s))
<1> DEFINE d == [b EXCEPT !.runcur = s]
           r == TakenRun(b.run[s])
           c == WithRun(d, s, r)
           i == Min(b.run[s].free)
<1>1. /\ s \in S /\ s \in M /\ s # None /\ b.run[s].free = 0 .. n - 1
      /\ RunOK(b.run[s], n) /\ b \in BinRecs(S, n) /\ n \in Nat \ {0}
  BY NoneIsNoNat, RunTypes DEF BinOK
<1>2. d \in BinRecs(S, n) /\ d.run = b.run /\ d.runs = b.runs /\ d.runcur = s
  BY <1>1 DEF BinRecs
<1> HIDE DEF d
<1>3. arena_run_reg_alloc(d, s) = c /\ bitmap_sfu(d, s) = i
  BY <1>1, <1>2, RegAllocIs
<1>4. b.run[s].free # {}
  BY <1>1
<1>5. RunOK(r, n) /\ i \in b.run[s].free /\ r.free = b.run[s].free \ {i}
  BY <1>1, <1>4, TakenRunOK
<1>6. r \in RunRecs(n)
  BY <1>5 DEF RunOK
<1> HIDE DEF r, i
<1>7. /\ c \in BinRecs(S, n) /\ c.runcur = s /\ c.runs = b.runs /\ c.run[s] = r
      /\ \A x \in S : x # s => c.run[x] = b.run[x]
  BY <1>1, <1>2, <1>6, WithRunIs
<1> HIDE DEF c
<1>8. b.runcur # None => b.run[b.runcur].free = {}
  BY HasRoomIs
<1>9. BinOK(c, S, n, M, B \ {s})
  <2>1. \A x \in S : RunOK(c.run[x], n)
    BY <1>5, <1>7 DEF BinOK
  <2>2. \A x \in S : x \notin M \/ x \in B \ {s} => c.run[x].free = 0 .. n - 1
    BY <1>1, <1>7 DEF BinOK
  <2>3. c.runs \cup ({c.runcur} \ {None}) \subseteq M \ (B \ {s})
    BY <1>1, <1>7 DEF BinOK
  <2>4. s \notin c.runs /\ \A x \in c.runs : c.run[x].free # {}
    BY <1>7 DEF BinOK, BinRecs
  <2>5. ASSUME NEW x \in M \ (B \ {s}), c.run[x].free # {}
        PROVE  x \in c.runs \cup {c.runcur} /\ c.run[x].free # 0 .. n - 1
    <3>1. CASE x = s
      BY <1>1, <1>5, <1>7, <3>1
    <3>2. CASE x # s
      <4>1. x \in S /\ x # None /\ c.run[x] = b.run[x] /\ x \in M \ B
        BY <1>7, <3>2, NoneIsNoNat DEF BinOK
      <4>2. x \in b.runs \cup {b.runcur} /\ b.run[x].free # 0 .. n - 1
        BY <2>5, <4>1 DEF BinOK
      <4>3. x # b.runcur
        BY <1>8, <2>5, <4>1
      <4> QED
        BY <1>7, <4>1, <4>2, <4>3
    <3> QED
      BY <3>1, <3>2
  <2> QED
    BY <1>7, <2>1, <2>2, <2>3, <2>4, <2>5 DEF BinOK
<1>10. Took(b, c, S, s, i)
  BY <1>1, <1>5, <1>7 DEF Took
<1> QED
  BY <1>3, <1>9, <1>10 DEF d

\* A bin that is in order except that run s has room and is not known.
AllButOne(b, S, n, M, B, s) ==
    /\ n \in Nat \ {0} /\ S \subseteq Nat /\ M \subseteq S /\ B \subseteq M
    /\ b \in BinRecs(S, n)
    /\ s \in M \ B /\ s \notin b.runs /\ s # b.runcur
    /\ b.run[s].free # {} /\ b.run[s].free # 0 .. n - 1
    /\ \A x \in S : RunOK(b.run[x], n)
    /\ \A x \in S : x \notin M \/ x \in B => b.run[x].free = 0 .. n - 1
    /\ b.runs \cup ({b.runcur} \ {None}) \subseteq M \ B
    /\ b.runcur \notin b.runs
    /\ \A x \in b.runs : b.run[x].free # {}
    /\ \A x \in M \ B : x # s /\ b.run[x].free # {} =>
         /\ x \in b.runs \cup {b.runcur}
         /\ b.run[x].free # 0 .. n - 1

\* arena_bin_lower_run with a run that has room and is not known.
LEMMA LowerRun ==
    ASSUME Constants, NEW b, NEW S, NEW n, NEW M, NEW B, NEW s, AllButOne(b, S, n, M, B, s)
    PROVE  /\ BinOK(arena_bin_lower_run(b, s), S, n, M, B)
           /\ arena_bin_lower_run(b, s).run = b.run
<1> DEFINE c == arena_bin_lower_run(b, s)
<1>1. s \in S /\ s # None /\ b.runcur \in S \cup {None} /\ b.runs \in SUBSET S
  BY NoneIsNoNat DEF AllButOne, BinRecs
<1>2. HasRoom(b) <=> b.runcur # None /\ b.run[b.runcur].free # {}
  <2>1. \A x \in S : b.run[x].nfree > 0 <=> b.run[x].free # {}
    BY RunCounts DEF AllButOne
  <2> QED
    BY <1>1, <2>1 DEF HasRoom
<1>3. CASE b.runcur # None /\ s < b.runcur
  <2> DEFINE R == IF HasRoom(b) THEN b.runs \cup {b.runcur} ELSE b.runs
  <2>1. R \in SUBSET S
    BY <1>1, <1>3
  <2>2. c = [b EXCEPT !.runs = R, !.runcur = s]
    BY <1>3 DEF arena_bin_lower_run
  <2> HIDE DEF R
  <2>3. c \in BinRecs(S, n) /\ c.run = b.run /\ c.runs = R /\ c.runcur = s
    BY <1>1, <2>1, <2>2, ZenonT(60) DEF AllButOne, BinRecs
  <2> HIDE DEF c
  <2>4. c.runs \cup ({c.runcur} \ {None}) \subseteq M \ B
    BY <1>3, <2>3 DEF AllButOne, R
  <2>5. c.runcur \notin c.runs
    BY <2>3 DEF AllButOne, R
  <2>6. \A x \in c.runs : c.run[x].free # {}
    BY <1>2, <2>3 DEF AllButOne, R
  <2>7. \A x \in M \ B : c.run[x].free # {} =>
          x \in c.runs \cup {c.runcur} /\ c.run[x].free # 0 .. n - 1
    BY <1>2, <1>3, <2>3 DEF AllButOne, R
  <2>8. BinOK(c, S, n, M, B)
    BY <2>3, <2>4, <2>5, <2>6, <2>7 DEF AllButOne, BinOK
  <2> QED
    BY <2>3, <2>8 DEF c
<1>4. CASE ~(b.runcur # None /\ s < b.runcur)
  <2>1. c = [b EXCEPT !.runs = b.runs \cup {s}]
    BY <1>4 DEF arena_bin_lower_run
  <2>2. /\ c \in BinRecs(S, n) /\ c.run = b.run /\ c.runs = b.runs \cup {s}
        /\ c.runcur = b.runcur
    BY <1>1, <2>1 DEF AllButOne, BinRecs
  <2> HIDE DEF c
  <2>3. BinOK(c, S, n, M, B)
    BY <1>1, <2>2 DEF AllButOne, BinOK
  <2> QED
    BY <2>2, <2>3 DEF c
<1> QED
  BY <1>3, <1>4

\* runcur gives a region, and the first non-full run goes back to the bin.
LEMMA AllocAndLower ==
    ASSUME Constants, NEW b, NEW S, NEW n, NEW M, NEW B, BinOK(b, S, n, M, B),
           HasRoom(b), b.runs # {}
    PROVE  LET d == Tryget(b)
               c == arena_bin_lower_run(arena_run_reg_alloc(d, b.runcur), Lowest(b.runs))
           IN  /\ BinOK(c, S, n, M, B)
               /\ Took(b, c, S, b.runcur, bitmap_sfu(d, b.runcur))
<1> DEFINE s == Lowest(b.runs)
           d == Tryget(b)
           k == b.runcur
           r == TakenRun(b.run[k])
           i == Min(b.run[k].free)
           e == WithRun(d, k, r)
<1>1. s \in b.runs /\ s # None /\ s \in S /\ s # k /\ s \in M \ B
  <2>1. s \in b.runs /\ s # None /\ s \in S
    BY LowestIs, RunTypes
  <2> QED
    BY <2>1 DEF BinOK
<1> HIDE DEF s
<1>2. /\ k \in S /\ k # None /\ b.run[k].free # {} /\ k \in M \ B
      /\ RunOK(b.run[k], n) /\ b \in BinRecs(S, n) /\ n \in Nat \ {0}
      /\ b.run[k].free \subseteq 0 .. n - 1
  <2>1. k # None /\ b.run[k].free # {}
    BY HasRoomIs
  <2>2. k \in S /\ RunOK(b.run[k], n) /\ b \in BinRecs(S, n) /\ n \in Nat \ {0}
    BY <2>1, RunTypes
  <2>3. k \in M \ B
    BY <2>1 DEF BinOK
  <2> QED
    BY <2>1, <2>2, <2>3, RunCounts
<1>3. d \in BinRecs(S, n) /\ d.run = b.run /\ d.runs = b.runs \ {s} /\ d.runcur = k
  BY <1>2 DEF BinRecs, Tryget, s
<1> HIDE DEF d
<1>4. arena_run_reg_alloc(d, k) = e /\ bitmap_sfu(d, k) = i
  BY <1>2, <1>3, RegAllocIs
<1>5. RunOK(r, n) /\ i \in b.run[k].free /\ r.free = b.run[k].free \ {i}
  BY <1>2, TakenRunOK
<1>6. r \in RunRecs(n)
  BY <1>5 DEF RunOK
<1> HIDE DEF r, i
<1>7. /\ e \in BinRecs(S, n) /\ e.runcur = k /\ e.runs = b.runs \ {s} /\ e.run[k] = r
      /\ \A x \in S : x # k => e.run[x] = b.run[x]
  BY <1>2, <1>3, <1>6, WithRunIs
<1> HIDE DEF e, k
<1>8. /\ n \in Nat \ {0} /\ S \subseteq Nat /\ M \subseteq S /\ B \subseteq M
      /\ s \notin e.runs /\ s # e.runcur /\ e.run[s].free # {}
      /\ e.run[s].free # 0 .. n - 1
  BY <1>1, <1>7 DEF BinOK
<1>9. \A x \in S : RunOK(e.run[x], n)
  BY <1>5, <1>7 DEF BinOK
<1>10. \A x \in S : x \notin M \/ x \in B => e.run[x].free = 0 .. n - 1
  BY <1>2, <1>7 DEF BinOK
<1>11. /\ e.runs \cup ({e.runcur} \ {None}) \subseteq M \ B
       /\ e.runcur \notin e.runs
       /\ \A x \in e.runs : e.run[x].free # {}
  BY <1>2, <1>7 DEF BinOK, k
<1>12. ASSUME NEW x \in M \ B, x # s, e.run[x].free # {}
       PROVE  x \in e.runs \cup {e.runcur} /\ e.run[x].free # 0 .. n - 1
  <2>1. CASE x = k
    BY <1>2, <1>5, <1>7, <2>1
  <2>2. CASE x # k
    <3>1. x \in S /\ e.run[x] = b.run[x]
      BY <1>7, <2>2 DEF BinOK
    <3>2. x \in b.runs \cup {b.runcur} /\ b.run[x].free # 0 .. n - 1
      BY <1>12, <3>1 DEF BinOK
    <3> QED
      BY <1>7, <1>12, <2>2, <3>1, <3>2 DEF k
  <2> QED
    BY <2>1, <2>2
<1> DEFINE c == arena_bin_lower_run(e, s)
<1>13. BinOK(c, S, n, M, B) /\ c.run = e.run
  <2>1. AllButOne(e, S, n, M, B, s)
    BY <1>1, <1>7, <1>8, <1>9, <1>10, <1>11, <1>12 DEF AllButOne
  <2> QED
    BY <2>1, LowerRun
<1>14. Took(b, c, S, k, i)
  BY <1>2, <1>5, <1>7, <1>13 DEF Took
<1> QED
  BY <1>4, <1>13, <1>14 DEF k, d, s

\* A region that is out goes back to its run.  If all of the run is free now, the
\* bin forgets the run; otherwise it knows it.
Dalloced(b, S, M, B, p) ==
    LET s == p[2]
        g == arena_run_reg_dalloc(b, p)
        d == arena_dissociate_bin_run(g, s)
        c == IF g.run[s].nfree = 1 /\ s # g.runcur THEN arena_bin_lower_run(g, s) ELSE g
    IN  /\ s \in M \ B
        /\ g.run[s].nfree = nregs =>
              BinOK(d, S, nregs, M, B \cup {s}) /\ Gave(b, d, S, s, p[3])
        /\ g.run[s].nfree # nregs =>
              BinOK(c, S, nregs, M, B) /\ Gave(b, c, S, s, p[3])

LEMMA DallocRun ==
    ASSUME Constants, NEW b, NEW S, NEW M, NEW B, BinOK(b, S, nregs, M, B),
           NEW p, p[2] \in S, p[3] \in 0 .. nregs - 1, p[3] \notin b.run[p[2]].free
    PROVE  Dalloced(b, S, M, B, p)
<1> DEFINE n == nregs
           s == p[2]
           i == p[3]
           r == GivenRun(b.run[s], i)
           g == WithRun(b, s, r)
<1>1. /\ b \in BinRecs(S, n) /\ n \in Nat \ {0} /\ RunOK(b.run[s], n)
      /\ s \in Nat /\ s # None /\ b.run[s].free # 0 .. n - 1
      /\ b.runs \in SUBSET S /\ b.runcur \in S \cup {None}
  <2>1. /\ b \in BinRecs(S, n) /\ n \in Nat \ {0} /\ RunOK(b.run[s], n)
        /\ b.runs \in SUBSET S /\ b.runcur \in S \cup {None}
    BY RunTypes
  <2>2. s \in Nat /\ s # None
    BY NoneIsNoNat DEF BinOK
  <2> QED
    BY <2>1, <2>2
<1>2. s \in M \ B
  BY <1>1 DEF BinOK
<1>3. arena_run_reg_dalloc(b, p) = g
  BY <1>1, RegDallocIs
<1>4. RunOK(r, n) /\ r.free = b.run[s].free \cup {i} /\ r.nfree = b.run[s].nfree + 1
  BY <1>1, GivenRunOK
<1>5. r \in RunRecs(n)
  BY <1>4 DEF RunOK
<1> HIDE DEF r
<1>6. /\ g \in BinRecs(S, n) /\ g.runcur = b.runcur /\ g.runs = b.runs /\ g.run[s] = r
      /\ \A x \in S : x # s => g.run[x] = b.run[x]
  BY <1>1, <1>5, WithRunIs
<1>7. /\ r.nfree = n <=> r.free = 0 .. n - 1
      /\ b.run[s].nfree > 0 <=> b.run[s].free # {}
      /\ b.run[s].nfree \in Nat
  BY <1>1, <1>4, RunCounts
<1> HIDE DEF g
<1>8. Gave(b, g, S, s, i)
  BY <1>4, <1>6 DEF Gave
<1>9. \A x \in S : RunOK(g.run[x], n)
  BY <1>4, <1>6 DEF BinOK
<1>10. \A x \in S : x \notin M \/ x \in B => g.run[x].free = 0 .. n - 1
  BY <1>2, <1>6 DEF BinOK
<1>11. \A x \in S : g.run[x].free = {} => b.run[x].free = {} /\ x # s
  BY <1>4, <1>6
<1>12. ASSUME r.nfree = n
       PROVE  LET d == arena_dissociate_bin_run(g, s)
              IN  BinOK(d, S, n, M, B \cup {s}) /\ Gave(b, d, S, s, i)
  <2> DEFINE d == arena_dissociate_bin_run(g, s)
  <2>1. n = 1 => s \notin b.runs
    <3>1. ASSUME n = 1, s \in b.runs PROVE FALSE
      <4>1. b.run[s].free # {}
        BY <3>1 DEF BinOK
      <4>2. b.run[s].nfree > 0 /\ r.nfree = 1
        BY <1>7, <1>12, <3>1, <4>1
      <4> QED
        BY <1>4, <1>7, <4>2
    <3> QED
      BY <3>1
  <2>2. /\ d \in BinRecs(S, n) /\ d.run = g.run
        /\ d.runs = b.runs \ {s}
        /\ d.runcur = IF b.runcur = s THEN None ELSE b.runcur
    <3>1. CASE s = b.runcur
      <4>1. d = [g EXCEPT !.runcur = None]
        BY <1>6, <3>1 DEF arena_dissociate_bin_run
      <4>2. s \notin b.runs
        BY <3>1 DEF BinOK
      <4> QED
        BY <1>6, <3>1, <4>1, <4>2 DEF BinRecs
    <3>2. CASE s # b.runcur /\ n # 1
      <4>1. d = [g EXCEPT !.runs = g.runs \ {s}]
        BY <1>6, <3>2 DEF arena_dissociate_bin_run
      <4> QED
        BY <1>6, <3>2, <4>1 DEF BinRecs
    <3>3. CASE s # b.runcur /\ n = 1
      <4>1. d = g
        BY <1>6, <3>3 DEF arena_dissociate_bin_run
      <4> QED
        BY <1>6, <2>1, <3>3, <4>1
    <3> QED
      BY <3>1, <3>2, <3>3
  <2> HIDE DEF d
  <2>3. \A x \in S : x \notin M \/ x \in B \cup {s} => d.run[x].free = 0 .. n - 1
    BY <1>6, <1>7, <1>10, <1>12, <2>2
  <2>4. d.runs \cup ({d.runcur} \ {None}) \subseteq M \ (B \cup {s})
    BY <1>1, <2>2 DEF BinOK
  <2>5. d.runcur \notin d.runs /\ \A x \in d.runs : d.run[x].free # {}
    <3>1. None \notin b.runs
      BY <1>1, NoneIsNoNat DEF BinOK
    <3>2. d.runcur \notin d.runs
      BY <2>2, <3>1 DEF BinOK
    <3> QED
      BY <1>1, <1>11, <2>2, <3>2 DEF BinOK
  <2>6. ASSUME NEW x \in M \ (B \cup {s}), d.run[x].free # {}
        PROVE  x \in d.runs \cup {d.runcur} /\ d.run[x].free # 0 .. n - 1
    <3>1. x \in S /\ d.run[x] = b.run[x] /\ x # s
      BY <1>6, <2>2 DEF BinOK
    <3>2. x \in b.runs \cup {b.runcur} /\ b.run[x].free # 0 .. n - 1
      BY <2>6, <3>1 DEF BinOK
    <3> QED
      BY <2>2, <3>1, <3>2
  <2>7. BinOK(d, S, n, M, B \cup {s})
    BY <1>2, <1>9, <2>2, <2>3, <2>4, <2>5, <2>6, ZenonT(60) DEF BinOK
  <2>8. Gave(b, d, S, s, i)
    BY <1>8, <2>2 DEF Gave
  <2> QED
    BY <2>7, <2>8 DEF d
<1>13. ASSUME r.nfree # n
       PROVE  LET c == IF r.nfree = 1 /\ s # g.runcur
                       THEN arena_bin_lower_run(g, s) ELSE g
              IN  BinOK(c, S, n, M, B) /\ Gave(b, c, S, s, i)
  <2>1. g.run[s].free # {} /\ g.run[s].free # 0 .. n - 1
    BY <1>4, <1>6, <1>7, <1>13
  <2>2. ASSUME NEW x \in M \ B, x # s, g.run[x].free # {}
        PROVE  x \in g.runs \cup {g.runcur} /\ g.run[x].free # 0 .. n - 1
    BY <1>6, <2>2 DEF BinOK
  <2>3. /\ g.runs \cup ({g.runcur} \ {None}) \subseteq M \ B
        /\ g.runcur \notin g.runs
        /\ \A x \in g.runs : g.run[x].free # {}
    BY <1>1, <1>6, <1>11 DEF BinOK
  <2>4. CASE r.nfree = 1 /\ s # g.runcur
    <3>1. s \notin g.runs
      BY <1>4, <1>6, <1>7, <2>4 DEF BinOK
    <3>2. AllButOne(g, S, n, M, B, s)
      BY <1>2, <1>6, <1>9, <1>10, <2>1, <2>2, <2>3, <2>4, <3>1 DEF AllButOne, BinOK
    <3>3. /\ BinOK(arena_bin_lower_run(g, s), S, n, M, B)
          /\ arena_bin_lower_run(g, s).run = g.run
      BY <3>2, LowerRun
    <3> QED
      BY <1>8, <2>4, <3>3 DEF Gave
  <2>5. CASE ~(r.nfree = 1 /\ s # g.runcur)
    <3>1. s \in g.runs \cup {g.runcur}
      <4>1. CASE r.nfree # 1
        <5>1. b.run[s].free # {}
          BY <1>4, <1>7, <4>1
        <5>2. s \in b.runs \cup {b.runcur}
          BY <1>2, <5>1 DEF BinOK
        <5> QED
          BY <1>6, <5>2
      <4> QED
        BY <2>5, <4>1
    <3>2. BinOK(g, S, n, M, B)
      BY <1>6, <1>9, <1>10, <2>1, <2>2, <2>3, <3>1 DEF BinOK
    <3> QED
      BY <1>8, <2>5, <3>2
  <2> QED
    BY <2>4, <2>5
<1> QED
  BY <1>2, <1>3, <1>6, <1>12, <1>13 DEF Dalloced

LEMMA FreshIs ==
    ASSUME nregs \in Nat \ {0}
    PROVE  /\ RunOK(Fresh, nregs) /\ Fresh \in RunRecs(nregs)
           /\ Fresh.free = 0 .. nregs - 1
<1>1. Cardinality(0 .. nregs - 1) = nregs
  BY FS_Interval
<1>2. Fresh.free = 0 .. nregs - 1 /\ Fresh.nfree = nregs /\ Fresh.nextind = 0
  BY DEF Fresh
<1>3. Fresh \in RunRecs(nregs)
  BY DEF Fresh, RunRecs
<1> QED
  BY <1>1, <1>2, <1>3 DEF RunOK

\* A run that is all free is made anew, when it is mapped or when it is given back.
LEMMA FreshRun ==
    ASSUME Constants, NEW b, NEW S, NEW M, NEW B, BinOK(b, S, nregs, M, B),
           NEW s \in S, s \notin M \/ s \in B
    PROVE  LET c == WithRun(b, s, Fresh)
           IN  /\ BinOK(c, S, nregs, M \cup {s}, B \cup {s})
               /\ BinOK(c, S, nregs, M \ {s}, B \ {s})
               /\ SameFree(c, b, S)
<1> DEFINE c == WithRun(b, s, Fresh)
<1>1. /\ RunOK(Fresh, nregs) /\ Fresh \in RunRecs(nregs)
      /\ Fresh.free = 0 .. nregs - 1 /\ b \in BinRecs(S, nregs)
      /\ b.run[s].free = 0 .. nregs - 1
  BY FreshIs DEF BinOK
<1>2. /\ c \in BinRecs(S, nregs) /\ c.runcur = b.runcur /\ c.runs = b.runs
      /\ c.run[s] = Fresh
      /\ \A x \in S : x # s => c.run[x] = b.run[x]
  BY <1>1, WithRunIs
<1> HIDE DEF c
<1>3. \A x \in S : c.run[x].free = b.run[x].free /\ RunOK(c.run[x], nregs)
  BY <1>1, <1>2 DEF BinOK
<1>4. s \notin b.runs \cup ({b.runcur} \ {None})
  BY DEF BinOK
<1>5. s # None
  BY NoneIsNoNat DEF BinOK
<1>6. BinOK(c, S, nregs, M \cup {s}, B \cup {s})
  BY <1>2, <1>3, <1>4, <1>5 DEF BinOK
<1>7. BinOK(c, S, nregs, M \ {s}, B \ {s})
  BY <1>2, <1>3, <1>4, <1>5 DEF BinOK
<1> QED
  BY <1>3, <1>6, <1>7 DEF c, SameFree

-----------------------------------------------------------------------------
(* What one thread has.                                                    *)

Flushes == {"push", "gc", "destroy"}
Gets == {"malloc", "fill"}

\* The cache of a thread and where it is in its operation, with regions R.
Caches(R) == [arena : Arenas, avail : Seq(R), low_water : Int, lg_fill_div : Int]
Work(R) ==
    [pc : {"idle", "get", "newrun", "relock", "dlock", "drop", "dropped", "pass",
           "flush"},
     op : {"none", "free"} \cup Gets \cup Flushes,
     arena : Arenas \cup {None}, run : Nat \cup {None}, ptr : R \cup {None},
     i : Nat, nflush : Nat, ndeferred : Nat, rem : Nat, merged : BOOLEAN,
     push : R \cup {None}]

\* Places, InHand and what a thread has in all, as functions of its own state.
NextPlace(w) == IF w.pc = "pass" THEN 1 ELSE IF w.pc = "flush" THEN w.i ELSE w.i + 1
PlacesOf(w, c) ==
    IF c = None THEN {}
    ELSE IF w.op \notin Flushes THEN 1 .. Len(c.avail)
    ELSE (1 .. w.ndeferred) \cup (NextPlace(w) .. w.nflush)
           \cup (Len(c.avail) - w.rem + 1 .. Len(c.avail))
InHands(w) ==
    ({w.push} \cup (IF w.op # "free" \/ w.pc = "dlock" THEN {w.ptr} ELSE {})) \ {None}
InCaches(w, c) == {c.avail[k] : k \in PlacesOf(w, c)}
OwnsOf(w, c) == InCaches(w, c) \cup InHands(w)

\* Where a thread can be in each operation, and what it has in its locals there.
Doing(w, c) ==
    /\ w.pc = "idle" => w = Idle
    /\ w.pc \in {"get", "newrun", "relock"} => w.op \in Gets /\ w.ptr = None
    /\ w.pc = "dlock" => w.op = "free" /\ w.ptr # None /\ w.arena = w.ptr[1]
    /\ w.pc \in {"drop", "dropped"} =>
         /\ w.op # "none"
         /\ w.op \in Gets => w.ptr # None
         /\ w.op \in Flushes => w.ptr = None
    /\ w.pc \in {"pass", "flush"} => w.op \in Flushes /\ w.ptr = None
    /\ w.pc \notin {"idle", "pass"} => w.arena \in Arenas
    /\ w.pc = "drop" => w.run # None
    /\ w.pc \notin {"relock", "drop"} => w.run = None
    /\ w.op = "push" <=> w.push # None
    /\ w.op \in Flushes \cup {"fill"} => c # None

\* The flush of a cache: what is stashed lies before the region it has come to,
\* and that before what is meant to stay.
Flushing(w, c) ==
    w.op \in Flushes =>
        /\ w.nflush + w.rem <= Len(c.avail)
        /\ w.op = "destroy" => w.rem = 0
        /\ IF w.pc = "pass" THEN w.ndeferred = 0
           ELSE w.ndeferred < w.i /\ w.i <= w.nflush

\* A thread has a region once.
OnceEach(w, c) ==
    /\ \A j, k \in PlacesOf(w, c) : c.avail[j] = c.avail[k] => j = k
    /\ InCaches(w, c) \cap InHands(w) = {}

LocalOK(w, c, R) ==
    /\ None \notin R /\ \A p \in R : p[1] \in Arenas
    /\ w \in Work(R)
    /\ c \in Caches(R) \cup {None}
    /\ c # None => c.low_water <= Len(c.avail)
    /\ Doing(w, c)
    /\ Flushing(w, c)
    /\ OnceEach(w, c)

LEMMA PlacesAre ==
    ASSUME NEW t
    PROVE  Places(t) = PlacesOf(todo[t], tcache[t])
<1>1. (CASE todo[t].pc = "pass" -> 1
         [] todo[t].pc = "flush" -> todo[t].i
         [] OTHER -> todo[t].i + 1) = NextPlace(todo[t])
  <2>1. CASE todo[t].pc = "pass"
    BY <2>1 DEF NextPlace
  <2>2. CASE todo[t].pc = "flush"
    BY <2>2 DEF NextPlace
  <2>3. CASE todo[t].pc \notin {"pass", "flush"}
    BY <2>3 DEF NextPlace
  <2> QED
    BY <2>1, <2>2, <2>3
<1> QED
  BY <1>1, Zenon DEF Places, PlacesOf, Flushes

LEMMA PlacesInCache ==
    ASSUME NEW w, NEW c, NEW R, LocalOK(w, c, R)
    PROVE  /\ c # None => PlacesOf(w, c) \subseteq 1 .. Len(c.avail)
           /\ InCaches(w, c) \subseteq R
           /\ OwnsOf(w, c) \subseteq R
<1>1. c # None => PlacesOf(w, c) \subseteq 1 .. Len(c.avail)
  BY DEF LocalOK, Caches, Work, Flushing, PlacesOf, NextPlace, Flushes
<1>2. \A k \in PlacesOf(w, c) : c.avail[k] \in R
  <2>1. CASE c = None
    BY <2>1 DEF PlacesOf
  <2>2. CASE c # None
    <3>1. c.avail \in Seq(R)
      BY <2>2 DEF LocalOK, Caches
    <3> QED
      BY <1>1, <2>2, <3>1
  <2> QED
    BY <2>1, <2>2
<1>3. InHands(w) \subseteq R
  BY DEF LocalOK, Work, InHands
<1> QED
  BY <1>1, <1>2, <1>3 DEF InCaches, OwnsOf

-----------------------------------------------------------------------------
(* Threads that are not flushing: all of the cache counts.                 *)

Cached(c) == IF c = None THEN {} ELSE {c.avail[k] : k \in 1 .. Len(c.avail)}

CacheOK(c, R) ==
    /\ c \in Caches(R)
    /\ c.low_water <= Len(c.avail)
    /\ \A j, k \in 1 .. Len(c.avail) : c.avail[j] = c.avail[k] => j = k

RegionsOK(R) == None \notin R /\ \A p \in R : p[1] \in Arenas

LEMMA CacheIsSomething ==
    ASSUME Constants, NEW R, NEW c \in Caches(R)
    PROVE  c # None
<1>1. c = [arena |-> c.arena, avail |-> c.avail, low_water |-> c.low_water,
           lg_fill_div |-> c.lg_fill_div]
  BY DEF Caches
<1> QED
  BY <1>1, Zenon DEF Constants

LEMMA Quiet ==
    ASSUME NEW w, NEW c, NEW R, LocalOK(w, c, R), w.op \notin Flushes
    PROVE  /\ c = None \/ CacheOK(c, R)
           /\ OwnsOf(w, c) = Cached(c) \cup InHands(w)
           /\ Cached(c) \cap InHands(w) = {}
           /\ RegionsOK(R)
<1>1. PlacesOf(w, c) = IF c = None THEN {} ELSE 1 .. Len(c.avail)
  BY DEF PlacesOf
<1>2. InCaches(w, c) = Cached(c)
  BY <1>1 DEF InCaches, Cached
<1> QED
  BY <1>1, <1>2 DEF LocalOK, CacheOK, OwnsOf, OnceEach, RegionsOK

LEMMA QuietAgain ==
    ASSUME NEW R, RegionsOK(R), NEW w \in Work(R), NEW c, c = None \/ CacheOK(c, R),
           w.op \notin Flushes, Doing(w, c), Cached(c) \cap InHands(w) = {}
    PROVE  LocalOK(w, c, R) /\ OwnsOf(w, c) = Cached(c) \cup InHands(w)
<1>1. PlacesOf(w, c) = IF c = None THEN {} ELSE 1 .. Len(c.avail)
  BY DEF PlacesOf
<1>2. InCaches(w, c) = Cached(c)
  BY <1>1 DEF InCaches, Cached
<1>3. Flushing(w, c)
  BY DEF Flushing
<1>4. OnceEach(w, c)
  BY <1>1, <1>2 DEF OnceEach, CacheOK
<1> QED
  BY <1>2, <1>3, <1>4 DEF LocalOK, CacheOK, OwnsOf, RegionsOK

-----------------------------------------------------------------------------
(* The statistics of a bin, and what threads owe them.                     *)

\* The regions a thread has taken from a bin and not counted yet: those of a fill
\* are counted when it ends, that of an allocation when it returns.
LooseOf(w, c) ==
    (IF w.op = "fill" THEN Cached(c) ELSE {})
      \cup (IF w.op \in Gets THEN {w.ptr} \ {None} ELSE {})
LooseAt(w, c, a) == IF w.arena = a THEN LooseOf(w, c) ELSE {}

\* A thread brings a run that is not counted yet, has given back one that still
\* is, or has put a region back that still is.
Brings(w, a) == w.arena = a /\ w.pc = "relock" /\ w.run # None
Returns(w, a) == w.arena = a /\ w.pc = "dropped"
Gives(w, a) == w.arena = a /\ w.pc \in {"drop", "dropped"} /\ w.op \notin Gets

\* The thread owes the bin of arena a the same before and after.
SameAt(w, c, v, d, a) ==
    /\ LooseAt(w, c, a) = LooseAt(v, d, a)
    /\ Brings(w, a) <=> Brings(v, a)
    /\ Returns(w, a) <=> Returns(v, a)
    /\ Gives(w, a) <=> Gives(v, a)

\* It owes no bin anything.
Even(w, c) == w.pc \notin {"relock", "drop", "dropped"} /\ LooseOf(w, c) = {}

One(P) == IF P THEN 1 ELSE 0

LEMMA SameEven ==
    ASSUME NEW w, NEW c, NEW v, NEW d, Even(w, c), Even(v, d)
    PROVE  \A a : SameAt(w, c, v, d, a)
  BY DEF Even, SameAt, LooseAt, Brings, Returns, Gives

LEMMA CalmIsEven ==
    ASSUME NEW w, NEW c, w.pc \notin {"relock", "drop", "dropped"}, w.op \notin Gets
    PROVE  Even(w, c)
  BY DEF Even, LooseOf, Gets

LEMMA OneIs == ASSUME NEW P PROVE One(P) \in Nat
  BY DEF One

\* Two sets that differ by one element at most.
LEMMA CountOne ==
    ASSUME NEW S, NEW T, NEW t, IsFiniteSet(S), S \ {t} = T \ {t}
    PROVE  /\ IsFiniteSet(T) /\ Cardinality(S) \in Nat /\ Cardinality(T) \in Nat
           /\ Cardinality(T) + One(t \in S) = Cardinality(S) + One(t \in T)
<1> DEFINE R == S \ {t}
<1>1. IsFiniteSet(R) /\ Cardinality(R) \in Nat
  BY FS_RemoveElement, FS_CardinalityType
<1>2. t \notin R /\ R = T \ {t}
  OBVIOUS
<1>3. IsFiniteSet(R \cup {t}) /\ Cardinality(R \cup {t}) = Cardinality(R) + 1
  BY <1>1, <1>2, FS_AddElement
<1>4. S = IF t \in S THEN R \cup {t} ELSE R
  OBVIOUS
<1>5. T = IF t \in T THEN R \cup {t} ELSE R
  BY <1>2
<1> HIDE DEF R
<1>6. Cardinality(S) = Cardinality(R) + One(t \in S)
  BY <1>1, <1>3, <1>4 DEF One
<1>7. Cardinality(T) = Cardinality(R) + One(t \in T) /\ IsFiniteSet(T)
  <2>1. CASE t \in T
    BY <1>3, <1>5, <2>1 DEF One
  <2>2. CASE t \notin T
    BY <1>1, <1>5, <2>2 DEF One
  <2> QED
    BY <2>1, <2>2
<1>8. One(t \in S) \in Nat /\ One(t \in T) \in Nat
  BY OneIs
<1> QED
  BY <1>1, <1>6, <1>7, <1>8

\* A part of a set is exchanged for another.
LEMMA CountPart ==
    ASSUME NEW R, NEW V, NEW W, IsFiniteSet(R \cup W), IsFiniteSet(V),
           R \cap V = {}, R \cap W = {}
    PROVE  /\ IsFiniteSet(R \cup V)
           /\ Cardinality(R \cup V) \in Nat /\ Cardinality(R \cup W) \in Nat
           /\ Cardinality(V) \in Nat /\ Cardinality(W) \in Nat
           /\ Cardinality(R \cup V) + Cardinality(W) = Cardinality(R \cup W) + Cardinality(V)
<1>1. IsFiniteSet(R) /\ IsFiniteSet(W)
  BY FS_Subset
<1>2. Cardinality(R) \in Nat /\ Cardinality(V) \in Nat /\ Cardinality(W) \in Nat
  BY <1>1, FS_CardinalityType
<1>3. Cardinality(R \cap V) = 0 /\ Cardinality(R \cap W) = 0
  BY FS_EmptySet
<1>4. /\ IsFiniteSet(R \cup V)
      /\ Cardinality(R \cup V) = Cardinality(R) + Cardinality(V) - Cardinality(R \cap V)
  BY <1>1, FS_Union, Zenon
<1>5. Cardinality(R \cup W) = Cardinality(R) + Cardinality(W) - Cardinality(R \cap W)
  BY <1>1, FS_Union, Zenon
<1> QED
  BY <1>2, <1>3, <1>4, <1>5

LEMMA CountMore ==
    ASSUME NEW S, NEW p, IsFiniteSet(S), p \notin S
    PROVE  /\ IsFiniteSet(S \cup {p}) /\ Cardinality(S) \in Nat
           /\ Cardinality(S \cup {p}) = Cardinality(S) + 1
  BY FS_AddElement, FS_CardinalityType

LEMMA CountLess ==
    ASSUME NEW S, NEW p, IsFiniteSet(S), p \in S
    PROVE  /\ IsFiniteSet(S \ {p}) /\ Cardinality(S) \in Nat
           /\ Cardinality(S \ {p}) = Cardinality(S) - 1
  BY FS_RemoveElement, FS_CardinalityType

\* A cache has as many regions as places.
LEMMA CacheCounts ==
    ASSUME Constants, NEW R, NEW c, CacheOK(c, R)
    PROVE  IsFiniteSet(Cached(c)) /\ Cardinality(Cached(c)) = Len(c.avail)
<1> DEFINE n == Len(c.avail)
           f == [k \in 1 .. n |-> c.avail[k]]
<1>1. n \in Nat /\ c # None
  BY CacheIsSomething DEF CacheOK, Caches
<1>2. Cached(c) = {c.avail[k] : k \in 1 .. n}
  BY <1>1 DEF Cached
<1>3. \A j, k \in 1 .. n : c.avail[j] = c.avail[k] => j = k
  BY DEF CacheOK
<1>4. IsFiniteSet(1 .. n) /\ Cardinality(1 .. n) = n
  BY <1>1, FS_Interval, SMTT(40)
<1> HIDE DEF n
<1>5. f \in Bijection(1 .. n, Cached(c))
  <2>1. f \in [1 .. n -> Cached(c)]
    BY <1>2
  <2>2. f \in Injection(1 .. n, Cached(c))
    <3>1. \A j, k \in 1 .. n : f[j] = f[k] => j = k
      BY <1>3
    <3> QED
      BY <2>1, <3>1 DEF Injection, IsInjective
  <2>3. f \in Surjection(1 .. n, Cached(c))
    <3>1. \A p \in Cached(c) : \E k \in 1 .. n : f[k] = p
      BY <1>2
    <3> QED
      BY <2>1, <3>1 DEF Surjection
  <2> QED
    BY <2>2, <2>3 DEF Bijection
<1>6. ExistsBijection(1 .. n, Cached(c))
  BY <1>5 DEF ExistsBijection
<1> QED
  BY <1>4, <1>6, FS_Bijection DEF n

LEMMA LooseIs ==
    ASSUME Constants, NEW w, NEW c, NEW R, LocalOK(w, c, R), NEW a
    PROVE  IsFiniteSet(LooseAt(w, c, a)) /\ LooseAt(w, c, a) \subseteq OwnsOf(w, c)
<1>1. CASE w.op \in Gets
  <2>1. w.op \notin Flushes
    BY <1>1 DEF Gets, Flushes
  <2>2. /\ c = None \/ CacheOK(c, R)
        /\ OwnsOf(w, c) = Cached(c) \cup InHands(w)
    BY <2>1, Quiet
  <2>3. {w.ptr} \ {None} \subseteq InHands(w)
    BY <1>1 DEF Gets, InHands
  <2>4. LooseAt(w, c, a) \subseteq Cached(c) \cup {w.ptr}
        /\ LooseAt(w, c, a) \subseteq OwnsOf(w, c)
    BY <2>2, <2>3 DEF LooseAt, LooseOf
  <2>5. IsFiniteSet(Cached(c))
    <3>1. CASE c = None
      <4>1. Cached(c) = {}
        BY <3>1 DEF Cached
      <4> QED
        BY <4>1, FS_EmptySet
    <3>2. CASE CacheOK(c, R)
      BY <3>2, CacheCounts
    <3> QED
      BY <2>2, <3>1, <3>2
  <2>6. IsFiniteSet(Cached(c) \cup {w.ptr})
    BY <2>5, FS_AddElement
  <2> QED
    BY <2>4, <2>6, FS_Subset
<1>2. CASE w.op \notin Gets
  <2>1. LooseAt(w, c, a) = {}
    BY <1>2 DEF LooseAt, LooseOf, Gets
  <2> QED
    BY <2>1, FS_EmptySet
<1> QED
  BY <1>1, <1>2

-----------------------------------------------------------------------------
(* The invariant, and what a step of a thread has to keep of it.           *)

Owns(t) == OwnsOf(todo[t], tcache[t])
Regions(a) == {a} \X Slot(a) \X (0 .. nregs - 1)
OutOf(a, b) == {p \in Regions(a) : p[3] \notin b.run[p[2]].free}
RunAt(w, a) == IF w.arena = a THEN {w.run} \ {None} ELSE {}

Types ==
    /\ nregs \in Nat \ {0}
    /\ room \in [Arenas -> Nat]
    /\ arenaOf \in [Threads -> Arenas]
    /\ bins = [a \in Arenas |-> bins[a]]
    /\ mapped = [a \in Arenas |-> mapped[a]]
    /\ tcache = [t \in Threads |-> tcache[t]]
    /\ todo = [t \in Threads |-> todo[t]]
    /\ app \subseteq Region

\* A run between the arena and the bin is one thread's.
RunsApart ==
    \A t, u \in Threads : \A a \in Arenas :
        t # u => RunAt(todo[t], a) \cap RunAt(todo[u], a) = {}

\* Each region that is out is the program's or one thread's.
Apart ==
    /\ \A t \in Threads : app \cap Owns(t) = {}
    /\ \A t, u \in Threads : t # u => Owns(t) \cap Owns(u) = {}
Covered ==
    UNION {OutOf(a, bins[a]) : a \in Arenas} = app \cup UNION {Owns(t) : t \in Threads}

BinsOK == \A a \in Arenas : BinOK(bins[a], Slot(a), nregs, mapped[a], Between(a))
Locals == \A t \in Threads : LocalOK(todo[t], tcache[t], Region)

\* What the threads owe the bin of an arena, and its counters but for that.
Bringing(a) == {t \in Threads : Brings(todo[t], a)}
Returning(a) == {t \in Threads : Returns(todo[t], a)}
Giving(a) == {t \in Threads : Gives(todo[t], a)}
Loose(a) == UNION {LooseAt(todo[t], tcache[t], a) : t \in Threads}

StatsAt(a) ==
    /\ IsFiniteSet(Bringing(a)) /\ IsFiniteSet(Returning(a)) /\ IsFiniteSet(Giving(a))
    /\ IsFiniteSet(Loose(a))
    /\ bins[a].curruns + Cardinality(Bringing(a))
         = Cardinality(mapped[a]) + Cardinality(Returning(a))
    /\ bins[a].allocated + Cardinality(Loose(a))
         = Cardinality(OutOf(a, bins[a])) + Cardinality(Giving(a))
Stats == \A a \in Arenas : StatsAt(a)

Inv == Types /\ RunsApart /\ Apart /\ Covered /\ BinsOK /\ Locals /\ Stats

\* A step of thread t at arena a: it comes to work w and cache c, the bin to b
\* with the runs M mapped, and the program to hold A.
StepTo(t, a, w, c, b, M, A) ==
    /\ t \in Threads /\ a \in Arenas
    /\ UNCHANGED <<nregs, room, arenaOf>>
    /\ todo' = [todo EXCEPT ![t] = w]
    /\ tcache' = [tcache EXCEPT ![t] = c]
    /\ bins' = [bins EXCEPT ![a] = b]
    /\ mapped' = [mapped EXCEPT ![a] = M]
    /\ app' = A

\* The runs between arena and bin once thread t has come to work w.
BetweenAfter(t, a, w) == (Between(a) \ RunAt(todo[t], a)) \cup RunAt(w, a)

\* What the step does to the debts of the thread and to the bin it makes up for.
Accounted(t, a, w, c, b, M) ==
    /\ \A x \in Arenas \ {a} : SameAt(todo[t], tcache[t], w, c, x)
    /\ b.curruns + Cardinality(mapped[a]) + One(Brings(w, a)) + One(Returns(todo[t], a))
         = bins[a].curruns + Cardinality(M) + One(Brings(todo[t], a)) + One(Returns(w, a))
    /\ b.allocated + Cardinality(OutOf(a, bins[a])) + Cardinality(LooseAt(w, c, a))
           + One(Gives(todo[t], a))
         = bins[a].allocated + Cardinality(OutOf(a, b))
             + Cardinality(LooseAt(todo[t], tcache[t], a)) + One(Gives(w, a))

\* What the step has to keep: regions L go back to their run, and regions G are
\* taken from it.
StepOK(t, a, w, c, b, M, A, L, G) ==
    /\ LocalOK(w, c, Region)
    /\ \A x \in Arenas \ {a} : RunAt(w, x) = RunAt(todo[t], x)
    /\ RunAt(w, a) \cap (Between(a) \ RunAt(todo[t], a)) = {}
    /\ BinOK(b, Slot(a), nregs, M, BetweenAfter(t, a, w))
    /\ OutOf(a, b) = (OutOf(a, bins[a]) \ L) \cup G
    /\ G \cap OutOf(a, bins[a]) = {} /\ G \subseteq Regions(a)
    /\ L \subseteq Regions(a) /\ L \subseteq app \cup Owns(t)
    /\ A \cup OwnsOf(w, c) = ((app \cup Owns(t)) \ L) \cup G
    /\ A \cap OwnsOf(w, c) = {}
    /\ Accounted(t, a, w, c, b, M)

LEMMA RegionIs ==
    ASSUME Types, NEW p
    PROVE  /\ p \in Region => /\ p[1] \in Arenas /\ p \in Regions(p[1])
                              /\ p[2] \in Slot(p[1]) /\ p[3] \in 0 .. nregs - 1
                              /\ p = <<p[1], p[2], p[3]>>
           /\ \A a \in Arenas : p \in Regions(a) => p \in Region /\ p[1] = a
  BY DEF Region, Regions

LEMMA BetweenIs ==
    ASSUME NEW a
    PROVE  Between(a) = UNION {RunAt(todo[u], a) : u \in Threads}
  BY DEF Between, RunAt

LEMMA BinCounts ==
    ASSUME Types, NEW a \in Arenas, NEW b, NEW M, NEW B, BinOK(b, Slot(a), nregs, M, B)
    PROVE  /\ b.curruns \in Int /\ b.allocated \in Int
           /\ IsFiniteSet(M) /\ Cardinality(M) \in Nat
           /\ IsFiniteSet(OutOf(a, b)) /\ Cardinality(OutOf(a, b)) \in Nat
<1>1. b.curruns \in Int /\ b.allocated \in Int /\ M \subseteq Slot(a)
  BY DEF BinOK, BinRecs
<1>2. IsFiniteSet(Slot(a))
  <2>1. room[a] \in Int
    BY DEF Types
  <2> QED
    BY <2>1, FS_Interval DEF Slot
<1>3. IsFiniteSet(0 .. nregs - 1)
  <2>1. nregs - 1 \in Int
    BY DEF Types
  <2> QED
    BY <2>1, FS_Interval
<1>4. IsFiniteSet(Regions(a))
  <2> DEFINE D == Slot(a)
             E == 0 .. nregs - 1
             f == [q \in D \X E |-> <<a, q[1], q[2]>>]
  <2>1. IsFiniteSet(D \X E)
    BY <1>2, <1>3, FS_Product
  <2>2. Regions(a) = {a} \X D \X E
    BY DEF Regions
  <2> HIDE DEF D, E
  <2>3. f \in Surjection(D \X E, {a} \X D \X E)
    <3>1. f \in [D \X E -> {a} \X D \X E]
      OBVIOUS
    <3>2. ASSUME NEW p \in {a} \X D \X E PROVE \E q \in D \X E : f[q] = p
      <4>1. <<p[2], p[3]>> \in D \X E /\ p = <<a, p[2], p[3]>>
        OBVIOUS
      <4>2. f[<<p[2], p[3]>>] = p
        BY <4>1
      <4> QED
        BY <4>1, <4>2
    <3> QED
      BY <3>1, <3>2 DEF Surjection
  <2> HIDE DEF f
  <2> QED
    BY <2>1, <2>2, <2>3, FS_Surjection
<1>5. IsFiniteSet(M)
  BY <1>1, <1>2, FS_Subset
<1>6. IsFiniteSet(OutOf(a, b))
  <2>1. OutOf(a, b) \subseteq Regions(a)
    BY DEF OutOf
  <2> QED
    BY <1>4, <2>1, FS_Subset
<1> QED
  BY <1>1, <1>5, <1>6, FS_CardinalityType

\* One thread's debts change: those of all threads change by as much.
LEMMA DebtsMove ==
    ASSUME Constants, Types, Apart, Apart', Locals, Locals', NEW x \in Arenas, StatsAt(x),
           NEW t \in Threads, NEW w, NEW c, todo'[t] = w, tcache'[t] = c,
           \A u \in Threads \ {t} : todo'[u] = todo[u] /\ tcache'[u] = tcache[u]
    PROVE  /\ IsFiniteSet(Bringing(x)') /\ IsFiniteSet(Returning(x)')
           /\ IsFiniteSet(Giving(x)') /\ IsFiniteSet(Loose(x)')
           /\ Cardinality(Bringing(x)') + One(Brings(todo[t], x))
                = Cardinality(Bringing(x)) + One(Brings(w, x))
           /\ Cardinality(Returning(x)') + One(Returns(todo[t], x))
                = Cardinality(Returning(x)) + One(Returns(w, x))
           /\ Cardinality(Giving(x)') + One(Gives(todo[t], x))
                = Cardinality(Giving(x)) + One(Gives(w, x))
           /\ Cardinality(Loose(x)') + Cardinality(LooseAt(todo[t], tcache[t], x))
                = Cardinality(Loose(x)) + Cardinality(LooseAt(w, c, x))
           /\ Cardinality(Bringing(x)) \in Nat /\ Cardinality(Bringing(x)') \in Nat
           /\ Cardinality(Returning(x)) \in Nat /\ Cardinality(Returning(x)') \in Nat
           /\ Cardinality(Giving(x)) \in Nat /\ Cardinality(Giving(x)') \in Nat
           /\ Cardinality(Loose(x)) \in Nat /\ Cardinality(Loose(x)') \in Nat
           /\ Cardinality(LooseAt(todo[t], tcache[t], x)) \in Nat
           /\ Cardinality(LooseAt(w, c, x)) \in Nat
<1>1. /\ Bringing(x) \ {t} = Bringing(x)' \ {t}
      /\ t \in Bringing(x) <=> Brings(todo[t], x)
      /\ t \in Bringing(x)' <=> Brings(w, x)
  BY DEF Bringing, Brings
<1>2. /\ Returning(x) \ {t} = Returning(x)' \ {t}
      /\ t \in Returning(x) <=> Returns(todo[t], x)
      /\ t \in Returning(x)' <=> Returns(w, x)
  BY DEF Returning, Returns
<1>3. /\ Giving(x) \ {t} = Giving(x)' \ {t}
      /\ t \in Giving(x) <=> Gives(todo[t], x)
      /\ t \in Giving(x)' <=> Gives(w, x)
  BY DEF Giving, Gives
<1>4. IsFiniteSet(Bringing(x)) /\ IsFiniteSet(Returning(x)) /\ IsFiniteSet(Giving(x))
      /\ IsFiniteSet(Loose(x))
  BY DEF StatsAt
<1>5. /\ IsFiniteSet(Bringing(x)')
      /\ Cardinality(Bringing(x)) \in Nat /\ Cardinality(Bringing(x)') \in Nat
      /\ Cardinality(Bringing(x)') + One(Brings(todo[t], x))
           = Cardinality(Bringing(x)) + One(Brings(w, x))
  <2>1. One(t \in Bringing(x)) = One(Brings(todo[t], x))
        /\ One(t \in Bringing(x)') = One(Brings(w, x))
    BY <1>1 DEF One
  <2> QED
    BY <1>1, <1>4, <2>1, CountOne
<1>6. /\ IsFiniteSet(Returning(x)')
      /\ Cardinality(Returning(x)) \in Nat /\ Cardinality(Returning(x)') \in Nat
      /\ Cardinality(Returning(x)') + One(Returns(todo[t], x))
           = Cardinality(Returning(x)) + One(Returns(w, x))
  <2>1. One(t \in Returning(x)) = One(Returns(todo[t], x))
        /\ One(t \in Returning(x)') = One(Returns(w, x))
    BY <1>2 DEF One
  <2> QED
    BY <1>2, <1>4, <2>1, CountOne
<1>7. /\ IsFiniteSet(Giving(x)')
      /\ Cardinality(Giving(x)) \in Nat /\ Cardinality(Giving(x)') \in Nat
      /\ Cardinality(Giving(x)') + One(Gives(todo[t], x))
           = Cardinality(Giving(x)) + One(Gives(w, x))
  <2>1. One(t \in Giving(x)) = One(Gives(todo[t], x))
        /\ One(t \in Giving(x)') = One(Gives(w, x))
    BY <1>3 DEF One
  <2> QED
    BY <1>3, <1>4, <2>1, CountOne
<1> DEFINE R == UNION {LooseAt(todo[u], tcache[u], x) : u \in Threads \ {t}}
           W == LooseAt(todo[t], tcache[t], x)
           V == LooseAt(w, c, x)
<1>8. Loose(x) = R \cup W
  BY DEF Loose
<1>9. Loose(x)' = R \cup V
  <2>1. Loose(x)' = UNION {LooseAt(todo'[u], tcache'[u], x) : u \in Threads}
    BY DEF Loose, LooseAt, LooseOf, Cached
  <2>2. \A u \in Threads \ {t} : LooseAt(todo'[u], tcache'[u], x) = LooseAt(todo[u], tcache[u], x)
    OBVIOUS
  <2>3. LooseAt(todo'[t], tcache'[t], x) = V
    OBVIOUS
  <2> HIDE DEF V
  <2> QED
    BY <2>1, <2>2, <2>3
<1>10. \A u \in Threads : LooseAt(todo[u], tcache[u], x) \subseteq Owns(u)
  BY LooseIs DEF Locals, Owns
<1>11. Owns(t)' = OwnsOf(w, c) /\ \A u \in Threads \ {t} : Owns(u)' = Owns(u)
  BY DEF Owns
<1>12. IsFiniteSet(V) /\ V \subseteq OwnsOf(w, c)
  <2>1. LocalOK(w, c, Region')
    BY DEF Locals
  <2> QED
    BY <2>1, LooseIs
<1>13. R \cap W = {}
  BY <1>10 DEF Apart
<1>14. R \cap V = {}
  <2>1. \A u \in Threads \ {t} : Owns(u) \cap OwnsOf(w, c) = {}
    BY <1>11 DEF Apart
  <2> HIDE DEF V
  <2> QED
    BY <1>10, <1>12, <2>1
<1> HIDE DEF R, V, W
<1>15. /\ IsFiniteSet(Loose(x)')
       /\ Cardinality(Loose(x)) \in Nat /\ Cardinality(Loose(x)') \in Nat
       /\ Cardinality(V) \in Nat /\ Cardinality(W) \in Nat
       /\ Cardinality(Loose(x)') + Cardinality(W) = Cardinality(Loose(x)) + Cardinality(V)
  <2>1. IsFiniteSet(R \cup W)
    BY <1>4, <1>8
  <2>2. /\ IsFiniteSet(R \cup V)
        /\ Cardinality(R \cup V) \in Nat /\ Cardinality(R \cup W) \in Nat
        /\ Cardinality(V) \in Nat /\ Cardinality(W) \in Nat
        /\ Cardinality(R \cup V) + Cardinality(W) = Cardinality(R \cup W) + Cardinality(V)
    BY <1>12, <1>13, <1>14, <2>1, CountPart, ZenonT(60)
  <2> QED
    BY <1>8, <1>9, <2>2
<1> QED
  BY <1>5, <1>6, <1>7, <1>15 DEF V, W

LEMMA StatsStep ==
    ASSUME Constants, Types, Types', Apart, Apart', Locals, Locals', BinsOK, BinsOK', Stats,
           NEW t, NEW a, NEW w, NEW c, NEW b, NEW M, NEW A,
           StepTo(t, a, w, c, b, M, A), Accounted(t, a, w, c, b, M)
    PROVE  Stats'
<1>1. t \in Threads /\ a \in Arenas
  BY DEF StepTo
<1>2. /\ todo'[t] = w /\ tcache'[t] = c
      /\ \A u \in Threads \ {t} : todo'[u] = todo[u] /\ tcache'[u] = tcache[u]
      /\ bins'[a] = b /\ mapped'[a] = M
      /\ \A x \in Arenas \ {a} : bins'[x] = bins[x] /\ mapped'[x] = mapped[x]
  BY DEF StepTo, Types
<1>3. \A x : OutOf(x, bins[x])' = OutOf(x, bins'[x])
  BY DEF StepTo, OutOf, Regions, Slot
<1>4. SUFFICES ASSUME NEW x \in Arenas PROVE StatsAt(x)'
  BY DEF Stats
<1>5. StatsAt(x)
  BY DEF Stats
<1> DEFINE BR == Cardinality(Bringing(x))
           BR2 == Cardinality(Bringing(x)')
           RE == Cardinality(Returning(x))
           RE2 == Cardinality(Returning(x)')
           GI == Cardinality(Giving(x))
           GI2 == Cardinality(Giving(x)')
           LO == Cardinality(Loose(x))
           LO2 == Cardinality(Loose(x)')
           MA == Cardinality(mapped[x])
           MA2 == Cardinality(mapped'[x])
           OU == Cardinality(OutOf(x, bins[x]))
           OU2 == Cardinality(OutOf(x, bins'[x]))
           la == Cardinality(LooseAt(todo[t], tcache[t], x))
           lb == Cardinality(LooseAt(w, c, x))
           ba == One(Brings(todo[t], x))
           bb == One(Brings(w, x))
           ra == One(Returns(todo[t], x))
           rb == One(Returns(w, x))
           ga == One(Gives(todo[t], x))
           gb == One(Gives(w, x))
<1>6. /\ IsFiniteSet(Bringing(x)') /\ IsFiniteSet(Returning(x)')
      /\ IsFiniteSet(Giving(x)') /\ IsFiniteSet(Loose(x)')
      /\ BR2 + ba = BR + bb /\ RE2 + ra = RE + rb /\ GI2 + ga = GI + gb /\ LO2 + la = LO + lb
      /\ BR \in Nat /\ BR2 \in Nat /\ RE \in Nat /\ RE2 \in Nat /\ GI \in Nat /\ GI2 \in Nat
      /\ LO \in Nat /\ LO2 \in Nat /\ la \in Nat /\ lb \in Nat
  BY <1>1, <1>2, <1>5, DebtsMove
<1>7. /\ MA \in Nat /\ OU \in Nat /\ bins[x].curruns \in Int /\ bins[x].allocated \in Int
  <2>1. BinOK(bins[x], Slot(x), nregs, mapped[x], Between(x))
    BY DEF BinsOK
  <2> QED
    BY <2>1, BinCounts
<1>8. /\ MA2 \in Nat /\ OU2 \in Nat /\ bins'[x].curruns \in Int /\ bins'[x].allocated \in Int
  <2>1. BinOK(bins'[x], Slot(x), nregs, mapped'[x], Between(x)')
    <3>1. BinOK(bins'[x], Slot(x)', nregs', mapped'[x], Between(x)')
      BY DEF BinsOK
    <3>2. Slot(x)' = Slot(x) /\ nregs' = nregs
      BY DEF StepTo, Slot
    <3> QED
      BY <3>1, <3>2
  <2> QED
    BY <2>1, BinCounts
<1>9. ba \in Nat /\ bb \in Nat /\ ra \in Nat /\ rb \in Nat /\ ga \in Nat /\ gb \in Nat
  BY OneIs
<1>10. /\ bins'[x].curruns + MA + bb + ra = bins[x].curruns + MA2 + ba + rb
       /\ bins'[x].allocated + OU + lb + ga = bins[x].allocated + OU2 + la + gb
  <2>1. CASE x = a
    BY <1>2, <2>1 DEF Accounted
  <2>2. CASE x # a
    <3>1. bins'[x] = bins[x] /\ mapped'[x] = mapped[x]
      BY <1>2, <2>2
    <3>2. SameAt(todo[t], tcache[t], w, c, x)
      BY <2>2 DEF Accounted
    <3>3. la = lb /\ ba = bb /\ ra = rb /\ ga = gb
      BY <3>2 DEF SameAt, One
    <3>4. MA2 = MA /\ OU2 = OU /\ bins'[x].curruns = bins[x].curruns
          /\ bins'[x].allocated = bins[x].allocated
      BY <3>1
    <3> HIDE DEF la, lb, ba, bb, ra, rb, ga, gb, MA, MA2, OU, OU2
    <3> QED
      BY <1>6, <1>7, <1>9, <3>3, <3>4
  <2> QED
    BY <2>1, <2>2
<1>11. bins[x].curruns + BR = MA + RE /\ bins[x].allocated + LO = OU + GI
  BY <1>5 DEF StatsAt
<1>12. bins'[x].curruns + BR2 = MA2 + RE2 /\ bins'[x].allocated + LO2 = OU2 + GI2
  <2> HIDE DEF la, lb, ba, bb, ra, rb, ga, gb, MA, MA2, OU, OU2, BR, BR2, RE, RE2, GI, GI2, LO, LO2
  <2>1. bins'[x].curruns + BR2 = MA2 + RE2
    <3>1. PICK k, k2 : k = bins[x].curruns /\ k2 = bins'[x].curruns
      OBVIOUS
    <3>2. /\ k \in Int /\ k2 \in Int /\ k2 + MA + bb + ra = k + MA2 + ba + rb
          /\ k + BR = MA + RE
      BY <1>7, <1>8, <1>10, <1>11, <3>1
    <3>3. k2 + BR2 = MA2 + RE2
      BY <1>6, <1>7, <1>8, <1>9, <3>2
    <3> QED
      BY <3>1, <3>3
  <2>2. bins'[x].allocated + LO2 = OU2 + GI2
    <3>1. PICK k, k2 : k = bins[x].allocated /\ k2 = bins'[x].allocated
      OBVIOUS
    <3>2. /\ k \in Int /\ k2 \in Int /\ k2 + OU + lb + ga = k + OU2 + la + gb
          /\ k + LO = OU + GI
      BY <1>7, <1>8, <1>10, <1>11, <3>1
    <3>3. k2 + LO2 = OU2 + GI2
      BY <1>6, <1>7, <1>8, <1>9, <3>2
    <3> QED
      BY <3>1, <3>3
  <2> QED
    BY <2>1, <2>2
<1> QED
  BY <1>3, <1>6, <1>12 DEF StatsAt

LEMMA StepKeeps ==
    ASSUME Constants, Inv, NEW t, NEW a, NEW w, NEW c, NEW b, NEW M, NEW A, NEW L, NEW G,
           StepTo(t, a, w, c, b, M, A), StepOK(t, a, w, c, b, M, A, L, G)
    PROVE  Inv'
<1>1. t \in Threads /\ a \in Arenas
  BY DEF StepTo
<1>2. /\ todo'[t] = w /\ tcache'[t] = c
      /\ \A u \in Threads \ {t} : todo'[u] = todo[u] /\ tcache'[u] = tcache[u]
      /\ bins'[a] = b /\ mapped'[a] = M
      /\ \A x \in Arenas \ {a} : bins'[x] = bins[x] /\ mapped'[x] = mapped[x]
      /\ app' = A
  BY DEF StepTo, Inv, Types
<1>3. /\ nregs' = nregs /\ Region' = Region /\ \A x : Slot(x)' = Slot(x)
      /\ \A x : Regions(x)' = Regions(x)
  BY DEF StepTo, Slot, Region, Regions
<1>4. /\ Owns(t)' = OwnsOf(w, c)
      /\ \A u \in Threads \ {t} : Owns(u)' = Owns(u)
  BY <1>2 DEF Owns
<1>5. OwnsOf(w, c) \subseteq Region /\ A \subseteq Region
  <2>1. OwnsOf(w, c) \subseteq Region /\ Owns(t) \subseteq Region
    BY <1>1, PlacesInCache DEF StepOK, Inv, Locals, Owns
  <2>2. Regions(a) \subseteq Region
    BY <1>1, RegionIs DEF Inv
  <2> QED
    BY <2>1, <2>2 DEF StepOK, Inv, Types
<1>6. Types'
  <2>1. app' \subseteq Region'
    BY <1>2, <1>3, <1>5
  <2> QED
    BY <2>1 DEF StepTo, Inv, Types
<1>7. \A x \in Arenas : Between(x)' = BetweenAfter(t, x, w)
  <2> SUFFICES ASSUME NEW x \in Arenas PROVE Between(x)' = BetweenAfter(t, x, w)
    OBVIOUS
  <2>1. Between(x)' = UNION {RunAt(todo'[u], x) : u \in Threads}
    BY DEF Between, RunAt
  <2> DEFINE U == UNION {RunAt(todo[u], x) : u \in Threads \ {t}}
             V == UNION {RunAt(todo'[u], x) : u \in Threads}
  <2>2. V = U \cup RunAt(w, x)
    <3>1. \A u \in Threads \ {t} : RunAt(todo'[u], x) = RunAt(todo[u], x)
      BY <1>2
    <3>2. RunAt(todo'[t], x) = RunAt(w, x)
      BY <1>2
    <3> QED
      BY <1>1, <3>1, <3>2
  <2>3. Between(x) \ RunAt(todo[t], x) = U
    <3>1. \A u \in Threads \ {t} : RunAt(todo[t], x) \cap RunAt(todo[u], x) = {}
      BY <1>1 DEF Inv, RunsApart
    <3> QED
      BY <1>1, <3>1, BetweenIs
  <2> HIDE DEF U
  <2> QED
    BY <2>1, <2>2, <2>3 DEF BetweenAfter
<1>8. RunsApart'
  <2>1. ASSUME NEW u \in Threads \ {t}, NEW x \in Arenas
        PROVE  RunAt(w, x) \cap RunAt(todo[u], x) = {}
    <3>1. RunAt(todo[t], x) \cap RunAt(todo[u], x) = {}
      BY <1>1 DEF Inv, RunsApart
    <3>2. CASE x = a
      <4>1. RunAt(todo[u], x) \subseteq Between(x) \ RunAt(todo[t], x)
        BY <3>1, BetweenIs
      <4> QED
        BY <3>2, <4>1 DEF StepOK
    <3>3. CASE x # a
      BY <3>1, <3>3 DEF StepOK
    <3> QED
      BY <3>2, <3>3
  <2>2. ASSUME NEW u \in Threads, NEW v \in Threads, NEW x \in Arenas, u # v
        PROVE  RunAt(todo'[u], x) \cap RunAt(todo'[v], x) = {}
    <3>1. CASE u = t
      BY <1>2, <2>1, <2>2, <3>1
    <3>2. CASE v = t
      BY <1>2, <2>1, <2>2, <3>2
    <3>3. CASE u # t /\ v # t
      BY <1>2, <2>2, <3>3 DEF Inv, RunsApart
    <3> QED
      BY <3>1, <3>2, <3>3
  <2> QED
    BY <2>2 DEF RunsApart, RunAt
<1>9. BinsOK'
  <2>1. ASSUME NEW x \in Arenas
        PROVE  BinOK(bins'[x], Slot(x), nregs, mapped'[x], BetweenAfter(t, x, w))
    <3>1. CASE x = a
      BY <1>2, <3>1 DEF StepOK
    <3>2. CASE x # a
      <4>1. RunAt(todo[t], x) \subseteq Between(x)
        BY <1>1, BetweenIs
      <4>2. BetweenAfter(t, x, w) = Between(x)
        BY <3>2, <4>1 DEF BetweenAfter, StepOK
      <4> QED
        BY <1>2, <3>2, <4>2 DEF Inv, BinsOK
    <3> QED
      BY <3>1, <3>2
  <2> QED
    BY <1>3, <1>7, <2>1 DEF BinsOK
<1>10. Locals'
  <2>1. \A u \in Threads : LocalOK(todo'[u], tcache'[u], Region)
    BY <1>2 DEF StepOK, Inv, Locals
  <2> QED
    BY <1>3, <2>1 DEF Locals
<1> DEFINE Mine == app \cup Owns(t)
           Others == UNION {Owns(u) : u \in Threads \ {t}}
           Out == UNION {OutOf(x, bins[x]) : x \in Arenas}
<1>11. /\ Out = Mine \cup Others /\ Mine \cap Others = {}
  <2>1. Out = Mine \cup Others
    BY <1>1 DEF Inv, Covered
  <2> QED
    BY <1>1, <2>1 DEF Inv, Apart
<1>12. /\ L \cap Others = {} /\ G \cap Others = {}
       /\ G \cap Out = {}
  <2>1. G \cap Out = {}
    <3>1. ASSUME NEW p \in G, NEW x \in Arenas, p \in OutOf(x, bins[x]) PROVE FALSE
      <4>1. p \in Regions(a) /\ p \in Regions(x)
        BY <3>1 DEF StepOK, OutOf
      <4>2. x = a
        BY <1>1, <4>1, RegionIs DEF Inv
      <4> QED
        BY <3>1, <4>2 DEF StepOK
    <3> QED
      BY <3>1
  <2> QED
    BY <1>11, <2>1 DEF StepOK
<1>13. A \cup OwnsOf(w, c) = (Mine \ L) \cup G
  BY DEF StepOK
<1>14. (A \cup OwnsOf(w, c)) \cap Others = {}
  BY <1>11, <1>12, <1>13
<1>15. Apart'
  <2>1. \A u \in Threads \ {t} : Owns(u) \subseteq Others
    OBVIOUS
  <2>2. \A u \in Threads \ {t} : Owns(u) \cap A = {} /\ Owns(u) \cap OwnsOf(w, c) = {}
    BY <1>14, <2>1
  <2>3. \A u \in Threads : app' \cap Owns(u)' = {}
    BY <1>2, <1>4, <2>2 DEF StepOK
  <2>4. \A u, v \in Threads : u # v => Owns(u)' \cap Owns(v)' = {}
    <3>1. \A u, v \in Threads : u # v => Owns(u) \cap Owns(v) = {}
      BY DEF Inv, Apart
    <3> QED
      BY <1>4, <2>2, <3>1
  <2> QED
    BY <2>3, <2>4 DEF Apart
<1>16. UNION {OutOf(x, bins'[x]) : x \in Arenas} = (Out \ L) \cup G
  <2>1. \A x \in Arenas \ {a} : OutOf(x, bins[x]) \cap L = {}
    <3>1. ASSUME NEW x \in Arenas \ {a}, NEW p \in L, p \in OutOf(x, bins[x]) PROVE FALSE
      BY <1>1, <3>1, RegionIs DEF StepOK, OutOf, Inv
    <3> QED
      BY <3>1
  <2>2. OutOf(a, bins'[a]) = (OutOf(a, bins[a]) \ L) \cup G
    BY <1>2 DEF StepOK
  <2>3. \A x \in Arenas \ {a} : OutOf(x, bins'[x]) = OutOf(x, bins[x])
    BY <1>2
  <2> HIDE DEF Mine, Others
  <2> QED
    BY <1>1, <2>1, <2>2, <2>3
<1>17. Covered'
  <2>1. UNION {OutOf(x, bins[x])' : x \in Arenas} = UNION {OutOf(x, bins'[x]) : x \in Arenas}
    BY <1>3 DEF OutOf
  <2>2. UNION {Owns(u)' : u \in Threads} = Others \cup OwnsOf(w, c)
    BY <1>1, <1>4
  <2>3. (Out \ L) \cup G = A \cup Others \cup OwnsOf(w, c)
    <3> HIDE DEF Mine, Others, Out
    <3> QED
      BY <1>11, <1>12, <1>13
  <2> QED
    BY <1>2, <1>16, <2>1, <2>2, <2>3 DEF Covered
<1>18. Stats'
  <2>1. Accounted(t, a, w, c, b, M)
    BY DEF StepOK
  <2> QED
    BY <1>6, <1>9, <1>10, <1>15, <2>1, StatsStep DEF Inv
<1> QED
  BY <1>6, <1>8, <1>9, <1>10, <1>15, <1>17, <1>18 DEF Inv

\* A step that leaves bins and runs alone.
LEMMA LocalStep ==
    ASSUME Constants, Inv, NEW t \in Threads, NEW w, NEW c,
           UNCHANGED <<nregs, room, arenaOf, bins, mapped>>,
           todo' = [todo EXCEPT ![t] = w], tcache' = [tcache EXCEPT ![t] = c],
           LocalOK(w, c, Region),
           \A x \in Arenas : RunAt(w, x) = RunAt(todo[t], x),
           app' \cup OwnsOf(w, c) = app \cup Owns(t),
           app' \cap OwnsOf(w, c) = {},
           \A x \in Arenas : SameAt(todo[t], tcache[t], w, c, x)
    PROVE  Inv'
<1> DEFINE a == arenaOf[t]
<1>1. a \in Arenas
  BY DEF Inv, Types
<1>2. StepTo(t, a, w, c, bins[a], mapped[a], app')
  BY <1>1 DEF StepTo, Inv, Types
<1>3. RunAt(todo[t], a) \subseteq Between(a)
  BY BetweenIs
<1>4. BetweenAfter(t, a, w) = Between(a)
  BY <1>1, <1>3 DEF BetweenAfter
<1>5. StepOK(t, a, w, c, bins[a], mapped[a], app', {}, {})
  <2>1. BinOK(bins[a], Slot(a), nregs, mapped[a], Between(a))
    BY <1>1 DEF Inv, BinsOK
  <2>2. Accounted(t, a, w, c, bins[a], mapped[a])
    <3>1. SameAt(todo[t], tcache[t], w, c, a)
      BY <1>1
    <3>2. /\ LooseAt(todo[t], tcache[t], a) = LooseAt(w, c, a)
          /\ One(Brings(todo[t], a)) = One(Brings(w, a))
          /\ One(Returns(todo[t], a)) = One(Returns(w, a))
          /\ One(Gives(todo[t], a)) = One(Gives(w, a))
      BY <3>1 DEF SameAt, One
    <3> QED
      BY <3>2 DEF Accounted
  <2> QED
    BY <1>1, <1>4, <2>1, <2>2 DEF StepOK
<1> QED
  BY <1>2, <1>5, StepKeeps

-----------------------------------------------------------------------------
(* The caches.                                                             *)

\* What the caches are like after each of the operations on them.
LEMMA Popped ==
    ASSUME Constants, NEW R, NEW c, CacheOK(c, R), Len(c.avail) > 0
    PROVE  /\ CacheOK(PopLast(c), R)
           /\ Last(c.avail) \in R
           /\ Last(c.avail) \in Cached(c)
           /\ Cached(PopLast(c)) = Cached(c) \ {Last(c.avail)}
<1> DEFINE n == Len(c.avail)
           q == SubSeq(c.avail, 1, n - 1)
           d == PopLast(c)
<1>1. c \in Caches(R) /\ c.avail \in Seq(R) /\ n \in Nat /\ c.low_water \in Int
  BY DEF CacheOK, Caches
<1>2. Front(c.avail) = q /\ Last(c.avail) = c.avail[n]
  BY DEF Front, Last
<1>3. /\ q \in Seq(R) /\ Len(q) = n - 1
      /\ \A k \in 1 .. n - 1 : q[k] = c.avail[k]
  BY <1>1
<1> HIDE DEF q
<1>4. LessLow(c, n - 1) \in Int /\ LessLow(c, n - 1) <= n - 1
  BY <1>1 DEF LessLow
<1>5. d \in Caches(R) /\ d.avail = q /\ d.low_water = LessLow(c, n - 1)
  BY <1>1, <1>2, <1>3, <1>4 DEF PopLast, Caches
<1>6. c # None /\ d # None
  BY <1>1, <1>5, CacheIsSomething
<1> HIDE DEF d
<1>7. CacheOK(d, R)
  BY <1>1, <1>3, <1>4, <1>5, SMTT(30) DEF CacheOK
<1>8. Cached(c) = {c.avail[k] : k \in 1 .. n} /\ Cached(d) = {q[k] : k \in 1 .. n - 1}
  BY <1>3, <1>5, <1>6 DEF Cached
<1>9. {q[k] : k \in 1 .. n - 1} = {c.avail[k] : k \in 1 .. n} \ {c.avail[n]}
  BY <1>1, <1>3, SMTT(30) DEF CacheOK
<1>10. Cached(d) = Cached(c) \ {Last(c.avail)}
  BY <1>2, <1>8, <1>9, Zenon
<1>11. Last(c.avail) \in R /\ Last(c.avail) \in Cached(c)
  BY <1>1, <1>2, <1>8
<1> QED
  BY <1>7, <1>10, <1>11 DEF d

LEMMA Pushed ==
    ASSUME Constants, NEW R, NEW c, CacheOK(c, R), NEW p \in R, p \notin Cached(c)
    PROVE  LET d == [c EXCEPT !.avail = Append(@, p)]
           IN  CacheOK(d, R) /\ Cached(d) = Cached(c) \cup {p} /\ Len(d.avail) > 0
<1> DEFINE n == Len(c.avail)
           q == Append(c.avail, p)
           d == [c EXCEPT !.avail = Append(@, p)]
<1>1. c \in Caches(R) /\ c.avail \in Seq(R) /\ n \in Nat /\ c.low_water \in Int
  BY DEF CacheOK, Caches
<1>2. /\ q \in Seq(R) /\ Len(q) = n + 1 /\ q[n + 1] = p
      /\ \A k \in 1 .. n : q[k] = c.avail[k]
  BY <1>1
<1> HIDE DEF q
<1>3. d \in Caches(R) /\ d.avail = q /\ d.low_water = c.low_water
  BY <1>1, <1>2 DEF Caches, q
<1>4. c # None /\ d # None
  BY <1>1, <1>3, CacheIsSomething
<1> HIDE DEF d
<1>5. \A k \in 1 .. n : c.avail[k] # p
  BY <1>4 DEF Cached
<1>6. CacheOK(d, R)
  <2>1. \A j, k \in 1 .. n + 1 : q[j] = q[k] => j = k
    BY <1>1, <1>2, <1>5 DEF CacheOK
  <2> QED
    BY <1>1, <1>2, <1>3, <2>1 DEF CacheOK
<1>7. Cached(d) = {q[k] : k \in 1 .. n + 1} /\ Cached(c) = {c.avail[k] : k \in 1 .. n}
  BY <1>2, <1>3, <1>4 DEF Cached
<1>8. {q[k] : k \in 1 .. n + 1} = {c.avail[k] : k \in 1 .. n} \cup {p}
  BY <1>1, <1>2, SMTT(30)
<1>9. Cached(d) = Cached(c) \cup {p}
  BY <1>7, <1>8, Zenon
<1>10. Len(d.avail) > 0
  BY <1>1, <1>2, <1>3
<1> QED
  BY <1>6, <1>9, <1>10 DEF d

LEMMA SameAvail ==
    ASSUME Constants, NEW R, NEW c, CacheOK(c, R), NEW d \in Caches(R), d.avail = c.avail,
           d.low_water <= Len(c.avail)
    PROVE  CacheOK(d, R) /\ Cached(d) = Cached(c)
<1>1. c # None /\ d # None
  BY CacheIsSomething DEF CacheOK
<1> QED
  BY <1>1 DEF CacheOK, Cached

\* Between two operations, and about to get a region from a bin.
LEMMA IdleIs ==
    ASSUME NEW R, NEW c
    PROVE  /\ Idle \in Work(R) /\ Idle.op \notin Flushes /\ Doing(Idle, c)
           /\ InHands(Idle) = {} /\ Idle.run = None /\ Idle.pc = "idle"
           /\ \A a : RunAt(Idle, a) = {}
  BY DEF Idle, Work, Doing, InHands, Flushes, Gets, RunAt

LEMMA IdleAgain ==
    ASSUME NEW R, RegionsOK(R), NEW c, c = None \/ CacheOK(c, R)
    PROVE  /\ LocalOK(Idle, c, R) /\ OwnsOf(Idle, c) = Cached(c)
           /\ \A a : RunAt(Idle, a) = {}
  BY IdleIs, QuietAgain

LEMMA GettingIs ==
    ASSUME NEW R, NEW c, NEW o \in Gets, NEW x \in Arenas, o = "fill" => c # None
    PROVE  LET w == [Idle EXCEPT !.pc = "get", !.op = o, !.arena = x]
           IN  /\ w \in Work(R) /\ w.op \notin Flushes /\ Doing(w, c)
               /\ InHands(w) = {} /\ w.run = None
               /\ \A a : RunAt(w, a) = {}
<1> DEFINE w == [Idle EXCEPT !.pc = "get", !.op = o, !.arena = x]
<1>1. /\ w \in Work(R) /\ w.pc = "get" /\ w.op = o /\ w.arena = x /\ w.run = None
      /\ w.ptr = None /\ w.push = None
  BY DEF Idle, Work, Gets
<1> HIDE DEF w
<1>2. w.op \notin Flushes /\ w.op # "push"
  BY <1>1 DEF Gets, Flushes
<1>3. Doing(w, c)
  BY <1>1, <1>2 DEF Doing, Gets
<1>4. InHands(w) = {} /\ \A a : RunAt(w, a) = {}
  BY <1>1 DEF InHands, RunAt
<1> QED
  BY <1>1, <1>2, <1>3, <1>4 DEF w

\* What the statistics are owed then.
LEMMA IdleEven ==
    ASSUME NEW c
    PROVE  Even(Idle, c)
  BY CalmIsEven DEF Idle, Gets

LEMMA GettingOwes ==
    ASSUME NEW c, NEW o \in Gets, NEW x
    PROVE  LET w == [Idle EXCEPT !.pc = "get", !.op = o, !.arena = x]
           IN  /\ w.pc = "get" /\ w.arena = x
               /\ LooseOf(w, c) = IF o = "fill" THEN Cached(c) ELSE {}
  BY DEF Idle, LooseOf, Gets

\* Once a region is delivered, or none is found, the thread and the program have
\* what they had, and it; and all of it is counted, unless the fill goes on.
Due(t, p) ==
    (IF todo[t].op = "fill" THEN Cached(tcache[t]) ELSE {}) \cup ({p} \ {None})
Settled(t, a, p, w, c, b, d) ==
    /\ d.curruns = b.curruns
    /\ w.pc \notin {"relock", "drop", "dropped"}
    /\ w.arena = a \/ LooseOf(w, c) = {}
    /\ d.allocated + Cardinality(LooseOf(w, c)) = b.allocated + Cardinality(Due(t, p))

LEMMA Delivered ==
    ASSUME Constants, Inv, NEW t \in Threads, NEW a \in Arenas, NEW S, NEW n,
           NEW b \in BinRecs(S, n), NEW p \in Region \cup {None}, todo[t].op \in Gets,
           p \notin app, p \notin Cached(tcache[t]), Deliver(t, a, b, p),
           UNCHANGED <<nregs, room, arenaOf, mapped>>
    PROVE  \E w, c, d :
             /\ StepTo(t, a, w, c, d, mapped[a], app')
             /\ d \in BinRecs(S, n) /\ d.run = b.run /\ d.runcur = b.runcur /\ d.runs = b.runs
             /\ LocalOK(w, c, Region)
             /\ \A x : RunAt(w, x) = {}
             /\ app' \cup OwnsOf(w, c) = app \cup Cached(tcache[t]) \cup ({p} \ {None})
             /\ app' \cap OwnsOf(w, c) = {}
             /\ Settled(t, a, p, w, c, b, d)
<1> DEFINE R == Region
           c0 == tcache[t]
           P == {p} \ {None}
           Good(w, c, d) ==
             /\ StepTo(t, a, w, c, d, mapped[a], app')
             /\ d \in BinRecs(S, n) /\ d.run = b.run /\ d.runcur = b.runcur /\ d.runs = b.runs
             /\ LocalOK(w, c, R)
             /\ \A x : RunAt(w, x) = {}
             /\ app' \cup OwnsOf(w, c) = app \cup Cached(c0) \cup P
             /\ app' \cap OwnsOf(w, c) = {}
             /\ Settled(t, a, p, w, c, b, d)
           Counted(k) == [b EXCEPT !.allocated = @ + k]
<1>1. LocalOK(todo[t], c0, R) /\ todo[t].op \notin Flushes
  BY DEF Inv, Locals, Gets, Flushes
<1>2. (c0 = None \/ CacheOK(c0, R)) /\ RegionsOK(R) /\ Cached(c0) \subseteq Owns(t)
  BY <1>1, Quiet DEF Owns
<1>3. todo[t].op = "fill" => c0 # None
  BY <1>1 DEF LocalOK, Doing
<1>4. app \cap Cached(c0) = {}
  BY <1>2 DEF Inv, Apart
<1>5. /\ mapped' = [mapped EXCEPT ![a] = mapped[a]]
      /\ tcache = [tcache EXCEPT ![t] = c0]
      /\ UNCHANGED <<nregs, room, arenaOf>>
  BY DEF Inv, Types
<1>6. \A k \in Int : /\ Counted(k) \in BinRecs(S, n) /\ Counted(k).run = b.run
                     /\ Counted(k).runcur = b.runcur /\ Counted(k).runs = b.runs
                     /\ Counted(k).curruns = b.curruns
                     /\ Counted(k).allocated = b.allocated + k
  BY DEF BinRecs
<1> HIDE DEF Counted
<1>7. \A c : /\ Idle \in Work(R) /\ Idle.op \notin Flushes /\ Doing(Idle, c)
             /\ InHands(Idle) = {} /\ \A x : RunAt(Idle, x) = {}
  BY IdleIs
<1>8. \A c : c = None \/ CacheOK(c, R) =>
               LocalOK(Idle, c, R) /\ OwnsOf(Idle, c) = Cached(c)
  <2> SUFFICES ASSUME NEW c, c = None \/ CacheOK(c, R)
               PROVE  LocalOK(Idle, c, R) /\ OwnsOf(Idle, c) = Cached(c)
    OBVIOUS
  <2>1. Cached(c) \cap InHands(Idle) = {} /\ Cached(c) \cup InHands(Idle) = Cached(c)
    BY <1>7
  <2>2. Idle \in Work(R) /\ Idle.op \notin Flushes /\ Doing(Idle, c)
    BY <1>7
  <2> QED
    BY <1>2, <2>1, <2>2, QuietAgain
<1>8a. ASSUME NEW c, NEW d, d.curruns = b.curruns, NEW k \in Nat, k = Cardinality(Due(t, p)),
              d.allocated = b.allocated + k
       PROVE  Settled(t, a, p, Idle, c, b, d)
  <2>1. Idle.pc \notin {"relock", "drop", "dropped"} /\ LooseOf(Idle, c) = {}
    BY IdleEven DEF Even
  <2>2. Cardinality({}) = 0 /\ d.allocated \in Int
    BY <1>8a, FS_EmptySet DEF BinRecs
  <2> QED
    BY <1>8a, <2>1, <2>2 DEF Settled
<1>9. ASSUME NEW c, CacheOK(c, R), FillEnds(t, a, b, c), Cached(c) = Cached(c0) \cup P,
             todo[t].op = "fill"
      PROVE  \E w, c2, d : Good(w, c2, d)
  <2>1. c \in Caches(R) /\ c # None /\ Len(c.avail) \in Nat
    BY <1>9, CacheIsSomething DEF CacheOK, Caches
  <2> DEFINE d == Counted(Len(c.avail))
  <2>2. d \in BinRecs(S, n) /\ d.run = b.run /\ d.runcur = b.runcur /\ d.runs = b.runs
    BY <1>6, <2>1
  <2>2a. \A k : Settled(t, a, p, Idle, k, b, d)
    <3>1. Due(t, p) = Cached(c)
      BY <1>9 DEF Due
    <3>2. Cardinality(Due(t, p)) = Len(c.avail)
      BY <1>9, <3>1, CacheCounts
    <3>3. d.curruns = b.curruns /\ d.allocated = b.allocated + Len(c.avail)
      BY <1>6, <2>1
    <3> HIDE DEF d
    <3> QED
      BY <1>8a, <2>1, <3>2, <3>3
  <2>3. bins' = [bins EXCEPT ![a] = d] /\ todo' = [todo EXCEPT ![t] = Idle]
    BY <1>9 DEF FillEnds, SetBin, Do, Counted
  <2> HIDE DEF d
  <2>4. CASE c.avail = <<>>
    <3> DEFINE c2 == Emptied(c)
    <3>1. c2 \in Caches(R) /\ c2.avail = c.avail /\ c2.low_water <= Len(c.avail)
      BY <2>1 DEF Emptied, Caches
    <3>2. CacheOK(c2, R) /\ Cached(c2) = Cached(c)
      BY <1>9, <3>1, SameAvail
    <3>3. tcache' = [tcache EXCEPT ![t] = c2] /\ app' = app
      BY <1>9, <2>4 DEF FillEnds
    <3> HIDE DEF c2
    <3>4. LocalOK(Idle, c2, R) /\ OwnsOf(Idle, c2) = Cached(c2)
      BY <1>8, <3>2
    <3>5. app \cap Cached(c2) = {}
      BY <1>4, <1>9, <3>2
    <3>6. StepTo(t, a, Idle, c2, d, mapped[a], app')
      BY <1>5, <2>3, <3>3 DEF StepTo
    <3>7. app' \cup OwnsOf(Idle, c2) = app \cup Cached(c0) \cup P
      BY <1>9, <3>2, <3>3, <3>4
    <3>8. app' \cap OwnsOf(Idle, c2) = {}
      BY <3>3, <3>4, <3>5
    <3>9. Good(Idle, c2, d)
      BY <1>7, <2>2, <2>2a, <3>4, <3>6, <3>7, <3>8
    <3> QED
      BY <3>9
  <2>5. CASE c.avail # <<>>
    <3> DEFINE c2 == PopLast(c)
               l == Last(c.avail)
    <3>1. Len(c.avail) > 0
      BY <2>1, <2>5 DEF Caches
    <3>2. CacheOK(c2, R) /\ l \in Cached(c) /\ Cached(c2) = Cached(c) \ {l}
      BY <1>9, <3>1, Popped
    <3>3. tcache' = [tcache EXCEPT ![t] = c2] /\ app' = app \cup {l}
      BY <1>9, <2>5 DEF FillEnds
    <3> HIDE DEF c2, l
    <3>4. LocalOK(Idle, c2, R) /\ OwnsOf(Idle, c2) = Cached(c2)
      BY <1>8, <3>2
    <3>5. app \cap Cached(c) = {}
      BY <1>4, <1>9
    <3>6. StepTo(t, a, Idle, c2, d, mapped[a], app')
      BY <1>5, <2>3, <3>3 DEF StepTo
    <3>7. app' \cup OwnsOf(Idle, c2) = app \cup Cached(c0) \cup P
      BY <1>9, <3>2, <3>3, <3>4
    <3>8. app' \cap OwnsOf(Idle, c2) = {}
      BY <3>2, <3>3, <3>4, <3>5
    <3>9. Good(Idle, c2, d)
      BY <1>7, <2>2, <2>2a, <3>4, <3>6, <3>7, <3>8
    <3> QED
      BY <3>9
  <2> QED
    BY <2>4, <2>5
<1>10. CASE todo[t].op = "malloc"
  <2> DEFINE k == IF p = None THEN 0 ELSE 1
             d == Counted(k)
  <2>1. /\ bins' = [bins EXCEPT ![a] = d]
        /\ app' = app \cup P
        /\ todo' = [todo EXCEPT ![t] = Idle] /\ tcache' = tcache
    BY <1>10 DEF Deliver, SetBin, Do, Counted
  <2>2. d \in BinRecs(S, n) /\ d.run = b.run /\ d.runcur = b.runcur /\ d.runs = b.runs
    BY <1>6
  <2>2a. Settled(t, a, p, Idle, c0, b, d)
    <3>1. Due(t, p) = P
      BY <1>10 DEF Due
    <3>2. Cardinality(P) = k
      <4>1. p = None => P = {}
        OBVIOUS
      <4>2. p # None => P = {p}
        OBVIOUS
      <4>3. Cardinality({}) = 0 /\ Cardinality({p}) = 1
        BY FS_EmptySet, FS_Singleton
      <4> QED
        BY <4>1, <4>2, <4>3
    <3>3. k \in Nat
      OBVIOUS
    <3>4. d.curruns = b.curruns /\ d.allocated = b.allocated + k
      BY <1>6, <3>3
    <3> HIDE DEF d, k, P
    <3> QED
      BY <1>8a, <3>1, <3>2, <3>3, <3>4
  <2> HIDE DEF d
  <2>3. LocalOK(Idle, c0, R) /\ OwnsOf(Idle, c0) = Cached(c0)
    BY <1>2, <1>8
  <2>4. StepTo(t, a, Idle, c0, d, mapped[a], app')
    BY <1>5, <2>1 DEF StepTo
  <2>5. app' \cup OwnsOf(Idle, c0) = app \cup Cached(c0) \cup P
    BY <2>1, <2>3
  <2>6. app' \cap OwnsOf(Idle, c0) = {}
    BY <1>4, <2>1, <2>3
  <2>7. Good(Idle, c0, d)
    BY <1>7, <2>2, <2>2a, <2>3, <2>4, <2>5, <2>6
  <2> QED
    BY <2>7
<1>11. CASE todo[t].op = "fill" /\ p = None
  <2>1. FillEnds(t, a, b, c0) /\ CacheOK(c0, R)
    BY <1>2, <1>3, <1>11 DEF Deliver
  <2>2. Cached(c0) = Cached(c0) \cup P
    BY <1>11
  <2> QED
    BY <1>9, <1>11, <2>1, <2>2
<1>12. CASE todo[t].op = "fill" /\ p # None
  <2> DEFINE c == [c0 EXCEPT !.avail = Append(@, p)]
             w == [Idle EXCEPT !.pc = "get", !.op = "fill", !.arena = a]
  <2>1. CacheOK(c, R) /\ Cached(c) = Cached(c0) \cup P
    BY <1>2, <1>3, <1>12, Pushed
  <2>2. CASE FillEnds(t, a, b, c)
    BY <1>9, <1>12, <2>1, <2>2
  <2>3. CASE /\ SetBin(a, b) /\ tcache' = [tcache EXCEPT ![t] = c] /\ Do(t, w)
             /\ UNCHANGED app
    <3>1. c # None
      BY <2>1, CacheIsSomething DEF CacheOK
    <3> HIDE DEF c
    <3>2. /\ w \in Work(R) /\ w.op \notin Flushes /\ Doing(w, c)
          /\ InHands(w) = {} /\ \A x : RunAt(w, x) = {}
      BY <3>1, GettingIs DEF Gets
    <3>2a. Settled(t, a, p, w, c, b, b)
      <4>1. w.pc = "get" /\ w.arena = a /\ LooseOf(w, c) = Cached(c)
        BY GettingOwes DEF Gets
      <4>2. Due(t, p) = Cached(c)
        BY <1>12, <2>1 DEF Due
      <4> HIDE DEF w
      <4> QED
        BY <4>1, <4>2 DEF Settled
    <3> HIDE DEF w
    <3>3. LocalOK(w, c, R) /\ OwnsOf(w, c) = Cached(c)
      BY <1>2, <2>1, <3>2, QuietAgain
    <3>4. StepTo(t, a, w, c, b, mapped[a], app')
      BY <1>5, <2>3 DEF StepTo, SetBin, Do
    <3>5. app' \cup OwnsOf(w, c) = app \cup Cached(c0) \cup P
      BY <2>1, <2>3, <3>3
    <3>6. app' \cap OwnsOf(w, c) = {}
      BY <1>4, <2>1, <2>3, <3>3
    <3>7. Good(w, c, b)
      BY <3>2, <3>2a, <3>3, <3>4, <3>5, <3>6
    <3> QED
      BY <3>7
  <2>4. FillEnds(t, a, b, c) \/ (/\ SetBin(a, b) /\ tcache' = [tcache EXCEPT ![t] = c]
                                 /\ Do(t, w) /\ UNCHANGED app)
    BY <1>12, Zenon DEF Deliver
  <2> QED
    BY <2>2, <2>3, <2>4
<1> QED
  BY <1>10, <1>11, <1>12 DEF Gets

-----------------------------------------------------------------------------
(* What becomes of the regions that are out.                               *)

LEMMA TookOut ==
    ASSUME Constants, Inv, NEW a \in Arenas, NEW b, NEW s, NEW i,
           Took(bins[a], b, Slot(a), s, i)
    PROVE  LET p == <<a, s, i>>
           IN  /\ OutOf(a, b) = OutOf(a, bins[a]) \cup {p}
               /\ p \notin OutOf(a, bins[a]) /\ p \in Regions(a) /\ p \in Region
               /\ p \notin app /\ p # None
               /\ \A t \in Threads : p \notin Owns(t)
<1> DEFINE p == <<a, s, i>>
<1>1. i \in 0 .. nregs - 1 /\ s \in Slot(a)
  <2>1. RunOK(bins[a].run[s], nregs) /\ nregs \in Nat \ {0}
    BY RunTypes DEF Inv, BinsOK, Took
  <2>2. bins[a].run[s].free \subseteq 0 .. nregs - 1
    BY <2>1, RunCounts
  <2> QED
    BY <2>2 DEF Took
<1>2. p \in Regions(a) /\ p[1] = a /\ p[2] = s /\ p[3] = i
  BY <1>1 DEF Regions
<1>3. p \in Region
  BY <1>2, RegionIs DEF Inv
<1>4. p \notin OutOf(a, bins[a])
  BY <1>2 DEF OutOf, Took
<1>5. OutOf(a, b) = OutOf(a, bins[a]) \cup {p}
  <2>1. ASSUME NEW q \in Regions(a)
        PROVE  q \in OutOf(a, b) <=> q \in OutOf(a, bins[a]) \/ q = p
    <3>1. q = <<a, q[2], q[3]>> /\ q[2] \in Slot(a)
      BY <2>1 DEF Regions
    <3>2. CASE q[2] = s
      BY <1>2, <3>1, <3>2 DEF OutOf, Took
    <3>3. CASE q[2] # s
      BY <1>2, <3>1, <3>3 DEF OutOf, Took
    <3> QED
      BY <3>2, <3>3
  <2> QED
    BY <1>2, <2>1 DEF OutOf
<1>6. \A x \in Arenas : p \notin OutOf(x, bins[x])
  BY <1>2, <1>4, RegionIs DEF OutOf, Inv
<1>7. p \notin app \cup UNION {Owns(t) : t \in Threads}
  BY <1>6 DEF Inv, Covered
<1>8. p # None
  BY Zenon DEF Constants
<1> QED
  BY <1>2, <1>3, <1>4, <1>5, <1>7, <1>8

LEMMA GaveOut ==
    ASSUME NEW a \in Arenas, NEW b, NEW p \in Regions(a),
           Gave(bins[a], b, Slot(a), p[2], p[3])
    PROVE  OutOf(a, b) = OutOf(a, bins[a]) \ {p}
<1>1. ASSUME NEW q \in Regions(a)
      PROVE  q \in OutOf(a, b) <=> q \in OutOf(a, bins[a]) /\ q # p
  <2>1. /\ q = <<a, q[2], q[3]>> /\ q[2] \in Slot(a)
        /\ p = <<a, p[2], p[3]>> /\ p[2] \in Slot(a)
    BY <1>1 DEF Regions
  <2>2. CASE q[2] = p[2]
    BY <2>1, <2>2 DEF OutOf, Gave
  <2>3. CASE q[2] # p[2]
    BY <2>1, <2>3 DEF OutOf, Gave
  <2> QED
    BY <2>2, <2>3
<1> QED
  BY <1>1 DEF OutOf

LEMMA SameOut ==
    ASSUME NEW a, NEW b, NEW c, SameFree(b, c, Slot(a))
    PROVE  OutOf(a, b) = OutOf(a, c)
<1>1. \A p \in Regions(a) : p[2] \in Slot(a)
  BY DEF Regions
<1> QED
  BY <1>1 DEF OutOf, SameFree

\* What someone has is a region that is out.
LEMMA HeldIsOut ==
    ASSUME Inv, NEW t \in Threads, NEW p \in app \cup Owns(t)
    PROVE  /\ p \in Region /\ p[1] \in Arenas /\ p \in Regions(p[1])
           /\ p[2] \in Slot(p[1]) /\ p[3] \in 0 .. nregs - 1
           /\ p[3] \notin bins[p[1]].run[p[2]].free
<1>1. PICK a \in Arenas : p \in OutOf(a, bins[a])
  BY DEF Inv, Covered
<1>2. p \in Regions(a) /\ p[3] \notin bins[a].run[p[2]].free
  BY <1>1 DEF OutOf
<1>3. p \in Region /\ p[1] = a
  BY <1>2, RegionIs DEF Inv
<1> QED
  BY <1>2, <1>3, RegionIs DEF Inv

-----------------------------------------------------------------------------
(* Allocation.                                                             *)

\* The counters of the bin but for the regions the thread will have counted.
Charged(t, a, b) ==
    /\ b.allocated = bins[a].allocated
    /\ b.curruns + One(Returns(todo[t], a)) = bins[a].curruns + One(Brings(todo[t], a))

\* Nothing but runs changes the counters of a bin.
SameCounts(b, c) == c.curruns = b.curruns /\ c.allocated = b.allocated

LEMMA CountsKept ==
    ASSUME NEW S, NEW n, NEW b \in BinRecs(S, n), NEW s, NEW p
    PROVE  /\ SameCounts(b, arena_run_reg_alloc(b, s))
           /\ SameCounts(b, arena_run_reg_dalloc(b, p))
           /\ SameCounts(b, Tryget(b))
           /\ SameCounts(b, arena_bin_lower_run(b, s))
           /\ SameCounts(b, arena_dissociate_bin_run(b, s))
           /\ SameCounts(b, [b EXCEPT !.runcur = s])
<1>1. b = [runcur |-> b.runcur, runs |-> b.runs, curruns |-> b.curruns,
           allocated |-> b.allocated, run |-> b.run]
  BY DEF BinRecs
<1>2. SameCounts(b, arena_run_reg_alloc(b, s))
  BY <1>1 DEF SameCounts, arena_run_reg_alloc
<1>3. SameCounts(b, arena_run_reg_dalloc(b, p))
  BY <1>1 DEF SameCounts, arena_run_reg_dalloc
<1>4. SameCounts(b, Tryget(b))
  BY <1>1 DEF SameCounts, Tryget
<1>5. SameCounts(b, arena_bin_lower_run(b, s))
  BY <1>1 DEF SameCounts, arena_bin_lower_run
<1>6. SameCounts(b, arena_dissociate_bin_run(b, s))
  BY <1>1 DEF SameCounts, arena_dissociate_bin_run
<1>7. SameCounts(b, [b EXCEPT !.runcur = s])
  BY <1>1 DEF SameCounts
<1> QED
  BY <1>2, <1>3, <1>4, <1>5, <1>6, <1>7

LEMMA CountsKeptTwice ==
    ASSUME NEW S, NEW n, NEW b \in BinRecs(S, n), NEW s, NEW p, NEW k
    PROVE  /\ SameCounts(b, arena_bin_lower_run(arena_run_reg_alloc(b, k), s))
           /\ SameCounts(b, arena_bin_lower_run(arena_run_reg_dalloc(b, p), s))
           /\ SameCounts(b, arena_dissociate_bin_run(arena_run_reg_dalloc(b, p), s))
<1>1. b = [runcur |-> b.runcur, runs |-> b.runs, curruns |-> b.curruns,
           allocated |-> b.allocated, run |-> b.run]
  BY DEF BinRecs
<1>2. ASSUME NEW f
      PROVE  /\ SameCounts(b, arena_bin_lower_run([b EXCEPT !.run = f], s))
             /\ SameCounts(b, arena_dissociate_bin_run([b EXCEPT !.run = f], s))
  BY <1>1 DEF SameCounts, arena_bin_lower_run, arena_dissociate_bin_run
<1>3. \E f : arena_run_reg_alloc(b, k) = [b EXCEPT !.run = f]
  BY <1>1 DEF arena_run_reg_alloc
<1>4. \E f : arena_run_reg_dalloc(b, p) = [b EXCEPT !.run = f]
  BY <1>1 DEF arena_run_reg_dalloc
<1> QED
  BY <1>2, <1>3, <1>4

\* What a thread that gets a region owes.
LEMMA GetsOwe ==
    ASSUME Constants, Inv, NEW t \in Threads, NEW a, todo[t].op \in Gets, todo[t].arena = a
    PROVE  /\ One(Gives(todo[t], a)) = 0
           /\ LooseAt(todo[t], tcache[t], a)
                = (IF todo[t].op = "fill" THEN Cached(tcache[t]) ELSE {}) \cup InHands(todo[t])
           /\ IsFiniteSet(LooseAt(todo[t], tcache[t], a))
           /\ LooseAt(todo[t], tcache[t], a) \subseteq Owns(t)
           /\ \A x : x # a => /\ LooseAt(todo[t], tcache[t], x) = {}
                             /\ ~Brings(todo[t], x) /\ ~Returns(todo[t], x) /\ ~Gives(todo[t], x)
<1>1. LocalOK(todo[t], tcache[t], Region)
  BY DEF Inv, Locals
<1>2. InHands(todo[t]) = {todo[t].ptr} \ {None}
  BY <1>1 DEF InHands, LocalOK, Doing, Gets
<1>3. IsFiniteSet(LooseAt(todo[t], tcache[t], a)) /\ LooseAt(todo[t], tcache[t], a) \subseteq Owns(t)
  BY <1>1, LooseIs DEF Owns
<1> QED
  BY <1>2, <1>3 DEF Gives, One, LooseAt, LooseOf, Brings, Returns

\* A region, from the bin or from the hands of the thread, is delivered.
LEMMA DeliverStep ==
    ASSUME Constants, Inv, NEW t \in Threads, NEW a \in Arenas, NEW b, NEW G,
           NEW p \in Region \cup {None}, todo[t].op \in Gets, todo[t].arena = a,
           p \notin app, p \notin Cached(tcache[t]), Deliver(t, a, b, p),
           UNCHANGED <<nregs, room, arenaOf, mapped>>,
           BinOK(b, Slot(a), nregs, mapped[a], Between(a) \ RunAt(todo[t], a)),
           OutOf(a, b) = OutOf(a, bins[a]) \cup G,
           G \cap OutOf(a, bins[a]) = {}, G \subseteq Regions(a),
           InHands(todo[t]) \cup G = {p} \ {None}, Charged(t, a, b)
    PROVE  Inv'
<1>1. b \in BinRecs(Slot(a), nregs)
  BY DEF BinOK
<1>2. PICK w, c, d :
             /\ StepTo(t, a, w, c, d, mapped[a], app')
             /\ d \in BinRecs(Slot(a), nregs) /\ d.run = b.run /\ d.runcur = b.runcur
             /\ d.runs = b.runs
             /\ LocalOK(w, c, Region)
             /\ \A x : RunAt(w, x) = {}
             /\ app' \cup OwnsOf(w, c) = app \cup Cached(tcache[t]) \cup ({p} \ {None})
             /\ app' \cap OwnsOf(w, c) = {}
             /\ Settled(t, a, p, w, c, b, d)
  BY <1>1, Delivered
<1>3. LocalOK(todo[t], tcache[t], Region) /\ todo[t].op \notin Flushes
  BY DEF Inv, Locals, Gets, Flushes
<1>4. Owns(t) = Cached(tcache[t]) \cup InHands(todo[t])
  BY <1>3, Quiet DEF Owns
<1>5. app' \cup OwnsOf(w, c) = ((app \cup Owns(t)) \ {}) \cup G
  BY <1>2, <1>4
<1>6. \A x \in Arenas \ {a} : RunAt(w, x) = RunAt(todo[t], x)
  BY <1>2 DEF RunAt
<1>7. BinOK(d, Slot(a), nregs, mapped[a], BetweenAfter(t, a, w))
  <2>1. BetweenAfter(t, a, w) = Between(a) \ RunAt(todo[t], a)
    BY <1>2 DEF BetweenAfter
  <2> QED
    BY <1>2, <2>1, SameBin
<1>8. OutOf(a, d) = (OutOf(a, bins[a]) \ {}) \cup G
  <2>1. OutOf(a, d) = OutOf(a, b)
    BY <1>2, SameOut DEF SameFree
  <2> QED
    BY <2>1
<1> DEFINE loose == LooseAt(todo[t], tcache[t], a)
<1>9. /\ One(Gives(todo[t], a)) = 0 /\ IsFiniteSet(loose) /\ loose \subseteq Owns(t)
      /\ loose = (IF todo[t].op = "fill" THEN Cached(tcache[t]) ELSE {}) \cup InHands(todo[t])
      /\ \A x : x # a => /\ LooseAt(todo[t], tcache[t], x) = {}
                        /\ ~Brings(todo[t], x) /\ ~Returns(todo[t], x) /\ ~Gives(todo[t], x)
  BY GetsOwe
<1>10. Due(t, p) = loose \cup G
  BY <1>9 DEF Due
<1> HIDE DEF loose
<1>11. IsFiniteSet(G) /\ G \cap loose = {}
  <2>1. IsFiniteSet({p})
    BY FS_Singleton
  <2>2. IsFiniteSet(G)
    BY <2>1, FS_Subset
  <2>3. ASSUME NEW q \in G, q \in loose PROVE FALSE
    <3>1. q \in app \cup Owns(t) /\ q \in Regions(a)
      BY <1>9, <2>3
    <3>2. q[1] = a
      BY <3>1, RegionIs DEF Inv
    <3>3. q[3] \notin bins[a].run[q[2]].free
      BY <3>1, <3>2, HeldIsOut
    <3> QED
      BY <2>3, <3>1, <3>3 DEF OutOf
  <2> QED
    BY <2>2, <2>3
<1> DEFINE nG == Cardinality(G)
           nL == Cardinality(loose)
           nO == Cardinality(OutOf(a, bins[a]))
<1>12. /\ nG \in Nat /\ nL \in Nat /\ Cardinality(Due(t, p)) = nL + nG
  <2>1. Cardinality(loose \cup G) = nL + nG - Cardinality(loose \cap G)
    BY <1>9, <1>11, FS_Union, Zenon
  <2>2. Cardinality(loose \cap G) = 0
    BY <1>11, FS_EmptySet
  <2>3. nG \in Nat /\ nL \in Nat
    BY <1>9, <1>11, FS_CardinalityType
  <2> QED
    BY <1>10, <2>1, <2>2, <2>3
<1>13. /\ bins[a].curruns \in Int /\ bins[a].allocated \in Int
       /\ IsFiniteSet(OutOf(a, bins[a])) /\ nO \in Nat
  <2>1. BinOK(bins[a], Slot(a), nregs, mapped[a], Between(a))
    BY DEF Inv, BinsOK
  <2> QED
    BY <2>1, BinCounts DEF Inv
<1>14. Cardinality(OutOf(a, d)) = nO + nG
  <2>1. Cardinality(OutOf(a, bins[a]) \cup G)
          = nO + nG - Cardinality(OutOf(a, bins[a]) \cap G)
    BY <1>11, <1>13, FS_Union, Zenon
  <2>2. OutOf(a, bins[a]) \cap G = {} /\ OutOf(a, d) = OutOf(a, bins[a]) \cup G
    BY <1>8
  <2>3. Cardinality(OutOf(a, bins[a]) \cap G) = 0
    BY <2>2, FS_EmptySet
  <2> QED
    BY <1>12, <1>13, <2>1, <2>2, <2>3
<1>15. /\ w.pc \notin {"relock", "drop", "dropped"} /\ d.curruns = b.curruns
       /\ w.arena = a \/ LooseOf(w, c) = {}
       /\ d.allocated + Cardinality(LooseOf(w, c)) = b.allocated + nL + nG
  <2>1. /\ w.pc \notin {"relock", "drop", "dropped"} /\ d.curruns = b.curruns
        /\ w.arena = a \/ LooseOf(w, c) = {}
        /\ d.allocated + Cardinality(LooseOf(w, c)) = b.allocated + Cardinality(Due(t, p))
    BY <1>2 DEF Settled
  <2>2. b.allocated \in Int
    BY <1>1 DEF BinRecs
  <2> QED
    BY <1>12, <2>1, <2>2
<1>16. /\ \A x : ~Brings(w, x) /\ ~Returns(w, x) /\ ~Gives(w, x)
       /\ LooseAt(w, c, a) = LooseOf(w, c) /\ \A x : x # a => LooseAt(w, c, x) = {}
  BY <1>15 DEF Brings, Returns, Gives, LooseAt
<1>17. Accounted(t, a, w, c, d, mapped[a])
  <2>1. \A x \in Arenas \ {a} : SameAt(todo[t], tcache[t], w, c, x)
    BY <1>9, <1>16 DEF SameAt
  <2>2. One(Brings(w, a)) = 0 /\ One(Returns(w, a)) = 0 /\ One(Gives(w, a)) = 0
    BY <1>16 DEF One
  <2>3. One(Brings(todo[t], a)) \in Nat /\ One(Returns(todo[t], a)) \in Nat
    BY OneIs
  <2>4. Cardinality(mapped[a]) \in Nat
    <3>1. BinOK(bins[a], Slot(a), nregs, mapped[a], Between(a))
      BY DEF Inv, BinsOK
    <3> QED
      BY <3>1, BinCounts DEF Inv
  <2>5. d.curruns + Cardinality(mapped[a]) + One(Brings(w, a)) + One(Returns(todo[t], a))
          = bins[a].curruns + Cardinality(mapped[a]) + One(Brings(todo[t], a))
              + One(Returns(w, a))
    <3>1. d.curruns + One(Returns(todo[t], a)) = bins[a].curruns + One(Brings(todo[t], a))
          /\ d.curruns \in Int
      BY <1>1, <1>15 DEF Charged, BinRecs
    <3> QED
      BY <1>13, <2>2, <2>3, <2>4, <3>1
  <2>6. d.allocated + nO + Cardinality(LooseAt(w, c, a)) + One(Gives(todo[t], a))
          = bins[a].allocated + Cardinality(OutOf(a, d)) + nL + One(Gives(w, a))
    <3>1. d.allocated + Cardinality(LooseAt(w, c, a)) = bins[a].allocated + nL + nG
          /\ d.allocated \in Int
      BY <1>2, <1>15, <1>16 DEF Charged, BinRecs
    <3>2. Cardinality(LooseAt(w, c, a)) \in Nat
      <4>1. IsFiniteSet(LooseAt(w, c, a))
        BY <1>2, LooseIs
      <4> QED
        BY <4>1, FS_CardinalityType
    <3> HIDE DEF nG, nL, nO
    <3> QED
      BY <1>9, <1>12, <1>13, <1>14, <2>2, <3>1, <3>2
  <2> QED
    BY <2>1, <2>5, <2>6 DEF Accounted, loose
<1>18. StepOK(t, a, w, c, d, mapped[a], app', {}, G)
  BY <1>2, <1>5, <1>6, <1>7, <1>8, <1>17 DEF StepOK
<1> QED
  BY <1>2, <1>18, StepKeeps

\* A region is taken from a run and delivered.
LEMMA TakeStep ==
    ASSUME Constants, Inv, NEW t \in Threads, NEW a \in Arenas, NEW b, NEW s, NEW i,
           todo[t].op \in Gets, todo[t].arena = a, todo[t].ptr = None,
           Deliver(t, a, b, <<a, s, i>>),
           UNCHANGED <<nregs, room, arenaOf, mapped>>,
           BinOK(b, Slot(a), nregs, mapped[a], Between(a) \ RunAt(todo[t], a)),
           Took(bins[a], b, Slot(a), s, i), Charged(t, a, b)
    PROVE  Inv'
<1> DEFINE p == <<a, s, i>>
<1>1. /\ OutOf(a, b) = OutOf(a, bins[a]) \cup {p}
      /\ p \notin OutOf(a, bins[a]) /\ p \in Regions(a) /\ p \in Region
      /\ p \notin app /\ p # None /\ p \notin Owns(t)
  BY TookOut
<1>2. LocalOK(todo[t], tcache[t], Region) /\ todo[t].op \notin Flushes
  BY DEF Inv, Locals, Gets, Flushes
<1>3. p \notin Cached(tcache[t])
  BY <1>1, <1>2, Quiet DEF Owns
<1>4. InHands(todo[t]) = {}
  BY <1>2 DEF InHands, LocalOK, Doing, Flushes
<1>5. InHands(todo[t]) \cup {p} = {p} \ {None} /\ {p} \subseteq Regions(a)
      /\ {p} \cap OutOf(a, bins[a]) = {}
  BY <1>1, <1>4
<1> HIDE DEF p
<1>6. Deliver(t, a, b, p)
  BY DEF p
<1> QED
  BY <1>1, <1>3, <1>5, <1>6, DeliverStep

\* No region was found.
LEMMA NoneStep ==
    ASSUME Constants, Inv, NEW t \in Threads, NEW a \in Arenas, NEW b,
           todo[t].op \in Gets, todo[t].arena = a, todo[t].ptr = None,
           Deliver(t, a, b, None),
           UNCHANGED <<nregs, room, arenaOf, mapped>>,
           BinOK(b, Slot(a), nregs, mapped[a], Between(a) \ RunAt(todo[t], a)),
           b.run = bins[a].run, Charged(t, a, b)
    PROVE  Inv'
<1>1. LocalOK(todo[t], tcache[t], Region) /\ todo[t].op \notin Flushes
  BY DEF Inv, Locals, Gets, Flushes
<1>2. None \notin Region /\ Owns(t) \subseteq Region /\ app \subseteq Region
  BY <1>1, PlacesInCache DEF Owns, LocalOK, Inv, Types
<1>3. None \notin Cached(tcache[t]) /\ None \notin app
  BY <1>1, <1>2, Quiet DEF Owns
<1>4. InHands(todo[t]) \cup {} = {None} \ {None}
  BY <1>1 DEF InHands, LocalOK, Doing, Flushes
<1>5. OutOf(a, b) = OutOf(a, bins[a]) \cup {}
  <2>1. OutOf(a, b) = OutOf(a, bins[a])
    BY SameOut DEF SameFree
  <2> QED
    BY <2>1
<1> QED
  BY <1>3, <1>4, <1>5, DeliverStep

\* Neither the debts of the thread nor what they are about have changed.
LEMMA SameAccounted ==
    ASSUME NEW t, NEW a, NEW w, NEW c, NEW b, \A x : SameAt(todo[t], tcache[t], w, c, x),
           SameCounts(bins[a], b), OutOf(a, b) = OutOf(a, bins[a])
    PROVE  Accounted(t, a, w, c, b, mapped[a])
<1>1. /\ LooseAt(todo[t], tcache[t], a) = LooseAt(w, c, a)
      /\ One(Brings(todo[t], a)) = One(Brings(w, a))
      /\ One(Returns(todo[t], a)) = One(Returns(w, a))
      /\ One(Gives(todo[t], a)) = One(Gives(w, a))
  BY DEF SameAt, One
<1> QED
  BY <1>1 DEF Accounted, SameCounts

LEMMA AtBin ==
    ASSUME Inv, NEW t \in Threads
    PROVE  /\ LocalOK(todo[t], tcache[t], Region) /\ todo[t] \in Work(Region)
           /\ Doing(todo[t], tcache[t])
           /\ \A a \in Arenas : /\ BinOK(bins[a], Slot(a), nregs, mapped[a], Between(a))
                                /\ RunAt(todo[t], a) \subseteq Between(a)
           /\ todo = [todo EXCEPT ![t] = todo[t]]
           /\ tcache = [tcache EXCEPT ![t] = tcache[t]]
<1>1. \A a \in Arenas : RunAt(todo[t], a) \subseteq Between(a)
  BY BetweenIs
<1> QED
  BY <1>1 DEF Inv, Types, Locals, BinsOK, LocalOK

LEMMA MallocKeeps ==
    ASSUME Constants, Inv, NEW t \in Threads, Malloc(t)
    PROVE  Inv'
<1> DEFINE R == Region
           c == tcache[t]
<1>1. todo[t] = Idle /\ LocalOK(Idle, c, R)
  BY AtBin DEF Malloc, Doing
<1>2. /\ c = None \/ CacheOK(c, R)
      /\ Owns(t) = Cached(c) /\ RegionsOK(R)
  BY <1>1, IdleIs, Quiet DEF Owns
<1>3. app \cap Cached(c) = {}
  BY <1>2 DEF Inv, Apart
<1>4. arenaOf[t] \in Arenas
  BY DEF Inv, Types
<1>5. UNCHANGED <<nregs, room, arenaOf, bins, mapped>>
  BY DEF Malloc
<1>6. \A x : RunAt(todo[t], x) = {}
  BY <1>1, IdleIs
<1>6a. \A v, d : Even(v, d) => \A x \in Arenas : SameAt(todo[t], c, v, d, x)
  BY <1>1, IdleEven, SameEven
<1>7. CASE /\ c = None /\ UNCHANGED <<tcache, app>>
           /\ Do(t, [Idle EXCEPT !.pc = "get", !.op = "malloc", !.arena = arenaOf[t]])
  <2> DEFINE w == [Idle EXCEPT !.pc = "get", !.op = "malloc", !.arena = arenaOf[t]]
  <2>1. /\ w \in Work(R) /\ w.op \notin Flushes /\ Doing(w, c)
        /\ InHands(w) = {} /\ \A x : RunAt(w, x) = {}
    BY <1>4, GettingIs DEF Gets
  <2>2. todo' = [todo EXCEPT ![t] = w] /\ tcache' = [tcache EXCEPT ![t] = c] /\ app' = app
    BY <1>7, AtBin DEF Do
  <2>2a. w.pc = "get" /\ LooseOf(w, c) = {}
    BY GettingOwes DEF Gets
  <2> HIDE DEF w
  <2>3. LocalOK(w, c, R) /\ OwnsOf(w, c) = Cached(c)
    BY <1>2, <2>1, QuietAgain
  <2>4. \A x \in Arenas : SameAt(todo[t], tcache[t], w, c, x)
    BY <1>6a, <2>2a DEF Even
  <2> HIDE DEF c
  <2> QED
    BY <1>2, <1>3, <1>5, <1>6, <2>1, <2>2, <2>3, <2>4, LocalStep
<1>8. CASE /\ c # None /\ Len(c.avail) > 0
           /\ app' = app \cup {Last(c.avail)}
           /\ tcache' = [tcache EXCEPT ![t] = PopLast(@)]
           /\ UNCHANGED todo
  <2> DEFINE d == PopLast(c)
             p == Last(c.avail)
  <2>1. CacheOK(d, R) /\ p \in Cached(c) /\ Cached(d) = Cached(c) \ {p}
    BY <1>2, <1>8, Popped
  <2>2. todo' = [todo EXCEPT ![t] = Idle] /\ tcache' = [tcache EXCEPT ![t] = d]
    BY <1>1, <1>8, AtBin
  <2> HIDE DEF d
  <2>3. LocalOK(Idle, d, R) /\ OwnsOf(Idle, d) = Cached(d)
    BY <1>2, <2>1, IdleIs, QuietAgain
  <2>4. app' \cup OwnsOf(Idle, d) = app \cup Owns(t) /\ app' \cap OwnsOf(Idle, d) = {}
    BY <1>2, <1>3, <1>8, <2>1, <2>3
  <2>5. \A x \in Arenas : RunAt(Idle, x) = RunAt(todo[t], x)
    BY <1>6, IdleIs
  <2>6. \A x \in Arenas : SameAt(todo[t], tcache[t], Idle, d, x)
    BY <1>6a, IdleEven
  <2> QED
    BY <1>5, <2>2, <2>3, <2>4, <2>5, <2>6, LocalStep
<1>9. CASE /\ c # None /\ Len(c.avail) = 0
           /\ tcache' = [tcache EXCEPT ![t] = Emptied(@)]
           /\ Do(t, [Idle EXCEPT !.pc = "get", !.op = "fill", !.arena = c.arena])
           /\ UNCHANGED app
  <2> DEFINE d == Emptied(c)
             w == [Idle EXCEPT !.pc = "get", !.op = "fill", !.arena = c.arena]
  <2>1. d \in Caches(R) /\ d.avail = c.avail /\ d.low_water <= Len(c.avail)
        /\ c.arena \in Arenas
    BY <1>2, <1>9 DEF CacheOK, Caches, Emptied
  <2>2. CacheOK(d, R) /\ Cached(d) = Cached(c) /\ d # None
    BY <1>2, <1>9, <2>1, SameAvail, CacheIsSomething
  <2>3. /\ w \in Work(R) /\ w.op \notin Flushes /\ Doing(w, d)
        /\ InHands(w) = {} /\ \A x : RunAt(w, x) = {}
    BY <2>1, <2>2, GettingIs DEF Gets
  <2>4. todo' = [todo EXCEPT ![t] = w] /\ tcache' = [tcache EXCEPT ![t] = d] /\ app' = app
    BY <1>9 DEF Do
  <2>4a. \A x \in Arenas : SameAt(todo[t], tcache[t], w, d, x)
    <3>1. Cached(c) = {}
      BY <1>9 DEF Cached
    <3>2. w.pc = "get" /\ LooseOf(w, d) = Cached(d)
      BY GettingOwes DEF Gets
    <3>3. Even(w, d)
      BY <2>2, <3>1, <3>2 DEF Even
    <3> QED
      BY <1>6a, <3>3
  <2> HIDE DEF w, d
  <2>5. LocalOK(w, d, R) /\ OwnsOf(w, d) = Cached(d)
    BY <1>2, <2>2, <2>3, QuietAgain, ZenonT(60)
  <2> QED
    BY <1>2, <1>3, <1>5, <1>6, <2>2, <2>3, <2>4, <2>4a, <2>5, LocalStep
<1> QED
  BY <1>7, <1>8, <1>9 DEF Malloc, ncached

LEMMA GetKeeps ==
    ASSUME Constants, Inv, NEW t \in Threads, Get(t)
    PROVE  Inv'
<1> DEFINE w == todo[t]
           a == todo[t].arena
           S == Slot(a)
           b0 == bins[a]
           B == Between(a)
           M == mapped[a]
           b == [b0 EXCEPT !.runcur = None]
           s == Lowest(b.runs)
           c == [Tryget(b) EXCEPT !.runcur = s]
<1>1. /\ w.op \in Gets /\ w.ptr = None /\ w.run = None /\ a \in Arenas /\ w.pc = "get"
      /\ BinOK(b0, S, nregs, M, B) /\ UNCHANGED <<nregs, room, arenaOf, mapped>>
  BY AtBin DEF Get, Doing
<1>2. RunAt(w, a) = {} /\ B \ RunAt(w, a) = B
  BY <1>1 DEF RunAt
<1>2a. \A d : SameCounts(b0, d) => Charged(t, a, d)
  <2>1. ~Brings(w, a) /\ ~Returns(w, a)
    BY <1>1 DEF Brings, Returns
  <2> QED
    BY <2>1 DEF SameCounts, Charged, One
<1>2b. b0 \in BinRecs(S, nregs)
  BY <1>1, RunTypes
<1>3. CASE HasRoom(b0)
  <2> DEFINE d == arena_run_reg_alloc(b0, b0.runcur)
             i == bitmap_sfu(b0, b0.runcur)
  <2>1. BinOK(d, S, nregs, M, B) /\ Took(b0, d, S, b0.runcur, i)
    BY <1>1, <1>3, AllocCur
  <2>2. Deliver(t, a, d, <<a, b0.runcur, i>>)
    BY <1>3 DEF Get, Taken
  <2>3. Charged(t, a, d)
    BY <1>2a, <1>2b, CountsKept
  <2> HIDE DEF d, i
  <2> QED
    BY <1>1, <1>2, <2>1, <2>2, <2>3, TakeStep
<1>4. CASE ~HasRoom(b0) /\ s # None
  <2>1. BinOK(b, S, nregs, M, B) /\ b.run = b0.run /\ b.runs = b0.runs /\ b.runcur = None
    BY <1>1, <1>4, NoCur
  <2>2. ~HasRoom(b) /\ b.runs # {}
    BY <1>4, <2>1 DEF HasRoom, Lowest
  <2>3. BinOK(c, S, nregs, M, B) /\ c.run = b.run /\ c.runcur = s /\ HasRoom(c)
    BY <2>1, <2>2, FirstRun
  <2> DEFINE d == arena_run_reg_alloc(c, s)
             i == bitmap_sfu(c, s)
  <2>4. BinOK(d, S, nregs, M, B) /\ Took(c, d, S, s, i)
    BY <2>3, AllocCur, ZenonT(60)
  <2>5. Deliver(t, a, d, <<a, s, i>>)
    BY <1>4 DEF Get, Taken
  <2>6. Took(b0, d, S, s, i)
    BY <2>1, <2>3, <2>4 DEF Took
  <2>7. Charged(t, a, d)
    <3>1. SameCounts(b0, b)
      BY <1>2b, CountsKept
    <3>2. b \in BinRecs(S, nregs) /\ c \in BinRecs(S, nregs)
      BY <2>1, <2>3, RunTypes
    <3>3. SameCounts(b, c)
      <4> HIDE DEF b, s
      <4> QED
        BY <3>2 DEF SameCounts, Tryget, BinRecs
    <3>4. SameCounts(c, d)
      <4> HIDE DEF c
      <4> QED
        BY <3>2, CountsKept
    <3>5. SameCounts(b0, d)
      BY <3>1, <3>3, <3>4 DEF SameCounts
    <3> QED
      BY <1>2a, <3>5
  <2> HIDE DEF d, i, s
  <2> QED
    BY <1>1, <1>2, <2>4, <2>5, <2>6, <2>7, TakeStep
<1>5. CASE ~HasRoom(b0) /\ s = None
  <2> DEFINE v == [w EXCEPT !.pc = "newrun"]
             k == tcache[t]
  <2>1. BinOK(b, S, nregs, M, B) /\ b.run = b0.run
    BY <1>1, <1>5, NoCur
  <2>2. /\ bins' = [bins EXCEPT ![a] = b] /\ todo' = [todo EXCEPT ![t] = v]
        /\ app' = app /\ tcache' = tcache
    BY <1>5 DEF Get, SetBin
  <2>3. /\ v \in Work(Region) /\ v.pc = "newrun" /\ v.op = w.op /\ v.arena = a
        /\ v.run = None /\ v.ptr = None /\ v.push = w.push
    BY <1>1, AtBin DEF Work
  <2>4. w.op \notin Flushes /\ v.op \notin Flushes
    BY <1>1, <2>3 DEF Gets, Flushes
  <2>5. /\ k = None \/ CacheOK(k, Region)
        /\ OwnsOf(w, k) = Cached(k) \cup InHands(w)
        /\ Cached(k) \cap InHands(w) = {} /\ RegionsOK(Region)
    BY <2>4, AtBin, Quiet
  <2>6. InHands(v) = InHands(w) /\ \A x : RunAt(v, x) = {} /\ RunAt(w, x) = {}
    BY <1>1, <2>3 DEF InHands, RunAt
  <2>7. Doing(v, k)
    BY <1>1, <2>3, AtBin DEF Doing, Gets
  <2>8. StepTo(t, a, v, k, b, M, app)
    BY <1>1, <2>2 DEF StepTo, Inv, Types
  <2>8a. SameCounts(b0, b)
    BY <1>2b, CountsKept
  <2> HIDE DEF v, b, c, s
  <2>9. LocalOK(v, k, Region) /\ OwnsOf(v, k) = OwnsOf(w, k)
    BY <2>3, <2>4, <2>5, <2>6, <2>7, QuietAgain
  <2>10. BetweenAfter(t, a, v) = B
    BY <1>2, <2>6 DEF BetweenAfter
  <2>11. OutOf(a, b) = OutOf(a, b0)
    BY <2>1, SameOut DEF SameFree
  <2>12. app \cap OwnsOf(v, k) = {}
    BY <2>9 DEF Inv, Apart, Owns
  <2>12a. Accounted(t, a, v, k, b, M)
    <3>1. \A x : SameAt(w, k, v, k, x)
      BY <1>1, <2>3 DEF SameAt, LooseAt, LooseOf, Brings, Returns, Gives, Gets
    <3> QED
      BY <2>8a, <2>11, <3>1, SameAccounted
  <2>13. StepOK(t, a, v, k, b, M, app, {}, {})
    BY <2>1, <2>6, <2>9, <2>10, <2>11, <2>12, <2>12a DEF StepOK, Owns
  <2> QED
    BY <2>8, <2>13, StepKeeps
<1> QED
  BY <1>3, <1>4, <1>5

\* The thread goes on with what it had.
LEMMA QuietMove ==
    ASSUME Constants, Inv, NEW t \in Threads, NEW v \in Work(Region),
           todo[t].op \notin Flushes, v.op \notin Flushes, Doing(v, tcache[t]),
           InHands(v) = InHands(todo[t])
    PROVE  /\ LocalOK(v, tcache[t], Region)
           /\ OwnsOf(v, tcache[t]) = Owns(t)
           /\ app \cap OwnsOf(v, tcache[t]) = {}
<1> DEFINE w == todo[t]
           k == tcache[t]
<1>1. /\ k = None \/ CacheOK(k, Region)
      /\ OwnsOf(w, k) = Cached(k) \cup InHands(w)
      /\ Cached(k) \cap InHands(w) = {} /\ RegionsOK(Region)
  BY AtBin, Quiet
<1>2. LocalOK(v, k, Region) /\ OwnsOf(v, k) = OwnsOf(w, k)
  BY <1>1, QuietAgain
<1> QED
  BY <1>2 DEF Inv, Apart, Owns

LEMMA NewRunKeeps ==
    ASSUME Constants, Inv, NEW t \in Threads, NewRun(t)
    PROVE  Inv'
<1> DEFINE w == todo[t]
           a == todo[t].arena
           k == tcache[t]
           B == Between(a)
           M == mapped[a]
<1>1. /\ w.op \in Gets /\ w.ptr = None /\ w.run = None /\ a \in Arenas
      /\ BinOK(bins[a], Slot(a), nregs, M, B) /\ w \in Work(Region) /\ Doing(w, k)
      /\ UNCHANGED <<nregs, room, arenaOf, app, tcache>>
      /\ w.pc = "newrun"
  BY AtBin DEF NewRun, Doing
<1>2. w.op \notin Flushes
  BY <1>1 DEF Gets, Flushes
<1>3. \A x : RunAt(w, x) = {}
  BY <1>1 DEF RunAt
<1>4. ASSUME NEW s \in (Nat \cup {None})
      PROVE  LET v == [w EXCEPT !.pc = "relock", !.run = s]
             IN  /\ LocalOK(v, k, Region) /\ OwnsOf(v, k) = Owns(t)
                 /\ app \cap OwnsOf(v, k) = {} /\ v.arena = a /\ v.run = s
  <2> DEFINE v == [w EXCEPT !.pc = "relock", !.run = s]
  <2>1. /\ v \in Work(Region) /\ v.pc = "relock" /\ v.op = w.op /\ v.arena = a
        /\ v.run = s /\ v.ptr = None /\ v.push = w.push
    BY <1>1 DEF Work
  <2> HIDE DEF v
  <2>2. InHands(v) = InHands(w)
    BY <1>1, <2>1 DEF InHands
  <2>3. Doing(v, k)
    BY <1>1, <2>1 DEF Doing, Gets
  <2>4. v.op \notin Flushes
    BY <1>2, <2>1
  <2>5. /\ LocalOK(v, k, Region) /\ OwnsOf(v, k) = Owns(t)
        /\ app \cap OwnsOf(v, k) = {}
    BY <1>2, <2>1, <2>2, <2>3, <2>4, QuietMove
  <2> QED
    BY <2>1, <2>5 DEF v
<1>5. ASSUME NEW s \in Slot(a) \ M,
             mapped' = [mapped EXCEPT ![a] = @ \cup {s}],
             bins' = [bins EXCEPT ![a].run[s] = Fresh],
             todo' = [todo EXCEPT ![t].pc = "relock", ![t].run = s]
      PROVE  Inv'
  <2> DEFINE v == [w EXCEPT !.pc = "relock", !.run = s]
             d == WithRun(bins[a], s, Fresh)
  <2>1. s \in Nat /\ s # None
    BY NoneIsNoNat DEF Slot
  <2>2. /\ LocalOK(v, k, Region) /\ OwnsOf(v, k) = Owns(t)
        /\ app \cap OwnsOf(v, k) = {} /\ v.arena = a /\ v.run = s
    BY <1>4, <2>1
  <2>3. todo' = [todo EXCEPT ![t] = v]
    BY <1>5
  <2>3a. v.pc = "relock" /\ v.op = w.op /\ v.ptr = w.ptr
    BY <1>1 DEF Work
  <2> HIDE DEF v
  <2>4. RunAt(v, a) = {s} /\ \A x \in Arenas \ {a} : RunAt(v, x) = {}
    BY <2>1, <2>2 DEF RunAt
  <2>5. /\ BinOK(d, Slot(a), nregs, M \cup {s}, B \cup {s})
        /\ SameFree(d, bins[a], Slot(a))
    <3>1. s \in Slot(a) /\ (s \notin M \/ s \in B)
      OBVIOUS
    <3>2. BinOK(bins[a], Slot(a), nregs, M, B)
      BY <1>1
    <3> HIDE DEF M, B, a
    <3> QED
      BY <3>1, <3>2, FreshRun
  <2>6. StepTo(t, a, v, k, d, M \cup {s}, app)
    <3>1. mapped' = [mapped EXCEPT ![a] = M \cup {s}] /\ bins' = [bins EXCEPT ![a] = d]
      BY <1>5 DEF WithRun
    <3>2. tcache' = [tcache EXCEPT ![t] = k]
      BY <1>1, AtBin
    <3> QED
      BY <1>1, <2>3, <3>1, <3>2 DEF StepTo
  <2>6a. SameCounts(bins[a], d)
    BY <1>1, RunTypes DEF SameCounts, WithRun, BinRecs
  <2> HIDE DEF d
  <2>7. BetweenAfter(t, a, v) = B \cup {s}
    BY <1>3, <2>4 DEF BetweenAfter
  <2>8. RunAt(v, a) \cap (B \ RunAt(w, a)) = {}
    BY <1>1, <2>4 DEF BinOK
  <2>9. OutOf(a, d) = OutOf(a, bins[a])
    BY <2>5, SameOut
  <2>9a. Accounted(t, a, v, k, d, M \cup {s})
    <3>1. \A x \in Arenas \ {a} : SameAt(w, k, v, k, x)
      BY <2>2 DEF SameAt, LooseAt, Brings, Returns, Gives
    <3>2. LooseAt(v, k, a) = LooseAt(w, k, a)
      BY <2>2, <2>3a DEF LooseAt, LooseOf
    <3>3. /\ One(Brings(w, a)) = 0 /\ One(Brings(v, a)) = 1
          /\ One(Returns(w, a)) = 0 /\ One(Returns(v, a)) = 0
          /\ One(Gives(w, a)) = 0 /\ One(Gives(v, a)) = 0
      BY <1>1, <2>1, <2>2, <2>3a DEF One, Brings, Returns, Gives
    <3>4. IsFiniteSet(M) /\ Cardinality(M) \in Nat /\ bins[a].curruns \in Int
      BY <1>1, BinCounts DEF Inv
    <3>5. Cardinality(M \cup {s}) = Cardinality(M) + 1
      BY <3>4, FS_AddElement
    <3> HIDE DEF M
    <3>6. d.curruns + Cardinality(M) + One(Brings(v, a)) + One(Returns(w, a))
            = bins[a].curruns + Cardinality(M \cup {s}) + One(Brings(w, a)) + One(Returns(v, a))
      BY <2>6a, <3>3, <3>4, <3>5 DEF SameCounts
    <3> QED
      BY <2>6a, <2>9, <3>1, <3>2, <3>3, <3>6 DEF Accounted, SameCounts, M
  <2>10. StepOK(t, a, v, k, d, M \cup {s}, app, {}, {})
    BY <1>3, <2>2, <2>4, <2>5, <2>7, <2>8, <2>9, <2>9a DEF StepOK
  <2> QED
    BY <2>6, <2>10, StepKeeps
<1>6. CASE /\ todo' = [todo EXCEPT ![t].pc = "relock"]
           /\ UNCHANGED <<mapped, bins>>
  <2> DEFINE v == [w EXCEPT !.pc = "relock", !.run = None]
  <2>1. /\ LocalOK(v, k, Region) /\ OwnsOf(v, k) = Owns(t)
        /\ app \cap OwnsOf(v, k) = {} /\ v.arena = a /\ v.run = None
    BY <1>4
  <2>2. v = [w EXCEPT !.pc = "relock"]
    BY <1>1 DEF Work
  <2>3. todo' = [todo EXCEPT ![t] = v] /\ tcache' = [tcache EXCEPT ![t] = k]
    BY <1>1, <1>6, <2>2, AtBin
  <2>3a. v.pc = "relock" /\ v.op = w.op /\ v.ptr = w.ptr
    BY <1>1 DEF Work
  <2> HIDE DEF v
  <2>3b. \A x \in Arenas : SameAt(todo[t], tcache[t], v, k, x)
    BY <1>1, <2>1, <2>3a DEF SameAt, LooseAt, LooseOf, Brings, Returns, Gives
  <2>4. \A x \in Arenas : RunAt(v, x) = RunAt(todo[t], x)
    BY <1>3, <2>1 DEF RunAt
  <2>5. /\ UNCHANGED <<nregs, room, arenaOf, bins, mapped>>
        /\ app' \cup OwnsOf(v, k) = app \cup Owns(t) /\ app' \cap OwnsOf(v, k) = {}
    BY <1>1, <1>6, <2>1
  <2> QED
    BY <2>1, <2>3, <2>3b, <2>4, <2>5, LocalStep
<1> QED
  BY <1>5, <1>6 DEF NewRun

\* The bin with one more or one less run counted.
LEMMA RunsCounted ==
    ASSUME NEW b, NEW S, NEW n, NEW M, NEW B, BinOK(b, S, n, M, B), NEW k \in Int
    PROVE  LET c == [b EXCEPT !.curruns = k]
           IN  /\ BinOK(c, S, n, M, B) /\ c.run = b.run
               /\ c.runcur = b.runcur /\ c.runs = b.runs
<1> DEFINE c == [b EXCEPT !.curruns = k]
<1>1. c \in BinRecs(S, n) /\ c.run = b.run /\ c.runcur = b.runcur /\ c.runs = b.runs
  BY DEF BinOK, BinRecs
<1> HIDE DEF c
<1>2. BinOK(c, S, n, M, B)
  BY <1>1, SameBin
<1> QED
  BY <1>1, <1>2 DEF c

\* A thread that brought a run from the arena finds runcur with or without room.
LEMMA RelockOwn ==
    ASSUME Constants, Inv, NEW t \in Threads, Relock(t), todo[t].run # None
    PROVE  Inv'
<1> DEFINE w == todo[t]
           a == todo[t].arena
           k == tcache[t]
           S == Slot(a)
           M == mapped[a]
           B == Between(a)
           s == todo[t].run
           b == [bins[a] EXCEPT !.curruns = @ + 1]
           p == Taken(a, b, b.runcur)
           other == arena_run_reg_alloc(b, b.runcur)
           mine == [b EXCEPT !.runcur = s]
<1>1. /\ w.op \in Gets /\ w.ptr = None /\ a \in Arenas
      /\ BinOK(bins[a], S, nregs, M, B) /\ w \in Work(Region) /\ Doing(w, k)
      /\ UNCHANGED <<nregs, room, arenaOf, mapped>>
      /\ w.pc = "relock"
  BY AtBin DEF Relock, Doing
<1>2. w.op \notin Flushes
  BY <1>1 DEF Gets, Flushes
<1>3. RunAt(w, a) = {s} /\ s \in B /\ \A x \in Arenas \ {a} : RunAt(w, x) = {}
  <2>1. RunAt(w, a) = {s} /\ \A x \in Arenas \ {a} : RunAt(w, x) = {}
    BY DEF RunAt
  <2> QED
    BY <1>1, <2>1, AtBin
<1>4. bins[a].curruns + 1 \in Int
  BY <1>1 DEF BinOK, BinRecs
<1>5. /\ BinOK(b, S, nregs, M, B) /\ b.run = bins[a].run /\ b.runcur = bins[a].runcur
      /\ b.runs = bins[a].runs
  BY <1>1, <1>4, RunsCounted
<1>5a. /\ b.curruns = bins[a].curruns + 1 /\ b.allocated = bins[a].allocated
       /\ b \in BinRecs(S, nregs)
  BY <1>1, <1>4, RunTypes DEF BinRecs
<1>6. b.run[s].nfree = nregs
  <2>1. s \in S /\ b.run[s].free = 0 .. nregs - 1 /\ RunOK(b.run[s], nregs)
        /\ nregs \in Nat \ {0}
    BY <1>3, <1>5 DEF BinOK
  <2> QED
    BY <2>1, RunCounts
<1>7. IF HasRoom(b)
      THEN /\ SetBin(a, other)
           /\ todo' = [todo EXCEPT ![t].pc = "drop", ![t].run = s, ![t].ptr = p]
           /\ UNCHANGED <<lock, app, tcache>>
      ELSE Deliver(t, a, arena_run_reg_alloc(mine, s), Taken(a, mine, s))
  BY <1>6 DEF Relock
<1> HIDE DEF b
<1>7a. One(Brings(w, a)) = 1 /\ One(Returns(w, a)) = 0 /\ One(Gives(w, a)) = 0
  BY <1>1 DEF One, Brings, Returns, Gives
<1>8. CASE HasRoom(b)
  <2> DEFINE i == bitmap_sfu(b, b.runcur)
             q == <<a, b.runcur, i>>
             v == [w EXCEPT !.pc = "drop", !.run = s, !.ptr = q]
  <2>1. BinOK(other, S, nregs, M, B) /\ Took(b, other, S, b.runcur, i)
    BY <1>5, <1>8, AllocCur
  <2>2. /\ bins' = [bins EXCEPT ![a] = other] /\ app' = app /\ tcache' = tcache
        /\ todo' = [todo EXCEPT ![t].pc = "drop", ![t].run = s, ![t].ptr = q]
    BY <1>7, <1>8, SMTT(40) DEF SetBin, Taken
  <2>3. Took(bins[a], other, S, b.runcur, i)
    BY <1>5, <2>1 DEF Took
  <2>3a. SameCounts(b, other)
    BY <1>5a, CountsKept
  <2> HIDE DEF other, i, p
  <2>4. /\ OutOf(a, other) = OutOf(a, bins[a]) \cup {q}
        /\ q \notin OutOf(a, bins[a]) /\ q \in Regions(a) /\ q \in Region
        /\ q \notin app /\ q # None /\ q \notin Owns(t)
    BY <1>1, <2>3, TookOut
  <2> HIDE DEF q
  <2>5. todo' = [todo EXCEPT ![t] = v]
    BY <2>2
  <2>6. /\ v \in Work(Region) /\ v.pc = "drop" /\ v.op = w.op /\ v.arena = a
        /\ v.run = s /\ v.ptr = q /\ v.push = w.push
    BY <1>1, <2>4 DEF Work
  <2> HIDE DEF v
  <2>7. InHands(w) = {} /\ InHands(v) = {q}
    BY <1>1, <1>2, <2>4, <2>6 DEF InHands, Doing, Flushes, Gets
  <2>8. Doing(v, k)
    BY <1>1, <2>4, <2>6 DEF Doing, Gets, Flushes
  <2>9. /\ k = None \/ CacheOK(k, Region)
        /\ Owns(t) = Cached(k) \cup InHands(w)
        /\ RegionsOK(Region)
    BY <1>2, AtBin, Quiet DEF Owns
  <2>10. LocalOK(v, k, Region) /\ OwnsOf(v, k) = Cached(k) \cup InHands(v)
    <3>1. Cached(k) \cap InHands(v) = {} /\ v.op \notin Flushes
      BY <1>2, <2>4, <2>6, <2>7, <2>9
    <3> QED
      BY <2>6, <2>8, <2>9, <3>1, QuietAgain
  <2>11. OwnsOf(v, k) = Owns(t) \cup {q}
    BY <2>7, <2>9, <2>10
  <2>12. app \cap OwnsOf(v, k) = {}
    BY <2>4, <2>11 DEF Inv, Apart
  <2>13. \A x : RunAt(v, x) = RunAt(w, x)
    BY <2>6 DEF RunAt
  <2>14. BetweenAfter(t, a, v) = B
    BY <1>3, <2>13 DEF BetweenAfter
  <2>15. StepTo(t, a, v, k, other, M, app)
    BY <1>1, <2>2, <2>5, AtBin DEF StepTo, Inv, Types
  <2>15a. Accounted(t, a, v, k, other, M)
    <3> DEFINE loose == LooseAt(w, k, a)
    <3>1. /\ IsFiniteSet(loose) /\ loose \subseteq Owns(t)
          /\ \A x : x # a => /\ LooseAt(w, k, x) = {}
                            /\ ~Brings(w, x) /\ ~Returns(w, x) /\ ~Gives(w, x)
      BY <1>1, GetsOwe
    <3>2. LooseAt(v, k, a) = loose \cup {q}
      BY <1>1, <2>4, <2>6 DEF LooseAt, LooseOf
    <3>3. /\ One(Brings(v, a)) = 0 /\ One(Returns(v, a)) = 0 /\ One(Gives(v, a)) = 0
      BY <1>1, <2>6 DEF One, Brings, Returns, Gives
    <3>4. \A x \in Arenas \ {a} : SameAt(w, k, v, k, x)
      BY <2>6, <3>1 DEF SameAt, LooseAt, Brings, Returns, Gives
    <3> HIDE DEF loose
    <3>5. Cardinality(loose \cup {q}) = Cardinality(loose) + 1 /\ Cardinality(loose) \in Nat
      BY <2>4, <3>1, CountMore
    <3>6. /\ Cardinality(M) \in Nat /\ bins[a].curruns \in Int /\ bins[a].allocated \in Int
          /\ IsFiniteSet(OutOf(a, bins[a]))
      BY <1>1, BinCounts DEF Inv
    <3>7. /\ Cardinality(OutOf(a, other)) = Cardinality(OutOf(a, bins[a])) + 1
          /\ Cardinality(OutOf(a, bins[a])) \in Nat
      BY <2>4, <3>6, CountMore
    <3>8. other.curruns = bins[a].curruns + 1 /\ other.allocated = bins[a].allocated
      BY <1>5a, <2>3a DEF SameCounts
    <3>9. other.curruns + Cardinality(M) + One(Brings(v, a)) + One(Returns(w, a))
            = bins[a].curruns + Cardinality(M) + One(Brings(w, a)) + One(Returns(v, a))
      BY <1>7a, <3>3, <3>6, <3>8
    <3>10. other.allocated + Cardinality(OutOf(a, bins[a])) + Cardinality(LooseAt(v, k, a))
               + One(Gives(w, a))
             = bins[a].allocated + Cardinality(OutOf(a, other)) + Cardinality(loose)
                 + One(Gives(v, a))
      BY <1>7a, <3>2, <3>3, <3>5, <3>6, <3>7, <3>8
    <3> QED
      BY <3>4, <3>9, <3>10 DEF Accounted, loose
  <2>16. StepOK(t, a, v, k, other, M, app, {}, {q})
    BY <2>1, <2>4, <2>10, <2>11, <2>12, <2>13, <2>14, <2>15a DEF StepOK
  <2> QED
    BY <2>15, <2>16, StepKeeps
<1>9. CASE ~HasRoom(b)
  <2> DEFINE d == arena_run_reg_alloc(mine, s)
             i == bitmap_sfu(mine, s)
  <2>1. BinOK(d, S, nregs, M, B \ {s}) /\ Took(b, d, S, s, i)
    BY <1>3, <1>5, <1>9, OwnRun, SMTT(40)
  <2>2. Took(bins[a], d, S, s, i)
    BY <1>5, <2>1 DEF Took
  <2>3. Deliver(t, a, d, <<a, s, i>>)
    BY <1>7, <1>9 DEF Taken
  <2>4. BinOK(d, S, nregs, M, B \ RunAt(todo[t], a))
    BY <1>3, <2>1
  <2>5. Charged(t, a, d)
    <3>1. SameCounts(b, mine)
      BY <1>5a, CountsKept
    <3>2. mine \in BinRecs(S, nregs)
      <4>1. s \in S
        BY <1>3, <1>5 DEF BinOK
      <4> QED
        BY <1>5a, <4>1 DEF BinRecs
    <3>3. SameCounts(mine, d)
      <4> HIDE DEF mine
      <4> QED
        BY <3>2, CountsKept
    <3>4. d.curruns = bins[a].curruns + 1 /\ d.allocated = bins[a].allocated
      BY <1>5a, <3>1, <3>3 DEF SameCounts
    <3>5. bins[a].curruns \in Int
      BY <1>1, BinCounts DEF Inv
    <3> HIDE DEF d
    <3> QED
      BY <1>7a, <3>4, <3>5 DEF Charged
  <2> HIDE DEF d, i
  <2> QED
    BY <1>1, <2>2, <2>3, <2>4, <2>5, TakeStep
<1> QED
  BY <1>8, <1>9

LEMMA RelockNone ==
    ASSUME Constants, Inv, NEW t \in Threads, Relock(t), todo[t].run = None
    PROVE  Inv'
<1> DEFINE w == todo[t]
           a == todo[t].arena
           S == Slot(a)
           M == mapped[a]
           B == Between(a)
           b0 == bins[a]
           s == Lowest(b0.runs)
           b == Tryget(b0)
           p == Taken(a, b, b.runcur)
           other == arena_run_reg_alloc(b, b.runcur)
           mine == [b EXCEPT !.runcur = s]
<1>1. /\ w.op \in Gets /\ w.ptr = None /\ a \in Arenas
      /\ BinOK(b0, S, nregs, M, B)
      /\ UNCHANGED <<nregs, room, arenaOf, mapped>>
  BY AtBin DEF Relock, Doing
<1>2. B \ RunAt(w, a) = B
  BY DEF RunAt
<1>2a. \A d : SameCounts(b0, d) => Charged(t, a, d)
  <2>1. ~Brings(w, a) /\ ~Returns(w, a)
    BY DEF Relock, Brings, Returns
  <2> QED
    BY <2>1 DEF SameCounts, Charged, One
<1>3. b0.runs \in SUBSET S /\ b0.runs \in SUBSET Nat /\ b0 \in BinRecs(S, nregs)
  BY <1>1, RunTypes
<1>4. IF HasRoom(b) /\ s # None /\ b.run[s].nfree = nregs
      THEN TRUE
      ELSE IF HasRoom(b)
      THEN Deliver(t, a, IF s = None THEN other ELSE arena_bin_lower_run(other, s), p)
      ELSE IF s = None THEN Deliver(t, a, b, None)
      ELSE Deliver(t, a, arena_run_reg_alloc(mine, s), Taken(a, mine, s))
  BY DEF Relock
<1>5. b.run = b0.run /\ b.runcur = b0.runcur /\ b.runs = b0.runs \ {s} /\ b \in BinRecs(S, nregs)
  BY <1>3 DEF Tryget, BinRecs
<1>5a. SameCounts(b0, b)
  BY <1>3, CountsKept
<1>6. HasRoom(b) <=> HasRoom(b0)
  BY <1>5 DEF HasRoom
<1>7. CASE b0.runs = {}
  <2>1. s = None
    BY <1>7 DEF Lowest
  <2>2. BinOK(b, S, nregs, M, B)
    BY <1>1, <1>5, <1>7, SameBin
  <2>3. CASE HasRoom(b)
    <3> DEFINE i == bitmap_sfu(b, b.runcur)
    <3> HIDE DEF b
    <3>1. BinOK(other, S, nregs, M, B) /\ Took(b, other, S, b.runcur, i)
      BY <2>2, <2>3, AllocCur, SMTT(40)
    <3>2. Took(b0, other, S, b.runcur, i)
      BY <1>5, <3>1 DEF Took
    <3>3. Deliver(t, a, other, <<a, b.runcur, i>>)
      BY <1>4, <2>1, <2>3 DEF Taken
    <3>4. Charged(t, a, other)
      <4>1. SameCounts(b, other)
        BY <1>5, CountsKept
      <4>2. SameCounts(b0, other)
        BY <1>5a, <4>1 DEF SameCounts
      <4> QED
        BY <1>2a, <4>2
    <3> HIDE DEF other, i
    <3> QED
      BY <1>1, <1>2, <3>1, <3>2, <3>3, <3>4, TakeStep
  <2>4. CASE ~HasRoom(b)
    <3>1. Deliver(t, a, b, None)
      BY <1>4, <2>1, <2>4
    <3>2. Charged(t, a, b)
      BY <1>2a, <1>5a
    <3> HIDE DEF b
    <3> QED
      BY <1>1, <1>2, <1>5, <2>2, <3>1, <3>2, NoneStep
  <2> QED
    BY <2>3, <2>4
<1>8. CASE b0.runs # {}
  <2>1. s \in b0.runs /\ s # None
    BY <1>3, <1>8, LowestIs
  <2>2. b.run[s].nfree # nregs
    <3>1. b0.run[s].free # 0 .. nregs - 1 /\ RunOK(b0.run[s], nregs) /\ nregs \in Nat \ {0}
      BY <1>1, <1>3, <2>1 DEF BinOK
    <3>2. b0.run[s].nfree # nregs
      BY <3>1, RunCounts
    <3> QED
      BY <1>5, <3>2
  <2>3. CASE HasRoom(b)
    <3> DEFINE d == arena_bin_lower_run(arena_run_reg_alloc(b, b0.runcur), s)
               i == bitmap_sfu(b, b0.runcur)
    <3>1. BinOK(d, S, nregs, M, B) /\ Took(b0, d, S, b0.runcur, i)
      BY <1>1, <1>6, <1>8, <2>3, AllocAndLower
    <3> HIDE DEF b
    <3>2. Deliver(t, a, d, <<a, b0.runcur, i>>)
      BY <1>4, <1>5, <2>1, <2>2, <2>3 DEF Taken
    <3>3. Charged(t, a, d)
      <4>1. SameCounts(b, d)
        BY <1>5, CountsKeptTwice
      <4>2. SameCounts(b0, d)
        BY <1>5a, <4>1 DEF SameCounts
      <4> QED
        BY <1>2a, <4>2
    <3> HIDE DEF d, i
    <3> QED
      BY <1>1, <1>2, <3>1, <3>2, <3>3, TakeStep
  <2>4. CASE ~HasRoom(b)
    <3>1. BinOK(mine, S, nregs, M, B) /\ mine.run = b0.run /\ mine.runcur = s /\ HasRoom(mine)
      BY <1>1, <1>6, <1>8, <2>4, FirstRun
    <3> DEFINE d == arena_run_reg_alloc(mine, s)
               i == bitmap_sfu(mine, s)
    <3>2. Deliver(t, a, d, <<a, s, i>>)
      BY <1>4, <2>1, <2>4 DEF Taken
    <3> HIDE DEF mine
    <3>3. BinOK(d, S, nregs, M, B) /\ Took(mine, d, S, s, i)
      BY <3>1, AllocCur, SMTT(40)
    <3>4. Took(b0, d, S, s, i)
      BY <3>1, <3>3 DEF Took
    <3>5. Charged(t, a, d)
      <4>1. SameCounts(b, mine)
        BY <1>5, CountsKept DEF mine
      <4>2. SameCounts(mine, d)
        BY <3>1, RunTypes, CountsKept
      <4>3. SameCounts(b0, d)
        BY <1>5a, <4>1, <4>2 DEF SameCounts
      <4> QED
        BY <1>2a, <4>3
    <3> HIDE DEF d, i, s
    <3> QED
      BY <1>1, <1>2, <3>2, <3>3, <3>4, <3>5, TakeStep
  <2> QED
    BY <2>3, <2>4
<1> QED
  BY <1>7, <1>8

-----------------------------------------------------------------------------
(* Threads that flush.                                                     *)

\* A flush begins: all of the cache counts.
LEMMA FlushBegins ==
    ASSUME Constants, NEW R, RegionsOK(R), NEW c, CacheOK(c, R), NEW v \in Work(R),
           v.pc = "pass", v.op \in Flushes, v.nflush + v.rem = Len(c.avail),
           v.ndeferred = 0, v.ptr = None, v.run = None, v.op = "push" <=> v.push # None,
           v.op = "destroy" => v.rem = 0, v.push \notin Cached(c)
    PROVE  /\ LocalOK(v, c, R)
           /\ OwnsOf(v, c) = Cached(c) \cup ({v.push} \ {None})
           /\ \A x : RunAt(v, x) = {}
<1>1. /\ c \in Caches(R) /\ c # None /\ c.avail \in Seq(R) /\ Len(c.avail) \in Nat
      /\ v.nflush \in Nat /\ v.rem \in Nat /\ v.ndeferred \in Nat
  BY CacheIsSomething DEF CacheOK, Caches, Work
<1>2. PlacesOf(v, c) = 1 .. Len(c.avail)
  <2> DEFINE n == Len(c.avail)
             f == v.nflush
             r == v.rem
  <2>1. PlacesOf(v, c) = (1 .. 0) \cup (1 .. f) \cup (n - r + 1 .. n)
    BY <1>1 DEF PlacesOf, NextPlace
  <2>2. n \in Nat /\ f \in Nat /\ r \in Nat /\ n = f + r
    BY <1>1
  <2> HIDE DEF n, f, r
  <2>3. (1 .. 0) \cup (1 .. f) \cup (n - r + 1 .. n) = 1 .. n
    BY <2>2
  <2> QED
    BY <2>1, <2>3 DEF n
<1>3. InCaches(v, c) = Cached(c)
  BY <1>1, <1>2 DEF InCaches, Cached
<1>4. InHands(v) = {v.push} \ {None}
  BY DEF InHands, Flushes
<1>5. Doing(v, c)
  BY <1>1 DEF Doing, Flushes
<1>6. Flushing(v, c)
  BY <1>1 DEF Flushing
<1>7. OnceEach(v, c)
  BY <1>2, <1>3, <1>4 DEF OnceEach, CacheOK
<1>8. LocalOK(v, c, R)
  BY <1>1, <1>5, <1>6, <1>7 DEF LocalOK, RegionsOK, CacheOK
<1> QED
  BY <1>3, <1>4, <1>8 DEF OwnsOf, RunAt

\* The places that still count once region i of the pass is dealt with.
RestPlaces(w, c) == (1 .. w.ndeferred) \cup (w.i + 1 .. w.nflush)
                      \cup (Len(c.avail) - w.rem + 1 .. Len(c.avail))
Rest(w, c) == {c.avail[k] : k \in RestPlaces(w, c)}

PassReady(w, c, R) ==
    /\ RegionsOK(R) /\ w \in Work(R) /\ c \in Caches(R) /\ c # None
    /\ c.low_water <= Len(c.avail)
    /\ w.op \in Flushes /\ w.arena \in Arenas /\ w.ptr = None
    /\ w.op = "push" <=> w.push # None
    /\ w.op = "destroy" => w.rem = 0
    /\ w.ndeferred <= w.i /\ w.i <= w.nflush /\ w.nflush + w.rem <= Len(c.avail)
    /\ 0 < w.i
    /\ \A j, k \in RestPlaces(w, c) : c.avail[j] = c.avail[k] => j = k
    /\ w.push \notin Rest(w, c)

LEMMA ReadyIs ==
    ASSUME NEW w, NEW c, NEW R, LocalOK(w, c, R), w.op \in Flushes,
           w.pc \in {"flush", "dropped"}
    PROVE  /\ PassReady(w, c, R)
           /\ InHands(w) = {w.push} \ {None}
           /\ w.pc = "dropped" => OwnsOf(w, c) = Rest(w, c) \cup InHands(w)
           /\ w.pc = "flush" =>
                /\ OwnsOf(w, c) = Rest(w, c) \cup {c.avail[w.i]} \cup InHands(w)
                /\ c.avail[w.i] \notin Rest(w, c) \cup InHands(w)
<1>1. /\ RegionsOK(R) /\ w \in Work(R) /\ c \in Caches(R) /\ c # None
      /\ c.low_water <= Len(c.avail) /\ w.arena \in Arenas /\ w.ptr = None
      /\ w.op = "push" <=> w.push # None
      /\ w.op = "destroy" => w.rem = 0
      /\ w.ndeferred < w.i /\ w.i <= w.nflush /\ w.nflush + w.rem <= Len(c.avail)
  BY DEF LocalOK, RegionsOK, Doing, Flushing, Flushes
<1>2. /\ w.ndeferred \in Nat /\ w.i \in Nat /\ w.nflush \in Nat /\ w.rem \in Nat
      /\ Len(c.avail) \in Nat
  BY <1>1 DEF Work, Caches
<1>3. /\ w.pc = "dropped" => PlacesOf(w, c) = RestPlaces(w, c)
      /\ w.pc = "flush" => PlacesOf(w, c) = RestPlaces(w, c) \cup {w.i}
      /\ w.i \notin RestPlaces(w, c)
  BY <1>1, <1>2, SMTT(30) DEF PlacesOf, RestPlaces, NextPlace
<1>4. InHands(w) = {w.push} \ {None}
  BY <1>1 DEF InHands, Flushes
<1>5. /\ \A j, k \in PlacesOf(w, c) : c.avail[j] = c.avail[k] => j = k
      /\ \A k \in PlacesOf(w, c) : c.avail[k] \notin InHands(w)
      /\ None \notin R /\ \A k \in PlacesOf(w, c) : c.avail[k] \in R
  BY PlacesInCache DEF LocalOK, OnceEach, InCaches
<1>6. RestPlaces(w, c) \subseteq PlacesOf(w, c)
  BY <1>3
<1>7. w.push \notin Rest(w, c)
  BY <1>4, <1>5, <1>6 DEF Rest
<1>8. PassReady(w, c, R)
  BY <1>1, <1>2, <1>5, <1>6, <1>7 DEF PassReady
<1>9. w.pc = "dropped" => OwnsOf(w, c) = Rest(w, c) \cup InHands(w)
  BY <1>3 DEF OwnsOf, InCaches, Rest
<1>10. ASSUME w.pc = "flush"
       PROVE  /\ OwnsOf(w, c) = Rest(w, c) \cup {c.avail[w.i]} \cup InHands(w)
              /\ c.avail[w.i] \notin Rest(w, c) \cup InHands(w)
  <2>1. InCaches(w, c) = Rest(w, c) \cup {c.avail[w.i]}
    BY <1>3, <1>10 DEF InCaches, Rest
  <2>2. c.avail[w.i] \notin Rest(w, c)
    BY <1>3, <1>5, <1>10 DEF Rest
  <2>3. c.avail[w.i] \notin InHands(w)
    BY <1>3, <1>5, <1>10
  <2> QED
    BY <2>1, <2>2, <2>3 DEF OwnsOf
<1> QED
  BY <1>4, <1>8, <1>9, <1>10

\* Where the flush goes after its current region.
NextWork(w) ==
    IF w.i = w.nflush
    THEN [w EXCEPT !.pc = "pass", !.nflush = w.ndeferred, !.i = 0, !.ndeferred = 0,
                   !.arena = None, !.run = None, !.ptr = None]
    ELSE [w EXCEPT !.pc = "flush", !.i = @ + 1, !.run = None, !.ptr = None]

LEMMA PassOn ==
    ASSUME NEW w, NEW c, NEW R, PassReady(w, c, R)
    PROVE  /\ LocalOK(NextWork(w), c, R)
           /\ OwnsOf(NextWork(w), c) = Rest(w, c) \cup ({w.push} \ {None})
           /\ \A x : RunAt(NextWork(w), x) = {}
<1> DEFINE v == NextWork(w)
<1>1. /\ w.ndeferred \in Nat /\ w.i \in Nat /\ w.nflush \in Nat /\ w.rem \in Nat
      /\ Len(c.avail) \in Nat /\ c # None
  BY DEF PassReady, Work, Caches
<1>2. /\ v \in Work(R) /\ v.op = w.op /\ v.push = w.push /\ v.run = None
      /\ v.ptr = None /\ v.rem = w.rem
      /\ IF w.i = w.nflush
         THEN v.pc = "pass" /\ v.nflush = w.ndeferred /\ v.i = 0 /\ v.ndeferred = 0
         ELSE /\ v.pc = "flush" /\ v.nflush = w.nflush /\ v.i = w.i + 1
              /\ v.ndeferred = w.ndeferred /\ v.arena = w.arena
  <2>1. w \in Work(R)
    BY DEF PassReady
  <2>2. CASE w.i = w.nflush
    BY <1>1, <2>1, <2>2 DEF NextWork, Work
  <2>3. CASE w.i # w.nflush
    <3>1. v = [w EXCEPT !.pc = "flush", !.i = w.i + 1, !.run = None, !.ptr = None]
      BY <2>3 DEF NextWork
    <3>2. w.i + 1 \in Nat
      BY <1>1
    <3> HIDE DEF v
    <3> QED
      BY <2>1, <2>3, <3>1, <3>2 DEF Work
  <2> QED
    BY <2>2, <2>3
<1> HIDE DEF v
<1>3. PlacesOf(v, c) = RestPlaces(w, c)
  BY <1>1, <1>2 DEF PassReady, PlacesOf, RestPlaces, NextPlace
<1>4. InCaches(v, c) = Rest(w, c)
  BY <1>3 DEF InCaches, Rest
<1>5. InHands(v) = {w.push} \ {None}
  BY <1>2 DEF InHands, PassReady, Flushes
<1>6. Doing(v, c)
  BY <1>2 DEF Doing, PassReady, Flushes
<1>7. Flushing(v, c)
  BY <1>1, <1>2 DEF Flushing, PassReady
<1>8. OnceEach(v, c)
  BY <1>3, <1>4, <1>5 DEF OnceEach, PassReady
<1>9. LocalOK(v, c, R)
  BY <1>2, <1>6, <1>7, <1>8 DEF LocalOK, PassReady, RegionsOK
<1>10. \A x : RunAt(v, x) = {}
  BY <1>2 DEF RunAt
<1> QED
  BY <1>4, <1>5, <1>9, <1>10 DEF v, OwnsOf

\* The region freed was the last of its run, which has to be given back first.
LEMMA DropWork ==
    ASSUME Constants, NEW w, NEW c, NEW R, LocalOK(w, c, R), w.op \in Flushes,
           w.pc = "flush", NEW s \in Nat
    PROVE  LET v == [w EXCEPT !.pc = "drop", !.run = s]
           IN  /\ LocalOK(v, c, R) /\ v.arena = w.arena /\ v.run = s
               /\ OwnsOf(v, c) = Rest(w, c) \cup InHands(w)
<1> DEFINE v == [w EXCEPT !.pc = "drop", !.run = s]
<1>1. PassReady(w, c, R) /\ InHands(w) = {w.push} \ {None}
  BY ReadyIs
<1>2. /\ v \in Work(R) /\ v.op = w.op /\ v.push = w.push /\ v.run = s /\ v.pc = "drop"
      /\ v.ptr = None /\ v.rem = w.rem /\ v.nflush = w.nflush /\ v.i = w.i
      /\ v.ndeferred = w.ndeferred /\ v.arena = w.arena
  BY <1>1 DEF PassReady, Work
<1> HIDE DEF v
<1>3. PlacesOf(v, c) = RestPlaces(w, c)
  BY <1>1, <1>2 DEF PassReady, PlacesOf, RestPlaces, NextPlace
<1>4. InCaches(v, c) = Rest(w, c)
  BY <1>3 DEF InCaches, Rest
<1>5. InHands(v) = {w.push} \ {None}
  BY <1>1, <1>2 DEF InHands, PassReady, Flushes
<1>6. Doing(v, c)
  BY <1>1, <1>2, NoneIsNoNat DEF Doing, PassReady, Flushes, Gets
<1>7. Flushing(v, c)
  BY <1>2 DEF Flushing, LocalOK
<1>8. OnceEach(v, c)
  BY <1>1, <1>3, <1>4, <1>5 DEF OnceEach, PassReady
<1>9. LocalOK(v, c, R)
  BY <1>1, <1>2, <1>6, <1>7, <1>8 DEF LocalOK, PassReady, RegionsOK
<1> QED
  BY <1>1, <1>2, <1>4, <1>5, <1>9 DEF v, OwnsOf

\* A region of another arena goes to the front of the array.
LEMMA Stashed ==
    ASSUME Constants, NEW w, NEW c, NEW R, LocalOK(w, c, R), w.op \in Flushes,
           w.pc = "flush"
    PROVE  LET d == w.ndeferred + 1
               v == [w EXCEPT !.ndeferred = d]
               k == [c EXCEPT !.avail[d] = c.avail[w.i]]
           IN  /\ PassReady(v, k, R) /\ v.push = w.push
               /\ Rest(v, k) = Rest(w, c) \cup {c.avail[w.i]}
<1> DEFINE d == w.ndeferred + 1
           v == [w EXCEPT !.ndeferred = d]
           q == [c.avail EXCEPT ![d] = c.avail[w.i]]
           k == [c EXCEPT !.avail[d] = c.avail[w.i]]
           n == Len(c.avail)
<1>1. /\ PassReady(w, c, R)
      /\ c.avail[w.i] \notin Rest(w, c) \cup InHands(w)
      /\ InHands(w) = {w.push} \ {None}
  BY ReadyIs
<1>2. /\ w.ndeferred \in Nat /\ w.i \in Nat /\ w.nflush \in Nat /\ w.rem \in Nat
      /\ n \in Nat /\ c.avail \in Seq(R) /\ w.ndeferred < w.i /\ w.i <= w.nflush
      /\ w.nflush + w.rem <= n
  BY <1>1 DEF PassReady, Work, Caches, LocalOK, Flushing
<1>3. d \in 1 .. n /\ w.i \in 1 .. n /\ d <= w.i /\ c.avail[w.i] \in R
  BY <1>2
<1>4. /\ q \in Seq(R) /\ Len(q) = n /\ q[d] = c.avail[w.i]
      /\ \A x \in 1 .. n : x # d => q[x] = c.avail[x]
  BY <1>2, <1>3
<1> HIDE DEF q
<1>5. k \in Caches(R) /\ k.avail = q /\ k.low_water = c.low_water
  BY <1>1, <1>4 DEF PassReady, Caches, q
<1>6. k # None
  BY <1>5, CacheIsSomething
<1>7. /\ v \in Work(R) /\ v.op = w.op /\ v.push = w.push /\ v.arena = w.arena
      /\ v.ptr = w.ptr /\ v.rem = w.rem /\ v.nflush = w.nflush /\ v.i = w.i
      /\ v.ndeferred = d
  BY <1>1, <1>2 DEF PassReady, Work
<1> HIDE DEF v, k
<1>8. RestPlaces(v, k) = RestPlaces(w, c) \cup {d} /\ d \notin RestPlaces(w, c)
  <2> DEFINE e == w.ndeferred
             T == (w.i + 1 .. w.nflush) \cup (n - w.rem + 1 .. n)
  <2>1. RestPlaces(v, k) = (1 .. d) \cup T
    BY <1>4, <1>5, <1>7 DEF RestPlaces
  <2>2. RestPlaces(w, c) = (1 .. e) \cup T
    BY DEF RestPlaces
  <2>3. d \notin T /\ e \in Nat /\ d = e + 1
    BY <1>2, <1>3, SMTT(30)
  <2> HIDE DEF T, d, e
  <2>4. 1 .. d = (1 .. e) \cup {d} /\ d \notin 1 .. e
    BY <2>3
  <2> QED
    BY <2>1, <2>2, <2>3, <2>4
<1>9. RestPlaces(w, c) \subseteq 1 .. n
  BY <1>2 DEF RestPlaces
<1>10. \A x \in RestPlaces(w, c) : k.avail[x] = c.avail[x] /\ c.avail[x] # c.avail[w.i]
  BY <1>1, <1>4, <1>5, <1>8, <1>9 DEF Rest
<1>11. k.avail[d] = c.avail[w.i]
  BY <1>4, <1>5
<1>12. Rest(v, k) = Rest(w, c) \cup {c.avail[w.i]}
  BY <1>8, <1>10, <1>11 DEF Rest
<1>13. \A x, y \in RestPlaces(v, k) : k.avail[x] = k.avail[y] => x = y
  BY <1>1, <1>8, <1>10, <1>11 DEF PassReady
<1>14. w.push \notin Rest(v, k)
  <2>1. w.push # c.avail[w.i]
    BY <1>1, <1>3 DEF PassReady, RegionsOK
  <2> QED
    BY <1>1, <1>12, <2>1 DEF PassReady
<1>15. PassReady(v, k, R)
  BY <1>1, <1>2, <1>3, <1>4, <1>5, <1>6, <1>7, <1>13, <1>14 DEF PassReady
<1> QED
  BY <1>7, <1>12, <1>15 DEF v, k

-----------------------------------------------------------------------------
(* Deallocation.                                                           *)

\* The region a thread is about to give back to its run.
Leaving(w, c) == IF w.pc = "dlock" THEN w.ptr ELSE c.avail[w.i]
\* Where it goes on when the run stays with the bin.
AfterFree(w) == IF w.op = "free" THEN Idle ELSE NextWork(w)

\* Where it goes on when the run does not.
Dropping(w, s) == [w EXCEPT !.pc = "drop", !.run = s]

LEMMA LetsGo ==
    ASSUME Constants, NEW w, NEW c, NEW R, LocalOK(w, c, R), w.pc \in {"dlock", "flush"},
           NEW s \in Nat
    PROVE  LET v == Dropping(w, s)
           IN  /\ LocalOK(v, c, R) /\ v.arena = w.arena /\ v.run = s
               /\ OwnsOf(v, c) = OwnsOf(w, c) \ {Leaving(w, c)}
               /\ LocalOK(AfterFree(w), c, R)
               /\ OwnsOf(AfterFree(w), c) = OwnsOf(w, c) \ {Leaving(w, c)}
               /\ \A x : RunAt(AfterFree(w), x) = {}
               /\ Leaving(w, c) \in OwnsOf(w, c)
               /\ w.run = None /\ w.arena \in Arenas
<1> DEFINE v == Dropping(w, s)
<1>1. CASE w.pc = "dlock"
  <2>1. /\ w.op = "free" /\ w.ptr # None /\ w.push = None /\ w.run = None
        /\ w.arena \in Arenas /\ w \in Work(R) /\ w.op \notin Flushes
    BY <1>1 DEF LocalOK, Doing, Flushes
  <2>2. /\ c = None \/ CacheOK(c, R)
        /\ OwnsOf(w, c) = Cached(c) \cup InHands(w)
        /\ Cached(c) \cap InHands(w) = {}
        /\ RegionsOK(R)
    BY <2>1, Quiet
  <2>3. InHands(w) = {w.ptr} /\ Leaving(w, c) = w.ptr /\ AfterFree(w) = Idle
    BY <1>1, <2>1 DEF InHands, Leaving, AfterFree
  <2>4. /\ v \in Work(R) /\ v.pc = "drop" /\ v.op = "free" /\ v.push = None
        /\ v.arena = w.arena /\ v.run = s
    BY <2>1 DEF Work, Dropping
  <2> HIDE DEF v
  <2>5. InHands(v) = {} /\ v.op \notin Flushes
    BY <2>4 DEF InHands, Flushes
  <2>6. Doing(v, c)
    BY <2>1, <2>4, NoneIsNoNat DEF Doing, Gets, Flushes
  <2>7. LocalOK(v, c, R) /\ OwnsOf(v, c) = Cached(c)
    BY <2>2, <2>4, <2>5, <2>6, QuietAgain
  <2>8. LocalOK(Idle, c, R) /\ OwnsOf(Idle, c) = Cached(c) /\ \A x : RunAt(Idle, x) = {}
    BY <2>2, IdleIs, QuietAgain
  <2>9. Cached(c) = OwnsOf(w, c) \ {Leaving(w, c)} /\ Leaving(w, c) \in OwnsOf(w, c)
    BY <2>2, <2>3
  <2> QED
    BY <2>1, <2>3, <2>4, <2>7, <2>8, <2>9 DEF v
<1>2. CASE w.pc = "flush"
  <2>1. w.op \in Flushes /\ w.op # "free" /\ w.run = None /\ w.arena \in Arenas
    BY <1>2 DEF LocalOK, Doing, Flushes
  <2>2. /\ PassReady(w, c, R)
        /\ InHands(w) = {w.push} \ {None}
        /\ OwnsOf(w, c) = Rest(w, c) \cup {c.avail[w.i]} \cup InHands(w)
        /\ c.avail[w.i] \notin Rest(w, c) \cup InHands(w)
    BY <1>2, <2>1, ReadyIs
  <2>3. Leaving(w, c) = c.avail[w.i] /\ AfterFree(w) = NextWork(w)
    BY <1>2, <2>1 DEF Leaving, AfterFree
  <2>4. /\ LocalOK(v, c, R) /\ v.arena = w.arena /\ v.run = s
        /\ OwnsOf(v, c) = Rest(w, c) \cup InHands(w)
    BY <1>2, <2>1, DropWork DEF Dropping
  <2> HIDE DEF v
  <2>5. /\ LocalOK(NextWork(w), c, R)
        /\ OwnsOf(NextWork(w), c) = Rest(w, c) \cup InHands(w)
        /\ \A x : RunAt(NextWork(w), x) = {}
    BY <2>2, PassOn
  <2>6. /\ Rest(w, c) \cup InHands(w) = OwnsOf(w, c) \ {Leaving(w, c)}
        /\ Leaving(w, c) \in OwnsOf(w, c)
    BY <2>2, <2>3
  <2> QED
    BY <2>1, <2>3, <2>4, <2>5, <2>6 DEF v
<1> QED
  BY <1>1, <1>2

\* The end of arena_dalloc_bin_locked and the choice of the next region.
LEMMA FreedIs ==
    ASSUME NEW t, NEW w, NEW b, NEW S, NEW n, NEW M, NEW B, BinOK(b, S, n, M, B),
           Freed(t, w, b)
    PROVE  \E d : /\ BinOK(d, S, n, M, B) /\ d.run = b.run
                  /\ d.curruns = b.curruns /\ d.allocated = b.allocated - 1
                  /\ bins' = [bins EXCEPT ![w.arena] = d]
                  /\ todo' = [todo EXCEPT ![t] = AfterFree(w)]
<1> DEFINE d == [b EXCEPT !.allocated = @ - 1]
<1>1. /\ d \in BinRecs(S, n) /\ d.run = b.run /\ d.runcur = b.runcur /\ d.runs = b.runs
      /\ d.curruns = b.curruns /\ d.allocated = b.allocated - 1
  BY DEF BinOK, BinRecs
<1>2. Freed(t, w, b) <=>
        \/ w.op = "free" /\ SetBin(w.arena, d) /\ Unlock(w.arena) /\ Do(t, Idle)
        \/ w.op # "free" /\ NextInPass(t, w, d)
  BY DEF Freed
<1> HIDE DEF d
<1>3. BinOK(d, S, n, M, B)
  BY <1>1, SameBin
<1>4. CASE w.op = "free" /\ SetBin(w.arena, d) /\ Do(t, Idle)
  BY <1>1, <1>3, <1>4 DEF SetBin, Do, AfterFree
<1>5. CASE w.op # "free" /\ NextInPass(t, w, d)
  BY <1>1, <1>3, <1>5 DEF NextInPass, SetBin, Do, AfterFree, NextWork
<1> QED
  BY <1>2, <1>4, <1>5

LEMMA AfterFreeEven ==
    ASSUME NEW R, NEW w \in Work(R), w.op \notin Gets, NEW c
    PROVE  Even(AfterFree(w), c)
<1>1. CASE w.op = "free"
  BY <1>1, IdleEven DEF AfterFree
<1>2. CASE w.op # "free"
  <2>1. NextWork(w).op = w.op /\ NextWork(w).pc \in {"pass", "flush"}
    BY DEF NextWork, Work
  <2> HIDE DEF NextWork
  <2> QED
    BY <1>2, <2>1, CalmIsEven DEF AfterFree
<1> QED
  BY <1>1, <1>2

LEMMA DallocStep ==
    ASSUME Constants, Inv, NEW t \in Threads, todo[t].pc \in {"dlock", "flush"}, NEW p,
           p = Leaving(todo[t], tcache[t]), p[1] = todo[t].arena,
           arena_dalloc_bin_locked(t, todo[t], p),
           UNCHANGED <<nregs, room, arenaOf, mapped, app, tcache>>
    PROVE  Inv'
<1> DEFINE w == todo[t]
           k == tcache[t]
           a == w.arena
           S == Slot(a)
           M == mapped[a]
           B == Between(a)
           s == p[2]
           g == arena_run_reg_dalloc(bins[a], p)
           d == arena_dissociate_bin_run(g, s)
           c == IF g.run[s].nfree = 1 /\ s # g.runcur THEN arena_bin_lower_run(g, s) ELSE g
           v == Dropping(w, s)
<1>1. LocalOK(w, k, Region)
  BY AtBin
<1>2. p \in OwnsOf(w, k) /\ w.run = None /\ a \in Arenas
  BY <1>1, LetsGo
<1>3. /\ p \in Regions(a) /\ s \in S /\ p[3] \in 0 .. nregs - 1
      /\ p[3] \notin bins[a].run[s].free
  <2>1. p \in app \cup Owns(t)
    BY <1>2 DEF Owns
  <2> QED
    BY <2>1, HeldIsOut
<1>4. BinOK(bins[a], S, nregs, M, B)
  BY <1>2, AtBin
<1>5. s \in Nat /\ s # None
  BY <1>3, NoneIsNoNat DEF Slot
<1>6. /\ LocalOK(v, k, Region) /\ v.arena = a /\ v.run = s
      /\ OwnsOf(v, k) = OwnsOf(w, k) \ {p}
      /\ LocalOK(AfterFree(w), k, Region)
      /\ OwnsOf(AfterFree(w), k) = OwnsOf(w, k) \ {p}
      /\ \A x : RunAt(AfterFree(w), x) = {}
  <2>1. w.pc \in {"dlock", "flush"} /\ Leaving(w, k) = p
    OBVIOUS
  <2> HIDE DEF w, k, s
  <2>2. /\ LocalOK(v, k, Region) /\ v.arena = w.arena /\ v.run = s
        /\ OwnsOf(v, k) = OwnsOf(w, k) \ {Leaving(w, k)}
    BY <1>1, <1>5, <2>1, LetsGo, SMTT(30)
  <2>3. /\ LocalOK(AfterFree(w), k, Region)
        /\ OwnsOf(AfterFree(w), k) = OwnsOf(w, k) \ {Leaving(w, k)}
        /\ \A x : RunAt(AfterFree(w), x) = {}
    BY <1>1, <1>5, <2>1, LetsGo
  <2> QED
    BY <2>1, <2>2, <2>3
<1>7. /\ s \in M \ B
      /\ g.run[s].nfree = nregs =>
           BinOK(d, S, nregs, M, B \cup {s}) /\ Gave(bins[a], d, S, s, p[3])
      /\ g.run[s].nfree # nregs =>
           BinOK(c, S, nregs, M, B) /\ Gave(bins[a], c, S, s, p[3])
  <2>1. p[2] \in S /\ p[3] \in 0 .. nregs - 1 /\ p[3] \notin bins[a].run[p[2]].free
    BY <1>3
  <2>2. Dalloced(bins[a], S, M, B, p)
    BY <1>4, <2>1, DallocRun
  <2> QED
    BY <2>2 DEF Dalloced
<1>8. IF g.run[s].nfree = nregs
      THEN bins' = [bins EXCEPT ![a] = d] /\ todo' = [todo EXCEPT ![t] = v]
      ELSE Freed(t, w, c)
  BY Zenon DEF arena_dalloc_bin_locked, SetBin, Do, RunOf, Dropping
<1>8a. w.op \notin Gets /\ Even(w, k)
  <2>1. w.op \notin Gets
    BY <1>1 DEF LocalOK, Doing, Gets, Flushes
  <2> QED
    BY <2>1, CalmIsEven
<1>8b. /\ One(Brings(w, a)) = 0 /\ One(Returns(w, a)) = 0 /\ One(Gives(w, a)) = 0
       /\ LooseAt(w, k, a) = {} /\ Cardinality({}) = 0
  BY <1>8a, FS_EmptySet DEF Even, LooseAt, One, Brings, Returns, Gives
<1>8c. /\ Cardinality(M) \in Nat /\ bins[a].curruns \in Int /\ bins[a].allocated \in Int
       /\ IsFiniteSet(OutOf(a, bins[a]))
  BY <1>2, <1>4, BinCounts DEF Inv
<1>8d. /\ Cardinality(OutOf(a, bins[a]) \ {p}) = Cardinality(OutOf(a, bins[a])) - 1
       /\ Cardinality(OutOf(a, bins[a])) \in Nat
  <2>1. p \in OutOf(a, bins[a])
    BY <1>3 DEF OutOf
  <2> QED
    BY <1>8c, <2>1, CountLess
<1>8e. SameCounts(bins[a], d) /\ SameCounts(bins[a], c)
  <2>1. bins[a] \in BinRecs(S, nregs)
    BY <1>4, RunTypes
  <2>2. SameCounts(bins[a], d) /\ SameCounts(bins[a], arena_bin_lower_run(g, s))
    BY <2>1, CountsKeptTwice
  <2>3. SameCounts(bins[a], g)
    BY <2>1, CountsKept
  <2> QED
    BY <2>2, <2>3
<1>8f. v.pc = "drop" /\ v.op = w.op /\ v.ptr = w.ptr
  BY <1>1 DEF Dropping, LocalOK, Work
<1>9. \A x : RunAt(w, x) = {}
  BY <1>2 DEF RunAt
<1>10. /\ tcache' = [tcache EXCEPT ![t] = k] /\ mapped' = [mapped EXCEPT ![a] = M]
       /\ app' = app /\ UNCHANGED <<nregs, room, arenaOf>>
  BY DEF Inv, Types
<1>11. app \cap (OwnsOf(w, k) \ {p}) = {} /\ app \cup (OwnsOf(w, k) \ {p}) = (app \cup Owns(t)) \ {p}
  <2>1. app \cap OwnsOf(w, k) = {}
    BY DEF Inv, Apart, Owns
  <2> QED
    BY <1>2, <2>1 DEF Owns
<1>12. {p} \subseteq Regions(a) /\ {p} \subseteq app \cup Owns(t)
  BY <1>2, <1>3 DEF Owns
<1> HIDE DEF c, d, g, v
<1>13. CASE g.run[s].nfree = nregs
  <2>1. RunAt(v, a) = {s} /\ \A x \in Arenas \ {a} : RunAt(v, x) = {}
    BY <1>5, <1>6 DEF RunAt
  <2>2. BetweenAfter(t, a, v) = B \cup {s} /\ RunAt(v, a) \cap (B \ RunAt(w, a)) = {}
    BY <1>7, <1>9, <2>1 DEF BetweenAfter
  <2>3. OutOf(a, d) = OutOf(a, bins[a]) \ {p}
    BY <1>2, <1>3, <1>7, <1>13, GaveOut
  <2>4. StepTo(t, a, v, k, d, M, app)
    BY <1>2, <1>8, <1>10, <1>13 DEF StepTo
  <2>5. BinOK(d, S, nregs, M, BetweenAfter(t, a, v))
    BY <1>7, <1>13, <2>2
  <2>5a. Accounted(t, a, v, k, d, M)
    <3>1. /\ One(Brings(v, a)) = 0 /\ One(Returns(v, a)) = 0 /\ One(Gives(v, a)) = 1
          /\ LooseAt(v, k, a) = {}
      BY <1>6, <1>8a, <1>8f DEF One, Brings, Returns, Gives, LooseAt, LooseOf, Gets
    <3>2. \A x \in Arenas \ {a} : SameAt(w, k, v, k, x)
      BY <1>6 DEF SameAt, LooseAt, Brings, Returns, Gives
    <3>3. d.curruns = bins[a].curruns /\ d.allocated = bins[a].allocated
      BY <1>8e DEF SameCounts
    <3>4. d.allocated + Cardinality(OutOf(a, bins[a])) + Cardinality(LooseAt(v, k, a))
              + One(Gives(w, a))
            = bins[a].allocated + Cardinality(OutOf(a, d)) + Cardinality(LooseAt(w, k, a))
                + One(Gives(v, a))
      BY <1>8b, <1>8c, <1>8d, <2>3, <3>1, <3>3
    <3> QED
      BY <1>8b, <3>1, <3>2, <3>3, <3>4 DEF Accounted
  <2>6. StepOK(t, a, v, k, d, M, app, {p}, {})
    BY <1>6, <1>9, <1>11, <1>12, <2>1, <2>2, <2>3, <2>5, <2>5a DEF StepOK
  <2> QED
    BY <2>4, <2>6, StepKeeps
<1>14. CASE g.run[s].nfree # nregs
  <2> DEFINE u == AfterFree(w)
  <2>1. PICK e : /\ BinOK(e, S, nregs, M, B) /\ e.run = c.run
                 /\ e.curruns = c.curruns /\ e.allocated = c.allocated - 1
                 /\ bins' = [bins EXCEPT ![a] = e]
                 /\ todo' = [todo EXCEPT ![t] = u]
    BY <1>7, <1>8, <1>14, FreedIs
  <2>2. Gave(bins[a], e, S, s, p[3])
    BY <1>7, <1>14, <2>1 DEF Gave
  <2> HIDE DEF u
  <2>3. OutOf(a, e) = OutOf(a, bins[a]) \ {p}
    BY <1>2, <1>3, <2>2, GaveOut
  <2>4. \A x : RunAt(u, x) = {}
    BY <1>6 DEF u
  <2>5. BetweenAfter(t, a, u) = B
    BY <1>9, <2>4 DEF BetweenAfter
  <2>6. StepTo(t, a, u, k, e, M, app)
    BY <1>2, <1>10, <2>1 DEF StepTo
  <2>7. LocalOK(u, k, Region) /\ OwnsOf(u, k) = OwnsOf(w, k) \ {p}
    BY <1>6 DEF u
  <2>7a. Accounted(t, a, u, k, e, M)
    <3>1. w \in Work(Region)
      BY AtBin
    <3>2. Even(u, k)
      BY <1>8a, <3>1, AfterFreeEven DEF u
    <3>3. /\ One(Brings(u, a)) = 0 /\ One(Returns(u, a)) = 0 /\ One(Gives(u, a)) = 0
          /\ LooseAt(u, k, a) = {}
      BY <3>2 DEF Even, LooseAt, One, Brings, Returns, Gives
    <3>4. \A x \in Arenas \ {a} : SameAt(w, k, u, k, x)
      BY <1>8a, <3>2, SameEven
    <3>5. e.curruns = bins[a].curruns /\ e.allocated = bins[a].allocated - 1
      BY <1>8e, <2>1 DEF SameCounts
    <3>6. e.allocated + Cardinality(OutOf(a, bins[a])) + Cardinality(LooseAt(u, k, a))
              + One(Gives(w, a))
            = bins[a].allocated + Cardinality(OutOf(a, e)) + Cardinality(LooseAt(w, k, a))
                + One(Gives(u, a))
      BY <1>8b, <1>8c, <1>8d, <2>3, <3>3, <3>5
    <3> QED
      BY <1>8b, <3>3, <3>4, <3>5, <3>6 DEF Accounted
  <2>8. StepOK(t, a, u, k, e, M, app, {p}, {})
    BY <1>9, <1>11, <1>12, <2>1, <2>3, <2>4, <2>5, <2>7, <2>7a DEF StepOK
  <2> QED
    BY <2>6, <2>8, StepKeeps
<1> QED
  BY <1>13, <1>14

LEMMA DallocKeeps ==
    ASSUME Constants, Inv, NEW t \in Threads, arena_dalloc_bin(t)
    PROVE  Inv'
<1> DEFINE p == todo[t].ptr
<1>1. /\ todo[t].pc = "dlock" /\ arena_dalloc_bin_locked(t, todo[t], p)
      /\ UNCHANGED <<nregs, room, arenaOf, mapped, app, tcache>>
  BY DEF arena_dalloc_bin
<1>2. p[1] = todo[t].arena /\ p = Leaving(todo[t], tcache[t])
  BY <1>1, AtBin DEF Doing, Leaving
<1> QED
  BY <1>1, <1>2, DallocStep

LEMMA DropRunKeeps ==
    ASSUME Constants, Inv, NEW t \in Threads, DropRun(t)
    PROVE  Inv'
<1> DEFINE w == todo[t]
           k == tcache[t]
           a == w.arena
           s == w.run
           S == Slot(a)
           M == mapped[a]
           B == Between(a)
           d == WithRun(bins[a], s, Fresh)
           v == [w EXCEPT !.pc = "dropped", !.run = None]
<1>1. /\ w.pc = "drop" /\ s # None /\ a \in Arenas /\ w \in Work(Region)
      /\ LocalOK(w, k, Region) /\ BinOK(bins[a], S, nregs, M, B)
      /\ UNCHANGED <<nregs, room, arenaOf, app, tcache>>
  BY AtBin DEF DropRun, Doing
<1>2. RunAt(w, a) = {s} /\ s \in B /\ \A x \in Arenas \ {a} : RunAt(w, x) = {}
  <2>1. RunAt(w, a) = {s} /\ \A x \in Arenas \ {a} : RunAt(w, x) = {}
    BY <1>1 DEF RunAt
  <2> QED
    BY <1>1, <2>1, AtBin
<1>3. /\ mapped' = [mapped EXCEPT ![a] = M \ {s}] /\ bins' = [bins EXCEPT ![a] = d]
      /\ todo' = [todo EXCEPT ![t] = v]
  BY DEF DropRun, WithRun
<1>4. /\ v \in Work(Region) /\ v.pc = "dropped" /\ v.run = None /\ v.op = w.op
      /\ v.arena = a /\ v.ptr = w.ptr /\ v.push = w.push /\ v.i = w.i
      /\ v.nflush = w.nflush /\ v.ndeferred = w.ndeferred /\ v.rem = w.rem
  BY <1>1 DEF Work
<1> HIDE DEF v
<1>5. PlacesOf(v, k) = PlacesOf(w, k) /\ InHands(v) = InHands(w)
  BY <1>1, <1>4 DEF PlacesOf, NextPlace, InHands
<1>6. OwnsOf(v, k) = OwnsOf(w, k) /\ InCaches(v, k) = InCaches(w, k)
  BY <1>5 DEF OwnsOf, InCaches
<1>7. Doing(v, k)
  BY <1>1, <1>4 DEF LocalOK, Doing
<1>8. Flushing(v, k) /\ OnceEach(v, k)
  BY <1>1, <1>4, <1>5, <1>6 DEF LocalOK, Flushing, OnceEach
<1>9. LocalOK(v, k, Region)
  BY <1>1, <1>4, <1>7, <1>8 DEF LocalOK
<1>10. BinOK(d, S, nregs, M \ {s}, B \ {s}) /\ SameFree(d, bins[a], S)
  <2>1. s \in S
    BY <1>1, <1>2 DEF BinOK
  <2>2. s \notin M \/ s \in B
    BY <1>2
  <2> HIDE DEF M, B, S, a, s
  <2> QED
    BY <1>1, <2>1, <2>2, FreshRun
<1>11. StepTo(t, a, v, k, d, M \ {s}, app)
  <2>1. tcache' = [tcache EXCEPT ![t] = k]
    BY <1>1, AtBin
  <2> QED
    BY <1>1, <1>3, <2>1 DEF StepTo
<1>11a. SameCounts(bins[a], d)
  BY <1>1, RunTypes DEF SameCounts, WithRun, BinRecs
<1> HIDE DEF d
<1>12. \A x : RunAt(v, x) = {}
  BY <1>4 DEF RunAt
<1>13. BetweenAfter(t, a, v) = B \ {s}
  BY <1>2, <1>12 DEF BetweenAfter
<1>14. OutOf(a, d) = OutOf(a, bins[a])
  BY <1>10, SameOut
<1>15. app \cap OwnsOf(v, k) = {} /\ OwnsOf(v, k) = Owns(t)
  BY <1>6 DEF Inv, Apart, Owns
<1>15a. Accounted(t, a, v, k, d, M \ {s})
  <2>1. \A x \in Arenas \ {a} : SameAt(w, k, v, k, x)
    BY <1>4 DEF SameAt, LooseAt, Brings, Returns, Gives
  <2>2. LooseAt(v, k, a) = LooseAt(w, k, a) /\ One(Gives(v, a)) = One(Gives(w, a))
    BY <1>1, <1>4 DEF LooseAt, LooseOf, One, Gives
  <2>3. /\ One(Brings(w, a)) = 0 /\ One(Brings(v, a)) = 0
        /\ One(Returns(w, a)) = 0 /\ One(Returns(v, a)) = 1
    BY <1>1, <1>4 DEF One, Brings, Returns
  <2>4. IsFiniteSet(M) /\ bins[a].curruns \in Int /\ s \in M
    <3>1. s \in M
      BY <1>1, <1>2 DEF BinOK
    <3> QED
      BY <1>1, <3>1, BinCounts DEF Inv
  <2>5. Cardinality(M \ {s}) = Cardinality(M) - 1 /\ Cardinality(M) \in Nat
    BY <2>4, CountLess
  <2>6. d.curruns = bins[a].curruns /\ d.allocated = bins[a].allocated
    BY <1>11a DEF SameCounts
  <2> HIDE DEF M
  <2>7. d.curruns + Cardinality(M) + One(Brings(v, a)) + One(Returns(w, a))
          = bins[a].curruns + Cardinality(M \ {s}) + One(Brings(w, a)) + One(Returns(v, a))
    BY <2>3, <2>4, <2>5, <2>6
  <2> QED
    BY <1>14, <2>1, <2>2, <2>6, <2>7 DEF Accounted, M
<1>16. StepOK(t, a, v, k, d, M \ {s}, app, {}, {})
  BY <1>2, <1>9, <1>10, <1>12, <1>13, <1>14, <1>15, <1>15a DEF StepOK
<1> QED
  BY <1>11, <1>16, StepKeeps

LEMMA DroppedKeeps ==
    ASSUME Constants, Inv, NEW t \in Threads, Dropped(t)
    PROVE  Inv'
<1> DEFINE w == todo[t]
           k == tcache[t]
           a == w.arena
           S == Slot(a)
           M == mapped[a]
           B == Between(a)
           b == [bins[a] EXCEPT !.curruns = @ - 1]
<1>1. /\ w.pc = "dropped" /\ w.run = None /\ a \in Arenas /\ w \in Work(Region)
      /\ LocalOK(w, k, Region) /\ BinOK(bins[a], S, nregs, M, B) /\ w.op # "none"
      /\ UNCHANGED <<nregs, room, arenaOf, mapped>>
      /\ w.op \in Gets => w.ptr # None
      /\ w.op # "push" => w.push = None
  BY AtBin DEF Dropped, Doing
<1>2. \A x : RunAt(w, x) = {}
  BY <1>1 DEF RunAt
<1>3. bins[a].curruns - 1 \in Int
  BY <1>1 DEF BinOK, BinRecs
<1>4. BinOK(b, S, nregs, M, B) /\ b.run = bins[a].run
  BY <1>1, <1>3, RunsCounted
<1>4a. b.curruns = bins[a].curruns - 1 /\ b.allocated = bins[a].allocated
  BY <1>1, <1>3, RunTypes DEF BinRecs
<1>4b. /\ bins[a].curruns \in Int /\ bins[a].allocated \in Int /\ Cardinality(M) \in Nat
       /\ Cardinality(OutOf(a, bins[a])) \in Nat
  BY <1>1, BinCounts DEF Inv
<1>4c. One(Brings(w, a)) = 0 /\ One(Returns(w, a)) = 1
  BY <1>1 DEF One, Brings, Returns
<1>5. OutOf(a, b) = OutOf(a, bins[a])
  BY <1>4, SameOut DEF SameFree
<1>6. IF w.op \in Gets THEN Deliver(t, a, b, w.ptr)
      ELSE Freed(t, w, b) /\ UNCHANGED <<app, tcache>>
  BY Zenon DEF Dropped, Gets
<1> HIDE DEF b
<1>7. CASE w.op \in Gets
  <2>1. w.op \notin Flushes /\ InHands(w) = {w.ptr} /\ w.ptr \in Region \cup {None}
    BY <1>1, <1>7 DEF Gets, Flushes, InHands, Work
  <2>2. Owns(t) = Cached(k) \cup InHands(w) /\ Cached(k) \cap InHands(w) = {}
    BY <1>1, <2>1, Quiet DEF Owns
  <2>3. w.ptr \notin Cached(k) /\ w.ptr \notin app
    BY <2>1, <2>2 DEF Inv, Apart
  <2>4. BinOK(b, S, nregs, M, B \ RunAt(todo[t], a))
    BY <1>2, <1>4
  <2>5. InHands(w) \cup {} = {w.ptr} \ {None} /\ OutOf(a, b) = OutOf(a, bins[a]) \cup {}
    BY <1>1, <1>5, <1>7, <2>1
  <2>6. Deliver(t, a, b, w.ptr)
    BY <1>6, <1>7
  <2> DEFINE p == w.ptr
             G == {}
  <2>7. G \cap OutOf(a, bins[a]) = {} /\ G \subseteq Regions(a)
    OBVIOUS
  <2>8. InHands(todo[t]) \cup G = {p} \ {None} /\ OutOf(a, b) = OutOf(a, bins[a]) \cup G
    BY <2>5
  <2>9. p \in Region \cup {None} /\ p \notin app /\ p \notin Cached(tcache[t])
        /\ Deliver(t, a, b, p)
    BY <2>1, <2>3, <2>6
  <2>10. todo[t].op \in Gets /\ todo[t].arena = a
    BY <1>7
  <2>11. Charged(t, a, b)
    BY <1>4a, <1>4b, <1>4c DEF Charged
  <2> HIDE DEF p, G, a, M, B, S, w, k
  <2> QED
    BY <1>1, <2>4, <2>7, <2>8, <2>9, <2>10, <2>11, DeliverStep DEF M, B, S
<1>8. CASE w.op \notin Gets
  <2> DEFINE u == AfterFree(w)
  <2>1. Freed(t, w, b) /\ app' = app /\ tcache' = tcache
    BY <1>6, <1>8
  <2>2. PICK e : /\ BinOK(e, S, nregs, M, B) /\ e.run = b.run
                 /\ e.curruns = b.curruns /\ e.allocated = b.allocated - 1
                 /\ bins' = [bins EXCEPT ![a] = e]
                 /\ todo' = [todo EXCEPT ![t] = u]
    BY <1>4, <2>1, FreedIs
  <2>3. LocalOK(u, k, Region) /\ OwnsOf(u, k) = OwnsOf(w, k) /\ \A x : RunAt(u, x) = {}
    <3>1. CASE w.op = "free"
      <4>1. u = Idle /\ InHands(w) = {} /\ w.op \notin Flushes
        BY <1>1, <3>1 DEF AfterFree, InHands, Flushes
      <4>2. /\ k = None \/ CacheOK(k, Region)
            /\ OwnsOf(w, k) = Cached(k) /\ RegionsOK(Region)
        BY <1>1, <4>1, Quiet
      <4>3. LocalOK(Idle, k, Region) /\ OwnsOf(Idle, k) = Cached(k)
            /\ \A x : RunAt(Idle, x) = {}
        BY <4>2, IdleAgain
      <4> QED
        BY <4>1, <4>2, <4>3
    <3>2. CASE w.op # "free"
      <4>1. w.op \in Flushes /\ u = NextWork(w)
        BY <1>1, <1>8, <3>2 DEF Work, AfterFree
      <4>2. /\ PassReady(w, k, Region)
            /\ InHands(w) = {w.push} \ {None}
            /\ OwnsOf(w, k) = Rest(w, k) \cup InHands(w)
        BY <1>1, <4>1, ReadyIs
      <4> QED
        BY <4>1, <4>2, PassOn
    <3> QED
      BY <3>1, <3>2
  <2> HIDE DEF u
  <2>4. StepTo(t, a, u, k, e, M, app)
    BY <1>1, <2>1, <2>2, AtBin DEF StepTo, Inv, Types
  <2>5. OutOf(a, e) = OutOf(a, bins[a])
    <3>1. OutOf(a, e) = OutOf(a, b)
      BY <2>2, SameOut DEF SameFree
    <3> QED
      BY <1>5, <3>1
  <2>6. BetweenAfter(t, a, u) = B
    BY <1>2, <2>3 DEF BetweenAfter
  <2>7. app \cap OwnsOf(u, k) = {} /\ OwnsOf(u, k) = Owns(t)
    BY <2>3 DEF Inv, Apart, Owns
  <2>7a. Accounted(t, a, u, k, e, M)
    <3>1. Even(u, k)
      BY <1>1, <1>8, AfterFreeEven DEF u
    <3>2. /\ LooseAt(w, k, a) = {} /\ One(Gives(w, a)) = 1
          /\ \A x : x # a => /\ LooseAt(w, k, x) = {}
                            /\ ~Brings(w, x) /\ ~Returns(w, x) /\ ~Gives(w, x)
      BY <1>1, <1>8 DEF LooseAt, LooseOf, Gets, One, Gives, Brings, Returns
    <3>3. /\ One(Brings(u, a)) = 0 /\ One(Returns(u, a)) = 0 /\ One(Gives(u, a)) = 0
          /\ \A x : /\ LooseAt(u, k, x) = {}
                   /\ ~Brings(u, x) /\ ~Returns(u, x) /\ ~Gives(u, x)
      BY <3>1 DEF Even, LooseAt, One, Brings, Returns, Gives
    <3>4. \A x \in Arenas \ {a} : SameAt(w, k, u, k, x)
      BY <3>2, <3>3 DEF SameAt
    <3>5. e.curruns = bins[a].curruns - 1 /\ e.allocated = bins[a].allocated - 1
      BY <1>4a, <2>2
    <3>6. e.curruns + Cardinality(M) + One(Brings(u, a)) + One(Returns(w, a))
            = bins[a].curruns + Cardinality(M) + One(Brings(w, a)) + One(Returns(u, a))
      BY <1>4b, <1>4c, <3>3, <3>5
    <3>7. Cardinality(LooseAt(w, k, a)) = 0 /\ Cardinality(LooseAt(u, k, a)) = 0
      BY <3>2, <3>3, FS_EmptySet
    <3>8. e.allocated + Cardinality(OutOf(a, bins[a])) + Cardinality(LooseAt(u, k, a))
              + One(Gives(w, a))
            = bins[a].allocated + Cardinality(OutOf(a, e)) + Cardinality(LooseAt(w, k, a))
                + One(Gives(u, a))
      BY <1>4b, <2>5, <3>2, <3>3, <3>5, <3>7
    <3> QED
      BY <3>4, <3>6, <3>8 DEF Accounted
  <2>8. StepOK(t, a, u, k, e, M, app, {}, {})
    BY <1>2, <2>2, <2>3, <2>5, <2>6, <2>7, <2>7a DEF StepOK
  <2> QED
    BY <2>4, <2>8, StepKeeps
<1> QED
  BY <1>7, <1>8

\* A thread between two operations.
LEMMA AtRest ==
    ASSUME Constants, Inv, NEW t \in Threads, todo[t].pc = "idle"
    PROVE  /\ todo[t] = Idle /\ LocalOK(Idle, tcache[t], Region)
           /\ tcache[t] = None \/ CacheOK(tcache[t], Region)
           /\ Owns(t) = Cached(tcache[t]) /\ RegionsOK(Region)
           /\ app \cap Cached(tcache[t]) = {}
           /\ \A x : RunAt(todo[t], x) = {}
           /\ Even(todo[t], tcache[t])
<1>1. todo[t] = Idle /\ LocalOK(Idle, tcache[t], Region)
  BY AtBin DEF Doing
<1>2. /\ tcache[t] = None \/ CacheOK(tcache[t], Region)
      /\ Owns(t) = Cached(tcache[t]) /\ RegionsOK(Region)
  BY <1>1, IdleIs, Quiet DEF Owns
<1>3. Even(todo[t], tcache[t])
  BY <1>1, IdleEven
<1> QED
  BY <1>1, <1>2, <1>3, IdleIs DEF Inv, Apart

LEMMA FreeKeeps ==
    ASSUME Constants, Inv, NEW t \in Threads, NEW p \in app, Free(t, p)
    PROVE  Inv'
<1> DEFINE R == Region
           c == tcache[t]
           n == NcachedMax
<1>1. /\ todo[t] = Idle /\ (c = None \/ CacheOK(c, R))
      /\ Owns(t) = Cached(c) /\ RegionsOK(R) /\ app \cap Cached(c) = {}
      /\ \A x : RunAt(todo[t], x) = {} /\ Even(todo[t], c)
  BY AtRest DEF Free
<1>2. p \in Region /\ p[1] \in Arenas /\ p # None /\ p \notin Cached(c)
  <2>1. p \in Region /\ p[1] \in Arenas
    BY HeldIsOut
  <2> QED
    BY <1>1, <2>1 DEF RegionsOK
<1>3. UNCHANGED <<nregs, room, arenaOf, bins, mapped>> /\ app' = app \ {p}
  BY DEF Free
<1>4. ASSUME NEW v, NEW d, LocalOK(v, d, R), OwnsOf(v, d) = Cached(c) \cup {p},
             \A x : RunAt(v, x) = {}, Even(v, d), todo' = [todo EXCEPT ![t] = v],
             tcache' = [tcache EXCEPT ![t] = d]
      PROVE  Inv'
  <2>1. app' \cup OwnsOf(v, d) = app \cup Owns(t) /\ app' \cap OwnsOf(v, d) = {}
    BY <1>1, <1>3, <1>4
  <2>2. \A x \in Arenas : RunAt(v, x) = RunAt(todo[t], x)
    BY <1>1, <1>4
  <2>3. \A x \in Arenas : SameAt(todo[t], tcache[t], v, d, x)
    BY <1>1, <1>4, SameEven
  <2> HIDE DEF R
  <2> QED
    BY <1>3, <1>4, <2>1, <2>2, <2>3, LocalStep DEF R
<1>5. CASE /\ c = None /\ UNCHANGED tcache
           /\ Do(t, [Idle EXCEPT !.pc = "dlock", !.op = "free", !.arena = ArenaOf(p),
                                 !.ptr = p])
  <2> DEFINE v == [Idle EXCEPT !.pc = "dlock", !.op = "free", !.arena = ArenaOf(p),
                               !.ptr = p]
  <2>1. /\ v \in Work(R) /\ v.pc = "dlock" /\ v.op = "free" /\ v.arena = p[1]
        /\ v.ptr = p /\ v.push = None /\ v.run = None
    BY <1>2 DEF Idle, Work, ArenaOf
  <2>2. todo' = [todo EXCEPT ![t] = v] /\ tcache' = [tcache EXCEPT ![t] = c]
    BY <1>5, AtBin DEF Do
  <2> HIDE DEF v
  <2>3. InHands(v) = {p} /\ v.op \notin Flushes /\ Doing(v, c) /\ \A x : RunAt(v, x) = {}
    BY <1>2, <2>1 DEF InHands, Flushes, Gets, Doing, RunAt
  <2>4. Cached(c) \cap InHands(v) = {}
    BY <1>2, <2>3
  <2>5. LocalOK(v, c, R) /\ OwnsOf(v, c) = Cached(c) \cup {p}
    BY <1>1, <2>1, <2>3, <2>4, QuietAgain
  <2>6. Even(v, c)
    BY <2>1, CalmIsEven DEF Gets
  <2> QED
    BY <1>4, <2>2, <2>3, <2>5, <2>6
<1>6. CASE /\ c # None /\ ncached(t) = n /\ UNCHANGED tcache
           /\ Do(t, [Idle EXCEPT !.pc = "pass", !.op = "push", !.push = p,
                                 !.rem = n \div 2, !.nflush = n - n \div 2])
  <2> DEFINE h == n \div 2
             v == [Idle EXCEPT !.pc = "pass", !.op = "push", !.push = p,
                               !.rem = h, !.nflush = n - h]
  <2>1. h \in Nat /\ n - h \in Nat /\ n \in Nat
    BY BinsAssumption
  <2>2. todo' = [todo EXCEPT ![t] = v] /\ tcache' = [tcache EXCEPT ![t] = c]
    BY <1>6, AtBin DEF Do
  <2> HIDE DEF h
  <2>3. /\ v \in Work(R) /\ v.pc = "pass" /\ v.op = "push" /\ v.push = p /\ v.rem = h
        /\ v.nflush = n - h /\ v.ndeferred = 0 /\ v.ptr = None /\ v.run = None
    BY <1>2, <2>1 DEF Idle, Work, Flushes
  <2> HIDE DEF v
  <2>4. CacheOK(c, R) /\ v.nflush + v.rem = Len(c.avail) /\ v.op \in Flushes
        /\ v.push # None /\ v.push \notin Cached(c)
    BY <1>1, <1>2, <1>6, <2>1, <2>3 DEF ncached, Flushes
  <2>5. /\ LocalOK(v, c, R)
        /\ OwnsOf(v, c) = Cached(c) \cup ({v.push} \ {None})
        /\ \A x : RunAt(v, x) = {}
    BY <1>1, <2>3, <2>4, FlushBegins
  <2>6. OwnsOf(v, c) = Cached(c) \cup {p}
    BY <1>2, <2>3, <2>5
  <2>7. Even(v, c)
    BY <2>3, CalmIsEven DEF Gets
  <2> QED
    BY <1>4, <2>2, <2>5, <2>6, <2>7
<1>7. CASE /\ c # None
           /\ tcache' = [tcache EXCEPT ![t].avail = Append(@, p)]
           /\ UNCHANGED todo
  <2> DEFINE d == [c EXCEPT !.avail = Append(@, p)]
  <2>1. CacheOK(d, R) /\ Cached(d) = Cached(c) \cup {p}
    <3>1. CacheOK(c, R) /\ p \in R /\ p \notin Cached(c)
      BY <1>1, <1>2, <1>7
    <3> HIDE DEF R, c
    <3> QED
      BY <3>1, Pushed
  <2>2. todo' = [todo EXCEPT ![t] = Idle] /\ tcache' = [tcache EXCEPT ![t] = d]
    BY <1>1, <1>7, AtBin
  <2> HIDE DEF d
  <2>3. LocalOK(Idle, d, R) /\ OwnsOf(Idle, d) = Cached(d) /\ \A x : RunAt(Idle, x) = {}
    BY <1>1, <2>1, IdleAgain
  <2>4. OwnsOf(Idle, d) = Cached(c) \cup {p}
    BY <2>1, <2>3
  <2> QED
    BY <1>4, <2>2, <2>3, <2>4, IdleEven
<1> QED
  BY <1>5, <1>6, <1>7 DEF Free

-----------------------------------------------------------------------------
(* Flushing.                                                               *)

LEMMA PassKeeps ==
    ASSUME Constants, Inv, NEW t \in Threads, Pass(t)
    PROVE  Inv'
<1> DEFINE w == todo[t]
           c == tcache[t]
           a == ArenaOf(c.avail[1])
           m == w.merged \/ a = c.arena
           v == [w EXCEPT !.pc = "flush", !.arena = a, !.i = 1, !.merged = m]
<1>1. /\ w.pc = "pass" /\ w.nflush > 0 /\ w.op \in Flushes /\ w.ptr = None /\ w.run = None
      /\ c # None /\ w \in Work(Region) /\ LocalOK(w, c, Region)
      /\ UNCHANGED <<nregs, room, arenaOf, bins, mapped, app, tcache>>
  BY AtBin DEF Pass, Doing
<1>2. /\ w.nflush \in Nat /\ w.rem \in Nat /\ Len(c.avail) \in Nat /\ c.avail \in Seq(Region)
      /\ w.nflush + w.rem <= Len(c.avail) /\ w.ndeferred = 0
  BY <1>1 DEF LocalOK, Work, Caches, Flushing
<1>3. a \in Arenas
  <2>1. c.avail[1] \in Region
    BY <1>1, <1>2
  <2> QED
    BY <1>1, <2>1 DEF ArenaOf, LocalOK
<1>4. todo' = [todo EXCEPT ![t] = v]
  BY DEF Pass, Do
<1>5. m \in BOOLEAN
  OBVIOUS
<1> HIDE DEF m, a
<1>6. /\ v \in Work(Region) /\ v.pc = "flush" /\ v.run = None /\ v.op = w.op
      /\ v.arena = a /\ v.ptr = None /\ v.push = w.push /\ v.i = 1
      /\ v.nflush = w.nflush /\ v.ndeferred = 0 /\ v.rem = w.rem
  BY <1>1, <1>2, <1>3, <1>5 DEF Work
<1> HIDE DEF v
<1>7. PlacesOf(v, c) = PlacesOf(w, c) /\ InHands(v) = InHands(w)
  BY <1>1, <1>2, <1>6 DEF PlacesOf, NextPlace, InHands, Flushes
<1>8. OwnsOf(v, c) = OwnsOf(w, c) /\ InCaches(v, c) = InCaches(w, c)
  BY <1>7 DEF OwnsOf, InCaches
<1>9. Doing(v, c)
  BY <1>1, <1>3, <1>6 DEF LocalOK, Doing
<1>10. Flushing(v, c) /\ OnceEach(v, c)
  BY <1>1, <1>2, <1>6, <1>7, <1>8 DEF LocalOK, Flushing, OnceEach
<1>11. LocalOK(v, c, Region)
  BY <1>1, <1>6, <1>9, <1>10 DEF LocalOK
<1>12. \A x \in Arenas : RunAt(v, x) = RunAt(todo[t], x)
  BY <1>1, <1>6 DEF RunAt
<1>13. app' \cup OwnsOf(v, c) = app \cup Owns(t) /\ app' \cap OwnsOf(v, c) = {}
  BY <1>1, <1>8 DEF Inv, Apart, Owns
<1>14. tcache' = [tcache EXCEPT ![t] = c]
  BY <1>1, AtBin
<1>15. \A x \in Arenas : SameAt(todo[t], tcache[t], v, c, x)
  <2>1. Even(w, c) /\ Even(v, c)
    BY <1>1, <1>6, CalmIsEven DEF Flushes, Gets
  <2> QED
    BY <2>1, SameEven
<1> QED
  BY <1>1, <1>4, <1>11, <1>12, <1>13, <1>14, <1>15, LocalStep

LEMMA FlushOneKeeps ==
    ASSUME Constants, Inv, NEW t \in Threads, FlushOne(t)
    PROVE  Inv'
<1> DEFINE w == todo[t]
           c == tcache[t]
           p == c.avail[w.i]
           a == w.arena
           d == w.ndeferred + 1
           v == [w EXCEPT !.ndeferred = d]
           k == [c EXCEPT !.avail[d] = p]
<1>1. /\ w.pc = "flush" /\ w.op \in Flushes /\ w.run = None /\ a \in Arenas
      /\ LocalOK(w, c, Region) /\ w \in Work(Region)
      /\ UNCHANGED <<nregs, room, arenaOf, mapped, app>>
  BY AtBin DEF FlushOne, Doing
<1>2. CASE p[1] = a
  <2>1. arena_dalloc_bin_locked(t, w, p) /\ UNCHANGED tcache
    BY <1>2 DEF FlushOne, ArenaOf
  <2>2. p = Leaving(w, c)
    BY <1>1 DEF Leaving
  <2> QED
    BY <1>1, <1>2, <2>1, <2>2, DallocStep
<1>3. CASE p[1] # a
  <2> DEFINE u == NextWork(v)
  <2>1. tcache' = [tcache EXCEPT ![t] = k] /\ NextInPass(t, v, bins[a])
    BY <1>3 DEF FlushOne, ArenaOf
  <2>2. /\ PassReady(v, k, Region) /\ v.push = w.push
        /\ Rest(v, k) = Rest(w, c) \cup {p}
    BY <1>1, Stashed
  <2>3. v.arena = a /\ v.op = w.op
    BY <1>1 DEF Work
  <2> HIDE DEF v, k
  <2>3a. Even(w, c) /\ Even(u, k)
    <3>1. v \in Work(Region)
      BY <2>2 DEF PassReady
    <3>2. u.op = v.op /\ u.pc \in {"pass", "flush"}
      BY <3>1 DEF NextWork, Work
    <3> HIDE DEF u
    <3> QED
      BY <1>1, <2>3, <3>2, CalmIsEven DEF Flushes, Gets
  <2>4. todo' = [todo EXCEPT ![t] = u] /\ bins' = bins
    BY <1>1, <2>1, <2>3 DEF NextInPass, Do, SetBin, NextWork, Inv, Types
  <2>5. /\ LocalOK(u, k, Region)
        /\ OwnsOf(u, k) = Rest(v, k) \cup ({v.push} \ {None})
        /\ \A x : RunAt(u, x) = {}
    BY <2>2, PassOn
  <2>6. OwnsOf(w, c) = Rest(w, c) \cup {p} \cup ({w.push} \ {None})
    BY <1>1, ReadyIs
  <2> HIDE DEF u, p
  <2>7. OwnsOf(u, k) = OwnsOf(w, c)
    BY <2>2, <2>5, <2>6
  <2>8. app' \cup OwnsOf(u, k) = app \cup Owns(t) /\ app' \cap OwnsOf(u, k) = {}
    BY <1>1, <2>7 DEF Inv, Apart, Owns
  <2>9. \A x \in Arenas : RunAt(u, x) = RunAt(todo[t], x)
    BY <1>1, <2>5 DEF RunAt
  <2>10. UNCHANGED <<nregs, room, arenaOf, bins, mapped>>
    BY <1>1, <2>4
  <2>11. \A x \in Arenas : SameAt(todo[t], tcache[t], u, k, x)
    BY <2>3a, SameEven
  <2> QED
    BY <2>1, <2>4, <2>5, <2>8, <2>9, <2>10, <2>11, LocalStep
<1> QED
  BY <1>2, <1>3

\* The regions that are meant to stay are what is left of the cache.
LEMMA KeptIs ==
    ASSUME Constants, NEW w, NEW c, NEW R, LocalOK(w, c, R), w.pc = "pass", w.nflush = 0
    PROVE  /\ CacheOK(Kept(c, w.rem), R)
           /\ Cached(Kept(c, w.rem)) = InCaches(w, c)
           /\ InHands(w) = {w.push} \ {None}
           /\ w.rem = 0 => InCaches(w, c) = {}
<1> DEFINE n == Len(c.avail)
           r == w.rem
           q == SubSeq(c.avail, n - r + 1, n)
           d == Kept(c, r)
<1>1. /\ c # None /\ c \in Caches(R) /\ w \in Work(R) /\ w.op \in Flushes /\ w.ptr = None
      /\ w.ndeferred = 0 /\ r \in Nat /\ n \in Nat /\ r <= n /\ c.avail \in Seq(R)
      /\ c.low_water \in Int /\ c.low_water <= n
  BY DEF LocalOK, Doing, Flushing, Work, Caches
<1>2. PlacesOf(w, c) = n - r + 1 .. n
  BY <1>1 DEF PlacesOf, NextPlace
<1>3. /\ q \in Seq(R) /\ Len(q) = r
      /\ \A x \in 1 .. r : q[x] = c.avail[n - r + x]
  <2> DEFINE m == n - r + 1
  <2>1. m \in 1 .. n + 1 /\ n - m + 1 = r /\ \A x \in 1 .. r : x + m - 1 = n - r + x
    BY <1>1
  <2>2. q = SubSeq(c.avail, m, n)
    OBVIOUS
  <2>3. \A x \in m .. n : c.avail[x] \in R
    BY <1>1, <2>1
  <2>4. m \in Int /\ n \in Int /\ (IF m <= n THEN n - m + 1 ELSE 0) = r
    BY <1>1, <2>1
  <2>5. \A x \in 1 .. r : m + x - 1 = n - r + x
    BY <1>1
  <2> HIDE DEF m, n, q
  <2>6. /\ q \in Seq(R) /\ Len(q) = IF m <= n THEN n - m + 1 ELSE 0
        /\ \A x \in 1 .. n - m + 1 : q[x] = c.avail[m + x - 1]
    BY <2>2, <2>3, <2>4, SubSeqProperties
  <2> QED
    BY <2>1, <2>4, <2>5, <2>6
<1>4. LessLow(c, r) \in Int /\ LessLow(c, r) <= r
  BY <1>1 DEF LessLow
<1> HIDE DEF q
<1>5. d \in Caches(R) /\ d.avail = q /\ d.low_water = LessLow(c, r)
  BY <1>1, <1>3, <1>4 DEF Kept, Caches, q
<1>6. d # None
  BY <1>5, CacheIsSomething
<1> HIDE DEF d
<1>7. \A x, y \in n - r + 1 .. n : c.avail[x] = c.avail[y] => x = y
  BY <1>2 DEF LocalOK, OnceEach
<1>8. CacheOK(d, R)
  <2>1. \A x, y \in 1 .. r : q[x] = q[y] => x = y
    <3> SUFFICES ASSUME NEW x \in 1 .. r, NEW y \in 1 .. r, q[x] = q[y] PROVE x = y
      OBVIOUS
    <3>1. n - r + x \in n - r + 1 .. n /\ n - r + y \in n - r + 1 .. n
      BY <1>1, SMTT(30)
    <3>2. n - r + x = n - r + y
      BY <1>3, <1>7, <3>1
    <3> QED
      BY <1>1, <3>2
  <2> QED
    BY <1>3, <1>4, <1>5, <2>1 DEF CacheOK
<1>9. Cached(d) = {q[x] : x \in 1 .. r}
  BY <1>3, <1>5, <1>6 DEF Cached
<1>10. {q[x] : x \in 1 .. r} = {c.avail[x] : x \in n - r + 1 .. n}
  <2>1. ASSUME NEW x \in 1 .. r PROVE q[x] \in {c.avail[z] : z \in n - r + 1 .. n}
    <3>1. n - r + x \in n - r + 1 .. n
      BY <1>1
    <3> QED
      BY <1>3, <3>1
  <2>2. ASSUME NEW z \in n - r + 1 .. n PROVE c.avail[z] \in {q[x] : x \in 1 .. r}
    <3>1. z - (n - r) \in 1 .. r /\ n - r + (z - (n - r)) = z
      BY <1>1
    <3>2. q[z - (n - r)] = c.avail[z]
      BY <1>3, <3>1
    <3> QED
      BY <3>1, <3>2
  <2> QED
    BY <2>1, <2>2
<1>11. InCaches(w, c) = {c.avail[x] : x \in n - r + 1 .. n}
  BY <1>2 DEF InCaches
<1>12. InHands(w) = {w.push} \ {None}
  BY <1>1 DEF InHands, Flushes
<1>13. r = 0 => InCaches(w, c) = {}
  BY <1>1, <1>11
<1>14. Cached(d) = InCaches(w, c)
  BY <1>9, <1>10, <1>11, Zenon
<1> QED
  BY <1>8, <1>12, <1>13, <1>14 DEF d

LEMMA FlushedKeeps ==
    ASSUME Constants, Inv, NEW t \in Threads, Flushed(t)
    PROVE  Inv'
<1> DEFINE w == todo[t]
           R == Region
           c == Kept(tcache[t], w.rem)
           d == CASE w.op = "gc" -> GcEnds(c)
                  [] w.op = "destroy" -> None
                  [] OTHER -> [c EXCEPT !.avail = Append(@, w.push)]
<1>1. /\ w.pc = "pass" /\ w.nflush = 0 /\ w.run = None /\ w.op \in Flushes
      /\ LocalOK(w, tcache[t], R) /\ w \in Work(R)
      /\ w.op = "push" <=> w.push # None
      /\ w.op = "destroy" => w.rem = 0
      /\ UNCHANGED <<nregs, room, arenaOf, bins, mapped, lock, app>>
      /\ todo' = [todo EXCEPT ![t] = Idle]
      /\ tcache' = [tcache EXCEPT ![t] = d]
  BY AtBin DEF Flushed, Doing, LocalOK, Flushing, Do
<1>2. /\ CacheOK(c, R)
      /\ Cached(c) = InCaches(w, tcache[t])
      /\ InHands(w) = {w.push} \ {None}
      /\ w.rem = 0 => InCaches(w, tcache[t]) = {}
  BY <1>1, KeptIs
<1>3. Cached(c) \cap InHands(w) = {} /\ Owns(t) = Cached(c) \cup InHands(w) /\ RegionsOK(R)
  BY <1>1, <1>2 DEF LocalOK, OnceEach, Owns, OwnsOf, RegionsOK
<1>4. (d = None \/ CacheOK(d, R)) /\ Cached(d) = Owns(t)
  <2>1. CASE w.op = "gc"
    <3>1. d = GcEnds(c) /\ InHands(w) = {}
      BY <1>1, <1>2, <2>1
    <3>2. c \in Caches(R)
      BY <1>2 DEF CacheOK
    <3>3. GcEnds(c) \in Caches(R) /\ GcEnds(c).avail = c.avail
          /\ GcEnds(c).low_water <= Len(c.avail)
      <4> DEFINE g == IF NcachedMax \div (2 ^ (c.lg_fill_div + 1)) >= 1
                      THEN c.lg_fill_div + 1 ELSE c.lg_fill_div
      <4>1. g \in Int /\ Len(c.avail) \in Int /\ Len(c.avail) <= Len(c.avail)
        BY <3>2 DEF Caches
      <4>2. GcEnds(c) = [c EXCEPT !.lg_fill_div = g, !.low_water = Len(c.avail)]
        BY DEF GcEnds
      <4> HIDE DEF g, c
      <4> QED
        BY <3>2, <4>1, <4>2 DEF Caches
    <3> HIDE DEF c, d
    <3>4. CacheOK(GcEnds(c), R) /\ Cached(GcEnds(c)) = Cached(c)
      BY <1>2, <3>3, SameAvail
    <3> QED
      BY <1>3, <3>1, <3>4
  <2>2. CASE w.op = "destroy"
    <3>1. d = None /\ InHands(w) = {} /\ Cached(c) = {}
      BY <1>1, <1>2, <2>2
    <3> HIDE DEF c, d
    <3> QED
      BY <1>3, <3>1 DEF Cached
  <2>3. CASE w.op = "push"
    <3>1. d = [c EXCEPT !.avail = Append(@, w.push)] /\ InHands(w) = {w.push}
      BY <1>1, <1>2, <2>3
    <3>2. w.push \in R /\ w.push \notin Cached(c)
      BY <1>1, <1>3, <2>3, <3>1 DEF Work
    <3> DEFINE p == w.push
               e == [c EXCEPT !.avail = Append(@, p)]
    <3>3. CacheOK(c, R) /\ p \in R /\ p \notin Cached(c)
      BY <1>2, <3>2
    <3>4. Owns(t) = Cached(c) \cup {p} /\ d = e
      BY <1>3, <3>1
    <3> HIDE DEF c, R, d, p
    <3>5. CacheOK(e, R) /\ Cached(e) = Cached(c) \cup {p}
      BY <3>3, Pushed
    <3> QED
      BY <3>4, <3>5
  <2> QED
    BY <1>1, <2>1, <2>2, <2>3 DEF Flushes
<1> HIDE DEF c, d
<1>5. LocalOK(Idle, d, R) /\ OwnsOf(Idle, d) = Cached(d) /\ \A x : RunAt(Idle, x) = {}
  BY <1>3, <1>4, IdleAgain
<1>6. app' \cup OwnsOf(Idle, d) = app \cup Owns(t) /\ app' \cap OwnsOf(Idle, d) = {}
  BY <1>1, <1>4, <1>5 DEF Inv, Apart
<1>7. \A x \in Arenas : RunAt(Idle, x) = RunAt(todo[t], x)
  BY <1>1, <1>5 DEF RunAt
<1>8. \A x \in Arenas : SameAt(todo[t], tcache[t], Idle, d, x)
  <2>1. Even(w, tcache[t])
    BY <1>1, CalmIsEven DEF Flushes, Gets
  <2> QED
    BY <2>1, IdleEven, SameEven
<1> QED
  BY <1>1, <1>5, <1>6, <1>7, <1>8, LocalStep

\* A step between two operations that changes the cache but not what is in it.
LEMMA CacheStep ==
    ASSUME Constants, Inv, NEW t \in Threads, NEW d, d = None \/ CacheOK(d, Region),
           todo[t].pc = "idle", Cached(d) = Cached(tcache[t]),
           UNCHANGED <<nregs, room, arenaOf, bins, mapped, app, todo>>,
           tcache' = [tcache EXCEPT ![t] = d]
    PROVE  Inv'
<1>1. /\ todo[t] = Idle /\ Owns(t) = Cached(tcache[t]) /\ RegionsOK(Region)
      /\ app \cap Cached(tcache[t]) = {} /\ \A x : RunAt(todo[t], x) = {}
      /\ Even(todo[t], tcache[t])
  BY AtRest
<1>2. LocalOK(Idle, d, Region) /\ OwnsOf(Idle, d) = Cached(d) /\ \A x : RunAt(Idle, x) = {}
  BY <1>1, IdleAgain
<1>3. app' \cup OwnsOf(Idle, d) = app \cup Owns(t) /\ app' \cap OwnsOf(Idle, d) = {}
  BY <1>1, <1>2
<1>4. todo' = [todo EXCEPT ![t] = Idle] /\ \A x \in Arenas : RunAt(Idle, x) = RunAt(todo[t], x)
  BY <1>1, <1>2, AtBin
<1>5. UNCHANGED <<nregs, room, arenaOf, bins, mapped>>
  OBVIOUS
<1>6. \A x \in Arenas : SameAt(todo[t], tcache[t], Idle, d, x)
  BY <1>1, IdleEven, SameEven
<1> QED
  BY <1>2, <1>3, <1>4, <1>5, <1>6, LocalStep

\* A flush of the whole cache or of a part of it begins.
LEMMA FlushStep ==
    ASSUME Constants, Inv, NEW t \in Threads, todo[t].pc = "idle", tcache[t] # None,
           NEW v \in Work(Region), v.pc = "pass", v.op \in {"gc", "destroy"},
           v.nflush + v.rem = Len(tcache[t].avail), v.ndeferred = 0, v.ptr = None,
           v.run = None, v.push = None, v.op = "destroy" => v.rem = 0,
           UNCHANGED <<nregs, room, arenaOf, bins, mapped, app, tcache>>,
           todo' = [todo EXCEPT ![t] = v]
    PROVE  Inv'
<1> DEFINE c == tcache[t]
<1>1. /\ CacheOK(c, Region) /\ Owns(t) = Cached(c) /\ RegionsOK(Region)
      /\ app \cap Cached(c) = {} /\ \A x : RunAt(todo[t], x) = {} /\ Even(todo[t], c)
  BY AtRest
<1>2. None \notin Cached(c)
  <2>1. Owns(t) \subseteq Region
    BY AtBin, PlacesInCache DEF Owns
  <2> QED
    BY <1>1, <2>1 DEF RegionsOK
<1>3. v.op \in Flushes /\ (v.op = "push" <=> v.push # None) /\ v.push \notin Cached(c)
  BY <1>2 DEF Flushes
<1>4. /\ LocalOK(v, c, Region) /\ OwnsOf(v, c) = Cached(c) \cup ({v.push} \ {None})
      /\ \A x : RunAt(v, x) = {}
  BY <1>1, <1>3, FlushBegins
<1>5. app' \cup OwnsOf(v, c) = app \cup Owns(t) /\ app' \cap OwnsOf(v, c) = {}
  BY <1>1, <1>4
<1>6. tcache' = [tcache EXCEPT ![t] = c] /\ \A x \in Arenas : RunAt(v, x) = RunAt(todo[t], x)
  BY <1>1, <1>4, AtBin
<1>7. UNCHANGED <<nregs, room, arenaOf, bins, mapped>>
  OBVIOUS
<1>8. \A x \in Arenas : SameAt(todo[t], tcache[t], v, c, x)
  <2>1. Even(v, c)
    BY CalmIsEven DEF Gets
  <2> QED
    BY <1>1, <2>1, SameEven
<1> QED
  BY <1>4, <1>5, <1>6, <1>7, <1>8, LocalStep

LEMMA EventKeeps ==
    ASSUME Constants, Inv, NEW t \in Threads, tcache_event_hard(t)
    PROVE  Inv'
<1> DEFINE c == tcache[t]
           n == Len(c.avail)
           low == c.low_water
           rem == n - low + low \div 4
<1>1. /\ todo[t].pc = "idle" /\ c # None
      /\ UNCHANGED <<nregs, room, arenaOf, bins, mapped, lock, app>>
  BY DEF tcache_event_hard
<1>2. CacheOK(c, Region)
  BY <1>1, AtRest
<1>3. c \in Caches(Region) /\ n \in Nat /\ low \in Int /\ low <= n /\ c.lg_fill_div \in Int
  BY <1>2 DEF CacheOK, Caches
<1>4. CASE /\ low > 0 /\ UNCHANGED tcache
           /\ Do(t, [Idle EXCEPT !.pc = "pass", !.op = "gc", !.rem = rem, !.nflush = n - rem])
  <2> DEFINE v == [Idle EXCEPT !.pc = "pass", !.op = "gc", !.rem = rem, !.nflush = n - rem]
  <2>1. rem \in Nat /\ n - rem \in Nat /\ (n - rem) + rem = n
    <3> DEFINE q == low \div 4
    <3>1. q \in Nat /\ q <= low
      BY <1>3, <1>4
    <3> HIDE DEF q, low, n
    <3>2. n \in Nat /\ low \in Int /\ low > 0 /\ low <= n
      BY <1>3, <1>4
    <3>3. n - low + q \in Nat /\ n - (n - low + q) \in Nat
          /\ (n - (n - low + q)) + (n - low + q) = n
      BY <3>1, <3>2
    <3> QED
      BY <3>3 DEF q
  <2>2. todo' = [todo EXCEPT ![t] = v]
    BY <1>4 DEF Do
  <2> HIDE DEF rem, n
  <2>3. /\ v \in Work(Region) /\ v.pc = "pass" /\ v.op = "gc" /\ v.rem = rem
        /\ v.nflush = n - rem /\ v.ndeferred = 0 /\ v.ptr = None /\ v.run = None
        /\ v.push = None
    BY <2>1 DEF Idle, Work, Flushes
  <2> HIDE DEF v
  <2>4. v.nflush + v.rem = Len(tcache[t].avail)
    BY <2>1, <2>3 DEF n
  <2>5. UNCHANGED <<nregs, room, arenaOf, bins, mapped, app, tcache>>
    BY <1>1, <1>4
  <2> QED
    BY <1>1, <2>2, <2>3, <2>4, <2>5, FlushStep
<1>5. CASE /\ UNCHANGED todo
           /\ tcache' = [tcache EXCEPT ![t].low_water = n,
                             ![t].lg_fill_div = IF low < 0 /\ @ > 1 THEN @ - 1 ELSE @]
  <2> DEFINE g == IF low < 0 /\ c.lg_fill_div > 1 THEN c.lg_fill_div - 1 ELSE c.lg_fill_div
             d == [c EXCEPT !.low_water = n, !.lg_fill_div = g]
  <2>1. g \in Int
    BY <1>3
  <2>2. tcache' = [tcache EXCEPT ![t] = d]
    BY <1>3, <1>5 DEF Caches
  <2> HIDE DEF g, c, n
  <2>3. d \in Caches(Region) /\ d.avail = c.avail /\ d.low_water <= n
    <3>1. n \in Int /\ n <= n
      BY <1>3
    <3>2. d \in Caches(Region) /\ d.avail = c.avail /\ d.low_water = n
      BY <1>3, <2>1, <3>1 DEF Caches
    <3> QED
      BY <3>1, <3>2
  <2> HIDE DEF d
  <2>4. CacheOK(d, Region) /\ Cached(d) = Cached(c)
    BY <1>2, <2>3, SameAvail DEF n
  <2>5. UNCHANGED <<nregs, room, arenaOf, bins, mapped, app, todo>>
    BY <1>1, <1>5
  <2> QED
    BY <1>1, <2>2, <2>4, <2>5, CacheStep DEF c
<1> QED
  BY <1>4, <1>5 DEF tcache_event_hard

LEMMA CreateKeeps ==
    ASSUME Constants, Inv, NEW t \in Threads, tcache_create(t)
    PROVE  Inv'
<1> DEFINE d == NewCache(arenaOf[t])
<1>1. /\ todo[t].pc = "idle" /\ tcache[t] = None /\ arenaOf[t] \in Arenas
      /\ UNCHANGED <<nregs, room, arenaOf, bins, mapped, app, todo>>
      /\ tcache' = [tcache EXCEPT ![t] = d]
  BY DEF tcache_create, Inv, Types
<1>2. d \in Caches(Region) /\ d.avail = <<>> /\ d.low_water = 0
  BY <1>1 DEF NewCache, Caches
<1>3. d # None
  BY <1>2, CacheIsSomething
<1> HIDE DEF d
<1>4. Len(d.avail) = 0
  BY <1>2
<1>5. CacheOK(d, Region)
  BY <1>2, <1>4 DEF CacheOK
<1>6. Cached(d) = Cached(tcache[t])
  BY <1>1, <1>3, <1>4 DEF Cached
<1> QED
  BY <1>1, <1>5, <1>6, CacheStep

LEMMA DestroyKeeps ==
    ASSUME Constants, Inv, NEW t \in Threads, tcache_destroy(t)
    PROVE  Inv'
<1> DEFINE n == Len(tcache[t].avail)
           v == [Idle EXCEPT !.pc = "pass", !.op = "destroy", !.nflush = n]
<1>1. /\ todo[t].pc = "idle" /\ tcache[t] # None
      /\ UNCHANGED <<nregs, room, arenaOf, bins, mapped, app, tcache>>
      /\ todo' = [todo EXCEPT ![t] = v]
  BY DEF tcache_destroy, Do, ncached
<1>2. n \in Nat
  BY <1>1, AtRest DEF CacheOK, Caches
<1> HIDE DEF n
<1>3. /\ v \in Work(Region) /\ v.pc = "pass" /\ v.op = "destroy" /\ v.rem = 0
      /\ v.nflush = n /\ v.ndeferred = 0 /\ v.ptr = None /\ v.run = None /\ v.push = None
  BY <1>2 DEF Idle, Work, Flushes
<1> HIDE DEF v
<1>4. v.nflush + v.rem = Len(tcache[t].avail)
  BY <1>2, <1>3 DEF n
<1> QED
  BY <1>1, <1>3, <1>4, FlushStep

-----------------------------------------------------------------------------
(* The theorems.                                                           *)

LEMMA InitInv ==
    ASSUME Constants, Init
    PROVE  Inv
<1>1. nregs \in Nat \ {0} /\ room \in [Arenas -> Nat]
  BY BinsAssumption DEF Init
<1>2. /\ app = {} /\ \A a \in Arenas : mapped[a] = {}
      /\ \A t \in Threads : tcache[t] = None /\ todo[t] = Idle
  BY DEF Init
<1>3. Types
  BY <1>1 DEF Init, Types
<1>4. \A t \in Threads : \A a : RunAt(todo[t], a) = {}
  BY <1>2, IdleIs
<1>5. RunsApart /\ \A a : Between(a) = {}
  <2>1. \A a : Between(a) = {}
    BY <1>4, BetweenIs
  <2> QED
    BY <1>4, <2>1 DEF RunsApart
<1>6. RegionsOK(Region)
  <2>1. ASSUME NEW p \in Region PROVE p # None /\ p[1] \in Arenas
    <3>1. p = <<p[1], p[2], p[3]>> /\ p[1] \in Arenas
      BY <1>3, <2>1, RegionIs
    <3>2. None # <<p[1], p[2], p[3]>>
      BY Zenon DEF Constants
    <3> QED
      BY <3>1, <3>2
  <2> QED
    BY <2>1 DEF RegionsOK
<1>7. LocalOK(Idle, None, Region) /\ OwnsOf(Idle, None) = {}
  BY <1>6, IdleAgain DEF Cached
<1>8. Locals /\ \A t \in Threads : Owns(t) = {}
  BY <1>2, <1>7 DEF Locals, Owns
<1>9. Apart
  BY <1>2, <1>8 DEF Apart
<1>10. ASSUME NEW a \in Arenas
       PROVE  /\ BinOK(bins[a], Slot(a), nregs, mapped[a], Between(a))
              /\ OutOf(a, bins[a]) = {}
  <2> DEFINE b == bins[a]
             S == Slot(a)
  <2>1. /\ RunOK(Fresh, nregs) /\ Fresh \in RunRecs(nregs)
        /\ Fresh.free = 0 .. nregs - 1
    BY <1>1, FreshIs
  <2>2. b = [runcur |-> None, runs |-> {}, curruns |-> 0, allocated |-> 0,
             run |-> [s \in S |-> Fresh]]
    BY <1>10 DEF Init
  <2>3. /\ b.runcur = None /\ b.runs = {} /\ \A s \in S : b.run[s] = Fresh
        /\ b \in BinRecs(S, nregs)
    BY <2>1, <2>2 DEF BinRecs
  <2>4. S \subseteq Nat
    BY DEF Slot
  <2>5. mapped[a] = {} /\ Between(a) = {}
    BY <1>2, <1>5
  <2> HIDE DEF b
  <2>6. BinOK(b, S, nregs, {}, {})
    BY <1>1, <2>1, <2>3, <2>4 DEF BinOK
  <2>7. OutOf(a, b) = {}
    <3>1. \A p \in Regions(a) : p[2] \in S /\ p[3] \in 0 .. nregs - 1
      BY DEF Regions
    <3> QED
      BY <2>1, <2>3, <3>1 DEF OutOf
  <2> QED
    BY <2>5, <2>6, <2>7 DEF b
<1>11. BinsOK
  BY <1>10 DEF BinsOK
<1>12. Covered
  BY <1>2, <1>8, <1>10 DEF Covered
<1>13. Stats
  <2> SUFFICES ASSUME NEW a \in Arenas PROVE StatsAt(a)
    BY DEF Stats
  <2>1. \A t \in Threads : Even(todo[t], tcache[t])
    BY <1>2, IdleEven
  <2>2. Bringing(a) = {} /\ Returning(a) = {} /\ Giving(a) = {} /\ Loose(a) = {}
    BY <2>1 DEF Even, Bringing, Returning, Giving, Loose, LooseAt, Brings, Returns, Gives
  <2>3. mapped[a] = {} /\ OutOf(a, bins[a]) = {}
    BY <1>2, <1>10
  <2>4. bins[a].curruns = 0 /\ bins[a].allocated = 0
    BY DEF Init
  <2> QED
    BY <2>2, <2>3, <2>4, FS_EmptySet DEF StatsAt
<1> QED
  BY <1>3, <1>5, <1>8, <1>9, <1>11, <1>12, <1>13 DEF Inv

LEMMA NextInv ==
    ASSUME Constants, Inv, [Next]_vars
    PROVE  Inv'
<1>1. CASE UNCHANGED vars
  <2>1. UNCHANGED <<nregs, room, arenaOf, bins, mapped, tcache, todo, app, lock>>
    BY <1>1 DEF vars
  <2>2. /\ \A a : Slot(a)' = Slot(a)
        /\ \A a : Between(a)' = Between(a)
        /\ \A t : Owns(t)' = Owns(t)
        /\ Region' = Region
    BY <2>1, Zenon DEF Slot, Between, Owns, Region
  <2>3. \A a, b : OutOf(a, b)' = OutOf(a, b)
    BY <2>1, <2>2, Zenon DEF OutOf, Regions
  <2>4. (Types /\ RunsApart)'
    BY <2>1, <2>2 DEF Inv, Types, RunsApart, RunAt
  <2>5. (Apart /\ Covered /\ BinsOK /\ Locals)'
    BY <2>1, <2>2, <2>3 DEF Inv, Apart, Covered, BinsOK, Locals
  <2>6. Stats'
    <3>1. ASSUME NEW a
          PROVE  /\ Bringing(a)' = Bringing(a) /\ Returning(a)' = Returning(a)
                 /\ Giving(a)' = Giving(a) /\ Loose(a)' = Loose(a)
      BY <2>1, Zenon DEF Bringing, Returning, Giving, Loose
    <3> QED
      BY <2>1, <2>3, <3>1, Zenon DEF Inv, Stats, StatsAt
  <2> QED
    BY <2>4, <2>5, <2>6 DEF Inv
<1>2. ASSUME NEW t \in Threads, Relock(t) PROVE Inv'
  BY <1>2, RelockOwn, RelockNone
<1>3. CASE Next
  BY <1>2, <1>3, MallocKeeps, GetKeeps, NewRunKeeps, FreeKeeps, DallocKeeps, DropRunKeeps,
     DroppedKeeps, PassKeeps, FlushOneKeeps, FlushedKeeps, EventKeeps, CreateKeeps,
     DestroyKeeps DEF Next
<1> QED
  BY <1>1, <1>3

\* Whoever gets the lock of a bin finds all its runs with room in runcur or in the
\* tree, there only runs with room, each once, and no run without regions in use.
LEMMA KnownFromInv ==
    ASSUME Constants, Inv
    PROVE  NonfullRunsKnown
<1> SUFFICES ASSUME NEW a \in Arenas
             PROVE  LET b == bins[a]
                        known == b.runs \cup ({b.runcur} \ {None})
                    IN  /\ known \subseteq mapped[a] \ Between(a)
                        /\ b.runcur \notin b.runs
                        /\ \A s \in b.runs : b.run[s].nfree > 0
                        /\ \A s \in mapped[a] \ Between(a) :
                             b.run[s].nfree > 0 => s \in known /\ b.run[s].nfree < nregs
  BY DEF NonfullRunsKnown
<1> DEFINE b == bins[a]
           S == Slot(a)
           M == mapped[a]
           B == Between(a)
<1>1. BinOK(b, S, nregs, M, B)
  BY DEF Inv, BinsOK
<1>2. nregs \in Nat \ {0} /\ b.runs \in SUBSET S /\ M \in SUBSET S /\ None \notin S
  BY <1>1, NoneIsNoNat DEF BinOK, BinRecs
<1>3. \A s \in S : /\ b.run[s].nfree > 0 <=> b.run[s].free # {}
                   /\ b.run[s].nfree = nregs <=> b.run[s].free = 0 .. nregs - 1
                   /\ b.run[s].nfree \in Nat /\ b.run[s].nfree <= nregs
  <2> SUFFICES ASSUME NEW s \in S
               PROVE  /\ b.run[s].nfree > 0 <=> b.run[s].free # {}
                      /\ b.run[s].nfree = nregs <=> b.run[s].free = 0 .. nregs - 1
                      /\ b.run[s].nfree \in Nat /\ b.run[s].nfree <= nregs
    OBVIOUS
  <2>1. RunOK(b.run[s], nregs)
    BY <1>1 DEF BinOK
  <2>2. /\ IsFiniteSet(b.run[s].free) /\ b.run[s].free \subseteq 0 .. nregs - 1
        /\ b.run[s].nfree = Cardinality(b.run[s].free)
    BY <1>2, <2>1, RunCounts DEF RunOK
  <2>3. Cardinality(b.run[s].free) <= Cardinality(0 .. nregs - 1)
        /\ Cardinality(0 .. nregs - 1) = nregs
    <3>1. IsFiniteSet(0 .. nregs - 1) /\ Cardinality(0 .. nregs - 1) = nregs
      BY <1>2, FS_Interval
    <3> QED
      BY <2>2, <3>1, FS_Subset
  <2> QED
    BY <1>2, <2>1, <2>2, <2>3, RunCounts
<1>4. /\ b.runs \cup ({b.runcur} \ {None}) \subseteq M \ B
      /\ b.runcur \notin b.runs
      /\ \A s \in b.runs : b.run[s].free # {}
      /\ \A s \in M \ B : b.run[s].free # {} =>
           s \in b.runs \cup {b.runcur} /\ b.run[s].free # 0 .. nregs - 1
  BY <1>1 DEF BinOK
<1> HIDE DEF b, S, M, B
<1>5. \A s \in b.runs : b.run[s].nfree > 0
  BY <1>2, <1>3, <1>4
<1>6. ASSUME NEW s \in M \ B, b.run[s].nfree > 0
      PROVE  s \in b.runs \cup ({b.runcur} \ {None}) /\ b.run[s].nfree < nregs
  <2>1. s \in S /\ s # None
    BY <1>2
  <2>2. s \in b.runs \cup {b.runcur} /\ b.run[s].free # 0 .. nregs - 1
    BY <1>3, <1>4, <1>6, <2>1
  <2> QED
    BY <1>2, <1>3, <2>1, <2>2
<1> QED
  BY <1>4, <1>5, <1>6 DEF b, M, B

\* Who holds region p, from what the program and each thread have.
LEMMA HoldersAre ==
    ASSUME Constants, Inv, NEW p \in Region
    PROVE  /\ p \notin app /\ (\A t \in Threads : p \notin Owns(t)) => Holders(p) = {}
           /\ p \in app => Holders(p) = {<<"program">>}
           /\ \A t \in Threads : p \in Owns(t) => \E h \in Holders(p) : Holders(p) = {h}
<1> DEFINE Hand(t) == {<<"hand", u>> : u \in {t} \cap {x \in Threads : InHand(x, p)}}
           Place(t) == {<<"cache", t, k>> : k \in InCache(t, p)}
           Mine(t) == Place(t) \cup Hand(t)
           Prog == {<<"program">> : q \in app \cap {p}}
<1>1. \A h : h \in Holders(p) <=> h \in Prog \/ \E t \in Threads : h \in Mine(t)
  <2> DEFINE H == {<<"hand", t>> : t \in {u \in Threads : InHand(u, p)}}
             U == UNION {Place(t) : t \in Threads}
  <2>1. Holders(p) = Prog \cup U \cup H
    BY Zenon DEF Holders
  <2>2. \A h : h \in H <=> \E t \in Threads : InHand(t, p) /\ h = <<"hand", t>>
    OBVIOUS
  <2>3. \A t \in Threads : \A h : h \in Hand(t) <=> InHand(t, p) /\ h = <<"hand", t>>
    OBVIOUS
  <2>4. \A t \in Threads : \A h : h \in Mine(t) <=> h \in Place(t) \/ h \in Hand(t)
    OBVIOUS
  <2>5. \A h : h \in U <=> \E t \in Threads : h \in Place(t)
    BY Zenon
  <2> HIDE DEF H, Hand, Place, Prog, Mine, U
  <2> QED
    BY <2>1, <2>2, <2>3, <2>4, <2>5
<1>2. ASSUME NEW t \in Threads
      PROVE  /\ p \in InHands(todo[t]) <=> InHand(t, p)
             /\ p \in InCaches(todo[t], tcache[t]) <=> InCache(t, p) # {}
             /\ \A j, k \in InCache(t, p) : j = k
             /\ ~(p \in InHands(todo[t]) /\ p \in InCaches(todo[t], tcache[t]))
  <2>1. LocalOK(todo[t], tcache[t], Region) /\ p # None
    BY AtBin DEF LocalOK
  <2>2. Places(t) = PlacesOf(todo[t], tcache[t])
    BY PlacesAre
  <2>3. p \in InHands(todo[t]) <=> InHand(t, p)
    BY <2>1 DEF InHands, InHand
  <2>4. p \in InCaches(todo[t], tcache[t]) <=> InCache(t, p) # {}
    BY <2>2 DEF InCaches, InCache
  <2>5. \A j, k \in InCache(t, p) : j = k
    BY <2>1, <2>2 DEF InCache, LocalOK, OnceEach
  <2>6. ~(p \in InHands(todo[t]) /\ p \in InCaches(todo[t], tcache[t]))
    BY <2>1 DEF LocalOK, OnceEach
  <2> QED
    BY <2>3, <2>4, <2>5, <2>6
<1>3. \A t \in Threads : p \notin Owns(t) => Mine(t) = {}
  <2> SUFFICES ASSUME NEW t \in Threads, p \notin Owns(t) PROVE Mine(t) = {}
    OBVIOUS
  <2>1. ~InHand(t, p) /\ InCache(t, p) = {}
    BY <1>2 DEF Owns, OwnsOf
  <2> QED
    BY <2>1
<1>4. ASSUME NEW t \in Threads, p \in Owns(t) PROVE \E h : Mine(t) = {h}
  <2>1. CASE p \in InHands(todo[t])
    <3>1. InHand(t, p) /\ InCache(t, p) = {}
      BY <1>2, <2>1
    <3>2. Mine(t) = {<<"hand", t>>}
      BY <3>1
    <3> QED
      BY <3>2
  <2>2. CASE p \in InCaches(todo[t], tcache[t])
    <3>1. ~InHand(t, p) /\ InCache(t, p) # {}
      BY <1>2, <2>2
    <3>2. PICK k : InCache(t, p) = {k}
      BY <1>2, <3>1
    <3>3. Mine(t) = {<<"cache", t, k>>}
      BY <3>1, <3>2
    <3> QED
      BY <3>3
  <2> QED
    BY <1>4, <2>1, <2>2 DEF Owns, OwnsOf
<1> HIDE DEF Mine
<1>5. p \notin app => Prog = {}
  OBVIOUS
<1>6. p \in app => Prog = {<<"program">>}
  OBVIOUS
<1> HIDE DEF Prog
<1>7. p \notin app /\ (\A t \in Threads : p \notin Owns(t)) => Holders(p) = {}
  BY <1>1, <1>3, <1>5
<1>8. p \in app => Holders(p) = {<<"program">>}
  <2>1. p \in app => \A t \in Threads : p \notin Owns(t)
    BY DEF Inv, Apart
  <2> QED
    BY <1>1, <1>3, <1>6, <2>1
<1>9. ASSUME NEW t \in Threads, p \in Owns(t)
      PROVE  \E h \in Holders(p) : Holders(p) = {h}
  <2>1. p \notin app /\ \A u \in Threads \ {t} : p \notin Owns(u)
    BY <1>9 DEF Inv, Apart
  <2>2. PICK h : Mine(t) = {h}
    BY <1>4, <1>9
  <2>3. Holders(p) = {h}
    BY <1>1, <1>3, <1>5, <2>1, <2>2
  <2> QED
    BY <2>3
<1> QED
  BY <1>7, <1>8, <1>9

LEMMA PartitionFromInv ==
    ASSUME Constants, Inv
    PROVE  RegionsPartitioned
<1>1. ASSUME NEW p \in Region
      PROVE  LET r == bins[p[1]].run[p[2]]
             IN  \/ p[3] \in r.free /\ Holders(p) = {}
                 \/ /\ p[3] \notin r.free
                    /\ \E h \in Holders(p) : Holders(p) = {h}
                    /\ p[3] < r.nextind
                    /\ p[2] \in mapped[p[1]]
  <2> DEFINE a == p[1]
             s == p[2]
             i == p[3]
             b == bins[a]
             Out == UNION {OutOf(x, bins[x]) : x \in Arenas}
  <2>1. a \in Arenas /\ p \in Regions(a) /\ s \in Slot(a) /\ i \in 0 .. nregs - 1
    BY RegionIs DEF Inv
  <2>2. BinOK(b, Slot(a), nregs, mapped[a], Between(a))
    BY <2>1 DEF Inv, BinsOK
  <2>3. p \in Out <=> i \notin b.run[s].free
    <3>1. \A x \in Arenas : p \in OutOf(x, bins[x]) => x = a
      BY <2>1, RegionIs DEF OutOf, Inv
    <3>2. p \in Out <=> p \in OutOf(a, bins[a])
      BY <2>1, <3>1
    <3> QED
      BY <2>1, <3>2 DEF OutOf
  <2>4. p \in Out <=> p \in app \/ \E t \in Threads : p \in Owns(t)
    BY DEF Inv, Covered
  <2> HIDE DEF Out
  <2>5. CASE i \in b.run[s].free
    <3>1. Holders(p) = {}
      BY <2>3, <2>4, <2>5, HoldersAre
    <3> QED
      BY <2>5, <3>1
  <2>6. CASE i \notin b.run[s].free
    <3>1. \E h \in Holders(p) : Holders(p) = {h}
      <4>1. CASE p \in app
        BY <4>1, HoldersAre
      <4>2. CASE \E t \in Threads : p \in Owns(t)
        BY <4>2, HoldersAre
      <4> QED
        BY <2>3, <2>4, <2>6, <4>1, <4>2
    <3>2. i < b.run[s].nextind
      BY <2>1, <2>2, <2>6 DEF BinOK, RunOK
    <3>3. s \in mapped[a]
      BY <2>1, <2>2, <2>6 DEF BinOK
    <3> QED
      BY <2>6, <3>1, <3>2, <3>3
  <2> QED
    BY <2>5, <2>6
<1>2. ASSUME NEW a \in Arenas, NEW s \in Slot(a)
      PROVE  bins[a].run[s].nfree = Cardinality(bins[a].run[s].free)
  BY <1>2, RunTypes DEF Inv, BinsOK, RunOK
<1> QED
  BY <1>1, <1>2, Zenon DEF RegionsPartitioned, ArenaOf, RunOf

\* A bin that no thread works in is owed nothing.
LEMMA StatsFromInv ==
    ASSUME Constants, Inv
    PROVE  StatsExact
<1> SUFFICES ASSUME NEW a \in Arenas, \A t \in Threads : todo[t].arena # a
             PROVE  /\ bins[a].curruns = Cardinality(mapped[a])
                    /\ bins[a].allocated =
                         Cardinality({p \in Region :
                             ArenaOf(p) = a /\ p[3] \notin bins[a].run[RunOf(p)].free})
  BY DEF StatsExact
<1>1. Bringing(a) = {} /\ Returning(a) = {} /\ Giving(a) = {} /\ Loose(a) = {}
  BY DEF Bringing, Returning, Giving, Loose, LooseAt, Brings, Returns, Gives
<1>2. /\ bins[a].curruns \in Int /\ bins[a].allocated \in Int
      /\ Cardinality(mapped[a]) \in Nat /\ Cardinality(OutOf(a, bins[a])) \in Nat
  BY BinCounts DEF Inv, BinsOK
<1>3. {p \in Region : ArenaOf(p) = a /\ p[3] \notin bins[a].run[RunOf(p)].free}
        = OutOf(a, bins[a])
  BY RegionIs DEF Inv, OutOf, ArenaOf, RunOf
<1>4. /\ bins[a].curruns + Cardinality({}) = Cardinality(mapped[a]) + Cardinality({})
      /\ bins[a].allocated + Cardinality({}) = Cardinality(OutOf(a, bins[a])) + Cardinality({})
  BY <1>1 DEF Inv, Stats, StatsAt
<1>5. Cardinality({}) = 0
  BY FS_EmptySet
<1>6. bins[a].curruns = Cardinality(mapped[a])
      /\ bins[a].allocated = Cardinality(OutOf(a, bins[a]))
  BY <1>2, <1>4, <1>5
<1> QED
  BY <1>3, <1>6

LEMMA Invariance == ASSUME Constants PROVE Spec => []Inv
<1>1. Init => Inv
  BY InitInv
<1>2. Inv /\ [Next]_vars => Inv'
  BY NextInv
<1> QED
  BY <1>1, <1>2, PTL DEF Spec

\* Every region of every run is in exactly one place at any time: free in its run,
\* in one place of one cache, in the hands of one thread or with the program,
\* whatever the threads do while a bin's lock is dropped in the middle of a fill,
\* an allocation or a flush.  A run goes back to the arena with nothing outside.
THEOREM Partition == ASSUME Constants PROVE Spec => []RegionsPartitioned
<1>1. Inv => RegionsPartitioned
  BY PartitionFromInv
<1> QED
  BY <1>1, Invariance, PTL

\* Whoever gets the lock of a bin finds every run with room in runcur or in the
\* tree, each once, no full run in the tree, and none of them with nothing in use.
THEOREM RunsKnown == ASSUME Constants PROVE Spec => []NonfullRunsKnown
<1>1. Inv => NonfullRunsKnown
  BY KnownFromInv
<1> QED
  BY <1>1, Invariance, PTL

\* Whenever no operation is under way in an arena, its bin counts exactly the runs
\* it has and the regions that are outside them.  A fill and an allocation count
\* their regions at the end, a free subtracts after the lock was dropped and taken
\* again, and a run bought meanwhile by another thread is given back: what is owed
\* is always settled by the thread that owes it.
THEOREM Statistics == ASSUME Constants PROVE Spec => []StatsExact
<1>1. Inv => StatsExact
  BY StatsFromInv
<1> QED
  BY <1>1, Invariance, PTL
=============================================================================
