----------------------------- MODULE LocksProofs -----------------------------
(***************************************************************************)
(* LockOrder, ChildLocksCovered and, from the first, NoWaitCycle for any   *)
(* numbers of threads and pools.                                           *)
(*                                                                         *)
(* The order is a property of the traces alone: in every section a lock is *)
(* let go of again, and until then only locks of higher rank are taken.    *)
(* Under, Then and the union of traces keep to that, so that it is shown   *)
(* of each function of the allocator from the functions it calls.  While a *)
(* thread runs, every lock it holds is one that its remaining steps let go *)
(* of in that way.                                                         *)
(***************************************************************************)
EXTENDS Locks, SequenceTheorems, NaturalsInduction, WellFoundedInduction, TLAPS

-----------------------------------------------------------------------------
\* What a trace keeps to.

Steps == [op : {"lock", "unlock", "fork"}, mtx : Mutexes]

\* After step j of tr, lock l is let go of, and until then only locks that rank
\* above it are taken.
Closed(tr, l, j) ==
    \E k \in j + 1 .. Len(tr) :
        /\ tr[k].op = "unlock" /\ tr[k].mtx = l
        /\ \A i \in j + 1 .. k - 1 : tr[i].op = "lock" => Rank(l) < Rank(tr[i].mtx)

Paired(tr) == \A j \in 1 .. Len(tr) : tr[j].op = "lock" => Closed(tr, tr[j].mtx, j)

Above(tr, r) == \A i \in 1 .. Len(tr) : tr[i].op = "lock" => r < Rank(tr[i].mtx)

\* The traces of a function, none of which takes a lock of rank r or less.
Sound(traces, r) ==
    \A tr \in traces : tr \in Seq(Steps) /\ Paired(tr) /\ Above(tr, r)

-----------------------------------------------------------------------------
\* The ranks.

LEMMA PoolZero == 0 \in Pools
BY LocksAssumption DEF Pools

LEMMA RankOf ==
    ASSUME NEW p \in Pools
    PROVE  /\ Rank(<<"ctl", p>>) = 1
           /\ Rank(<<"pools", p>>) = 2
           /\ Rank(<<"pool_base", p>>) = 3
           /\ Rank(<<"memory_range", p>>) = 4 + p
           /\ Rank(<<"arenas", p>>) = 4 + NPools + 3 * p
           /\ Rank(<<"arena", p>>) = 5 + NPools + 3 * p
           /\ Rank(<<"bin", p>>) = 6 + NPools + 3 * p
           /\ Rank(<<"rtree", p>>) = 4 + 4 * NPools + p
           /\ Rank(<<"base", p>>) = 5 + 5 * NPools + p
           /\ p = 0 => Rank(<<"base_node", p>>) = 4 + 5 * NPools
           /\ p # 0 => Rank(<<"base_node", p>>) = 5 + 6 * NPools + p
           /\ Rank(<<"chunks", p>>) = 5 + 7 * NPools + p
           /\ Rank(<<"dss", p>>) = 5 + 8 * NPools
           /\ Rank(<<"huge", p>>) = 6 + 8 * NPools + p
BY DEF Rank

LEMMA MutexIs ==
    ASSUME NEW p \in Pools
    PROVE  /\ <<"ctl", 0>> \in Mutexes /\ <<"pools", 0>> \in Mutexes
           /\ <<"pool_base", 0>> \in Mutexes /\ <<"dss", 0>> \in Mutexes
           /\ <<"memory_range", p>> \in Mutexes /\ <<"arenas", p>> \in Mutexes
           /\ <<"arena", p>> \in Mutexes /\ <<"bin", p>> \in Mutexes
           /\ <<"rtree", p>> \in Mutexes /\ <<"base", p>> \in Mutexes
           /\ <<"base_node", p>> \in Mutexes /\ <<"chunks", p>> \in Mutexes
           /\ <<"huge", p>> \in Mutexes
BY DEF Mutexes, GlobalNames, PoolNames

LEMMA RankType ==
    ASSUME NEW l \in Mutexes
    PROVE  Rank(l) \in 1 .. 6 + 9 * NPools
<1>1. ASSUME NEW n, NEW p \in Pools, l = <<n, p>>, n \in GlobalNames \cup PoolNames
      PROVE  Rank(l) \in 1 .. 6 + 9 * NPools
  <2>0. p \in 0 .. NPools - 1 /\ NPools \in Nat
    BY <1>1, LocksAssumption DEF Pools
  <2>1. \/ Rank(l) = 1 \/ Rank(l) = 2 \/ Rank(l) = 3
        \/ Rank(l) = 4 + p
        \/ Rank(l) = 4 + NPools + 3 * p
        \/ Rank(l) = 5 + NPools + 3 * p
        \/ Rank(l) = 6 + NPools + 3 * p
        \/ Rank(l) = 4 + 4 * NPools + p
        \/ Rank(l) = 5 + 5 * NPools + p
        \/ Rank(l) = 4 + 5 * NPools
        \/ Rank(l) = 5 + 6 * NPools + p
        \/ Rank(l) = 5 + 7 * NPools + p
        \/ Rank(l) = 5 + 8 * NPools
        \/ Rank(l) = 6 + 8 * NPools + p
    BY <1>1, RankOf, ZenonT(60) DEF GlobalNames, PoolNames
  <2> QED
    BY <2>0, <2>1
<1>2. PICK n \in GlobalNames \cup PoolNames, p \in Pools : l = <<n, p>>
  BY PoolZero DEF Mutexes
<1> QED
  BY <1>1, <1>2

-----------------------------------------------------------------------------
\* Putting traces together.

LEMMA SoundNothing ==
    ASSUME NEW r \in Nat
    PROVE  Sound(Nothing, r)
BY DEF Sound, Nothing, Paired, Above

LEMMA SoundUnion ==
    ASSUME NEW r, NEW A, NEW B, Sound(A, r), Sound(B, r)
    PROVE  Sound(A \cup B, r)
BY DEF Sound

LEMMA SoundAbove ==
    ASSUME NEW r \in Nat, NEW q \in Nat, q <= r, NEW A, Sound(A, r)
    PROVE  Sound(A, q)
<1> SUFFICES ASSUME NEW tr \in A, NEW i \in 1 .. Len(tr), tr[i].op = "lock"
             PROVE  q < Rank(tr[i].mtx)
  BY DEF Sound, Above
<1>1. tr \in Seq(Steps) /\ r < Rank(tr[i].mtx)
  BY DEF Sound, Above
<1>2. tr[i] \in Steps
  BY <1>1, ElementOfSeq
<1>3. tr[i].mtx \in Mutexes
  BY <1>2 DEF Steps
<1> QED
  BY <1>1, <1>3, RankType, LocksAssumption

LEMMA ConcatSteps ==
    ASSUME NEW s \in Seq(Steps), NEW u \in Seq(Steps)
    PROVE  /\ s \o u \in Seq(Steps)
           /\ Len(s) \in Nat /\ Len(u) \in Nat
           /\ Len(s \o u) = Len(s) + Len(u)
           /\ \A i \in 1 .. Len(s) : (s \o u)[i] = s[i]
           /\ \A i \in 1 .. Len(u) : (s \o u)[Len(s) + i] = u[i]
BY ConcatProperties

LEMMA SoundThen ==
    ASSUME NEW r \in Nat, NEW A, NEW B, Sound(A, r), Sound(B, r)
    PROVE  Sound(Then(A, B), r)
<1> SUFFICES ASSUME NEW tr \in Then(A, B)
             PROVE  tr \in Seq(Steps) /\ Paired(tr) /\ Above(tr, r)
  BY DEF Sound
<1>a. PICK s \in A, u \in B : tr = s \o u
  BY DEF Then
<1>0. s \in Seq(Steps) /\ u \in Seq(Steps)
  BY DEF Sound
<1>1. /\ tr \in Seq(Steps) /\ Len(s) \in Nat /\ Len(u) \in Nat
      /\ Len(tr) = Len(s) + Len(u)
      /\ \A i \in 1 .. Len(s) : tr[i] = s[i]
      /\ \A i \in 1 .. Len(u) : tr[Len(s) + i] = u[i]
  BY <1>0, <1>a, ConcatSteps
<1>2. \A i \in 1 .. Len(tr) : \/ i \in 1 .. Len(s) /\ tr[i] = s[i]
                              \/ /\ i - Len(s) \in 1 .. Len(u)
                                 /\ i = Len(s) + (i - Len(s))
                                 /\ tr[i] = u[i - Len(s)]
  <2> SUFFICES ASSUME NEW i \in 1 .. Len(tr), i \notin 1 .. Len(s)
               PROVE  /\ i - Len(s) \in 1 .. Len(u)
                      /\ i = Len(s) + (i - Len(s))
                      /\ tr[i] = u[i - Len(s)]
    BY <1>1
  <2>1. i - Len(s) \in 1 .. Len(u) /\ i = Len(s) + (i - Len(s))
    BY <1>1
  <2>2. tr[Len(s) + (i - Len(s))] = u[i - Len(s)]
    BY <1>1, <2>1
  <2> QED
    BY <2>1, <2>2
<1>3. Above(tr, r)
  BY <1>2 DEF Above, Sound
<1>4. ASSUME NEW j \in 1 .. Len(tr), tr[j].op = "lock"
      PROVE  Closed(tr, tr[j].mtx, j)
  <2>1. CASE j \in 1 .. Len(s) /\ tr[j] = s[j]
    <3>1. PICK k \in j + 1 .. Len(s) :
            /\ s[k].op = "unlock" /\ s[k].mtx = s[j].mtx
            /\ \A i \in j + 1 .. k - 1 : s[i].op = "lock" => Rank(s[j].mtx) < Rank(s[i].mtx)
      BY <1>4, <2>1 DEF Sound, Paired, Closed
    <3>2. k \in j + 1 .. Len(tr) /\ tr[k] = s[k]
      BY <1>1, <2>1, <3>1
    <3>3. \A i \in j + 1 .. k - 1 : tr[i] = s[i]
      BY <1>1, <2>1, <3>1
    <3> QED
      BY <2>1, <3>1, <3>2, <3>3 DEF Closed
  <2>2. CASE j - Len(s) \in 1 .. Len(u) /\ tr[j] = u[j - Len(s)]
    <3> DEFINE n == Len(s)
               d == j - n
    <3>0. n \in Nat /\ d \in 1 .. Len(u) /\ j = n + d /\ tr[j] = u[d] /\ Len(tr) = n + Len(u)
      BY <1>1, <2>2
    <3>00. \A i \in 1 .. Len(u) : tr[n + i] = u[i]
      BY <1>1
    <3> HIDE DEF n, d
    <3>1. PICK k \in d + 1 .. Len(u) :
            /\ u[k].op = "unlock" /\ u[k].mtx = u[d].mtx
            /\ \A i \in d + 1 .. k - 1 : u[i].op = "lock" => Rank(u[d].mtx) < Rank(u[i].mtx)
      BY <1>4, <3>0 DEF Sound, Paired, Closed
    <3>2. n + k \in j + 1 .. Len(tr) /\ tr[n + k] = u[k]
      <4>1. k \in 1 .. Len(u) /\ n + k \in j + 1 .. Len(tr)
        BY <1>1, <3>0, <3>1
      <4> QED
        BY <3>00, <4>1
    <3>3. ASSUME NEW i \in j + 1 .. (n + k) - 1
          PROVE  i - n \in d + 1 .. k - 1 /\ tr[i] = u[i - n]
      <4>1. i - n \in d + 1 .. k - 1 /\ i - n \in 1 .. Len(u) /\ n + (i - n) = i
        BY <1>1, <3>0, <3>1
      <4>2. tr[n + (i - n)] = u[i - n]
        BY <3>00, <4>1
      <4> QED
        BY <4>1, <4>2
    <3> QED
      BY <3>0, <3>1, <3>2, <3>3 DEF Closed
  <2> QED
    BY <1>2, <2>1, <2>2
<1> QED
  BY <1>1, <1>3, <1>4 DEF Paired

\* tr is b between locking l and unlocking it.
Wraps(tr, l, b) ==
    /\ tr \in Seq(Steps)
    /\ Len(b) \in Nat /\ Len(tr) = Len(b) + 2
    /\ tr[1] = [op |-> "lock", mtx |-> l]
    /\ \A i \in 2 .. Len(b) + 1 : tr[i] = b[i - 1]
    /\ tr[Len(b) + 2] = [op |-> "unlock", mtx |-> l]

LEMMA UnderSteps ==
    ASSUME NEW l \in Mutexes, NEW b \in Seq(Steps)
    PROVE  Wraps(Step("lock", l) \o b \o Step("unlock", l), l, b)
<1> DEFINE f == Step("lock", l)
           e == Step("unlock", l)
<1>1. /\ f \in Seq(Steps) /\ Len(f) = 1 /\ f[1] = [op |-> "lock", mtx |-> l]
      /\ e \in Seq(Steps) /\ Len(e) = 1 /\ e[1] = [op |-> "unlock", mtx |-> l]
  BY DEF Step, Steps
<1> HIDE DEF f, e
<1> DEFINE fb == f \o b
<1>2. /\ fb \in Seq(Steps) /\ Len(b) \in Nat /\ Len(fb) = 1 + Len(b)
      /\ fb[1] = f[1]
      /\ \A i \in 1 .. Len(b) : fb[1 + i] = b[i]
  <2>1. /\ fb \in Seq(Steps) /\ Len(b) \in Nat /\ Len(fb) = Len(f) + Len(b)
        /\ \A i \in 1 .. Len(f) : fb[i] = f[i]
        /\ \A i \in 1 .. Len(b) : fb[Len(f) + i] = b[i]
    BY <1>1, ConcatSteps, Zenon
  <2> HIDE DEF fb
  <2> QED
    BY <1>1, <2>1
<1> HIDE DEF fb
<1> DEFINE tr == fb \o e
<1>4. /\ tr \in Seq(Steps) /\ Len(tr) = Len(fb) + 1
      /\ \A i \in 1 .. Len(fb) : tr[i] = fb[i]
      /\ tr[Len(fb) + 1] = e[1]
  <2>1. /\ tr \in Seq(Steps) /\ Len(tr) = Len(fb) + Len(e)
        /\ \A i \in 1 .. Len(fb) : tr[i] = fb[i]
        /\ \A i \in 1 .. Len(e) : tr[Len(fb) + i] = e[i]
    BY <1>1, <1>2, ConcatSteps, Zenon
  <2>2. 1 \in 1 .. Len(e)
    BY <1>1
  <2> HIDE DEF tr
  <2> QED
    BY <1>1, <2>1, <2>2
<1> HIDE DEF tr
<1>5. ASSUME NEW i \in 2 .. Len(b) + 1
      PROVE  tr[i] = b[i - 1]
  <2>1. i - 1 \in 1 .. Len(b) /\ 1 + (i - 1) = i /\ i \in 1 .. Len(fb)
    BY <1>2
  <2>2. fb[1 + (i - 1)] = b[i - 1]
    BY <1>2, <2>1
  <2> QED
    BY <1>4, <2>1, <2>2
<1>6. Len(fb) + 1 = Len(b) + 2 /\ 1 \in 1 .. Len(fb)
  BY <1>2
<1> QED
  <2> HIDE DEF tr
  <2>1. Wraps(tr, l, b)
    BY <1>1, <1>2, <1>4, <1>5, <1>6 DEF Wraps
  <2> QED
    BY <2>1 DEF tr, fb, f, e

LEMMA SoundUnder ==
    ASSUME NEW r \in Nat, NEW l \in Mutexes, r < Rank(l), NEW B, Sound(B, Rank(l))
    PROVE  Sound(Under(l, B), r)
<1> SUFFICES ASSUME NEW tr \in Under(l, B)
             PROVE  tr \in Seq(Steps) /\ Paired(tr) /\ Above(tr, r)
  BY DEF Sound
<1>1. PICK b \in B : tr = Step("lock", l) \o b \o Step("unlock", l)
  BY DEF Under
<1>2. b \in Seq(Steps) /\ Paired(b) /\ Above(b, Rank(l))
  BY DEF Sound
<1>3. /\ tr \in Seq(Steps)
      /\ Len(b) \in Nat /\ Len(tr) = Len(b) + 2
      /\ tr[1] = [op |-> "lock", mtx |-> l]
      /\ \A i \in 2 .. Len(b) + 1 : tr[i] = b[i - 1]
      /\ tr[Len(b) + 2] = [op |-> "unlock", mtx |-> l]
  <2>1. Wraps(tr, l, b)
    BY <1>1, <1>2, UnderSteps
  <2> QED
    BY <2>1 DEF Wraps
<1>4. \A i \in 2 .. Len(b) + 1 : tr[i].op = "lock" => Rank(l) < Rank(tr[i].mtx)
  <2> SUFFICES ASSUME NEW i \in 2 .. Len(b) + 1, tr[i].op = "lock"
               PROVE  Rank(l) < Rank(tr[i].mtx)
    OBVIOUS
  <2>1. i - 1 \in 1 .. Len(b) /\ tr[i] = b[i - 1]
    BY <1>3
  <2> QED
    BY <1>2, <2>1 DEF Above
<1>5. Above(tr, r)
  <2> SUFFICES ASSUME NEW i \in 1 .. Len(tr), tr[i].op = "lock"
               PROVE  r < Rank(tr[i].mtx)
    BY DEF Above
  <2>1. CASE i = 1
    BY <1>3, <2>1
  <2>2. CASE i \in 2 .. Len(b) + 1
    <3>1. tr[i] \in Steps
      BY <1>3, ElementOfSeq
    <3>2. tr[i].mtx \in Mutexes
      BY <3>1 DEF Steps
    <3>3. Rank(l) < Rank(tr[i].mtx) /\ Rank(l) \in Nat /\ Rank(tr[i].mtx) \in Nat
      BY <1>4, <2>2, <3>2, RankType, LocksAssumption
    <3> QED
      BY <3>3
  <2>3. CASE i = Len(b) + 2
    BY <1>3, <2>3
  <2> QED
    BY <1>3, <2>1, <2>2, <2>3
<1>6. ASSUME NEW j \in 1 .. Len(tr), tr[j].op = "lock"
      PROVE  Closed(tr, tr[j].mtx, j)
  <2>1. CASE j = 1
    <3> DEFINE k == Len(b) + 2
    <3>1. k \in j + 1 .. Len(tr) /\ \A i \in j + 1 .. k - 1 : i \in 2 .. Len(b) + 1
      BY <1>3, <2>1
    <3>2. tr[k].op = "unlock" /\ tr[k].mtx = l /\ tr[j].mtx = l
      BY <1>3, <2>1
    <3> HIDE DEF k
    <3> QED
      BY <1>4, <3>1, <3>2 DEF Closed
  <2>2. CASE j \in 2 .. Len(b) + 1
    <3>1. j - 1 \in 1 .. Len(b) /\ tr[j] = b[j - 1]
      BY <1>3, <2>2
    <3>2. PICK k \in (j - 1) + 1 .. Len(b) :
            /\ b[k].op = "unlock" /\ b[k].mtx = tr[j].mtx
            /\ \A i \in (j - 1) + 1 .. k - 1 :
                 b[i].op = "lock" => Rank(tr[j].mtx) < Rank(b[i].mtx)
      BY <1>2, <1>6, <3>1 DEF Paired, Closed
    <3>3. k + 1 \in j + 1 .. Len(tr) /\ k + 1 \in 2 .. Len(b) + 1 /\ (k + 1) - 1 = k
      BY <1>3, <2>2, <3>2
    <3>4. tr[k + 1] = b[k]
      BY <1>3, <3>3
    <3>5. ASSUME NEW i \in j + 1 .. (k + 1) - 1
          PROVE  i - 1 \in (j - 1) + 1 .. k - 1 /\ tr[i] = b[i - 1]
      BY <1>3, <2>2, <3>2
    <3> QED
      BY <3>2, <3>3, <3>4, <3>5 DEF Closed
  <2>3. CASE j = Len(b) + 2
    BY <1>3, <1>6, <2>3
  <2> QED
    BY <1>3, <2>1, <2>2, <2>3
<1> QED
  BY <1>3, <1>5, <1>6 DEF Paired

LEMMA SoundOnly ==
    ASSUME NEW r \in Nat, NEW l \in Mutexes, r < Rank(l)
    PROVE  Sound(Only(l), r)
<1>1. Rank(l) \in Nat
  BY RankType, LocksAssumption
<1>2. Sound(Nothing, Rank(l))
  BY <1>1, SoundNothing
<1> QED
  BY <1>2, SoundUnder DEF Only

LEMMA SoundAll ==
    ASSUME NEW r, NEW AA, \A A \in AA : Sound(A, r)
    PROVE  Sound(UNION AA, r)
BY DEF Sound

-----------------------------------------------------------------------------
\* The functions of the allocator, from the bottom up.

LEMMA Numbers ==
    ASSUME NEW p \in Pools
    PROVE  NPools \in Nat \ {0} /\ p \in 0 .. NPools - 1
BY LocksAssumption DEF Pools

\* A lock of a pool or of the process, alone: it ranks above pools_lock.
LEMMA OnlyOf ==
    ASSUME NEW p \in Pools
    PROVE  /\ Sound(Only(<<"memory_range", p>>), 2) /\ Sound(Only(<<"arenas", p>>), 2)
           /\ Sound(Only(<<"arena", p>>), 2) /\ Sound(Only(<<"bin", p>>), 2)
           /\ Sound(Only(<<"base_node", p>>), 2) /\ Sound(Only(<<"chunks", p>>), 2)
           /\ Sound(Only(<<"huge", p>>), 2) /\ Sound(Only(<<"dss", 0>>), 2)
<1>0. NPools \in Nat \ {0} /\ p \in 0 .. NPools - 1 /\ 2 \in Nat
  BY Numbers
<1>1. Rank(<<"memory_range", p>>) = 4 + p /\ Rank(<<"arenas", p>>) = 4 + NPools + 3 * p
  BY RankOf
<1>2. Rank(<<"arena", p>>) = 5 + NPools + 3 * p /\ Rank(<<"bin", p>>) = 6 + NPools + 3 * p
  BY RankOf
<1>3. \/ Rank(<<"base_node", p>>) = 4 + 5 * NPools
      \/ Rank(<<"base_node", p>>) = 5 + 6 * NPools + p
  BY RankOf
<1>4. Rank(<<"chunks", p>>) = 5 + 7 * NPools + p /\ Rank(<<"huge", p>>) = 6 + 8 * NPools + p
  BY RankOf
<1>5. Rank(<<"dss", 0>>) = 5 + 8 * NPools
  BY RankOf, PoolZero
<1>6. /\ 2 < Rank(<<"memory_range", p>>) /\ 2 < Rank(<<"arenas", p>>)
      /\ 2 < Rank(<<"arena", p>>) /\ 2 < Rank(<<"bin", p>>)
      /\ 2 < Rank(<<"base_node", p>>) /\ 2 < Rank(<<"chunks", p>>)
      /\ 2 < Rank(<<"huge", p>>) /\ 2 < Rank(<<"dss", 0>>)
  BY <1>0, <1>1, <1>2, <1>3, <1>4, <1>5
<1> QED
  BY <1>0, <1>6, MutexIs, SoundOnly

LEMMA ChunkAllocBase0 == Sound(chunk_alloc_base0, 5 + 5 * NPools)
<1> DEFINE r == 5 + 5 * NPools
<1>1. Rank(<<"dss", 0>>) = 5 + 8 * NPools /\ Rank(<<"chunks", 0>>) = 5 + 7 * NPools + 0
  BY RankOf, PoolZero
<1>2. r \in Nat /\ r < Rank(<<"dss", 0>>) /\ r < Rank(<<"chunks", 0>>)
  BY <1>1, LocksAssumption
<1> HIDE DEF r
<1>3. Sound(Only(<<"dss", 0>>), r) /\ Sound(Only(<<"chunks", 0>>), r) /\ Sound(Nothing, r)
  BY <1>2, SoundOnly, SoundNothing, MutexIs, PoolZero
<1>4. Sound(Nothing \cup Only(<<"dss", 0>>) \cup Only(<<"chunks", 0>>), r)
  BY <1>3, SoundUnion
<1>5. Sound(chunk_alloc_base0, r)
  BY <1>2, <1>3, <1>4, SoundThen DEF chunk_alloc_base0
<1> QED
  BY <1>5 DEF r

LEMMA BaseNodeDalloc ==
    ASSUME NEW p \in Pools
    PROVE  Sound(base_node_dalloc(p), 2)
BY OnlyOf DEF base_node_dalloc

\* Inside base_mtx: chunks and nodes of the base allocator of the same pool.
LEMMA ChunkAllocBase ==
    ASSUME NEW p \in Pools
    PROVE  Sound(chunk_alloc_base(p), Rank(<<"base", p>>))
<1> DEFINE r == Rank(<<"base", p>>)
<1>0. NPools \in Nat \ {0} /\ p \in 0 .. NPools - 1
  BY Numbers
<1>1. r = 5 + 5 * NPools + p
  BY RankOf
<1> HIDE DEF r
<1>2. CASE p = 0
  <2>1. r = 5 + 5 * NPools
    BY <1>0, <1>1, <1>2
  <2> QED
    BY <1>2, <2>1, ChunkAllocBase0 DEF chunk_alloc_base, r
<1>3. CASE p # 0
  <2>1. Rank(<<"chunks", p>>) = 5 + 7 * NPools + p /\ Rank(<<"base_node", p>>) = 5 + 6 * NPools + p
    BY <1>3, RankOf
  <2>2. r \in Nat /\ r < Rank(<<"chunks", p>>) /\ r < Rank(<<"base_node", p>>)
    BY <1>0, <1>1, <2>1
  <2>3. /\ Sound(Only(<<"chunks", p>>), r) /\ Sound(base_node_dalloc(p), r)
        /\ Sound(Nothing, r)
    BY <2>2, SoundOnly, SoundNothing, MutexIs DEF base_node_dalloc
  <2>4. Sound(Then(base_node_dalloc(p), Only(<<"chunks", p>>)), r)
    BY <2>2, <2>3, SoundThen
  <2>5. Sound(Nothing \cup base_node_dalloc(p)
                \cup Then(base_node_dalloc(p), Only(<<"chunks", p>>)), r)
    BY <2>3, <2>4, SoundUnion
  <2>6. Sound(chunk_alloc_base(p), r)
    BY <1>3, <2>2, <2>3, <2>5, SoundThen DEF chunk_alloc_base
  <2> QED
    BY <2>6 DEF r
<1> QED
  BY <1>2, <1>3

LEMMA BaseAlloc ==
    ASSUME NEW p \in Pools
    PROVE  Sound(base_alloc(p), 4 + 5 * NPools)
<1> DEFINE q == 4 + 5 * NPools
           r == Rank(<<"base", p>>)
<1>0. NPools \in Nat \ {0} /\ p \in 0 .. NPools - 1
  BY Numbers
<1>1. r = 5 + 5 * NPools + p
  BY RankOf
<1>2. q \in Nat /\ r \in Nat /\ q < r
  BY <1>0, <1>1
<1>3. Sound(Nothing \cup chunk_alloc_base(p), r)
  BY <1>2, SoundNothing, SoundUnion, ChunkAllocBase
<1> HIDE DEF q
<1>4. Sound(base_alloc(p), q)
  BY <1>2, <1>3, SoundUnder, MutexIs DEF base_alloc
<1> QED
  BY <1>4 DEF q

LEMMA BaseAlloc0 == Sound(base_alloc0, 4 + 5 * NPools)
<1>1. base_alloc0 = base_alloc(0)
  BY DEF base_alloc0, base_alloc, chunk_alloc_base
<1> QED
  BY <1>1, BaseAlloc, PoolZero

\* Both, where the caller holds no more than pools_lock or arenas_lock.
LEMMA BaseAllocLow ==
    ASSUME NEW p \in Pools, NEW r \in Nat, r <= 4 + 5 * NPools
    PROVE  Sound(base_alloc(p), r) /\ Sound(base_alloc0, r)
<1>1. 4 + 5 * NPools \in Nat
  BY LocksAssumption
<1> QED
  BY <1>1, BaseAlloc, BaseAlloc0, SoundAbove

LEMMA BaseNodeAlloc ==
    ASSUME NEW p \in Pools
    PROVE  Sound(base_node_alloc(p), 2)
<1>1. CASE p # 0
  <2>1. base_node_alloc(p) = Only(<<"base_node", p>>)
    BY <1>1 DEF base_node_alloc, Only
  <2> QED
    BY <2>1, OnlyOf
<1>2. CASE p = 0
  <2> DEFINE r == Rank(<<"base_node", p>>)
  <2>1. r = 4 + 5 * NPools
    BY <1>2, RankOf
  <2>2. r \in Nat /\ 2 < r /\ 2 \in Nat
    BY <2>1, LocksAssumption
  <2>3. Sound(Nothing \cup base_alloc0, r)
    BY <2>1, <2>2, BaseAlloc0, SoundNothing, SoundUnion
  <2>4. base_node_alloc(p) = Under(<<"base_node", p>>, Nothing \cup base_alloc0)
    BY <1>2 DEF base_node_alloc
  <2> QED
    BY <2>2, <2>3, <2>4, SoundUnder, MutexIs
<1> QED
  BY <1>1, <1>2

LEMMA ChunkRecord ==
    ASSUME NEW p \in Pools
    PROVE  Sound(chunk_record(p), 2)
<1>1. Sound(Nothing \cup base_node_dalloc(p), 2)
  BY SoundNothing, SoundUnion, BaseNodeDalloc
<1>2. Sound(Then(Only(<<"chunks", p>>), Nothing \cup base_node_dalloc(p)), 2)
  BY <1>1, OnlyOf, SoundThen
<1> QED
  BY <1>2, BaseNodeAlloc, SoundThen DEF chunk_record

LEMMA RtreeSet ==
    ASSUME NEW p \in Pools
    PROVE  Sound(rtree_set(p), 2)
<1> DEFINE r == Rank(<<"rtree", p>>)
<1>0. NPools \in Nat \ {0} /\ p \in 0 .. NPools - 1
  BY Numbers
<1>1. r = 4 + 4 * NPools + p
  BY RankOf
<1>2. r \in Nat /\ 2 < r /\ 2 \in Nat /\ r <= 4 + 5 * NPools
  BY <1>0, <1>1
<1>3. Sound(Nothing \cup base_alloc(p), r)
  BY <1>2, BaseAllocLow, SoundNothing, SoundUnion
<1> QED
  BY <1>2, <1>3, SoundUnder, MutexIs DEF rtree_set

LEMMA ChunkDallocCore ==
    ASSUME NEW p \in Pools
    PROVE  Sound(chunk_dalloc_core(p), 2)
BY RtreeSet, OnlyOf, ChunkRecord, SoundUnion DEF chunk_dalloc_core

LEMMA ChunkAllocArena ==
    ASSUME NEW p \in Pools
    PROVE  Sound(chunk_alloc_arena(p), 2)
<1>1. Sound(chunk_recycle(p), 2)
  BY OnlyOf, BaseNodeAlloc, BaseNodeDalloc, ChunkDallocCore, SoundUnion DEF chunk_recycle
<1>2. Sound(IF p = 0 THEN Only(<<"arenas", 0>>) \cup Only(<<"dss", 0>>) ELSE {}, 2)
  <2>1. CASE p = 0
    BY <2>1, OnlyOf, PoolZero, SoundUnion
  <2>2. CASE p # 0
    BY <2>2 DEF Sound
  <2> QED
    BY <2>1, <2>2
<1> QED
  BY <1>1, <1>2, RtreeSet, ChunkDallocCore, SoundUnion DEF chunk_alloc_arena

LEMMA ChooseArenaHard ==
    ASSUME NEW p \in Pools
    PROVE  Sound(choose_arena_hard(p), 2)
<1> DEFINE r == Rank(<<"arenas", p>>)
<1>0. NPools \in Nat \ {0} /\ p \in 0 .. NPools - 1
  BY Numbers
<1>1. r = 4 + NPools + 3 * p
  BY RankOf
<1>2. r \in Nat /\ 2 < r /\ 2 \in Nat /\ r <= 4 + 5 * NPools
  BY <1>0, <1>1
<1>3. Sound(Nothing \cup base_alloc(p), r)
  BY <1>2, BaseAllocLow, SoundNothing, SoundUnion
<1> QED
  BY <1>2, <1>3, SoundUnder, MutexIs DEF choose_arena_hard

LEMMA TcacheStatsMerge ==
    ASSUME NEW p \in Pools
    PROVE  Sound(tcache_stats_merge(p), 2)
<1> DEFINE r == Rank(<<"arena", p>>)
<1>0. NPools \in Nat \ {0} /\ p \in 0 .. NPools - 1
  BY Numbers
<1>1. r = 5 + NPools + 3 * p /\ Rank(<<"bin", p>>) = 6 + NPools + 3 * p
  BY RankOf
<1>2. r \in Nat /\ 2 < r /\ 2 \in Nat /\ r < Rank(<<"bin", p>>)
  BY <1>0, <1>1
<1>3. Sound(Nothing \cup Only(<<"bin", p>>), r)
  BY <1>2, SoundOnly, SoundNothing, SoundUnion, MutexIs
<1> QED
  BY <1>2, <1>3, SoundUnder, MutexIs DEF tcache_stats_merge

LEMMA PoolMalloc ==
    ASSUME NEW p \in Pools
    PROVE  Sound(je_pool_malloc(p), 2)
<1>1. 2 \in Nat /\ 2 <= 4 + 5 * NPools
  BY LocksAssumption
<1>2. Sound(base_alloc0, 2)
  BY <1>1, BaseAllocLow
<1> QED
  BY <1>2, ChooseArenaHard, OnlyOf, ChunkAllocArena, BaseNodeAlloc, BaseNodeDalloc, SoundAll
  DEF je_pool_malloc

LEMMA PoolFree ==
    ASSUME NEW p \in Pools
    PROVE  Sound(je_pool_free(p), 2)
BY OnlyOf, ChunkDallocCore, BaseNodeDalloc, SoundAll DEF je_pool_free

\* What runs under pools_lock or ctl_mtx, and the operations that take them.
LEMMA UnderPools ==
    ASSUME NEW B, Sound(B, 2)
    PROVE  Sound(Under(<<"pools", 0>>, B), 0)
<1>1. Rank(<<"pools", 0>>) = 2
  BY RankOf, PoolZero
<1>2. 0 \in Nat /\ 0 < Rank(<<"pools", 0>>) /\ Sound(B, Rank(<<"pools", 0>>))
  BY <1>1
<1> QED
  BY <1>2, SoundUnder, MutexIs, PoolZero

LEMMA UnderCtl ==
    ASSUME NEW B, Sound(B, 2)
    PROVE  Sound(Under(<<"ctl", 0>>, B), 0)
<1>1. Rank(<<"ctl", 0>>) = 1
  BY RankOf, PoolZero
<1>2. 1 \in Nat /\ 2 \in Nat /\ 1 <= 2
  OBVIOUS
<1>3. Sound(B, 1)
  BY <1>2, SoundAbove
<1>4. 0 \in Nat /\ 0 < Rank(<<"ctl", 0>>) /\ Sound(B, Rank(<<"ctl", 0>>))
  BY <1>1, <1>3
<1> QED
  BY <1>4, SoundUnder, MutexIs, PoolZero

LEMMA ThreadExit ==
    ASSUME NEW p \in Pools
    PROVE  Sound(arenas_cleanup(p) \cup tcache_thread_cleanup(p), 0)
<1>1. Sound(tcache_destroy(p), 2)
  BY TcacheStatsMerge, OnlyOf, ChunkDallocCore, SoundUnion DEF tcache_destroy
<1> QED
  BY <1>1, OnlyOf, UnderPools, SoundUnion DEF arenas_cleanup, tcache_thread_cleanup

LEMMA PoolCreate == Sound(je_pool_create, 0)
<1>1. 2 \in Nat /\ 2 <= 4 + 5 * NPools
  BY LocksAssumption
<1>2. Sound(Under(<<"pools", 0>>, Nothing \cup base_alloc0), 0)
  BY <1>1, BaseAllocLow, PoolZero, SoundNothing, SoundUnion, UnderPools
<1>3. Rank(<<"pool_base", 0>>) = 3
  BY RankOf, PoolZero
<1>4. 0 \in Nat /\ 3 \in Nat /\ 0 < Rank(<<"pool_base", 0>>)
  BY <1>3
<1>5. Sound(Under(<<"pool_base", 0>>, Nothing), 0)
  BY <1>3, <1>4, SoundNothing, SoundUnder, MutexIs, PoolZero
<1> QED
  BY <1>2, <1>5, SoundUnion DEF je_pool_create

LEMMA Ctl ==
    ASSUME NEW p \in Pools
    PROVE  Sound(ctl(p), 0)
<1>1. Sound(UNION {Only(<<"chunks", p>>), choose_arena_hard(p),
                   tcache_stats_merge(p), Only(<<"bin", p>>), Only(<<"dss", 0>>),
                   je_pool_malloc(0), je_pool_free(0)}, 2)
  BY OnlyOf, ChooseArenaHard, TcacheStatsMerge, PoolMalloc, PoolFree, PoolZero, SoundAll
<1> QED
  BY <1>1, UnderCtl DEF ctl

-----------------------------------------------------------------------------
\* fork(): jemalloc_prefork takes its locks by rank.

\* The locks of s are in order, with ranks from a up to b.
Ascending(s, a, b) ==
    /\ s \in Seq(Mutexes)
    /\ \A i \in 1 .. Len(s) : a <= Rank(s[i]) /\ Rank(s[i]) < b
    /\ \A i, j \in 1 .. Len(s) : i < j => Rank(s[i]) < Rank(s[j])

Has(s, l) == \E i \in 1 .. Len(s) : s[i] = l

LEMMA ConcatLocks ==
    ASSUME NEW s \in Seq(Mutexes), NEW u \in Seq(Mutexes)
    PROVE  /\ s \o u \in Seq(Mutexes)
           /\ Len(s) \in Nat /\ Len(u) \in Nat
           /\ Len(s \o u) = Len(s) + Len(u)
           /\ \A i \in 1 .. Len(s) : (s \o u)[i] = s[i]
           /\ \A i \in 1 .. Len(u) : (s \o u)[Len(s) + i] = u[i]
           /\ \A i \in 1 .. Len(s \o u) :
                \/ i \in 1 .. Len(s) /\ (s \o u)[i] = s[i]
                \/ i - Len(s) \in 1 .. Len(u) /\ (s \o u)[i] = u[i - Len(s)]
BY ConcatProperties

LEMMA AscendingConcat ==
    ASSUME NEW a \in Nat, NEW b \in Nat, NEW c \in Nat, NEW d \in Nat, a <= b, b <= c, c <= d,
           NEW s, NEW u, Ascending(s, a, b), Ascending(u, c, d)
    PROVE  Ascending(s \o u, a, d)
<1> DEFINE tr == s \o u
<1>0. s \in Seq(Mutexes) /\ u \in Seq(Mutexes)
  BY DEF Ascending
<1>1. /\ tr \in Seq(Mutexes) /\ Len(s) \in Nat /\ Len(u) \in Nat
      /\ \A i \in 1 .. Len(tr) :
           \/ i \in 1 .. Len(s) /\ tr[i] = s[i]
           \/ i - Len(s) \in 1 .. Len(u) /\ tr[i] = u[i - Len(s)]
  BY <1>0, ConcatLocks
<1> HIDE DEF tr
<1>2. \A i \in 1 .. Len(s) : Rank(s[i]) \in Nat
  BY <1>0, ElementOfSeq, RankType, LocksAssumption
<1>3. \A i \in 1 .. Len(u) : Rank(u[i]) \in Nat
  BY <1>0, ElementOfSeq, RankType, LocksAssumption
<1>4. ASSUME NEW i \in 1 .. Len(tr)
      PROVE  a <= Rank(tr[i]) /\ Rank(tr[i]) < d
  <2>1. CASE i \in 1 .. Len(s) /\ tr[i] = s[i]
    <3>1. a <= Rank(s[i]) /\ Rank(s[i]) < b
      BY <2>1 DEF Ascending
    <3> QED
      BY <1>2, <2>1, <3>1
  <2>2. CASE i - Len(s) \in 1 .. Len(u) /\ tr[i] = u[i - Len(s)]
    <3>1. c <= Rank(u[i - Len(s)]) /\ Rank(u[i - Len(s)]) < d
      BY <2>2 DEF Ascending
    <3> QED
      BY <1>3, <2>2, <3>1, SMTT(40)
  <2> QED
    BY <1>1, <2>1, <2>2
<1>5. ASSUME NEW i \in 1 .. Len(tr), NEW j \in 1 .. Len(tr), i < j
      PROVE  Rank(tr[i]) < Rank(tr[j])
  <2>1. CASE j \in 1 .. Len(s) /\ tr[j] = s[j]
    <3>1. i \in 1 .. Len(s) /\ tr[i] = s[i]
      BY <1>1, <1>5, <2>1
    <3> QED
      BY <1>5, <2>1, <3>1 DEF Ascending
  <2>2. CASE j - Len(s) \in 1 .. Len(u) /\ tr[j] = u[j - Len(s)]
    <3>1. CASE i \in 1 .. Len(s) /\ tr[i] = s[i]
      <4>1. Rank(s[i]) < b /\ c <= Rank(u[j - Len(s)])
        BY <2>2, <3>1 DEF Ascending
      <4> QED
        BY <1>2, <1>3, <2>2, <3>1, <4>1, SMTT(30)
    <3>2. CASE i - Len(s) \in 1 .. Len(u) /\ tr[i] = u[i - Len(s)]
      <4>1. i - Len(s) < j - Len(s)
        BY <1>1, <1>5
      <4> QED
        BY <2>2, <3>2, <4>1 DEF Ascending
    <3> QED
      BY <1>1, <3>1, <3>2
  <2> QED
    BY <1>1, <2>1, <2>2
<1>6. Ascending(tr, a, d)
  BY <1>1, <1>4, <1>5 DEF Ascending
<1> QED
  BY <1>6 DEF tr

LEMMA HasConcat ==
    ASSUME NEW s \in Seq(Mutexes), NEW u \in Seq(Mutexes), NEW l, Has(s, l) \/ Has(u, l)
    PROVE  Has(s \o u, l)
<1> DEFINE tr == s \o u
<1>1. /\ Len(s) \in Nat /\ Len(u) \in Nat /\ Len(tr) = Len(s) + Len(u)
      /\ \A i \in 1 .. Len(s) : tr[i] = s[i]
      /\ \A i \in 1 .. Len(u) : tr[Len(s) + i] = u[i]
  BY ConcatLocks
<1> HIDE DEF tr
<1>2. CASE Has(s, l)
  <2>1. PICK i \in 1 .. Len(s) : s[i] = l
    BY <1>2 DEF Has
  <2>2. i \in 1 .. Len(tr) /\ tr[i] = l
    BY <1>1, <2>1
  <2> QED
    BY <2>2 DEF Has, tr
<1>3. CASE Has(u, l)
  <2>1. PICK i \in 1 .. Len(u) : u[i] = l
    BY <1>3 DEF Has
  <2>2. Len(s) + i \in 1 .. Len(tr) /\ tr[Len(s) + i] = l
    BY <1>1, <2>1
  <2> QED
    BY <2>2 DEF Has, tr
<1> QED
  BY <1>2, <1>3

LEMMA ForPoolsLocks ==
    ASSUME NEW name \in PoolNames
    PROVE  /\ ForPools(name) \in Seq(Mutexes) /\ Len(ForPools(name)) = NPools
           /\ \A i \in 1 .. NPools : i - 1 \in Pools /\ ForPools(name)[i] = <<name, i - 1>>
           /\ \A p \in Pools : Has(ForPools(name), <<name, p>>)
<1> DEFINE s == ForPools(name)
<1>0. NPools \in Nat \ {0}
  BY LocksAssumption
<1>1. \A i \in 1 .. NPools : i - 1 \in Pools
  BY <1>0 DEF Pools
<1>2. \A i \in 1 .. NPools : <<name, i - 1>> \in Mutexes
  BY <1>1 DEF Mutexes
<1>3. s \in Seq(Mutexes) /\ Len(s) = NPools /\ \A i \in 1 .. NPools : s[i] = <<name, i - 1>>
  BY <1>0, <1>2 DEF ForPools
<1> HIDE DEF s
<1>4. ASSUME NEW p \in Pools
      PROVE  Has(s, <<name, p>>)
  <2>1. p + 1 \in 1 .. NPools /\ (p + 1) - 1 = p
    BY <1>0 DEF Pools
  <2>2. s[p + 1] = <<name, p>>
    BY <1>3, <2>1
  <2> QED
    BY <1>3, <2>1, <2>2 DEF Has
<1>5. /\ s \in Seq(Mutexes) /\ Len(s) = NPools
      /\ \A i \in 1 .. NPools : i - 1 \in Pools /\ s[i] = <<name, i - 1>>
      /\ \A p \in Pools : Has(s, <<name, p>>)
  BY <1>1, <1>3, <1>4
<1> QED
  BY <1>5 DEF s

LEMMA ForPoolsAscending ==
    /\ Ascending(ForPools("rtree"), 4 + 4 * NPools, 4 + 5 * NPools)
    /\ Ascending(ForPools("base"), 5 + 5 * NPools, 5 + 6 * NPools)
    /\ Ascending(ForPools("chunks"), 5 + 7 * NPools, 5 + 8 * NPools)
    /\ Ascending(ForPools("huge"), 6 + 8 * NPools, 6 + 9 * NPools)
<1>0. NPools \in Nat \ {0}
  BY LocksAssumption
<1>1. ASSUME NEW name \in PoolNames, NEW a \in Nat, NEW b \in Nat, b = a + NPools,
             \A p \in Pools : Rank(<<name, p>>) = a + p
      PROVE  Ascending(ForPools(name), a, b)
  <2> DEFINE s == ForPools(name)
  <2>1. /\ s \in Seq(Mutexes) /\ Len(s) = NPools
        /\ \A i \in 1 .. NPools : i - 1 \in Pools /\ s[i] = <<name, i - 1>>
    BY ForPoolsLocks
  <2> HIDE DEF s
  <2>2. \A i \in 1 .. NPools : Rank(s[i]) = a + (i - 1)
    BY <1>1, <2>1
  <2>3. Ascending(s, a, b)
    BY <1>0, <1>1, <2>1, <2>2 DEF Ascending
  <2> QED
    BY <2>3 DEF s
<1>2. /\ 4 + 4 * NPools \in Nat /\ 4 + 5 * NPools \in Nat /\ 5 + 5 * NPools \in Nat
      /\ 5 + 6 * NPools \in Nat /\ 5 + 7 * NPools \in Nat /\ 5 + 8 * NPools \in Nat
      /\ 6 + 8 * NPools \in Nat /\ 6 + 9 * NPools \in Nat
      /\ 4 + 5 * NPools = (4 + 4 * NPools) + NPools
      /\ 5 + 6 * NPools = (5 + 5 * NPools) + NPools
      /\ 5 + 8 * NPools = (5 + 7 * NPools) + NPools
      /\ 6 + 9 * NPools = (6 + 8 * NPools) + NPools
  BY <1>0
<1>3. {"rtree", "base", "chunks", "huge"} \subseteq PoolNames
  BY DEF PoolNames
<1>4. \A p \in Pools : /\ Rank(<<"rtree", p>>) = (4 + 4 * NPools) + p
                       /\ Rank(<<"base", p>>) = (5 + 5 * NPools) + p
                       /\ Rank(<<"chunks", p>>) = (5 + 7 * NPools) + p
                       /\ Rank(<<"huge", p>>) = (6 + 8 * NPools) + p
  BY RankOf
<1> QED
  BY <1>1, <1>2, <1>3, <1>4

LEMMA ForPoolsOwnLocks ==
    /\ Ascending(ForPoolsOwn, 4 + NPools, 4 + 4 * NPools)
    /\ Len(ForPoolsOwn) = 3 * NPools
    /\ \A p \in Pools : /\ Has(ForPoolsOwn, <<"arenas", p>>) /\ Has(ForPoolsOwn, <<"arena", p>>)
                         /\ Has(ForPoolsOwn, <<"bin", p>>)
<1> DEFINE s == ForPoolsOwn
           Name(k) == <<"arenas", "arena", "bin">>[1 + k]
<1>0. NPools \in Nat \ {0}
  BY LocksAssumption
<1>1. ASSUME NEW i \in 1 .. 3 * NPools
      PROVE  /\ (i - 1) \div 3 \in Pools /\ (i - 1) % 3 \in 0 .. 2
             /\ i - 1 = 3 * ((i - 1) \div 3) + ((i - 1) % 3)
  BY <1>0 DEF Pools
<1>2. Name(0) = "arenas" /\ Name(1) = "arena" /\ Name(2) = "bin"
  OBVIOUS
<1> HIDE DEF Name
<1>3. \A k \in 0 .. 2, p \in Pools : /\ <<Name(k), p>> \in Mutexes
                                     /\ Rank(<<Name(k), p>>) = 4 + NPools + 3 * p + k
  <2> SUFFICES ASSUME NEW k \in 0 .. 2, NEW p \in Pools
               PROVE  <<Name(k), p>> \in Mutexes /\ Rank(<<Name(k), p>>) = 4 + NPools + 3 * p + k
    OBVIOUS
  <2>0. p \in Nat
    BY <1>0 DEF Pools
  <2>1. CASE k = 0
    <3>1. Rank(<<Name(k), p>>) = 4 + NPools + 3 * p
      BY <1>2, <2>1, RankOf
    <3>2. <<Name(k), p>> \in Mutexes
      BY <1>2, <2>1, MutexIs
    <3>3. 4 + NPools + 3 * p = 4 + NPools + 3 * p + k
      BY <1>0, <2>0, <2>1
    <3> QED
      BY <3>1, <3>2, <3>3
  <2>2. CASE k = 1
    <3>1. Rank(<<Name(k), p>>) = 5 + NPools + 3 * p
      BY <1>2, <2>2, RankOf
    <3>2. <<Name(k), p>> \in Mutexes
      BY <1>2, <2>2, MutexIs
    <3>3. 5 + NPools + 3 * p = 4 + NPools + 3 * p + k
      BY <1>0, <2>0, <2>2
    <3> QED
      BY <3>1, <3>2, <3>3
  <2>3. CASE k = 2
    <3>1. Rank(<<Name(k), p>>) = 6 + NPools + 3 * p
      BY <1>2, <2>3, RankOf
    <3>2. <<Name(k), p>> \in Mutexes
      BY <1>2, <2>3, MutexIs
    <3>3. 6 + NPools + 3 * p = 4 + NPools + 3 * p + k
      BY <1>0, <2>0, <2>3
    <3> QED
      BY <3>1, <3>2, <3>3
  <2> QED
    BY <2>1, <2>2, <2>3
<1>4. s = [i \in 1 .. 3 * NPools |-> <<Name((i - 1) % 3), (i - 1) \div 3>>]
  BY DEF ForPoolsOwn, Name
<1> HIDE DEF s
<1>5. /\ s \in Seq(Mutexes) /\ Len(s) = 3 * NPools
      /\ \A i \in 1 .. 3 * NPools : s[i] = <<Name((i - 1) % 3), (i - 1) \div 3>>
  <2>1. \A i \in 1 .. 3 * NPools : <<Name((i - 1) % 3), (i - 1) \div 3>> \in Mutexes
    BY <1>1, <1>3
  <2> DEFINE e(i) == <<Name((i - 1) % 3), (i - 1) \div 3>>
  <2>2. s = [i \in 1 .. 3 * NPools |-> e(i)] /\ \A i \in 1 .. 3 * NPools : e(i) \in Mutexes
    BY <1>4, <2>1
  <2> HIDE DEF e
  <2>3. 3 * NPools \in Nat
    BY <1>0
  <2>4. /\ s \in Seq(Mutexes) /\ Len(s) = 3 * NPools
        /\ \A i \in 1 .. 3 * NPools : s[i] = e(i)
    BY <2>2, <2>3
  <2> QED
    BY <2>4 DEF e
<1>6. ASSUME NEW i \in 1 .. 3 * NPools
      PROVE  Rank(s[i]) = 4 + NPools + (i - 1)
  <2> DEFINE p == (i - 1) \div 3
             k == (i - 1) % 3
  <2>1. p \in Pools /\ k \in 0 .. 2 /\ i - 1 = 3 * p + k /\ s[i] = <<Name(k), p>>
    BY <1>1, <1>5
  <2> HIDE DEF p, k
  <2>2. Rank(s[i]) = 4 + NPools + 3 * p + k /\ p \in Nat
    BY <1>0, <1>3, <2>1 DEF Pools
  <2> QED
    BY <1>0, <2>1, <2>2
<1>7. Ascending(s, 4 + NPools, 4 + 4 * NPools)
  <2>1. \A i \in 1 .. Len(s) : i \in Nat /\ Rank(s[i]) = 4 + NPools + (i - 1)
    BY <1>0, <1>5, <1>6
  <2>2. \A i \in 1 .. Len(s) : 4 + NPools <= Rank(s[i]) /\ Rank(s[i]) < 4 + 4 * NPools
    BY <1>0, <1>5, <2>1
  <2>3. \A i, j \in 1 .. Len(s) : i < j => Rank(s[i]) < Rank(s[j])
    BY <1>0, <1>5, <2>1
  <2> QED
    BY <1>5, <2>2, <2>3 DEF Ascending
<1>8. ASSUME NEW p \in Pools, NEW k \in 0 .. 2
      PROVE  Has(s, <<Name(k), p>>)
  <2> DEFINE i == 3 * p + k + 1
  <2>1. i \in 1 .. 3 * NPools /\ (i - 1) \div 3 = p /\ (i - 1) % 3 = k
    BY <1>0 DEF Pools
  <2> HIDE DEF i
  <2> QED
    BY <1>5, <2>1 DEF Has
<1>9. 0 \in 0 .. 2 /\ 1 \in 0 .. 2 /\ 2 \in 0 .. 2
  OBVIOUS
<1>10. \A p \in Pools : Has(s, <<"arenas", p>>) /\ Has(s, <<"arena", p>>) /\ Has(s, <<"bin", p>>)
  BY <1>2, <1>8, <1>9
<1> QED
  BY <1>5, <1>7, <1>10 DEF s

LEMMA Prefork ==
    /\ Ascending(prefork, 1, 6 + 9 * NPools) /\ Len(prefork) >= 3
    /\ \A l \in Mutexes : l[1] \notin {"base_node", "memory_range"} => Has(prefork, l)
<1> DEFINE s0 == << <<"ctl", 0>>, <<"pools", 0>>, <<"pool_base", 0>> >>
           s1 == s0 \o ForPoolsOwn
           s2 == s1 \o ForPools("rtree")
           s3 == s2 \o ForPools("base")
           s4 == s3 \o ForPools("chunks")
           d == << <<"dss", 0>> >>
           s5 == s4 \o d
           s6 == s5 \o ForPools("huge")
<1>0. NPools \in Nat \ {0}
  BY LocksAssumption
<1>a. {"rtree", "base", "chunks", "huge"} \subseteq PoolNames
  BY DEF PoolNames
<1>b. /\ Rank(<<"ctl", 0>>) = 1 /\ Rank(<<"pools", 0>>) = 2 /\ Rank(<<"pool_base", 0>>) = 3
      /\ Rank(<<"dss", 0>>) = 5 + 8 * NPools
  BY RankOf, PoolZero
<1>c. /\ <<"ctl", 0>> \in Mutexes /\ <<"pools", 0>> \in Mutexes
      /\ <<"pool_base", 0>> \in Mutexes /\ <<"dss", 0>> \in Mutexes
  BY MutexIs, PoolZero
<1>d. /\ Ascending(s0, 1, 4) /\ Len(s0) = 3
      /\ Has(s0, <<"ctl", 0>>) /\ Has(s0, <<"pools", 0>>) /\ Has(s0, <<"pool_base", 0>>)
  <2>1. /\ s0 \in Seq(Mutexes) /\ Len(s0) = 3
        /\ s0[1] = <<"ctl", 0>> /\ s0[2] = <<"pools", 0>> /\ s0[3] = <<"pool_base", 0>>
    BY <1>c
  <2> HIDE DEF s0
  <2>2. \A i \in 1 .. Len(s0) : Rank(s0[i]) = i
    BY <1>b, <2>1
  <2>3. 1 \in 1 .. Len(s0) /\ 2 \in 1 .. Len(s0) /\ 3 \in 1 .. Len(s0)
    BY <2>1
  <2> QED
    BY <2>1, <2>2, <2>3 DEF Ascending, Has
<1>e. Ascending(d, 5 + 8 * NPools, 6 + 8 * NPools) /\ Has(d, <<"dss", 0>>)
  <2>1. d \in Seq(Mutexes) /\ Len(d) = 1 /\ d[1] = <<"dss", 0>>
    BY <1>c
  <2> HIDE DEF d
  <2>2. \A i \in 1 .. Len(d) : i = 1 /\ Rank(d[i]) = 5 + 8 * NPools
    BY <1>b, <2>1
  <2>3. 1 \in 1 .. Len(d)
    BY <2>1
  <2> QED
    BY <1>0, <2>1, <2>2, <2>3 DEF Ascending, Has
<1> HIDE DEF s0, d
<1>f. /\ 4 + NPools \in Nat /\ 4 + 4 * NPools \in Nat /\ 4 + 5 * NPools \in Nat
      /\ 5 + 5 * NPools \in Nat /\ 5 + 6 * NPools \in Nat /\ 5 + 7 * NPools \in Nat
      /\ 5 + 8 * NPools \in Nat /\ 6 + 8 * NPools \in Nat /\ 6 + 9 * NPools \in Nat
      /\ 1 \in Nat /\ 4 \in Nat /\ 1 <= 4 /\ 4 <= 4 + NPools /\ 4 + NPools <= 4 + 4 * NPools
      /\ 1 <= 4 + 4 * NPools /\ 4 + 4 * NPools <= 4 + 4 * NPools /\ 4 + 4 * NPools <= 4 + 5 * NPools
      /\ 1 <= 4 + 5 * NPools /\ 4 + 5 * NPools <= 5 + 5 * NPools /\ 5 + 5 * NPools <= 5 + 6 * NPools
      /\ 1 <= 5 + 6 * NPools /\ 5 + 6 * NPools <= 5 + 7 * NPools /\ 5 + 7 * NPools <= 5 + 8 * NPools
      /\ 1 <= 5 + 8 * NPools /\ 5 + 8 * NPools <= 5 + 8 * NPools /\ 5 + 8 * NPools <= 6 + 8 * NPools
      /\ 1 <= 6 + 8 * NPools /\ 6 + 8 * NPools <= 6 + 8 * NPools /\ 6 + 8 * NPools <= 6 + 9 * NPools
  BY <1>0
<1>1. Ascending(s1, 1, 4 + 4 * NPools)
  BY <1>d, <1>f, ForPoolsOwnLocks, AscendingConcat
<1>2. Ascending(s2, 1, 4 + 5 * NPools)
  <2> HIDE DEF s1
  <2> QED
    BY <1>1, <1>f, ForPoolsAscending, AscendingConcat
<1>3. Ascending(s3, 1, 5 + 6 * NPools)
  <2> HIDE DEF s2
  <2> QED
    BY <1>2, <1>f, ForPoolsAscending, AscendingConcat
<1>4. Ascending(s4, 1, 5 + 8 * NPools)
  <2> HIDE DEF s3
  <2> QED
    BY <1>3, <1>f, ForPoolsAscending, AscendingConcat
<1>5. Ascending(s5, 1, 6 + 8 * NPools)
  <2> HIDE DEF s4
  <2> QED
    BY <1>4, <1>e, <1>f, AscendingConcat
<1>6. Ascending(s6, 1, 6 + 9 * NPools)
  <2> HIDE DEF s5
  <2> QED
    BY <1>5, <1>f, ForPoolsAscending, AscendingConcat
<1>7. prefork = s6
  BY DEF prefork, s0, d
<1> HIDE DEF s1, s2, s3, s4, s5, s6
<1>8. /\ s0 \in Seq(Mutexes) /\ s1 \in Seq(Mutexes) /\ s2 \in Seq(Mutexes)
      /\ s3 \in Seq(Mutexes) /\ s4 \in Seq(Mutexes) /\ s5 \in Seq(Mutexes)
      /\ d \in Seq(Mutexes) /\ ForPoolsOwn \in Seq(Mutexes)
      /\ ForPools("rtree") \in Seq(Mutexes) /\ ForPools("base") \in Seq(Mutexes)
      /\ ForPools("chunks") \in Seq(Mutexes) /\ ForPools("huge") \in Seq(Mutexes)
  BY <1>1, <1>2, <1>3, <1>4, <1>5, <1>d, <1>e, ForPoolsOwnLocks, ForPoolsAscending DEF Ascending
<1>9. \A l : /\ Has(s0, l) \/ Has(ForPoolsOwn, l) => Has(s1, l)
             /\ Has(s1, l) \/ Has(ForPools("rtree"), l) => Has(s2, l)
             /\ Has(s2, l) \/ Has(ForPools("base"), l) => Has(s3, l)
             /\ Has(s3, l) \/ Has(ForPools("chunks"), l) => Has(s4, l)
             /\ Has(s4, l) \/ Has(d, l) => Has(s5, l)
             /\ Has(s5, l) \/ Has(ForPools("huge"), l) => Has(s6, l)
  BY <1>8, HasConcat DEF s1, s2, s3, s4, s5, s6
<1>10. Len(s6) >= 3
  <2>1. Has(s6, <<"ctl", 0>>) /\ Has(s6, <<"pools", 0>>) /\ Has(s6, <<"pool_base", 0>>)
    BY <1>9, <1>d
  <2>2. PICK i \in 1 .. Len(s6) : s6[i] = <<"ctl", 0>>
    BY <2>1 DEF Has
  <2>3. PICK j \in 1 .. Len(s6) : s6[j] = <<"pools", 0>>
    BY <2>1 DEF Has
  <2>4. PICK k \in 1 .. Len(s6) : s6[k] = <<"pool_base", 0>>
    BY <2>1 DEF Has
  <2>5. i # j /\ j # k /\ i # k
    BY <2>2, <2>3, <2>4
  <2>6. Len(s6) \in Nat
    BY <1>6, LenProperties DEF Ascending
  <2> QED
    BY <2>5, <2>6
<1>11. ASSUME NEW l \in Mutexes, l[1] \notin {"base_node", "memory_range"}
       PROVE  Has(s6, l)
  <2>1. CASE l \in GlobalNames \X {0}
    <3>1. l \in { <<"ctl", 0>>, <<"pools", 0>>, <<"pool_base", 0>>, <<"dss", 0>> }
      BY <2>1 DEF GlobalNames
    <3> QED
      BY <1>9, <1>d, <1>e, <3>1
  <2>2. CASE l \in PoolNames \X Pools
    <3>1. PICK n \in PoolNames, p \in Pools : l = <<n, p>>
      BY <2>2
    <3>2. n \in {"arenas", "arena", "bin", "rtree", "base", "chunks", "huge"}
      BY <1>11, <3>1 DEF PoolNames
    <3>3. /\ Has(ForPoolsOwn, <<"arenas", p>>) /\ Has(ForPoolsOwn, <<"arena", p>>)
          /\ Has(ForPoolsOwn, <<"bin", p>>) /\ Has(ForPools("rtree"), <<"rtree", p>>)
          /\ Has(ForPools("base"), <<"base", p>>) /\ Has(ForPools("chunks"), <<"chunks", p>>)
          /\ Has(ForPools("huge"), <<"huge", p>>)
      BY <1>a, ForPoolsOwnLocks, ForPoolsLocks
    <3> QED
      BY <1>9, <3>1, <3>2, <3>3
  <2> QED
    BY <2>1, <2>2 DEF Mutexes
<1> QED
  BY <1>6, <1>7, <1>10, <1>11

\* tr takes n locks, forks and lets go of n locks.
Forks(tr, n) ==
    /\ tr \in Seq(Steps) /\ n \in Nat /\ n >= 3 /\ Len(tr) = 2 * n + 1
    /\ \A i \in 1 .. n : tr[i].op = "lock" /\ tr[i].mtx = prefork[i]
    /\ tr[n + 1].op = "fork"
    /\ \A i \in 1 .. n : /\ tr[n + 1 + i].op = "unlock"
                          /\ tr[n + 1 + i].mtx = postfork_parent[i]

LEMMA ForkSteps ==
    ASSUME NEW tr \in fork
    PROVE  Forks(tr, Len(prefork))
<1> DEFINE n == Len(prefork)
<1> DEFINE f == All("lock", prefork)
           m == Step("fork", <<"ctl", 0>>)
           e == All("unlock", postfork_parent)
<1>1. prefork \in Seq(Mutexes) /\ n \in Nat /\ n >= 3
  BY Prefork, LenProperties DEF Ascending
<1>2. \A i \in 1 .. n : prefork[i] \in Mutexes
  BY <1>1, ElementOfSeq
<1>3. /\ Len(postfork_parent) = n
      /\ \A i \in 1 .. n : postfork_parent[i] \in Mutexes
  <2>1. postfork_parent = [i \in 1 .. n |-> prefork[IF i = n - 2 THEN 2 ELSE IF i = n - 1 THEN 3
                                                     ELSE n + 1 - i]]
    BY DEF postfork_parent
  <2>2. \A i \in 1 .. n : (IF i = n - 2 THEN 2 ELSE IF i = n - 1 THEN 3 ELSE n + 1 - i) \in 1 .. n
    BY <1>1
  <2> QED
    BY <1>1, <1>2, <2>1, <2>2
<1>4. /\ f \in Seq(Steps) /\ Len(f) = n
      /\ \A i \in 1 .. n : f[i].op = "lock" /\ f[i].mtx = prefork[i]
  BY <1>1, <1>2 DEF All, Steps
<1>5. /\ e \in Seq(Steps) /\ Len(e) = n
      /\ \A i \in 1 .. n : e[i].op = "unlock" /\ e[i].mtx = postfork_parent[i]
  BY <1>1, <1>3 DEF All, Steps
<1>6. m \in Seq(Steps) /\ Len(m) = 1 /\ m[1].op = "fork"
  <2>1. <<"ctl", 0>> \in Mutexes
    BY MutexIs, PoolZero
  <2> QED
    BY <2>1 DEF Step, Steps
<1> HIDE DEF f, m, e
<1> DEFINE fm == f \o m
           w == fm \o e
<1>7. /\ fm \in Seq(Steps) /\ Len(fm) = n + 1
      /\ \A i \in 1 .. n : fm[i] = f[i]
      /\ fm[n + 1] = m[1]
  <2>1. /\ fm \in Seq(Steps) /\ Len(fm) = Len(f) + Len(m)
        /\ \A i \in 1 .. Len(f) : fm[i] = f[i]
        /\ \A i \in 1 .. Len(m) : fm[Len(f) + i] = m[i]
    BY <1>4, <1>6, ConcatSteps, Zenon
  <2> HIDE DEF fm
  <2>2. 1 \in 1 .. Len(m)
    BY <1>6
  <2> QED
    BY <1>1, <1>4, <1>6, <2>1, <2>2
<1> HIDE DEF fm
<1>8. /\ w \in Seq(Steps) /\ Len(w) = 2 * n + 1
      /\ \A i \in 1 .. n + 1 : w[i] = fm[i]
      /\ \A i \in 1 .. n : w[n + 1 + i] = e[i]
  <2>1. /\ w \in Seq(Steps) /\ Len(w) = Len(fm) + Len(e)
        /\ \A i \in 1 .. Len(fm) : w[i] = fm[i]
        /\ \A i \in 1 .. Len(e) : w[Len(fm) + i] = e[i]
    BY <1>5, <1>7, ConcatSteps, Zenon
  <2> HIDE DEF w
  <2> QED
    BY <1>1, <1>5, <1>7, <2>1
<1> HIDE DEF w
<1>9. tr = w
  BY DEF fork, w, fm, f, m, e
<1>10. n + 1 \in 1 .. n + 1 /\ \A i \in 1 .. n : i \in 1 .. n + 1
  BY <1>1
<1> HIDE DEF n
<1>11. \A i \in 1 .. n : w[i].op = "lock" /\ w[i].mtx = prefork[i]
  BY <1>4, <1>7, <1>8, <1>10
<1>12. w[n + 1].op = "fork"
  BY <1>6, <1>7, <1>8, <1>10
<1>13. \A i \in 1 .. n : w[n + 1 + i].op = "unlock" /\ w[n + 1 + i].mtx = postfork_parent[i]
  BY <1>5, <1>8
<1>14. Forks(w, n)
  BY <1>1, <1>8, <1>11, <1>12, <1>13 DEF Forks
<1> QED
  BY <1>9, <1>14 DEF n

LEMMA ForkSound == Sound(fork, 0)
<1> SUFFICES ASSUME NEW tr \in fork
             PROVE  tr \in Seq(Steps) /\ Paired(tr) /\ Above(tr, 0)
  BY DEF Sound
<1> DEFINE n == Len(prefork)
<1>1. /\ tr \in Seq(Steps) /\ n \in Nat /\ n >= 3 /\ Len(tr) = 2 * n + 1
      /\ \A i \in 1 .. n : tr[i].op = "lock" /\ tr[i].mtx = prefork[i]
      /\ tr[n + 1].op = "fork"
      /\ \A i \in 1 .. n : /\ tr[n + 1 + i].op = "unlock"
                            /\ tr[n + 1 + i].mtx = postfork_parent[i]
  BY ForkSteps DEF Forks
<1>2. /\ prefork \in Seq(Mutexes)
      /\ \A i, j \in 1 .. n : i < j => Rank(prefork[i]) < Rank(prefork[j])
  BY Prefork DEF Ascending
<1>3. \A i \in 1 .. n : prefork[i] \in Mutexes
  BY <1>2, ElementOfSeq
<1>4. \A i \in 1 .. n : postfork_parent[i] = prefork[IF i = n - 2 THEN 2 ELSE IF i = n - 1 THEN 3
                                                     ELSE n + 1 - i]
  BY DEF postfork_parent
<1> HIDE DEF n
<1>5. \A i \in 1 .. Len(tr) : tr[i].op = "lock" => i \in 1 .. n
  <2> SUFFICES ASSUME NEW i \in 1 .. Len(tr), i \notin 1 .. n
               PROVE  tr[i].op # "lock"
    OBVIOUS
  <2>1. CASE i = n + 1
    BY <1>1, <2>1
  <2>2. CASE i # n + 1
    <3>1. i - (n + 1) \in 1 .. n /\ n + 1 + (i - (n + 1)) = i
      BY <1>1, <2>2
    <3>2. tr[n + 1 + (i - (n + 1))].op = "unlock"
      BY <1>1, <3>1
    <3> QED
      BY <3>1, <3>2
  <2> QED
    BY <2>1, <2>2
<1>6. Above(tr, 0)
  <2> SUFFICES ASSUME NEW i \in 1 .. n
               PROVE  0 < Rank(tr[i].mtx)
    BY <1>5 DEF Above
  <2>1. tr[i].mtx \in Mutexes
    BY <1>1, <1>3
  <2> QED
    BY <2>1, RankType, LocksAssumption
<1>7. ASSUME NEW j \in 1 .. n
      PROVE  Closed(tr, tr[j].mtx, j)
  <2> DEFINE u == IF j = 2 THEN n - 2 ELSE IF j = 3 THEN n - 1 ELSE n + 1 - j
             k == n + 1 + u
  <2>1. u \in 1 .. n /\ (IF u = n - 2 THEN 2 ELSE IF u = n - 1 THEN 3 ELSE n + 1 - u) = j
    BY <1>1
  <2>2. postfork_parent[u] = prefork[j]
    BY <1>4, <2>1
  <2> HIDE DEF u
  <2>3. k \in j + 1 .. Len(tr) /\ tr[k].op = "unlock" /\ tr[k].mtx = tr[j].mtx
    <3>1. k \in j + 1 .. Len(tr)
      BY <1>1, <2>1
    <3>2. tr[n + 1 + u].op = "unlock" /\ tr[n + 1 + u].mtx = postfork_parent[u]
      BY <1>1, <2>1
    <3>3. tr[j].mtx = prefork[j]
      BY <1>1
    <3> QED
      BY <2>2, <3>1, <3>2, <3>3
  <2>4. ASSUME NEW i \in j + 1 .. k - 1, tr[i].op = "lock"
        PROVE  Rank(tr[j].mtx) < Rank(tr[i].mtx)
    <3>1. i \in 1 .. Len(tr) /\ j < i
      BY <1>1, <2>1, <2>4
    <3>2. i \in 1 .. n
      BY <1>5, <2>4, <3>1
    <3>3. Rank(prefork[j]) < Rank(prefork[i])
      BY <1>2, <3>1, <3>2
    <3> QED
      BY <1>1, <3>2, <3>3
  <2> HIDE DEF k
  <2> QED
    BY <2>3, <2>4 DEF Closed
<1> QED
  BY <1>1, <1>5, <1>6, <1>7 DEF Paired

-----------------------------------------------------------------------------
\* The operations that keep to the order: all but pool_check and pool_extend.

Ordered == {"malloc", "free", "exit", "usable_size", "create", "ctl", "fork"}

LEMMA PathsSound ==
    ASSUME Operations \subseteq Ordered
    PROVE  Sound(Paths, 0)
<1>0. 0 \in Nat /\ 2 \in Nat /\ 0 <= 2
  OBVIOUS
<1>1. ASSUME NEW op \in Ordered, NEW p \in Pools
      PROVE  Sound(Sections(op, p), 0)
  <2>1. CASE op = "malloc"
    <3>1. Sections(op, p) = je_pool_malloc(p)
      BY <2>1 DEF Sections
    <3> QED
      BY <1>0, <3>1, PoolMalloc, SoundAbove
  <2>2. CASE op = "free"
    <3>1. Sections(op, p) = je_pool_free(p)
      BY <2>2 DEF Sections
    <3> QED
      BY <1>0, <3>1, PoolFree, SoundAbove
  <2>3. CASE op = "exit"
    BY <2>3, ThreadExit DEF Sections
  <2>4. CASE op = "usable_size"
    BY <2>4, OnlyOf, UnderPools DEF Sections, huge_salloc
  <2>5. CASE op = "create"
    BY <2>5, PoolCreate DEF Sections
  <2>6. CASE op = "ctl"
    BY <2>6, Ctl DEF Sections
  <2>7. CASE op = "fork"
    BY <2>7, ForkSound DEF Sections
  <2> QED
    BY <2>1, <2>2, <2>3, <2>4, <2>5, <2>6, <2>7 DEF Ordered
<1>2. ASSUME NEW tr \in Paths
      PROVE  \E op \in Ordered, p \in Pools : tr \in Sections(op, p)
  BY DEF Paths
<1> QED
  BY <1>1, <1>2 DEF Sound

-----------------------------------------------------------------------------
\* The steps of the threads.

\* Every lock a thread holds is one that the rest of its section lets go of, before
\* it takes any of lower rank.
Inv ==
    /\ owner \in [Mutexes -> Threads \cup {Free}]
    /\ trace \in [Threads -> Seq(Steps)]
    /\ \A t \in Threads : Paired(trace[t]) /\ \A l \in Held(t) : Closed(trace[t], l, 0)

LEMMA TailOf ==
    ASSUME NEW tr \in Seq(Steps), tr # <<>>
    PROVE  /\ Tail(tr) \in Seq(Steps) /\ Len(tr) \in Nat \ {0} /\ Len(Tail(tr)) = Len(tr) - 1
           /\ \A i \in 1 .. Len(tr) - 1 : Tail(tr)[i] = tr[i + 1]
           /\ Head(tr) = tr[1] /\ tr[1] \in Steps /\ tr[1].mtx \in Mutexes
<1>1. Len(tr) \in Nat \ {0}
  BY EmptySeq, LenProperties
<1>2. Tail(tr) \in Seq(Steps) /\ Len(Tail(tr)) = Len(tr) - 1
  BY HeadTailProperties
<1>3. \A i \in 1 .. Len(tr) - 1 : Tail(tr)[i] = tr[i + 1]
  BY <1>1, <1>2, HeadTailProperties
<1>4. Head(tr) = tr[1]
  OBVIOUS
<1>5. tr[1] \in Steps
  BY <1>1, ElementOfSeq
<1>6. tr[1].mtx \in Mutexes
  BY <1>5 DEF Steps
<1> QED
  BY <1>1, <1>2, <1>3, <1>4, <1>5, <1>6

\* What lies ahead of step j + 1 of a trace lies ahead of step j of its tail.
LEMMA ClosedTail ==
    ASSUME NEW tr \in Seq(Steps), tr # <<>>, NEW l, NEW j \in Nat, Closed(tr, l, j + 1)
    PROVE  Closed(Tail(tr), l, j)
<1>1. /\ Len(tr) \in Nat \ {0} /\ Len(Tail(tr)) = Len(tr) - 1
      /\ \A i \in 1 .. Len(tr) - 1 : Tail(tr)[i] = tr[i + 1]
  BY TailOf
<1>2. PICK k \in (j + 1) + 1 .. Len(tr) :
        /\ tr[k].op = "unlock" /\ tr[k].mtx = l
        /\ \A i \in (j + 1) + 1 .. k - 1 : tr[i].op = "lock" => Rank(l) < Rank(tr[i].mtx)
  BY DEF Closed
<1> DEFINE u == Tail(tr)
           m == k - 1
<1>3. m \in j + 1 .. Len(u) /\ m \in 1 .. Len(tr) - 1 /\ m + 1 = k
  BY <1>1, <1>2
<1>4. u[m].op = "unlock" /\ u[m].mtx = l
  BY <1>1, <1>2, <1>3
<1>5. ASSUME NEW i \in j + 1 .. m - 1, u[i].op = "lock"
      PROVE  Rank(l) < Rank(u[i].mtx)
  <2>1. i \in 1 .. Len(tr) - 1 /\ i + 1 \in (j + 1) + 1 .. k - 1
    BY <1>1, <1>2
  <2>2. u[i] = tr[i + 1]
    BY <1>1, <2>1
  <2> QED
    BY <1>2, <1>5, <2>1, <2>2
<1> HIDE DEF u, m
<1>6. Closed(u, l, j)
  BY <1>3, <1>4, <1>5 DEF Closed
<1> QED
  BY <1>6 DEF u

LEMMA PairedTail ==
    ASSUME NEW tr \in Seq(Steps), tr # <<>>, Paired(tr)
    PROVE  /\ Paired(Tail(tr))
           /\ Head(tr).op = "lock" => Closed(Tail(tr), Head(tr).mtx, 0)
<1> DEFINE u == Tail(tr)
<1>1. /\ Len(tr) \in Nat \ {0} /\ Len(u) = Len(tr) - 1
      /\ \A i \in 1 .. Len(tr) - 1 : u[i] = tr[i + 1]
      /\ Head(tr) = tr[1]
  BY TailOf
<1>2. ASSUME NEW j \in 1 .. Len(u), u[j].op = "lock"
      PROVE  Closed(u, u[j].mtx, j)
  <2>1. j + 1 \in 1 .. Len(tr) /\ u[j] = tr[j + 1] /\ j \in Nat
    BY <1>1
  <2>2. Closed(tr, u[j].mtx, j + 1)
    BY <1>2, <2>1 DEF Paired
  <2> QED
    BY <2>1, <2>2, ClosedTail
<1>3. ASSUME Head(tr).op = "lock"
      PROVE  Closed(u, Head(tr).mtx, 0)
  <2>1. 1 \in 1 .. Len(tr) /\ 0 \in Nat /\ 0 + 1 = 1
    BY <1>1
  <2>2. Closed(tr, Head(tr).mtx, 0 + 1)
    BY <1>1, <1>3, <2>1 DEF Paired
  <2> QED
    BY <2>1, <2>2, ClosedTail
<1> QED
  BY <1>2, <1>3 DEF Paired

\* A step that does not let go of l leaves its release ahead.
LEMMA ClosedNext ==
    ASSUME NEW tr \in Seq(Steps), tr # <<>>, NEW l, Closed(tr, l, 0),
           ~(Head(tr).op = "unlock" /\ Head(tr).mtx = l)
    PROVE  Closed(Tail(tr), l, 0)
<1>1. Len(tr) \in Nat \ {0} /\ Head(tr) = tr[1]
  BY TailOf
<1>2. PICK k \in 0 + 1 .. Len(tr) :
        /\ tr[k].op = "unlock" /\ tr[k].mtx = l
        /\ \A i \in 0 + 1 .. k - 1 : tr[i].op = "lock" => Rank(l) < Rank(tr[i].mtx)
  BY DEF Closed
<1>3. k # 1
  BY <1>1, <1>2
<1>4. k \in (0 + 1) + 1 .. Len(tr) /\ \A i \in (0 + 1) + 1 .. k - 1 : i \in 0 + 1 .. k - 1
  BY <1>1, <1>2, <1>3
<1>5. Closed(tr, l, 0 + 1)
  BY <1>2, <1>4 DEF Closed
<1> QED
  BY <1>5, ClosedTail

\* What is taken first ranks above all that is still to be let go of.
LEMMA ClosedRank ==
    ASSUME NEW tr \in Seq(Steps), tr # <<>>, NEW l, Closed(tr, l, 0), Head(tr).op = "lock"
    PROVE  Rank(l) < Rank(Head(tr).mtx)
<1>1. Len(tr) \in Nat \ {0} /\ Head(tr) = tr[1]
  BY TailOf
<1>2. PICK k \in 0 + 1 .. Len(tr) :
        /\ tr[k].op = "unlock" /\ tr[k].mtx = l
        /\ \A i \in 0 + 1 .. k - 1 : tr[i].op = "lock" => Rank(l) < Rank(tr[i].mtx)
  BY DEF Closed
<1>3. k # 1
  BY <1>1, <1>2
<1>4. 1 \in 0 + 1 .. k - 1
  BY <1>1, <1>2, <1>3
<1> QED
  BY <1>1, <1>2, <1>4

-----------------------------------------------------------------------------
\* The theorems.

LEMMA InitInv ==
    ASSUME Init
    PROVE  Inv
<1>1. \A t \in Threads : Held(t) = {}
  BY LocksAssumption DEF Init, Held
<1>2. \A t \in Threads : Paired(trace[t])
  BY DEF Init, Paired
<1> QED
  BY <1>1, <1>2 DEF Init, Inv

LEMMA InvStep ==
    ASSUME Operations \subseteq Ordered, Inv, [Next]_vars
    PROVE  Inv'
<1> USE DEF Inv
<1>1. ASSUME NEW t \in Threads, Begin(t)
      PROVE  Inv'
  <2>1. PICK path \in Paths : trace' = [trace EXCEPT ![t] = path]
    BY <1>1 DEF Begin
  <2>2. path \in Seq(Steps) /\ Paired(path)
    BY PathsSound DEF Sound
  <2>3. Held(t) = {}
    <3>1. \A l : ~Closed(<<>>, l, 0)
      BY DEF Closed
    <3> QED
      BY <1>1, <3>1 DEF Begin
  <2>4. \A u \in Threads : Held(u)' = Held(u)
    BY <1>1 DEF Begin, Held
  <2>5. ASSUME NEW u \in Threads
        PROVE  Paired(trace'[u]) /\ \A l \in Held(u)' : Closed(trace'[u], l, 0)
    <3>1. CASE u = t
      BY <2>1, <2>2, <2>3, <2>4, <3>1
    <3>2. CASE u # t
      BY <2>1, <2>4, <3>2
    <3> QED
      BY <3>1, <3>2
  <2>6. owner' \in [Mutexes -> Threads \cup {Free}] /\ trace' \in [Threads -> Seq(Steps)]
    BY <1>1, <2>1, <2>2 DEF Begin
  <2> QED
    BY <2>5, <2>6
<1>2. ASSUME NEW t \in Threads, trace[t] # <<>>,
             trace' = [trace EXCEPT ![t] = Tail(@)],
             owner' \in [Mutexes -> Threads \cup {Free}],
             \A u \in Threads : Held(u)' \subseteq
                IF u = t /\ Head(trace[t]).op = "lock" THEN Held(u) \cup {Head(trace[t]).mtx}
                ELSE Held(u),
             Head(trace[t]).op = "unlock" => Head(trace[t]).mtx \notin Held(t)'
      PROVE  Inv'
  <2> DEFINE tr == trace[t]
             m == Head(tr).mtx
  <2>0. tr \in Seq(Steps) /\ tr # <<>> /\ Paired(tr)
    BY <1>2
  <2>1. Tail(tr) \in Seq(Steps) /\ Paired(Tail(tr))
    BY <2>0, TailOf, PairedTail
  <2>2. trace' \in [Threads -> Seq(Steps)] /\ trace'[t] = Tail(tr)
    BY <1>2, <2>1
  <2>3. ASSUME NEW l \in Held(t)'
        PROVE  Closed(Tail(tr), l, 0)
    <3>1. CASE l \in Held(t)
      <4>1. ~(Head(tr).op = "unlock" /\ Head(tr).mtx = l)
        BY <1>2, <2>3
      <4>2. Closed(tr, l, 0)
        BY <3>1
      <4> QED
        BY <2>0, <4>1, <4>2, ClosedNext
    <3>2. CASE l \notin Held(t)
      <4>1. Head(tr).op = "lock" /\ l = m
        BY <1>2, <2>3, <3>2
      <4> QED
        BY <2>0, <4>1, PairedTail
    <3> QED
      BY <3>1, <3>2
  <2>4. ASSUME NEW u \in Threads, u # t
        PROVE  Paired(trace'[u]) /\ \A l \in Held(u)' : Closed(trace'[u], l, 0)
    <3>1. trace'[u] = trace[u] /\ Held(u)' \subseteq Held(u)
      BY <1>2, <2>4
    <3> QED
      BY <3>1
  <2> HIDE DEF tr, m
  <2>5. ASSUME NEW u \in Threads
        PROVE  Paired(trace'[u]) /\ \A l \in Held(u)' : Closed(trace'[u], l, 0)
    BY <2>1, <2>2, <2>3, <2>4
  <2> QED
    BY <1>2, <2>2, <2>5
<1>3. ASSUME NEW t \in Threads, Lock(t)
      PROVE  Inv'
  <2> DEFINE m == Head(trace[t]).mtx
  <2>1. /\ trace[t] # <<>> /\ Head(trace[t]).op = "lock"
        /\ trace' = [trace EXCEPT ![t] = Tail(@)] /\ owner' = [owner EXCEPT ![m] = t]
    BY <1>3 DEF Lock, At
  <2>2. m \in Mutexes
    BY <2>1, TailOf
  <2> HIDE DEF m
  <2>3. owner' \in [Mutexes -> Threads \cup {Free}]
    BY <2>1, <2>2
  <2>4. \A u \in Threads : Held(u)' \subseteq IF u = t THEN Held(u) \cup {m} ELSE Held(u)
    BY <2>1, <2>2 DEF Held
  <2> QED
    BY <1>2, <2>1, <2>3, <2>4 DEF m
<1>4. ASSUME NEW t \in Threads, Unlock(t)
      PROVE  Inv'
  <2> DEFINE m == Head(trace[t]).mtx
  <2>1. /\ trace[t] # <<>> /\ Head(trace[t]).op = "unlock"
        /\ trace' = [trace EXCEPT ![t] = Tail(@)] /\ owner' = [owner EXCEPT ![m] = Free]
    BY <1>4 DEF Unlock, At
  <2>2. m \in Mutexes
    BY <2>1, TailOf
  <2> HIDE DEF m
  <2>3. owner' \in [Mutexes -> Threads \cup {Free}]
    BY <2>1, <2>2
  <2>4. \A u \in Threads : Held(u)' \subseteq Held(u) /\ m \notin Held(u)'
    BY <2>1, <2>2, LocksAssumption DEF Held
  <2> QED
    BY <1>2, <2>1, <2>3, <2>4 DEF m
<1>5. ASSUME NEW t \in Threads, Fork(t)
      PROVE  Inv'
  <2>1. /\ trace[t] # <<>> /\ Head(trace[t]).op = "fork"
        /\ trace' = [trace EXCEPT ![t] = Tail(@)] /\ owner' = owner
    BY <1>5 DEF Fork, At
  <2>2. \A u \in Threads : Held(u)' = Held(u)
    BY <2>1 DEF Held
  <2> QED
    BY <1>2, <2>1, <2>2
<1>6. CASE UNCHANGED vars
  BY <1>6 DEF vars, Held
<1> QED
  BY <1>1, <1>3, <1>4, <1>5, <1>6 DEF Next, Done

LEMMA InvOrder ==
    ASSUME Inv
    PROVE  LockOrder
<1> SUFFICES ASSUME NEW t \in Threads, At(t, "lock"), NEW l \in Held(t)
             PROVE  Rank(l) < Rank(Head(trace[t]).mtx)
  BY DEF LockOrder
<1>1. trace[t] \in Seq(Steps) /\ trace[t] # <<>> /\ Head(trace[t]).op = "lock"
  BY DEF Inv, At
<1>2. Closed(trace[t], l, 0)
  BY DEF Inv
<1> QED
  BY <1>1, <1>2, ClosedRank

\* Whatever the numbers of threads and pools, and whichever paths the functions
\* take: a thread in malloc, free, its exit, pool_create, mallctl or the fork handlers
\* only ever asks for a lock that ranks above all it holds.
THEOREM OrderKept ==
    ASSUME Operations \subseteq Ordered
    PROVE  Spec => []LockOrder
<1>1. Init => Inv
  BY InitInv
<1>2. Inv /\ [Next]_vars => Inv'
  BY InvStep
<1>3. Inv => LockOrder
  BY InvOrder
<1> QED
  BY <1>1, <1>2, <1>3, PTL DEF Spec

\* A circle of waiting threads would have one that waits for the lock of the highest
\* rank, and the thread that holds it would wait for a higher one.
LEMMA InvNoCycle ==
    ASSUME Inv
    PROVE  NoWaitCycle
<1> DEFINE m(t) == Head(trace[t]).mtx
<1> SUFFICES ASSUME NEW S \in SUBSET Threads, S # {},
                    \A t \in S : Waits(t) /\ owner[m(t)] \in S
             PROVE  FALSE
  BY DEF NoWaitCycle
<1>1. \A t \in S : trace[t] \in Seq(Steps) /\ At(t, "lock") /\ trace[t] # <<>>
  BY DEF Inv, Waits, At
<1>2. \A t \in S : m(t) \in Mutexes
  BY <1>1, TailOf
<1>3. \A t \in S : Rank(m(t)) \in 1 .. 6 + 9 * NPools
  BY <1>2, RankType
<1> DEFINE top == 6 + 9 * NPools
           R == {top - Rank(m(t)) : t \in S}
<1>4. R \subseteq Nat /\ R # {}
  BY <1>3, LocksAssumption
<1> DEFINE less == {xy \in Nat \X Nat : xy[1] < xy[2]}
<1>a. IsWellFoundedOn(less, Nat)
  BY NatLessThanWellFounded DEF OpToRel
<1> HIDE DEF less, R
<1>5. PICK x \in R : \A y \in R : ~(<<y, x>> \in less)
  BY <1>4, <1>a, WFMin
<1>6. \A y \in R : x <= y
  <2> SUFFICES ASSUME NEW y \in R
               PROVE  x <= y
    OBVIOUS
  <2>1. x \in Nat /\ y \in Nat /\ ~(y < x)
    BY <1>4, <1>5 DEF less
  <2> QED
    BY <2>1
<1>7. PICK t \in S : x = top - Rank(m(t))
  BY DEF R
<1> DEFINE u == owner[m(t)]
<1>8. u \in S /\ u \in Threads /\ m(t) \in Held(u)
  BY <1>2 DEF Held
<1>9. Rank(m(t)) < Rank(m(u))
  BY <1>1, <1>8, InvOrder DEF LockOrder
<1>10. top - Rank(m(u)) \in R
  BY <1>8 DEF R
<1>11. top - Rank(m(t)) <= top - Rank(m(u))
  BY <1>6, <1>7, <1>10
<1>12. Rank(m(t)) \in Nat /\ Rank(m(u)) \in Nat /\ top \in Nat
  BY <1>3, <1>8, LocksAssumption
<1> HIDE DEF m, top, u
<1> QED
  BY <1>9, <1>11, <1>12

\* No threads wait for one another in a circle, however many there are, as long as
\* none of them is in pool_check or pool_extend.
THEOREM NoDeadlock ==
    ASSUME Operations \subseteq Ordered
    PROVE  Spec => []NoWaitCycle
<1>1. Init => Inv
  BY InitInv
<1>2. Inv /\ [Next]_vars => Inv'
  BY InvStep
<1>3. Inv => NoWaitCycle
  BY InvNoCycle
<1> QED
  BY <1>1, <1>2, <1>3, PTL DEF Spec

\* Whatever runs when a thread forks, pool_check and pool_extend too: the child finds
\* held, for ever, no lock but base_node_mtx and memory_range_mtx of some pools.
THEOREM ChildCovered == Spec => []ChildLocksCovered
<1>1. Init => ChildLocksCovered
  BY DEF Init, ChildLocksCovered
<1>2. Mutexes \ postfork_child \subseteq {"base_node", "memory_range"} \X Pools
  <2> SUFFICES ASSUME NEW l \in Mutexes, l \notin postfork_child
               PROVE  l \in {"base_node", "memory_range"} \X Pools
    OBVIOUS
  <2>1. ~Has(prefork, l)
    BY DEF Has, postfork_child
  <2>2. l[1] \in {"base_node", "memory_range"}
    BY <2>1, Prefork
  <2> QED
    BY <2>2 DEF Mutexes, GlobalNames, PoolNames
<1>3. ChildLocksCovered /\ [Next]_vars => ChildLocksCovered'
  <2> SUFFICES ASSUME ChildLocksCovered, [Next]_vars
               PROVE  ChildLocksCovered'
    OBVIOUS
  <2>1. ASSUME NEW t \in Threads, Fork(t)
        PROVE  ChildLocksCovered'
    BY <1>2, <2>1 DEF Fork, ChildLocksCovered
  <2>2. ASSUME NEW t \in Threads, Begin(t) \/ Lock(t) \/ Unlock(t)
        PROVE  ChildLocksCovered'
    BY <2>2 DEF Begin, Lock, Unlock, ChildLocksCovered
  <2>3. CASE UNCHANGED vars
    BY <2>3 DEF vars, ChildLocksCovered
  <2> QED
    BY <2>1, <2>2, <2>3 DEF Next, Done
<1> QED
  BY <1>1, <1>3, PTL DEF Spec
=============================================================================
