---------------------------- MODULE PoolsProofs ----------------------------
(***************************************************************************)
(* Proofs about Pools, for any numbers of threads, pools and arenas: the   *)
(* types, that a slot left over from a deleted pool is never used for the  *)
(* pool that got its number, pools[], and the load of the arenas.          *)
(***************************************************************************)
EXTENDS Pools, FiniteSetTheorems, TLAPS

(***************************************************************************)
(* Operators                                                               *)
(***************************************************************************)

\* 1ULL << (32 - __builtin_clz(x)) is defined for every length that a pool
\* number can ask for.
LEMMA PowerAboveType ==
    ASSUME NEW x \in Nat, 1 <= x, x < 65536
    PROVE  PowerAbove(x) \in Nat /\ x < PowerAbove(x)
<1>1. \E q \in PowersOfTwo : x < q /\ q <= 2 * x
  <2>1. CASE x < 256
    BY <2>1 DEF PowersOfTwo
  <2>2. CASE x >= 256
    BY <2>2 DEF PowersOfTwo
  <2> QED BY <2>1, <2>2
<1>2. PowerAbove(x) \in PowersOfTwo /\ x < PowerAbove(x)
  BY <1>1 DEF PowerAbove
<1> QED BY <1>2 DEF PowersOfTwo

\* arenas_tsd_extend and tcache_tsd_extend leave an array with a length.
LEMMA ExtendedType ==
    ASSUME NEW n \in Nat, NEW i \in Id
    PROVE  Extended(n, i) \in Nat
<1>1. i + 1 \in Nat /\ 1 <= i + 1 /\ i + 1 < 65536
  BY SizeAssumption DEF Id
<1>2. PowerAbove(i + 1) \in Nat
  BY <1>1, PowerAboveType
<1> QED BY <1>2, SizeAssumption DEF Extended

\* A registered pool has a number.
LEMMA UsableId == ASSUME NEW p, Usable(p) PROVE header[p].id \in Id
  BY DEF Usable, Registered

LEMMA Constants ==
    /\ 0 \in Id /\ 0 \in Ind /\ UINT_MAX \in Nat /\ UINT_MAX # 0
    /\ Id \subseteq Nat /\ Id \subseteq 0..UINT_MAX /\ Ind \subseteq Nat
    /\ BasePool \in Pool /\ Regions \subseteq Pool /\ Null \notin Pool
  BY SizeAssumption, NullAssumption DEF Id, Ind, UINT_MAX, Pool

(***************************************************************************)
(* Types                                                                   *)
(***************************************************************************)

TypeInv == TypeOK /\ Calls

LEMMA InitType == Init => TypeInv
<1> SUFFICES ASSUME Init PROVE TypeInv
  OBVIOUS
<1>1. pools \in [Id -> Pool \cup {Null}]
  BY Constants DEF Init
<1>2. npools \in Nat /\ npools_cnt \in Int /\ pool_seqno \in Nat
  BY SizeAssumption DEF Init
<1>3. header \in [Pool -> [id : 0..UINT_MAX, seqno : Nat, birth : Nat]]
  BY Constants DEF Init
<1>4. arenas \in [Pool -> SUBSET Ind]
  BY Constants DEF Init
<1>5. nthreads \in [Pool -> [Ind -> Int]]
  BY DEF Init
<1>6. aslot \in [Threads -> [Id -> ArenaSlot]]
  BY DEF Init, EmptyA, ArenaSlot
<1>7. tslot \in [Threads -> [Id -> TcacheSlot]]
  BY DEF Init, EmptyT, TcacheSlot
<1>8. alen \in [Threads -> Nat] /\ tlen \in [Threads -> Nat]
  BY DEF Init
<1>9. enabled \in [Threads -> BOOLEAN]
  <2>1. enabled = [t \in Threads |-> TRUE]
    BY DEF Init
  <2> QED BY <2>1
<1>10. strayed \in BOOLEAN /\ intruded \in BOOLEAN
  <2>1. strayed = FALSE /\ intruded = FALSE
    BY DEF Init
  <2> QED BY <2>1
<1>11. pools_lock \in Threads \cup {Null}
  BY DEF Init
<1>12. pc \in [Threads -> {"idle", "create", "unlock", "delete", "rebind",
                           "cleanup", "exited"}]
  BY DEF Init
<1>13. call \in [Threads -> [pool : Pool \cup {Null}, id : Nat, empty : BOOLEAN]]
  BY Constants DEF Init, NoCall
<1>14. TypeOK
  BY <1>1, <1>2, <1>3, <1>4, <1>5, <1>6, <1>7, <1>8, <1>9, <1>10, <1>11,
     <1>12, <1>13 DEF TypeOK
<1>15. Calls
  BY Constants, PoolAssumption, SizeAssumption DEF Calls, Init
<1> QED BY <1>14, <1>15 DEF TypeInv

\* Writing pool->pool_id leaves the rest of the header, and other headers.
LEMMA HeaderId ==
    ASSUME TypeOK, NEW r \in Pool, NEW n \in 0..UINT_MAX,
           header' = [header EXCEPT ![r].id = n]
    PROVE  /\ header' \in [Pool -> [id : 0..UINT_MAX, seqno : Nat, birth : Nat]]
           /\ header'[r].id = n
           /\ \A p \in Pool : /\ header'[p].seqno = header[p].seqno
                              /\ header'[p].birth = header[p].birth
                              /\ p # r => header'[p] = header[p]
<1>1. header[r] \in [id : 0..UINT_MAX, seqno : Nat, birth : Nat]
  BY DEF TypeOK
<1>2. DEFINE h == [header[r] EXCEPT !.id = n]
<1>3. /\ h \in [id : 0..UINT_MAX, seqno : Nat, birth : Nat]
      /\ h.id = n /\ h.seqno = header[r].seqno /\ h.birth = header[r].birth
  BY <1>1
<1>4. header' = [header EXCEPT ![r] = h]
  OBVIOUS
<1> HIDE DEF h
<1>5. header' \in [Pool -> [id : 0..UINT_MAX, seqno : Nat, birth : Nat]]
  BY <1>3, <1>4 DEF TypeOK
<1>6. header'[r] = h /\ \A p \in Pool : p # r => header'[p] = header[p]
  BY <1>4 DEF TypeOK
<1> QED BY <1>3, <1>5, <1>6

\* The pc and call of a thread that enters or leaves a call.
LEMMA EnterType ==
    ASSUME TypeOK, NEW t \in Threads, NEW c, NEW label,
           label \in {"idle", "create", "unlock", "delete", "rebind"},
           c \in [pool : Pool \cup {Null}, id : Nat, empty : BOOLEAN],
           Enter(t, label, c)
    PROVE  /\ pc' \in [Threads -> {"idle", "create", "unlock", "delete",
                                   "rebind", "cleanup", "exited"}]
           /\ call' \in [Threads -> [pool : Pool \cup {Null}, id : Nat,
                                     empty : BOOLEAN]]
           /\ pc'[t] = label /\ call'[t] = c
           /\ \A u \in Threads \ {t} : pc'[u] = pc[u] /\ call'[u] = call[u]
  BY DEF TypeOK, Enter

LEMMA LeaveType ==
    ASSUME TypeOK, NEW t \in Threads, Leave(t)
    PROVE  /\ pc' \in [Threads -> {"idle", "create", "unlock", "delete",
                                   "rebind", "cleanup", "exited"}]
           /\ call' \in [Threads -> [pool : Pool \cup {Null}, id : Nat,
                                     empty : BOOLEAN]]
           /\ pc'[t] = "idle"
           /\ \A u \in Threads \ {t} : pc'[u] = pc[u] /\ call'[u] = call[u]
  BY EnterType, Constants DEF Leave, NoCall

\* choose_arena changes the thread's arena array, the pool's arenas and their
\* numbers of threads, and nothing else of what is typed here.
LEMMA ChooseArenaType ==
    ASSUME TypeOK, NEW t \in Threads, NEW p \in Pool, header[p].id \in Id,
           ChooseArena(t, p)
    PROVE  /\ alen' \in [Threads -> Nat]
           /\ aslot' \in [Threads -> [Id -> ArenaSlot]]
           /\ arenas' \in [Pool -> SUBSET Ind]
           /\ nthreads' \in [Pool -> [Ind -> Int]]
<1> USE DEF TypeOK
<1>1. alen' \in [Threads -> Nat]
  <2>1. Extended(alen[t], header[p].id) \in Nat
    BY ExtendedType
  <2> QED BY <2>1 DEF ChooseArena
<1>2. CASE Remembers(t, p)
  BY <1>1, <1>2 DEF ChooseArena
<1>3. CASE ~Remembers(t, p)
  <2>1. PICK k \in Ind :
          /\ ChooseArenaHard(p, k)
          /\ nthreads' = [nthreads EXCEPT ![p][k] = @ + 1]
          /\ aslot' = [aslot EXCEPT ![t][header[p].id] =
               [seqno |-> header[p].seqno,
                arena |-> {[pool |-> p, birth |-> header[p].birth,
                            ind |-> k]}]]
    BY <1>3 DEF ChooseArena
  <2>2. arenas' \in [Pool -> SUBSET Ind]
    <3>1. arenas' = arenas \/ arenas' = [arenas EXCEPT ![p] = @ \cup {k}]
      BY <2>1 DEF ChooseArenaHard
    <3>2. arenas[p] \cup {k} \in SUBSET Ind
      OBVIOUS
    <3> QED BY <3>1, <3>2
  <2>3. nthreads' \in [Pool -> [Ind -> Int]]
    BY <2>1
  <2>4. [seqno |-> header[p].seqno,
         arena |-> {[pool |-> p, birth |-> header[p].birth, ind |-> k]}]
           \in ArenaSlot
    BY DEF ArenaSlot, Arena
  <2>5. aslot' \in [Threads -> [Id -> ArenaSlot]]
    BY <2>1, <2>4
  <2> QED BY <1>1, <2>2, <2>3, <2>5
<1> QED BY <1>2, <1>3

LEMMA TcacheExtendType ==
    ASSUME TypeOK, NEW t \in Threads, NEW p \in Pool, header[p].id \in Id,
           TcacheExtend(t, p)
    PROVE  tlen' \in [Threads -> Nat]
<1>1. Extended(tlen[t], header[p].id) \in Nat
  BY ExtendedType DEF TypeOK
<1> QED BY <1>1 DEF TcacheExtend, TypeOK

LEMMA FreshSlotType ==
    ASSUME TypeOK, NEW t \in Threads, NEW p \in Pool, header[p].id \in Id
    PROVE  FreshSlot(t, p) \in TcacheSlot
<1>1. tslot[t][header[p].id] \in TcacheSlot
  BY DEF TypeOK
<1> QED BY <1>1 DEF FreshSlot, Emptied, TcacheSlot

LEMMA DisabledSlotsType ==
    ASSUME NEW S \in [Id -> TcacheSlot]
    PROVE  DisabledSlots(S) \in [Id -> TcacheSlot]
<1> SUFFICES ASSUME NEW i \in Id
             PROVE  DisabledSlots(S)[i] \in TcacheSlot
  BY DEF DisabledSlots
<1>1. S[i] \in TcacheSlot
  OBVIOUS
<1> QED BY <1>1 DEF DisabledSlots, Emptied, TcacheSlot

\* Writing one slot of one thread's array.
LEMMA SlotWritten ==
    ASSUME NEW S, NEW f \in [Threads -> [Id -> S]], NEW g,
           NEW t \in Threads, NEW i \in Id, NEW s \in S,
           g = [f EXCEPT ![t][i] = s]
    PROVE  /\ g \in [Threads -> [Id -> S]] /\ g[t][i] = s
           /\ \A u \in Threads : \A j \in Id : u # t \/ j # i => g[u][j] = f[u][j]
<1>1. g = [f EXCEPT ![t] = [f[t] EXCEPT ![i] = s]]
  OBVIOUS
<1>2. [f[t] EXCEPT ![i] = s] \in [Id -> S]
  OBVIOUS
<1> QED BY <1>1, <1>2

\* A write beside the array changes nothing.
LEMMA SlotMissed ==
    ASSUME NEW S, NEW f \in [Threads -> [Id -> S]], NEW g,
           NEW t \in Threads, NEW i, i \notin Id, NEW s,
           g = [f EXCEPT ![t][i] = s]
    PROVE  g = f
<1>1. g = [f EXCEPT ![t] = [f[t] EXCEPT ![i] = s]]
  OBVIOUS
<1>2. [f[t] EXCEPT ![i] = s] = f[t]
  OBVIOUS
<1> QED BY <1>1, <1>2

LEMMA SetTslotType ==
    ASSUME TypeOK, NEW t \in Threads, NEW p, header[p].id \in Id,
           NEW s \in TcacheSlot, SetTslot(t, p, s)
    PROVE  /\ tslot' \in [Threads -> [Id -> TcacheSlot]]
           /\ tslot'[t][header[p].id] = s
           /\ \A u \in Threads : \A j \in Id :
                 u # t \/ j # header[p].id => tslot'[u][j] = tslot[u][j]
  BY SlotWritten DEF SetTslot, TypeOK

\* Every step keeps the types.
LEMMA NextType == TypeInv /\ [Next]_vars => TypeInv'
<1> SUFFICES ASSUME TypeOK, Calls, [Next]_vars PROVE TypeOK' /\ Calls'
  BY DEF TypeInv
<1> USE Constants DEF At, Running
<1>1. ASSUME NEW t \in Threads, NEW r \in Regions, NEW empty \in BOOLEAN,
             CreateLock(t, r, empty)
      PROVE  TypeOK' /\ Calls'
  <2>0. ASSUME NEW i \in Nat, i # 0
        PROVE  LET c == [pool |-> r, id |-> i, empty |-> empty]
               IN  /\ c \in [pool : {r}, id : Nat, empty : BOOLEAN]
                   /\ c.id = i
    OBVIOUS
  <2>1. \E label, c : /\ Enter(t, label, c) /\ label \in {"create", "unlock"}
                      /\ c \in [pool : {r}, id : Nat, empty : BOOLEAN]
                      /\ c.id # 0
                      /\ label = "create" => c.id \in Id
    <3>1. CASE \E i \in Unused :
                 Enter(t, "create", [pool |-> r, id |-> i, empty |-> empty])
      BY <3>1 DEF Unused, Id
    <3>2. CASE /\ npools < POOLS_MAX
               /\ Enter(t, "create", [pool |-> r, id |-> npools, empty |-> empty])
      <4>1. npools \in Id /\ npools \in Nat /\ npools # 0
        BY <3>2, SizeAssumption DEF TypeOK, Calls, Id
      <4> QED BY <3>2, <4>1
    <3>3. CASE Enter(t, "unlock", [pool |-> r, id |-> UINT_MAX, empty |-> empty])
      BY <3>3
    <3> QED BY <1>1, <3>1, <3>2, <3>3 DEF CreateLock
  <2>2. PICK label, c : /\ Enter(t, label, c) /\ label \in {"create", "unlock"}
                        /\ c \in [pool : {r}, id : Nat, empty : BOOLEAN]
                        /\ c.id # 0
                        /\ label = "create" => c.id \in Id
    BY <2>1
  <2>3. c \in [pool : Pool \cup {Null}, id : Nat, empty : BOOLEAN] /\ c.pool = r
    BY <2>2
  <2>4. npools' \in Nat /\ npools' >= 1 /\ pools_lock' = t
    <3>1. npools' = npools \/ npools' = npools * 2
      BY <1>1 DEF CreateLock
    <3> QED BY <1>1, <3>1 DEF CreateLock, TypeOK, Calls
  <2>5. TypeOK'
    BY <1>1, <2>2, <2>3, <2>4, EnterType DEF CreateLock, TypeOK, tsd
  <2>6. Calls'
    BY <1>1, <2>2, <2>3, <2>4, EnterType DEF CreateLock, Calls
  <2> QED BY <2>5, <2>6
<1>2. ASSUME NEW t \in Threads, RegisterPool(t) PROVE TypeOK' /\ Calls'
  <2>1. call[t].pool \in Regions /\ call[t].id \in Id /\ call[t].id # 0
    BY <1>2 DEF RegisterPool, Calls
  <2>2. header' \in [Pool -> [id : 0..UINT_MAX, seqno : Nat, birth : Nat]]
    BY <1>2, <2>1 DEF RegisterPool, TypeOK
  <2>3. pools' \in [Id -> Pool \cup {Null}]
    BY <1>2, <2>1 DEF RegisterPool, TypeOK
  <2>4. arenas' \in [Pool -> SUBSET Ind]
    <3>1. (IF call[t].empty THEN {0} ELSE arenas[call[t].pool]) \in SUBSET Ind
      BY <2>1 DEF TypeOK
    <3> QED BY <1>2, <2>1, <3>1 DEF RegisterPool, TypeOK
  <2>5. nthreads' \in [Pool -> [Ind -> Int]]
    BY <1>2, <2>1 DEF RegisterPool, TypeOK
  <2>6. pool_seqno' \in Nat /\ npools_cnt' \in Int
    BY <1>2 DEF RegisterPool, NextSeqno, TypeOK
  <2>7. TypeOK'
    BY <1>2, <2>2, <2>3, <2>4, <2>5, <2>6 DEF RegisterPool, TypeOK, tsd
  <2>8. Calls'
    BY <1>2, <2>1, PoolAssumption DEF RegisterPool, TypeOK, Calls
  <2> QED BY <2>7, <2>8
<1>3. ASSUME NEW t \in Threads, CreateFails(t) PROVE TypeOK' /\ Calls'
  <2> DEFINE r == call[t].pool
             h == FailedHeader(t, r)
  <2>1. r \in Regions /\ call[t].id \in Id /\ call[t].id # 0
    BY <1>3 DEF CreateFails, Calls
  <2>2. h \in [id : 0..UINT_MAX, seqno : Nat, birth : Nat] /\ h.id = call[t].id
    BY <2>1 DEF FailedHeader, TypeOK
  <2> HIDE DEF h
  <2>3. /\ header' \in [Pool -> [id : 0..UINT_MAX, seqno : Nat, birth : Nat]]
        /\ header'[r] = h /\ \A p \in Pool : p # r => header'[p] = header[p]
    BY <1>3, <2>1, <2>2 DEF CreateFails, TypeOK, h
  <2>4. arenas' \in [Pool -> SUBSET Ind] /\ pools_lock' \in Threads \cup {Null}
    BY <1>3, <2>1 DEF CreateFails, TypeOK
  <2>5. TypeOK'
    BY <1>3, <2>3, <2>4 DEF CreateFails, TypeOK, tsd
  <2>6. Calls'
    BY <1>3, <2>1, <2>2, <2>3, PoolAssumption DEF CreateFails, TypeOK, Calls
  <2> QED BY <2>5, <2>6
<1>4. ASSUME NEW t \in Threads, CreateUnlock(t) PROVE TypeOK' /\ Calls'
  <2>1. TypeOK'
    BY <1>4, LeaveType DEF CreateUnlock, TypeOK, shared, tsd
  <2>2. Calls'
    BY <1>4, LeaveType DEF CreateUnlock, Calls, shared
  <2> QED BY <2>1, <2>2
<1>5. ASSUME NEW t \in Threads, NEW r \in Regions, DeleteRead(t, r)
      PROVE  TypeOK' /\ Calls'
  <2> DEFINE c == [pool |-> r, id |-> header[r].id, empty |-> TRUE]
  <2>1. /\ c \in [pool : Pool \cup {Null}, id : Nat, empty : BOOLEAN]
        /\ c.pool = r /\ c.id # 0 /\ Enter(t, "delete", c)
    BY <1>5 DEF DeleteRead, TypeOK, Calls
  <2> HIDE DEF c
  <2>2. TypeOK'
    BY <1>5, <2>1, EnterType DEF DeleteRead, TypeOK, shared, tsd
  <2>3. Calls'
    BY <1>5, <2>1, EnterType DEF DeleteRead, Calls, shared
  <2> QED BY <2>2, <2>3
<1>6. ASSUME NEW t \in Threads, Delete(t) PROVE TypeOK' /\ Calls'
  <2>1. call[t].pool \in Regions /\ call[t].id # 0 /\ call[t].id \in Nat
    BY <1>6 DEF Delete, Calls, TypeOK
  <2>2. /\ pools' \in [Id -> Pool \cup {Null}] /\ npools_cnt' \in Int
        /\ header' \in [Pool -> [id : 0..UINT_MAX, seqno : Nat, birth : Nat]]
        /\ \A p \in Pool : header'[p] = header[p] \/ (p = call[t].pool /\ header'[p].id = UINT_MAX)
    <3>1. CASE UNCHANGED <<pools, header, npools_cnt>>
      BY <3>1 DEF TypeOK
    <3>2. CASE /\ pools' = [pools EXCEPT ![call[t].id] = Null]
               /\ header' = [header EXCEPT ![call[t].pool].id = UINT_MAX]
               /\ npools_cnt' = npools_cnt - 1
      <4>1. /\ header' \in [Pool -> [id : 0..UINT_MAX, seqno : Nat, birth : Nat]]
            /\ \A p \in Pool : header'[p] = header[p] \/ (p = call[t].pool /\ header'[p].id = UINT_MAX)
        <5>1. UINT_MAX \in 0..UINT_MAX /\ call[t].pool \in Pool
          BY <2>1
        <5> QED BY <5>1, <3>2, HeaderId
      <4>2. pools' \in [Id -> Pool \cup {Null}]
        BY <3>2 DEF TypeOK
      <4>3. npools_cnt' \in Int
        BY <3>2 DEF TypeOK
      <4> QED BY <4>1, <4>2, <4>3
    <3> QED BY <1>6, <3>1, <3>2 DEF Delete
  <2>3. TypeOK'
    BY <1>6, <2>2, LeaveType DEF Delete, TypeOK, tsd
  <2>4. pools'[0] = BasePool /\ npools' >= 1 /\ header'[BasePool] = header[BasePool]
    BY <1>6, <2>1, <2>2, PoolAssumption DEF Delete, TypeOK, Calls
  <2>5. \A r \in Regions : header'[r].id # 0
    BY <2>1, <2>2 DEF Calls
  <2>6. Calls'
    BY <1>6, <2>4, <2>5, LeaveType DEF Calls, Delete
  <2> QED BY <2>3, <2>6
<1>7. ASSUME NEW t \in Threads, NEW p \in Allocated, MallocCached(t, p)
      PROVE  TypeOK' /\ Calls'
  <2>1. p \in Pool /\ header[p].id \in Id
    BY <1>7, UsableId, AllocatedAssumption DEF MallocCached, Pool
  <2>2. tslot' \in [Threads -> [Id -> TcacheSlot]] /\ tlen' \in [Threads -> Nat]
    BY <1>7, <2>1, SetTslotType, FreshSlotType, TcacheExtendType
       DEF MallocCached
  <2>3. strayed' \in BOOLEAN
    BY <1>7 DEF MallocCached
  <2>4. TypeOK'
    BY <1>7, <2>2, <2>3 DEF MallocCached, TypeOK, shared
  <2> QED BY <1>7, <2>4 DEF MallocCached, Calls, shared
<1>8. ASSUME NEW t \in Threads, NEW p \in Allocated, MallocFirst(t, p)
      PROVE  TypeOK' /\ Calls'
  <2>1. p \in Pool /\ header[p].id \in Id
    BY <1>8, UsableId, AllocatedAssumption DEF MallocFirst, Pool
  <2>2. /\ tlen' \in [Threads -> Nat] /\ alen' \in [Threads -> Nat]
        /\ aslot' \in [Threads -> [Id -> ArenaSlot]]
        /\ arenas' \in [Pool -> SUBSET Ind]
        /\ nthreads' \in [Pool -> [Ind -> Int]]
    BY <1>8, <2>1, ChooseArenaType, TcacheExtendType DEF MallocFirst
  <2>3. tslot' \in [Threads -> [Id -> TcacheSlot]]
    <3>1. CASE SetTslot(t, p, FreshSlot(t, p))
      BY <2>1, <3>1, SetTslotType, FreshSlotType
    <3>2. ASSUME NEW a \in Chosen(t, p),
                 SetTslot(t, a.pool,
                     [seqno |-> header[a.pool].seqno, disabled |-> FALSE,
                      tcache |-> {[pool |-> a.pool, birth |-> a.birth]}])
          PROVE  tslot' \in [Threads -> [Id -> TcacheSlot]]
      <4> DEFINE s == [seqno |-> header[a.pool].seqno, disabled |-> FALSE,
                       tcache |-> {[pool |-> a.pool, birth |-> a.birth]}]
      <4>1. a \in Arena
        <5>1. aslot'[t] \in [Id -> ArenaSlot]
          BY <2>2
        <5>2. aslot'[t][header[p].id] \in ArenaSlot
          BY <2>1, <5>1
        <5>3. aslot'[t][header[p].id].arena \in SUBSET Arena
          BY <5>2 DEF ArenaSlot
        <5> QED BY <5>3 DEF Chosen
      <4>2. s \in TcacheSlot
        <5>1. a.pool \in Pool /\ a.birth \in Nat
          BY <4>1 DEF Arena
        <5>2. header[a.pool].seqno \in Nat
          BY <5>1 DEF TypeOK
        <5>3. [pool |-> a.pool, birth |-> a.birth] \in Tcache
          BY <5>1 DEF Tcache
        <5> QED BY <5>2, <5>3 DEF TcacheSlot
      <4> HIDE DEF s
      <4>3. tslot' = [tslot EXCEPT ![t] =
                        [tslot[t] EXCEPT ![header[a.pool].id] = s]]
        BY <3>2 DEF SetTslot, s
      <4>4. [tslot[t] EXCEPT ![header[a.pool].id] = s] \in [Id -> TcacheSlot]
        BY <4>2 DEF TypeOK
      <4> QED BY <4>3, <4>4 DEF TypeOK
    <3> QED BY <1>8, <3>1, <3>2 DEF MallocFirst
  <2>4. strayed' \in BOOLEAN
    BY <1>8 DEF MallocFirst
  <2>5. TypeOK'
    BY <1>8, <2>2, <2>3, <2>4 DEF MallocFirst, TypeOK, shared
  <2> QED BY <1>8, <2>5 DEF MallocFirst, Calls, shared
<1>9. ASSUME NEW t \in Threads, NEW p \in Allocated, MallocUncached(t, p)
      PROVE  TypeOK' /\ Calls'
  <2>1. p \in Pool /\ header[p].id \in Id
    BY <1>9, UsableId, AllocatedAssumption DEF MallocUncached, Pool
  <2>2. /\ tlen' \in [Threads -> Nat] /\ alen' \in [Threads -> Nat]
        /\ aslot' \in [Threads -> [Id -> ArenaSlot]]
        /\ arenas' \in [Pool -> SUBSET Ind]
        /\ nthreads' \in [Pool -> [Ind -> Int]]
    BY <1>9, <2>1, ChooseArenaType, TcacheExtendType DEF MallocUncached
  <2>3. tslot' \in [Threads -> [Id -> TcacheSlot]]
    <3>1. CASE SetTslot(t, p, FreshSlot(t, p))
      BY <2>1, <3>1, SetTslotType, FreshSlotType
    <3>2. CASE tslot' = [tslot EXCEPT ![t] =
                 DisabledSlots([@ EXCEPT ![header[p].id] = FreshSlot(t, p)])]
      <4>1. [tslot[t] EXCEPT ![header[p].id] = FreshSlot(t, p)]
              \in [Id -> TcacheSlot]
        BY <2>1, FreshSlotType DEF TypeOK
      <4>2. DisabledSlots([tslot[t] EXCEPT ![header[p].id] = FreshSlot(t, p)])
              \in [Id -> TcacheSlot]
        BY <4>1, DisabledSlotsType
      <4> QED BY <3>2, <4>2 DEF TypeOK
    <3> QED BY <1>9, <3>1, <3>2 DEF MallocUncached
  <2>4. strayed' \in BOOLEAN
    BY <1>9 DEF MallocUncached
  <2>5. TypeOK'
    BY <1>9, <2>2, <2>3, <2>4 DEF MallocUncached, TypeOK, shared
  <2> QED BY <1>9, <2>5 DEF MallocUncached, Calls, shared
<1>10. ASSUME NEW t \in Threads, NEW p \in Allocated, Free(t, p)
       PROVE  TypeOK' /\ Calls'
  <2>1. p \in Pool /\ header[p].id \in Id
    BY <1>10, UsableId, AllocatedAssumption DEF Free, Pool
  <2>2. tslot' \in [Threads -> [Id -> TcacheSlot]] /\ tlen' \in [Threads -> Nat]
    BY <1>10, <2>1, SetTslotType, FreshSlotType, TcacheExtendType DEF Free
  <2>3. strayed' \in BOOLEAN
    BY <1>10 DEF Free
  <2>4. TypeOK'
    BY <1>10, <2>2, <2>3 DEF Free, TypeOK, shared
  <2> QED BY <1>10, <2>4 DEF Free, Calls, shared
<1>11. ASSUME NEW t \in Threads, NEW on \in BOOLEAN, TcacheEnabledSet(t, on)
       PROVE  TypeOK' /\ Calls'
  <2>1. tslot[t] \in [Id -> TcacheSlot]
    BY DEF TypeOK
  <2>2. [i \in Id |-> [tslot[t][i] EXCEPT !.disabled = FALSE]]
           \in [Id -> TcacheSlot]
    <3>1. ASSUME NEW s \in TcacheSlot
          PROVE  [s EXCEPT !.disabled = FALSE] \in TcacheSlot
      BY DEF TcacheSlot
    <3> QED BY <2>1, <3>1
  <2>3. DisabledSlots(tslot[t]) \in [Id -> TcacheSlot]
    BY <2>1, DisabledSlotsType
  <2>4. tslot' \in [Threads -> [Id -> TcacheSlot]]
    <3>1. CASE on
      BY <1>11, <2>2, <3>1 DEF TcacheEnabledSet, TypeOK
    <3>2. CASE ~on
      BY <1>11, <2>3, <3>2 DEF TcacheEnabledSet, TypeOK
    <3> QED BY <3>1, <3>2
  <2>5. enabled' \in [Threads -> BOOLEAN]
    <3>1. enabled' = [enabled EXCEPT ![t] = on]
      BY <1>11 DEF TcacheEnabledSet
    <3>2. enabled \in [Threads -> BOOLEAN]
      BY DEF TypeOK
    <3> QED BY ONLY <3>1, <3>2, on \in BOOLEAN, t \in Threads
  <2>6. TypeOK'
    BY <1>11, <2>4, <2>5 DEF TcacheEnabledSet, TypeOK, shared
  <2> QED BY <1>11, <2>6 DEF TcacheEnabledSet, Calls, shared
<1>12. ASSUME NEW t \in Threads, TcacheFlush(t) PROVE TypeOK' /\ Calls'
  <2>1. tslot[t][0] \in TcacheSlot
    BY DEF TypeOK
  <2>2. Emptied(tslot[t][0], FALSE) \in TcacheSlot
    BY <2>1 DEF Emptied, TcacheSlot
  <2>3. PICK s \in TcacheSlot : tslot' = [tslot EXCEPT ![t][0] = s]
    BY <1>12, <2>1, <2>2 DEF TcacheFlush
  <2>4. tslot' \in [Threads -> [Id -> TcacheSlot]]
    BY <2>3, SlotWritten DEF TypeOK
  <2>5. TypeOK'
    BY <1>12, <2>4 DEF TcacheFlush, TypeOK, shared
  <2> QED BY <1>12, <2>5 DEF TcacheFlush, Calls, shared
<1>13. ASSUME NEW t \in Threads, NEW i \in Id, NEW k \in Ind,
              ThreadArenaCtl(t, i, k)
       PROVE  TypeOK' /\ Calls'
  <2>1. pools[i] \in Pool /\ header[pools[i]].id \in Id
    BY <1>13, UsableId DEF ThreadArenaCtl, TypeOK
  <2>2. /\ alen' \in [Threads -> Nat] /\ tlen' \in [Threads -> Nat]
        /\ aslot' \in [Threads -> [Id -> ArenaSlot]]
        /\ arenas' \in [Pool -> SUBSET Ind]
        /\ nthreads' \in [Pool -> [Ind -> Int]]
    BY <1>13, <2>1, ChooseArenaType, TcacheExtendType DEF ThreadArenaCtl
  <2> DEFINE c == [pool |-> pools[i], id |-> k, empty |-> TRUE]
  <2>3. /\ c \in [pool : Pool \cup {Null}, id : Nat, empty : BOOLEAN]
        /\ c.pool \in Pool /\ c.id \in Ind /\ Enter(t, "rebind", c)
    BY <1>13, <2>1 DEF ThreadArenaCtl
  <2> HIDE DEF c
  <2>4. TypeOK'
    BY <1>13, <2>2, <2>3, EnterType DEF ThreadArenaCtl, TypeOK, shared
  <2>5. Calls'
    BY <1>13, <2>3, EnterType, SMTT(40) DEF ThreadArenaCtl, Calls, shared
  <2> QED BY <2>4, <2>5
<1>14. ASSUME NEW t \in Threads, Rebind(t) PROVE TypeOK' /\ Calls'
  <2> DEFINE p == call[t].pool
             k == call[t].id
             i == header[p].id
  <2>1. p \in Pool /\ k \in Ind
    BY <1>14, ZenonT(40) DEF Rebind, Calls
  <2>2. /\ arenas' \in [Pool -> SUBSET Ind]
        /\ nthreads' \in [Pool -> [Ind -> Int]]
        /\ aslot' \in [Threads -> [Id -> ArenaSlot]]
        /\ tslot' \in [Threads -> [Id -> TcacheSlot]]
    <3>1. CASE UNCHANGED <<arenas, nthreads, aslot, tslot>>
      BY <3>1 DEF TypeOK
    <3>2. ASSUME NEW here \in aslot[t][i].arena,
                 arenas' = [arenas EXCEPT ![p] = @ \cup {k}],
                 nthreads' = [nthreads EXCEPT ![p] = Moved(@, here.ind, k)],
                 tslot' = [tslot EXCEPT ![t][i] =
                    IF tslot[t][i].tcache = {} THEN tslot[t][i]
                    ELSE [tslot[t][i] EXCEPT !.seqno = header[p].seqno]],
                 aslot' = [aslot EXCEPT ![t][0] =
                    [seqno |-> header[p].seqno,
                     arena |-> {[pool |-> p, birth |-> header[p].birth,
                                 ind |-> k]}]]
          PROVE  /\ arenas' \in [Pool -> SUBSET Ind]
                 /\ nthreads' \in [Pool -> [Ind -> Int]]
                 /\ aslot' \in [Threads -> [Id -> ArenaSlot]]
                 /\ tslot' \in [Threads -> [Id -> TcacheSlot]]
      <4>1. arenas' \in [Pool -> SUBSET Ind]
        <5>1. arenas[p] \cup {k} \in SUBSET Ind
          BY <2>1, SMTT(40) DEF TypeOK
        <5> QED BY <3>2, <5>1 DEF TypeOK
      <4>2. nthreads' \in [Pool -> [Ind -> Int]]
        <5>1. nthreads[p] \in [Ind -> Int]
          BY <2>1 DEF TypeOK
        <5>2. Moved(nthreads[p], here.ind, k) \in [Ind -> Int]
          BY <5>1 DEF Moved
        <5> QED BY <3>2, <5>2 DEF TypeOK
      <4>3. aslot' \in [Threads -> [Id -> ArenaSlot]]
        <5>1. header[p].seqno \in Nat /\ header[p].birth \in Nat
          BY <2>1 DEF TypeOK
        <5>2. [seqno |-> header[p].seqno,
               arena |-> {[pool |-> p, birth |-> header[p].birth, ind |-> k]}]
                 \in ArenaSlot
          BY <2>1, <5>1 DEF ArenaSlot, Arena
        <5> QED BY <3>2, <5>2, SlotWritten DEF TypeOK
      <4>4. tslot' \in [Threads -> [Id -> TcacheSlot]]
        <5>1. CASE i \in Id
          <6>1. tslot[t][i] \in TcacheSlot /\ header[p].seqno \in Nat
            BY <2>1, <5>1 DEF TypeOK
          <6>2. (IF tslot[t][i].tcache = {} THEN tslot[t][i]
                 ELSE [tslot[t][i] EXCEPT !.seqno = header[p].seqno])
                  \in TcacheSlot
            BY <6>1 DEF TcacheSlot
          <6> QED BY <3>2, <5>1, <6>2, SlotWritten, SMTT(40) DEF TypeOK
        <5>2. CASE i \notin Id
          <6>1. PICK s : tslot' = [tslot EXCEPT ![t][i] = s]
            BY <3>2
          <6>2. tslot \in [Threads -> [Id -> TcacheSlot]]
            BY DEF TypeOK
          <6> HIDE DEF i
          <6>3. tslot' = tslot
            BY <5>2, <6>1, <6>2, SlotMissed, SMTT(40)
          <6> QED BY <6>2, <6>3, SMTT(40)
        <5> QED BY <5>1, <5>2, SMTT(40)
      <4> QED BY <4>1, <4>2, <4>3, <4>4, SMTT(40)
    <3> QED BY <1>14, <3>1, <3>2 DEF Rebind
  <2>3. TypeOK'
    BY <1>14, <2>2, LeaveType, SMTT(40) DEF Rebind, TypeOK, shared
  <2>4. Calls'
    BY <1>14, LeaveType DEF Rebind, Calls, shared
  <2> QED BY <2>3, <2>4
<1>15. ASSUME NEW t \in Threads, ThreadExit(t) PROVE TypeOK' /\ Calls'
  <2>1. TypeOK'
    BY <1>15 DEF ThreadExit, TypeOK, shared, tsd
  <2> QED BY <1>15, <2>1 DEF ThreadExit, Calls, TypeOK, shared
<1>16. ASSUME TcacheThreadCleanup PROVE TypeOK' /\ Calls'
  <2>1. tslot' \in [Threads -> [Id -> TcacheSlot]]
    BY <1>16 DEF TcacheThreadCleanup, EmptyT, TcacheSlot, TypeOK
  <2>2. TypeOK'
    BY <1>16, <2>1 DEF TcacheThreadCleanup, TypeOK, shared
  <2> QED BY <1>16, <2>2 DEF TcacheThreadCleanup, Calls, TypeOK, shared
<1>17. ASSUME ArenasCleanup PROVE TypeOK' /\ Calls'
  <2>1. ASSUME NEW S \in SUBSET Id PROVE Cardinality(S) \in Nat
    <3>1. IsFiniteSet(Id)
      BY FS_Interval, SizeAssumption DEF Id
    <3> QED BY <3>1, FS_Subset, FS_CardinalityType
  <2>2. nthreads' \in [Pool -> [Ind -> Int]]
    <3> DEFINE S(p, k) == {i \in OwnSlots : \E a \in aslot[Main][i].arena :
                                               a.pool = p /\ a.ind = k}
    <3>1. \A p \in Pool, k \in Ind : Cardinality(S(p, k)) \in Nat
      BY <2>1 DEF OwnSlots
    <3>2. nthreads' = [p \in Pool |-> [k \in Ind |->
                         nthreads[p][k] - Cardinality(S(p, k))]]
      BY <1>17 DEF ArenasCleanup
    <3> HIDE DEF S
    <3>3. \A p \in Pool, k \in Ind : nthreads[p][k] \in Int
      BY DEF TypeOK
    <3> QED BY <3>1, <3>2, <3>3
  <2>3. aslot' \in [Threads -> [Id -> ArenaSlot]]
    BY <1>17 DEF ArenasCleanup, EmptyA, ArenaSlot, TypeOK
  <2>4. /\ header' \in [Pool -> [id : 0..UINT_MAX, seqno : Nat, birth : Nat]]
        /\ header'[BasePool].id = UINT_MAX
        /\ \A r \in Regions : header'[r] = header[r]
    <3>1. UINT_MAX \in 0..UINT_MAX
      OBVIOUS
    <3> QED BY <1>17, <3>1, HeaderId, PoolAssumption DEF ArenasCleanup
  <2>5. TypeOK'
    BY <1>17, <2>2, <2>3, <2>4 DEF ArenasCleanup, TypeOK
  <2>6. Calls'
    BY <1>17, <2>4 DEF ArenasCleanup, Calls, TypeOK
  <2> QED BY <2>5, <2>6
<1>18. CASE UNCHANGED vars
  BY <1>18 DEF vars, shared, tsd, TypeOK, Calls
<1>19. ASSUME NEW t \in Threads, NEW p \in Allocated, MallocLarge(t, p)
       PROVE  TypeOK' /\ Calls'
  <2>1. p \in Pool /\ header[p].id \in Id
    BY <1>19, UsableId, AllocatedAssumption DEF MallocLarge, Pool
  <2>2. /\ alen' \in [Threads -> Nat]
        /\ aslot' \in [Threads -> [Id -> ArenaSlot]]
        /\ arenas' \in [Pool -> SUBSET Ind]
        /\ nthreads' \in [Pool -> [Ind -> Int]]
    BY <1>19, <2>1, ChooseArenaType DEF MallocLarge
  <2>3. strayed' \in BOOLEAN
    BY <1>19 DEF MallocLarge
  <2>4. TypeOK'
    BY <1>19, <2>2, <2>3 DEF MallocLarge, TypeOK, shared
  <2> QED BY <1>19, <2>4 DEF MallocLarge, Calls, shared
<1>20. ASSUME NEW t \in Threads, Thread(t) PROVE TypeOK' /\ Calls'
  BY <1>1, <1>2, <1>3, <1>4, <1>5, <1>6, <1>7, <1>8, <1>9, <1>10, <1>11,
     <1>12, <1>13, <1>14, <1>15, <1>19, <1>20, Zenon DEF Thread
<1> QED BY <1>16, <1>17, <1>18, <1>20 DEF Next

\* Every variable keeps its type, for any number of threads, pools and
\* arenas, and a call always names the pool it was made for.
THEOREM PoolTypes == Spec => []TypeOK
<1>1. Spec => []TypeInv
  BY InitType, NextType, PTL DEF Spec
<1>2. TypeInv => TypeOK
  BY DEF TypeInv
<1> QED BY <1>1, <1>2, PTL

(***************************************************************************)
(* No allocation strays                                                    *)
(***************************************************************************)

\* What a slot holds for the present pool of its number is that pool's.
LEMMA FilledOwn ==
    ASSUME TypeOK, Calls, Numbers, NEW p \in Pool, header[p].id \in Id,
           NEW x, Filled(header[p].id, header[p].seqno, x)
    PROVE  x.pool = p /\ x.birth = header[p].birth
<1>1. CASE p = BasePool
  <2>1. header[p].id = 0
    BY <1>1 DEF Calls, Id, UINT_MAX
  <2> QED BY <1>1, <2>1 DEF Filled, Numbers
<1>2. CASE p \in Regions
  BY <1>2 DEF Filled, Calls, Numbers
<1> QED BY <1>1, <1>2 DEF Pool

\* A pointer made for a usable pool may stand in its slot.
LEMMA FilledNew ==
    ASSUME TypeOK, Calls, Numbers, Listed, NEW p \in Pool, Usable(p), NEW x,
           x.pool = p, x.birth = header[p].birth
    PROVE  Filled(header[p].id, header[p].seqno, x)
<1>1. header[p].id \in Id /\ pools[header[p].id] = p
  BY DEF Usable, Registered
<1>2. CASE p = BasePool
  <2>1. header[p].id = 0
    BY <1>1, <1>2 DEF Calls, Id, UINT_MAX
  <2> QED BY <1>2, <2>1 DEF Filled, Numbers
<1>3. CASE p \in Regions
  <2>1. header[p].id # 0 /\ header[p].seqno # 0 /\ header[p].seqno < pool_seqno
    BY <1>1, <1>3 DEF Calls, Numbers, Listed
  <2>2. \A r \in Regions : header[r].seqno = header[p].seqno => p = r
    BY <1>3, <2>1 DEF Numbers
  <2> QED BY <1>3, <2>1, <2>2 DEF Filled, Numbers
<1> QED BY <1>2, <1>3 DEF Pool

\* choose_arena: the slots stay filled and the arena is one of the pool.
LEMMA ChooseArenaFilled ==
    ASSUME TypeOK, Calls, Numbers, Listed, ArenaSlotsFilled, NEW t \in Threads,
           NEW p \in Pool, Usable(p), ChooseArena(t, p)
    PROVE  /\ \A u \in Threads : \A i \in Id : \A a \in aslot'[u][i].arena :
                 Filled(i, aslot'[u][i].seqno, a)
           /\ \A a \in Chosen(t, p) : a.pool = p /\ a.birth = header[p].birth
           /\ ~Stray(Chosen(t, p), p)
<1>1. header[p].id \in Id
  BY UsableId
<1>2. /\ \A u \in Threads : \A i \in Id : \A a \in aslot'[u][i].arena :
            Filled(i, aslot'[u][i].seqno, a)
      /\ \A a \in Chosen(t, p) : a.pool = p /\ a.birth = header[p].birth
  <2>1. CASE Remembers(t, p) /\ aslot' = aslot
    <3>1. \A a \in Chosen(t, p) : Filled(header[p].id, header[p].seqno, a)
      BY <1>1, <2>1 DEF Chosen, Remembers, ArenaSlotsFilled
    <3>2. \A a \in Chosen(t, p) : a.pool = p /\ a.birth = header[p].birth
      BY <1>1, <3>1, FilledOwn
    <3> QED BY <2>1, <3>2 DEF ArenaSlotsFilled
  <2>2. ASSUME NEW k \in Ind,
               aslot' = [aslot EXCEPT ![t][header[p].id] =
                    [seqno |-> header[p].seqno,
                     arena |-> {[pool |-> p, birth |-> header[p].birth,
                                 ind |-> k]}]]
        PROVE  /\ \A u \in Threads : \A i \in Id : \A a \in aslot'[u][i].arena :
                     Filled(i, aslot'[u][i].seqno, a)
               /\ \A a \in Chosen(t, p) : a.pool = p /\ a.birth = header[p].birth
    <3> DEFINE a0 == [pool |-> p, birth |-> header[p].birth, ind |-> k]
               s == [seqno |-> header[p].seqno, arena |-> {a0}]
    <3>1. a0.pool = p /\ a0.birth = header[p].birth /\ a0 \in Arena
      BY DEF Arena, TypeOK
    <3> HIDE DEF a0
    <3>2. s.seqno = header[p].seqno /\ s.arena = {a0} /\ s \in ArenaSlot
      BY <3>1 DEF ArenaSlot, TypeOK
    <3>3. aslot' = [aslot EXCEPT ![t][header[p].id] = s]
      BY <2>2 DEF a0
    <3> HIDE DEF s
    <3>4. /\ aslot'[t][header[p].id] = s
          /\ \A u \in Threads : \A j \in Id :
                u # t \/ j # header[p].id => aslot'[u][j] = aslot[u][j]
      BY <1>1, <3>2, <3>3, SlotWritten DEF TypeOK
    <3>5. Filled(header[p].id, header[p].seqno, a0)
      BY <3>1, FilledNew
    <3> QED BY <3>1, <3>2, <3>4, <3>5 DEF ArenaSlotsFilled, Chosen
  <2> QED BY <2>1, <2>2 DEF ChooseArena
<1> QED BY <1>2 DEF Stray

\* Writing a thread's slot of a pool keeps the slots filled.
LEMMA SetTslotFilled ==
    ASSUME TypeOK, Calls, Numbers, TcacheSlotsFilled, NEW t \in Threads,
           NEW p \in Pool, header[p].id \in Id, NEW s \in TcacheSlot,
           SetTslot(t, p, s),
           \A c \in s.tcache : Filled(header[p].id, s.seqno, c)
    PROVE  \A u \in Threads : \A i \in Id : \A c \in tslot'[u][i].tcache :
               Filled(i, tslot'[u][i].seqno, c)
  BY SetTslotType DEF TcacheSlotsFilled

\* The slot as tcache_get sees it holds only what is the pool's own.
LEMMA FreshSlotOwn ==
    ASSUME TypeOK, Calls, Numbers, TcacheSlotsFilled, NEW t \in Threads,
           NEW p \in Pool, header[p].id \in Id
    PROVE  /\ \A c \in FreshSlot(t, p).tcache :
                 Filled(header[p].id, FreshSlot(t, p).seqno, c)
           /\ ~Stray(FreshSlot(t, p).tcache, p)
<1> DEFINE s == tslot[t][header[p].id]
<1>1. \A c \in s.tcache : Filled(header[p].id, s.seqno, c)
  BY DEF TcacheSlotsFilled
<1>2. CASE s.seqno = header[p].seqno
  <2>1. FreshSlot(t, p) = s
    BY <1>2 DEF FreshSlot
  <2>2. \A c \in s.tcache : c.pool = p /\ c.birth = header[p].birth
    BY <1>1, <1>2, FilledOwn
  <2> QED BY <1>1, <2>1, <2>2 DEF Stray
<1>3. CASE s.seqno # header[p].seqno
  <2>1. FreshSlot(t, p).tcache = {}
    BY <1>3 DEF FreshSlot, Emptied
  <2> QED BY <2>1 DEF Stray
<1> QED BY <1>2, <1>3

\* What is known of every state when thread.pool.<i>.arena is for pool 0.
Own == MovesInBase /\ Numbers /\ ArenaSlotsFilled /\ TcacheSlotsFilled
       /\ NeverStray

\* pools[] of a size below the full one can be doubled.
LEMMA DoubledFits ==
    ASSUME NEW m \in PowersOfTwo, NEW n \in PowersOfTwo, m < n, n <= 32768
    PROVE  m * 2 \in PowersOfTwo /\ m * 2 <= n
  BY DEF PowersOfTwo

\* Every step keeps pools[] and the headers in step.
LEMMA NextListed ==
    ASSUME TypeOK, Calls, Numbers, Listed, [Next]_vars
    PROVE  Listed'
<1> USE Constants DEF At, Running
<1>0. ASSUME UNCHANGED <<pools, header>>,
             npools' \in PowersOfTwo /\ npools' <= POOLS_MAX,
             NEW t \in Threads, NEW label, NEW c, Enter(t, label, c),
             c.pool \in Pool => \A u \in Threads : pc[u] = "create" =>
                                    u = t \/ call[u].pool # c.pool,
             label = "create" =>
                /\ \A i \in Id : pools[i] # c.pool
                /\ \A u \in Threads : call[u].pool # c.pool
      PROVE  Listed'
  <2>1. /\ pc'[t] = label /\ call'[t] = c
        /\ \A u \in Threads \ {t} : pc'[u] = pc[u] /\ call'[u] = call[u]
    BY <1>0 DEF Enter, TypeOK
  <2>2. \A u \in Threads : pc[u] = "create" => call[u].pool \in Pool
    BY DEF Calls
  <2>3. ASSUME NEW u \in Threads, pc'[u] = "create"
        PROVE  /\ \A i \in Id : pools'[i] # call'[u].pool
               /\ \A v \in Threads \ {u} : call'[v].pool # call'[u].pool
    <3>1. CASE u = t
      BY <1>0, <2>1, <2>3, <3>1
    <3>2. CASE u # t
      <4>1. pc[u] = "create" /\ call'[u] = call[u]
        BY <2>1, <2>3, <3>2
      <4>2. \A v \in Threads \ {u, t} : call'[v].pool # call'[u].pool
        BY <2>1, <4>1 DEF Listed
      <4>3. c.pool # call[u].pool
        BY <1>0, <2>2, <3>2, <4>1
      <4> QED BY <1>0, <2>1, <4>1, <4>2, <4>3 DEF Listed
    <3> QED BY <3>1, <3>2
  <2> QED BY <1>0, <2>3 DEF Listed
<1>1. ASSUME NEW t \in Threads, NEW r \in Regions, NEW empty \in BOOLEAN,
             CreateLock(t, r, empty)
      PROVE  Listed'
  <2>1. ASSUME NEW i
        PROVE  [pool |-> r, id |-> i, empty |-> empty].pool = r
    OBVIOUS
  <2>2. PICK label, c : Enter(t, label, c) /\ c.pool = r
    <3>1. \E label, i :
            Enter(t, label, [pool |-> r, id |-> i, empty |-> empty])
      BY <1>1 DEF CreateLock
    <3> QED BY <2>1, <3>1
  <2>3. \A i \in Id : pools[i] # r
    BY <1>1 DEF CreateLock, Registered, Listed
  <2>4. \A u \in Threads : call[u].pool # r
    BY <1>1 DEF CreateLock
  <2>5. UNCHANGED <<pools, header>>
    BY <1>1 DEF CreateLock
  <2>6. npools' \in PowersOfTwo /\ npools' <= POOLS_MAX
    <3>1. npools' = npools \/ (npools < POOLS_MAX /\ npools' = npools * 2)
      BY <1>1 DEF CreateLock
    <3>2. npools \in PowersOfTwo /\ npools <= POOLS_MAX
      BY DEF Listed
    <3> QED BY <3>1, <3>2, PowerAssumption, SizeAssumption, DoubledFits
  <2> QED BY <1>0, <2>2, <2>3, <2>4, <2>5, <2>6
<1>2. ASSUME NEW t \in Threads, RegisterPool(t) PROVE Listed'
  <2> DEFINE r == call[t].pool
             n == call[t].id
  <2>1. r \in Regions /\ n \in Id /\ \A i \in Id : pools[i] # r
    BY <1>2 DEF RegisterPool, Calls, Listed
  <2>2. /\ header'[r].id = n /\ header'[r].seqno # 0
        /\ \A p \in Pool : p # r => header'[p] = header[p]
    BY <1>2, <2>1 DEF RegisterPool, TypeOK, Numbers
  <2>3. pools'[n] = r /\ \A i \in Id : i # n => pools'[i] = pools[i]
    BY <1>2, <2>1 DEF RegisterPool, TypeOK
  <2>4. \A i \in Id : pools'[i] \in Regions => /\ header'[pools'[i]].id = i
                                              /\ header'[pools'[i]].seqno # 0
    <3> SUFFICES ASSUME NEW i \in Id, pools'[i] \in Regions
                 PROVE  header'[pools'[i]].id = i /\ header'[pools'[i]].seqno # 0
      OBVIOUS
    <3>1. CASE i = n
      BY <2>2, <2>3, <3>1
    <3>2. CASE i # n
      BY <2>1, <2>2, <2>3, <3>2 DEF Listed
    <3> QED BY <3>1, <3>2
  <2>5. /\ pc'[t] = "unlock" /\ \A u \in Threads \ {t} : pc'[u] = pc[u]
        /\ call' = call
    BY <1>2 DEF RegisterPool, TypeOK
  <2>6. ASSUME NEW u \in Threads, pc'[u] = "create"
        PROVE  /\ \A i \in Id : pools'[i] # call'[u].pool
               /\ \A v \in Threads \ {u} : call'[v].pool # call'[u].pool
    <3>1. u # t /\ pc[u] = "create" /\ call[u].pool # r
      BY <2>5, <2>6 DEF Listed
    <3> QED BY <2>3, <2>5, <3>1 DEF Listed
  <2> QED BY <1>2, <2>4, <2>6 DEF RegisterPool, Listed
<1>3. ASSUME NEW t \in Threads, CreateFails(t) PROVE Listed'
  <2>1. /\ \A i \in Id : pools[i] # call[t].pool
        /\ \A p \in Pool : p # call[t].pool => header'[p] = header[p]
    BY <1>3 DEF CreateFails, Listed, TypeOK
  <2>2. \A i \in Id : pools'[i] \in Regions => /\ header'[pools'[i]].id = i
                                              /\ header'[pools'[i]].seqno # 0
    BY <1>3, <2>1 DEF CreateFails, Listed
  <2>3. /\ pc'[t] = "unlock" /\ \A u \in Threads \ {t} : pc'[u] = pc[u]
        /\ call' = call /\ pools' = pools /\ npools' = npools
    BY <1>3 DEF CreateFails, TypeOK
  <2> QED BY <2>2, <2>3 DEF Listed
<1>4. ASSUME NEW t \in Threads, CreateUnlock(t) PROVE Listed'
  <2>1. NoCall.pool \notin Pool
    BY DEF NoCall
  <2> QED BY <1>0, <1>4, <2>1 DEF CreateUnlock, Leave, shared, Listed
<1>5. ASSUME NEW t \in Threads, NEW r \in Regions, DeleteRead(t, r)
      PROVE  Listed'
  <2>1. PICK c : Enter(t, "delete", c) /\ c.pool = r
    BY <1>5 DEF DeleteRead
  <2>2. \A u \in Threads : pc[u] = "create" => call[u].pool # r
    BY <1>5 DEF DeleteRead
  <2> QED BY <1>0, <1>5, <2>1, <2>2 DEF DeleteRead, shared, Listed
<1>6. ASSUME NEW t \in Threads, Delete(t) PROVE Listed'
  <2>1. NoCall.pool \notin Pool
    BY DEF NoCall
  <2>2. CASE UNCHANGED <<pools, header>>
    BY <1>0, <1>6, <2>1, <2>2 DEF Delete, Leave, Listed
  <2>3. CASE /\ pools[call[t].id] = call[t].pool /\ ~(call[t].id >= npools)
             /\ pools' = [pools EXCEPT ![call[t].id] = Null]
             /\ header' = [header EXCEPT ![call[t].pool].id = UINT_MAX]
    <3>1. call[t].pool \in Regions /\ UINT_MAX \in 0..UINT_MAX
      BY <1>6 DEF Delete, Calls
    <3>2. /\ \A p \in Pool : p # call[t].pool => header'[p] = header[p]
      BY <2>3, <3>1, HeaderId
    <3>3. \A i \in Id : /\ i # call[t].id => pools'[i] = pools[i]
                        /\ i = call[t].id => pools'[i] = Null
      BY <2>3 DEF TypeOK
    <3>4. \A i \in Id : pools[i] = call[t].pool => i = header[call[t].pool].id
      BY <3>1 DEF Listed
    <3>5. ASSUME NEW i \in Id, pools'[i] \in Regions
          PROVE  header'[pools'[i]].id = i /\ header'[pools'[i]].seqno # 0
      <4>1. i # call[t].id /\ pools'[i] = pools[i]
        BY <3>3, <3>5
      <4>2. call[t].id \in Id
        BY <2>3, SizeAssumption, SMTT(40) DEF TypeOK, Listed, Id
      <4>3. pools[i] # call[t].pool
        BY <2>3, <3>4, <4>1, <4>2
      <4>4. header[pools[i]].id = i /\ header[pools[i]].seqno # 0
        BY <3>5, <4>1 DEF Listed
      <4>5. pools[i] \in Pool
        BY <3>5, <4>1 DEF Pool
      <4>6. header'[pools[i]] = header[pools[i]]
        BY <3>2, <4>3, <4>5
      <4> QED BY <4>1, <4>4, <4>6
    <3>6. /\ call'[t] = NoCall /\ pc'[t] = "idle"
          /\ \A u \in Threads \ {t} : pc'[u] = pc[u] /\ call'[u] = call[u]
      BY <1>6 DEF Delete, Leave, Enter, TypeOK
    <3>7. ASSUME NEW u \in Threads, pc'[u] = "create"
          PROVE  /\ \A i \in Id : pools'[i] # call'[u].pool
                 /\ \A v \in Threads \ {u} : call'[v].pool # call'[u].pool
      <4>1. u # t /\ pc[u] = "create" /\ call'[u] = call[u]
            /\ call[u].pool \in Pool
        BY <3>6, <3>7 DEF Calls
      <4>2. \A i \in Id : pools'[i] # call'[u].pool
        BY <3>3, <4>1 DEF Listed
      <4>3. \A v \in Threads \ {u, t} : call'[v].pool # call'[u].pool
        BY <3>6, <4>1 DEF Listed
      <4>4. call'[t].pool # call'[u].pool
        BY <2>1, <3>6, <4>1
      <4> QED BY <4>2, <4>3, <4>4
    <3>8. npools' = npools
      BY <1>6 DEF Delete
    <3> QED BY <3>5, <3>7, <3>8 DEF Listed
  <2> QED BY <1>6, <2>2, <2>3 DEF Delete
<1>7. ASSUME NEW t \in Threads, NEW i \in Id, NEW k \in Ind,
             ThreadArenaCtl(t, i, k)
      PROVE  Listed'
  <2>1. PICK c : Enter(t, "rebind", c) /\ c.pool = pools[i]
    BY <1>7 DEF ThreadArenaCtl
  <2>2. \A u \in Threads : call[u].pool # pools[i]
    BY <1>7 DEF ThreadArenaCtl, Usable
  <2> QED BY <1>0, <1>7, <2>1, <2>2 DEF ThreadArenaCtl, shared, Listed
<1>8. ASSUME NEW t \in Threads, Rebind(t) PROVE Listed'
  <2>1. NoCall.pool \notin Pool
    BY DEF NoCall
  <2> QED BY <1>0, <1>8, <2>1 DEF Rebind, Leave, shared, Listed
<1>9. CASE UNCHANGED <<pools, npools, header, call>>
           /\ \A u \in Threads : pc'[u] = "create" => pc[u] = "create"
  BY <1>9 DEF Listed
<1>10. ASSUME NEW t \in Threads, NEW p \in Allocated,
              MallocCached(t, p) \/ MallocFirst(t, p) \/ MallocUncached(t, p)
              \/ MallocLarge(t, p) \/ Free(t, p)
       PROVE  Listed'
  BY <1>9, <1>10 DEF MallocCached, MallocFirst, MallocUncached, MallocLarge,
                     Free, shared
<1>11. ASSUME NEW t \in Threads, NEW on \in BOOLEAN, TcacheEnabledSet(t, on)
       PROVE  Listed'
  BY <1>9, <1>11 DEF TcacheEnabledSet, shared
<1>12. ASSUME NEW t \in Threads, TcacheFlush(t) PROVE Listed'
  BY <1>9, <1>12 DEF TcacheFlush, shared
<1>13. ASSUME NEW t \in Threads, ThreadExit(t) PROVE Listed'
  BY <1>9, <1>13 DEF ThreadExit, shared, TypeOK
<1>14. ASSUME TcacheThreadCleanup PROVE Listed'
  BY <1>9, <1>14 DEF TcacheThreadCleanup, shared, TypeOK
<1>15. ASSUME ArenasCleanup PROVE Listed'
  <2>1. \A r \in Regions : header'[r] = header[r]
    BY <1>15, PoolAssumption DEF ArenasCleanup, TypeOK
  <2>2. /\ pools' = pools /\ npools' = npools /\ call' = call
        /\ \A u \in Threads : pc'[u] = "create" => pc[u] = "create"
    BY <1>15 DEF ArenasCleanup, TypeOK
  <2> QED BY <2>1, <2>2 DEF Listed
<1>16. CASE UNCHANGED vars
  BY <1>9, <1>16 DEF vars, shared
<1>17. ASSUME NEW t \in Threads, Thread(t) PROVE Listed'
  BY <1>1, <1>2, <1>3, <1>4, <1>5, <1>6, <1>7, <1>8, <1>10, <1>11, <1>12,
     <1>13, <1>17, Zenon DEF Thread
<1> QED BY <1>14, <1>15, <1>16, <1>17 DEF Next

\* Steps that create no pool leave Numbers and the meaning of Filled alone.
LEMMA SameNumbers ==
    ASSUME TypeOK, Numbers, pool_seqno' = pool_seqno,
           \A p \in Pool : /\ header'[p].seqno = header[p].seqno
                           /\ header'[p].birth = header[p].birth
    PROVE  /\ Numbers'
           /\ \A i, n, x : Filled(i, n, x) => Filled(i, n, x)'
<1>1. Numbers'
  BY Constants DEF Numbers
<1>2. \A i, n, x : Filled(i, n, x) => Filled(i, n, x)'
  BY Constants DEF Filled
<1> QED BY <1>1, <1>2

\* Every step keeps them.
LEMMA NextOwn ==
    ASSUME CtlOnBaseOnly, TypeOK, Calls, Listed, Own, [Next]_vars
    PROVE  Own'
<1> USE Constants DEF At, Running, Own
<1>0. ASSUME UNCHANGED <<pool_seqno, header>>
      PROVE  Numbers' /\ \A i, n, x : Filled(i, n, x) => Filled(i, n, x)'
  BY <1>0, SameNumbers
<1>1. ASSUME NEW t \in Threads, NEW r \in Regions, NEW empty \in BOOLEAN,
             CreateLock(t, r, empty)
      PROVE  Own'
  <2>1. Numbers' /\ ArenaSlotsFilled' /\ TcacheSlotsFilled' /\ NeverStray'
    BY <1>0, <1>1 DEF CreateLock, tsd, ArenaSlotsFilled, TcacheSlotsFilled,
                      NeverStray
  <2>2. \E label, c : Enter(t, label, c) /\ label \in {"create", "unlock"}
    BY <1>1 DEF CreateLock
  <2>3. MovesInBase'
    BY <2>2 DEF MovesInBase, Enter, TypeOK
  <2> QED BY <2>1, <2>3
<1>2. ASSUME NEW t \in Threads, RegisterPool(t) PROVE Own'
  <2>1. call[t].pool \in Regions /\ call[t].id \in Id /\ call[t].id # 0
    BY <1>2 DEF RegisterPool, Calls
  <2>2. /\ header'[call[t].pool].seqno = pool_seqno
        /\ header'[call[t].pool].birth = pool_seqno
        /\ \A p \in Pool : p # call[t].pool => header'[p] = header[p]
        /\ pool_seqno' = pool_seqno + 1 /\ pool_seqno \in Nat
    BY <1>2, <2>1 DEF RegisterPool, NextSeqno, TypeOK
  <2>3. /\ pools'[call[t].id] = call[t].pool
        /\ \A i \in Id : i # call[t].id => pools'[i] = pools[i]
    BY <1>2, <2>1 DEF RegisterPool, TypeOK
  <2>4. Numbers'
    <3>1. \A r \in Regions : header[r].seqno \in Nat /\ header[r].birth \in Nat
      BY DEF TypeOK
    <3> QED BY <2>1, <2>2, <2>3, <3>1, PoolAssumption DEF Numbers
  <2>5. \A i, x : \A n \in Nat : Filled(i, n, x) => Filled(i, n, x)'
    <3> SUFFICES ASSUME NEW i, NEW x, NEW n \in Nat, Filled(i, n, x)
                 PROVE  Filled(i, n, x)'
      OBVIOUS
    <3>1. CASE i = 0
      BY <3>1 DEF Filled
    <3>2. CASE i # 0
      <4>1. x.pool \in Regions /\ x.birth = n /\ n # 0 /\ n < pool_seqno
        BY <3>2 DEF Filled
      <4>2. \A r \in Regions : header[r].seqno = n => x.pool = r
        BY <3>2 DEF Filled
      <4>3. \A r \in Regions : header'[r].seqno = n => x.pool = r
        BY <2>1, <2>2, <4>1, <4>2
      <4>4. n < pool_seqno'
        BY <2>2, <4>1
      <4> QED BY <3>2, <4>1, <4>3, <4>4 DEF Filled
    <3> QED BY <3>1, <3>2
  <2>6. ArenaSlotsFilled' /\ TcacheSlotsFilled'
    <3>1. \A u \in Threads : \A i \in Id : /\ aslot[u][i].seqno \in Nat
                                         /\ tslot[u][i].seqno \in Nat
      BY DEF TypeOK, ArenaSlot, TcacheSlot
    <3> QED BY <1>2, <2>5, <3>1 DEF RegisterPool, tsd, ArenaSlotsFilled,
                                    TcacheSlotsFilled
  <2> QED BY <1>2, <2>4, <2>6 DEF RegisterPool, MovesInBase, NeverStray, TypeOK
<1>3. ASSUME NEW t \in Threads, CreateFails(t) PROVE Own'
  <2> DEFINE r == call[t].pool
  <2>1. r \in Regions /\ \A p \in Pool : p # r => header'[p] = header[p]
    BY <1>3 DEF CreateFails, Calls, TypeOK
  <2>2. \/ header'[r].seqno = 0 /\ header'[r].birth = 0
        \/ /\ header'[r].seqno = header[r].seqno
           /\ header'[r].birth = header[r].birth
    BY <1>3, <2>1 DEF CreateFails, FailedHeader, TypeOK
  <2>3. Numbers'
    <3>1. /\ BasePool # r /\ pools' = pools /\ pool_seqno' = pool_seqno
          /\ pool_seqno \in Nat
      BY <1>3, <2>1, PoolAssumption DEF CreateFails, TypeOK
    <3> QED BY <2>1, <2>2, <3>1 DEF Numbers
  <2>4. \A i, n, x : Filled(i, n, x) => Filled(i, n, x)'
    BY <1>3, <2>1, <2>2 DEF CreateFails, Filled
  <2>5. ArenaSlotsFilled' /\ TcacheSlotsFilled'
    BY <1>3, <2>4 DEF CreateFails, tsd, ArenaSlotsFilled, TcacheSlotsFilled
  <2> QED BY <1>3, <2>3, <2>5 DEF CreateFails, MovesInBase, NeverStray, TypeOK
<1>4. ASSUME NEW t \in Threads, CreateUnlock(t) PROVE Own'
  <2>1. MovesInBase'
    BY <1>4, LeaveType DEF CreateUnlock, MovesInBase
  <2> QED BY <1>0, <1>4, <2>1 DEF CreateUnlock, shared, tsd, ArenaSlotsFilled,
                                  TcacheSlotsFilled, NeverStray
<1>5. ASSUME NEW t \in Threads, NEW r \in Regions, DeleteRead(t, r) PROVE Own'
  <2>1. \E c : Enter(t, "delete", c)
    BY <1>5 DEF DeleteRead
  <2>2. MovesInBase'
    BY <2>1 DEF MovesInBase, Enter, TypeOK
  <2> QED BY <1>0, <1>5, <2>2 DEF DeleteRead, shared, tsd, ArenaSlotsFilled,
                                  TcacheSlotsFilled, NeverStray
<1>6. ASSUME NEW t \in Threads, Delete(t) PROVE Own'
  <2>1. call[t].pool \in Regions /\ UINT_MAX \in 0..UINT_MAX
    BY <1>6 DEF Delete, Calls
  <2>2. /\ \A p \in Pool : /\ header'[p].seqno = header[p].seqno
                           /\ header'[p].birth = header[p].birth
        /\ \A i \in Id : pools'[i] = pools[i] \/ pools'[i] = Null
    <3>1. CASE UNCHANGED <<pools, header, npools_cnt>>
      BY <3>1
    <3>2. CASE /\ pools' = [pools EXCEPT ![call[t].id] = Null]
               /\ header' = [header EXCEPT ![call[t].pool].id = UINT_MAX]
      BY <2>1, <3>2, HeaderId DEF TypeOK
    <3> QED BY <1>6, <3>1, <3>2 DEF Delete
  <2>3. Numbers' /\ \A i, n, x : Filled(i, n, x) => Filled(i, n, x)'
    BY <1>6, <2>2, SameNumbers DEF Delete
  <2>4. ArenaSlotsFilled' /\ TcacheSlotsFilled'
    BY <1>6, <2>3 DEF Delete, tsd, ArenaSlotsFilled, TcacheSlotsFilled
  <2>5. MovesInBase'
    BY <1>6, LeaveType DEF Delete, MovesInBase
  <2> QED BY <1>6, <2>3, <2>4, <2>5 DEF Delete, NeverStray
<1>7. ASSUME NEW t \in Threads, NEW p \in Allocated, MallocCached(t, p)
      PROVE  Own'
  <2>1. p \in Pool /\ header[p].id \in Id
    BY <1>7, UsableId, AllocatedAssumption DEF MallocCached, Pool
  <2>2. /\ \A u \in Threads : \A i \in Id : \A c \in tslot'[u][i].tcache :
              Filled(i, tslot'[u][i].seqno, c)
        /\ ~Stray(FreshSlot(t, p).tcache, p)
    BY <1>7, <2>1, SetTslotFilled, FreshSlotOwn, FreshSlotType DEF MallocCached
  <2>3. Numbers' /\ \A i, n, x : Filled(i, n, x) => Filled(i, n, x)'
    BY <1>0, <1>7 DEF MallocCached, shared
  <2>4. TcacheSlotsFilled' /\ ArenaSlotsFilled'
    BY <1>7, <2>2, <2>3 DEF MallocCached, TcacheSlotsFilled, ArenaSlotsFilled
  <2> QED BY <1>7, <2>2, <2>3, <2>4 DEF MallocCached, MovesInBase, NeverStray
<1>8. ASSUME NEW t \in Threads, NEW p \in Allocated, MallocFirst(t, p)
      PROVE  Own'
  <2>1. p \in Pool /\ header[p].id \in Id /\ Usable(p)
    BY <1>8, UsableId, AllocatedAssumption DEF MallocFirst, Pool
  <2>2. Numbers' /\ \A i, n, x : Filled(i, n, x) => Filled(i, n, x)'
    BY <1>0, <1>8 DEF MallocFirst, shared
  <2>3. /\ \A u \in Threads : \A i \in Id : \A a \in aslot'[u][i].arena :
              Filled(i, aslot'[u][i].seqno, a)
        /\ \A a \in Chosen(t, p) : a.pool = p /\ a.birth = header[p].birth
        /\ ~Stray(Chosen(t, p), p)
    BY <1>8, <2>1, ChooseArenaFilled DEF MallocFirst
  <2>4. \A u \in Threads : \A i \in Id : \A c \in tslot'[u][i].tcache :
            Filled(i, tslot'[u][i].seqno, c)
    <3>1. CASE SetTslot(t, p, FreshSlot(t, p))
      BY <2>1, <3>1, SetTslotFilled, FreshSlotOwn, FreshSlotType
    <3>2. ASSUME NEW a \in Chosen(t, p),
                 SetTslot(t, a.pool,
                     [seqno |-> header[a.pool].seqno, disabled |-> FALSE,
                      tcache |-> {[pool |-> a.pool, birth |-> a.birth]}])
          PROVE  \A u \in Threads : \A i \in Id : \A c \in tslot'[u][i].tcache :
                     Filled(i, tslot'[u][i].seqno, c)
      <4> DEFINE c0 == [pool |-> a.pool, birth |-> a.birth]
                 s == [seqno |-> header[a.pool].seqno, disabled |-> FALSE,
                       tcache |-> {c0}]
      <4>1. a.pool = p /\ a.birth = header[p].birth /\ a.birth \in Nat
        BY <2>1, <2>3 DEF TypeOK
      <4>2. c0.pool = p /\ c0.birth = header[p].birth /\ c0 \in Tcache
        BY <2>1, <4>1 DEF Tcache
      <4> HIDE DEF c0
      <4>3. header[a.pool].seqno \in Nat
        BY <2>1, <4>1 DEF TypeOK
      <4>4. s \in TcacheSlot /\ s.seqno = header[p].seqno /\ s.tcache = {c0}
        BY <4>1, <4>2, <4>3 DEF TcacheSlot
      <4>5. SetTslot(t, p, s)
        BY <3>2, <4>1 DEF c0
      <4> HIDE DEF s
      <4>6. Filled(header[p].id, header[p].seqno, c0)
        BY <2>1, <4>2, FilledNew
      <4> QED BY <2>1, <4>4, <4>5, <4>6, SetTslotFilled
    <3> QED BY <1>8, <3>1, <3>2 DEF MallocFirst
  <2>5. TcacheSlotsFilled' /\ ArenaSlotsFilled'
    BY <2>2, <2>3, <2>4 DEF TcacheSlotsFilled, ArenaSlotsFilled
  <2> QED BY <1>8, <2>2, <2>3, <2>5 DEF MallocFirst, MovesInBase, NeverStray
<1>9. ASSUME NEW t \in Threads, NEW p \in Allocated, MallocUncached(t, p)
      PROVE  Own'
  <2>1. p \in Pool /\ header[p].id \in Id /\ Usable(p)
    BY <1>9, UsableId, AllocatedAssumption DEF MallocUncached, Pool
  <2>2. Numbers' /\ \A i, n, x : Filled(i, n, x) => Filled(i, n, x)'
    BY <1>0, <1>9 DEF MallocUncached, shared
  <2>3. /\ \A u \in Threads : \A i \in Id : \A a \in aslot'[u][i].arena :
              Filled(i, aslot'[u][i].seqno, a)
        /\ ~Stray(Chosen(t, p), p)
    BY <1>9, <2>1, ChooseArenaFilled DEF MallocUncached
  <2>4. \A u \in Threads : \A i \in Id : \A c \in tslot'[u][i].tcache :
            Filled(i, tslot'[u][i].seqno, c)
    <3>1. CASE SetTslot(t, p, FreshSlot(t, p))
      BY <2>1, <3>1, SetTslotFilled, FreshSlotOwn, FreshSlotType
    <3>2. CASE tslot' = [tslot EXCEPT ![t] =
                 DisabledSlots([@ EXCEPT ![header[p].id] = FreshSlot(t, p)])]
      <4> DEFINE S == [tslot[t] EXCEPT ![header[p].id] = FreshSlot(t, p)]
      <4>1. \A i \in Id : DisabledSlots(S)[i].tcache = {}
        BY DEF DisabledSlots, Emptied
      <4>2. tslot' = [tslot EXCEPT ![t] = DisabledSlots(S)]
        BY <3>2
      <4> HIDE DEF S
      <4>3. tslot'[t] = DisabledSlots(S)
            /\ \A u \in Threads : u # t => tslot'[u] = tslot[u]
        BY <4>2 DEF TypeOK
      <4> QED BY <4>1, <4>3 DEF TcacheSlotsFilled
    <3> QED BY <1>9, <3>1, <3>2 DEF MallocUncached
  <2>5. TcacheSlotsFilled' /\ ArenaSlotsFilled'
    BY <2>2, <2>3, <2>4 DEF TcacheSlotsFilled, ArenaSlotsFilled
  <2> QED BY <1>9, <2>2, <2>3, <2>5 DEF MallocUncached, MovesInBase, NeverStray
<1>10. ASSUME NEW t \in Threads, NEW p \in Allocated, Free(t, p) PROVE Own'
  <2>1. p \in Pool /\ header[p].id \in Id
    BY <1>10, UsableId, AllocatedAssumption DEF Free, Pool
  <2>2. /\ \A u \in Threads : \A i \in Id : \A c \in tslot'[u][i].tcache :
              Filled(i, tslot'[u][i].seqno, c)
        /\ ~Stray(FreshSlot(t, p).tcache, p)
    BY <1>10, <2>1, SetTslotFilled, FreshSlotOwn, FreshSlotType DEF Free
  <2>3. Numbers' /\ \A i, n, x : Filled(i, n, x) => Filled(i, n, x)'
    BY <1>0, <1>10 DEF Free, shared
  <2>4. TcacheSlotsFilled' /\ ArenaSlotsFilled'
    BY <1>10, <2>2, <2>3 DEF Free, TcacheSlotsFilled, ArenaSlotsFilled
  <2> QED BY <1>10, <2>2, <2>3, <2>4 DEF Free, MovesInBase, NeverStray
<1>11. ASSUME NEW t \in Threads, NEW on \in BOOLEAN, TcacheEnabledSet(t, on)
       PROVE  Own'
  <2>1. Numbers' /\ \A i, n, x : Filled(i, n, x) => Filled(i, n, x)'
    BY <1>0, <1>11 DEF TcacheEnabledSet, shared
  <2>2. \A i \in Id : \/ /\ tslot'[t][i].seqno = tslot[t][i].seqno
                        /\ tslot'[t][i].tcache = tslot[t][i].tcache
                     \/ tslot'[t][i].tcache = {}
    <3>1. CASE on
      <4>1. tslot'[t] = [i \in Id |-> [tslot[t][i] EXCEPT !.disabled = FALSE]]
        BY <1>11, <3>1 DEF TcacheEnabledSet, TypeOK
      <4>2. ASSUME NEW s \in TcacheSlot
            PROVE  /\ [s EXCEPT !.disabled = FALSE].seqno = s.seqno
                   /\ [s EXCEPT !.disabled = FALSE].tcache = s.tcache
        BY DEF TcacheSlot
      <4>3. \A i \in Id : tslot[t][i] \in TcacheSlot
        BY DEF TypeOK
      <4> QED BY <4>1, <4>2, <4>3
    <3>2. CASE ~on
      <4>1. tslot'[t] = DisabledSlots(tslot[t])
        BY <1>11, <3>2 DEF TcacheEnabledSet, TypeOK
      <4> QED BY <4>1 DEF DisabledSlots, Emptied
    <3> QED BY <3>1, <3>2
  <2>3. \A u \in Threads : u # t => tslot'[u] = tslot[u]
    BY <1>11 DEF TcacheEnabledSet, TypeOK
  <2>4. TcacheSlotsFilled' /\ ArenaSlotsFilled'
    BY <1>11, <2>1, <2>2, <2>3
       DEF TcacheEnabledSet, TcacheSlotsFilled, ArenaSlotsFilled
  <2> QED BY <1>11, <2>1, <2>4 DEF TcacheEnabledSet, MovesInBase, NeverStray
<1>12. ASSUME NEW t \in Threads, TcacheFlush(t) PROVE Own'
  <2>1. Numbers' /\ \A i, n, x : Filled(i, n, x) => Filled(i, n, x)'
    BY <1>0, <1>12 DEF TcacheFlush, shared
  <2>2. tslot[t][0] \in TcacheSlot
    BY DEF TypeOK
  <2>3. PICK s \in TcacheSlot : s.tcache = {} /\ tslot' = [tslot EXCEPT ![t][0] = s]
    <3>1. /\ Emptied(tslot[t][0], FALSE) \in TcacheSlot
          /\ Emptied(tslot[t][0], FALSE).tcache = {}
      BY <2>2 DEF Emptied, TcacheSlot
    <3> QED BY <1>12, <2>2, <3>1 DEF TcacheFlush
  <2>4. /\ tslot'[t][0].tcache = {}
        /\ \A u \in Threads : \A j \in Id :
              u # t \/ j # 0 => tslot'[u][j] = tslot[u][j]
    BY <2>3, SlotWritten DEF TypeOK
  <2>5. TcacheSlotsFilled' /\ ArenaSlotsFilled'
    BY <1>12, <2>1, <2>4, ZenonT(60)
       DEF TcacheFlush, TcacheSlotsFilled, ArenaSlotsFilled
  <2> QED BY <1>12, <2>1, <2>5 DEF TcacheFlush, MovesInBase, NeverStray
<1>13. ASSUME NEW t \in Threads, NEW i \in Id, NEW k \in Ind,
              ThreadArenaCtl(t, i, k)
       PROVE  Own'
  <2>1. i = 0 /\ pools[i] = BasePool /\ Usable(BasePool)
    BY <1>13 DEF ThreadArenaCtl, CtlOnBaseOnly, Calls
  <2>2. Numbers' /\ \A j, n, x : Filled(j, n, x) => Filled(j, n, x)'
    BY <1>0, <1>13 DEF ThreadArenaCtl, shared
  <2>3. \A u \in Threads : \A j \in Id : \A a \in aslot'[u][j].arena :
            Filled(j, aslot'[u][j].seqno, a)
    BY <1>13, <2>1, ChooseArenaFilled DEF ThreadArenaCtl
  <2>4. TcacheSlotsFilled' /\ ArenaSlotsFilled'
    BY <1>13, <2>2, <2>3 DEF ThreadArenaCtl, TcacheSlotsFilled, ArenaSlotsFilled
  <2>5. MovesInBase'
    BY <1>13, <2>1 DEF ThreadArenaCtl, Enter, MovesInBase, TypeOK
  <2> QED BY <1>13, <2>2, <2>4, <2>5 DEF ThreadArenaCtl, NeverStray
<1>14. ASSUME NEW t \in Threads, Rebind(t) PROVE Own'
  <2> DEFINE i == header[BasePool].id
             a0 == [pool |-> BasePool, birth |-> header[BasePool].birth,
                    ind |-> call[t].id]
             s0 == [seqno |-> header[BasePool].seqno, arena |-> {a0}]
  <2>1. call[t].pool = BasePool /\ call[t].id \in Ind
    BY <1>14 DEF Rebind, MovesInBase, Calls
  <2>2. Numbers' /\ \A j, n, x : Filled(j, n, x) => Filled(j, n, x)'
    BY <1>0, <1>14 DEF Rebind, shared
  <2>3. CASE UNCHANGED <<aslot, tslot>>
    <3>1. MovesInBase'
      BY <1>14, LeaveType, ZenonT(30) DEF Rebind, MovesInBase
    <3> QED BY <1>14, <2>2, <2>3, <3>1, ZenonT(30)
            DEF Rebind, TcacheSlotsFilled, ArenaSlotsFilled, NeverStray
  <2>4. CASE /\ tslot' = [tslot EXCEPT ![t][i] =
                  IF tslot[t][i].tcache = {} THEN tslot[t][i]
                  ELSE [tslot[t][i] EXCEPT !.seqno = header[BasePool].seqno]]
             /\ aslot' = [aslot EXCEPT ![t][0] = s0]
    <3>1. \A u \in Threads : \A j \in Id : \A a \in aslot'[u][j].arena :
              Filled(j, aslot'[u][j].seqno, a)
      <4>0. header[BasePool].seqno \in Nat /\ header[BasePool].birth \in Nat
        BY DEF TypeOK
      <4>1. a0.pool = BasePool /\ a0.birth = 0 /\ a0 \in Arena
        BY <2>1, <4>0 DEF Numbers, Arena
      <4>2. aslot' = [aslot EXCEPT ![t][0] = s0]
        BY <2>4
      <4> HIDE DEF a0
      <4>3. s0 \in ArenaSlot /\ s0.arena = {a0}
        BY <4>0, <4>1 DEF ArenaSlot
      <4> HIDE DEF s0
      <4>4. /\ aslot'[t][0] = s0
            /\ \A u \in Threads : \A j \in Id :
                  u # t \/ j # 0 => aslot'[u][j] = aslot[u][j]
        BY <4>2, <4>3, SlotWritten DEF TypeOK
      <4>5. \A n : Filled(0, n, a0)
        BY <4>1 DEF Filled
      <4> QED BY <4>3, <4>4, <4>5 DEF ArenaSlotsFilled
    <3>2. \A u \in Threads : \A j \in Id : \A c \in tslot'[u][j].tcache :
              Filled(j, tslot'[u][j].seqno, c)
      <4>1. CASE i = 0
        <5>1. PICK s \in TcacheSlot : /\ tslot' = [tslot EXCEPT ![t][0] = s]
                                     /\ s.tcache = tslot[t][0].tcache
          <6>1. tslot[t][0] \in TcacheSlot /\ header[BasePool].seqno \in Nat
            BY DEF TypeOK
          <6>2. /\ [tslot[t][0] EXCEPT !.seqno = header[BasePool].seqno]
                     \in TcacheSlot
                /\ [tslot[t][0] EXCEPT !.seqno = header[BasePool].seqno].tcache
                     = tslot[t][0].tcache
            BY <6>1 DEF TcacheSlot
          <6> QED BY <2>4, <4>1, <6>1, <6>2
        <5>2. /\ tslot'[t][0] = s
              /\ \A u \in Threads : \A j \in Id :
                    u # t \/ j # 0 => tslot'[u][j] = tslot[u][j]
          BY <5>1, SlotWritten DEF TypeOK
        <5> QED BY <5>1, <5>2 DEF TcacheSlotsFilled, Filled
      <4>2. CASE i \notin Id
        <5>1. tslot' = tslot
          BY <2>4, <4>2, SlotMissed DEF TypeOK
        <5> QED BY <5>1 DEF TcacheSlotsFilled
      <4> QED BY <4>1, <4>2 DEF Calls, Id, UINT_MAX
    <3>3. MovesInBase'
      BY <1>14, LeaveType, ZenonT(30) DEF Rebind, MovesInBase
    <3> QED BY <1>14, <2>2, <3>1, <3>2, <3>3, ZenonT(30)
            DEF Rebind, TcacheSlotsFilled, ArenaSlotsFilled, NeverStray
  <2> QED BY <1>14, <2>1, <2>3, <2>4 DEF Rebind
<1>15. ASSUME NEW t \in Threads, ThreadExit(t) PROVE Own'
  BY <1>0, <1>15 DEF ThreadExit, shared, tsd, ArenaSlotsFilled,
                     TcacheSlotsFilled, NeverStray, MovesInBase, TypeOK
<1>16. ASSUME TcacheThreadCleanup PROVE Own'
  <2>1. Numbers' /\ \A i, n, x : Filled(i, n, x) => Filled(i, n, x)'
    BY <1>0, <1>16 DEF TcacheThreadCleanup, shared
  <2>2. /\ \A i \in Id : tslot'[Main][i].tcache = {}
        /\ \A u \in Threads : u # Main => tslot'[u] = tslot[u]
    BY <1>16, MainAssumption DEF TcacheThreadCleanup, EmptyT, TypeOK
  <2>3. TcacheSlotsFilled' /\ ArenaSlotsFilled'
    BY <1>16, <2>1, <2>2
       DEF TcacheThreadCleanup, TcacheSlotsFilled, ArenaSlotsFilled
  <2> QED BY <1>16, <2>1, <2>3 DEF TcacheThreadCleanup, MovesInBase,
                                   NeverStray, TypeOK
<1>17. ASSUME ArenasCleanup PROVE Own'
  <2>1. \A p \in Pool : /\ header'[p].seqno = header[p].seqno
                        /\ header'[p].birth = header[p].birth
    <3>1. UINT_MAX \in 0..UINT_MAX
      OBVIOUS
    <3> QED BY <1>17, <3>1, HeaderId DEF ArenasCleanup
  <2>2. Numbers' /\ \A i, n, x : Filled(i, n, x) => Filled(i, n, x)'
    BY <1>17, <2>1, SameNumbers DEF ArenasCleanup
  <2>3. /\ \A i \in Id : aslot'[Main][i].arena = {}
        /\ \A u \in Threads : u # Main => aslot'[u] = aslot[u]
    BY <1>17, MainAssumption DEF ArenasCleanup, EmptyA, TypeOK
  <2>4. TcacheSlotsFilled' /\ ArenaSlotsFilled'
    BY <1>17, <2>2, <2>3 DEF ArenasCleanup, TcacheSlotsFilled, ArenaSlotsFilled
  <2> QED BY <1>17, <2>2, <2>4 DEF ArenasCleanup, MovesInBase, NeverStray,
                                   TypeOK
<1>18. CASE UNCHANGED vars
  BY <1>0, <1>18 DEF vars, shared, tsd, ArenaSlotsFilled, TcacheSlotsFilled,
                     NeverStray, MovesInBase
<1>19. ASSUME NEW t \in Threads, NEW p \in Allocated, MallocLarge(t, p)
       PROVE  Own'
  <2>1. p \in Pool /\ Usable(p)
    BY <1>19, AllocatedAssumption DEF MallocLarge, Pool
  <2>2. Numbers' /\ \A i, n, x : Filled(i, n, x) => Filled(i, n, x)'
    BY <1>0, <1>19 DEF MallocLarge, shared
  <2>3. /\ \A u \in Threads : \A i \in Id : \A a \in aslot'[u][i].arena :
              Filled(i, aslot'[u][i].seqno, a)
        /\ ~Stray(Chosen(t, p), p)
    BY <1>19, <2>1, ChooseArenaFilled DEF MallocLarge
  <2>4. TcacheSlotsFilled' /\ ArenaSlotsFilled'
    BY <1>19, <2>2, <2>3 DEF MallocLarge, TcacheSlotsFilled, ArenaSlotsFilled
  <2> QED BY <1>19, <2>2, <2>3, <2>4 DEF MallocLarge, MovesInBase, NeverStray
<1>20. ASSUME NEW t \in Threads, Thread(t) PROVE Own'
  BY <1>1, <1>2, <1>3, <1>4, <1>5, <1>6, <1>7, <1>8, <1>9, <1>10, <1>11,
     <1>12, <1>13, <1>14, <1>15, <1>19, <1>20, Zenon DEF Thread
<1> QED BY <1>16, <1>17, <1>18, <1>20 DEF Next

LEMMA InitOwn == Init => Listed /\ Own
<1> SUFFICES ASSUME Init PROVE Listed /\ Own
  OBVIOUS
<1>1. MovesInBase /\ NeverStray
  BY DEF Init, MovesInBase, NeverStray
<1>2. ArenaSlotsFilled /\ TcacheSlotsFilled
  BY DEF Init, ArenaSlotsFilled, TcacheSlotsFilled, EmptyA, EmptyT
<1>3. Numbers
  <2>1. /\ header[BasePool].seqno = 1 /\ header[BasePool].birth = 0
        /\ \A r \in Regions : header[r].seqno = 0 /\ header[r].birth = 0
    BY Constants, PoolAssumption DEF Init
  <2>2. pool_seqno = 1 /\ \A i \in Id : pools[i] \notin Regions
    BY Constants, PoolAssumption DEF Init
  <2> QED BY <2>1, <2>2 DEF Numbers
<1>4. Listed
  BY Constants, PoolAssumption, PowerAssumption, SizeAssumption
     DEF Init, Listed
<1> QED BY <1>1, <1>2, <1>3, <1>4 DEF Own

\* For any threads, pools and arenas: as long as thread.pool.<i>.arena is used
\* for the base pool only, no call on a pool is served by an arena or a thread
\* cache of another one, however pool numbers and pool memory are reused and
\* whatever stays behind in the arrays of threads.
THEOREM NoStrayAllocation ==
    ASSUME CtlOnBaseOnly
    PROVE  Spec => []NeverStray
<1>1. Init => TypeInv /\ Listed /\ Own
  BY InitType, InitOwn
<1>2. TypeInv /\ Listed /\ Own /\ [Next]_vars => (TypeInv /\ Listed /\ Own)'
  <2>1. TypeInv /\ Listed /\ Own /\ [Next]_vars => Listed'
    BY NextListed DEF TypeInv, Own
  <2> QED BY <2>1, NextType, NextOwn DEF TypeInv
<1>3. Own => NeverStray
  BY DEF Own
<1> QED BY <1>1, <1>2, <1>3, PTL DEF Spec

(***************************************************************************)
(* pools[] and its lock                                                    *)
(***************************************************************************)

\* Whoever makes a pool holds pools_lock until the pool is made, or fails to be.
LockHeld == \A t \in Threads : pc[t] = "create" => pools_lock = t

\* The numbers in use.
Numbered == {i \in Id : pools[i] # Null}

\* The number found for a pool is inside pools[], and the base pool keeps its own.
Registry ==
    /\ npools_cnt = Cardinality(Numbered)
    /\ \A t \in Threads : pc[t] = "create" => pools[call[t].id] = Null /\ call[t].id < npools
    /\ \A i \in Id : /\ pools[i] # Null => i < npools
                     /\ pools[i] = BasePool => i = 0
    /\ header[BasePool].id = 0 \/ pc[Main] = "exited"

\* Every step keeps the numbers of the pools apart.
LEMMA NextNumbers ==
    ASSUME TypeOK, Calls, Numbers, [Next]_vars
    PROVE  Numbers'
<1> USE Constants DEF At, Running
<1>0. ASSUME UNCHANGED <<pool_seqno, header>> PROVE Numbers'
  BY <1>0, SameNumbers
<1>1. ASSUME NEW t \in Threads, RegisterPool(t) PROVE Numbers'
  <2>1. call[t].pool \in Regions
    BY <1>1 DEF RegisterPool, Calls
  <2>2. /\ header'[call[t].pool].seqno = pool_seqno
        /\ header'[call[t].pool].birth = pool_seqno
        /\ \A p \in Pool : p # call[t].pool => header'[p] = header[p]
        /\ pool_seqno' = pool_seqno + 1 /\ pool_seqno \in Nat
    BY <1>1, <2>1 DEF RegisterPool, NextSeqno, TypeOK
  <2>3. \A r \in Regions : header[r].seqno \in Nat /\ header[r].birth \in Nat
    BY DEF TypeOK
  <2> QED BY <2>1, <2>2, <2>3, PoolAssumption DEF Numbers
<1>2. ASSUME NEW t \in Threads, CreateFails(t) PROVE Numbers'
  <2> DEFINE r == call[t].pool
  <2>1. r \in Regions /\ \A p \in Pool : p # r => header'[p] = header[p]
    BY <1>2 DEF CreateFails, Calls, TypeOK
  <2>2. \/ header'[r].seqno = 0 /\ header'[r].birth = 0
        \/ /\ header'[r].seqno = header[r].seqno
           /\ header'[r].birth = header[r].birth
    BY <1>2, <2>1 DEF CreateFails, FailedHeader, TypeOK
  <2>3. BasePool # r /\ pool_seqno' = pool_seqno /\ pool_seqno \in Nat
    BY <1>2, <2>1, PoolAssumption DEF CreateFails, TypeOK
  <2> QED BY <2>1, <2>2, <2>3 DEF Numbers
<1>3. ASSUME NEW t \in Threads, Delete(t) PROVE Numbers'
  <2>1. call[t].pool \in Regions /\ UINT_MAX \in 0..UINT_MAX
    BY <1>3 DEF Delete, Calls
  <2>2. CASE UNCHANGED <<pools, header, npools_cnt>>
    BY <1>0, <1>3, <2>2 DEF Delete
  <2>3. CASE header' = [header EXCEPT ![call[t].pool].id = UINT_MAX]
    BY <1>3, <2>1, <2>3, HeaderId, SameNumbers DEF Delete
  <2> QED BY <1>3, <2>2, <2>3 DEF Delete
<1>4. CASE ArenasCleanup
  <2>1. UINT_MAX \in 0..UINT_MAX
    OBVIOUS
  <2> QED BY <1>4, <2>1, HeaderId, SameNumbers DEF ArenasCleanup
<1>5. ASSUME NEW t \in Threads, Thread(t) PROVE Numbers'
  <2>1. ASSUME NEW p \in Allocated,
               MallocCached(t, p) \/ MallocFirst(t, p) \/ MallocUncached(t, p)
               \/ MallocLarge(t, p) \/ Free(t, p)
        PROVE  UNCHANGED <<pool_seqno, header>>
    BY <2>1, SMTT(40) DEF MallocCached, MallocFirst, MallocUncached, MallocLarge, Free, shared
  <2>2. ASSUME \/ \E r \in Regions, empty \in BOOLEAN : CreateLock(t, r, empty)
               \/ CreateUnlock(t)
               \/ \E r \in Regions : DeleteRead(t, r)
               \/ \E on \in BOOLEAN : TcacheEnabledSet(t, on)
               \/ TcacheFlush(t)
               \/ \E i \in Id, k \in Ind : ThreadArenaCtl(t, i, k)
               \/ Rebind(t) \/ ThreadExit(t)
        PROVE  UNCHANGED <<pool_seqno, header>>
    BY <2>2 DEF CreateLock, CreateUnlock, DeleteRead, TcacheEnabledSet, TcacheFlush,
                ThreadArenaCtl, Rebind, ThreadExit, shared
  <2> QED BY <1>0, <1>1, <1>2, <1>3, <1>5, <2>1, <2>2, Zenon DEF Thread
<1>6. CASE TcacheThreadCleanup
  BY <1>0, <1>6 DEF TcacheThreadCleanup, shared
<1>7. CASE UNCHANGED vars
  BY <1>0, <1>7 DEF vars, shared
<1> QED BY <1>4, <1>5, <1>6, <1>7 DEF Next

\* Every step that leaves pools_lock to its holder keeps pools[], its counter
\* and the lock in step.
LEMMA NextRegistry ==
    ASSUME TypeOK, Calls, Listed, LockHeld, Registry, [Next]_vars, ~intruded'
    PROVE  LockHeld' /\ Registry'
<1> USE Constants DEF At, Running
<1>a. /\ npools_cnt = Cardinality(Numbered)
      /\ \A i \in Id : pools[i] # Null => i < npools
      /\ \A t \in Threads : pc[t] = "create" => pools[call[t].id] = Null
      /\ npools \in Nat
  BY DEF Registry, TypeOK
<1>e. pools' = pools => Numbered' = Numbered
  BY DEF Numbered
<1>b. \A S \in SUBSET Id : IsFiniteSet(S)
  <2>1. IsFiniteSet(Id)
    BY SizeAssumption, FS_Interval DEF Id
  <2> QED BY <2>1, FS_Subset
\* Steps of threads that are not making a pool.
<1>d. ASSUME UNCHANGED <<pools, npools, npools_cnt, pools_lock>>,
             header'[BasePool].id = header[BasePool].id,
             pc[Main] # "exited" \/ pc' = pc,
             \A u \in Threads : pc'[u] \in {"create", "unlock"} =>
                 pc[u] = pc'[u] /\ call'[u] = call[u]
      PROVE  LockHeld' /\ Registry'
  <2>1. LockHeld'
    BY <1>d DEF LockHeld
  <2>2. header'[BasePool].id = 0 \/ pc'[Main] = "exited"
    BY <1>d DEF Registry
  <2>3. npools_cnt' = Cardinality(Numbered')
    BY <1>a, <1>e, <1>d
  <2>4. \A i \in Id : /\ pools'[i] = BasePool => i = 0
                      /\ pools'[i] # Null => i < npools'
    BY <1>a, <1>d DEF TypeOK, Registry
  <2>5. \A t \in Threads : pc'[t] = "create" =>
            pools'[call'[t].id] = Null /\ call'[t].id < npools'
    BY <1>a, <1>d DEF Registry
  <2> QED BY <2>1, <2>2, <2>3, <2>4, <2>5 DEF Registry
<1>1. ASSUME NEW t \in Threads, NEW r \in Regions, NEW empty \in BOOLEAN,
             CreateLock(t, r, empty)
      PROVE  LockHeld' /\ Registry'
  <2>1. /\ pools_lock = Null /\ pools_lock' = t /\ pc[Main] # "exited"
        /\ UNCHANGED <<pools, npools_cnt, header>>
    BY <1>1 DEF CreateLock
  <2>2. \A u \in Threads : pc[u] # "create"
    BY <2>1, NullAssumption DEF LockHeld
  <2>3. PICK label, i : /\ Enter(t, label, [pool |-> r, id |-> i, empty |-> empty])
                        /\ \/ i \in Unused /\ npools' = npools
                           \/ /\ i = npools /\ npools < POOLS_MAX /\ npools' = npools * 2
                           \/ label = "unlock" /\ npools' = npools
    BY <1>1 DEF CreateLock
  <2>4. /\ pc'[t] = label /\ call'[t].id = i
        /\ \A u \in Threads \ {t} : pc'[u] = pc[u]
    BY <2>3 DEF Enter, TypeOK
  <2>5. LockHeld'
    BY <2>1, <2>2, <2>4 DEF LockHeld
  <2>6. npools' >= npools /\ npools' \in Nat
    BY <1>a, <2>3
  <2>7. label = "create" => pools[i] = Null /\ i < npools'
    <3>1. CASE i \in Unused /\ npools' = npools
      BY <3>1 DEF Unused
    <3>2. CASE i = npools /\ npools < POOLS_MAX /\ npools' = npools * 2
      <4>1. npools \in Id /\ npools >= 1
        BY <1>a, <3>2, SizeAssumption DEF Id, Calls
      <4>2. pools[npools] = Null
        BY <1>a, <4>1
      <4> QED BY <1>a, <3>2, <4>1, <4>2
    <3>3. CASE label = "unlock"
      BY <3>3
    <3> QED BY <2>3, <3>1, <3>2, <3>3
  <2>8. npools_cnt' = Cardinality(Numbered')
    BY <1>a, <1>e, <2>1
  <2>9. \A j \in Id : /\ pools'[j] = BasePool => j = 0
                      /\ pools'[j] # Null => j < npools'
    <3>1. \A j \in Id : /\ pools[j] = BasePool => j = 0
                        /\ pools[j] # Null => j < npools
      BY <1>a DEF TypeOK, Registry
    <3>2. \A j \in Id : j \in Nat
      OBVIOUS
    <3> QED BY <1>a, <2>1, <2>6, <3>1, <3>2
  <2>10. \A u \in Threads : pc'[u] = "create" =>
            pools'[call'[u].id] = Null /\ call'[u].id < npools'
    BY <2>1, <2>2, <2>4, <2>7
  <2>11. header'[BasePool].id = 0
    BY <2>1 DEF Registry
  <2> QED BY <2>5, <2>8, <2>9, <2>10, <2>11 DEF Registry
<1>2. ASSUME NEW t \in Threads, RegisterPool(t) PROVE LockHeld' /\ Registry'
  <2> DEFINE r == call[t].pool
             n == call[t].id
             S == Numbered
  <2>1. /\ r \in Regions /\ n \in Id /\ n # 0 /\ n < npools /\ pools[n] = Null
        /\ pc[t] = "create" /\ pc[Main] # "exited" /\ r # BasePool
    BY <1>a, <1>2, PoolAssumption DEF RegisterPool, Calls, Registry
  <2>2. /\ pools'[n] = r /\ \A i \in Id : i # n => pools'[i] = pools[i]
        /\ UNCHANGED <<npools, pools_lock, call>> /\ npools_cnt' = npools_cnt + 1
    BY <1>2, <2>1 DEF RegisterPool, TypeOK
  <2>3. pc'[t] = "unlock" /\ \A u \in Threads \ {t} : pc'[u] = pc[u]
    BY <1>2 DEF RegisterPool, TypeOK
  <2>4. \A u \in Threads \ {t} : pc[u] # "create"
    BY <2>1 DEF LockHeld
  <2>5. LockHeld'
    BY <2>1, <2>2, <2>3 DEF LockHeld
  <2>6. header'[BasePool].id = 0
    <3>1. header'[BasePool] = header[BasePool]
      BY <1>2, <2>1 DEF RegisterPool, TypeOK
    <3> QED BY <2>1, <3>1 DEF Registry
  <2>7. npools_cnt' = Cardinality(Numbered')
    <3>1. Numbered' = S \cup {n}
      BY <2>1, <2>2 DEF Numbered
    <3>2. n \notin S /\ IsFiniteSet(S)
      BY <1>b, <2>1 DEF Numbered
    <3>3. Cardinality(S \cup {n}) = Cardinality(S) + 1
      BY <3>2, FS_AddElement
    <3> QED BY <1>a, <2>2, <3>1, <3>3
  <2>8. \A i \in Id : /\ pools'[i] = BasePool => i = 0
                      /\ pools'[i] # Null => i < npools'
    <3>1. \A i \in Id : /\ pools[i] = BasePool => i = 0
      BY DEF TypeOK, Registry
    <3> QED BY <1>a, <2>1, <2>2, <3>1
  <2>9. \A u \in Threads : pc'[u] # "create"
    BY <2>3, <2>4
  <2> QED BY <2>5, <2>6, <2>7, <2>8, <2>9 DEF Registry
<1>3. ASSUME NEW t \in Threads, CreateFails(t) PROVE LockHeld' /\ Registry'
  <2>1. /\ UNCHANGED <<pools, npools, npools_cnt, call>>
        /\ pc[t] = "create" /\ pc[Main] # "exited"
    BY <1>3 DEF CreateFails
  <2>2. call[t].pool \in Regions /\ call[t].pool # BasePool
    BY <2>1, PoolAssumption DEF Calls
  <2>3. header'[BasePool] = header[BasePool]
    BY <1>3, <2>2 DEF CreateFails, TypeOK
  <2>4. pc'[t] = "unlock" /\ \A u \in Threads \ {t} : pc'[u] = pc[u]
    BY <1>3 DEF CreateFails, TypeOK
  <2>5. LockHeld' /\ \A u \in Threads : pc'[u] # "create"
    BY <2>1, <2>4 DEF LockHeld
  <2>6. npools_cnt' = Cardinality(Numbered')
    BY <1>a, <1>e, <2>1
  <2>7. \A i \in Id : /\ pools'[i] = BasePool => i = 0
                      /\ pools'[i] # Null => i < npools'
    BY <1>a, <2>1 DEF TypeOK, Registry
  <2>8. \A u \in Threads : pc'[u] = "create" =>
            pools'[call'[u].id] = Null /\ call'[u].id < npools'
    BY <2>5
  <2>9. header'[BasePool].id = 0
    BY <2>1, <2>3 DEF Registry
  <2> QED BY <2>5, <2>6, <2>7, <2>8, <2>9 DEF Registry
<1>4. ASSUME NEW t \in Threads, CreateUnlock(t) PROVE LockHeld' /\ Registry'
  <2>1. /\ pc[t] = "unlock" /\ pc[Main] # "exited" /\ UNCHANGED shared
    BY <1>4 DEF CreateUnlock
  <2>2. pc'[t] = "idle" /\ \A u \in Threads \ {t} : pc'[u] = pc[u]
    BY <1>4 DEF CreateUnlock, Leave, Enter, TypeOK
  <2>3. \A u \in Threads \ {t} : pc[u] # "create"
    <3>1. pools_lock = t \/ pools_lock = Null
      BY <1>4 DEF CreateUnlock
    <3> QED BY <3>1, NullAssumption DEF LockHeld
  <2>4. \A u \in Threads : pc'[u] # "create"
    BY <2>2, <2>3
  <2>5. npools_cnt' = Cardinality(Numbered')
    BY <1>a, <1>e, <2>1 DEF shared
  <2>6. \A i \in Id : /\ pools'[i] = BasePool => i = 0
                      /\ pools'[i] # Null => i < npools'
    BY <1>a, <2>1 DEF TypeOK, Registry, shared
  <2>7. header'[BasePool].id = 0
    BY <2>1 DEF Registry, shared
  <2> QED BY <2>4, <2>5, <2>6, <2>7 DEF Registry, LockHeld
<1>5. ASSUME NEW t \in Threads, Delete(t) PROVE LockHeld' /\ Registry'
  <2> DEFINE r == call[t].pool
             n == call[t].id
             S == Numbered
  <2>1. /\ pc[t] = "delete" /\ pc[Main] # "exited" /\ pools_lock = Null
        /\ UNCHANGED <<npools, pools_lock>>
    BY <1>5 DEF Delete
  <2>2. pc'[t] = "idle" /\ \A u \in Threads \ {t} : pc'[u] = pc[u] /\ call'[u] = call[u]
    BY <1>5, LeaveType DEF Delete
  <2>3. CASE UNCHANGED <<pools, header, npools_cnt>>
    BY <1>d, <2>1, <2>2, <2>3
  <2>4. CASE /\ n # 0 /\ n < npools /\ pools[n] = r
             /\ pools' = [pools EXCEPT ![n] = Null]
             /\ header' = [header EXCEPT ![r].id = UINT_MAX]
             /\ npools_cnt' = npools_cnt - 1
    <3>1. r \in Regions /\ r # BasePool /\ UINT_MAX \in 0..UINT_MAX /\ n \in Nat
      BY <2>1, PoolAssumption DEF Calls, TypeOK
    <3>2. n \in Id
      BY <1>a, <2>4, <3>1, SizeAssumption DEF Listed, Id
    <3>3. /\ pools'[n] = Null /\ \A i \in Id : i # n => pools'[i] = pools[i]
      BY <2>4, <3>2 DEF TypeOK
    <3>4. header'[BasePool] = header[BasePool]
      BY <2>4, <3>1, HeaderId
    <3>5. npools_cnt' = Cardinality(Numbered')
      <4>1. Numbered' = S \ {n}
        BY <3>3 DEF Numbered
      <4>2. n \in S /\ IsFiniteSet(S)
        BY <1>b, <2>4, <3>1, <3>2 DEF Numbered
      <4>3. Cardinality(S \ {n}) = Cardinality(S) - 1
        <5> HIDE DEF S, n
        <5> QED BY <4>2, FS_RemoveElement
      <4> QED BY <1>a, <2>4, <4>1, <4>3
    <3>6. \A u \in Threads : pc'[u] # "create"
      BY <2>1, <2>2, NullAssumption DEF LockHeld
    <3>7. \A i \in Id : /\ pools'[i] = BasePool => i = 0
                        /\ pools'[i] # Null => i < npools'
      <4>1. \A i \in Id : /\ pools[i] = BasePool => i = 0
        BY DEF TypeOK, Registry
      <4> QED BY <1>a, <2>1, <3>3, <4>1
    <3>8. header'[BasePool].id = 0
      BY <2>1, <3>4 DEF Registry
    <3> QED BY <3>5, <3>6, <3>7, <3>8 DEF Registry, LockHeld
  <2>5. n \in Nat
    BY DEF TypeOK
  <2> QED BY <1>a, <1>5, <2>3, <2>4, <2>5 DEF Delete
<1>6. CASE ArenasCleanup
  <2>1. /\ UNCHANGED <<pools, npools, npools_cnt, pools_lock, call>>
        /\ pc'[Main] = "exited" /\ \A u \in Threads \ {Main} : pc'[u] = pc[u]
    BY <1>6, MainAssumption DEF ArenasCleanup, TypeOK
  <2>2. \A u \in Threads : pc'[u] \in {"create", "unlock"} => pc[u] = pc'[u]
    BY <2>1
  <2>3. LockHeld'
    BY <2>1, <2>2 DEF LockHeld
  <2>4. npools_cnt' = Cardinality(Numbered')
    BY <1>a, <1>e, <2>1
  <2>5. \A i \in Id : /\ pools'[i] = BasePool => i = 0
                      /\ pools'[i] # Null => i < npools'
    BY <1>a, <2>1 DEF TypeOK, Registry
  <2>6. \A u \in Threads : pc'[u] = "create" =>
            pools'[call'[u].id] = Null /\ call'[u].id < npools'
    BY <1>a, <2>1, <2>2 DEF Registry
  <2> QED BY <2>1, <2>3, <2>4, <2>5, <2>6 DEF Registry
<1>7. ASSUME NEW t \in Threads, NEW label, NEW c, Enter(t, label, c),
             label \notin {"create", "unlock"}, UNCHANGED shared, UNCHANGED pools_lock,
             pc[Main] # "exited"
      PROVE  LockHeld' /\ Registry'
  <2>1. pc'[t] = label /\ \A u \in Threads \ {t} : pc'[u] = pc[u] /\ call'[u] = call[u]
    BY <1>7 DEF Enter, TypeOK
  <2> QED BY <1>d, <1>7, <2>1 DEF shared
<1>8. ASSUME NEW t \in Threads, NEW r \in Regions, DeleteRead(t, r)
      PROVE  LockHeld' /\ Registry'
  BY <1>7, <1>8 DEF DeleteRead
<1>9. ASSUME NEW t \in Threads, NEW i \in Id, NEW k \in Ind, ThreadArenaCtl(t, i, k)
      PROVE  LockHeld' /\ Registry'
  BY <1>7, <1>9, SMTT(40) DEF ThreadArenaCtl
<1>10. ASSUME NEW t \in Threads, Rebind(t) PROVE LockHeld' /\ Registry'
  BY <1>7, <1>10 DEF Rebind, Leave
<1>11. ASSUME UNCHANGED shared, UNCHANGED <<pools_lock, pc, call>>
       PROVE  LockHeld' /\ Registry'
  BY <1>d, <1>11 DEF shared
<1>12. ASSUME NEW t \in Threads, NEW p \in Allocated,
              MallocCached(t, p) \/ MallocFirst(t, p) \/ MallocUncached(t, p)
              \/ MallocLarge(t, p) \/ Free(t, p)
       PROVE  LockHeld' /\ Registry'
  BY <1>11, <1>12 DEF MallocCached, MallocFirst, MallocUncached, MallocLarge, Free
<1>13. ASSUME NEW t \in Threads, NEW on \in BOOLEAN, TcacheEnabledSet(t, on)
       PROVE  LockHeld' /\ Registry'
  BY <1>11, <1>13 DEF TcacheEnabledSet
<1>14. ASSUME NEW t \in Threads, TcacheFlush(t) PROVE LockHeld' /\ Registry'
  BY <1>11, <1>14 DEF TcacheFlush
<1>15. ASSUME NEW t \in Threads, ThreadExit(t) PROVE LockHeld' /\ Registry'
  BY <1>d, <1>15 DEF ThreadExit, shared, TypeOK
<1>16. CASE TcacheThreadCleanup
  BY <1>d, <1>16, MainAssumption DEF TcacheThreadCleanup, shared, TypeOK
<1>17. CASE UNCHANGED vars
  BY <1>11, <1>17 DEF vars
<1>18. ASSUME NEW t \in Threads, Thread(t) PROVE LockHeld' /\ Registry'
  BY <1>1, <1>2, <1>3, <1>4, <1>5, <1>8, <1>9, <1>10, <1>12, <1>13, <1>14, <1>15,
     <1>18, Zenon DEF Thread
<1> QED BY <1>6, <1>16, <1>17, <1>18 DEF Next

\* pools_lock, once taken away from its holder, has been.
LEMMA IntrudedStays ==
    ASSUME [Next]_vars, intruded
    PROVE  intruded'
<1>1. ASSUME NEW t \in Threads, NEW p \in Allocated,
             MallocCached(t, p) \/ MallocFirst(t, p) \/ MallocUncached(t, p)
             \/ MallocLarge(t, p) \/ Free(t, p)
      PROVE  intruded'
  <2>1. CASE MallocCached(t, p)
    BY <2>1 DEF MallocCached
  <2>2. CASE MallocFirst(t, p)
    BY <2>2 DEF MallocFirst
  <2>3. CASE MallocUncached(t, p)
    BY <2>3 DEF MallocUncached
  <2>4. CASE MallocLarge(t, p)
    BY <2>4 DEF MallocLarge
  <2>5. CASE Free(t, p)
    BY <2>5 DEF Free
  <2> QED BY <1>1, <2>1, <2>2, <2>3, <2>4, <2>5, Zenon
<1>2. ASSUME NEW t \in Threads,
             \/ \E r \in Regions, empty \in BOOLEAN : CreateLock(t, r, empty)
             \/ RegisterPool(t) \/ CreateFails(t) \/ CreateUnlock(t)
             \/ \E r \in Regions : DeleteRead(t, r)
             \/ Delete(t)
      PROVE  intruded'
  BY <1>2 DEF CreateLock, RegisterPool, CreateFails, CreateUnlock, DeleteRead, Delete
<1>3. ASSUME NEW t \in Threads,
             \/ \E on \in BOOLEAN : TcacheEnabledSet(t, on)
             \/ TcacheFlush(t)
             \/ \E i \in Id, k \in Ind : ThreadArenaCtl(t, i, k)
             \/ Rebind(t) \/ ThreadExit(t)
      PROVE  intruded'
  BY <1>3 DEF TcacheEnabledSet, TcacheFlush, ThreadArenaCtl, Rebind, ThreadExit
<1>4. ASSUME NEW t \in Threads, Thread(t) PROVE intruded'
  BY <1>1, <1>2, <1>3, <1>4, Zenon DEF Thread
<1>5. CASE TcacheThreadCleanup
  BY <1>5 DEF TcacheThreadCleanup
<1>6. CASE ArenasCleanup
  BY <1>6 DEF ArenasCleanup
<1>7. CASE UNCHANGED vars
  BY <1>7 DEF vars
<1> QED BY <1>4, <1>5, <1>6, <1>7 DEF Next

LEMMA InitRegistry == Init => LockHeld /\ Registry
<1> SUFFICES ASSUME Init PROVE LockHeld /\ Registry
  OBVIOUS
<1>1. /\ \A i \in Id : pools[i] = IF i = 0 THEN BasePool ELSE Null
      /\ header[BasePool].id = 0 /\ npools \in Nat /\ npools >= 1 /\ npools_cnt = 1
    BY Constants, SizeAssumption DEF Init
<1>2. Numbered = {0}
  BY <1>1, Constants DEF Numbered
<1>3. Cardinality({0}) = 1
  BY FS_Singleton
<1>4. npools_cnt = Cardinality(Numbered)
  BY <1>1, <1>2, <1>3
<1>5. \A t \in Threads : pc[t] = "idle"
  BY DEF Init
<1>6. \A i \in Id : /\ pools[i] # Null => i < npools
                    /\ pools[i] = BasePool => i = 0
  <2>1. Null # BasePool /\ 0 < npools
    BY <1>1, Constants
  <2>2. \A i \in Id : i # 0 => pools[i] = Null
    BY <1>1
  <2> QED BY <2>1, <2>2
<1> QED BY <1>1, <1>4, <1>5, <1>6 DEF LockHeld, Registry

\* What the two theorems about pools[] rest on.
LEMMA RegistryKept == Spec => [](TypeInv /\ Listed /\ (~intruded => Registry))
<1> DEFINE J == ~intruded => LockHeld /\ Registry
           I == TypeInv /\ Numbers /\ Listed /\ J
<1>1. Init => I
  BY InitType, InitOwn, InitRegistry DEF Own
<1>2. I /\ [Next]_vars => I'
  <2>1. I /\ [Next]_vars => TypeInv'
    BY NextType
  <2>2. I /\ [Next]_vars => Numbers'
    BY NextNumbers DEF TypeInv
  <2>3. I /\ [Next]_vars => Listed'
    BY NextListed DEF TypeInv
  <2>4. I /\ [Next]_vars => J'
    <3> SUFFICES ASSUME I, [Next]_vars, ~intruded' PROVE LockHeld' /\ Registry'
      OBVIOUS
    <3>1. LockHeld /\ Registry
      BY IntrudedStays
    <3> QED BY <3>1, NextRegistry DEF TypeInv
  <2> QED BY <2>1, <2>2, <2>3, <2>4
<1>3. I => TypeInv /\ Listed /\ (~intruded => Registry)
  OBVIOUS
<1> QED BY <1>1, <1>2, <1>3, PTL DEF Spec

\* For any threads and pools, however many delete the same pool at once or
\* fail to create or open one: pools[] and the headers agree on every number,
\* and npools_cnt is the number of pools, until a failed pool_open unlocks
\* pools_lock over the head of another thread.
THEOREM RegistryConsistent == Spec => []PoolsConsistent
<1>1. TypeInv /\ Listed /\ (~intruded => Registry) => PoolsConsistent
  <2> SUFFICES ASSUME TypeInv, Listed, Registry
               PROVE  /\ npools_cnt = Cardinality({i \in Id : pools[i] # Null})
                      /\ \A i \in Id : pools[i] # Null =>
                            i < npools /\ (header[pools[i]].id = i \/ pc[Main] = "exited")
    BY DEF PoolsConsistent
  <2>1. npools_cnt = Cardinality({i \in Id : pools[i] # Null})
    BY DEF Registry, Numbered
  <2>2. ASSUME NEW i \in Id, pools[i] # Null
        PROVE  i < npools /\ (header[pools[i]].id = i \/ pc[Main] = "exited")
    <3>1. pools[i] \in Regions \/ pools[i] = BasePool
      BY <2>2 DEF TypeInv, TypeOK, Pool
    <3>2. CASE pools[i] \in Regions
      BY <2>2, <3>2 DEF Listed, Registry
    <3>3. CASE pools[i] = BasePool
      BY <2>2, <3>3 DEF Registry
    <3> QED BY <3>1, <3>2, <3>3
  <2> QED BY <2>1, <2>2
<1> QED BY <1>1, RegistryKept, PTL

\* For any threads and pools, whatever fails: the number that je_pool_create
\* found is still unused when the pool is entered there, unless the second
\* unlock of a failed pool_open took pools_lock away from a thread that held it.
THEOREM NumberKept == Spec => []NumberKeptByLock
<1>1. (~intruded => Registry) => NumberKeptByLock
  BY DEF Registry, NumberKeptByLock, NumberStillUnused
<1> QED BY <1>1, RegistryKept, PTL

(***************************************************************************)
(* The load of the arenas                                                  *)
(***************************************************************************)

\* An arena array holds one pointer to a slot, none beyond its length, and in
\* slot 0 only ones of the base pool's number.
SlotsShaped ==
    \A t \in Threads : \A i \in Id :
        /\ \A a, b \in aslot[t][i].arena : a = b
        /\ aslot[t][i].arena # {} => i < alen[t]
        /\ i = 0 /\ aslot[t][i].arena # {} => aslot[t][i].seqno = 1

\* Number 0 is the base pool's only, until the process ends.
BaseFirst ==
    /\ \A i \in Id : pools[i] = BasePool => i = 0
    /\ pc[Main] # "exited" => header[BasePool].id = 0

Tallied ==
    \A p \in Pool : Registered(p) => \A k \in Ind :
        IsFiniteSet(Bound(p, k)) /\ nthreads[p][k] = Cardinality(Bound(p, k))

Loaded == SlotsShaped /\ BaseFirst /\ Tallied

\* arenas_tsd_extend leaves an array that has the slot, and no shorter one.
LEMMA ExtendedCovers ==
    ASSUME NEW n \in Nat, NEW i \in Id
    PROVE  /\ Extended(n, i) \in Nat
           /\ i < Extended(n, i) /\ n <= Extended(n, i)
<1>1. i \in Nat /\ 1 <= i + 1 /\ i + 1 < 65536 /\ i + 1 \in Nat
  BY SizeAssumption DEF Id
<1>2. PowerAbove(i + 1) \in Nat /\ i + 1 < PowerAbove(i + 1)
  BY <1>1, PowerAboveType
<1> QED BY <1>1, <1>2, SizeAssumption DEF Extended

\* Who is bound to an arena depends on the pool's header and its slots only.
LEMMA BoundSame ==
    ASSUME NEW p \in Pool, header'[p] = header[p],
           \A u \in Threads : aslot'[u][header[p].id] = aslot[u][header[p].id]
    PROVE  \A k \in Ind : Bound(p, k)' = Bound(p, k)
  BY DEF Bound, Remembers

\* Pools may go, and others keep their headers, threads and slots.
LEMMA LoadSame ==
    ASSUME Tallied, aslot' = aslot, nthreads' = nthreads,
           \A p \in Pool : Registered(p)' => Registered(p) /\ header'[p] = header[p]
    PROVE  Tallied'
<1> SUFFICES ASSUME NEW p \in Pool, Registered(p)', NEW k \in Ind
             PROVE  IsFiniteSet(Bound(p, k)') /\
                       nthreads'[p][k] = Cardinality(Bound(p, k)')
  BY DEF Tallied
<1>1. Bound(p, k)' = Bound(p, k)
  BY BoundSame
<1> QED BY <1>1 DEF Tallied

LEMMA SlotsSame ==
    ASSUME SlotsShaped, aslot' = aslot, alen' = alen
    PROVE  SlotsShaped'
  BY DEF SlotsShaped

LEMMA NothingMoved ==
    ASSUME Loaded, UNCHANGED <<aslot, alen, nthreads, header, pools>>,
           pc[Main] = "exited" => pc'[Main] = "exited"
    PROVE  Loaded'
<1>1. SlotsShaped'
  BY SlotsSame DEF Loaded
<1>2. BaseFirst'
  BY DEF Loaded, BaseFirst
<1>3. Tallied'
  BY LoadSame DEF Loaded, Registered
<1> QED BY <1>1, <1>2, <1>3 DEF Loaded

\* Two registered pools have different numbers.
LEMMA NumbersApart ==
    ASSUME NEW p \in Pool, NEW q \in Pool, Registered(p), Registered(q), p # q
    PROVE  header[p].id # header[q].id
  BY DEF Registered

\* Adding one thread to, or taking one from, those that are counted.
LEMMA OneMore ==
    ASSUME NEW S, NEW x, x \notin S, IsFiniteSet(S), NEW n \in Int,
           n = Cardinality(S)
    PROVE  IsFiniteSet(S \cup {x}) /\ n + 1 = Cardinality(S \cup {x})
<1>1. IsFiniteSet(S \cup {x}) /\ Cardinality(S \cup {x}) = Cardinality(S) + 1
  BY FS_AddElement
<1> QED BY <1>1

LEMMA OneLess ==
    ASSUME NEW S, NEW x \in S, IsFiniteSet(S), NEW n \in Int,
           n = Cardinality(S)
    PROVE  IsFiniteSet(S \ {x}) /\ n - 1 = Cardinality(S \ {x})
<1>1. IsFiniteSet(S \ {x}) /\ Cardinality(S \ {x}) = Cardinality(S) - 1
  BY FS_RemoveElement
<1> QED BY <1>1

\* The slot that choose_arena and thread.pool.<i>.arena write.
SlotFor(p, k) == [seqno |-> header[p].seqno,
                  arena |-> {[pool |-> p, birth |-> header[p].birth, ind |-> k]}]

LEMMA SlotForFields ==
    ASSUME TypeOK, NEW p \in Pool, NEW k \in Ind
    PROVE  /\ SlotFor(p, k) \in ArenaSlot
           /\ SlotFor(p, k).seqno = header[p].seqno
           /\ SlotFor(p, k).arena # {}
           /\ \A a, b \in SlotFor(p, k).arena : a = b
           /\ \A a \in SlotFor(p, k).arena : a.ind = k
<1> DEFINE a0 == [pool |-> p, birth |-> header[p].birth, ind |-> k]
<1>1. a0 \in Arena /\ a0.ind = k
  BY DEF Arena, TypeOK
<1>2. header[p].seqno \in Nat
  BY DEF TypeOK
<1>3. SlotFor(p, k) = [seqno |-> header[p].seqno, arena |-> {a0}]
  BY DEF SlotFor
<1> HIDE DEF a0
<1>4. /\ SlotFor(p, k).seqno = header[p].seqno /\ SlotFor(p, k).arena = {a0}
      /\ SlotFor(p, k) \in ArenaSlot
  BY <1>1, <1>2, <1>3 DEF ArenaSlot
<1> QED BY <1>1, <1>4

\* Who is bound where after thread t's slot of pool p was written.
LEMMA BoundWritten ==
    ASSUME TypeOK, NEW t \in Threads, NEW p \in Pool, header[p].id \in Id,
           NEW k \in Ind, header' = header,
           aslot' = [aslot EXCEPT ![t][header[p].id] = SlotFor(p, k)]
    PROVE  /\ aslot'[t][header[p].id] = SlotFor(p, k)
           /\ \A u \in Threads : \A j \in Id :
                 u # t \/ j # header[p].id => aslot'[u][j] = aslot[u][j]
           /\ Bound(p, k)' = Bound(p, k) \cup {t}
           /\ \A j \in Ind \ {k} : Bound(p, j)' = Bound(p, j) \ {t}
<1>1. /\ aslot'[t][header[p].id] = SlotFor(p, k)
      /\ \A u \in Threads : \A j \in Id :
            u # t \/ j # header[p].id => aslot'[u][j] = aslot[u][j]
  BY SlotForFields, SlotWritten DEF TypeOK
<1>2. \A u \in Threads : u # t => \A j \in Ind : u \in Bound(p, j)' <=> u \in Bound(p, j)
  BY <1>1 DEF Bound, Remembers
<1>3. \A j \in Ind : t \in Bound(p, j)' <=> j = k
  BY <1>1, SlotForFields DEF Bound, Remembers
<1>4. \A j \in Ind : Bound(p, j) \subseteq Threads /\ Bound(p, j)' \subseteq Threads
  BY DEF Bound
<1>5. Bound(p, k)' = Bound(p, k) \cup {t}
  BY <1>2, <1>3, <1>4
<1>6. \A j \in Ind \ {k} : Bound(p, j)' = Bound(p, j) \ {t}
  BY <1>2, <1>3, <1>4
<1> QED BY <1>1, <1>5, <1>6

\* A slot with a pointer was written: the array still holds one to a slot.
LEMMA SlotsWritten ==
    ASSUME TypeOK, Numbers, SlotsShaped, NEW t \in Threads, NEW p \in Pool, NEW k \in Ind,
           header[p].id \in Id, header[p].id = 0 => p = BasePool,
           aslot'[t][header[p].id] = SlotFor(p, k),
           \A u \in Threads : \A j \in Id :
              u # t \/ j # header[p].id => aslot'[u][j] = aslot[u][j],
           \A u \in Threads : alen[u] <= alen'[u],
           \A u \in Threads : alen'[u] \in Nat,
           header[p].id < alen'[t]
    PROVE  SlotsShaped'
<1> SUFFICES ASSUME NEW u \in Threads, NEW i \in Id
             PROVE  /\ \A a, b \in aslot'[u][i].arena : a = b
                    /\ aslot'[u][i].arena # {} => i < alen'[u]
                    /\ i = 0 /\ aslot'[u][i].arena # {} => aslot'[u][i].seqno = 1
  BY DEF SlotsShaped
<1>1. CASE u = t /\ i = header[p].id
  BY <1>1, SlotForFields DEF Numbers
<1>2. CASE u # t \/ i # header[p].id
  <2>1. aslot'[u][i] = aslot[u][i]
    BY <1>2
  <2>2. i \in Nat /\ alen[u] \in Nat /\ alen'[u] \in Nat
    BY Constants DEF TypeOK
  <2> QED BY <2>1, <2>2 DEF SlotsShaped
<1> QED BY <1>1, <1>2

\* choose_arena counts the thread where it sends it.
LEMMA ChooseLoad ==
    ASSUME TypeOK, Calls, Numbers, SlotsShaped, Tallied, NEW t \in Threads,
           NEW p \in Pool, Usable(p), ChooseArena(t, p), UNCHANGED <<pools, header>>
    PROVE  SlotsShaped' /\ Tallied'
<1>1. Registered(p) /\ header[p].id \in Id /\ (header[p].id = 0 => p = BasePool)
  BY Constants DEF Usable, Registered, Calls, Pool
<1>2. /\ alen' \in [Threads -> Nat]
      /\ header[p].id < alen'[t] /\ \A u \in Threads : alen[u] <= alen'[u]
  <2>1. /\ Extended(alen[t], header[p].id) \in Nat
        /\ header[p].id < Extended(alen[t], header[p].id)
        /\ alen[t] <= Extended(alen[t], header[p].id)
    BY <1>1, ExtendedCovers DEF TypeOK
  <2> QED BY <2>1 DEF ChooseArena, TypeOK
<1>3. CASE Remembers(t, p)
  <2>1. aslot' = aslot /\ nthreads' = nthreads
    BY <1>3 DEF ChooseArena
  <2>2. Tallied'
    BY <2>1, LoadSame DEF Registered
  <2>3. SlotsShaped'
    <3> SUFFICES ASSUME NEW u \in Threads, NEW i \in Id
                 PROVE  aslot[u][i].arena # {} => i < alen'[u]
      BY <2>1 DEF SlotsShaped
    <3>1. i \in Nat /\ alen[u] \in Nat /\ alen'[u] \in Nat
      BY <1>2, Constants DEF TypeOK
    <3> QED BY <1>2, <3>1 DEF SlotsShaped
  <2> QED BY <2>2, <2>3
<1>4. CASE ~Remembers(t, p)
  <2>1. PICK k \in Ind :
          /\ nthreads' = [nthreads EXCEPT ![p][k] = @ + 1]
          /\ aslot' = [aslot EXCEPT ![t][header[p].id] = SlotFor(p, k)]
    BY <1>4 DEF ChooseArena, SlotFor
  <2>2. /\ aslot'[t][header[p].id] = SlotFor(p, k)
        /\ \A u \in Threads : \A j \in Id :
              u # t \/ j # header[p].id => aslot'[u][j] = aslot[u][j]
        /\ Bound(p, k)' = Bound(p, k) \cup {t}
        /\ \A j \in Ind \ {k} : Bound(p, j)' = Bound(p, j) \ {t}
    BY <1>1, <2>1, BoundWritten
  <2>3. \A j \in Ind : t \notin Bound(p, j)
    BY <1>4 DEF Bound
  <2>4. /\ nthreads'[p][k] = nthreads[p][k] + 1
        /\ \A j \in Ind \ {k} : nthreads'[p][j] = nthreads[p][j]
        /\ \A q \in Pool \ {p} : nthreads'[q] = nthreads[q]
        /\ nthreads[p][k] \in Int
    BY <2>1 DEF TypeOK
  <2>5. ASSUME NEW q \in Pool, Registered(q)', NEW j \in Ind
        PROVE  IsFiniteSet(Bound(q, j)') /\
                  nthreads'[q][j] = Cardinality(Bound(q, j)')
    <3>1. Registered(q) /\ header[q].id \in Id
      BY <2>5 DEF Registered
    <3>2. IsFiniteSet(Bound(q, j)) /\ nthreads[q][j] = Cardinality(Bound(q, j))
      BY <3>1 DEF Tallied
    <3>3. CASE q # p
      <4>1. header[q].id # header[p].id
        BY <1>1, <3>1, <3>3, NumbersApart
      <4>2. Bound(q, j)' = Bound(q, j)
        BY <2>2, <3>1, <4>1, BoundSame
      <4> QED BY <2>4, <3>2, <3>3, <4>2
    <3>4. CASE q = p /\ j = k
      <4>1. /\ Bound(q, j)' = Bound(q, j) \cup {t} /\ t \notin Bound(q, j)
            /\ nthreads'[q][j] = nthreads[q][j] + 1 /\ nthreads[q][j] \in Int
        BY <2>2, <2>3, <2>4, <3>4
      <4> QED BY <3>2, <4>1, OneMore
    <3>5. CASE q = p /\ j # k
      <4>1. Bound(q, j)' = Bound(q, j)
        BY <2>2, <2>3, <3>5, SMTT(40)
      <4> QED BY <2>4, <3>2, <3>5, <4>1
    <3> QED BY <3>3, <3>4, <3>5
  <2>6. Tallied'
    BY <2>5 DEF Tallied
  <2>7. SlotsShaped'
    BY <1>1, <1>2, <2>2, SlotsWritten
  <2> QED BY <2>6, <2>7
<1> QED BY <1>3, <1>4

\* thread.pool.0.arena: the arena that is left loses the thread, the other
\* gains it.
LEMMA RebindLoad ==
    ASSUME TypeOK, Calls, MovesInBase, Numbers, Loaded, NEW t \in Threads, Rebind(t)
    PROVE  SlotsShaped' /\ Tallied'
<1>1. /\ call[t].pool = BasePool /\ header[BasePool].id = 0
      /\ call[t].id \in Ind /\ BasePool \in Pool /\ 0 \in Id
      /\ header' = header /\ pools' = pools /\ alen' = alen
  BY Constants
  DEF Rebind, At, MovesInBase, Loaded, BaseFirst, Calls, shared
<1>0. PICK k : k = call[t].id
  OBVIOUS
<1>2. PICK here \in aslot[t][0].arena :
         \/ UNCHANGED <<arenas, nthreads, aslot, tslot>>
         \/ /\ here.ind # k
            /\ nthreads' = [nthreads EXCEPT ![BasePool] = Moved(@, here.ind, k)]
            /\ aslot' = [aslot EXCEPT ![t][0] = SlotFor(BasePool, k)]
  BY <1>0, <1>1 DEF Rebind, SlotFor
<1>3. CASE UNCHANGED <<arenas, nthreads, aslot, tslot>>
  BY <1>1, <1>3, LoadSame, SlotsSame DEF Loaded, Registered
<1>4. CASE /\ here.ind # k
           /\ nthreads' = [nthreads EXCEPT ![BasePool] = Moved(@, here.ind, k)]
           /\ aslot' = [aslot EXCEPT ![t][0] = SlotFor(BasePool, k)]
  <2>0. here \in Arena /\ here.ind \in Ind
    BY <1>1 DEF TypeOK, ArenaSlot, Arena
  <2>1. /\ aslot'[t][0] = SlotFor(BasePool, k)
        /\ \A u \in Threads : \A j \in Id :
              u # t \/ j # 0 => aslot'[u][j] = aslot[u][j]
        /\ Bound(BasePool, k)' = Bound(BasePool, k) \cup {t}
        /\ \A j \in Ind \ {k} : Bound(BasePool, j)' = Bound(BasePool, j) \ {t}
    <3>1. aslot' = [aslot EXCEPT ![t][header[BasePool].id] = SlotFor(BasePool, k)]
      BY <1>1, <1>4
    <3>2. k \in Ind /\ header[BasePool].id \in Id
      BY <1>0, <1>1
    <3>3. /\ aslot'[t][header[BasePool].id] = SlotFor(BasePool, k)
          /\ \A u \in Threads : \A j \in Id :
                u # t \/ j # header[BasePool].id => aslot'[u][j] = aslot[u][j]
          /\ Bound(BasePool, k)' = Bound(BasePool, k) \cup {t}
          /\ \A j \in Ind \ {k} : Bound(BasePool, j)' = Bound(BasePool, j) \ {t}
      <4>1. BasePool \in Pool /\ header' = header
        BY <1>1
      <4> QED BY <3>1, <3>2, <4>1, BoundWritten, Zenon
    <3> QED BY <1>1, <3>3
  <2>2. aslot[t][0].seqno = 1 /\ header[BasePool].seqno = 1 /\ 0 < alen[t]
    BY <1>1, <1>2 DEF Loaded, SlotsShaped, Numbers
  <2>3. \A j \in Ind : t \in Bound(BasePool, j) <=> j = here.ind
    BY <1>1, <1>2, <2>2 DEF Bound, Remembers, Loaded, SlotsShaped
  <2>4. /\ \A q \in Pool \ {BasePool} : nthreads'[q] = nthreads[q]
        /\ nthreads'[BasePool][k] = nthreads[BasePool][k] + 1
        /\ nthreads'[BasePool][here.ind] = nthreads[BasePool][here.ind] - 1
        /\ \A j \in Ind : j # k /\ j # here.ind =>
              nthreads'[BasePool][j] = nthreads[BasePool][j]
        /\ \A j \in Ind : nthreads[BasePool][j] \in Int
    <3>1. nthreads'[BasePool] = Moved(nthreads[BasePool], here.ind, k)
      BY <1>1, <1>4 DEF TypeOK
    <3>2. \A j \in Ind : nthreads[BasePool][j] \in Int
      BY <1>1 DEF TypeOK
    <3>3. \A q \in Pool \ {BasePool} : nthreads'[q] = nthreads[q]
      BY <1>4 DEF TypeOK
    <3> QED BY <1>0, <1>1, <1>4, <2>0, <3>1, <3>2, <3>3 DEF Moved
  <2>5. ASSUME NEW q \in Pool, Registered(q)', NEW j \in Ind
        PROVE  IsFiniteSet(Bound(q, j)') /\
                  nthreads'[q][j] = Cardinality(Bound(q, j)')
    <3>1. Registered(q) /\ header[q].id \in Id
      BY <1>1, <2>5 DEF Registered
    <3>2. IsFiniteSet(Bound(q, j)) /\ nthreads[q][j] = Cardinality(Bound(q, j))
      BY <3>1 DEF Loaded, Tallied
    <3>3. CASE q # BasePool
      <4>1. header[q].id # 0
        BY <3>3 DEF Calls, Pool
      <4>2. Bound(q, j)' = Bound(q, j)
        BY <1>1, <2>1, <3>1, <4>1, BoundSame
      <4> QED BY <2>4, <3>2, <3>3, <4>2
    <3>4. CASE q = BasePool /\ j = k
      <4>1. t \notin Bound(q, j)
        BY <1>4, <2>3, <3>4
      <4>2. /\ Bound(q, j)' = Bound(q, j) \cup {t}
            /\ nthreads'[q][j] = nthreads[q][j] + 1 /\ nthreads[q][j] \in Int
        BY <2>1, <2>4, <3>4
      <4>3. IsFiniteSet(Bound(q, j) \cup {t})
              /\ nthreads[q][j] + 1 = Cardinality(Bound(q, j) \cup {t})
        BY <3>2, <4>1, <4>2, OneMore
      <4> QED BY <4>2, <4>3
    <3>5. CASE q = BasePool /\ j = here.ind
      <4>1. t \in Bound(q, j) /\ j # k
        BY <1>4, <2>3, <3>5
      <4>2. /\ Bound(q, j)' = Bound(q, j) \ {t}
            /\ nthreads'[q][j] = nthreads[q][j] - 1 /\ nthreads[q][j] \in Int
        BY <2>1, <2>4, <3>5, <4>1
      <4> QED BY <3>2, <4>1, <4>2, OneLess, SMTT(40)
    <3>6. CASE q = BasePool /\ j # k /\ j # here.ind
      <4>1. Bound(q, j)' = Bound(q, j)
        BY <2>1, <2>3, <3>6
      <4> QED BY <2>4, <3>2, <3>6, <4>1
    <3> QED BY <3>3, <3>4, <3>5, <3>6
  <2>6. Tallied'
    BY <2>5 DEF Tallied
  <2>7. SlotsShaped'
    <3>1. \A u \in Threads : alen'[u] \in Nat /\ alen[u] <= alen'[u]
      BY <1>1 DEF TypeOK
    <3>2. /\ k \in Ind /\ header[BasePool].id < alen'[t]
          /\ aslot'[t][header[BasePool].id] = SlotFor(BasePool, k)
          /\ header[BasePool].id \in Id
          /\ \A u \in Threads : \A j \in Id :
                u # t \/ j # header[BasePool].id => aslot'[u][j] = aslot[u][j]
      BY <1>0, <1>1, <2>1, <2>2
    <3> QED BY <1>1, <3>1, <3>2, SlotsWritten DEF Loaded
  <2> QED BY <2>6, <2>7
<1> QED BY <1>2, <1>3, <1>4

\* arenas_cleanup takes the main thread off the arenas of its slots.
LEMMA CleanupLoad ==
    ASSUME TypeOK, Calls, Listed, Numbers, ArenaSlotsFilled, Loaded, ArenasCleanup
    PROVE  Loaded'
<1>1. /\ Main \in Threads /\ BasePool \in Pool /\ UINT_MAX \in 0..UINT_MAX
      /\ UINT_MAX \notin Id
  BY MainAssumption, Constants DEF Id, UINT_MAX
<1>2. /\ header'[BasePool].id = UINT_MAX /\ pools' = pools /\ pc'[Main] = "exited"
      /\ \A p \in Pool : p # BasePool => header'[p] = header[p]
  BY <1>1, HeaderId DEF ArenasCleanup, TypeOK
<1>3. /\ \A i \in Id : aslot'[Main][i].arena = {}
      /\ \A u \in Threads : u # Main => aslot'[u] = aslot[u] /\ alen'[u] = alen[u]
  BY <1>1 DEF ArenasCleanup, EmptyA, TypeOK
<1>4. SlotsShaped'
  BY <1>3 DEF Loaded, SlotsShaped
<1>5. BaseFirst'
  BY <1>2 DEF Loaded, BaseFirst
<1>6. ASSUME NEW p \in Pool, Registered(p)', NEW k \in Ind
      PROVE  IsFiniteSet(Bound(p, k)') /\
                nthreads'[p][k] = Cardinality(Bound(p, k)')
  <2>1. p # BasePool /\ p \in Regions /\ header'[p] = header[p]
    BY <1>1, <1>2, <1>6 DEF Registered, Pool
  <2>2. Registered(p) /\ header[p].id \in Id /\ header[p].id # 0
        /\ pools[header[p].id] = p
    BY <1>2, <1>6, <2>1 DEF Registered, Calls
  <2>3. IsFiniteSet(Bound(p, k)) /\ nthreads[p][k] = Cardinality(Bound(p, k))
        /\ nthreads[p][k] \in Int
    BY <2>2 DEF Loaded, Tallied, TypeOK
  <2> DEFINE mine == {i \in OwnSlots : \E a \in aslot[Main][i].arena :
                                          a.pool = p /\ a.ind = k}
  <2>4. nthreads'[p][k] = nthreads[p][k] - Cardinality(mine)
    BY DEF ArenasCleanup
  <2>5. Bound(p, k)' = Bound(p, k) \ {Main}
    <3>1. \A u \in Threads : u # Main => (u \in Bound(p, k)' <=> u \in Bound(p, k))
      BY <1>3, <2>1 DEF Bound, Remembers
    <3>2. Main \notin Bound(p, k)'
      BY <1>3, <2>1, <2>2 DEF Bound, Remembers
    <3>3. Bound(p, k)' \subseteq Threads /\ Bound(p, k) \subseteq Threads
      BY DEF Bound
    <3> QED BY <3>1, <3>2, <3>3
  <2>6. ASSUME NEW i \in mine PROVE i = header[p].id /\ Main \in Bound(p, k)
    <3>1. PICK a \in aslot[Main][i].arena : a.pool = p /\ a.ind = k
      BY <2>6
    <3>2. i \in Id /\ pools[i] # Null
          /\ header[pools[i]].seqno = aslot[Main][i].seqno
      BY <2>6 DEF OwnSlots
    <3>3. Filled(i, aslot[Main][i].seqno, a)
      BY <1>1, <3>1, <3>2 DEF ArenaSlotsFilled
    <3>4. i # 0
      BY <2>1, <3>1, <3>3 DEF Filled
    <3>5. pools[i] \in Regions
      BY <3>2, <3>4 DEF Loaded, BaseFirst, TypeOK, Pool
    <3>6. pools[i] = p
      BY <3>1, <3>2, <3>3, <3>4, <3>5 DEF Filled
    <3>7. header[p].id = i
      BY <3>2, <3>5, <3>6 DEF Listed
    <3> QED BY <1>1, <3>1, <3>2, <3>6, <3>7 DEF Bound, Remembers
  <2>7. ASSUME Main \in Bound(p, k) PROVE header[p].id \in mine
    <3>0. PICK i : i = header[p].id
      OBVIOUS
    <3>1. /\ aslot[Main][i].seqno = header[p].seqno /\ aslot[Main][i].arena # {}
      BY <2>7, <3>0 DEF Bound, Remembers
    <3>2. PICK a \in aslot[Main][i].arena : a.ind = k
      BY <2>7, <3>0 DEF Bound
    <3>3. Filled(header[p].id, header[p].seqno, a)
      BY <1>1, <2>2, <3>0, <3>1, <3>2 DEF ArenaSlotsFilled
    <3>4. a.pool = p
      BY <2>2, <3>3, FilledOwn
    <3>5. i < alen[Main]
      BY <1>1, <2>2, <3>0, <3>1 DEF Loaded, SlotsShaped
    <3>6. pools[i] # Null
      BY <2>1, <2>2, <3>0, Constants
    <3>7. i \in OwnSlots
      BY <2>2, <3>0, <3>1, <3>5, <3>6 DEF OwnSlots
    <3> QED BY <3>0, <3>2, <3>4, <3>7
  <2> HIDE DEF mine
  <2>8. CASE Main \in Bound(p, k)
    <3>1. mine = {header[p].id}
      BY <2>6, <2>7, <2>8
    <3>2. Cardinality(mine) = 1
      BY <3>1, FS_Singleton
    <3>3. nthreads'[p][k] = nthreads[p][k] - 1
      BY <2>4, <3>2
    <3>4. /\ IsFiniteSet(Bound(p, k) \ {Main})
          /\ nthreads[p][k] - 1 = Cardinality(Bound(p, k) \ {Main})
      BY <2>3, <2>8, OneLess
    <3> QED BY <2>5, <3>3, <3>4
  <2>9. CASE Main \notin Bound(p, k)
    <3>1. mine = {}
      BY <2>6, <2>9
    <3>2. Cardinality(mine) = 0
      BY <3>1, FS_EmptySet
    <3>3. nthreads'[p][k] = nthreads[p][k]
      BY <2>3, <2>4, <3>2
    <3>4. Bound(p, k)' = Bound(p, k)
      BY <2>5, <2>9
    <3> QED BY <2>3, <3>3, <3>4
  <2> QED BY <2>8, <2>9
<1>7. Tallied'
  BY <1>6 DEF Tallied
<1> QED BY <1>4, <1>5, <1>7 DEF Loaded

\* A pool that is entered has a number that no slot was ever filled for.
LEMMA RegisterLoad ==
    ASSUME TypeOK, Calls, Listed, Numbers, ArenaSlotsFilled, Loaded,
           NEW t \in Threads, RegisterPool(t)
    PROVE  Loaded'
<1>0. PICK r : r = call[t].pool
  OBVIOUS
<1>1. /\ r \in Regions /\ r \in Pool /\ r # BasePool
      /\ call[t].id \in Id /\ call[t].id # 0 /\ pc[Main] # "exited"
  BY <1>0, Constants, PoolAssumption DEF RegisterPool, At, Calls
<1>2. /\ header'[r] = [id |-> call[t].id, seqno |-> pool_seqno, birth |-> pool_seqno]
      /\ \A p \in Pool : p # r => header'[p] = header[p]
      /\ pools'[call[t].id] = r
      /\ \A i \in Id : i # call[t].id => pools'[i] = pools[i]
      /\ nthreads'[r] = [k \in Ind |-> 0]
      /\ \A p \in Pool : p # r => nthreads'[p] = nthreads[p]
      /\ aslot' = aslot /\ alen' = alen /\ pool_seqno \in Nat
  BY <1>0, <1>1 DEF RegisterPool, TypeOK, tsd
<1>3. SlotsShaped'
  BY <1>2, SlotsSame DEF Loaded
<1>4. BaseFirst'
  BY <1>1, <1>2, Constants DEF Loaded, BaseFirst
<1>5. ASSUME NEW p \in Pool, Registered(p)', NEW k \in Ind
      PROVE  IsFiniteSet(Bound(p, k)') /\
                nthreads'[p][k] = Cardinality(Bound(p, k)')
  <2>1. CASE p = r
    <3>1. /\ header'[p].id = call[t].id /\ header'[p].seqno = pool_seqno
      BY <1>2, <2>1
    <3>2. ASSUME NEW u \in Threads, aslot[u][call[t].id].seqno = pool_seqno,
                 NEW a \in aslot[u][call[t].id].arena
          PROVE  FALSE
      <4>1. Filled(call[t].id, pool_seqno, a)
        BY <1>1, <3>2 DEF ArenaSlotsFilled
      <4>2. pool_seqno < pool_seqno
        BY <1>1, <4>1 DEF Filled
      <4> QED BY <1>2, <4>2
    <3>3. Bound(p, k)' = {}
      BY <1>2, <3>1, <3>2 DEF Bound, Remembers
    <3>4. nthreads'[p][k] = 0
      BY <1>2, <2>1
    <3> QED BY <3>3, <3>4, FS_EmptySet
  <2>2. CASE p # r
    <3>1. header'[p] = header[p] /\ nthreads'[p] = nthreads[p]
      BY <1>2, <2>2
    <3>2. header[p].id \in Id /\ pools'[header[p].id] = p
      BY <1>5, <3>1 DEF Registered
    <3>3. Registered(p)
      BY <1>2, <2>2, <3>2 DEF Registered
    <3>4. Bound(p, k)' = Bound(p, k)
      BY <1>2, <3>1, BoundSame
    <3> QED BY <3>1, <3>3, <3>4 DEF Loaded, Tallied
  <2> QED BY <2>1, <2>2
<1>6. Tallied'
  BY <1>5 DEF Tallied
<1> QED BY <1>3, <1>4, <1>6 DEF Loaded

LEMMA FailLoad ==
    ASSUME TypeOK, Calls, Listed, Loaded, NEW t \in Threads, CreateFails(t)
    PROVE  Loaded'
<1>0. PICK r : r = call[t].pool
  OBVIOUS
<1>1. /\ r \in Regions /\ r \in Pool /\ r # BasePool /\ pc[Main] # "exited"
      /\ \A i \in Id : pools[i] # r
  BY <1>0, Constants, PoolAssumption DEF CreateFails, At, Calls, Listed
<1>2. /\ \A p \in Pool : p # r => header'[p] = header[p]
      /\ pools' = pools /\ aslot' = aslot /\ alen' = alen /\ nthreads' = nthreads
  BY <1>0, <1>1 DEF CreateFails, TypeOK, tsd
<1>3. SlotsShaped'
  BY <1>2, SlotsSame DEF Loaded
<1>4. BaseFirst'
  BY <1>1, <1>2, Constants DEF Loaded, BaseFirst
<1>5. \A p \in Pool : Registered(p)' => Registered(p) /\ header'[p] = header[p]
  BY <1>1, <1>2 DEF Registered
<1>6. Tallied'
  BY <1>2, <1>5, LoadSame DEF Loaded
<1> QED BY <1>3, <1>4, <1>6 DEF Loaded

LEMMA DeleteLoad ==
    ASSUME TypeOK, Calls, Loaded, NEW t \in Threads, Delete(t)
    PROVE  Loaded'
<1>0. PICK r : r = call[t].pool
  OBVIOUS
<1>1. /\ r \in Regions /\ r \in Pool /\ r # BasePool /\ pc[Main] # "exited"
      /\ UINT_MAX \in 0..UINT_MAX /\ UINT_MAX \notin Id
  BY <1>0, Constants, PoolAssumption DEF Delete, At, Calls, Id, UINT_MAX
<1>2. aslot' = aslot /\ alen' = alen /\ nthreads' = nthreads
  BY DEF Delete, tsd
<1>3. SlotsShaped'
  BY <1>2, SlotsSame DEF Loaded
<1>4. \/ pools' = pools /\ header' = header
      \/ /\ \A i \in Id : pools'[i] = pools[i] \/ pools'[i] = Null
         /\ header'[r].id = UINT_MAX
         /\ \A p \in Pool : p # r => header'[p] = header[p]
  <2>1. CASE UNCHANGED <<pools, header, npools_cnt>>
    BY <2>1
  <2>2. CASE /\ pools' = [pools EXCEPT ![call[t].id] = Null]
             /\ header' = [header EXCEPT ![call[t].pool].id = UINT_MAX]
    <3>1. \A i \in Id : pools'[i] = pools[i] \/ pools'[i] = Null
      BY <2>2 DEF TypeOK
    <3>2. /\ header'[r].id = UINT_MAX
          /\ \A p \in Pool : p # r => header'[p] = header[p]
      BY <1>0, <1>1, <2>2, HeaderId
    <3> QED BY <3>1, <3>2
  <2> QED BY <2>1, <2>2 DEF Delete
<1>5. BaseFirst'
  BY <1>1, <1>4, Constants DEF Loaded, BaseFirst
<1>6. \A p \in Pool : Registered(p)' => Registered(p) /\ header'[p] = header[p]
  BY <1>1, <1>4, Constants DEF Registered
<1>7. Tallied'
  BY <1>2, <1>6, LoadSame DEF Loaded
<1> QED BY <1>3, <1>5, <1>7 DEF Loaded

LEMMA InitLoad == Init => Loaded
<1> SUFFICES ASSUME Init PROVE Loaded
  OBVIOUS
<1>1. SlotsShaped
  BY DEF Init, SlotsShaped, EmptyA
<1>2. BaseFirst
  BY Constants DEF Init, BaseFirst
<1>3. ASSUME NEW p \in Pool, Registered(p), NEW k \in Ind
      PROVE  IsFiniteSet(Bound(p, k)) /\ nthreads[p][k] = Cardinality(Bound(p, k))
  <2>1. Bound(p, k) = {}
    BY <1>3 DEF Init, Bound, Remembers, EmptyA, Registered
  <2>2. nthreads[p][k] = 0
    BY DEF Init
  <2> QED BY <2>1, <2>2, FS_EmptySet
<1> QED BY <1>1, <1>2, <1>3 DEF Loaded, Tallied

LEMMA NextLoad ==
    ASSUME TypeOK, Calls, Listed, Own, Loaded, [Next]_vars
    PROVE  Loaded'
<1> USE DEF At, Running
<1>1. ASSUME NEW t \in Threads, NEW r \in Regions, NEW empty \in BOOLEAN,
             CreateLock(t, r, empty)
      PROVE  Loaded'
  BY <1>1, NothingMoved DEF CreateLock, tsd
<1>2. ASSUME NEW t \in Threads,
             RegisterPool(t) \/ CreateFails(t) \/ Delete(t) \/ CreateUnlock(t)
      PROVE  Loaded'
  <2>1. CASE CreateUnlock(t)
    BY <2>1, NothingMoved DEF CreateUnlock, shared, tsd
  <2> QED BY <1>2, <2>1, RegisterLoad, FailLoad, DeleteLoad DEF Own
<1>3. ASSUME NEW t \in Threads, NEW r \in Regions, DeleteRead(t, r) PROVE Loaded'
  BY <1>3, NothingMoved DEF DeleteRead, shared, tsd
<1>4. ASSUME NEW t \in Threads, NEW p \in Allocated,
             MallocCached(t, p) \/ Free(t, p)
      PROVE  Loaded'
  BY <1>4, NothingMoved DEF MallocCached, Free, shared
<1>5. ASSUME NEW t \in Threads, NEW p \in Pool, Usable(p), ChooseArena(t, p),
             UNCHANGED <<pools, header>>, pc[Main] # "exited"
      PROVE  Loaded'
  <2>1. SlotsShaped' /\ Tallied'
    BY <1>5, ChooseLoad DEF Own, Loaded
  <2>2. BaseFirst'
    BY <1>5 DEF Loaded, BaseFirst
  <2> QED BY <2>1, <2>2 DEF Loaded
<1>6. ASSUME NEW t \in Threads, NEW p \in Allocated,
             MallocFirst(t, p) \/ MallocUncached(t, p) \/ MallocLarge(t, p)
      PROVE  Loaded'
  <2>1. p \in Pool
    BY AllocatedAssumption DEF Pool
  <2> QED BY <1>5, <1>6, <2>1 DEF MallocFirst, MallocUncached, MallocLarge, shared
<1>7. ASSUME NEW t \in Threads, NEW on \in BOOLEAN, TcacheEnabledSet(t, on)
      PROVE  Loaded'
  BY <1>7, NothingMoved DEF TcacheEnabledSet, shared
<1>8. ASSUME NEW t \in Threads, TcacheFlush(t) PROVE Loaded'
  BY <1>8, NothingMoved DEF TcacheFlush, shared
<1>9. ASSUME NEW t \in Threads, NEW i \in Id, NEW k \in Ind, ThreadArenaCtl(t, i, k)
      PROVE  Loaded'
  <2>0. PICK p : p = pools[i]
    OBVIOUS
  <2>1. p \in Pool
    BY <1>9, <2>0 DEF ThreadArenaCtl, TypeOK
  <2>2. /\ Usable(p) /\ ChooseArena(t, p) /\ UNCHANGED <<pools, header>>
        /\ pc[Main] # "exited"
    BY <1>9, <2>0 DEF ThreadArenaCtl, shared
  <2> QED BY <1>5, <2>1, <2>2
<1>10. ASSUME NEW t \in Threads, Rebind(t) PROVE Loaded'
  <2>1. SlotsShaped' /\ Tallied'
    BY <1>10, RebindLoad, SMTT(40) DEF Own
  <2>2. BaseFirst'
    BY <1>10 DEF Rebind, Loaded, BaseFirst, shared
  <2> QED BY <2>1, <2>2 DEF Loaded
<1>11. ASSUME NEW t \in Threads, ThreadExit(t) PROVE Loaded'
  BY <1>11, NothingMoved DEF ThreadExit, shared, tsd
<1>12. CASE TcacheThreadCleanup
  BY <1>12, NothingMoved DEF TcacheThreadCleanup, shared
<1>13. CASE ArenasCleanup
  BY <1>13, CleanupLoad DEF Own
<1>14. CASE UNCHANGED vars
  BY <1>14, NothingMoved DEF vars, shared, tsd
<1>15. ASSUME NEW t \in Threads, Thread(t) PROVE Loaded'
  BY <1>1, <1>2, <1>3, <1>4, <1>6, <1>7, <1>8, <1>9, <1>10, <1>11, <1>15, Zenon
  DEF Thread
<1> QED BY <1>12, <1>13, <1>14, <1>15 DEF Next

\* For any threads, pools and arenas, as long as thread.pool.<i>.arena is used
\* for the base pool only: nthreads of an arena is the number of threads that
\* choose_arena sends there, whatever pools were deleted, reopened or failed
\* to be made meanwhile, and whatever the arrays still hold of them.
THEOREM LoadCounted ==
    ASSUME CtlOnBaseOnly
    PROVE  Spec => []NthreadsCounted
<1> DEFINE I == TypeInv /\ Listed /\ Own /\ Loaded
<1>1. Init => I
  BY InitType, InitOwn, InitLoad
<1>2. I /\ [Next]_vars => I'
  <2>1. I /\ [Next]_vars => Listed'
    BY NextListed DEF TypeInv, Own
  <2>2. I /\ [Next]_vars => Loaded'
    BY NextLoad DEF TypeInv
  <2> QED BY <2>1, <2>2, NextType, NextOwn DEF TypeInv
<1>3. I => NthreadsCounted
  BY DEF Loaded, Tallied, NthreadsCounted
<1> QED BY <1>1, <1>2, <1>3, PTL DEF Spec
============================================================================
