------------------------------- MODULE MCPools -------------------------------
(***************************************************************************)
(* Pools for TLC: the threads other than Main and the regions are          *)
(* interchangeable.                                                        *)
(***************************************************************************)
EXTENDS Pools, TLC

PoolSymmetry == Permutations(Threads \ {Main}) \cup Permutations(Regions)

\* Every pool has its first arena only, arenas_extend failing when it is asked
\* for another, and nobody is bound to an arena of the base pool.
FirstArenas ==
    /\ \A p \in Pool : arenas[p] \subseteq {0}
    /\ \A t \in Threads : pc[t] # "rebind" /\ aslot[t][0] = EmptyA

\* The program makes its pools at one address and leaves thread caches enabled.
\* Once it made a second pool there it asks for large sizes only.
OneAddress ==
    /\ \E r \in Regions : \A q \in Regions \ {r} :
          /\ header[q].id = UINT_MAX /\ header[q].birth = 0
          /\ \A t \in Threads : call[t].pool # q
    /\ \A t \in Threads :
          /\ enabled[t]
          /\ pool_seqno > 2 => \A i \in Id : tslot[t][i] = EmptyT

\* Bound: several addresses, or several arenas, not both.
AddressesOrArenas == FirstArenas \/ OneAddress
=============================================================================
