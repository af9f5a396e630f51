-------------------------------- MODULE Vmem --------------------------------
(***************************************************************************)
(* How libvmem comes by the memory of its pools and gives it back: from an *)
(* unlinked temporary file, from a device, or from a region the program    *)
(* has mapped itself, next to the program's own mappings.  Creation and    *)
(* deletion hold Pool_lock from beginning to end and are one step each.    *)
(* Sizes and addresses are in units of the mapping alignment.              *)
(***************************************************************************)
EXTENDS Integers, FiniteSets

CONSTANTS
    Space,          \* the address space is 0 .. Space - 1
    PoolSizes,      \* the sizes that are asked for
    VMEM_MIN_POOL,
    DeviceSize      \* the size of the device

VARIABLES
    mapped,         \* what is mapped
    app,            \* what the program has mapped itself and not unmapped
    pools,          \* the pools, by address: what their headers say
    closed,         \* the headers whose page has no permissions
    misfit          \* a device was used with a size that is not its own

vvars == <<mapped, app, pools, closed, misfit>>

Extent(base, size) == base .. base + size - 1
Fits(base, size) == base + size <= Space /\ Extent(base, size) \cap mapped = {}
PoolRange(b) == Extent(b, pools[b].size)
Claimed == UNION {PoolRange(b) : b \in DOMAIN pools}

Open(base, h) == pools' = [b \in DOMAIN pools \cup {base} |->
                             IF b = base THEN h ELSE pools[b]]

\* Mistake: a pool that could not be created is left mapped.
create_fails_keeps(base, len, size) == mapped' = mapped \cup Extent(base, len)

\* What is left when je_vmem_pool_create fails: util_unmap takes the caller's size.
CreateFails(base, len, size) ==
    mapped' = (mapped \cup Extent(base, len)) \ Extent(base, size)

\* The size is rounded up to the alignment; a device is mapped whole, a file as
\* large as it was asked for.  A mapping that cannot be had changes nothing.
vmem_createU(type, size, base) ==
    LET len == IF type = "device" THEN DeviceSize ELSE size
    IN  /\ size >= VMEM_MIN_POOL /\ Fits(base, len)
        /\ misfit' = (misfit \/ len # size)
        /\ \/ /\ mapped' = mapped \cup Extent(base, len)
              /\ Open(base, [size |-> size, caller_mapped |-> FALSE])
              /\ closed' = IF type = "device" THEN closed ELSE closed \cup {base}
           \/ /\ CreateFails(base, len, size)
              /\ UNCHANGED <<pools, closed>>
        /\ UNCHANGED app

\* A region of the program's own that holds no other pool.
vmem_create_in_region(base, size) ==
    /\ size >= VMEM_MIN_POOL
    /\ Extent(base, size) \subseteq app \ Claimed
    /\ \/ /\ Open(base, [size |-> size, caller_mapped |-> TRUE])
          /\ closed' = closed \cup {base}
       \/ UNCHANGED <<pools, closed>>
    /\ UNCHANGED <<mapped, app, misfit>>

\* A handle that is not a pool's is refused by je_vmem_pool_delete.
vmem_delete(base) ==
    /\ base \in DOMAIN pools
    /\ pools' = [b \in DOMAIN pools \ {base} |-> pools[b]]
    /\ closed' = closed \ {base}
    /\ mapped' = IF pools[base].caller_mapped THEN mapped
                 ELSE mapped \ PoolRange(base)
    /\ UNCHANGED <<app, misfit>>

\* The program maps memory, and unmaps what holds no pool.
Map(base, size) ==
    /\ Fits(base, size)
    /\ mapped' = mapped \cup Extent(base, size)
    /\ app' = app \cup Extent(base, size)
    /\ UNCHANGED <<pools, closed, misfit>>

Unmap(page) ==
    /\ page \in app \ Claimed
    /\ mapped' = mapped \ {page}
    /\ app' = app \ {page}
    /\ UNCHANGED <<pools, closed, misfit>>

Init ==
    /\ mapped = {} /\ app = {} /\ closed = {}
    /\ pools = [b \in {} |-> 0]
    /\ misfit = FALSE

Next ==
    \E base \in 0 .. Space - 1 :
        \/ \E type \in {"file", "device"}, size \in PoolSizes :
             vmem_createU(type, size, base)
        \/ \E size \in PoolSizes : vmem_create_in_region(base, size)
        \/ vmem_delete(base)
        \/ \E size \in PoolSizes : Map(base, size)
        \/ Unmap(base)

Spec == Init /\ [][Next]_vvars

-----------------------------------------------------------------------------
\* Until a device is used with a size that is not its own, what is mapped is what
\* the program mapped and what its pools from vmem_create hold: nothing is left of
\* a pool that was deleted or could not be created, nothing of the program's goes
\* with it, no pools overlap, and only headers of pools are out of reach.
SpaceAccounted ==
    ~misfit =>
        /\ mapped = app \cup UNION {PoolRange(b) : b \in
                                     {c \in DOMAIN pools : ~pools[c].caller_mapped}}
        /\ \A b, c \in DOMAIN pools : b # c => PoolRange(b) \cap PoolRange(c) = {}
        /\ \A b \in DOMAIN pools :
             pools[b].caller_mapped <=> PoolRange(b) \cap app # {}
        /\ closed \subseteq DOMAIN pools
=============================================================================
