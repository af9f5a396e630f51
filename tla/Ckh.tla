------------------------------- MODULE Ckh -------------------------------
(***************************************************************************)
(* The cuckoo hash table of the allocator (ckh.c).  A key belongs in one   *)
(* of two buckets; an insertion that finds both full evicts a key, which   *)
(* goes to its other bucket and may evict in turn; when that comes back to *)
(* where it began, the table is doubled and filled again, and a table that *)
(* is nearly empty is halved.  A step is one attempt to place a key or one *)
(* round of a loop.  The pseudo-random choice of cells is a free choice.   *)
(* The data goes wherever its key goes and is left out.                    *)
(***************************************************************************)
EXTENDS Integers, FiniteSets, FiniteSetsExt

CONSTANTS
    CkhKeys,                \* positive numbers
    Hash,                   \* the two hashes of each key
    LG_CKH_BUCKET_CELLS,
    MinItems,               \* what ckh_new is called with
    MaxLgBuckets,           \* bound: no table with more buckets can be had
    MaxOom                  \* bound on other allocations that fail

VARIABLES
    ckh,            \* the table: cells, sizes and count
    ins,            \* the key that is being placed, and how far that is
    call,           \* the operation under way, with the table it may go back to
    stored,         \* the keys the table should hold
    ooms

ckhvars == <<ckh, ins, call, stored, ooms>>

NULL == 0
SIZE_T_MAX == -1
BucketCells == 2^LG_CKH_BUCKET_CELLS

EmptyTab(lg) == [c \in 0 .. 2^lg * BucketCells - 1 |-> NULL]
Cells(b) == {b * BucketCells + n : n \in 0 .. BucketCells - 1}
BucketOf(t, k, n) == Hash[k][n] % 2^t.lg_curbuckets
FreeCells(t, b) == {c \in Cells(b) : t.tab[c] = NULL}

ckh_bucket_search(t, b, k) ==
    LET found == {c \in Cells(b) : t.tab[c] = k}
    IN  IF found = {} THEN SIZE_T_MAX ELSE Min(found)

ckh_isearch(t, k) ==
    LET first == ckh_bucket_search(t, BucketOf(t, k, 1), k)
    IN  IF first # SIZE_T_MAX THEN first
        ELSE ckh_bucket_search(t, BucketOf(t, k, 2), k)

\* The smallest power of two that is filled to three quarters at most.
lg_mincells(minitems) ==
    LET mincells == ((minitems + (3 - (minitems % 3))) \div 3) * 4
    IN  Min({lg \in LG_CKH_BUCKET_CELLS .. mincells + LG_CKH_BUCKET_CELLS : 2^lg >= mincells})

ckh_new(minitems) ==
    LET lg == lg_mincells(minitems) - LG_CKH_BUCKET_CELLS
    IN  [tab |-> EmptyTab(lg), lg_curbuckets |-> lg, lg_minbuckets |-> lg, count |-> 0]

NoIns == [at |-> "none"]
NoCall == [op |-> "none"]
Try(k) == [at |-> "try", key |-> k]
Call(op, k) == [op |-> op, new |-> k, left |-> NULL, aTab |-> NULL, lg |-> 0, i |-> 0]

-----------------------------------------------------------------------------
\* Placing a key.

ckh_try_bucket_insert(t, b, k) ==
    {[t EXCEPT !.tab[c] = k, !.count = @ + 1] : c \in FreeCells(t, b)}

Place(t, b, k) ==
    /\ ckh' \in ckh_try_bucket_insert(t, b, k)
    /\ ins' = [at |-> "placed"]

\* One round of the loop: the key takes the place of one in the bucket.  The bucket
\* of the first eviction ends the search, and whoever was to go there is left over.
ckh_evict_reloc_insert ==
    /\ ins.at = "evict"
    /\ \E c \in Cells(ins.bucket) :
        LET key == ckh.tab[c]
            t == [ckh EXCEPT !.tab[c] = ins.key]
            second == BucketOf(t, key, 2)
            tbucket == IF second = ins.bucket THEN BucketOf(t, key, 1) ELSE second
        IN  \/ /\ tbucket = ins.argbucket
               /\ ckh' = t
               /\ ins' = [at |-> "failed", key |-> key]
            \/ /\ tbucket # ins.argbucket
               /\ Place(t, tbucket, key)
            \/ /\ tbucket # ins.argbucket
               /\ FreeCells(t, tbucket) = {}
               /\ ckh' = t
               /\ ins' = [ins EXCEPT !.key = key, !.bucket = tbucket]
    /\ UNCHANGED <<call, stored, ooms>>

ckh_try_insert ==
    /\ ins.at = "try"
    /\ LET primary == BucketOf(ckh, ins.key, 1)
           secondary == BucketOf(ckh, ins.key, 2)
       IN  \/ Place(ckh, primary, ins.key)
           \/ /\ FreeCells(ckh, primary) = {}
              /\ Place(ckh, secondary, ins.key)
           \/ /\ FreeCells(ckh, primary) \cup FreeCells(ckh, secondary) = {}
              /\ ins' = [at |-> "evict", key |-> ins.key,
                         argbucket |-> secondary, bucket |-> secondary]
              /\ UNCHANGED ckh
    /\ UNCHANGED <<call, stored, ooms>>

-----------------------------------------------------------------------------
\* Filling a new table.

Ends(s) == call' = NoCall /\ ins' = NoIns /\ stored' = s

\* A new table takes the place of the old one, and ckh_rebuild starts to count anew.
SwapIn(c, t, lg) ==
    /\ ckh' = [t EXCEPT !.tab = EmptyTab(lg), !.lg_curbuckets = lg, !.count = 0]
    /\ call' = [c EXCEPT !.aTab = t, !.lg = lg, !.i = 0]
    /\ ins' = [at |-> "placed"]
    /\ UNCHANGED ooms

\* The memory for a table may be missing.
NoMemory == ooms < MaxOom /\ ooms' = ooms + 1

\* One round of ckh_grow's loop, for a table of 2^lg buckets.  Without memory
\* ckh_insert fails: the new key is in the table, and the one that was left over
\* after the last eviction is not.
GrowTo(t, left, lg) ==
    \/ /\ lg <= MaxLgBuckets
       /\ SwapIn([call EXCEPT !.op = "grow", !.left = left], t, lg)
       /\ UNCHANGED stored
    \/ /\ IF lg > MaxLgBuckets THEN UNCHANGED ooms ELSE NoMemory
       /\ ckh' = t
       /\ Ends((stored \cup {call.new}) \ {left})

ckh_grow ==
    /\ call.op = "insert" /\ ins.at = "failed"
    /\ GrowTo(ckh, ins.key, ckh.lg_curbuckets + 1)

ckh_shrink(t) == SwapIn(Call("shrink", NULL), t, t.lg_curbuckets - 1)

\* Mistake: ckh_rebuild leaves its own count behind when it gives up.
backed_out_recounted == [call.aTab EXCEPT !.count = ckh.count]

\* The old table again, with its size and the count ckh_rebuild had put aside.
BackedOut == call.aTab

\* The loop of ckh_rebuild: the next key of the old table, until all are placed.
ckh_rebuild ==
    /\ call.op \in {"grow", "shrink"}
    /\ ins.at = "placed"
    /\ ckh.count < call.aTab.count
    /\ LET i == Min({c \in DOMAIN call.aTab.tab :
                        c >= call.i /\ call.aTab.tab[c] # NULL})
       IN  /\ ins' = Try(call.aTab.tab[i])
           /\ call' = [call EXCEPT !.i = i + 1]
    /\ UNCHANGED <<ckh, stored, ooms>>

\* The new table holds all: an insertion tries again with the key left over.
Rebuilt ==
    /\ call.op \in {"grow", "shrink"}
    /\ ins.at = "placed"
    /\ ckh.count = call.aTab.count
    /\ \/ /\ call.op = "grow"
          /\ ins' = Try(call.left)
          /\ call' = [call EXCEPT !.op = "insert", !.aTab = NULL, !.lg = 0, !.i = 0]
          /\ UNCHANGED stored
       \/ call.op = "shrink" /\ Ends(stored)
    /\ UNCHANGED <<ckh, ooms>>

RebuildFails ==
    /\ ins.at = "failed"
    /\ \/ call.op = "grow" /\ GrowTo(BackedOut, call.left, call.lg + 1)
       \/ /\ call.op = "shrink"
          /\ ckh' = BackedOut
          /\ Ends(stored)
          /\ UNCHANGED ooms

-----------------------------------------------------------------------------
\* The operations.

ckh_insert(k) ==
    /\ call = NoCall
    /\ ckh_isearch(ckh, k) = SIZE_T_MAX
    /\ call' = Call("insert", k)
    /\ ins' = Try(k)
    /\ UNCHANGED <<ckh, stored, ooms>>

Inserted ==
    /\ call.op = "insert" /\ ins.at = "placed"
    /\ Ends(stored \cup {call.new})
    /\ UNCHANGED <<ckh, ooms>>

\* Less than a quarter full, and larger than at the beginning.
Sparse(t) ==
    /\ t.count < 2^(t.lg_curbuckets + LG_CKH_BUCKET_CELLS - 2)
    /\ t.lg_curbuckets > t.lg_minbuckets

\* Taking a key out halves a sparse table, if there is the memory for a smaller one.
ckh_remove(k) ==
    LET cell == ckh_isearch(ckh, k)
        t == [ckh EXCEPT !.tab[cell] = NULL, !.count = @ - 1]
    IN  /\ call = NoCall
        /\ cell # SIZE_T_MAX
        /\ stored' = stored \ {k}
        /\ \/ /\ ~Sparse(t)
              /\ ckh' = t
              /\ UNCHANGED <<ins, call, ooms>>
           \/ /\ Sparse(t)
              /\ ckh_shrink(t)
           \/ /\ Sparse(t)
              /\ NoMemory
              /\ ckh' = t
              /\ UNCHANGED <<ins, call>>

Init ==
    /\ ckh \in {ckh_new(m) : m \in MinItems}
    /\ ins = NoIns
    /\ call = NoCall
    /\ stored = {}
    /\ ooms = 0

Next ==
    \/ \E k \in CkhKeys : ckh_insert(k) \/ ckh_remove(k)
    \/ ckh_try_insert \/ ckh_evict_reloc_insert
    \/ ckh_grow \/ ckh_rebuild \/ Rebuilt \/ RebuildFails \/ Inserted

Spec == Init /\ [][Next]_ckhvars

-----------------------------------------------------------------------------
\* The keys in the order in which repeated calls of ckh_iter return their cells.
ckh_iter(t) == {c \in DOMAIN t.tab : t.tab[c] # NULL}

\* Between operations a search finds exactly the keys that were inserted and not
\* removed, whatever was evicted, rebuilt, backed out or refused for want of memory;
\* each is there once, iterating meets all of them, and count says how many they are.
\* Only an insertion that fails for want of memory loses a key, the one left over.
CkhIsSet ==
    call = NoCall =>
        /\ {k \in CkhKeys : ckh_isearch(ckh, k) # SIZE_T_MAX} = stored
        /\ ckh.count = Cardinality(stored)
        /\ Cardinality(ckh_iter(ckh)) = ckh.count
        /\ {ckh.tab[c] : c \in ckh_iter(ckh)} = stored
=============================================================================
