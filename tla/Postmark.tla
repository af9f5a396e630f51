------------------------------ MODULE Postmark ------------------------------
(***************************************************************************)
(* The benchmark that runs in the measured container: one 'run' of         *)
(* PostMark.  It creates files, performs transactions (read or append one, *)
(* create or delete one), deletes what is left and reports.  A slot of the *)
(* file table is free when its size is 0; files are named by the number of *)
(* their creation.  Opening and removing a file may fail.                  *)
(***************************************************************************)
EXTENDS Integers, FiniteSets, FiniteSetsExt

CONSTANTS
    Simultaneous,       \* simultaneous: files created at the start
    SizeLow, SizeHigh,  \* file_size_low, file_size_high
    Transactions,       \* the values of transactions that are tried
    MaxFailures         \* how many calls of the file system fail (bound)

VARIABLES
    phase,              \* where cli_run is
    i,                  \* the counter of the loop it is in
    transactions,       \* transactions
    locked,             \* the kinds of operation whose bias is -1
    buffered,           \* buffered_io
    file_table,         \* name and size of each slot
    file_allocated,     \* the slot after the last one that was allocated
    files_created, files_deleted,
    disk,               \* the size of each file on disk, by name
    failures,           \* calls that failed
    skipped             \* a file was not created for want of a slot

pmvars == <<phase, i, transactions, locked, buffered, file_table, file_allocated,
            files_created, files_deleted, disk, failures, skipped>>

NSlots == 2 * Simultaneous          \* simultaneous<<1
Slots == 0 .. NSlots - 1
NoSlot == -1

FreeSlots == {s \in Slots : file_table[s].size = 0}
UsedSlots == Slots \ FreeSlots

find_free_file ==
    IF file_allocated < NSlots /\ file_table[file_allocated].size = 0
    THEN file_allocated
    ELSE IF FreeSlots = {} THEN NoSlot ELSE Min(FreeSlots)

\* file_size_low + RND(file_size_high - file_size_low)
InitialSizes == IF SizeHigh > SizeLow THEN SizeLow .. SizeHigh - 1 ELSE {SizeLow}

Fails == failures < MaxFailures /\ failures' = failures + 1
Works == UNCHANGED failures

Exists(s) == file_table[s].name \in DOMAIN disk
Put(name, n) == [f \in DOMAIN disk \cup {name} |-> IF f = name THEN n ELSE disk[f]]

\* A file that cannot be opened leaves its slot taken.
create_file ==
    LET s == find_free_file
        name == files_created + 1
    IN  \/ /\ s = NoSlot
           /\ skipped' = (skipped \/ FreeSlots # {})
           /\ UNCHANGED <<file_table, file_allocated, files_created, disk, failures>>
        \/ \E n \in InitialSizes :
             /\ s # NoSlot
             /\ file_table' = [file_table EXCEPT ![s] = [name |-> name, size |-> n]]
             /\ file_allocated' = s + 1
             /\ files_created' = name
             /\ \/ Works /\ disk' = Put(name, n)
                \/ Fails /\ UNCHANGED disk
             /\ UNCHANGED skipped

\* Mistake: the slot is freed whether or not the file could be removed.
delete_file_anyway(s) ==
    /\ \/ /\ Works /\ Exists(s)
          /\ disk' = [f \in DOMAIN disk \ {file_table[s].name} |-> disk[f]]
       \/ /\ Fails
          /\ UNCHANGED disk
       \/ /\ Works /\ ~Exists(s)
          /\ UNCHANGED disk
    /\ file_table' = [file_table EXCEPT ![s].size = 0]
    /\ files_deleted' = files_deleted + 1

\* remove() of a file that is not there fails too.
delete_file(s) ==
    \/ /\ Works /\ Exists(s) /\ file_table[s].size # 0
       /\ disk' = [f \in DOMAIN disk \ {file_table[s].name} |-> disk[f]]
       /\ file_table' = [file_table EXCEPT ![s].size = 0]
       /\ files_deleted' = files_deleted + 1
    \/ /\ Fails /\ Exists(s) /\ file_table[s].size # 0
       /\ UNCHANGED <<disk, file_table, files_deleted>>
    \/ /\ Works /\ (~Exists(s) \/ file_table[s].size = 0)
       /\ UNCHANGED <<disk, file_table, files_deleted>>

\* fopen(..., "a") creates a file that is not there, open(..., O_APPEND) does not.
append_file(s) ==
    LET f == file_table[s]
    IN  \/ /\ f.size < SizeHigh /\ (Exists(s) \/ buffered)
           /\ Works
           /\ \E block \in 1 .. SizeHigh - f.size :
                /\ file_table' = [file_table EXCEPT ![s].size = @ + block]
                /\ disk' = Put(f.name, (IF Exists(s) THEN disk[f.name] ELSE 0) + block)
        \/ /\ f.size < SizeHigh
           /\ Fails
           /\ UNCHANGED <<file_table, disk>>
        \/ /\ f.size >= SizeHigh \/ ~(Exists(s) \/ buffered)
           /\ Works
           /\ UNCHANGED <<file_table, disk>>

-----------------------------------------------------------------------------
(* cli_run.                                                                *)

Goto(p, n) == phase' = p /\ i' = n

config == <<transactions, locked, buffered>>

CreateFiles ==
    /\ phase = "create"
    /\ create_file
    /\ IF i + 1 < Simultaneous THEN Goto("create", i + 1) ELSE Goto("transact", 0)
    /\ UNCHANGED <<config, files_deleted>>

OutOfFiles == files_created = files_deleted

\* run_transactions: the end of the loop, or the first half of a transaction.
Transact ==
    /\ phase = "transact"
    /\ \/ /\ i = transactions \/ OutOfFiles
          /\ Goto("delete", 0)
          /\ UNCHANGED <<file_table, disk, failures>>
       \/ /\ i < transactions /\ ~OutOfFiles
          /\ "read" \in locked
          /\ Goto("change", i)
          /\ UNCHANGED <<file_table, disk, failures>>
       \/ /\ i < transactions /\ ~OutOfFiles
          /\ "read" \notin locked
          /\ Goto("change", i)
          /\ \/ UsedSlots # {} /\ UNCHANGED <<file_table, disk, failures>>  \* read_file
             \/ \E s \in UsedSlots : append_file(s)
    /\ UNCHANGED <<config, file_allocated, files_created, files_deleted, skipped>>

\* The second half, and the progress indicator: i % percent, with percent the
\* tenth of the transactions, kills the process when there are less than ten.
Change ==
    /\ phase = "change"
    /\ IF transactions \div 10 = 0 THEN Goto("killed", i) ELSE Goto("transact", i + 1)
    /\ \/ /\ "create" \in locked
          /\ UNCHANGED <<file_table, file_allocated, files_created, files_deleted,
                         disk, failures, skipped>>
       \/ /\ "create" \notin locked
          /\ create_file
          /\ UNCHANGED files_deleted
       \/ /\ "create" \notin locked
          /\ \E s \in UsedSlots : delete_file(s)
          /\ UNCHANGED <<file_allocated, files_created, skipped>>
    /\ UNCHANGED config

DeleteFiles ==
    /\ phase = "delete"
    /\ delete_file(i)
    /\ IF i + 1 < NSlots THEN Goto("delete", i + 1) ELSE Goto("done", 0)
    /\ UNCHANGED <<config, file_allocated, files_created, skipped>>

Init ==
    /\ phase = "create" /\ i = 0
    /\ transactions \in Transactions
    /\ locked \in SUBSET {"read", "create"}
    /\ buffered \in BOOLEAN
    /\ file_table = [s \in Slots |-> [name |-> 0, size |-> 0]]
    /\ file_allocated = 0 /\ files_created = 0 /\ files_deleted = 0
    /\ disk = [f \in {} |-> 0]
    /\ failures = 0 /\ skipped = FALSE

Next == CreateFiles \/ Transact \/ Change \/ DeleteFiles

Spec == Init /\ [][Next]_pmvars

-----------------------------------------------------------------------------
(* What makes a run of the benchmark sound.                                *)

\* The table describes the disk: no file is there that no slot in use stands for,
\* no two slots in use stand for one, the counters count what is in use, and
\* unless a call failed each file is there with the size in the table.  A file is
\* not created only when the table is really full.
TableMatchesDisk ==
    /\ \A f \in DOMAIN disk : \E s \in UsedSlots : file_table[s].name = f
    /\ \A s, t \in UsedSlots :
         file_table[s].name = file_table[t].name => s = t
    /\ files_created - files_deleted = Cardinality(UsedSlots)
    /\ failures = 0 => \A s \in UsedSlots :
                         Exists(s) /\ disk[file_table[s].name] = file_table[s].size
    /\ ~skipped

\* A run ends and cleans up: find_used_file, which picks slots until it meets one
\* in use, is called only when there is one, and after the last loop nothing is
\* left on disk unless a call failed.
RunEndsClean ==
    /\ phase = "transact" /\ ~OutOfFiles => UsedSlots # {}
    /\ phase = "change" /\ "create" \notin locked => UsedSlots # {}
    /\ phase = "done" /\ failures = 0 => disk = [f \in {} |-> 0] /\ OutOfFiles
=============================================================================
