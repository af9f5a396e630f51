------------------------------- MODULE Bitmap -------------------------------
(***************************************************************************)
(* The bitmap in which a run keeps which of its regions are allocated: the *)
(* bits in groups, above them a level with a bit for each group, and so on *)
(* up to a single group, all in one array.  A bit that is one means free,  *)
(* or that the group below has a free bit; a group is the set of its ones. *)
(***************************************************************************)
EXTENDS Integers, Sequences, SequencesExt, FiniteSets, FiniteSetsExt

CONSTANTS
    BITMAP_GROUP_NBITS,     \* bits of a group (64)
    MaxBits                 \* the largest number of bits (2^LG_BITMAP_MAXBITS)

VARIABLES
    nbits,          \* the number of bits
    bitmap,         \* the groups
    taken           \* the bits that were set and not unset since

bmvars == <<nbits, bitmap, taken>>

G == BITMAP_GROUP_NBITS

bits2groups(n) == n \div G + (IF n % G # 0 THEN 1 ELSE 0)

\* The number of groups on each level above n bits, bottom to top.
GroupCounts[n \in Nat] ==
    LET count == bits2groups(n)
    IN  IF count > 1 THEN <<count>> \o GroupCounts[count] ELSE <<count>>

\* levels[].group_offset, with the end of the last level.
bitmap_info_init(n) ==
    LET counts == GroupCounts[n]
    IN  [i \in 0 .. Len(counts) |-> FoldLeft(+, 0, SubSeq(counts, 1, i))]

Levels == bitmap_info_init(nbits)
NLevels == Cardinality(DOMAIN Levels) - 1

\* The group of level i above a bit, and the bit's place in it.
Group(i, bit) == Levels[i] + (bit \div G^(i + 1))
Place(i, bit) == (bit \div G^i) % G

\* Mistake: the bits beyond the last group of a level stay ones in the level above.
bitmap_init_bottom_only(n) ==
    LET offset == bitmap_info_init(n)
    IN  [g \in 0 .. offset[Cardinality(DOMAIN offset) - 1] - 1 |->
          {b \in 0 .. G - 1 : g < offset[1] => g * G + b < n}]

\* All ones, but for the bits of a level's last group that stand for nothing.
bitmap_init(n) ==
    LET offset == bitmap_info_init(n)
        level(g) == CHOOSE i \in DOMAIN offset : offset[i] <= g /\ g < offset[i + 1]
        below(i) == IF i = 0 THEN n ELSE offset[i] - offset[i - 1]
    IN  [g \in 0 .. offset[Cardinality(DOMAIN offset) - 1] - 1 |->
          {b \in 0 .. G - 1 : (g - offset[level(g)]) * G + b < below(level(g))}]

bitmap_full == bitmap[Levels[NLevels] - 1] = {}

bitmap_get(bit) == Place(0, bit) \notin bitmap[Group(0, bit)]

\* The bit is flipped on level 0, and on a level above when all those below it
\* became empty, or were empty.
Flipped(bit, goeson(_)) ==
    [g \in DOMAIN bitmap |->
       LET at == {i \in 0 .. NLevels - 1 : /\ g = Group(i, bit)
                                           /\ \A j \in 0 .. i - 1 : goeson(j)}
       IN  IF at = {} THEN bitmap[g]
           ELSE SymDiff(bitmap[g], {Place(Min(at), bit)})]

bitmap_set(bit) ==
    Flipped(bit, LAMBDA j : bitmap[Group(j, bit)] = {Place(j, bit)})

\* The lowest one of each group on the way down from the root.
FirstUnset[i \in 0 .. NLevels] ==
    IF i = NLevels THEN 0
    ELSE FirstUnset[i + 1] * G + Min(bitmap[Levels[i] + FirstUnset[i + 1]])

bitmap_sfu ==
    /\ ~bitmap_full
    /\ bitmap' = bitmap_set(FirstUnset[0])
    /\ taken' = taken \cup {FirstUnset[0]}
    /\ UNCHANGED nbits

bitmap_unset(bit) ==
    /\ bit \in taken
    /\ bitmap' = Flipped(bit, LAMBDA j : bitmap[Group(j, bit)] = {})
    /\ taken' = taken \ {bit}
    /\ UNCHANGED nbits

Init ==
    /\ nbits \in 1 .. MaxBits
    /\ bitmap = bitmap_init(nbits)
    /\ taken = {}

Next == bitmap_sfu \/ \E bit \in 0 .. nbits - 1 : bitmap_unset(bit)

Spec == Init /\ [][Next]_bmvars

-----------------------------------------------------------------------------
\* The bitmap is the set of the bits in use: each is read back, the root is empty
\* exactly when all are in use, and otherwise the way down from the root, which
\* looks at one group of each level, ends at the lowest bit that is not.
BitmapIsSet ==
    LET free == (0 .. nbits - 1) \ taken
    IN  /\ \A bit \in 0 .. nbits - 1 : bitmap_get(bit) <=> bit \in taken
        /\ bitmap_full <=> free = {}
        /\ free # {} => FirstUnset[0] = Min(free)
=============================================================================
