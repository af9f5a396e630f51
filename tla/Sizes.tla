-------------------------------- MODULE Sizes --------------------------------
(***************************************************************************)
(* How a request becomes a place in a run: the tables of size classes that *)
(* size_classes.sh generates, the rounding of sizes and alignments, the    *)
(* layout of a run that bin_info_run_size_calc computes when the allocator *)
(* boots, and the way back from a pointer to the number of its region.     *)
(*                                                                         *)
(* The figures are those of the build for x86-64 with pages of 4 KiB;      *)
(* size_t has SizeBits bits, so that sums wrap within the bounds of the    *)
(* model.                                                                  *)
(***************************************************************************)
EXTENDS Integers, Sequences, SequencesExt, FiniteSets, FiniteSetsExt

CONSTANTS
    SizeBits,       \* the width of size_t (64)
    LgChunk,        \* lg of chunksize (LG_CHUNK_DEFAULT, 22)
    Requests,       \* the sizes that are asked for
    Alignments      \* the alignments that are asked for

VARIABLES
    opt_redzone,
    arena_maxclass,
    arena_bin_info, \* the layout of each bin's runs, << >> before the boot
    request         \* what was asked for last, and what sa2u made of it

szvars == <<opt_redzone, arena_maxclass, arena_bin_info, request>>

NoRequest == [size |-> 0, alignment |-> 1, usize |-> 0]

PAGE == 4096
ChunkSize == 2^LgChunk
Wrap(n) == n % 2^SizeBits

\* (s + mask) & ~mask for the mask of a power of two.
Ceiling(s, a) == LET n == Wrap(s + (a - 1)) IN n - (n % a)

lg_floor(n) == CHOOSE x \in 0 .. 29 : 2^x <= n /\ n < 2^(x + 1)

\* The power of two that ffs stands for.
LowBit(n) == 2^(CHOOSE x \in 0 .. 29 : n % 2^(x + 1) # 0)

-----------------------------------------------------------------------------
(* The tables.                                                             *)

\* lg_grp, lg_delta and ndelta of each class: one tiny class, the first group with
\* its oddly encoded first class, and groups of four.
SIZE_CLASSES ==
    <<<<3, 3, 0>>, <<3, 3, 1>>, <<4, 4, 1>>, <<4, 4, 2>>, <<4, 4, 3>>>>
        \o [k \in 1 .. 24 |-> LET g == (k - 1) \div 4
                              IN  <<6 + g, 4 + g, 1 + ((k - 1) % 4)>>]

NLBINS == Len(SIZE_CLASSES)
NBINS == NLBINS - 1         \* the last of them has a page to itself

small_bin2size_tab(b) ==
    LET c == SIZE_CLASSES[b + 1] IN 2^c[1] + c[3] * 2^c[2]

SMALL_MAXCLASS == 3584
LOOKUP_MAXCLASS == 4096

\* The table has 2^(lg_delta - 3) entries for each class, one for eight bytes.
small_size2bin_tab ==
    FlattenSeq([k \in 1 .. NLBINS |->
                  [n \in 1 .. 2^(SIZE_CLASSES[k][2] - 3) |-> k - 1]])

small_size2bin_lookup(size) == small_size2bin_tab[(size - 1) \div 8 + 1]

\* What the assertions compare the tables with.
small_size2bin_compute(size) ==
    LET x == lg_floor(2 * size - 1)
        shift == IF x < 6 THEN 0 ELSE x - 6
        lg_delta == IF x < 7 THEN 4 ELSE x - 3
    IN  IF size <= 8 THEN 0
        ELSE 1 + 4 * shift + (((size - 1) \div 2^lg_delta) % 4)

small_bin2size_compute(b) ==
    LET grp == (b - 1) \div 4
        mod == (b - 1) % 4
    IN  IF b < 1 THEN 8
        ELSE (IF grp = 0 THEN 0 ELSE 2^(5 + grp))
               + (mod + 1) * 2^((IF grp = 0 THEN 1 ELSE grp) + 3)

small_s2u_compute(size) ==
    LET x == lg_floor(2 * size - 1)
    IN  IF size <= 8 THEN 8 ELSE Ceiling(size, 2^(IF x < 7 THEN 4 ELSE x - 3))

small_s2u(size) == small_bin2size_tab(small_size2bin_lookup(size))

s2u(size) ==
    IF size <= SMALL_MAXCLASS THEN small_s2u(size)
    ELSE IF size <= arena_maxclass THEN Ceiling(size, PAGE)
    ELSE Ceiling(size, ChunkSize)

\* The usable size for a size and an alignment; 0 when it cannot be represented.
sa2u(size, alignment) ==
    LET usize == Ceiling(size, alignment)
        psize == Ceiling(size, PAGE)
        palign == Ceiling(alignment, PAGE)
    IN  IF usize < size THEN 0
        ELSE IF usize <= arena_maxclass /\ alignment <= PAGE
        THEN IF usize <= SMALL_MAXCLASS THEN small_s2u(usize) ELSE Ceiling(usize, PAGE)
        ELSE IF psize < size \/ Wrap(psize + palign) < psize THEN 0
        ELSE IF psize + palign - PAGE <= arena_maxclass THEN psize
        ELSE Ceiling(psize, ChunkSize)

-----------------------------------------------------------------------------
(* The layout of runs.                                                     *)

bits2groups(n) == n \div 64 + (IF n % 64 # 0 THEN 1 ELSE 0)

\* Two levels are enough for RUN_MAXREGS bits.
bitmap_size(n) ==
    LET g == bits2groups(n) IN 8 * (IF g > 1 THEN g + bits2groups(g) ELSE g)

RUN_MAXREGS == 2048
RUN_MAX_OVRHD == 61
RUN_MAX_OVRHD_RELAX == 6144
RunHeader == 16             \* sizeof(arena_run_t)

\* Where the regions of a run begin when there are n of them.
Redzone0(runsize, n, bin, pad) == runsize - n * bin.reg_interval - pad

\* The largest number of regions whose header fits before them.  The offset is
\* unsigned: below zero it is huge, and the header fits.
Regions(runsize, bin, pad, slack) ==
    LET n == (runsize - RunHeader - slack) \div bin.reg_interval
        fits(k) == LET at == Redzone0(runsize, k, bin, pad)
                   IN  at < 0 \/ RunHeader + bitmap_size(k) <= at
    IN  Max({k \in 1 .. Min({n, RUN_MAXREGS}) : fits(k)})

\* Redzones are half the alignment of the class, and a pad at the end of the run
\* makes up for the first of them.
Redzones(size, redzone) ==
    LET align == LowBit(size)
    IN  IF ~redzone THEN [zone |-> 0, pad |-> 0]
        ELSE IF align <= 16 THEN [zone |-> 16, pad |-> 0]
        ELSE [zone |-> align \div 2, pad |-> align \div 2]

\* Mistake: the pad at the end of the run is forgotten once the size is chosen.
reg0_without_pad(runsize, n, bin, rz) == Redzone0(runsize, n, bin, 0) + rz.zone

Reg0(runsize, n, bin, rz) == Redzone0(runsize, n, bin, rz.pad) + rz.zone

\* A run grows by pages until the next size would be too large, its header is small
\* beside it, the regions are so small that this does not matter, or it has as many
\* regions as a run may have.
bin_info_run_size_calc(size, minrun, redzone) ==
    LET rz == Redzones(size, redzone)
        bin == [reg_size |-> size, reg_interval |-> size + 2 * rz.zone]
        nregs(k) == Regions(minrun + k * PAGE, bin, rz.pad, IF k = 0 THEN 0 ELSE rz.pad)
        on(k) == LET run == minrun + k * PAGE
                 IN  /\ run <= arena_maxclass'
                     /\ RUN_MAX_OVRHD * bin.reg_interval * 8 > RUN_MAX_OVRHD_RELAX
                     /\ Redzone0(run, nregs(k), bin, rz.pad) * 4096 > RUN_MAX_OVRHD * run
                     /\ nregs(k) < RUN_MAXREGS
        good == CHOOSE k \in 0 .. ChunkSize \div PAGE :
                  ~on(k + 1) /\ \A j \in 1 .. k : on(j)
        run == minrun + good * PAGE
    IN  [reg_size |-> size, reg_interval |-> bin.reg_interval, zone |-> rz.zone,
         run_size |-> run, nregs |-> nregs(good),
         bitmap_offset |-> RunHeader, reg0_offset |-> Reg0(run, nregs(good), bin, rz)]

\* Each bin's runs are at least as large as those of the bin before.
bin_info_init ==
    arena_bin_info' =
        FoldLeftDomain(LAMBDA infos, b :
            IF b > NBINS THEN infos
            ELSE Append(infos, bin_info_run_size_calc(small_bin2size_tab(b - 1),
                    IF b = 1 THEN PAGE ELSE Last(infos).run_size, opt_redzone)),
            << >>, SIZE_CLASSES)

\* The header has a map entry of 24 bytes for each page that is not the header's.
Bias(b) == LET header == 48 + 24 * (ChunkSize \div PAGE - b)
           IN  header \div PAGE + (IF header % PAGE # 0 THEN 1 ELSE 0)

arena_params_boot ==
    /\ arena_bin_info = << >>
    /\ arena_maxclass' = ChunkSize - Bias(Bias(Bias(0))) * PAGE
    /\ bin_info_init
    /\ UNCHANGED <<opt_redzone, request>>

\* Division by multiplication with 2^21 / interval + 1 and a shift, once the powers
\* of two are taken out.
arena_run_regind(bin, offset) ==
    LET twos == LowBit(bin.reg_interval)
        diff == (offset - bin.reg0_offset) \div twos
        interval == bin.reg_interval \div twos
    IN  IF interval = 1 THEN diff
        ELSE IF interval <= 31 THEN (diff * (2^21 \div interval + 1)) \div 2^21
        ELSE diff \div interval

\* Nothing remembers a request, so that one in each behaviour is enough.
Ask(size, alignment) ==
    /\ arena_bin_info # << >> /\ request = NoRequest
    /\ request' = [size |-> size, alignment |-> alignment,
                   usize |-> sa2u(size, alignment)]
    /\ UNCHANGED <<opt_redzone, arena_maxclass, arena_bin_info>>

Init ==
    /\ opt_redzone \in BOOLEAN
    /\ arena_maxclass = 0
    /\ arena_bin_info = << >>
    /\ request = NoRequest

Next ==
    \/ arena_params_boot
    \/ \E size \in Requests, alignment \in Alignments : Ask(size, alignment)

Spec == Init /\ [][Next]_szvars

-----------------------------------------------------------------------------
(* What an allocation relies on.                                           *)

\* A small object of the usable size is in the bin of its size, whichever region of
\* a run it is: after the header, with room for the request before the next redzone
\* or the end of the run, at a multiple of the alignment, and arena_run_regind finds
\* it again.  The tables agree with the formulas the assertions compute.
SmallFits(r) ==
    LET b == small_size2bin_lookup(r.usize)
        bin == arena_bin_info[b + 1]
    IN  /\ b < NBINS /\ bin.reg_size = r.usize
        /\ b = 0 \/ small_bin2size_tab(b - 1) < Ceiling(r.size, r.alignment)
        /\ small_size2bin_lookup(r.size) = small_size2bin_compute(r.size)
        /\ small_s2u(r.size) = small_s2u_compute(r.size)
        /\ small_bin2size_tab(b) = small_bin2size_compute(b)
        /\ bin.bitmap_offset + bitmap_size(bin.nregs) <= bin.reg0_offset - bin.zone
        /\ bin.run_size <= arena_maxclass /\ bin.nregs <= RUN_MAXREGS
        /\ \A k \in 0 .. bin.nregs - 1 :
             LET at == bin.reg0_offset + k * bin.reg_interval
             IN  /\ at % r.alignment = 0
                 /\ at + r.size + bin.zone <= bin.run_size
                 /\ r.size + 2 * bin.zone <= bin.reg_interval
                 /\ arena_run_regind(bin, at) = k

\* Every request is served by a place that is large enough and aligned as asked: a
\* region, a run cut out of a larger one that fits in a chunk, or whole chunks; it
\* is refused only when the rounded size or the over-sized run cannot be represented.
\* Rounding a second time changes nothing, as ipalloct asserts, unless the first
\* made the sum of size and alignment wrap.
RequestsFit ==
    LET r == request
    IN  r # NoRequest =>
          /\ r.usize = 0 => r.size + (IF r.alignment > PAGE THEN r.alignment ELSE PAGE)
                              > 2^SizeBits - ChunkSize
          /\ r.usize # 0 =>
               /\ r.usize >= r.size
               /\ \/ sa2u(r.usize, r.alignment) = r.usize
                  \/ r.usize + r.alignment >= 2^SizeBits
               /\ r.alignment = 1 => s2u(r.size) = r.usize
               /\ IF r.usize <= SMALL_MAXCLASS THEN SmallFits(r)
                  ELSE IF r.usize <= arena_maxclass
                  THEN /\ r.usize % PAGE = 0
                       /\ r.alignment > PAGE =>
                            r.usize + r.alignment - PAGE <= arena_maxclass
                  ELSE r.usize % ChunkSize = 0
=============================================================================
