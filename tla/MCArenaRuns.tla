----------------------------- MODULE MCArenaRuns -----------------------------
(* Small instances of ArenaRuns.  Threads are interchangeable: no operator   *)
(* chooses among them.                                                       *)
EXTENDS ArenaRuns

Symmetry == Permutations(Threads)
=============================================================================
