------------------------------ MODULE MCChunks ------------------------------
(***************************************************************************)
(* Chunks for TLC.                                                         *)
(***************************************************************************)
EXTENDS Chunks, TLC

ThreadSymmetry == Permutations(Threads)

=============================================================================
