------------------------------- MODULE MCBins -------------------------------
(***************************************************************************)
(* Bins for TLC: two arenas, with room for two runs and for one.           *)
(***************************************************************************)
EXTENDS Bins, TLC

MCRooms == {<<2, 1>>}
=============================================================================
