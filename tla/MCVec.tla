--------------------------------- MODULE MCVec ---------------------------------
(* Vec for TLC: memory for a vector that has grown twice. *)
EXTENDS Vec

GrownTwice == 4 * StartCap
=============================================================================
