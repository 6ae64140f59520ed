------------------------------ MODULE MCQuicksort ------------------------------
(* Quicksort for TLC: a list of up to five items with up to three values. *)
EXTENDS Quicksort

MCValues == -1..1
=============================================================================
