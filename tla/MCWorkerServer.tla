--------------------------- MODULE MCWorkerServer ---------------------------
(* WorkerServer for TLC: interchangeable clients. *)
EXTENDS WorkerServer, TLC

ClientSymmetry == Permutations(Clients)
=============================================================================
