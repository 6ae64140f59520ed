------------------------------ MODULE MCShellJobs ------------------------------
(* ShellJobs for TLC: interchangeable programs. *)
EXTENDS ShellJobs, TLC

JobSymmetry == Permutations(Jobs)
=============================================================================
