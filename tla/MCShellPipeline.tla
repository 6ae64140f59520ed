---------------------------- MODULE MCShellPipeline ----------------------------
(* ShellPipeline for TLC: a first command may write one line more than fits. *)
EXTENDS ShellPipeline

OneMore == Capacity + 1
=============================================================================
