------------------------------ MODULE MCNetShell ------------------------------
(* NetShell for TLC; the configuration chooses the commands that are typed. *)
EXTENDS NetShell
=============================================================================
