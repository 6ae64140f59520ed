------------------------------ MODULE MCExamples ------------------------------
(* Examples for TLC; every constant is a number. *)
EXTENDS Examples
=============================================================================
