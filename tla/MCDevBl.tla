------------------------------ MODULE MCDevBl -------------------------------
(* Instances of DevBl for TLC. *)
EXTENDS DevBl

CONSTANTS n1, n2, n3
=============================================================================
