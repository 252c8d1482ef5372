----------------------------- MODULE MCCfgStore -----------------------------
(* Instances of CfgStore for TLC. *)
EXTENDS CfgStore

CONSTANTS d1, b1
=============================================================================
