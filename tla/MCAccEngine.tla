---------------------------- MODULE MCAccEngine -----------------------------
(* Instances of AccEngine for TLC. *)
EXTENDS AccEngine

CONSTANTS n1, n2

\* n1 exercises the iteration over items, n2 the phases in between.
Needs(n) ==
  IF n = n1 THEN [p \in Phases |-> IF p \in {get_dcd, rm, addappkey} THEN 1
                                   ELSE IF p = addsub THEN 2 ELSE 0]
            ELSE [p \in Phases |-> IF p \in {get_dcd, rm, setconfig} THEN 1 ELSE 0]
MCWork  == [n \in Nodes |-> Needs(n)]
MCRetry == [p \in Phases |-> 1]
=============================================================================
