------------------------------ MODULE MCDevAdd ------------------------------
(* Instances of DevAdd for TLC. *)
EXTENDS DevAdd, TLC

CONSTANTS d1, d2, d3, m1, x1

\* The devices of the network file that are not marked are interchangeable.
Symmetry == Permutations({d1, d2, d3})
=============================================================================
