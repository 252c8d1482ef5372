------------------------------- MODULE MCMng --------------------------------
(* Instances of Mng for TLC. *)
EXTENDS Mng

CONSTANTS n1, n2, n3

\* Orders that seqset completes to (cli.c) in which everything that is to be
\* removed is removed before blacklisting begins.
OrdersRB == {<<"a", "r", "b">>, <<"r", "a", "b">>, <<"r", "b", "a">>, <<"a", "r", "-">>}

\* Two in which blacklisting begins before.
OrdersBR == {<<"b", "r", "a">>, <<"a", "b", "-">>}

AllOrders == OrdersRB \cup OrdersBR \cup {<<"r", "-", "-">>, <<"b", "a", "-">>}
=============================================================================
