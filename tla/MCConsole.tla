----------------------------- MODULE MCConsole ------------------------------
(* Instances of Console for TLC. *)
EXTENDS Console

CONSTANTS q1, q2, l1, l2

MCKind == [c \in Cmds |-> CASE c = "onoff on" -> "onoff"
                            [] c = "lightness 50" -> "lightness"
                            [] c = "colortemp 101" -> "bad"
                            [] c = "colortemp 30 l2" -> "colortemp"
                            [] c = "demo on" -> "demo on"
                            [] c = "demo off" -> "demo off"
                            [] OTHER -> "other"]
MCAddrs == [c \in Cmds |-> IF c = "colortemp 30 l2" THEN <<l2>> ELSE <<>>]
MCTree == <<l1, l2>>
MCFunc == [l \in Lights |-> IF l = l1 THEN {0, 1, 2} ELSE {0, 1}]
MCDemoAddrs == <<l1, l2>>
=============================================================================
