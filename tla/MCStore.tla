------------------------------- MODULE MCStore -------------------------------
(* Small instances of Store for TLC. *)
EXTENDS Store

CONSTANTS g1, g2, g3, p1, p2

Line == [g \in Game |-> IF g = g1 THEN <<p1, p2>> ELSE <<p2>>]
=============================================================================
