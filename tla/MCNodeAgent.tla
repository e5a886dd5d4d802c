---------------------------- MODULE MCNodeAgent ----------------------------
(* Constants for model checking NodeAgent. *)
EXTENDS NodeAgent

CONSTANTS j1, j2, k1, k2

\* 1 in 1 tick and 1 in 2 ticks, in the place of 20 in 1 s and 100 in 120 s: the
\* wider window is the one that binds.
TwoWindows == <<Spec(1, 1), Spec(1, 2)>>

\* The host's header may declare a window with room for two.
DeclaredWindows == [app |-> {<<Spec(2, 2)>>}, method |-> {}]
=============================================================================
