------------------------------- MODULE MCFleet -------------------------------
(* Small instances of Fleet for TLC. *)
EXTENDS Fleet

CONSTANTS n1, n2, r1, r2, h1, b1, b2

OneHost == [r \in Request |-> h1]

OwnBody == [r \in Request |-> IF r = r1 THEN b1 ELSE b2]

\* A bound: where two calls have been made, no audit was rolled (so ids went to calls
\* only).  Nothing forces a behaviour across it: neither calls nor the dice are fair.
AuditsAlone ==
  LET Called(at) == Cardinality({r \in Request : call[r] \in at})
  IN  Called({"entered", "waiting", "done"}) <= 1 \/ next_id <= 1 + Called({"waiting", "done"})
=============================================================================
