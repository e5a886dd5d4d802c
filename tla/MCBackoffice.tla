---------------------------- MODULE MCBackoffice ----------------------------
(* Constants for model checking Backoffice. *)
EXTENDS Backoffice, TLC

CONSTANTS e1, e2, n1, n2, c1, c2

\* Requests, names and codes are only compared.
Alike == Permutations(Enroller) \cup Permutations(Name) \cup Permutations(Code)
=============================================================================
