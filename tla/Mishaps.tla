------------------------------ MODULE Mishaps ------------------------------
(****************************************************************************)
(* Restarts, refused statements and lost answers: one bounded count for the *)
(* components that meet them together.                                      *)
(****************************************************************************)
EXTENDS Naturals

CONSTANT MaxMishaps
ASSUME MishapsAssumption == MaxMishaps \in Nat

VARIABLE mishaps

Mishap == mishaps < MaxMishaps /\ mishaps' = mishaps + 1
Fine == UNCHANGED mishaps
=============================================================================
