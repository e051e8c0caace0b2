-------------------------- MODULE MCSessionCancel --------------------------
(***************************************************************************)
(* Three submits and two aborts of two sessions; the submits of one of the *)
(* sessions come one after the other.                                      *)
(***************************************************************************)
EXTENDS SessionCancelProps, TLC

CONSTANTS m, n, s1, s2, s3, a1, a2

Alike == Permutations(Submits) \cup Permutations(Aborts)
=============================================================================
