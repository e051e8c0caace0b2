------------------------------ MODULE MCGitHub ------------------------------
(***************************************************************************)
(* One tracked pull, a delivery of its check, and two bug reports, whose   *)
(* titles may be equal or the one the start of the other.                  *)
(***************************************************************************)
EXTENDS GitHubProps, TLC

CONSTANTS p1, d1, b1, b2

AllTriggers == Deliveries \cup Reports
AllIssues == 1 .. Cardinality(AllTriggers)
Starts == {<<k, k>> : k \in Keys} \cup {<<"bug", "bugs">>}
Alike == Permutations(Reports)
=============================================================================
