---------------------------- MODULE MCMergeQueue ----------------------------
(***************************************************************************)
(* Two pulls and up to three deliveries.                                   *)
(***************************************************************************)
EXTENDS MergeQueueProps

CONSTANTS p1, p2, d1, d2, d3
=============================================================================
