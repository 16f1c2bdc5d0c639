---------------------------- MODULE MCCommitment ----------------------------
(***************************************************************************)
(* Small instance of Commitment: views 0..MaxView, UI counters             *)
(* 1..MaxCounter.                                                          *)
(***************************************************************************)
EXTENDS Commitment, TLC

CONSTANTS MaxView, MaxCounter

MCViews == 0..MaxView
MCCounters == 1..MaxCounter
\* The NewView message of view v follows v proposals of the primary.
MCNewViewCV == [v \in MCViews |-> IF v = 0 THEN 1 ELSE v]

Symmetry == Permutations(Replica)

=============================================================================
