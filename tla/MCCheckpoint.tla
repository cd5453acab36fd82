---------------------------- MODULE MCCheckpoint ----------------------------
(* Two ranks, two values of the loss.                                       *)
EXTENDS Checkpoint
MCRanks == {"r0", "r1"}
MCLosses == {1, 2}
=============================================================================
