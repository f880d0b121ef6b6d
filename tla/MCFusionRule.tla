-------------------------- MODULE MCFusionRule ---------------------------
(* Small instances of one rule for TLC. *)
EXTENDS FusionRule

FiveTicks == 0..4
==========================================================================
