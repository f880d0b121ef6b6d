------------------------ MODULE MCStretchedClock -------------------------
(* Small instances of a stretched client clock for TLC. *)
EXTENDS StretchedClock

ClientClock == 0..4
==========================================================================
