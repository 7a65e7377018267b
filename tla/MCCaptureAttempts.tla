------------------------- MODULE MCCaptureAttempts -------------------------
(* Bounds for TLC: two overlapping runs of one source.     *)
EXTENDS CaptureAttempts, TLC

MCSymmetry == Permutations(Runners) \cup Permutations(Decisions)
=============================================================================
