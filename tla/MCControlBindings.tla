-------------------------- MODULE MCControlBindings --------------------------
(* Bounds for TLC.  Two cards of two Sessions in two views, one button on   *)
(* the web page, one lost call.                                             *)
EXTENDS ControlBindings, TLC

MCSymmetry == Permutations(Views) \cup Permutations(Sessions) \cup Permutations(Controls)
                \cup Permutations(Actions)
=============================================================================
