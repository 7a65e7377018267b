---------------------------- MODULE MCRecallDemo ----------------------------
(* A small instance of RecallDemo.                                         *)
EXTENDS RecallDemo, TLC

MCSymmetry ==
  Permutations(Installers) \cup Permutations(Publishers) \cup Permutations(Profiles)
=============================================================================
