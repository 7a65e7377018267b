------------------------ MODULE MCManualPublication ------------------------
(* Two overlapping commands, one Capture of at most two Candidates.         *)
EXTENDS ManualPublication, TLC

CONSTANTS o1, o2

MCSizeOf == o1 :> 2 @@ o2 :> 1
MCSelections == {1 :> "accept" @@ 2 :> "edit_accept"}
MCSymmetry == Permutations(Shells) \cup Permutations(Turns)
=============================================================================
