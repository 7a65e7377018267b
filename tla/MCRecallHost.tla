----------------------------- MODULE MCRecallHost -----------------------------
(* One native Session, two intents of different Decision Spaces, and one    *)
(* Decision that retrieval may or may not find for each.                    *)
EXTENDS RecallHost, TLC

CONSTANTS s1, i1, i2, x1, x2, spaceA, spaceB

MCSpacesOf == (i1 :> {spaceA}) @@ (i2 :> {spaceB})
MCShortlists == (i1 :> {{}, {x1}}) @@ (i2 :> {{x2}})

MCSymmetry == Permutations(Callers)
=============================================================================
