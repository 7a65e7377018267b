--------------------------- MODULE MCPublication ---------------------------
(* Publication on small sets: f1 is revised once, and is accepted beside f2,  *)
(* rejected beside it, or accepted alone in its second revision.            *)
EXTENDS Publication, TLC

CONSTANTS f1, f2

RevisedOnce == f1 :> 2 @@ f2 :> 1

Is(revision, action) == [revision |-> revision, action |-> action]

MixedSaves ==
  {f1 :> Is(1, "accept") @@ f2 :> Is(1, "accept"),
   f1 :> Is(1, "reject") @@ f2 :> Is(1, "edit_accept"),
   f1 :> Is(2, "accept")}
=============================================================================
