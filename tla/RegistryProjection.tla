------------------------- MODULE RegistryProjection -------------------------
(***************************************************************************)
(* Central's SQLite projection of the Decision Registry                      *)
(* (central/registry_projection.py).  Web pages and recall read it only      *)
(* while its state is "available".  The rows of a tree are exactly what Git  *)
(* holds for it (matches and load_active verify digests), so a projection    *)
(* is the tree its rows stand for.                                          *)
(***************************************************************************)
EXTENDS RegistryGit

VARIABLE projection      \* registry_projection_state and the rows it serves

NoCommit == 0

Projection ==
  [state : {"absent", "available", "syncing", "unavailable"},
   active : Nat, tree : SUBSET Preview, desired : Nat]

ProjectionTypeOK == projection \in Projection

ProjectionInit ==
  projection = [state |-> "absent", active |-> NoCommit, tree |-> {},
                desired |-> NoCommit]

-----------------------------------------------------------------------------
(* require_exact_main proves a commit against the last fetch, without one.  *)
Proven(c) == head = c /\ origin = c

MarkSyncing(c) ==
  projection' = [projection EXCEPT !.state = "syncing", !.desired = c]

(* install replaces the rows and switches the active tree in one             *)
(* transaction; update_provenance switches the commit of an equal tree.     *)
InstallProjection(c) ==
  /\ projection.state = "syncing" /\ projection.desired = c
  /\ projection' = [state |-> "available", active |-> c, tree |-> Tree(c),
                    desired |-> NoCommit]

MarkUnavailable(c) ==
  projection' = [projection EXCEPT !.state = "unavailable", !.desired = c]
=============================================================================
