------------------------- MODULE CandidateFamilies -------------------------
(***************************************************************************)
(* The Candidate revisions Central stores for one repository: the immutable *)
(* revisions, the family heads and the ownership frozen with each revision  *)
(* (central/service.py, _save_candidate_revision and the loop of            *)
(* accept_slice_batch; central/store.py, the three tables).                 *)
(*                                                                          *)
(* A revision record is abstracted to its content; a route stands for one   *)
(* (route_id, configuration_version) pair, and the frozen ownership of a    *)
(* slice is determined by its route and its source boundary digest.         *)
(***************************************************************************)
EXTENDS Naturals, FiniteSets

CONSTANTS
  Families,      \* candidate family ids
  Contents,      \* revision records, told apart by their canonical bytes
  Routes,        \* frozen (route_id, configuration_version) pairs
  Boundaries,    \* source boundary digests a slice may be planned with
  Spaces,        \* leaf Decision Spaces
  SpaceOf,       \* the leaf Decision Space a route targets
  Archived       \* families hidden by the V1 migration before Central starts

ASSUME FamilyAssumption ==
  /\ SpaceOf \in [Routes -> Spaces]
  /\ Archived \subseteq Families

VARIABLES
  revisions,     \* candidate_revisions: the stored revision records
  head,          \* candidate_family_heads: revision number, 0 when no row
  ownership      \* candidate_revision_ownership: one row per owned revision

familyVars == <<revisions, head, ownership>>

Item == [family : Families, revision : Nat \ {0}, content : Contents]
Ownership == [family : Families, revision : Nat \ {0},
              route : Routes, boundary : Boundaries]

FamilyTypeOK ==
  /\ revisions \subseteq Item
  /\ head \in [Families -> Nat]
  /\ ownership \subseteq Ownership

FamilyInit ==
  /\ revisions = {}
  /\ head = [f \in Families |-> 0]
  /\ ownership = {}

-----------------------------------------------------------------------------
(* A batch carries at most one revision of a family                        *)
(* ("candidate_family_repeated").                                          *)
OneRevisionPerFamily(batch) ==
  \A a, b \in batch : a.family = b.family => a = b

(* _save_candidate_revision: a revision number holds one record for ever   *)
(* ("candidate_revision_conflict"), and the head either stays on the very  *)
(* record it already is, or moves by exactly one                           *)
(* ("candidate_revision_not_monotonic").                                   *)
NotConflicting(item) ==
  \A old \in revisions :
    /\ old.family = item.family
    /\ old.revision = item.revision
    => old = item

(* Mutant: a later revision may skip over numbers.                         *)
NotOlder(item) ==
  \/ item.revision > head[item.family]
  \/ item.revision = head[item.family] /\ item \in revisions

Monotonic(item) ==
  \/ item.revision = head[item.family] + 1
  \/ item.revision = head[item.family] /\ item \in revisions

(* Mutant: only the ownership of the revision itself is compared.          *)
RevisionOwnershipAgrees(item, route, boundary) ==
  \A own \in ownership :
    own.family = item.family /\ own.revision = item.revision =>
      own.route = route /\ own.boundary = boundary

(* accept_slice_batch: a family stays in the Decision Space that owns it,  *)
(* and a revision keeps the ownership it was first accepted with.          *)
OwnershipAgrees(item, route, boundary) ==
  \A own \in ownership :
    own.family = item.family =>
      /\ SpaceOf[own.route] = SpaceOf[route]
      /\ own.revision = item.revision =>
           own.route = route /\ own.boundary = boundary

Acceptable(batch, route, boundary) ==
  /\ OneRevisionPerFamily(batch)
  /\ \A item \in batch :
       /\ item.family \notin Archived
       /\ NotConflicting(item)
       /\ Monotonic(item)
       /\ OwnershipAgrees(item, route, boundary)

NewHeads(batch) ==
  [f \in Families |->
     IF \E item \in batch : item.family = f
       THEN (CHOOSE item \in batch : item.family = f).revision
       ELSE head[f]]

(* Mutant: ownership is written with a family's first revision only.       *)
SaveFirstOwners(batch, route, boundary) ==
  /\ revisions' = revisions \cup batch
  /\ head' = NewHeads(batch)
  /\ ownership' = ownership \cup
       {[family |-> item.family, revision |-> item.revision,
         route |-> route, boundary |-> boundary] :
          item \in {it \in batch : it.revision = 1}}

(* The rows one accepted batch writes, all in Central's transaction.  What  *)
(* a Candidate says is not modelled, hence not the refusal of one whose     *)
(* content names another product (slice_content_ownership_conflict).        *)
SaveBatch(batch, route, boundary) ==
  /\ revisions' = revisions \cup batch
  /\ head' = NewHeads(batch)
  /\ ownership' = ownership \cup
       {[family |-> item.family, revision |-> item.revision,
         route |-> route, boundary |-> boundary] : item \in batch}

-----------------------------------------------------------------------------
(* The revisions of a family are numbered 1..head without a gap, and each  *)
(* number holds one record: no interleaving of uploads from several slices *)
(* or requests skips, forks or rewrites a revision.                        *)
GapFreeHistory ==
  /\ \A a, b \in revisions :
       a.family = b.family /\ a.revision = b.revision => a = b
  /\ \A item \in revisions : item.revision <= head[item.family]
  /\ \A f \in Families : \A n \in 1..head[f] :
       \E item \in revisions :
         item.family = f /\ item.revision = n

(* A family never leaves the Decision Space that first owned it, and a     *)
(* revision has one owner, though every group works from the routes frozen *)
(* when it was created and an operator re-points routes in between.        *)
FamilyStaysInSpace ==
  \A a, b \in ownership : a.family = b.family =>
    /\ SpaceOf[a.route] = SpaceOf[b.route]
    /\ a.revision = b.revision => a = b
=============================================================================
