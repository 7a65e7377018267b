----------------------------- MODULE WebReview -----------------------------
(***************************************************************************)
(* Reviews of Candidates in the Decision Web (central/web/reviews.py): a     *)
(* user classifies the Candidates of one leaf Decision Space in a saved      *)
(* draft and submits part of it as an immutable review batch.                *)
(*                                                                          *)
(* One organization, one leaf and one user: drafts, batches, claims and      *)
(* receipts of different leaves never share a row.  A repeated               *)
(* client_action_id returns the stored batch and changes nothing, as does a  *)
(* refused call, such as one made from an older version of the draft        *)
(* (DraftConflict): neither has an action.                                  *)
(***************************************************************************)
EXTENDS Integers, Sequences

CONSTANTS
  Families,      \* Candidate families owned by the leaf
  Saves,         \* the sets of items the reviewer saves
  MaxRevision,   \* bound: revisions of each family
  MaxVersion,    \* bound: versions of the draft
  MaxReviews     \* bound: review batches

ReviewAction == {"accept", "edit_accept", "reject", "skip"}

Revisions == UNION {1 .. MaxRevision[f] : f \in Families}
Item == [revision : Revisions, action : ReviewAction]
Items == UNION {[F -> Item] : F \in SUBSET Families}
Draft == [version : Nat, items : Items]

ASSUME ReviewAssumption ==
  /\ MaxRevision \in [Families -> Nat \ {0}]
  /\ Saves \subseteq Items
  /\ MaxVersion \in Nat /\ MaxReviews \in Nat

VARIABLES
  current,       \* candidate_family_heads: revision, 0 before the first
  draft,         \* web_review_drafts: version and items by family
  batches        \* web_review_batches in submission_order

reviewVars == <<current, draft, batches>>

ReviewTypeOK ==
  /\ current \in [Families -> Nat]
  /\ draft \in Draft
  /\ batches \in Seq(Items)

NoItems == [f \in {} |-> CHOOSE item \in Item : TRUE]
EmptyDraft == [version |-> 0, items |-> NoItems]

ReviewInit ==
  /\ current = [f \in Families |-> 0]
  /\ draft = EmptyDraft
  /\ batches = <<>>

-----------------------------------------------------------------------------
(* A batch's item is the newest review of its family when no later batch    *)
(* has one (latest_review_ids orders by submission_order).                  *)
IsLatest(b, f) ==
  \A c \in DOMAIN batches : f \in DOMAIN batches[c] => c <= b

Accepted(b) ==
  {f \in DOMAIN batches[b] : batches[b][f].action \in {"accept", "edit_accept"}}

(* The device API installs the next revision of a family.                   *)
Upload(f) ==
  /\ current[f] < MaxRevision[f]
  /\ current' = [current EXCEPT ![f] = @ + 1]
  /\ UNCHANGED <<draft, batches>>

(* The whole set of items is replaced.  An item names an existing revision   *)
(* of its family, the current one or not.                                   *)
SaveDraft(items) ==
  /\ draft.version < MaxVersion
  /\ \A f \in DOMAIN items : items[f].revision <= current[f]
  /\ draft' = [version |-> draft.version + 1, items |-> items]
  /\ UNCHANGED <<current, batches>>

(* Items that are no longer the family's current revision refuse the whole   *)
(* submission (ReviewStale).  The submitted items leave the draft.          *)
NoneStale(items) ==
  \A f \in DOMAIN items : items[f].revision = current[f]

SubmitReview(F) ==
  /\ F # {} /\ F \subseteq DOMAIN draft.items
  /\ draft.version < MaxVersion /\ Len(batches) < MaxReviews
  /\ LET submitted == [f \in F |-> draft.items[f]]
         kept == [f \in DOMAIN draft.items \ F |-> draft.items[f]]
     IN  /\ NoneStale(submitted)
         /\ batches' = Append(batches, submitted)
         /\ draft' = [version |-> draft.version + 1, items |-> kept]
  /\ UNCHANGED current

ReviewNext ==
  \/ \E items \in Saves : SaveDraft(items)
  \/ \E F \in SUBSET Families : SubmitReview(F)
=============================================================================
