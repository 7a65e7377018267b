------------------------- MODULE PublicationProofs -------------------------
(***************************************************************************)
(* A publication is of one exact commit over the commit its preview froze,   *)
(* it is never undone, and success is claimed only for what the remote main  *)
(* holds: for any number of families, batches, requests, foreign pushes and  *)
(* faults.                                                                  *)
(***************************************************************************)
EXTENDS Publication, SequenceTheorems, TLAPS

(* The graph of commits is made parent first, and past is its ancestry.     *)
History ==
  \A i \in DOMAIN commits :
    /\ commits[i].past \subseteq 1 .. i /\ i \in commits[i].past
    /\ commits[i].parent < i
    /\ commits[i].parent # 0 =>
         commits[i].past = commits[commits[i].parent].past \cup {i}
    /\ \A j \in commits[i].past : commits[j].past \subseteq commits[i].past
    /\ commits[i].by # NoPreview => commits[i].parent # 0

(* Previews are of submitted batches.                                       *)
OfBatches == \A p \in previews : p.batch \in DOMAIN batches

(* A stored publication names its commit as soon as it is no longer merely   *)
(* confirmed, and the remote has the commit of a completed one.             *)
Stored ==
  \A p \in DOMAIN publications :
    LET r == publications[p]
    IN  /\ r.state = "confirmed" => r.commit = NoCommit
        /\ r.state # "confirmed" =>
             r.commit \in DOMAIN commits /\ IsExactCommit(r.commit, p)
        /\ r.state = "completed" => IsAncestor(r.commit, remote)

(* What a request knows at each of its checkpoints.                         *)
Committing == {"confirmed", "written", "committed"}
Pushing == {"pending", "pushing", "pushed"}

Working ==
  LET p == handler.preview
      at == handler.step
  IN  /\ at = "planned" => p.batch \in DOMAIN batches
      /\ at = "checked" => p \in previews \ DOMAIN publications
      /\ at \in Committing \cup Pushing =>
           p \in DOMAIN publications /\ ~publications[p].ambiguous
      /\ at \in Committing => publications[p].state = "confirmed"
      /\ at = "committed" =>
           handler.commit \in DOMAIN commits /\ IsExactCommit(handler.commit, p)
      /\ at \in Pushing => publications[p].state = "committed_pending_push"
      /\ at = "pushed" => IsAncestor(publications[p].commit, remote)
      /\ at = "installing" => handler.commit \in DOMAIN commits

PublicationInv == TypeOK /\ History /\ OfBatches /\ Stored /\ Working

-----------------------------------------------------------------------------
(* What a step may do to commits, publications, claims and receipts.        *)
Same == UNCHANGED <<publications, claims, receipts>>

Quiet ==
  /\ UNCHANGED <<commits, head, remote, publications, claims, receipts>>
  /\ origin' \in {origin, remote}

Elsewhere == (ForeignPush \/ OperatorPull) /\ Same /\ UNCHANGED handler

Stops ==
  /\ handler.step \in Committing \cup Pushing
  /\ Latch(handler.preview) /\ handler' = Idle
  /\ UNCHANGED <<commits, head, remote, claims, receipts>>
  /\ origin' \in {origin, remote}

Completes ==
  /\ handler.step \in Pushing
  /\ IsAncestor(publications[handler.preview].commit, remote)
  /\ Complete(handler.preview)
  /\ UNCHANGED <<commits, head, remote, claims, receipts>>
  /\ origin' \in {origin, remote}

Confirms == Confirm /\ handler'.step = "confirmed"

Commits == CommitExact /\ handler'.step = "committed"

LEMMA StepKinds ==
  ASSUME Working, [Next]_vars
  PROVE  \/ Quiet \/ Elsewhere \/ Confirms \/ Commits \/ RecordCommit \/ Stops
         \/ Push \/ Completes
  <1> USE DEF Quiet, Fetch, gitVars, recordVars
  <1>1. FreezePreview \/ AdoptCommit \/ WriteFiles => Quiet
    BY DEF FreezePreview, AdoptCommit, WriteFiles
  <1>2. Confirm => Quiet \/ Confirms
    BY DEF Confirm, Confirms, At
  <1>3. CommitExact => Quiet \/ Commits
    BY DEF CommitExact, Commits, At
  <1>4. StopUncommitted => Stops
    BY DEF StopUncommitted, Stops, Committing
  <1>5. CheckRemote => Quiet \/ Stops \/ Completes
    BY DEF CheckRemote, Stops, Completes, Pushing
  <1>6. PushRaced => Quiet \/ Stops
    BY DEF PushRaced, Stops, Pushing
  <1>7. CompletePush => Completes
    BY DEF CompletePush, Completes, Pushing, Working
  <1>8. Prove \/ Install \/ InstallFails \/ Crash => Quiet
    BY DEF Prove, Install, InstallFails, Crash
  <1>9. GitFails => Quiet \/ Stops
    BY DEF GitFails, Stops, Committing, Pushing
  <1>10. Others => Quiet \/ Elsewhere
    BY DEF Others, Elsewhere, Same
  <1>11. Review \/ Startup \/ FetchOnly => Quiet
    BY DEF Review, Startup, FetchOnly
  <1>12. ASSUME NEW b, PlanPreview(b) PROVE Quiet
    BY <1>12 DEF PlanPreview
  <1>13. ASSUME NEW p, CheckConfirm(p) PROVE Quiet
    BY <1>13 DEF CheckConfirm
  <1>14. ASSUME NEW p, Resume(p) PROVE Quiet
    BY <1>14 DEF Resume
  <1>15. UNCHANGED vars => Quiet
    BY DEF vars
  <1> QED
    BY <1>1, <1>2, <1>3, <1>4, <1>5, <1>6, <1>7, <1>8, <1>9, <1>10, <1>11,
       <1>12, <1>13, <1>14, <1>15 DEF Next, Work, Fault

-----------------------------------------------------------------------------
(* The commit graph                                                         *)

(* A new commit has its parent's ancestors and itself, and no other commit   *)
(* changes.                                                                 *)
LEMMA NewCommit ==
  ASSUME GitTypeOK, History, NEW parent \in DOMAIN commits, NEW p \in Preview,
         commits' = WithCommit(parent, p)
  PROVE  LET n == Len(commits) + 1
         IN  /\ commits' \in Seq(Commit) /\ Len(commits') = n
             /\ DOMAIN commits' = DOMAIN commits \cup {n}
             /\ n \in Nat /\ n \notin DOMAIN commits
             /\ \A i \in DOMAIN commits : commits'[i] = commits[i]
             /\ commits'[n] = [parent |-> parent, by |-> p,
                               past |-> commits[parent].past \cup {n}]
  <1> DEFINE n == Len(commits) + 1
             e == [parent |-> parent, by |-> p,
                   past |-> commits[parent].past \cup {n}]
  <1>1. commits \in Seq(Commit)
    BY DEF GitTypeOK
  <1>2. n \in Nat /\ DOMAIN commits = 1 .. Len(commits) /\ Len(commits) \in Nat
    BY <1>1
  <1>3. commits[parent] \in Commit
    BY <1>1, <1>2
  <1>4. commits[parent].past \in SUBSET Nat
    BY <1>3 DEF Commit
  <1>5. e \in Commit
    BY <1>2, <1>4 DEF Commit
  <1>6. commits' = Append(commits, e)
    BY DEF WithCommit
  <1> HIDE DEF e
  <1>7. /\ commits' \in Seq(Commit) /\ Len(commits') = n
        /\ \A i \in 1 .. Len(commits) : commits'[i] = commits[i]
        /\ commits'[n] = e
    BY <1>1, <1>5, <1>6, <1>2
  <1>8. DOMAIN commits' = 1 .. n
    BY <1>7
  <1> QED
    BY <1>2, <1>7, <1>8 DEF e

LEMMA HistoryGrows ==
  ASSUME GitTypeOK, History, NEW parent \in DOMAIN commits, NEW p \in Preview,
         commits' = WithCommit(parent, p)
  PROVE  History'
  <1> DEFINE n == Len(commits) + 1
  <1>0. DOMAIN commits = 1 .. n - 1
    BY DEF GitTypeOK
  <1>1. /\ n \in Nat /\ n \notin DOMAIN commits
        /\ DOMAIN commits' = DOMAIN commits \cup {n}
        /\ \A i \in DOMAIN commits : commits'[i] = commits[i]
        /\ commits'[n] = [parent |-> parent, by |-> p,
                          past |-> commits[parent].past \cup {n}]
    BY NewCommit
  <1> DEFINE Good(i) ==
         /\ commits'[i].past \subseteq 1 .. i /\ i \in commits'[i].past
         /\ commits'[i].parent < i
         /\ commits'[i].parent # 0 =>
              commits'[i].past = commits'[commits'[i].parent].past \cup {i}
         /\ \A j \in commits'[i].past : commits'[j].past \subseteq commits'[i].past
         /\ commits'[i].by # NoPreview => commits'[i].parent # 0
  <1> HIDE DEF n
  <1>2. ASSUME NEW i \in DOMAIN commits PROVE Good(i)
    <2>1. commits'[i] = commits[i] /\ i \in 1 .. n - 1
      BY <1>0, <1>1
    <2>2. commits[i].past \subseteq 1 .. i /\ commits[i].parent < i
      BY DEF History
    <2>3. commits[i].past \subseteq DOMAIN commits
      BY <1>0, <1>1, <2>1, <2>2
    <2>4. commits[i].parent # 0 => commits[i].parent \in DOMAIN commits
      <3>1. commits[i] \in Commit
        BY DEF GitTypeOK
      <3>2. commits[i].parent \in Nat
        BY <3>1 DEF Commit
      <3> QED  BY <1>0, <1>1, <2>1, <2>2, <3>2
    <2> QED
      BY <1>0, <1>1, <2>1, <2>2, <2>3, <2>4 DEF History
  <1>3. Good(n)
    <2>1. /\ commits[parent].past \subseteq 1 .. parent
          /\ \A j \in commits[parent].past :
               commits[j].past \subseteq commits[parent].past
      BY DEF History
    <2>2. commits[parent].past \subseteq DOMAIN commits /\ parent \in 1 .. n - 1
      BY <1>0, <1>1, <2>1
    <2>3. commits'[n].past = commits[parent].past \cup {n}
      BY <1>0, <1>1
    <2>4. commits'[n].past \subseteq 1 .. n
      BY <1>0, <1>1, <2>2, <2>3
    <2>5. commits'[n].parent = parent /\ parent < n /\ parent # 0
      BY <1>0, <1>1, <2>2
    <2>6. ASSUME NEW j \in commits'[n].past
          PROVE  commits'[j].past \subseteq commits'[n].past
      BY <1>0, <1>1, <2>1, <2>2, <2>3, <2>6
    <2> QED
      BY <1>0, <1>1, <2>3, <2>4, <2>5, <2>6
  <1> QED
    BY <1>0, <1>1, <1>2, <1>3 DEF History

(* No commit changes, and the remote main only moves to a descendant.       *)
Extended ==
  /\ DOMAIN commits \subseteq DOMAIN commits'
  /\ \A i \in DOMAIN commits : commits'[i] = commits[i]
  /\ commits[remote].past \subseteq commits'[remote'].past

LEMMA WorktreeStep ==
  ASSUME TypeOK, [Next]_vars
  PROVE  worktree' \in Preview
  <1>1. worktree \in Preview /\ handler.preview \in Preview /\ NoPreview \in Preview
    BY DEF TypeOK, GitTypeOK, Preview, NoPreview
  <1>2. \/ worktree' = worktree \/ worktree' = NoPreview
        \/ worktree' = handler.preview
    <2> USE DEF gitVars
    <2>1. FreezePreview \/ Confirm \/ AdoptCommit \/ WriteFiles
            => worktree' \in {worktree, handler.preview}
      BY DEF FreezePreview, Confirm, AdoptCommit, WriteFiles
    <2>2. StopUncommitted \/ CommitExact \/ RecordCommit \/ CheckRemote
            => worktree' \in {worktree, NoPreview}
      BY DEF StopUncommitted, CommitExact, RecordCommit, CheckRemote
    <2>3. Push \/ PushRaced \/ CompletePush \/ Prove \/ Install
            => worktree' = worktree
      BY DEF Push, PushRaced, CompletePush, Prove, Install
    <2>4. Fault \/ Others \/ Review \/ Startup \/ FetchOnly
            => worktree' = worktree
      BY DEF Fault, InstallFails, Crash, GitFails, Others, ForeignPush,
         OperatorPull, Review, Startup, FetchOnly
    <2>5. ASSUME NEW x, PlanPreview(x) \/ CheckConfirm(x) \/ Resume(x)
          PROVE  worktree' = worktree
      BY <2>5 DEF PlanPreview, CheckConfirm, Resume
    <2> QED
      BY <2>1, <2>2, <2>3, <2>4, <2>5 DEF Next, Work, vars
  <1> QED
    BY <1>1, <1>2

LEMMA GitStep ==
  ASSUME PublicationInv, [Next]_vars
  PROVE  GitTypeOK' /\ History' /\ Extended
  <1> DEFINE p == handler.preview
             Heads == head' \in DOMAIN commits' /\ origin' \in DOMAIN commits'
                        /\ remote' \in DOMAIN commits'
  <1> SUFFICES commits' \in Seq(Commit) /\ Heads /\ History' /\ Extended
    BY WorktreeStep DEF GitTypeOK, PublicationInv
  <1>1. /\ GitTypeOK /\ History /\ commits \in Seq(Commit)
        /\ {head, origin, remote} \subseteq DOMAIN commits
        /\ DOMAIN commits = 1 .. Len(commits) /\ Len(commits) \in Nat
        /\ p \in Preview /\ NoPreview \in Preview
    BY DEF PublicationInv, TypeOK, GitTypeOK, Preview, NoPreview
  <1>2. ASSUME commits' = commits PROVE History'
    BY <1>1, <1>2 DEF History
  <1>3. CASE Quiet \/ Confirms \/ RecordCommit \/ Stops \/ Completes
    <2>1. /\ commits' = commits /\ head' = head /\ remote' = remote
          /\ origin' \in {origin, remote}
      BY <1>3 DEF Quiet, Confirms, Confirm, RecordCommit, Stops, Completes, gitVars
    <2> QED  BY <1>1, <1>2, <2>1 DEF Extended
  <1>4. CASE OperatorPull
    <2>1. commits' = commits /\ remote' = remote /\ head' = remote /\ origin' = remote
      BY <1>4 DEF OperatorPull, Fetch
    <2> QED  BY <1>1, <1>2, <2>1 DEF Extended
  <1>5. CASE ForeignPush
    <2>1. /\ commits' = WithCommit(remote, NoPreview) /\ remote' = Len(commits')
          /\ head' = head /\ origin' = origin
      BY <1>5 DEF ForeignPush
    <2>2. History'
      BY <1>1, <2>1, HistoryGrows
    <2> DEFINE n == Len(commits) + 1
    <2>3. /\ commits' \in Seq(Commit) /\ Len(commits') = n
          /\ DOMAIN commits' = DOMAIN commits \cup {n}
          /\ \A i \in DOMAIN commits : commits'[i] = commits[i]
          /\ commits'[n] = [parent |-> remote, by |-> NoPreview,
                            past |-> commits[remote].past \cup {n}]
      BY <1>1, <2>1, NewCommit
    <2> HIDE DEF n
    <2> QED  BY <1>1, <2>1, <2>2, <2>3 DEF Extended
  <1>6. CASE Commits
    <2>1. /\ commits' = WithCommit(head, p) /\ head' = Len(commits')
          /\ remote' = remote /\ origin' = origin
      BY <1>6 DEF Commits, CommitExact, Idle, At
    <2>2. History'
      BY <1>1, <2>1, HistoryGrows
    <2> QED  BY <1>1, <2>1, <2>2, NewCommit DEF Extended
  <1>7. CASE Push
    <2> DEFINE c == publications[p].commit
    <2>1. /\ commits' = commits /\ head' = head /\ remote' = c /\ remote = p.base
          /\ origin' \in {origin, remote'} /\ handler.step \in Pushing
      BY <1>7 DEF Push, Pushing
    <2>2. c \in DOMAIN commits /\ commits[c].parent = p.base
      BY <2>1 DEF PublicationInv, Working, Stored, IsExactCommit
    <2>3. commits[c].past = commits[remote].past \cup {c}
      <3>1. commits[c].parent = remote /\ remote # 0
        BY <1>1, <2>1, <2>2
      <3>2. commits[c].parent # 0 =>
              commits[c].past = commits[commits[c].parent].past \cup {c}
        BY <1>1, <2>2 DEF History
      <3> QED  BY <3>1, <3>2
    <2> QED  BY <1>1, <1>2, <2>1, <2>2, <2>3 DEF Extended
  <1> QED
    BY <1>3, <1>4, <1>5, <1>6, <1>7, StepKinds DEF PublicationInv, Elsewhere

-----------------------------------------------------------------------------
(* Types                                                                    *)

(* Batches are never changed, only followed by others.                      *)
BatchesKept ==
  /\ DOMAIN batches \subseteq DOMAIN batches'
  /\ \A b \in DOMAIN batches : batches'[b] = batches[b]

LEMMA ReviewStep ==
  ASSUME TypeOK, [Next]_vars
  PROVE  ReviewTypeOK' /\ BatchesKept
  <1>1. ReviewTypeOK
    BY DEF TypeOK
  <1>2. CASE UNCHANGED reviewVars
    BY <1>1, <1>2 DEF ReviewTypeOK, reviewVars, BatchesKept
  <1>3. ASSUME NEW f \in Families, Upload(f) PROVE ReviewTypeOK' /\ BatchesKept
    BY <1>1, <1>3 DEF Upload, ReviewTypeOK, BatchesKept
  <1>4. ASSUME NEW items \in Saves, SaveDraft(items)
        PROVE  ReviewTypeOK' /\ BatchesKept
    <2>1. items \in Items
      BY ReviewAssumption
    <2> QED
      BY <1>1, <1>4, <2>1 DEF SaveDraft, ReviewTypeOK, Draft, BatchesKept
  <1>5. ASSUME NEW F \in SUBSET Families, SubmitReview(F)
        PROVE  ReviewTypeOK' /\ BatchesKept
    <2> DEFINE submitted == [f \in F |-> draft.items[f]]
               kept == [f \in DOMAIN draft.items \ F |-> draft.items[f]]
    <2>1. PICK D \in SUBSET Families : draft.items \in [D -> Item]
      BY <1>1 DEF ReviewTypeOK, Draft, Items
    <2>2. F \subseteq D
      BY <1>5, <2>1 DEF SubmitReview
    <2>3. submitted \in [F -> Item]
      BY <2>1, <2>2
    <2>4. kept \in [D \ F -> Item]
      BY <2>1
    <2>5. submitted \in Items /\ kept \in Items
      BY <2>3, <2>4 DEF Items
    <2>6. /\ batches' = Append(batches, submitted) /\ current' = current
          /\ draft' = [version |-> draft.version + 1, items |-> kept]
      BY <1>5 DEF SubmitReview
    <2> HIDE DEF submitted, kept
    <2>7. batches' \in Seq(Items) /\ BatchesKept
      BY <1>1, <2>5, <2>6 DEF ReviewTypeOK, BatchesKept
    <2>8. draft' \in Draft
      BY <1>1, <2>5, <2>6 DEF ReviewTypeOK, Draft
    <2> QED
      BY <1>1, <2>6, <2>7, <2>8 DEF ReviewTypeOK
  <1>6. \/ UNCHANGED reviewVars
        \/ \E f \in Families : Upload(f)
        \/ \E items \in Saves : SaveDraft(items)
        \/ \E F \in SUBSET Families : SubmitReview(F)
    <2>1. Others \/ Review => \/ UNCHANGED reviewVars
                              \/ \E f \in Families : Upload(f)
                              \/ \E items \in Saves : SaveDraft(items)
                              \/ \E F \in SUBSET Families : SubmitReview(F)
      BY DEF Others, Review, ReviewNext
    <2>2. FreezePreview \/ Confirm \/ AdoptCommit \/ WriteFiles \/ StopUncommitted
            \/ CommitExact \/ RecordCommit \/ CheckRemote
            => UNCHANGED reviewVars
      BY DEF FreezePreview, Confirm, AdoptCommit, WriteFiles, StopUncommitted,
         CommitExact, RecordCommit, CheckRemote
    <2>3. Push \/ PushRaced \/ CompletePush \/ Prove \/ Install \/ Fault
            \/ Startup \/ FetchOnly
            => UNCHANGED reviewVars
      BY DEF Push, PushRaced, CompletePush, Prove, Install, Fault, InstallFails,
         Crash, GitFails, Startup, FetchOnly
    <2>4. ASSUME NEW x, PlanPreview(x) \/ CheckConfirm(x) \/ Resume(x)
          PROVE  UNCHANGED reviewVars
      BY <2>4 DEF PlanPreview, CheckConfirm, Resume
    <2> QED
      BY <2>1, <2>2, <2>3, <2>4 DEF Next, Work, vars
  <1> QED
    BY <1>2, <1>3, <1>4, <1>5, <1>6

LEMMA TreeTyped ==
  ASSUME GitTypeOK, NEW c \in DOMAIN commits, commits[c].past \subseteq DOMAIN commits
  PROVE  Tree(c) \subseteq Preview
  <1>1. \A i \in commits[c].past : commits[i] \in Commit
    BY DEF GitTypeOK
  <1> QED
    BY <1>1 DEF Tree, Commit

(* What a step may do to the read model.                                    *)
ProjectionKinds ==
  \/ UNCHANGED projection
  \/ Prove \/ Startup \/ Install \/ InstallFails

LEMMA ProjectionSteps ==
  ASSUME [Next]_vars
  PROVE  ProjectionKinds
  <1> USE DEF ProjectionKinds
  <1>1. FreezePreview \/ Confirm \/ AdoptCommit \/ WriteFiles \/ StopUncommitted
          \/ CommitExact \/ RecordCommit \/ CheckRemote
          => UNCHANGED projection
    BY DEF FreezePreview, Confirm, AdoptCommit, WriteFiles, StopUncommitted,
       CommitExact, RecordCommit, CheckRemote
  <1>2. Push \/ PushRaced \/ CompletePush \/ Crash \/ GitFails \/ FetchOnly
          => UNCHANGED projection
    BY DEF Push, PushRaced, CompletePush, Crash, GitFails, FetchOnly
  <1>3. Others \/ Review => UNCHANGED projection
    BY DEF Others, Review
  <1>4. ASSUME NEW x, PlanPreview(x) \/ CheckConfirm(x) \/ Resume(x)
        PROVE  UNCHANGED projection
    BY <1>4 DEF PlanPreview, CheckConfirm, Resume
  <1> QED
    BY <1>1, <1>2, <1>3, <1>4 DEF Next, Work, Fault, vars

LEMMA ProjectionStep ==
  ASSUME PublicationInv, [Next]_vars
  PROVE  ProjectionTypeOK'
  <1>1. /\ projection \in Projection /\ handler.commit \in Nat /\ head \in Nat
        /\ NoCommit \in Nat
    BY DEF PublicationInv, TypeOK, ProjectionTypeOK, GitTypeOK, NoCommit
  <1>2. CASE UNCHANGED projection
    BY <1>1, <1>2 DEF ProjectionTypeOK
  <1>3. CASE Prove \/ Startup \/ InstallFails
    BY <1>1, <1>3 DEF Prove, Startup, InstallFails, MarkSyncing,
       MarkUnavailable, ProjectionTypeOK, Projection
  <1>4. CASE Install
    <2> DEFINE c == handler.commit
    <2>1. projection' = [state |-> "available", active |-> c, tree |-> Tree(c),
                         desired |-> NoCommit]
      BY <1>4 DEF Install, InstallProjection
    <2>2. c \in DOMAIN commits
      BY <1>4 DEF PublicationInv, Working, Install
    <2>3. commits[c].past \subseteq DOMAIN commits
      BY <2>2 DEF PublicationInv, TypeOK, GitTypeOK, History
    <2>4. Tree(c) \subseteq Preview
      BY <2>2, <2>3, TreeTyped DEF PublicationInv, TypeOK
    <2> QED
      BY <1>1, <2>1, <2>4 DEF ProjectionTypeOK, Projection
  <1> QED
    BY <1>2, <1>3, <1>4, ProjectionSteps DEF ProjectionKinds

(* What a step may do to the frozen previews.                               *)
LEMMA PreviewsStep ==
  ASSUME [Next]_vars
  PROVE  \/ previews' = previews
         \/ handler.step = "planned" /\ previews' = previews \cup {handler.preview}
  <1> DEFINE Goal == \/ previews' = previews
                     \/ /\ handler.step = "planned"
                        /\ previews' = previews \cup {handler.preview}
  <1> USE DEF recordVars
  <1>1. FreezePreview => Goal
    BY DEF FreezePreview
  <1>2. Confirm \/ AdoptCommit \/ WriteFiles \/ StopUncommitted \/ CommitExact
          \/ RecordCommit \/ CheckRemote
          => previews' = previews
    BY DEF Confirm, AdoptCommit, WriteFiles, StopUncommitted, CommitExact,
       RecordCommit, CheckRemote
  <1>3. Push \/ PushRaced \/ CompletePush \/ Prove \/ Install \/ Fault \/ Others
          \/ Review \/ Startup \/ FetchOnly
          => previews' = previews
    BY DEF Push, PushRaced, CompletePush, Prove, Install, Fault, InstallFails,
       Crash, GitFails, Others, Review, Startup, FetchOnly
  <1>4. ASSUME NEW x, PlanPreview(x) \/ CheckConfirm(x) \/ Resume(x)
        PROVE  previews' = previews
    BY <1>4 DEF PlanPreview, CheckConfirm, Resume
  <1> QED
    BY <1>1, <1>2, <1>3, <1>4 DEF Next, Work, vars

(* An exact commit stays one, and what the remote main has it keeps.        *)
LEMMA CommitsKept ==
  ASSUME Extended, NEW c \in DOMAIN commits
  PROVE  /\ c \in DOMAIN commits'
         /\ commits'[c] = commits[c]
         /\ IsAncestor(c, remote) => c \in commits'[remote'].past
  BY DEF Extended, IsAncestor

LEMMA PublicationsStep ==
  ASSUME PublicationInv, [Next]_vars
  PROVE  /\ DOMAIN publications \subseteq DOMAIN publications'
         /\ DOMAIN publications' \subseteq previews'
         /\ publications' \in [DOMAIN publications' -> Record]
         /\ Stored'
  <1> DEFINE p == handler.preview
             Good(q, r) ==
               /\ r.state = "confirmed" => r.commit = NoCommit
               /\ r.state # "confirmed" =>
                    /\ r.commit \in DOMAIN commits'
                    /\ commits'[r.commit].parent = q.base
                    /\ commits'[r.commit].by = q
               /\ r.state = "completed" => r.commit \in commits'[remote'].past
             D == DOMAIN publications
  <1>1. previews \subseteq previews'
    BY PreviewsStep
  <1>2. Extended
    BY GitStep
  <1>3. D \subseteq previews /\ publications \in [D -> Record]
    BY DEF PublicationInv, TypeOK
  <1>4. ASSUME NEW q \in D PROVE Good(q, publications[q])
    BY <1>2, <1>4, CommitsKept DEF PublicationInv, Stored, IsExactCommit
  <1> SUFFICES /\ D \subseteq DOMAIN publications'
               /\ DOMAIN publications' \subseteq previews'
               /\ publications' \in [DOMAIN publications' -> Record]
               /\ \A q \in DOMAIN publications' : Good(q, publications'[q])
    BY DEF Stored, IsExactCommit, IsAncestor
  <1>5. CASE publications' = publications
    BY <1>1, <1>3, <1>4, <1>5
  <1>6. CASE Confirms
    <2>1. publications' = [q \in D \cup {p} |->
                             IF q = p
                             THEN [state |-> "confirmed", commit |-> NoCommit,
                                   ambiguous |-> FALSE]
                             ELSE publications[q]]
      BY <1>6 DEF Confirms, Confirm, Idle, At
    <2>2. p \in previews
      BY <1>6 DEF Confirms, Confirm, PublicationInv, Working
    <2>3. [state |-> "confirmed", commit |-> NoCommit, ambiguous |-> FALSE] \in Record
      BY DEF Record, States, NoCommit
    <2> QED  BY <1>1, <1>3, <1>4, <2>1, <2>2, <2>3
  <1>7. ASSUME NEW r \in Record, Good(p, r), p \in D,
               publications' = [publications EXCEPT ![p] = r]
        PROVE  /\ DOMAIN publications' = D
               /\ D \subseteq previews'
               /\ publications' \in [DOMAIN publications' -> Record]
               /\ \A q \in DOMAIN publications' : Good(q, publications'[q])
    BY <1>1, <1>3, <1>4, <1>7
  <1>8. p \in D => publications[p] \in Record
    BY <1>3
  <1>9. CASE Stops
    <2> DEFINE r == [publications[p] EXCEPT !.ambiguous = TRUE]
    <2>1. p \in D
      BY <1>9 DEF Stops, PublicationInv, Working
    <2>2. publications' = [publications EXCEPT ![p] = r]
      BY <1>9 DEF Stops, Latch
    <2>3. r \in Record /\ Good(p, r)
      BY <1>4, <1>8, <2>1 DEF Record
    <2> QED  BY <1>1, <1>3, <1>7, <2>1, <2>2, <2>3
  <1>10. CASE RecordCommit
    <2> DEFINE c == handler.commit
               r == [publications[p] EXCEPT !.state = "committed_pending_push",
                                            !.commit = c]
    <2>1. /\ p \in D /\ c \in DOMAIN commits /\ IsExactCommit(c, p)
          /\ publications[p].state = "confirmed"
      BY <1>10 DEF RecordCommit, PublicationInv, Working, Committing
    <2>2. publications' = [publications EXCEPT ![p] = r]
      BY <1>10, <1>3, <2>1 DEF RecordCommit
    <2>3. c \in Nat
      BY DEF PublicationInv, TypeOK
    <2>4. r \in Record /\ r.commit = c /\ r.state = "committed_pending_push"
      BY <1>8, <2>1, <2>3 DEF Record, States
    <2>5. Good(p, r)
      BY <1>2, <2>1, <2>4, CommitsKept DEF IsExactCommit
    <2> QED  BY <1>1, <1>3, <1>7, <2>1, <2>2, <2>4, <2>5
  <1>11. CASE Completes
    <2> DEFINE c == publications[p].commit
               r == [publications[p] EXCEPT !.state = "completed"]
    <2>1. /\ p \in D /\ publications[p].state # "confirmed"
          /\ IsAncestor(c, remote)
      BY <1>11 DEF Completes, PublicationInv, Working
    <2>2. publications' = [publications EXCEPT ![p] = r]
      BY <1>11 DEF Completes, Complete
    <2>3. r \in Record /\ r.commit = c /\ r.state = "completed"
      BY <1>8, <2>1 DEF Record, States
    <2>4. c \in DOMAIN commits /\ IsExactCommit(c, p)
      BY <2>1 DEF PublicationInv, Stored
    <2>5. Good(p, r)
      BY <1>2, <2>1, <2>3, <2>4, CommitsKept DEF IsExactCommit
    <2> QED  BY <1>1, <1>3, <1>7, <2>1, <2>2, <2>3, <2>5
  <1>12. Quiet \/ Elsewhere \/ Commits \/ Push => publications' = publications
    BY DEF Quiet, Elsewhere, Same, Commits, CommitExact, Push, recordVars
  <1> QED
    BY <1>5, <1>6, <1>9, <1>10, <1>11, <1>12, StepKinds DEF PublicationInv

LEMMA FamiliesStep ==
  ASSUME PublicationInv, [Next]_vars
  PROVE  /\ claims' \in [Families -> DOMAIN publications' \cup {NoPreview}]
         /\ receipts' \in [Families -> [preview : Preview, commit : Nat]]
  <1> DEFINE p == handler.preview
  <1>1. /\ claims \in [Families -> DOMAIN publications \cup {NoPreview}]
        /\ receipts \in [Families -> [preview : Preview, commit : Nat]]
        /\ p \in Preview /\ handler.commit \in Nat
    BY DEF PublicationInv, TypeOK
  <1>2. DOMAIN publications \subseteq DOMAIN publications'
    BY PublicationsStep
  <1>3. CASE UNCHANGED <<claims, receipts>>
    BY <1>1, <1>2, <1>3
  <1>4. CASE Confirms
    <2>1. /\ p \in DOMAIN publications' /\ receipts' = receipts
          /\ claims' = [f \in Families |->
                          IF f \in Accepted(p.batch) THEN p ELSE claims[f]]
      BY <1>4 DEF Confirms, Confirm, Idle, At
    <2> QED  BY <1>1, <1>2, <2>1
  <1>5. CASE RecordCommit
    <2>1. claims' = claims /\ receipts' = WithReceipts(p, handler.commit)
      BY <1>5 DEF RecordCommit
    <2> QED  BY <1>1, <1>2, <2>1 DEF WithReceipts
  <1>6. Quiet \/ Elsewhere \/ Commits \/ Stops \/ Push \/ Completes
          => UNCHANGED <<claims, receipts>>
    BY DEF Quiet, Elsewhere, Same, Commits, CommitExact, Stops, Push, Completes,
       recordVars
  <1> QED
    BY <1>3, <1>4, <1>5, <1>6, StepKinds DEF PublicationInv

(* At each checkpoint the request knows what Working says.                  *)
HandlerGood ==
  /\ handler' \in [step : Steps, preview : Preview, commit : Nat]
  /\ Working'

(* A request that goes on, or ends, at a step without promises.             *)
LEMMA HandlerRests ==
  ASSUME handler' \in [step : Steps, preview : Preview, commit : Nat],
         handler'.step \in {"idle", "down", "proving"}
  PROVE  HandlerGood
  BY DEF HandlerGood, Working, Committing, Pushing

LEMMA HandlerWaits ==
  ASSUME PublicationInv, [Next]_vars, handler' = handler,
         publications' = publications, previews' = previews
  PROVE  HandlerGood
  <1>1. handler \in [step : Steps, preview : Preview, commit : Nat]
    BY DEF PublicationInv, TypeOK
  <1>2. Extended /\ BatchesKept
    BY GitStep, ReviewStep DEF PublicationInv
  <1> DEFINE p == handler.preview  at == handler.step
             c == publications[p].commit
  <1>3. at = "planned" => p.batch \in DOMAIN batches'
    BY <1>2 DEF PublicationInv, Working, BatchesKept
  <1>4. at \in {"committed", "installing"} =>
          /\ handler.commit \in DOMAIN commits'
          /\ at = "committed" => IsExactCommit(handler.commit, p)'
    BY <1>2 DEF PublicationInv, Working, Extended, IsExactCommit
  <1>5. at = "pushed" => IsAncestor(c, remote)'
    BY <1>2 DEF PublicationInv, Working, Extended, IsAncestor
  <1> QED
    BY <1>1, <1>3, <1>4, <1>5 DEF HandlerGood, PublicationInv, Working

(* The steps of a request, from each checkpoint to the next.                *)
LEMMA WorkHandler ==
  ASSUME PublicationInv, Work, [Next]_vars
  PROVE  HandlerGood
  <1> DEFINE p == handler.preview
             c == handler.commit
             T == [step : Steps, preview : Preview, commit : Nat]
  <1> USE DEF At, Idle, Steps
  <1>1. /\ p \in Preview /\ c \in Nat /\ NoPreview \in Preview /\ NoCommit \in Nat
        /\ handler.step \in Steps /\ commits \in Seq(Commit)
        /\ head \in DOMAIN commits /\ remote \in DOMAIN commits
        /\ publications \in [DOMAIN publications -> Record] /\ Working /\ Stored
    BY DEF PublicationInv, TypeOK, GitTypeOK, Preview, NoPreview, NoCommit
  <1>2. DOMAIN commits \subseteq Nat
    BY <1>1
  <1>3. Extended
    BY GitStep
  <1>4. \A step \in Steps, n \in Nat, q \in Preview : At(step, q, n) \in T
    OBVIOUS
  <1>5. CASE FreezePreview
    BY <1>1, <1>4, <1>5, HandlerRests DEF FreezePreview
  <1>6. CASE Confirm
    <2>1. CASE handler' = At("confirmed", p, NoCommit)
      <3>1. /\ p \in DOMAIN publications'
            /\ publications'[p].state = "confirmed" /\ ~publications'[p].ambiguous
        BY <1>6, <2>1, <1>1 DEF Confirm
      <3> QED  BY <1>1, <2>1, <3>1 DEF HandlerGood, Working, Committing, Pushing
    <2>2. CASE handler' = Idle
      BY <1>1, <2>2, HandlerRests
    <2> QED  BY <1>6, <2>1, <2>2 DEF Confirm
  <1>7. CASE AdoptCommit
    <2>1. /\ handler' = At("committed", p, head) /\ IsExactCommit(head, p)
          /\ handler.step = "confirmed" /\ publications' = publications
          /\ commits' = commits
      BY <1>7 DEF AdoptCommit, Adoptable, recordVars
    <2> QED
      BY <1>1, <1>2, <2>1 DEF HandlerGood, Working, Committing, Pushing, IsExactCommit
  <1>8. CASE WriteFiles
    <2>1. /\ handler' \in {At("written", p, NoCommit), Idle}
          /\ handler.step = "confirmed" /\ publications' = publications
      BY <1>8 DEF WriteFiles, recordVars
    <2> QED
      BY <1>1, <2>1 DEF HandlerGood, Working, Committing, Pushing
  <1>9. CASE StopUncommitted
    BY <1>1, <1>9, HandlerRests DEF StopUncommitted
  <1>10. CASE CommitExact
    <2>1. CASE handler' = Idle
      BY <1>1, <2>1, HandlerRests
    <2>2. CASE ~(handler' = Idle)
      <3> DEFINE n == Len(commits) + 1
      <3>1. /\ handler.step = "written" /\ publications' = publications
            /\ head = p.base /\ commits' = WithCommit(head, p)
            /\ handler' = At("committed", p, Len(commits'))
        BY <1>10, <2>2 DEF CommitExact, recordVars
      <3>2. GitTypeOK /\ History
        BY DEF PublicationInv, TypeOK
      <3>3. /\ Len(commits') = n /\ DOMAIN commits' = DOMAIN commits \cup {n}
            /\ n \in Nat
            /\ commits'[n] = [parent |-> head, by |-> p,
                              past |-> commits[head].past \cup {n}]
        BY <1>1, <3>1, <3>2, NewCommit
      <3> HIDE DEF n
      <3> QED
        BY <1>1, <3>1, <3>3
        DEF HandlerGood, Working, Committing, Pushing, IsExactCommit
    <2> QED  BY <2>1, <2>2
  <1>11. CASE RecordCommit
    <2>1. /\ handler.step = "committed" /\ handler' = At("pending", p, NoCommit)
          /\ publications' = [publications EXCEPT
                                ![p].state = "committed_pending_push",
                                ![p].commit = c]
      BY <1>11 DEF RecordCommit
    <2>2. p \in DOMAIN publications /\ ~publications[p].ambiguous
      BY <1>1, <2>1 DEF Working, Committing
    <2>3. /\ p \in DOMAIN publications' /\ ~publications'[p].ambiguous
          /\ publications'[p].state = "committed_pending_push"
      BY <1>1, <2>1, <2>2 DEF Record
    <2> QED  BY <1>1, <2>1, <2>3 DEF HandlerGood, Working, Committing, Pushing
  <1>12. CASE CheckRemote
    <2>1. publications[p].commit \in Nat
      BY <1>1, <1>12 DEF CheckRemote, Working, Pushing, Record
    <2>2. CASE handler' = At("pushing", p, NoCommit)
      <3>1. handler.step = "pending"
        BY <1>12 DEF CheckRemote
      <3>2. publications' = publications
        BY <1>12, <2>2 DEF CheckRemote, Complete
      <3> QED
        BY <1>1, <2>2, <3>1, <3>2 DEF HandlerGood, Working, Committing, Pushing
    <2>3. CASE handler' \in {Idle, At("proving", p, publications[p].commit)}
      BY <1>1, <2>1, <2>3, HandlerRests
    <2> QED  BY <1>12, <2>2, <2>3 DEF CheckRemote, Complete
  <1>13. CASE Push
    <2>1. /\ handler' = At("pushed", p, NoCommit) /\ handler.step = "pushing"
          /\ publications' = publications /\ commits' = commits
          /\ remote' = publications[p].commit
      BY <1>13 DEF Push, recordVars
    <2>2. remote' \in DOMAIN commits
      BY <1>1, <2>1 DEF Working, Stored, Pushing
    <2>3. IsAncestor(publications[p].commit, remote)'
      BY <2>1, <2>2 DEF PublicationInv, History, IsAncestor
    <2> QED
      BY <1>1, <2>1, <2>3 DEF HandlerGood, Working, Committing, Pushing
  <1>14. CASE PushRaced
    BY <1>1, <1>14, HandlerRests DEF PushRaced
  <1>15. CASE CompletePush
    <2>1. publications[p].commit \in Nat
      BY <1>1, <1>15 DEF CompletePush, Working, Pushing, Record
    <2>2. handler' = At("proving", p, publications[p].commit)
      BY <1>15 DEF CompletePush, Complete
    <2> QED  BY <1>1, <2>1, <2>2, HandlerRests
  <1>16. CASE Prove
    <2>1. CASE handler' = Idle
      BY <1>1, <2>1, HandlerRests
    <2>2. CASE ~(handler' = Idle)
      <3>1. /\ handler' = At("installing", p, c) /\ c = head /\ commits' = commits
        BY <1>16, <2>2 DEF Prove, Proven, gitVars
      <3> QED
        BY <1>1, <3>1 DEF HandlerGood, Working, Committing, Pushing
    <2> QED  BY <2>1, <2>2
  <1>17. CASE Install
    BY <1>1, <1>17, HandlerRests DEF Install
  <1> QED
    BY <1>5, <1>6, <1>7, <1>8, <1>9, <1>10, <1>11, <1>12, <1>13, <1>14, <1>15,
       <1>16, <1>17 DEF Work

LEMMA HandlerStep ==
  ASSUME PublicationInv, [Next]_vars
  PROVE  HandlerGood
  <1> DEFINE c == handler.commit
             T == [step : Steps, preview : Preview, commit : Nat]
             Waits == handler' = handler /\ publications' = publications
                        /\ previews' = previews
  <1> USE DEF At, Idle, Down, Steps
  <1>1. /\ handler \in T /\ head \in DOMAIN commits /\ NoCommit \in Nat
        /\ head \in Nat /\ NoPreview \in Preview
        /\ DOMAIN publications \subseteq previews /\ previews \subseteq Preview
        /\ publications \in [DOMAIN publications -> Record]
    BY DEF PublicationInv, TypeOK, GitTypeOK, Preview, NoPreview, NoCommit
  <1>2. CASE Work
    BY <1>2, WorkHandler
  <1>3. CASE Fault
    BY <1>1, <1>3, HandlerRests DEF Fault, InstallFails, Crash, GitFails
  <1>4. CASE Others \/ Review \/ FetchOnly \/ UNCHANGED vars
    <2>1. Waits
      BY <1>4 DEF Others, Review, FetchOnly, vars, recordVars
    <2> QED  BY <2>1, HandlerWaits
  <1>5. CASE Startup
    <2>1. CASE handler' = Idle
      BY <1>1, <2>1, HandlerRests
    <2>2. CASE ~(handler' = Idle)
      <3>1. handler' = At("installing", NoPreview, head) /\ commits' = commits
        BY <1>5, <2>2 DEF Startup
      <3> QED
        BY <1>1, <3>1 DEF HandlerGood, Working, Committing, Pushing
    <2> QED  BY <2>1, <2>2
  <1>6. ASSUME NEW b \in DOMAIN batches, PlanPreview(b) PROVE HandlerGood
    <2> DEFINE p == [batch |-> b, base |-> head]
    <2>1. handler' = At("planned", p, NoCommit) /\ batches' = batches
      BY <1>6 DEF PlanPreview, reviewVars
    <2>2. p \in Preview
      BY <1>1 DEF PublicationInv, TypeOK, ReviewTypeOK, Preview
    <2> QED
      BY <1>1, <2>1, <2>2 DEF HandlerGood, Working, Committing, Pushing
  <1>7. ASSUME NEW p \in previews, CheckConfirm(p) PROVE HandlerGood
    <2>1. /\ handler' = At("checked", p, NoCommit) /\ p \notin DOMAIN publications
          /\ previews' = previews /\ publications' = publications
      BY <1>7 DEF CheckConfirm, recordVars
    <2> QED
      BY <1>1, <2>1 DEF HandlerGood, Working, Committing, Pushing
  <1>8. ASSUME NEW p \in DOMAIN publications, Resume(p) PROVE HandlerGood
    <2> DEFINE r == publications[p]
    <2>1. ~r.ambiguous /\ publications' = publications /\ r \in Record
      BY <1>1, <1>8 DEF Resume, recordVars
    <2>2. r.state \in States /\ r.commit \in Nat
      BY <2>1 DEF Record
    <2>3. CASE r.state = "confirmed"
      <3>1. handler' = At("confirmed", p, NoCommit)
        BY <1>8, <2>3 DEF Resume
      <3> QED
        BY <1>1, <2>1, <2>3, <3>1 DEF HandlerGood, Working, Committing, Pushing
    <2>4. CASE r.state = "committed_pending_push"
      <3>1. handler' = At("pending", p, NoCommit)
        BY <1>8, <2>4 DEF Resume
      <3> QED
        BY <1>1, <2>1, <2>4, <3>1 DEF HandlerGood, Working, Committing, Pushing
    <2>5. CASE r.state = "completed"
      <3>1. handler' = At("proving", p, r.commit)
        BY <1>8, <2>5 DEF Resume
      <3> QED  BY <1>1, <2>2, <3>1, HandlerRests
    <2> QED  BY <2>2, <2>3, <2>4, <2>5 DEF States
  <1> QED
    BY <1>2, <1>3, <1>4, <1>5, <1>6, <1>7, <1>8 DEF Next

-----------------------------------------------------------------------------
(* The invariant                                                            *)

LEMMA InvInit == Init => PublicationInv
  <1> SUFFICES ASSUME Init PROVE PublicationInv
    OBVIOUS
  <1> USE DEF Init, ReviewInit, GitInit, ProjectionInit
  <1>1. ReviewTypeOK
    <2>1. NoItems \in Items
      <3>1. NoItems \in [{} -> Item]
        BY DEF NoItems
      <3> QED  BY <3>1 DEF Items
    <2> QED
      BY <2>1 DEF ReviewTypeOK, EmptyDraft, Draft
  <1>2. /\ commits \in Seq(Commit) /\ DOMAIN commits = {1}
        /\ commits[1] = [parent |-> 0, by |-> NoPreview, past |-> {1}]
    BY DEF Commit, Preview, NoPreview
  <1>3. GitTypeOK /\ History
    BY <1>2 DEF GitTypeOK, History, Preview, NoPreview
  <1>4. ProjectionTypeOK
    BY DEF ProjectionTypeOK, Projection, NoCommit
  <1>5. TypeOK
    BY <1>1, <1>3, <1>4 DEF TypeOK, Preview, NoPreview, NoReceipt, NoCommit,
       Down, At, Steps
  <1>6. OfBatches /\ Stored /\ Working
    BY DEF OfBatches, Stored, Working, Down, At, Committing, Pushing
  <1> QED
    BY <1>3, <1>5, <1>6 DEF PublicationInv

LEMMA InvStep == PublicationInv /\ [Next]_vars => PublicationInv'
  <1> SUFFICES ASSUME PublicationInv, [Next]_vars PROVE PublicationInv'
    OBVIOUS
  <1>1. ReviewTypeOK' /\ BatchesKept
    BY ReviewStep DEF PublicationInv
  <1>2. GitTypeOK' /\ History'
    BY GitStep
  <1>3. ProjectionTypeOK'
    BY ProjectionStep
  <1>4. previews' \subseteq Preview /\ OfBatches'
    BY <1>1, PreviewsStep
    DEF PublicationInv, TypeOK, OfBatches, Working, BatchesKept
  <1>5. faults' \in Nat
    <2>1. faults' \in {faults, faults + 1}
      <3> USE DEF gitVars, recordVars
      <3>1. FreezePreview \/ Confirm \/ AdoptCommit \/ WriteFiles
              \/ StopUncommitted \/ CommitExact \/ RecordCommit \/ CheckRemote
              => faults' = faults
        BY DEF FreezePreview, Confirm, AdoptCommit, WriteFiles, StopUncommitted,
           CommitExact, RecordCommit, CheckRemote
      <3>2. Push \/ PushRaced \/ CompletePush \/ Prove \/ Install \/ Others
              \/ Review \/ Startup \/ FetchOnly
              => faults' = faults
        BY DEF Push, PushRaced, CompletePush, Prove, Install, Others, Review,
           Startup, FetchOnly
      <3>3. Fault => faults' = faults + 1
        BY DEF Fault, InstallFails, Crash, GitFails
      <3>4. ASSUME NEW x, PlanPreview(x) \/ CheckConfirm(x) \/ Resume(x)
            PROVE  faults' = faults
        BY <3>4 DEF PlanPreview, CheckConfirm, Resume
      <3> QED
        BY <3>1, <3>2, <3>3, <3>4 DEF Next, Work, vars
    <2> QED  BY <2>1 DEF PublicationInv, TypeOK
  <1> QED
    BY <1>1, <1>2, <1>3, <1>4, <1>5, PublicationsStep, FamiliesStep, HandlerStep
    DEF PublicationInv, TypeOK, HandlerGood

(* In every reachable state, whatever the sets of families and saves and the *)
(* bounds are, the request in progress, the records and the commit graph     *)
(* agree about what has happened.                                           *)
THEOREM PublicationInvariant == Spec => []PublicationInv
  BY InvInit, InvStep, PTL DEF Spec

(* The state has its types.                                                 *)
THEOREM PublicationTypeCorrect == Spec => []TypeOK
  <1>1. PublicationInv => TypeOK
    BY DEF PublicationInv
  <1> QED
    BY <1>1, PublicationInvariant, PTL

(* Success is claimed only for the preview's exact commit on the remote.    *)
THEOREM CompletedCorrect == Spec => []CompletedIsOnMain
  <1>1. PublicationInv => CompletedIsOnMain
    BY DEF PublicationInv, Stored, CompletedIsOnMain
  <1> QED
    BY <1>1, PublicationInvariant, PTL

(* Central never overwrites anybody's commit on the remote main.            *)
THEOREM PushesCorrect == Spec => PushesOverBase
  <1> DEFINE OverBase ==
        remote' # remote /\ commits'[remote'].by # NoPreview =>
          LET p == commits'[remote'].by
          IN  /\ p.base = remote
              /\ commits'[remote'].parent = remote
              /\ publications[p].state = "committed_pending_push"
              /\ ~publications[p].ambiguous
  <1>1. PublicationInv /\ [Next]_vars => [OverBase]_vars
    <2> SUFFICES ASSUME PublicationInv, [Next]_vars, remote' # remote
                 PROVE  OverBase
      BY DEF vars, gitVars
    <2>1. CASE Push
      <3> DEFINE p == handler.preview  c == publications[p].commit
      <3>1. /\ commits' = commits /\ remote' = c /\ remote = p.base
            /\ handler.step \in Pushing
        BY <2>1 DEF Push, Pushing
      <3>2. /\ IsExactCommit(c, p) /\ ~publications[p].ambiguous
            /\ publications[p].state = "committed_pending_push"
        BY <3>1 DEF PublicationInv, Working, Stored
      <3> QED  BY <3>1, <3>2 DEF IsExactCommit
    <2>2. CASE ForeignPush
      <3>1. /\ GitTypeOK /\ History /\ remote \in DOMAIN commits
            /\ NoPreview \in Preview
        BY DEF PublicationInv, TypeOK, GitTypeOK, Preview, NoPreview
      <3>2. commits' = WithCommit(remote, NoPreview) /\ remote' = Len(commits')
        BY <2>2 DEF ForeignPush
      <3> DEFINE n == Len(commits) + 1
      <3>3. /\ Len(commits') = n
            /\ commits'[n] = [parent |-> remote, by |-> NoPreview,
                              past |-> commits[remote].past \cup {n}]
        BY <3>1, <3>2, NewCommit
      <3> HIDE DEF n
      <3> QED  BY <3>2, <3>3
    <2>3. OperatorPull \/ Quiet \/ Confirms \/ Commits \/ RecordCommit \/ Stops
            \/ Completes => remote' = remote
      BY DEF OperatorPull, Quiet, Confirms, Confirm, Commits, CommitExact,
         RecordCommit, Stops, Completes, gitVars
    <2> QED
      BY <2>1, <2>2, <2>3, StepKinds DEF PublicationInv, Elsewhere
  <1> QED
    BY <1>1, PublicationInvariant, PTL DEF Spec, PushesOverBase

-----------------------------------------------------------------------------
(* Safety: a Candidate becomes at most one Decision, whatever is on the      *)
(* remote main is on record at Central, and the served read model is never  *)
(* stale.                                                                   *)

(* Every commit of a preview was made over its base, once, by Central, for   *)
(* a stored publication; and Central's main never loses it.                 *)
CentralCommits ==
  \A i \in DOMAIN commits : commits[i].by # NoPreview =>
    LET p == commits[i].by
    IN  /\ p \in DOMAIN publications
        /\ commits[i].parent = p.base
        /\ i \in commits[head].past
        /\ \A j \in DOMAIN commits : commits[j].by = p => j = i

(* A stored publication has claimed its families, which have no receipt      *)
(* before its commit is recorded and all have one afterwards.               *)
Claimed ==
  /\ \A p \in DOMAIN publications : \A f \in Accepted(p.batch) :
       LET r == publications[p]
       IN  /\ claims[f] = p
           /\ r.state = "confirmed" => receipts[f] = NoReceipt
           /\ r.state # "confirmed" =>
                receipts[f] = [preview |-> p, commit |-> r.commit]
  /\ \A f \in Families : receipts[f] # NoReceipt =>
       claims[f] \in DOMAIN publications /\ f \in Accepted(claims[f].batch)

(* What is about to be served, or is served, is the tree of a commit that    *)
(* the remote main has, with everything that was completed.                 *)
Projected ==
  /\ origin \in commits[remote].past
  /\ handler.step = "installing" =>
       /\ handler.commit \in commits[remote].past
       /\ \A i \in DOMAIN commits : commits[i].by # NoPreview =>
            i \in commits[handler.commit].past
  /\ projection.state = "available" =>
       /\ projection.active \in commits[remote].past
       /\ projection.tree = Tree(projection.active)
       /\ handler.step \notin {"down", "proving"} =>
            \A p \in DOMAIN publications :
              publications[p].state = "completed" => p \in projection.tree

SafetyInv ==
  /\ PublicationInv /\ CentralCommits /\ Claimed /\ MainIsRecorded /\ Projected

-----------------------------------------------------------------------------
(* Commits                                                                  *)

LEMMA AcceptedFamilies ==
  ASSUME ReviewTypeOK, NEW b \in DOMAIN batches
  PROVE  Accepted(b) \subseteq Families
  <1>1. batches[b] \in Items
    BY DEF ReviewTypeOK
  <1> QED
    BY <1>1 DEF Items, Accepted

(* What a push of others and a commit of Central add.                       *)
LEMMA ForeignCommit ==
  ASSUME PublicationInv, ForeignPush
  PROVE  LET n == Len(commits) + 1
         IN  /\ DOMAIN commits' = DOMAIN commits \cup {n}
             /\ n \notin DOMAIN commits /\ remote' = n /\ head' = head
             /\ \A i \in DOMAIN commits : commits'[i] = commits[i]
             /\ commits'[n] = [parent |-> remote, by |-> NoPreview,
                               past |-> commits[remote].past \cup {n}]
  <1> DEFINE n == Len(commits) + 1
  <1>1. /\ GitTypeOK /\ History /\ remote \in DOMAIN commits
        /\ NoPreview \in Preview
    BY DEF PublicationInv, TypeOK, GitTypeOK, Preview, NoPreview
  <1>2. /\ commits' = WithCommit(remote, NoPreview) /\ remote' = Len(commits')
        /\ head' = head
    BY DEF ForeignPush
  <1>3. /\ DOMAIN commits' = DOMAIN commits \cup {n} /\ Len(commits') = n
        /\ n \notin DOMAIN commits
        /\ \A i \in DOMAIN commits : commits'[i] = commits[i]
        /\ commits'[n] = [parent |-> remote, by |-> NoPreview,
                          past |-> commits[remote].past \cup {n}]
    BY <1>1, <1>2, NewCommit
  <1> HIDE DEF n
  <1>4. remote' = n
    BY <1>2, <1>3
  <1> QED
    BY <1>2, <1>3, <1>4 DEF n

LEMMA CentralCommit ==
  ASSUME PublicationInv, Commits
  PROVE  LET n == Len(commits) + 1
         IN  /\ DOMAIN commits' = DOMAIN commits \cup {n}
             /\ n \notin DOMAIN commits /\ head' = n /\ remote' = remote
             /\ \A i \in DOMAIN commits : commits'[i] = commits[i]
             /\ commits'[n] = [parent |-> head, by |-> handler.preview,
                               past |-> commits[head].past \cup {n}]
             /\ handler.preview.base = head
             /\ handler.preview \in DOMAIN publications
  <1> DEFINE n == Len(commits) + 1
             p == handler.preview
  <1>1. GitTypeOK /\ History /\ head \in DOMAIN commits /\ p \in Preview
    BY DEF PublicationInv, TypeOK, GitTypeOK
  <1>2. /\ commits' = WithCommit(head, p) /\ head' = Len(commits')
        /\ p.base = head /\ handler.step = "written" /\ remote' = remote
    BY DEF Commits, CommitExact, Idle, At
  <1>3. /\ DOMAIN commits' = DOMAIN commits \cup {n} /\ Len(commits') = n
        /\ n \notin DOMAIN commits
        /\ \A i \in DOMAIN commits : commits'[i] = commits[i]
        /\ commits'[n] = [parent |-> head, by |-> p,
                          past |-> commits[head].past \cup {n}]
    BY <1>1, <1>2, NewCommit
  <1>4. p \in DOMAIN publications
    BY <1>2 DEF PublicationInv, Working, Committing
  <1> HIDE DEF n
  <1>5. head' = n
    BY <1>2, <1>3
  <1> QED
    BY <1>2, <1>3, <1>4, <1>5 DEF n

LEMMA CommitKinds ==
  ASSUME PublicationInv, [Next]_vars
  PROVE  \/ commits' = commits
         \/ ForeignPush /\ Same /\ handler' = handler
         \/ Commits
  <1>1. Quiet \/ OperatorPull \/ Confirms \/ RecordCommit \/ Stops \/ Push
          \/ Completes => commits' = commits
    BY DEF Quiet, OperatorPull, Confirms, Confirm, RecordCommit, Stops, Push,
       Completes, gitVars
  <1> QED
    BY <1>1, StepKinds DEF PublicationInv, Elsewhere

(* Main only moves forward.                                                 *)
LEMMA HeadStep ==
  ASSUME PublicationInv, [Next]_vars
  PROVE  commits[head].past \subseteq commits'[head'].past
  <1>1. CASE commits' = commits /\ head' = head
    BY <1>1
  <1>2. CASE OperatorPull
    BY <1>2 DEF OperatorPull, IsAncestor, PublicationInv, History, TypeOK, GitTypeOK
  <1>3. CASE ForeignPush
    <2>1. head' = head /\ head \in DOMAIN commits
      BY <1>3 DEF ForeignPush, PublicationInv, TypeOK, GitTypeOK
    <2>2. Extended
      BY GitStep
    <2> QED  BY <2>1, <2>2 DEF Extended
  <1>4. CASE Commits
    <2> DEFINE n == Len(commits) + 1
    <2>1. head' = n /\ commits'[n].past = commits[head].past \cup {n}
      BY <1>4, CentralCommit
    <2> HIDE DEF n
    <2> QED  BY <2>1
  <1>5. Quiet \/ Confirms \/ RecordCommit \/ Stops \/ Push \/ Completes
          => commits' = commits /\ head' = head
    BY DEF Quiet, Confirms, Confirm, RecordCommit, Stops, Push, Completes, gitVars
  <1> QED
    BY <1>1, <1>2, <1>3, <1>4, <1>5, StepKinds DEF PublicationInv, Elsewhere

LEMMA CentralCommitsStep ==
  ASSUME PublicationInv, CentralCommits, [Next]_vars
  PROVE  CentralCommits'
  <1> DEFINE p == handler.preview
  <1>1. /\ DOMAIN publications \subseteq DOMAIN publications'
        /\ commits[head].past \subseteq commits'[head'].past
    BY PublicationsStep, HeadStep
  <1>2. CASE commits' = commits
    BY <1>1, <1>2 DEF CentralCommits
  <1>3. CASE ForeignPush
    <2> DEFINE n == Len(commits) + 1
    <2>1. /\ DOMAIN commits' = DOMAIN commits \cup {n}
          /\ \A i \in DOMAIN commits : commits'[i] = commits[i]
          /\ commits'[n].by = NoPreview
      BY <1>3, ForeignCommit
    <2> HIDE DEF n
    <2> QED  BY <1>1, <2>1 DEF CentralCommits
  <1>4. CASE Commits
    <2> DEFINE n == Len(commits) + 1
    <2>1. /\ DOMAIN commits' = DOMAIN commits \cup {n} /\ head' = n
          /\ \A i \in DOMAIN commits : commits'[i] = commits[i]
          /\ commits'[n] = [parent |-> head, by |-> p,
                            past |-> commits[head].past \cup {n}]
          /\ p.base = head /\ p \in DOMAIN publications
      BY <1>4, CentralCommit
    <2> HIDE DEF n
    <2>2. \A i \in DOMAIN commits : commits[i].by # p
      <3> SUFFICES ASSUME NEW i \in DOMAIN commits, commits[i].by = p PROVE FALSE
        OBVIOUS
      <3>1. p # NoPreview
        BY <2>1 DEF PublicationInv, TypeOK, OfBatches, ReviewTypeOK, NoPreview
      <3>2. i \in commits[head].past /\ commits[i].parent = head
        BY <2>1, <3>1 DEF CentralCommits
      <3>3. head < i /\ i \in 1 .. head
        BY <3>2 DEF PublicationInv, History, TypeOK, GitTypeOK
      <3>4. head \in Nat /\ i \in Nat
        BY DEF PublicationInv, TypeOK, GitTypeOK
      <3> QED  BY <3>3, <3>4
    <2>3. ASSUME NEW i \in DOMAIN commits', commits'[i].by # NoPreview
          PROVE  /\ commits'[i].by \in DOMAIN publications'
                 /\ commits'[i].parent = commits'[i].by.base
                 /\ i \in commits'[head'].past
                 /\ \A j \in DOMAIN commits' : commits'[j].by = commits'[i].by => j = i
      <3>1. CASE i = n
        BY <1>1, <2>1, <2>2, <3>1
      <3>2. CASE i \in DOMAIN commits
        BY <1>1, <2>1, <2>2, <2>3, <3>2 DEF CentralCommits
      <3> QED  BY <2>1, <3>1, <3>2
    <2> QED  BY <2>3 DEF CentralCommits
  <1> QED
    BY <1>2, <1>3, <1>4, CommitKinds

-----------------------------------------------------------------------------
(* Publications, claims and receipts                                        *)

(* A publication's commit changes only when it is recorded.                 *)
Records(p) ==
  /\ RecordCommit /\ p = handler.preview
  /\ publications[p].state = "confirmed"
  /\ publications'[p] = [publications[p] EXCEPT
                           !.state = "committed_pending_push",
                           !.commit = handler.commit]

LEMMA PublicationKinds ==
  ASSUME PublicationInv, [Next]_vars, NEW q \in DOMAIN publications
  PROVE  \/ publications'[q] = publications[q]
         \/ Records(q)
         \/ /\ Stops /\ ~publications[q].ambiguous
            /\ publications'[q] = [publications[q] EXCEPT !.ambiguous = TRUE]
         \/ /\ Completes /\ ~publications[q].ambiguous
            /\ publications[q].state = "committed_pending_push"
            /\ publications'[q] = [publications[q] EXCEPT !.state = "completed"]
  <1> DEFINE p == handler.preview
  <1>1. publications \in [DOMAIN publications -> Record]
    BY DEF PublicationInv, TypeOK
  <1>2. CASE Confirms
    <2>1. q # p
      BY <1>2 DEF Confirms, Confirm, PublicationInv, Working
    <2> QED  BY <1>2, <2>1 DEF Confirms, Confirm, Idle, At
  <1>3. CASE RecordCommit
    <2>1. /\ publications[p].state = "confirmed" /\ p \in DOMAIN publications
      BY <1>3 DEF RecordCommit, PublicationInv, Working, Committing
    <2> QED  BY <1>1, <1>3, <2>1 DEF RecordCommit, Records
  <1>4. CASE Stops
    <2>1. ~publications[p].ambiguous /\ p \in DOMAIN publications
      BY <1>4 DEF Stops, PublicationInv, Working
    <2> QED  BY <1>1, <1>4, <2>1 DEF Stops, Latch
  <1>5. CASE Completes
    <2>1. /\ ~publications[p].ambiguous /\ p \in DOMAIN publications
          /\ publications[p].state = "committed_pending_push"
      BY <1>5 DEF Completes, PublicationInv, Working
    <2> QED  BY <1>1, <1>5, <2>1 DEF Completes, Complete
  <1>6. Quiet \/ Elsewhere \/ Commits \/ Push => publications' = publications
    BY DEF Quiet, Elsewhere, Same, Commits, CommitExact, Push, recordVars
  <1> QED
    BY <1>2, <1>3, <1>4, <1>5, <1>6, StepKinds DEF PublicationInv

LEMMA AcceptedKept ==
  ASSUME BatchesKept, NEW b \in DOMAIN batches
  PROVE  Accepted(b)' = Accepted(b)
  BY DEF BatchesKept, Accepted

(* A new publication finds its families unclaimed and without receipt.      *)
LEMMA ConfirmedFamilies ==
  ASSUME PublicationInv, Confirms
  PROVE  LET p == handler.preview
         IN  /\ p \in previews \ DOMAIN publications
             /\ DOMAIN publications' = DOMAIN publications \cup {p}
             /\ publications'[p].state = "confirmed"
             /\ \A q \in DOMAIN publications : publications'[q] = publications[q]
             /\ \A f \in Accepted(p.batch) :
                  claims[f] = NoPreview /\ receipts[f] = NoReceipt
             /\ claims' = [f \in Families |->
                             IF f \in Accepted(p.batch) THEN p ELSE claims[f]]
             /\ receipts' = receipts
  <1> DEFINE p == handler.preview
  <1>1. p \in previews /\ p \notin DOMAIN publications /\ p.batch \in DOMAIN batches
    BY DEF Confirms, Confirm, PublicationInv, Working, OfBatches
  <1>2. /\ Revalidated(p) /\ Claimable(p) /\ receipts' = receipts
        /\ claims' = [f \in Families |->
                        IF f \in Accepted(p.batch) THEN p ELSE claims[f]]
        /\ publications' =
             [q \in DOMAIN publications \cup {p} |->
                IF q = p
                THEN [state |-> "confirmed", commit |-> NoCommit,
                      ambiguous |-> FALSE]
                ELSE publications[q]]
    BY DEF Confirms, Confirm, Idle, At
  <1>3. \A f \in Accepted(p.batch) : f \in Families
    BY <1>1, AcceptedFamilies DEF PublicationInv, TypeOK
  <1>4. \A f \in Accepted(p.batch) : claims[f] = NoPreview
    BY <1>1, <1>2, <1>3 DEF Claimable, PublicationInv, TypeOK
  <1>5. \A f \in Accepted(p.batch) : receipts[f] = NoReceipt
    BY <1>2 DEF Revalidated, ReviewIsCurrent
  <1> QED
    BY <1>1, <1>2, <1>4, <1>5

LEMMA ClaimedStep ==
  ASSUME PublicationInv, Claimed, [Next]_vars
  PROVE  Claimed'
  <1> DEFINE p == handler.preview
             D == DOMAIN publications
             Good(q) ==
               \A f \in Accepted(q.batch) :
                 /\ claims'[f] = q
                 /\ publications'[q].state = "confirmed" => receipts'[f] = NoReceipt
                 /\ publications'[q].state # "confirmed" =>
                      receipts'[f] = [preview |-> q, commit |-> publications'[q].commit]
             Owned(f) == receipts'[f] # NoReceipt =>
                           claims'[f] \in DOMAIN publications'
                             /\ f \in Accepted(claims'[f].batch)
  <1>1. /\ D \subseteq DOMAIN publications' /\ DOMAIN publications' \subseteq previews'
        /\ publications \in [D -> Record]
    BY PublicationsStep DEF PublicationInv, TypeOK
  <1>2. BatchesKept /\ ReviewTypeOK
    BY ReviewStep DEF PublicationInv, TypeOK
  <1>3. \A q \in previews : q.batch \in DOMAIN batches
    BY DEF PublicationInv, OfBatches
  <1>4. \A q \in previews : Accepted(q.batch)' = Accepted(q.batch)
    BY <1>2, <1>3, AcceptedKept
  <1>5. \A q \in D : \A f \in Accepted(q.batch) : f \in Families
    BY <1>2, <1>3, AcceptedFamilies DEF PublicationInv, TypeOK
  <1> DEFINE Goal == /\ DOMAIN publications' \subseteq previews
                     /\ \A q \in DOMAIN publications' : Good(q)
                     /\ \A f \in Families : Owned(f)
  <1> SUFFICES Goal
    BY <1>4 DEF Claimed
  <1>6. ASSUME claims' = claims, receipts' = receipts, DOMAIN publications' = D,
               \A q \in D : /\ publications'[q].commit = publications[q].commit
                            /\ publications'[q].state = "confirmed" <=>
                                 publications[q].state = "confirmed"
        PROVE  Goal
    BY <1>6 DEF Claimed, PublicationInv, TypeOK
  <1>7. CASE Confirms
    <2>1. /\ p \in previews \ D
          /\ DOMAIN publications' = D \cup {p}
          /\ publications'[p].state = "confirmed"
          /\ \A q \in D : publications'[q] = publications[q]
          /\ \A f \in Accepted(p.batch) :
               claims[f] = NoPreview /\ receipts[f] = NoReceipt
          /\ claims' = [f \in Families |->
                          IF f \in Accepted(p.batch) THEN p ELSE claims[f]]
          /\ receipts' = receipts
      BY <1>7, ConfirmedFamilies
    <2>2. \A f \in Accepted(p.batch) : f \in Families
      BY <1>2, <1>3, <2>1, AcceptedFamilies
    <2>3. \A q \in D : q # NoPreview
      BY <1>2, <1>3 DEF PublicationInv, TypeOK, NoPreview, ReviewTypeOK
    <2>4. Good(p)
      BY <2>1, <2>2
    <2>5. ASSUME NEW q \in D PROVE Good(q)
      <3>1. \A f \in Accepted(q.batch) : claims[f] = q /\ f \notin Accepted(p.batch)
        <4>1. \A f \in Accepted(q.batch) : claims[f] = q
          BY DEF Claimed
        <4>2. \A f \in Accepted(p.batch) : claims[f] = NoPreview
          BY <2>1
        <4> QED  BY <2>3, <4>1, <4>2
      <3> QED  BY <1>5, <2>1, <3>1 DEF Claimed
    <2>6. ASSUME NEW f \in Families PROVE Owned(f)
      BY <2>1 DEF Claimed
    <2> QED  BY <2>1, <2>4, <2>5, <2>6 DEF PublicationInv, TypeOK
  <1>8. CASE RecordCommit
    <2> DEFINE c == handler.commit
    <2>1. /\ p \in D /\ claims' = claims /\ DOMAIN publications' = D
          /\ receipts' = [f \in Families |->
                            IF f \in Accepted(p.batch)
                            THEN [preview |-> p, commit |-> c] ELSE receipts[f]]
      BY <1>8 DEF RecordCommit, WithReceipts, PublicationInv, Working, Committing
    <2> DEFINE r == [publications[p] EXCEPT !.state = "committed_pending_push",
                                            !.commit = c]
    <2>2. publications'[p].state # "confirmed" /\ publications'[p].commit = c
      <3>1. publications' = [publications EXCEPT ![p] = r]
        BY <1>1, <1>8, <2>1 DEF RecordCommit
      <3>2. r.state = "committed_pending_push" /\ r.commit = c
        BY <1>1, <2>1 DEF Record
      <3> QED  BY <1>1, <2>1, <3>1, <3>2
    <2>3. \A q \in D : q # p => publications'[q] = publications[q]
      BY <1>1, <1>8 DEF RecordCommit
    <2>4. Good(p)
      BY <1>5, <2>1, <2>2 DEF Claimed
    <2>5. ASSUME NEW q \in D, q # p PROVE Good(q)
      <3>1. \A f \in Accepted(q.batch) : claims[f] = q /\ f \notin Accepted(p.batch)
        BY <2>1, <2>5 DEF Claimed
      <3> QED  BY <1>5, <2>1, <2>3, <2>5, <3>1 DEF Claimed
    <2>6. ASSUME NEW f \in Families PROVE Owned(f)
      BY <1>1, <2>1 DEF Claimed
    <2> HIDE DEF Good, Owned
    <2> QED  BY <2>1, <2>4, <2>5, <2>6 DEF PublicationInv, TypeOK
  <1>9. CASE Quiet \/ Elsewhere \/ Commits \/ Push
    <2>1. Same
      BY <1>9 DEF Quiet, Elsewhere, Same, Commits, CommitExact, Push, recordVars
    <2> QED  BY <1>6, <2>1 DEF Same
  <1>10. CASE Stops
    <2>1. claims' = claims /\ receipts' = receipts
      BY <1>10 DEF Stops
    <2>2. publications' = [publications EXCEPT ![p].ambiguous = TRUE]
      BY <1>10 DEF Stops, Latch
    <2>3. /\ DOMAIN publications' = D
          /\ \A q \in D : /\ publications'[q].commit = publications[q].commit
                          /\ publications'[q].state = publications[q].state
      BY <1>1, <2>2 DEF Record
    <2> QED  BY <1>6, <2>1, <2>3
  <1>11. CASE Completes
    <2>1. claims' = claims /\ receipts' = receipts
      BY <1>11 DEF Completes
    <2>2. publications' = [publications EXCEPT ![p].state = "completed"]
      BY <1>11 DEF Completes, Complete
    <2>3. publications[p].state = "committed_pending_push"
      BY <1>11 DEF Completes, PublicationInv, Working
    <2>4. /\ DOMAIN publications' = D
          /\ \A q \in D : /\ publications'[q].commit = publications[q].commit
                          /\ publications'[q].state = "confirmed" <=>
                               publications[q].state = "confirmed"
      BY <1>1, <2>2, <2>3 DEF Record
    <2> QED  BY <1>6, <2>1, <2>4
  <1> QED
    BY <1>7, <1>8, <1>9, <1>10, <1>11, StepKinds DEF PublicationInv

(* Whatever the remote main holds of Central was recorded before.           *)
LEMMA RecordedCommit ==
  ASSUME PublicationInv, MainIsRecorded, [Next]_vars,
         NEW i \in commits'[remote'].past, commits'[i].by # NoPreview
  PROVE  /\ commits'[i].by \in DOMAIN publications'
         /\ publications'[commits'[i].by].commit = i
  <1>1. /\ Extended /\ DOMAIN publications \subseteq DOMAIN publications'
    BY GitStep, PublicationsStep
  <1>2. /\ remote \in DOMAIN commits /\ GitTypeOK /\ History /\ Stored
        /\ DOMAIN commits = 1 .. Len(commits) /\ Len(commits) \in Nat
    BY DEF PublicationInv, TypeOK, GitTypeOK
  <1>3. commits[remote].past \subseteq DOMAIN commits
    BY <1>2 DEF History
  <1>4. CASE i \in commits[remote].past
    <2> DEFINE p == commits[i].by
    <2>1. i \in DOMAIN commits /\ commits'[i] = commits[i] /\ p # NoPreview
      BY <1>1, <1>3, <1>4 DEF Extended
    <2>2. p \in DOMAIN publications /\ publications[p].commit = i
      BY <1>4, <2>1 DEF MainIsRecorded
    <2>3. i # NoCommit /\ publications[p] \in Record
      BY <1>2, <2>1, <2>2 DEF NoCommit, PublicationInv, TypeOK
    <2>4. publications[p].state # "confirmed"
      BY <1>2, <2>2, <2>3 DEF Stored
    <2>5. publications'[p].commit = publications[p].commit
      BY <2>2, <2>3, <2>4, PublicationKinds DEF Records, Record
    <2> QED  BY <1>1, <2>1, <2>2, <2>5
  <1>5. CASE ForeignPush
    <2> DEFINE n == Len(commits) + 1
    <2>1. /\ commits'[n].by = NoPreview /\ remote' = n
          /\ commits'[n].past = commits[remote].past \cup {n}
      BY <1>5, ForeignCommit
    <2> HIDE DEF n
    <2> QED  BY <1>4, <2>1
  <1>6. CASE Push
    <2> DEFINE p == handler.preview  c == publications[p].commit
    <2>1. /\ commits' = commits /\ remote' = c /\ remote = p.base
          /\ handler.step \in Pushing /\ publications' = publications
      BY <1>6 DEF Push, Pushing, recordVars
    <2>2. /\ p \in DOMAIN publications /\ c \in DOMAIN commits
          /\ IsExactCommit(c, p)
      BY <2>1 DEF PublicationInv, Working, Stored
    <2>3. commits[c].past = commits[remote].past \cup {c}
      BY <1>2, <2>1, <2>2 DEF History, IsExactCommit
    <2> QED  BY <1>4, <2>1, <2>2, <2>3 DEF IsExactCommit
  <1>7. CASE Quiet \/ OperatorPull \/ Confirms \/ RecordCommit \/ Stops \/ Completes
    <2>1. commits' = commits /\ remote' = remote
      BY <1>7 DEF Quiet, OperatorPull, Confirms, Confirm, RecordCommit, Stops,
         Completes, gitVars
    <2> QED  BY <1>4, <2>1
  <1>8. CASE Commits
    <2>1. remote' = remote
      BY <1>8, CentralCommit
    <2>2. commits'[remote] = commits[remote]
      BY <1>1, <1>2 DEF Extended
    <2> QED  BY <1>4, <2>1, <2>2
  <1> QED
    BY <1>5, <1>6, <1>7, <1>8, StepKinds DEF PublicationInv, Elsewhere

LEMMA RecordedStep ==
  ASSUME PublicationInv, Claimed, MainIsRecorded, [Next]_vars
  PROVE  MainIsRecorded'
  <1>1. Stored' /\ Claimed'
    BY PublicationsStep, ClaimedStep
  <1>2. commits'[remote'].past \subseteq 1 .. remote'
    BY GitStep DEF History, GitTypeOK
  <1>3. ASSUME NEW i \in commits'[remote'].past, commits'[i].by # NoPreview
        PROVE  LET p == commits'[i].by
               IN  /\ p \in DOMAIN publications' /\ publications'[p].commit = i
                   /\ publications'[p].state # "confirmed"
    <2>1. i # NoCommit
      BY <1>2 DEF NoCommit
    <2> QED  BY <1>1, <1>3, <2>1, RecordedCommit DEF Stored
  <1> QED
    BY <1>1, <1>3 DEF MainIsRecorded, Claimed

-----------------------------------------------------------------------------
(* The read model                                                           *)

(* What leads to a new tree.                                                *)
LEMMA ToInstalling ==
  ASSUME [Next]_vars, handler'.step = "installing"
  PROVE  \/ Prove /\ Proven(handler.commit) /\ handler'.commit = handler.commit
         \/ Startup /\ ExactMain(head) /\ handler'.commit = head
         \/ handler' = handler
  <1> DEFINE Goal ==
        \/ Prove /\ Proven(handler.commit) /\ handler'.commit = handler.commit
        \/ Startup /\ ExactMain(head) /\ handler'.commit = head
        \/ handler' = handler
  <1> USE DEF At, Idle, Down
  <1>1. ~(FreezePreview \/ Confirm \/ AdoptCommit \/ WriteFiles \/ StopUncommitted)
    BY DEF FreezePreview, Confirm, AdoptCommit, WriteFiles, StopUncommitted
  <1>2. CommitExact => handler' \in {Idle, At("committed", handler.preview, head')}
    BY DEF CommitExact
  <1>3. ~(RecordCommit \/ CheckRemote \/ Push \/ PushRaced \/ CompletePush \/ Install)
    <2>1. ~(RecordCommit \/ Push \/ PushRaced \/ CompletePush \/ Install)
      BY DEF RecordCommit, Complete, Push, PushRaced, CompletePush, Install
    <2>2. CheckRemote => handler'.step # "installing"
      BY DEF CheckRemote, Complete
    <2> QED  BY <2>1, <2>2
  <1>4. Prove => Goal
    BY DEF Prove
  <1>5. ~Fault
    BY DEF Fault, InstallFails, Crash, GitFails
  <1>6. Startup => Goal
    BY DEF Startup
  <1>7. Others \/ Review \/ FetchOnly \/ UNCHANGED vars => handler' = handler
    BY DEF Others, Review, FetchOnly, vars
  <1>8. ASSUME NEW x, PlanPreview(x) \/ CheckConfirm(x) PROVE FALSE
    BY <1>8 DEF PlanPreview, CheckConfirm
  <1>9. ASSUME NEW x, Resume(x) PROVE FALSE
    BY <1>9 DEF Resume
  <1>10. ~CommitExact
    BY <1>2
  <1> QED
    BY <1>1, <1>3, <1>4, <1>5, <1>6, <1>7, <1>8, <1>9, <1>10 DEF Next, Work

(* A request that may have completed a publication, and a start, do not end  *)
(* without deciding what is served.                                         *)
LEMMA OutOfProving ==
  ASSUME projection \in Projection, [Next]_vars,
         handler.step \in {"down", "proving"},
         projection'.state = "available"
  PROVE  handler'.step \in {"down", "proving"}
  <1> USE DEF At, Idle, Down
  <1>1. ~(FreezePreview \/ Confirm \/ AdoptCommit \/ WriteFiles \/ StopUncommitted)
    BY DEF FreezePreview, Confirm, AdoptCommit, WriteFiles, StopUncommitted
  <1>2. ~(CommitExact \/ RecordCommit \/ CheckRemote \/ Push \/ PushRaced
            \/ CompletePush \/ Install \/ GitFails)
    BY DEF CommitExact, RecordCommit, CheckRemote, Push, PushRaced, CompletePush,
       Install, GitFails
  <1>3. ~(Prove \/ Startup \/ InstallFails)
    BY DEF Prove, Startup, InstallFails, MarkSyncing, MarkUnavailable, Projection
  <1>4. Crash => handler'.step = "down"
    BY DEF Crash
  <1>5. Others \/ Review \/ FetchOnly \/ UNCHANGED vars => handler' = handler
    BY DEF Others, Review, FetchOnly, vars
  <1>6. ASSUME NEW x, PlanPreview(x) \/ CheckConfirm(x) PROVE FALSE
    BY <1>6 DEF PlanPreview, CheckConfirm
  <1>7. ASSUME NEW x, Resume(x) PROVE FALSE
    BY <1>7 DEF Resume
  <1> QED
    BY <1>1, <1>2, <1>3, <1>4, <1>5, <1>6, <1>7 DEF Next, Work, Fault

LEMMA ProjectedStep ==
  ASSUME PublicationInv, CentralCommits, Projected, [Next]_vars
  PROVE  Projected'
  <1> DEFINE c == handler.commit
             HasAll(a) == \A i \in DOMAIN commits' : commits'[i].by # NoPreview =>
                            i \in commits'[a].past
  <1>1. /\ Extended /\ GitTypeOK' /\ History' /\ GitTypeOK /\ History
        /\ {remote, head, origin} \subseteq DOMAIN commits
        /\ remote' \in DOMAIN commits'
    BY GitStep DEF PublicationInv, TypeOK, GitTypeOK
  <1>2. commits[remote].past \subseteq DOMAIN commits
    BY <1>1 DEF History, GitTypeOK
  <1>3. origin' \in commits'[remote'].past
    <2>1. origin' \in {origin, remote, remote'}
      BY StepKinds
      DEF PublicationInv, Quiet, Elsewhere, ForeignPush, OperatorPull, Fetch,
          Confirms, Confirm, Commits, CommitExact, RecordCommit, Stops, Push,
          Completes, gitVars
    <2>2. remote \in commits[remote].past /\ remote' \in commits'[remote'].past
      BY <1>1 DEF History
    <2> QED  BY <1>1, <2>1, <2>2 DEF Extended, Projected
  <1>4. ASSUME handler'.step = "installing"
        PROVE  handler'.commit \in commits'[remote'].past /\ HasAll(handler'.commit)
    <2>1. CASE commits' = commits /\ remote' = remote /\ handler'.commit = head
                 /\ head \in commits[remote].past
      BY <2>1 DEF CentralCommits
    <2>2. CASE Prove /\ Proven(c) /\ handler'.commit = c
      BY <2>1, <2>2 DEF Prove, Proven, gitVars, Projected
    <2>3. CASE Startup /\ ExactMain(head) /\ handler'.commit = head
      BY <1>1, <2>1, <2>3 DEF Startup, ExactMain, History
    <2>4. CASE handler' = handler
      <3>1. /\ c \in commits[remote].past /\ c \in DOMAIN commits
            /\ \A i \in DOMAIN commits : commits[i].by # NoPreview =>
                 i \in commits[c].past
        BY <1>2, <1>4, <2>4 DEF Projected
      <3>2. c \in commits'[remote'].past /\ commits'[c] = commits[c]
        BY <1>1, <3>1 DEF Extended
      <3>3. ~Commits
        BY <2>4, <1>4 DEF Commits
      <3>4. CASE commits' = commits
        BY <2>4, <3>1, <3>2, <3>4
      <3>5. CASE ForeignPush
        <4> DEFINE n == Len(commits) + 1
        <4>1. /\ DOMAIN commits' = DOMAIN commits \cup {n}
              /\ \A i \in DOMAIN commits : commits'[i] = commits[i]
              /\ commits'[n].by = NoPreview
          BY <3>5, ForeignCommit
        <4> HIDE DEF n
        <4> QED  BY <2>4, <3>1, <3>2, <4>1
      <3> QED  BY <3>3, <3>4, <3>5, CommitKinds
    <2> QED  BY <1>4, <2>2, <2>3, <2>4, ToInstalling
  <1> DEFINE Served == handler'.step \notin {"down", "proving"} =>
               \A p \in DOMAIN publications' :
                 publications'[p].state = "completed" => p \in projection'.tree
  <1>5. ASSUME projection'.state = "available"
        PROVE  /\ projection'.active \in commits'[remote'].past
               /\ projection'.tree = Tree(projection.active)'
               /\ Served
    <2>1. CASE Install
      <3>1. /\ commits' = commits /\ remote' = remote /\ publications' = publications
            /\ handler.step = "installing"
            /\ projection'.active = c /\ projection'.tree = Tree(c)
        BY <2>1 DEF Install, InstallProjection, gitVars, recordVars
      <3>2. /\ c \in commits[remote].past
            /\ \A i \in DOMAIN commits : commits[i].by # NoPreview =>
                 i \in commits[c].past
        BY <3>1 DEF Projected
      <3>3. ASSUME NEW p \in DOMAIN publications, publications[p].state = "completed"
            PROVE  p \in Tree(c)
        <4> DEFINE i == publications[p].commit
        <4>1. i \in DOMAIN commits /\ commits[i].by = p
          BY <3>3 DEF PublicationInv, Stored, IsExactCommit
        <4>2. p # NoPreview
          BY DEF PublicationInv, TypeOK, OfBatches, ReviewTypeOK, NoPreview
        <4> QED  BY <3>2, <4>1, <4>2 DEF Tree
      <3>4. projection'.tree = Tree(projection.active)'
        BY <3>1 DEF Tree
      <3> QED  BY <3>1, <3>2, <3>3, <3>4
    <2>2. CASE UNCHANGED projection
      <3> DEFINE a == projection.active
      <3>1. /\ a \in commits[remote].past /\ projection.tree = Tree(a)
            /\ projection.state = "available"
        BY <1>5, <2>2 DEF Projected
      <3>2. a \in DOMAIN commits /\ a \in commits'[remote'].past
        BY <1>1, <1>2, <3>1 DEF Extended
      <3>3. commits'[a] = commits[a] /\ commits[a].past \subseteq DOMAIN commits
        BY <1>1, <3>2 DEF Extended, History, GitTypeOK
      <3>4. \A i \in commits[a].past : commits'[i] = commits[i]
        BY <1>1, <3>3 DEF Extended
      <3>5. Tree(projection.active)' = Tree(a)
        BY <2>2, <3>3, <3>4 DEF Tree
      <3>6. ASSUME handler'.step \notin {"down", "proving"},
                   NEW p \in DOMAIN publications',
                   publications'[p].state = "completed"
            PROVE  p \in projection.tree
        <4>1. handler.step \notin {"down", "proving"}
          BY <1>5, <3>6, OutOfProving
          DEF PublicationInv, TypeOK, ProjectionTypeOK
        <4>2. ~Completes
          BY <3>6 DEF Completes, Complete, At
        <4>3. p \in DOMAIN publications
          <5>1. CASE Confirms
            BY <3>6, <5>1, ConfirmedFamilies
          <5>2. CASE ~Confirms
            <6>1. DOMAIN publications' = DOMAIN publications
              BY <4>2, <5>2, StepKinds
              DEF PublicationInv, Quiet, Elsewhere, Same, Commits, CommitExact,
                  RecordCommit, Stops, Latch, Push, recordVars
            <6> QED  BY <6>1
          <5> QED  BY <5>1, <5>2
        <4>4. publications[p] \in Record
          BY <4>3 DEF PublicationInv, TypeOK
        <4>5. publications[p].state = "completed"
          BY <3>6, <4>2, <4>3, <4>4, PublicationKinds DEF Records, Record
        <4> QED  BY <3>1, <4>1, <4>3, <4>5 DEF Projected
      <3> QED  BY <2>2, <3>1, <3>2, <3>5, <3>6
    <2>3. Prove \/ Startup \/ InstallFails => projection'.state # "available"
      BY DEF Prove, Startup, InstallFails, MarkSyncing, MarkUnavailable,
         PublicationInv, TypeOK, ProjectionTypeOK, Projection
    <2> QED
      BY <1>5, <2>1, <2>2, <2>3, ProjectionSteps DEF ProjectionKinds
  <1> QED
    BY <1>3, <1>4, <1>5 DEF Projected

-----------------------------------------------------------------------------
(* The invariant                                                            *)

LEMMA SafetyInvInit == Init => SafetyInv
  <1> SUFFICES ASSUME Init PROVE SafetyInv
    OBVIOUS
  <1> USE DEF Init, GitInit
  <1>1. PublicationInv
    BY InvInit
  <1>2. CentralCommits /\ Claimed /\ MainIsRecorded
    BY DEF CentralCommits, Claimed, MainIsRecorded
  <1>3. Projected
    BY DEF Projected, ProjectionInit, Down, At
  <1> QED
    BY <1>1, <1>2, <1>3 DEF SafetyInv

LEMMA SafetyInvStep == SafetyInv /\ [Next]_vars => SafetyInv'
  BY InvStep, CentralCommitsStep, ClaimedStep, RecordedStep, ProjectedStep
  DEF SafetyInv

(* Commits, publications, claims, receipts and the read model agree in every *)
(* reachable state, whatever the constants are.                             *)
THEOREM SafetyInvariant == Spec => []SafetyInv
  BY SafetyInvInit, SafetyInvStep, PTL DEF Spec

(* No two commits, pushed or not, make the same Candidate a Decision.       *)
THEOREM CommittedOnceCorrect == Spec => []CommittedOnce
  <1>1. SafetyInv => CommittedOnce
    <2> SUFFICES ASSUME SafetyInv,
                        NEW i \in DOMAIN commits, NEW j \in DOMAIN commits, i # j,
                        commits[i].by # NoPreview, commits[j].by # NoPreview,
                        NEW f \in Accepted(commits[i].by.batch),
                        f \in Accepted(commits[j].by.batch)
                 PROVE  FALSE
      BY DEF CommittedOnce
    <2> DEFINE p == commits[i].by  q == commits[j].by
    <2>1. p \in DOMAIN publications /\ q \in DOMAIN publications /\ p # q
      BY DEF SafetyInv, CentralCommits
    <2>2. claims[f] = p /\ claims[f] = q
      BY <2>1 DEF SafetyInv, Claimed
    <2> QED  BY <2>1, <2>2
  <1> QED
    BY <1>1, SafetyInvariant, PTL

(* A crash after the push never leaves a Decision Central forgot.           *)
THEOREM MainIsRecordedCorrect == Spec => []MainIsRecorded
  <1>1. SafetyInv => MainIsRecorded
    BY DEF SafetyInv
  <1> QED
    BY <1>1, SafetyInvariant, PTL

(* A receipt is of the publication that claimed the family.                 *)
THEOREM ReceiptsAreClaimedCorrect == Spec => []ReceiptsAreClaimed
  <1>1. SafetyInv => ReceiptsAreClaimed
    <2> SUFFICES ASSUME SafetyInv, NEW f \in Families, receipts[f] # NoReceipt
                 PROVE  LET p == claims[f]
                        IN  /\ p = receipts[f].preview
                            /\ f \in Accepted(p.batch)
                            /\ publications[p].commit = receipts[f].commit
                            /\ publications[p].state # "confirmed"
      BY DEF ReceiptsAreClaimed
    <2> DEFINE p == claims[f]
    <2>1. p \in DOMAIN publications /\ f \in Accepted(p.batch)
      BY DEF SafetyInv, Claimed
    <2>2. /\ publications[p].state # "confirmed"
          /\ receipts[f] = [preview |-> p, commit |-> publications[p].commit]
      BY <2>1 DEF SafetyInv, Claimed
    <2> QED  BY <2>1, <2>2
  <1> QED
    BY <1>1, SafetyInvariant, PTL

(* Between requests the served read model is a tree of main with everything  *)
(* that was completed.                                                      *)
THEOREM NoStaleRegistryCorrect == Spec => []NoStaleRegistry
  <1>1. SafetyInv => NoStaleRegistry
    BY DEF SafetyInv, Projected, NoStaleRegistry, IsAncestor, Idle, At
  <1> QED
    BY <1>1, SafetyInvariant, PTL

(* A confirmation is of the reviewer's latest decisions about the current    *)
(* revisions, of families nobody else published.                            *)
THEOREM ConfirmedIsCurrentCorrect == Spec => ConfirmedIsCurrent
  <1> DEFINE Current ==
        \A p \in DOMAIN publications' \ DOMAIN publications :
          \A f \in Accepted(p.batch) :
            /\ current[f] = batches[p.batch][f].revision
            /\ \A b \in DOMAIN batches : f \in DOMAIN batches[b] => b <= p.batch
            /\ claims[f] = NoPreview
  <1>1. PublicationInv /\ [Next]_vars => [Current]_vars
    <2> SUFFICES ASSUME PublicationInv, [Next]_vars PROVE Current
      OBVIOUS
    <2>1. CASE Confirms
      <3> DEFINE p == handler.preview
      <3>1. /\ DOMAIN publications' = DOMAIN publications \cup {p}
            /\ \A f \in Accepted(p.batch) : claims[f] = NoPreview
        BY <2>1, ConfirmedFamilies
      <3>2. ReviewIsCurrent(p.batch)
        BY <2>1 DEF Confirms, Confirm, Idle, At, Revalidated
      <3> QED  BY <3>1, <3>2 DEF ReviewIsCurrent, IsLatest
    <2>2. Quiet \/ Elsewhere \/ Commits \/ RecordCommit \/ Stops \/ Push \/ Completes
            => DOMAIN publications' = DOMAIN publications
      BY DEF Quiet, Elsewhere, Same, Commits, CommitExact, RecordCommit, Stops,
         Latch, Push, Completes, Complete, recordVars
    <2> QED
      BY <2>1, <2>2, StepKinds DEF PublicationInv
  <1> QED
    BY <1>1, PublicationInvariant, PTL DEF Spec, ConfirmedIsCurrent

(* A stopped publication never moves again, none moves backwards, and none   *)
(* changes its commit.                                                      *)
THEOREM StopsForGoodCorrect == Spec => StopsForGood
  <1> DEFINE Forward(p) ==
        LET old == publications[p]  new == publications'[p]
        IN  /\ Rank(old.state) <= Rank(new.state)
            /\ old.ambiguous => new = old
            /\ old.commit # NoCommit => new.commit = old.commit
  <1>1. ASSUME PublicationInv, [Next]_vars, NEW p \in DOMAIN publications
        PROVE  Forward(p)
    <2>1. publications[p] \in Record /\ publications[p].state \in States
      BY <1>1 DEF PublicationInv, TypeOK, Record
    <2>2. \A s \in States : Rank(s) \in 1 .. 3
      BY DEF States, Rank
    <2>3. CASE publications'[p] = publications[p]
      BY <2>1, <2>2, <2>3
    <2>4. CASE Records(p)
      <3>1. /\ publications[p].state = "confirmed" /\ publications[p].commit = NoCommit
            /\ ~publications[p].ambiguous
        BY <1>1, <2>4 DEF Records, RecordCommit, PublicationInv, Stored, Working,
           Committing
      <3> QED  BY <2>1, <2>4, <3>1 DEF Records, Record, Rank
    <2>5. CASE /\ ~publications[p].ambiguous
               /\ publications'[p] = [publications[p] EXCEPT !.ambiguous = TRUE]
      BY <2>1, <2>2, <2>5 DEF Record
    <2>6. CASE /\ ~publications[p].ambiguous
               /\ publications[p].state = "committed_pending_push"
               /\ publications'[p] = [publications[p] EXCEPT !.state = "completed"]
      BY <2>1, <2>6 DEF Record, Rank
    <2> QED  BY <1>1, <2>3, <2>4, <2>5, <2>6, PublicationKinds
  <1>2. PublicationInv /\ [Next]_vars
          => [\A p \in DOMAIN publications : Forward(p)]_vars
    BY <1>1
  <1> QED
    BY <1>2, PublicationInvariant, PTL DEF Spec, StopsForGood

-----------------------------------------------------------------------------
(* Publication implements DecisionPublication.                              *)

(* A family belongs to a stored publication that accepts it.                *)
Owners ==
  \A f \in Families : claims[f] # NoPreview =>
    claims[f] \in DOMAIN publications /\ f \in Accepted(claims[f].batch)

PromiseInv == SafetyInv /\ Owners

LEMMA OwnersStep ==
  ASSUME PublicationInv, Owners, [Next]_vars
  PROVE  Owners'
  <1>1. /\ BatchesKept /\ DOMAIN publications \subseteq DOMAIN publications'
    BY ReviewStep, PublicationsStep DEF PublicationInv
  <1>2. \A q \in DOMAIN publications : q.batch \in DOMAIN batches
    BY DEF PublicationInv, TypeOK, OfBatches
  <1>3. CASE claims' = claims
    BY <1>1, <1>2, <1>3, AcceptedKept DEF Owners
  <1>4. CASE Confirms
    <2> DEFINE p == handler.preview
    <2>1. /\ p \in previews /\ p \in DOMAIN publications'
          /\ claims' = [f \in Families |->
                          IF f \in Accepted(p.batch) THEN p ELSE claims[f]]
      BY <1>4, ConfirmedFamilies
    <2>2. p.batch \in DOMAIN batches
      BY <2>1 DEF PublicationInv, OfBatches
    <2> QED  BY <1>1, <1>2, <2>1, <2>2, AcceptedKept DEF Owners
  <1>5. Quiet \/ Elsewhere \/ Commits \/ RecordCommit \/ Stops \/ Push \/ Completes
          => claims' = claims
    BY DEF Quiet, Elsewhere, Same, Commits, CommitExact, RecordCommit, Stops,
       Push, Completes, recordVars
  <1> QED
    BY <1>3, <1>4, <1>5, StepKinds DEF PublicationInv

LEMMA PromiseInvStep == PromiseInv /\ [Next]_vars => PromiseInv'
  BY SafetyInvStep, OwnersStep DEF PromiseInv, SafetyInv

LEMMA PromiseInvInit == Init => PromiseInv
  BY SafetyInvInit DEF PromiseInv, Owners, Init

(* The families of a stored publication are those its batch accepts.        *)
LEMMA OwnedFamilies ==
  ASSUME PromiseInv, NEW p \in DOMAIN publications
  PROVE  /\ Accepted(p.batch) = {f \in Families : claims[f] = p}
         /\ p # NoPreview
  <1>1. p.batch \in DOMAIN batches /\ p # NoPreview
    BY DEF PromiseInv, SafetyInv, PublicationInv, TypeOK, OfBatches,
       ReviewTypeOK, NoPreview
  <1>2. Accepted(p.batch) \subseteq Families
    BY <1>1, AcceptedFamilies DEF PromiseInv, SafetyInv, PublicationInv, TypeOK
  <1> QED
    BY <1>1, <1>2 DEF PromiseInv, SafetyInv, Owners, Claimed

LEMMA PromiseStarts == Init => Public!PromiseInit
  <1> SUFFICES ASSUME Init PROVE Public!PromiseInit
    OBVIOUS
  <1>1. /\ commits = <<[parent |-> 0, by |-> NoPreview, past |-> {1}]>>
        /\ remote = 1 /\ DOMAIN publications = {}
        /\ claims = [f \in Families |-> NoPreview]
        /\ receipts = [f \in Families |-> NoReceipt]
    BY DEF Init, GitInit
  <1>2. Central = {} /\ Tree(remote) = {}
    BY <1>1 DEF Central, Tree
  <1> QED
    BY <1>1, <1>2 DEF Public!PromiseInit, NoReceipt

(* The mapped variables, and what leaves each of them alone.                *)
Phases == [p \in DOMAIN publications |-> PhaseOf(publications[p])]
Made == [i \in Central |-> commits[i].by]
Receipt == [f \in Families |-> receipts[f].commit]

LEMMA ForeignPromise ==
  ASSUME PublicationInv, ForeignPush
  PROVE  Made' = Made /\ Tree(remote)' = Tree(remote)
  <1> DEFINE n == Len(commits) + 1
  <1>1. /\ DOMAIN commits' = DOMAIN commits \cup {n} /\ remote' = n
        /\ \A i \in DOMAIN commits : commits'[i] = commits[i]
        /\ commits'[n].by = NoPreview
        /\ commits'[n].past = commits[remote].past \cup {n}
    BY ForeignCommit
  <1> HIDE DEF n
  <1>2. commits[remote].past \subseteq DOMAIN commits
    BY DEF PublicationInv, History, TypeOK, GitTypeOK
  <1>3. Central' = Central /\ \A i \in Central : commits'[i] = commits[i]
    BY <1>1 DEF Central
  <1>4. Tree(remote)' = {commits'[i].by : i \in commits'[n].past} \ {NoPreview}
    BY <1>1 DEF Tree
  <1>5. \A i \in commits[remote].past : commits'[i] = commits[i]
    BY <1>1, <1>2
  <1>6. {commits'[i].by : i \in commits'[n].past}
          = {commits[i].by : i \in commits[remote].past} \cup {NoPreview}
    BY <1>1, <1>5
  <1> QED
    BY <1>3, <1>4, <1>6 DEF Made, Tree

(* A commit is the publication's first.                                     *)
LEMMA CommitPromise ==
  ASSUME PromiseInv, [Next]_vars, Commits
  PROVE  LET p == handler.preview  n == Len(commits) + 1
         IN  /\ p \in DOMAIN publications /\ Phases[p] = "open"
             /\ n \notin Central /\ Central' = Central \cup {n}
             /\ \A e \in Central : Made[e] # p
             /\ Made' = [e \in Central \cup {n} |-> IF e = n THEN p ELSE Made[e]]
             /\ Tree(remote)' = Tree(remote)
  <1> DEFINE p == handler.preview  n == Len(commits) + 1
  <1>1. /\ DOMAIN commits' = DOMAIN commits \cup {n} /\ remote' = remote
        /\ n \notin DOMAIN commits
        /\ \A i \in DOMAIN commits : commits'[i] = commits[i]
        /\ commits'[n].by = p /\ p \in DOMAIN publications
    BY CentralCommit DEF PromiseInv, SafetyInv
  <1> HIDE DEF n
  <1>2. p # NoPreview
    BY <1>1, OwnedFamilies
  <1>3. /\ Central' = Central \cup {n} /\ n \notin Central
        /\ \A i \in Central : commits'[i] = commits[i]
    BY <1>1, <1>2 DEF Central
  <1>4. \A e \in Central : Made[e] # p
    <2>1. CentralCommits'
      BY CentralCommitsStep DEF PromiseInv, SafetyInv
    <2>2. \A j \in DOMAIN commits' : commits'[j].by = p => j = n
      BY <1>1, <1>2, <2>1 DEF CentralCommits
    <2> QED  BY <1>1, <2>2 DEF Made, Central
  <1>5. /\ ~publications[p].ambiguous /\ publications[p].state = "confirmed"
    BY DEF Commits, CommitExact, PromiseInv, SafetyInv, PublicationInv, Working,
       Committing
  <1>6. commits[remote].past \subseteq DOMAIN commits /\ remote \in DOMAIN commits
    BY DEF PromiseInv, SafetyInv, PublicationInv, History, TypeOK, GitTypeOK
  <1>7. Tree(remote)' = Tree(remote)
    BY <1>1, <1>6 DEF Tree
  <1>8. Made' = [e \in Central \cup {n} |-> IF e = n THEN p ELSE Made[e]]
    BY <1>1, <1>3 DEF Made
  <1>9. Phases[p] = "open"
    BY <1>1, <1>5 DEF Phases, PhaseOf
  <1> QED
    BY <1>1, <1>3, <1>4, <1>7, <1>8, <1>9 DEF n

(* What is pushed is on record for every family, and is not on main yet.    *)
LEMMA PushPromise ==
  ASSUME PromiseInv, Push
  PROVE  LET p == handler.preview  c == publications[p].commit
         IN  /\ p \in DOMAIN publications /\ Phases[p] = "open"
             /\ c \in Central /\ Made[c] = p
             /\ \A f \in Families : claims[f] = p => Receipt[f] = c
             /\ p \notin Tree(remote)
             /\ Tree(remote)' = Tree(remote) \cup {p}
  <1> DEFINE p == handler.preview  c == publications[p].commit
  <1>1. /\ commits' = commits /\ remote' = c /\ remote = p.base
        /\ handler.step \in Pushing
    BY DEF Push, Pushing
  <1>2. /\ p \in DOMAIN publications /\ IsExactCommit(c, p) /\ c \in DOMAIN commits
        /\ ~publications[p].ambiguous
        /\ publications[p].state = "committed_pending_push"
    BY <1>1 DEF PromiseInv, SafetyInv, PublicationInv, Working, Stored
  <1>3. /\ Accepted(p.batch) = {f \in Families : claims[f] = p} /\ p # NoPreview
    BY <1>2, OwnedFamilies
  <1>4. c \in Central /\ Made[c] = p
    BY <1>2, <1>3 DEF Made, Central, IsExactCommit
  <1>5. \A f \in Families : claims[f] = p => Receipt[f] = c
    <2> SUFFICES ASSUME NEW f \in Families, claims[f] = p PROVE Receipt[f] = c
      OBVIOUS
    <2>1. f \in Accepted(p.batch)
      BY <1>3
    <2>2. receipts[f] = [preview |-> p, commit |-> c]
      BY <1>2, <2>1 DEF PromiseInv, SafetyInv, Claimed
    <2> QED  BY <2>2 DEF Receipt
  <1>6. /\ commits[c].parent = remote /\ remote \in DOMAIN commits /\ remote # 0
        /\ commits[remote].past \subseteq 1 .. remote /\ remote < c
        /\ commits[c].past = commits[remote].past \cup {c}
        /\ remote \in Nat /\ c \in Nat
    BY <1>1, <1>2 DEF PromiseInv, SafetyInv, PublicationInv, History, TypeOK,
       GitTypeOK, IsExactCommit
  <1>7. p \notin Tree(remote)
    <2> SUFFICES ASSUME NEW i \in commits[remote].past, commits[i].by = p
                 PROVE  FALSE
      BY DEF Tree
    <2>1. i \in 1 .. remote /\ i \in DOMAIN commits
      BY <1>6 DEF PromiseInv, SafetyInv, PublicationInv, TypeOK, GitTypeOK
    <2>2. i = c
      BY <1>2, <1>3, <2>1 DEF PromiseInv, SafetyInv, CentralCommits, IsExactCommit
    <2> QED  BY <1>6, <2>1, <2>2
  <1>8. Tree(remote)' = Tree(remote) \cup {p}
    <2>1. {commits[i].by : i \in commits[c].past}
            = {commits[i].by : i \in commits[remote].past} \cup {p}
      BY <1>2, <1>6 DEF IsExactCommit
    <2> QED  BY <1>1, <1>3, <2>1 DEF Tree
  <1>9. Phases[p] = "open"
    BY <1>2 DEF Phases, PhaseOf
  <1> QED
    BY <1>2, <1>4, <1>5, <1>7, <1>8, <1>9

(* A commit is recorded for all families of its publication.                *)
LEMMA RecordPromise ==
  ASSUME PromiseInv, RecordCommit
  PROVE  LET p == handler.preview  c == handler.commit
         IN  /\ p \in DOMAIN publications /\ Phases[p] = "open"
             /\ c \in Central /\ Made[c] = p
             /\ Receipt' = [f \in Families |->
                              IF claims[f] = p THEN c ELSE Receipt[f]]
             /\ Phases' = Phases
  <1> DEFINE p == handler.preview  c == handler.commit
  <1>1. /\ p \in DOMAIN publications /\ IsExactCommit(c, p) /\ c \in DOMAIN commits
        /\ ~publications[p].ambiguous /\ publications[p].state = "confirmed"
    BY DEF RecordCommit, PromiseInv, SafetyInv, PublicationInv, Working, Committing
  <1>2. /\ Accepted(p.batch) = {f \in Families : claims[f] = p} /\ p # NoPreview
    BY <1>1, OwnedFamilies
  <1>3. c \in Central /\ Made[c] = p
    BY <1>1, <1>2 DEF Made, Central, IsExactCommit
  <1>4. receipts' = [f \in Families |->
                       IF f \in Accepted(p.batch) THEN [preview |-> p, commit |-> c]
                       ELSE receipts[f]]
    BY DEF RecordCommit, WithReceipts
  <1>5. Receipt' = [f \in Families |-> IF claims[f] = p THEN c ELSE Receipt[f]]
    BY <1>2, <1>4 DEF Receipt
  <1>6. publications' = [publications EXCEPT ![p].state = "committed_pending_push",
                                             ![p].commit = c]
    BY DEF RecordCommit
  <1>7. publications \in [DOMAIN publications -> Record]
    BY DEF PromiseInv, SafetyInv, PublicationInv, TypeOK
  <1>8. Phases' = Phases /\ Phases[p] = "open"
    BY <1>1, <1>6, <1>7 DEF Phases, PhaseOf, Record
  <1> QED
    BY <1>1, <1>3, <1>5, <1>8

LEMMA PromiseStep ==
  ASSUME PromiseInv, [Next]_vars
  PROVE  [Public!PromiseNext]_(Public!promiseVars)
  <1> DEFINE p == handler.preview
  <1>0. ASSUME NEW q \in DOMAIN Phases', NEW d \in DOMAIN Made',
                \/ Public!Decide(q, d) \/ Public!Record(q, d) \/ Public!Publish(q, d)
         PROVE  Public!PromiseNext
    <2> HIDE DEF p
    <2>1. /\ q \in DOMAIN [r \in DOMAIN publications |-> PhaseOf(publications[r])]'
          /\ d \in DOMAIN [i \in Central |-> commits[i].by]'
      BY <1>0 DEF Phases, Made
    <2> QED  BY <1>0, <2>1 DEF Public!PromiseNext
  <1>1. PublicationInv
    BY DEF PromiseInv, SafetyInv
  <1>2. publications \in [DOMAIN publications -> Record]
    BY <1>1 DEF PublicationInv, TypeOK
  <1>3. ASSUME Phases' = Phases, claims' = claims, Made' = Made,
               Receipt' = Receipt, Tree(remote)' = Tree(remote)
        PROVE  UNCHANGED Public!promiseVars
    BY <1>3 DEF Public!promiseVars, Phases, Made, Receipt
  <1>4. ASSUME commits' = commits, remote' = remote
        PROVE  Made' = Made /\ Tree(remote)' = Tree(remote)
    BY <1>4 DEF Made, Central, Tree
  <1>5. CASE Quiet
    BY <1>3, <1>4, <1>5 DEF Quiet, Phases, Receipt
  <1>6. CASE Elsewhere
    <2>1. CASE ForeignPush
      BY <1>1, <1>3, <1>6, <2>1, ForeignPromise DEF Elsewhere, Same, Phases, Receipt
    <2>2. CASE OperatorPull
      BY <1>3, <1>4, <1>6, <2>2 DEF Elsewhere, Same, OperatorPull, Phases, Receipt
    <2> QED  BY <1>6, <2>1, <2>2 DEF Elsewhere
  <1>7. CASE Confirms
    <2>1. /\ p \notin DOMAIN publications
          /\ DOMAIN publications' = DOMAIN publications \cup {p}
          /\ \A q \in DOMAIN publications : publications'[q] = publications[q]
          /\ \A f \in Accepted(p.batch) : claims[f] = NoPreview
          /\ claims' = [f \in Families |->
                          IF f \in Accepted(p.batch) THEN p ELSE claims[f]]
          /\ receipts' = receipts
      BY <1>1, <1>7, ConfirmedFamilies
    <2>2. /\ publications'[p] = [state |-> "confirmed", commit |-> NoCommit,
                                 ambiguous |-> FALSE]
          /\ commits' = commits /\ remote' = remote
      <3>1. commits' = commits /\ remote' = remote
        BY <1>7 DEF Confirms, Confirm, gitVars
      <3>2. publications' =
              [q \in DOMAIN publications \cup {p} |->
                 IF q = p
                 THEN [state |-> "confirmed", commit |-> NoCommit,
                       ambiguous |-> FALSE]
                 ELSE publications[q]]
        BY <1>7 DEF Confirms, Confirm, Idle, At
      <3> QED  BY <3>1, <3>2
    <2>3. Phases' = [q \in DOMAIN Phases \cup {p} |->
                       IF q = p THEN "open" ELSE Phases[q]]
      BY <2>1, <2>2 DEF Phases, PhaseOf
    <2>4. Accepted(p.batch) \in SUBSET Families /\ Receipt' = Receipt
      <3>1. p.batch \in DOMAIN batches
        BY <1>1, <1>7 DEF Confirms, Confirm, PublicationInv, Working, OfBatches
      <3> QED
        BY <1>1, <2>1, <3>1, AcceptedFamilies DEF PublicationInv, TypeOK, Receipt
    <2>5. Public!Confirm(p, Accepted(p.batch))
      BY <1>4, <2>1, <2>2, <2>3, <2>4 DEF Public!Confirm, Phases, Made, Receipt
    <2>6. p \in DOMAIN Phases'
      BY <2>1 DEF Phases
    <2> QED  BY <2>4, <2>5, <2>6 DEF Public!PromiseNext, Phases
  <1>8. CASE Commits
    <2> DEFINE n == Len(commits) + 1
    <2>1. /\ p \in DOMAIN publications /\ Phases[p] = "open"
          /\ n \notin Central /\ Central' = Central \cup {n}
          /\ \A e \in Central : Made[e] # p
          /\ Made' = [e \in Central \cup {n} |-> IF e = n THEN p ELSE Made[e]]
          /\ Tree(remote)' = Tree(remote)
      BY <1>8, CommitPromise
    <2> HIDE DEF n
    <2>2. UNCHANGED <<publications, claims, receipts>>
      BY <1>8 DEF Commits, CommitExact, recordVars
    <2>3. /\ DOMAIN Made = Central /\ DOMAIN Made' = Central \cup {n}
          /\ Phases' = Phases /\ Receipt' = Receipt
          /\ DOMAIN Phases = DOMAIN publications
      BY <2>1, <2>2 DEF Made, Phases, Receipt
    <2>4. PICK q, d : q = p /\ d = n
      OBVIOUS
    <2>5. Public!Decide(q, d)
      BY <2>1, <2>2, <2>3, <2>4 DEF Public!Decide, Phases, Made, Receipt
    <2>6. q \in DOMAIN Phases' /\ d \in DOMAIN Made'
      BY <2>1, <2>3, <2>4
    <2> QED  BY <1>0, <2>5, <2>6
  <1>9. CASE RecordCommit
    <2> DEFINE c == handler.commit
    <2>1. /\ p \in DOMAIN publications /\ Phases[p] = "open"
          /\ c \in Central /\ Made[c] = p
          /\ Receipt' = [f \in Families |-> IF claims[f] = p THEN c ELSE Receipt[f]]
          /\ Phases' = Phases
      BY <1>9, RecordPromise
    <2>2. UNCHANGED <<commits, remote, claims>>
      BY <1>9 DEF RecordCommit, gitVars
    <2>3. Made' = Made /\ Tree(remote)' = Tree(remote)
      BY <1>4, <2>2
    <2>4. DOMAIN Made = Central /\ DOMAIN Phases = DOMAIN publications
      BY DEF Made, Phases
    <2>5. PICK q, d : q = p /\ d = c
      OBVIOUS
    <2>6. Public!Record(q, d)
      BY <2>1, <2>2, <2>3, <2>4, <2>5 DEF Public!Record, Phases, Made, Receipt
    <2>7. q \in DOMAIN Phases' /\ d \in DOMAIN Made'
      BY <2>1, <2>3, <2>4, <2>5
    <2> QED  BY <1>0, <2>6, <2>7
  <1>10. CASE Push
    <2> DEFINE c == publications[p].commit
    <2>1. /\ p \in DOMAIN publications /\ Phases[p] = "open"
          /\ c \in Central /\ Made[c] = p
          /\ \A f \in Families : claims[f] = p => Receipt[f] = c
          /\ p \notin Tree(remote)
          /\ Tree(remote)' = Tree(remote) \cup {p}
      BY <1>10, PushPromise
    <2> HIDE DEF c
    <2>2. UNCHANGED <<commits, publications, claims, receipts>>
      BY <1>10 DEF Push, recordVars
    <2>3. /\ Made' = Made /\ Phases' = Phases /\ Receipt' = Receipt
          /\ DOMAIN Made = Central /\ DOMAIN Phases = DOMAIN publications
      BY <2>2 DEF Made, Central, Phases, Receipt
    <2>4. Public!Publish(p, c)
      BY <2>1, <2>2, <2>3 DEF Public!Publish, Phases, Made, Receipt
    <2>5. p \in DOMAIN Phases' /\ c \in DOMAIN Made'
      BY <2>1, <2>3
    <2> QED  BY <1>0, <2>4, <2>5
  <1>11. CASE Stops
    <2>1. /\ p \in DOMAIN publications /\ ~publications[p].ambiguous
          /\ publications[p].state # "completed"
      BY <1>1, <1>11 DEF Stops, PublicationInv, Working, Committing, Pushing
    <2>2. /\ publications' = [publications EXCEPT ![p].ambiguous = TRUE]
          /\ UNCHANGED <<commits, remote, claims, receipts>>
      BY <1>11 DEF Stops, Latch
    <2>3. /\ Phases[p] = "open" /\ Phases' = [Phases EXCEPT ![p] = "stopped"]
          /\ DOMAIN Phases' = DOMAIN publications
      BY <1>2, <2>1, <2>2 DEF Phases, PhaseOf, Record
    <2>4. Made' = Made /\ Tree(remote)' = Tree(remote) /\ Receipt' = Receipt
      BY <1>4, <2>2 DEF Receipt
    <2>5. Public!Stop(p)
      BY <2>2, <2>3, <2>4 DEF Public!Stop, Phases, Made, Receipt
    <2> QED  BY <2>1, <2>3, <2>5 DEF Public!PromiseNext, Phases
  <1>12. CASE Completes
    <2>1. /\ p \in DOMAIN publications /\ ~publications[p].ambiguous
          /\ publications[p].state = "committed_pending_push"
          /\ IsExactCommit(publications[p].commit, p)
      BY <1>1, <1>12 DEF Completes, PublicationInv, Working, Pushing, Stored
    <2>2. /\ publications' = [publications EXCEPT ![p].state = "completed"]
          /\ UNCHANGED <<commits, remote, claims, receipts>>
          /\ publications[p].commit \in commits[remote].past
      BY <1>12 DEF Completes, Complete, IsAncestor
    <2>3. /\ Phases[p] = "open" /\ Phases' = [Phases EXCEPT ![p] = "reported"]
          /\ DOMAIN Phases' = DOMAIN publications
      BY <1>2, <2>1, <2>2 DEF Phases, PhaseOf, Record
    <2>4. Made' = Made /\ Tree(remote)' = Tree(remote) /\ Receipt' = Receipt
      BY <1>4, <2>2 DEF Receipt
    <2>5. p \in Tree(remote)
      BY <2>1, <2>2, OwnedFamilies DEF Tree, IsExactCommit
    <2>6. Public!Report(p)
      BY <2>2, <2>3, <2>4, <2>5 DEF Public!Report, Phases, Made, Receipt
    <2> QED  BY <2>1, <2>3, <2>6 DEF Public!PromiseNext, Phases
  <1> QED
    BY <1>1, <1>5, <1>6, <1>7, <1>8, <1>9, <1>10, <1>11, <1>12, StepKinds
    DEF PublicationInv

(* Whatever requests, crashes, failures of Git and pushes of others there are, *)
(* publishing keeps the promise DecisionPublication makes.                   *)
THEOREM PublicationPromiseKept == Spec => Promise
  BY PromiseStarts, PromiseStep, PromiseInvInit, PromiseInvStep, PTL
  DEF Spec, Promise, Public!PromiseSpec
=============================================================================
