---------------------------- MODULE Publication ----------------------------
(***************************************************************************)
(* Publishing reviewed Decisions (central/web/previews.py, publications.py   *)
(* and application.py): a preview freezes a review batch over a base commit, *)
(* its confirmation is stored and claims the families, exactly one commit is *)
(* made and pushed, and the read model follows.                             *)
(*                                                                          *)
(* Central serves requests one at a time (one event loop, synchronous        *)
(* bodies); handler is the request in progress, cut where the code commits a *)
(* transaction or changes Git: its checkpoints.  Between two steps others    *)
(* push to the remote, an operator pulls, devices upload revisions (the      *)
(* confirmation revalidates them), and Central may die and start again.      *)
(* Only SQLite and Git survive.                                             *)
(***************************************************************************)
EXTENDS WebReview, RegistryProjection

CONSTANT MaxFaults     \* bound: crashes, failed Git commands and installs

ASSUME PublicationAssumption == MaxFaults \in Nat

VARIABLES
  previews,            \* web_publication_previews
  publications,        \* web_publications, by preview
  claims,              \* web_publication_families
  receipts,            \* web_candidate_receipts
  handler,             \* the request in progress
  faults               \* faults so far

recordVars == <<previews, publications, claims, receipts>>
vars == <<reviewVars, gitVars, projection, recordVars, handler, faults>>

States == {"confirmed", "committed_pending_push", "completed"}

Record == [state : States, commit : Nat, ambiguous : BOOLEAN]

NoReceipt == [preview |-> NoPreview, commit |-> NoCommit]

Steps == {"down", "idle", "planned", "checked", "confirmed", "written",
          "committed", "pending", "pushing", "pushed", "proving",
          "installing"}

TypeOK ==
  /\ ReviewTypeOK /\ GitTypeOK /\ ProjectionTypeOK
  /\ previews \subseteq Preview
  /\ DOMAIN publications \subseteq previews
  /\ publications \in [DOMAIN publications -> Record]
  /\ claims \in [Families -> DOMAIN publications \cup {NoPreview}]
  /\ receipts \in [Families -> [preview : Preview, commit : Nat]]
  /\ handler \in [step : Steps, preview : Preview, commit : Nat]
  /\ faults \in Nat

At(step, p, c) == [step |-> step, preview |-> p, commit |-> c]
Down == At("down", NoPreview, NoCommit)
Idle == At("idle", NoPreview, NoCommit)

Init ==
  /\ ReviewInit /\ GitInit /\ ProjectionInit
  /\ previews = {}
  /\ publications = [p \in {} |-> [state |-> "confirmed", commit |-> NoCommit,
                                   ambiguous |-> FALSE]]
  /\ claims = [f \in Families |-> NoPreview]
  /\ receipts = [f \in Families |-> NoReceipt]
  /\ handler = Down
  /\ faults = 0

-----------------------------------------------------------------------------
(* Previews *)

(* _require_latest_and_unpublished: every accepted item is its family's      *)
(* newest review, of the current revision, and the family has no receipt.   *)
ReviewIsCurrent(b) ==
  \A f \in Accepted(b) :
    /\ IsLatest(b, f)
    /\ receipts[f] = NoReceipt
    /\ current[f] = batches[b][f].revision

(* RegistryCatalog.inspect refuses a Decision that already has a head.      *)
Undecided(b, c) ==
  \A p \in Tree(c) : Accepted(p.batch) \cap Accepted(b) = {}

(* What GET of a preview and any refused request leave behind: a fetch.     *)
FetchOnly ==
  /\ handler = Idle /\ batches # <<>> /\ origin # remote
  /\ Fetch
  /\ UNCHANGED <<reviewVars, commits, head, remote, worktree, projection,
                 recordVars, handler, faults>>

(* CentralPreviewService.create, up to its transaction: the plan is made     *)
(* from the committed catalog at the base.                                  *)
PlanPreview(b) ==
  /\ handler = Idle
  /\ Accepted(b) # {} /\ ReviewIsCurrent(b)
  /\ Fetch /\ ExactMain(head) /\ CleanExcept(NoPreview) /\ Undecided(b, head)
  /\ handler' = At("planned", [batch |-> b, base |-> head], NoCommit)
  /\ UNCHANGED <<reviewVars, commits, head, remote, worktree, projection,
                 recordVars, faults>>

(* Its transaction revalidates the review and fetches again.                *)
FreezePreview ==
  /\ handler.step = "planned"
  /\ LET p == handler.preview
     IN  IF ReviewIsCurrent(p.batch)
         THEN /\ Fetch
              /\ previews' = IF ExactMain(p.base) THEN previews \cup {p}
                                                 ELSE previews
         ELSE UNCHANGED <<origin, previews>>
  /\ handler' = Idle
  /\ UNCHANGED <<reviewVars, commits, head, remote, worktree, projection,
                 publications, claims, receipts, faults>>

-----------------------------------------------------------------------------
(* Confirmation *)

(* check_publishability, read before the confirmation's transaction.        *)
CheckConfirm(p) ==
  /\ handler = Idle
  /\ p \in previews \ DOMAIN publications
  /\ ReviewIsCurrent(p.batch)
  /\ Fetch /\ ExactMain(p.base) /\ CleanExcept(NoPreview)
  /\ Undecided(p.batch, p.base)
  /\ handler' = At("checked", p, NoCommit)
  /\ UNCHANGED <<reviewVars, commits, head, remote, worktree, projection,
                 recordVars, faults>>

(* require_current_central_state and claim_publication_families.            *)
(* Mutant: what the check before the transaction read is trusted.           *)
CheckedBefore(p) == TRUE

Revalidated(p) == ReviewIsCurrent(p.batch)

Claimable(p) == \A f \in Accepted(p.batch) : claims[f] \in {NoPreview, p}

Confirm ==
  /\ handler.step = "checked"
  /\ LET p == handler.preview
     IN  IF Revalidated(p) /\ Claimable(p)
         THEN /\ publications' =
                   [q \in DOMAIN publications \cup {p} |->
                      IF q = p
                      THEN [state |-> "confirmed", commit |-> NoCommit,
                            ambiguous |-> FALSE]
                      ELSE publications[q]]
              /\ claims' = [f \in Families |->
                              IF f \in Accepted(p.batch) THEN p ELSE claims[f]]
              /\ handler' = At("confirmed", p, NoCommit)
         ELSE UNCHANGED <<publications, claims>> /\ handler' = Idle
  /\ UNCHANGED <<reviewVars, gitVars, projection, previews, receipts, faults>>

(* Mutant: a stopped publication can be resumed.                            *)
ResumeStopped(p) ==
  /\ handler = Idle
  /\ p \in DOMAIN publications
  /\ handler' =
       CASE publications[p].state = "confirmed" -> At("confirmed", p, NoCommit)
         [] publications[p].state = "committed_pending_push" ->
              At("pending", p, NoCommit)
         [] OTHER -> At("proving", p, publications[p].commit)
  /\ UNCHANGED <<reviewVars, gitVars, projection, recordVars, faults>>

(* resume, a replayed confirmation, and a second confirmation of the same    *)
(* preview all continue where the stored publication stands.  An ambiguous   *)
(* one is refused.                                                          *)
Resume(p) ==
  /\ handler = Idle
  /\ p \in DOMAIN publications /\ ~publications[p].ambiguous
  /\ handler' =
       CASE publications[p].state = "confirmed" -> At("confirmed", p, NoCommit)
         [] publications[p].state = "committed_pending_push" ->
              At("pending", p, NoCommit)
         [] OTHER -> At("proving", p, publications[p].commit)
  /\ UNCHANGED <<reviewVars, gitVars, projection, recordVars, faults>>

-----------------------------------------------------------------------------
(* Committing *)

(* _latch_ambiguous.                                                        *)
(* Mutant: what the publication has done is forgotten.                      *)
LatchAndReset(p) ==
  publications' = [publications EXCEPT
                     ![p] = [state |-> "confirmed", commit |-> NoCommit,
                             ambiguous |-> TRUE]]

Latch(p) ==
  publications' = [publications EXCEPT ![p].ambiguous = TRUE]

(* reconcile_exact_commit: HEAD may already be this preview's commit, made   *)
(* by a request that died before it was recorded.                           *)
Adoptable(c, p) ==
  IsExactCommit(c, p) /\ (IsAncestor(c, remote) \/ remote = p.base)

AdoptCommit ==
  /\ handler.step = "confirmed"
  /\ Adoptable(head, handler.preview)
  /\ Fetch
  /\ handler' = At("committed", handler.preview, head)
  /\ UNCHANGED <<reviewVars, commits, head, remote, worktree, projection,
                 recordVars, faults>>

(* No commit yet: write the frozen files, unless another publication's       *)
(* leftovers are in the way (RegistryGitConflict, nothing changes).         *)
WriteFiles ==
  /\ handler.step = "confirmed"
  /\ LET p == handler.preview
     IN  /\ ExactMain(p.base)
         /\ IF CleanExcept(p)
            THEN worktree' = p /\ handler' = At("written", p, NoCommit)
            ELSE handler' = Idle /\ UNCHANGED worktree
  /\ Fetch
  /\ UNCHANGED <<reviewVars, commits, head, remote, projection, recordVars,
                 faults>>

(* Any other shape of HEAD and origin/main stops for good.                  *)
StopUncommitted ==
  /\ handler.step = "confirmed"
  /\ LET p == handler.preview
     IN  /\ ~ExactMain(p.base) /\ ~Adoptable(head, p)
         /\ Latch(p)
  /\ Fetch /\ handler' = Idle
  /\ UNCHANGED <<reviewVars, commits, head, remote, worktree, projection,
                 previews, claims, receipts, faults>>

(* commit_exact: HEAD must still be the base.                               *)
(* Mutant: a commit whose outcome is unclear is made again, over any HEAD.  *)
CommitAgain ==
  /\ handler.step = "written"
  /\ LET p == handler.preview
     IN  /\ commits' = WithCommit(head, p)
         /\ head' = Len(commits')
         /\ worktree' = NoPreview
         /\ handler' \in {handler, At("committed", p, head')}
  /\ Len(commits) <= 2 * MaxReviews
  /\ UNCHANGED <<reviewVars, origin, remote, projection, recordVars, faults>>

CommitExact ==
  /\ handler.step = "written"
  /\ LET p == handler.preview
     IN  IF head = p.base /\ CleanExcept(p)
         THEN /\ commits' = WithCommit(head, p)
              /\ head' = Len(commits')
              /\ worktree' = NoPreview
              /\ handler' = At("committed", p, head')
         ELSE UNCHANGED <<commits, head, worktree>> /\ handler' = Idle
  /\ UNCHANGED <<reviewVars, origin, remote, projection, recordVars, faults>>

(* put_family_receipts: one receipt of the commit for each accepted family.  *)
(* Mutant: the rejected and skipped families of the batch get one too.      *)
ReceiptsOfAll(p, c) ==
  [f \in Families |->
     IF f \in DOMAIN batches[p.batch] THEN [preview |-> p, commit |-> c]
                                      ELSE receipts[f]]

(* Mutant: the receipts are left to a later step.                           *)
ReceiptsLater(p, c) == receipts

WithReceipts(p, c) ==
  [f \in Families |->
     IF f \in Accepted(p.batch) THEN [preview |-> p, commit |-> c]
                                ELSE receipts[f]]

(* The receipts and the new state, in one transaction.                      *)
RecordCommit ==
  /\ handler.step = "committed"
  /\ LET p == handler.preview  c == handler.commit
     IN  /\ \A f \in Accepted(p.batch) :
              receipts[f] \in {NoReceipt, [preview |-> p, commit |-> c]}
         /\ receipts' = WithReceipts(p, c)
         /\ publications' = [publications EXCEPT
                               ![p].state = "committed_pending_push",
                               ![p].commit = c]
         /\ handler' = At("pending", p, NoCommit)
  /\ UNCHANGED <<reviewVars, gitVars, projection, previews, claims, faults>>

-----------------------------------------------------------------------------
(* Pushing *)

Complete(p) ==
  /\ publications' = [publications EXCEPT ![p].state = "completed"]
  /\ handler' = At("proving", p, publications[p].commit)

(* publication_remote_state: the remote has the commit, or only its base,    *)
(* or something else.                                                       *)
CheckRemote ==
  /\ handler.step = "pending"
  /\ Fetch
  /\ LET p == handler.preview
         c == publications[p].commit
     IN  \/ /\ IsAncestor(c, remote)
            /\ Complete(p)
         \/ /\ remote = p.base
            /\ handler' = At("pushing", p, NoCommit)
            /\ UNCHANGED publications
         \/ /\ ~IsAncestor(c, remote) /\ remote # p.base
            /\ Latch(p)
            /\ handler' = Idle
  /\ UNCHANGED <<reviewVars, commits, head, remote, worktree, projection,
                 previews, claims, receipts, faults>>

(* push_exact: without force, so the remote takes the commit only over its   *)
(* base.  Git moves its own copy of main once the remote has answered.      *)
(* Mutant: the push is forced over whatever the remote holds.               *)
PushForced ==
  /\ handler.step = "pushing"
  /\ remote' = publications[handler.preview].commit
  /\ origin' \in {origin, remote'}
  /\ handler' = At("pushed", handler.preview, NoCommit)
  /\ UNCHANGED <<reviewVars, commits, head, worktree, projection, recordVars,
                 faults>>

Push ==
  /\ handler.step = "pushing"
  /\ remote = handler.preview.base
  /\ remote' = publications[handler.preview].commit
  /\ origin' \in {origin, remote'}
  /\ handler' = At("pushed", handler.preview, NoCommit)
  /\ UNCHANGED <<reviewVars, commits, head, worktree, projection, recordVars,
                 faults>>

(* Another commit came first.  push_exact's fetch sees it, or the remote     *)
(* rejects the push and the publication stays pending.                      *)
(* Mutant: a rejected push is not noticed.                                  *)
PushTrusted ==
  /\ handler.step = "pushing"
  /\ remote # handler.preview.base
  /\ handler' = At("pushed", handler.preview, NoCommit)
  /\ UNCHANGED <<reviewVars, gitVars, projection, recordVars, faults>>

PushRaced ==
  /\ handler.step = "pushing"
  /\ remote # handler.preview.base
  /\ Fetch /\ handler' = Idle
  /\ Latch(handler.preview) \/ UNCHANGED publications
  /\ UNCHANGED <<reviewVars, commits, head, remote, worktree, projection,
                 previews, claims, receipts, faults>>

(* The fetch after the push verifies that the remote has the commit.        *)
CompletePush ==
  /\ handler.step = "pushed"
  /\ Fetch
  /\ Complete(handler.preview)
  /\ UNCHANGED <<reviewVars, commits, head, remote, worktree, projection,
                 previews, claims, receipts, faults>>

-----------------------------------------------------------------------------
(* The read model *)

(* _synchronize_completed_publication, after a completed publish or resume. *)
(* Mutant: a commit that cannot be proved leaves the read model as it is.   *)
ProveOrSkip ==
  /\ handler.step = "proving"
  /\ LET c == handler.commit
     IN  IF Proven(c)
         THEN MarkSyncing(c) /\ handler' = At("installing", handler.preview, c)
         ELSE UNCHANGED projection /\ handler' = Idle
  /\ UNCHANGED <<reviewVars, gitVars, recordVars, faults>>

Prove ==
  /\ handler.step = "proving"
  /\ LET c == handler.commit
     IN  IF Proven(c)
         THEN MarkSyncing(c) /\ handler' = At("installing", handler.preview, c)
         ELSE MarkUnavailable(c) /\ handler' = Idle
  /\ UNCHANGED <<reviewVars, gitVars, recordVars, faults>>

(* _synchronize_registry_on_startup.                                        *)
Startup ==
  /\ handler = Down
  /\ Fetch
  /\ IF ExactMain(head)
     THEN MarkSyncing(head) /\ handler' = At("installing", NoPreview, head)
     ELSE MarkUnavailable(NoCommit) /\ handler' = Idle
  /\ UNCHANGED <<reviewVars, commits, head, remote, worktree, recordVars,
                 faults>>

Install ==
  /\ handler.step = "installing"
  /\ InstallProjection(handler.commit)
  /\ handler' = Idle
  /\ UNCHANGED <<reviewVars, gitVars, recordVars, faults>>

(* Proving or installing fails, or the fetch of a start.                    *)
InstallFails ==
  /\ faults < MaxFaults
  /\ \/ /\ handler.step \in {"proving", "installing"}
        /\ MarkUnavailable(handler.commit)
     \/ handler = Down /\ MarkUnavailable(NoCommit)
  /\ handler' = Idle
  /\ faults' = faults + 1
  /\ UNCHANGED <<reviewVars, gitVars, recordVars>>

-----------------------------------------------------------------------------
(* Faults *)

Crash ==
  /\ handler # Down /\ faults < MaxFaults
  /\ handler' = Down
  /\ faults' = faults + 1
  /\ UNCHANGED <<reviewVars, gitVars, projection, recordVars>>

(* A Git command fails or times out, after the step it belongs to took       *)
(* effect or before: the request ends as it stands, or stops the publication *)
(* when the code can no longer tell what happened (PublicationGitAmbiguous). *)
GitFails ==
  /\ handler.step \in {"planned", "confirmed", "written", "committed",
                       "pending", "pushing", "pushed"}
  /\ faults < MaxFaults
  /\ handler' = Idle
  /\ faults' = faults + 1
  /\ \/ handler.step # "planned" /\ Latch(handler.preview)
     \/ UNCHANGED publications
  /\ UNCHANGED <<reviewVars, gitVars, projection, previews, claims, receipts>>

-----------------------------------------------------------------------------
Work ==
  \/ FreezePreview \/ Confirm \/ AdoptCommit \/ WriteFiles
  \/ StopUncommitted \/ CommitExact \/ RecordCommit \/ CheckRemote
  \/ Push \/ PushRaced \/ CompletePush \/ Prove \/ Install

Fault == InstallFails \/ Crash \/ GitFails

Others ==
  /\ \/ /\ handler # Down
        /\ \E f \in Families : Upload(f)
        /\ UNCHANGED gitVars
     \/ (ForeignPush \/ OperatorPull) /\ UNCHANGED reviewVars
  /\ UNCHANGED <<projection, recordVars, handler, faults>>

Review ==
  /\ handler = Idle
  /\ ReviewNext
  /\ UNCHANGED <<gitVars, projection, recordVars, handler, faults>>

Next ==
  \/ Work \/ Fault \/ Others \/ Review \/ Startup \/ FetchOnly
  \/ \E b \in DOMAIN batches : PlanPreview(b)
  \/ \E p \in previews : CheckConfirm(p)
  \/ \E p \in DOMAIN publications : Resume(p)

Spec == Init /\ [][Next]_vars

-----------------------------------------------------------------------------
(* Properties *)

(* A family becomes at most one Decision: no two commits, pushed or not,    *)
(* carry it, however often a publication is confirmed, interrupted and       *)
(* resumed ("It never creates a second Decision, preview, or commit").      *)
CommittedOnce ==
  \A i, j \in DOMAIN commits :
    i # j /\ NoPreview \notin {commits[i].by, commits[j].by} =>
      Accepted(commits[i].by.batch) \cap Accepted(commits[j].by.batch) = {}

(* Success is claimed only for the preview's exact commit, and only once     *)
(* the remote main holds it.                                                *)
CompletedIsOnMain ==
  \A p \in DOMAIN publications :
    publications[p].state = "completed" =>
      /\ IsAncestor(publications[p].commit, remote)
      /\ IsExactCommit(publications[p].commit, p)

(* Whatever Central has put on the remote main is on record: the             *)
(* publication knows its commit and each of its families has a receipt, so   *)
(* a crash after the push cannot leave a Decision that Central forgot.      *)
MainIsRecorded ==
  \A i \in commits[remote].past : commits[i].by # NoPreview =>
    LET p == commits[i].by
    IN  /\ p \in DOMAIN publications
        /\ publications[p].commit = i
        /\ \A f \in Accepted(p.batch) :
              receipts[f] = [preview |-> p, commit |-> i]

(* A receipt belongs to the one publication that claimed the family.        *)
ReceiptsAreClaimed ==
  \A f \in Families : receipts[f] # NoReceipt =>
    /\ claims[f] = receipts[f].preview
    /\ f \in Accepted(claims[f].batch)
    /\ publications[claims[f]].commit = receipts[f].commit
    /\ publications[claims[f]].state # "confirmed"

(* Between requests, an available read model shows a tree of main and every  *)
(* completed publication: it may be hidden, never silently stale.           *)
NoStaleRegistry ==
  handler = Idle /\ projection.state = "available" =>
    /\ projection.tree = Tree(projection.active)
    /\ IsAncestor(projection.active, remote)
    /\ \A p \in DOMAIN publications :
          publications[p].state = "completed" => p \in projection.tree

(* What is confirmed is what the reviewer last decided, about the revision   *)
(* that is current at that moment, whatever moved since the preview was      *)
(* shown; and no other publication has the family.                          *)
ConfirmedIsCurrent ==
  [][\A p \in DOMAIN publications' \ DOMAIN publications :
       \A f \in Accepted(p.batch) :
         /\ current[f] = batches[p.batch][f].revision
         /\ \A b \in DOMAIN batches : f \in DOMAIN batches[b] => b <= p.batch
         /\ claims[f] = NoPreview]_vars

(* Central moves the remote main only from a preview's base to the commit of *)
(* that preview, recorded and not stopped; nobody's commit is overwritten.  *)
PushesOverBase ==
  [][remote' # remote /\ commits'[remote'].by # NoPreview =>
       LET p == commits'[remote'].by
       IN  /\ p.base = remote
           /\ commits'[remote'].parent = remote
           /\ publications[p].state = "committed_pending_push"
           /\ ~publications[p].ambiguous]_vars

(* A stopped publication never moves again, and none moves backwards or      *)
(* changes its commit.                                                      *)
Rank(s) == CASE s = "confirmed" -> 1
             [] s = "committed_pending_push" -> 2
             [] s = "completed" -> 3

StopsForGood ==
  [][\A p \in DOMAIN publications :
       LET old == publications[p]  new == publications'[p]
       IN  /\ Rank(old.state) <= Rank(new.state)
           /\ old.ambiguous => new = old
           /\ old.commit # NoCommit => new.commit = old.commit]_vars

(* Publication implements the promise of a confirmed preview: its families     *)
(* are its own, it makes one commit, which is on record for all of them       *)
(* before the remote main has it and on the remote main before success is      *)
(* reported; once stopped, nothing of it moves (publications.py publish,      *)
(* resume, _resume_confirmed, _complete_or_push).                            *)
PhaseOf(r) ==
  IF r.ambiguous THEN "stopped"
  ELSE IF r.state = "completed" THEN "reported" ELSE "open"

Central == {i \in DOMAIN commits : commits[i].by # NoPreview}

Public == INSTANCE DecisionPublication WITH
  Families <- Families, Nobody <- NoPreview, NoDecision <- NoCommit,
  phase <- [p \in DOMAIN publications |-> PhaseOf(publications[p])],
  owner <- claims,
  made <- [i \in Central |-> commits[i].by],
  receipt <- [f \in Families |-> receipts[f].commit],
  public <- Tree(remote)

Promise == Public!PromiseSpec

(* "The synchronizer is idempotent": a request hides the read model only     *)
(* when it is not the tree of a main that Central has in full, or when a    *)
(* fault happened.                                                          *)
ServesMain ==
  /\ projection.state = "available"
  /\ head = origin /\ projection.tree = Tree(head)

RegistryStaysServed ==
  [][ServesMain /\ projection'.state = "unavailable" => faults' # faults]_vars

(* Every confirmed publication ends: pushed, or stopped for an operator; or   *)
(* it waits behind the files of a stopped one, which only an operator may    *)
(* remove ("recover the exact publication or stop ambiguous").              *)
Ended(p) == publications[p].state = "completed" \/ publications[p].ambiguous

BlockedByStopped ==
  worktree # NoPreview /\ publications[worktree].ambiguous

ConfirmedEnds ==
  []<>(BlockedByStopped \/ \A p \in DOMAIN publications : Ended(p))

(* The process runs its requests and is restarted, and somebody resumes an   *)
(* unfinished publication again and again, which the API allows.  (A batch   *)
(* has at most one publication: a second would claim the same families.)    *)
ResumeUnfinished(b) ==
  \E p \in DOMAIN publications : p.batch = b /\ ~Ended(p) /\ Resume(p)

Process == WF_vars(Work) /\ WF_vars(Startup)

FairSpec ==
  Spec /\ Process /\ \A b \in 1 .. MaxReviews : SF_vars(ResumeUnfinished(b))

(* The reviewer has only the web pages.  They offer no second confirmation   *)
(* of a preview that has a publication, and resume only where the push is    *)
(* pending.                                                                 *)
Offered(p) == publications[p].state = "committed_pending_push"

ResumeOffered(b) ==
  \E p \in DOMAIN publications : p.batch = b /\ Offered(p) /\ Resume(p)

BrowserNext == Next /\ \A p \in DOMAIN publications : Resume(p) => Offered(p)

BrowserSpec ==
  /\ Init /\ [][BrowserNext]_vars
  /\ Process /\ \A b \in 1 .. MaxReviews : SF_vars(ResumeOffered(b))
=============================================================================
