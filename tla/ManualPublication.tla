------------------------- MODULE ManualPublication -------------------------
(***************************************************************************)
(* The publication commands of the first version, registry/service.py       *)
(* (PromotionService), over the Reviews of ManualCapture and the repository   *)
(* of RegistryGit: preview, confirm and resume, each a process that may       *)
(* overlap another and be killed between any two accesses to a file, to the  *)
(* repository or to the remote.                                             *)
(*                                                                          *)
(* A preview is named by its Review batch and its base commit, of which its   *)
(* id is a digest.  Only a fetch that is acted upon is modelled: every step   *)
(* that decides by origin/main fetches it first.                            *)
(***************************************************************************)
EXTENDS ManualCapture, RegistryGit

VARIABLES
  pubs,                  \* publications/<preview>.json
  receipts,              \* candidate_publication_receipts/<Candidate>.json
  publishing             \* where a running publication command stands

vars == <<captureVars, batches, writing, gitVars, pubs, receipts, publishing>>

(* PublicationRecord                                                        *)
Publications == [state : {"previewed", "confirmed", "committed_pending_push",
                          "completed"},
                 turn : Turns \cup {None}, commit : Nat]

(* The shapes PublicationRecord accepts: a confirmed record has its approval  *)
(* and a committed one its commit.                                          *)
HasShape(r) ==
  /\ (r.turn = None) = (r.state = "previewed")
  /\ (r.commit = 0) = (r.state \in {"previewed", "confirmed"})

(* CandidatePublicationReceipt; its time is that of the approval.           *)
NoReceipt == [preview |-> NoPreview, commit |-> 0, turn |-> None]

Idle == [at |-> "idle", p |-> NoPreview, turn |-> None, held |-> None, next |-> None]

(* The files of two publications in one work tree.                          *)
Mixed == [batch |-> 0, base |-> 1]

Steps == {"idle", "look", "create", "compare", "replace", "resume", "write",
          "commit", "receipts", "remote"}

TypeOK ==
  /\ CaptureTypeOK
  /\ GitTypeOK
  /\ \A p \in DOMAIN pubs :
       p \in Preview /\ pubs[p] \in Publications /\ HasShape(pubs[p])
  /\ \A k \in Ordinals :
       receipts[k].turn \in Turns \/ receipts[k] = NoReceipt
  /\ \A s \in Shells :
       /\ publishing[s].at \in Steps /\ publishing[s].p \in Preview
       /\ publishing[s].at # "idle" => writing[s] = <<>>

Init ==
  /\ CaptureInit /\ GitInit
  /\ pubs = <<>>
  /\ receipts = [k \in Ordinals |-> NoReceipt]
  /\ publishing = [s \in Shells |-> Idle]

-----------------------------------------------------------------------------
At(s, step) == publishing[s].at = step
Goto(s, step) == publishing' = [publishing EXCEPT ![s].at = step]
P(s) == publishing[s].p
Held(s) == publishing[s].held

Starts(s, c) ==
  /\ At(s, "idle") /\ writing[s] = <<>>
  /\ publishing' = [publishing EXCEPT ![s] = c]

HasReceipt(k) == receipts[k] # NoReceipt

(* The last publication in the past of a commit, whose files it carries.    *)
LastPublished(c) ==
  LET by == {i \in commits[c].past : commits[i].by # NoPreview}
  IN  IF by = {} THEN NoPreview ELSE commits[Max(by)].by

(* inspect: a Decision of the preview already has a head in the Registry.   *)
AlreadyHead(b) == \E q \in Tree(head) : Accepted(q.batch) \cap Accepted(b) # {}

(* Mutant: the receipts and the Registry's heads are not consulted.         *)
FreshReview(b, base) ==
  /\ Accepted(b) # {}
  /\ \A k \in Accepted(b) : IsLatest(b, k)
  /\ Reviewable
  /\ ExactMain(base) /\ CleanExcept(NoPreview)

(* What preview and confirm both require: the accepted items are the latest,  *)
(* without receipts, of a completed Capture; main is exactly the fetched     *)
(* base; the Registry is clean and has none of the Decisions.               *)
Fresh(b, base) ==
  /\ Accepted(b) # {}
  /\ \A k \in Accepted(b) : IsLatest(b, k) /\ ~HasReceipt(k)
  /\ Reviewable
  /\ ExactMain(base) /\ CleanExcept(NoPreview)
  /\ ~AlreadyHead(b)

(* _guard_existing_publications: those under way are resumed first (which is  *)
(* Resume), and none is left when the preview goes on.                      *)
UnderWay(b) ==
  \E p \in DOMAIN pubs :
    /\ pubs[p].state \in {"confirmed", "committed_pending_push"}
    /\ Accepted(p.batch) \cap Accepted(b) # {}

(* preview, up to the store                                                 *)
StartPreview(s, b) ==
  /\ Written(b) /\ Accepted(b) # {} /\ ~UnderWay(b)
  /\ Starts(s, [Idle EXCEPT !.at = "look", !.p = [batch |-> b, base |-> 0]])
  /\ UNCHANGED <<gitVars, pubs, receipts>>

FreezePreview(s) ==
  /\ At(s, "look") /\ Fresh(P(s).batch, head) /\ Fetch
  /\ publishing' = [publishing EXCEPT ![s].at = "create", ![s].p.base = head]
  /\ UNCHANGED <<commits, head, remote, worktree, pubs, receipts>>

(* create_publication: created; an existing one is only the same while it is  *)
(* still previewed.                                                         *)
CreatePreview(s) ==
  /\ At(s, "create")
  /\ P(s) \in DOMAIN pubs => pubs[P(s)].state = "previewed"
  /\ pubs' = [p \in DOMAIN pubs \cup {P(s)} |->
                IF p = P(s) THEN [state |-> "previewed", turn |-> None, commit |-> 0]
                ELSE pubs[p]]
  /\ publishing' = [publishing EXCEPT ![s] = Idle]
  /\ UNCHANGED <<gitVars, receipts>>

-----------------------------------------------------------------------------
(* replace_publication reads, compares and writes; held is what the command   *)
(* read, next what it puts in its place.                                    *)
Replaces(s, held, next) ==
  publishing' = [publishing EXCEPT ![s].at = "compare", ![s].held = held,
                                   ![s].next = next]

(* Where the command goes when its replacement stands.                      *)
Replaced(s) ==
  CASE publishing[s].next.state = "completed" ->
         publishing' = [publishing EXCEPT ![s] = Idle]
    [] publishing[s].next.state = "committed_pending_push" ->
         publishing' = [publishing EXCEPT ![s].at = "remote",
                                          ![s].held = publishing[s].next]
    [] OTHER -> Goto(s, "resume")

Compare(s) ==
  /\ At(s, "compare")
  /\ LET now == pubs[P(s)]
         next == publishing[s].next
     IN  \/ now = next /\ Replaced(s)
         \/ now = Held(s) /\ now # next /\ Goto(s, "replace")
         \/ \* confirm: another command of the same Turn came first
            /\ now \notin {Held(s), next} /\ next.state = "confirmed"
            /\ now.turn = next.turn /\ Goto(s, "resume")
  /\ UNCHANGED <<gitVars, pubs, receipts>>

Replace(s) ==
  /\ At(s, "replace")
  /\ pubs' = [pubs EXCEPT ![P(s)] = publishing[s].next]
  /\ Replaced(s)
  /\ UNCHANGED <<gitVars, receipts>>

(* Mutant: the approval is not stored.                                      *)
ConfirmUnsigned(s, p, t) ==
  /\ pubs[p].state = "previewed" /\ Fresh(p.batch, p.base) /\ Fetch
  /\ Starts(s, [at |-> "compare", p |-> p, turn |-> t, held |-> pubs[p],
                next |-> [pubs[p] EXCEPT !.state = "confirmed"]])
  /\ UNCHANGED <<commits, head, remote, worktree, pubs, receipts>>

(* confirm of a preview that is still fresh                                 *)
ConfirmFresh(s, p, t) ==
  /\ pubs[p].state = "previewed" /\ Fresh(p.batch, p.base) /\ Fetch
  /\ Starts(s, [at |-> "compare", p |-> p, turn |-> t, held |-> pubs[p],
                next |-> [pubs[p] EXCEPT !.state = "confirmed", !.turn = t]])
  /\ UNCHANGED <<commits, head, remote, worktree, pubs, receipts>>

(* confirm again by the Turn that did, and resume                           *)
Resume(s, p) ==
  /\ pubs[p].state \in {"confirmed", "committed_pending_push"}
  /\ Starts(s, [Idle EXCEPT !.at = "resume", !.p = p])
  /\ UNCHANGED <<gitVars, pubs, receipts>>

-----------------------------------------------------------------------------
(* The command holds the record and its commit: the receipts come first.    *)
Adopts(s, r) ==
  publishing' = [publishing EXCEPT ![s].at = "receipts", ![s].held = r]

(* reconcile_exact_commit: nothing is committed yet, and require_clean finds   *)
(* no files but its own; or the head is the exact commit.                   *)
Reconcile(s) ==
  /\ At(s, "resume") /\ pubs[P(s)].state = "confirmed" /\ Fetch
  /\ LET r == pubs[P(s)]
         base == P(s).base
     IN  \/ /\ head = base /\ remote = base /\ CleanExcept(P(s))
            /\ publishing' = [publishing EXCEPT ![s].at = "write", ![s].held = r]
         \/ /\ head # base /\ IsExactCommit(head, P(s))
            /\ IsAncestor(head, remote) \/ remote = base
            /\ Adopts(s, [r EXCEPT !.commit = head])
  /\ UNCHANGED <<commits, head, remote, worktree, pubs, receipts>>

(* resume of a committed publication: the receipts are looked at again.     *)
ResumePending(s) ==
  /\ At(s, "resume") /\ pubs[P(s)].state = "committed_pending_push"
  /\ Adopts(s, pubs[P(s)])
  /\ UNCHANGED <<gitVars, pubs, receipts>>

(* resume of a completed one only looks at receipts and remote.             *)
ResumeCompleted(s) ==
  /\ At(s, "resume") /\ pubs[P(s)].state = "completed"
  /\ publishing' = [publishing EXCEPT ![s] = Idle]
  /\ UNCHANGED <<gitVars, pubs, receipts>>

(* write_exact: over files the head already carries nothing is uncommitted. *)
WriteExact(s) ==
  /\ At(s, "write") /\ Goto(s, "commit")
  /\ worktree' = IF worktree = NoPreview /\ LastPublished(head) = P(s) THEN NoPreview
                 ELSE IF CleanExcept(P(s)) THEN P(s) ELSE Mixed
  /\ UNCHANGED <<commits, head, origin, remote, pubs, receipts>>

(* commit_exact                                                             *)
CommitExact(s) ==
  /\ At(s, "commit") /\ head = P(s).base /\ worktree = P(s)
  /\ commits' = WithCommit(head, P(s))
  /\ head' = Len(commits') /\ worktree' = NoPreview
  /\ Adopts(s, [Held(s) EXCEPT !.commit = Len(commits')])
  /\ UNCHANGED <<origin, remote, pubs, receipts>>

(* _ensure_receipts: one file per Candidate, created or already the same.   *)
Receipt(s) == [preview |-> P(s), commit |-> Held(s).commit, turn |-> Held(s).turn]
Missing(s) == {k \in Accepted(P(s).batch) : receipts[k] # Receipt(s)}

PutReceipt(s) ==
  /\ At(s, "receipts") /\ Missing(s) # {}
  /\ LET k == Min(Missing(s))
     IN  ~HasReceipt(k) /\ receipts' = [receipts EXCEPT ![k] = Receipt(s)]
  /\ UNCHANGED <<gitVars, pubs, publishing>>

(* _adopt_commit, or _resume_pending of what is committed already           *)
ReceiptsStand(s) ==
  /\ At(s, "receipts") /\ Missing(s) = {}
  /\ IF Held(s).state = "confirmed"
     THEN Replaces(s, [Held(s) EXCEPT !.commit = 0],
                   [Held(s) EXCEPT !.state = "committed_pending_push"])
     ELSE Goto(s, "remote")
  /\ UNCHANGED <<gitVars, pubs, receipts>>

(* Mutant: a main that is not the base is taken to contain the commit.      *)
TrustRemote(s) ==
  /\ At(s, "remote")
  /\ remote' = IF remote = P(s).base THEN Held(s).commit ELSE remote
  /\ origin' = remote'
  /\ Replaces(s, Held(s), [Held(s) EXCEPT !.state = "completed"])
  /\ UNCHANGED <<commits, head, worktree, pubs, receipts>>

(* publication_remote_state and push_exact: the commit is on main already (as  *)
(* the reconciliation may have found), or main is still the base and takes    *)
(* it.  A push that is refused, lost or not seen by the fetch after it ends   *)
(* the command (BreaksOff).                                                 *)
Push(s) ==
  /\ At(s, "remote")
  /\ \/ IsAncestor(Held(s).commit, remote) /\ UNCHANGED remote
     \/ remote = P(s).base /\ remote' = Held(s).commit
  /\ origin' = remote'
  /\ Replaces(s, Held(s), [Held(s) EXCEPT !.state = "completed"])
  /\ UNCHANGED <<commits, head, worktree, pubs, receipts>>

(* The command is killed, or refuses to go on.                              *)
BreaksOff(s) ==
  /\ publishing[s].at # "idle"
  /\ publishing' = [publishing EXCEPT ![s] = Idle]
  /\ UNCHANGED <<gitVars, pubs, receipts>>

-----------------------------------------------------------------------------
Publishes(s) ==
  \/ \E b \in 1..MaxBatches : StartPreview(s, b)
  \/ FreezePreview(s) \/ CreatePreview(s) \/ Compare(s) \/ Replace(s)
  \/ \E p \in DOMAIN pubs : Resume(s, p) \/ \E t \in Turns : ConfirmFresh(s, p, t)
  \/ Reconcile(s) \/ ResumePending(s) \/ ResumeCompleted(s)
  \/ WriteExact(s) \/ CommitExact(s)
  \/ PutReceipt(s) \/ ReceiptsStand(s) \/ Push(s) \/ BreaksOff(s)

(* Bound: a Capture command overlaps other Captures and Reviews, and a         *)
(* publication other publications and Reviews, but a Capture and a            *)
(* publication do not overlap.                                              *)
NoCaptureRuns ==
  \A c \in Shells : \A i \in DOMAIN writing[c] : writing[c][i].file = "batch"

Next ==
  \/ \E s \in Shells :
       \/ /\ At(s, "idle")
          /\ \/ (\A c \in Shells : At(c, "idle")) /\ Captures(s)
             \/ Reviews(s)
             \/ Writes(s)
          /\ UNCHANGED <<gitVars, pubs, receipts, publishing>>
       \/ /\ NoCaptureRuns /\ Publishes(s)
          /\ UNCHANGED <<captureVars, batches, writing>>
  \/ /\ ForeignPush \/ OperatorPull
     /\ UNCHANGED <<captureVars, batches, writing, pubs, receipts, publishing>>

Spec == Init /\ [][Next]_vars

-----------------------------------------------------------------------------
(* A Candidate is published once: no history has two publications of it,      *)
(* however previews, confirmations and recoveries overlap or break off        *)
(* (registry/service.py _guard_existing_publications, _require_preview_fresh).*)
PublishedOnce ==
  \A c \in {head, remote} : \A p, q \in Tree(c) :
    p # q => Accepted(p.batch) \cap Accepted(q.batch) = {}

(* The private records tell the truth about Git: a receipt names the exact     *)
(* commit of a preview the user confirmed and that accepts the Candidate, and  *)
(* a publication that says completed is on the remote main with a receipt for  *)
(* each Candidate (registry/service.py _adopt_commit, _resume_pending).       *)
RecordsAreTrue ==
  /\ \A k \in Ordinals : HasReceipt(k) =>
       LET r == receipts[k]
       IN  /\ IsExactCommit(r.commit, r.preview)
           /\ pubs[r.preview].state # "previewed"
           /\ k \in Accepted(r.preview.batch)
  /\ \A p \in DOMAIN pubs : pubs[p].state = "completed" =>
       /\ IsAncestor(pubs[p].commit, remote)
       /\ \A k \in Accepted(p.batch) : receipts[k].preview = p

(* An approval that is stored stays (filesystem.py                            *)
(* _require_same_publication_payload: "Publication approval is immutable").   *)
ApprovalStays ==
  [][\A p \in DOMAIN pubs :
       pubs[p].turn # None => pubs'[p].turn = pubs[p].turn]_vars
=============================================================================
