--------------------------- MODULE CaptureGroups ---------------------------
(***************************************************************************)
(* Central's Capture service: public Update actions create one Capture      *)
(* group per repository, an Agent device claims it under a lease, plans one *)
(* slice per leaf route of the frozen route snapshot, uploads one batch per *)
(* slice and completes or fails the group (central/service.py).             *)
(*                                                                          *)
(* Every handler is one BEGIN IMMEDIATE transaction, hence one action; a    *)
(* call that is refused rolls back, and a replayed call returns the stored  *)
(* answer: both are stutters and have no action.  Callers are unconstrained *)
(* here: a device may make any call at any time with any lease token it was *)
(* ever handed, so delayed, duplicated and reordered calls are included.    *)
(***************************************************************************)
EXTENDS CandidateFamilies, Integers, Sequences

CONSTANTS
  Repositories,    \* repositories of the organization
  ClientActions,   \* client_action_id values of browser Update actions
  Users,           \* actors of the organization
  Devices,         \* Agent devices of the organization
  Batches,         \* the Candidate batches an Agent may upload for a slice
  LeaseSeconds,    \* ticks a claim or heartbeat keeps a lease alive (30 s)
  RetryDelays,     \* _RETRY_DELAYS: ticks before the n-th retry
  MaxAttempts,     \* bound: claims of one group that are explored
  Home,            \* the repository a family id is minted for
  RouteHeads,      \* per repository, the sets of enabled route heads
                   \* an operator may install
  Toggled,         \* repositories and spaces an operator may enable/disable
  NoDevice, NoBoundary, NoBatch, NoResult, NoRequest

(* capture_request_id is a digest of the repository, the template and the  *)
(* client action; the actor is not part of it.                             *)
Requests == Repositories \X ClientActions
Repository(r) == r[1]

ASSUME GroupAssumption ==
  /\ LeaseSeconds \in Nat \ {0}
  /\ RetryDelays \in Seq(Nat \ {0})
  /\ MaxAttempts \in Nat \ {0}
  /\ Batches \subseteq SUBSET Item
  /\ Home \in [Families -> Repositories]
  /\ RouteHeads \in [Repositories -> SUBSET SUBSET Routes]
  /\ NoDevice \notin Devices
  /\ NoBoundary \notin Boundaries
  /\ NoBatch \notin Batches
  /\ NoResult \notin [Routes -> Batches \cup {NoBatch}]
  /\ NoRequest \notin Requests

ASSUME ToggledAssumption == Toggled \subseteq Repositories \cup Spaces

ActiveStates == {"queued", "claimed", "running", "failed_retryable"}
SuccessStates == {"succeeded", "succeeded_no_candidates"}
TerminalStates == SuccessStates \cup {"failed_terminal"}
LeasedStates == {"claimed", "running"}
States == {"absent"} \cup ActiveStates \cup TerminalStates

Null == -1         \* an SQL NULL deadline

VARIABLES
  enabled,         \* repositories and Decision Spaces that are enabled
  routeHeads,      \* repository_route_heads, per repository
  actions,         \* capture_group_actions: (user, client action) -> group
  created,         \* groups in creation order (created_at, request_id)
  state,           \* capture_groups.state
  snapshot,        \* the route snapshot frozen at creation
  attempts,        \* attempt_count
  holder,          \* claimed_device_id
  token,           \* the claim whose token digest is stored, 0 for NULL
  lease,           \* ticks until lease_expires_at, or Null
  retry,           \* ticks until retry_at, or Null
  plan,            \* capture_slices: the boundary each route is planned with
  receipt,         \* capture_slices: the batch each slice accepted
  result,          \* result_receipt_digest: the receipts it aggregates
  lastEvent,       \* code of the newest capture_group_events row
  issued,          \* history: the devices handed a token, in claim order
  writer           \* history: the token of the newest accepted device call

configVars == <<enabled, routeHeads>>
leaseVars == <<attempts, holder, token, lease, retry, issued>>
identityVars == <<actions, created, snapshot>>
sliceVars == <<plan, receipt, result>>
vars == <<configVars, identityVars, state, leaseVars, sliceVars, lastEvent,
          writer, familyVars>>

Receipts == [Routes -> Batches \cup {NoBatch}]
NoReceipts == [rt \in Routes |-> NoBatch]
Unplanned == [rt \in Routes |-> NoBoundary]

EventCodes == {"none", "request_queued", "device_claimed", "capture_started",
               "progress", "lease_expired_requeued",
               "capture_failed_retryable", "terminal"}

TypeOK ==
  /\ FamilyTypeOK
  /\ enabled \subseteq Repositories \cup Spaces
  /\ routeHeads \in [Repositories -> SUBSET Routes]
  /\ actions \in [Users \X ClientActions -> Requests \cup {NoRequest}]
  /\ created \in Seq(Requests)
  /\ state \in [Requests -> States]
  /\ snapshot \in [Requests -> SUBSET Routes]
  /\ attempts \in [Requests -> Nat]
  /\ holder \in [Requests -> Devices \cup {NoDevice}]
  /\ token \in [Requests -> Nat]
  /\ lease \in [Requests -> Nat \cup {Null}]
  /\ retry \in [Requests -> Nat \cup {Null}]
  /\ plan \in [Requests -> [Routes -> Boundaries \cup {NoBoundary}]]
  /\ receipt \in [Requests -> Receipts]
  /\ result \in [Requests -> Receipts \cup {NoResult}]
  /\ lastEvent \in [Requests -> EventCodes]
  /\ issued \in [Requests -> Seq(Devices)]
  /\ writer \in [Requests -> Nat]

Init ==
  /\ FamilyInit
  /\ enabled = Repositories \cup Spaces
  /\ routeHeads \in [Repositories -> SUBSET Routes]
  /\ \A p \in Repositories : routeHeads[p] \in RouteHeads[p]
  /\ actions = [ua \in Users \X ClientActions |-> NoRequest]
  /\ created = <<>>
  /\ state = [r \in Requests |-> "absent"]
  /\ snapshot = [r \in Requests |-> {}]
  /\ attempts = [r \in Requests |-> 0]
  /\ holder = [r \in Requests |-> NoDevice]
  /\ token = [r \in Requests |-> 0]
  /\ lease = [r \in Requests |-> Null]
  /\ retry = [r \in Requests |-> Null]
  /\ plan = [r \in Requests |-> Unplanned]
  /\ receipt = [r \in Requests |-> NoReceipts]
  /\ result = [r \in Requests |-> NoResult]
  /\ lastEvent = [r \in Requests |-> "none"]
  /\ issued = [r \in Requests |-> <<>>]
  /\ writer = [r \in Requests |-> 0]

-----------------------------------------------------------------------------
(* Helpers.  An operator commented "Mutant" is never used by Next: it is a *)
(* plausible mistake in the operator that follows it.                      *)

PlannedRoutes(r) == {rt \in Routes : plan[r][rt] # NoBoundary}

(* Mutant: only the first slice's receipt is looked at.                    *)
SomeReceived(r) == \E rt \in PlannedRoutes(r) : receipt[r][rt] # NoBatch

(* complete_group refuses while a slice row has no receipt.                *)
AllReceived(r) == \A rt \in PlannedRoutes(r) : receipt[r][rt] # NoBatch

(* Mutant: the claiming device is checked, its token is not.               *)
HoldsByDevice(d, r, t) == holder[r] = d

(* _require_device_ownership and _require_token: the stored digest is of   *)
(* the token minted by claim t, and the stored device is the caller.       *)
Holds(d, r, t) == holder[r] = d /\ token[r] = t

(* _require_live_lease: an unset deadline refuses as an expired one does.  *)
LiveLease(d, r, t) == Holds(d, r, t) /\ lease[r] > 0

(* The tokens a device can present: those it was handed by a claim.        *)
HandedTo(d, r) == {t \in 1..attempts[r] : issued[r][t] = d}

(* Mutant: a group waiting for its retry does not count as active.         *)
RepositoryCapturing(p) ==
  \E r \in Requests :
    Repository(r) = p /\ state[r] \in ActiveStates \ {"failed_retryable"}

(* create_group's look at the active states of the repository's groups.    *)
RepositoryBusy(p) ==
  \E r \in Requests : Repository(r) = p /\ state[r] \in ActiveStates

(* Mutant: only leases come due.                                           *)
LeaseDue(r) == state[r] \in LeasedStates /\ lease[r] = 0

(* _requeue_due_groups selects these rows.                                 *)
Due(r) ==
  \/ state[r] \in LeasedStates /\ lease[r] = 0
  \/ state[r] = "failed_retryable" /\ retry[r] = 0

(* A column once _requeue_due_groups has written it.                       *)
Requeued(column, value) ==
  [r \in Requests |-> IF Due(r) THEN value ELSE column[r]]

(* The row claim_next_group picks after requeueing: the oldest queued      *)
(* group of an enabled repository.                                         *)
Claimable(r) ==
  /\ state[r] = "queued" \/ Due(r)
  /\ Repository(r) \in enabled
  /\ attempts[r] < MaxAttempts

OldestClaimable(r) ==
  /\ Claimable(r)
  /\ \E i \in 1..Len(created) :
       /\ created[i] = r
       /\ \A j \in 1..(i - 1) : ~Claimable(created[j])

(* fail_group: may this failure still be retried?                          *)
CanRetry(r, retryable) == retryable /\ attempts[r] <= Len(RetryDelays)

(* Mutant: the lease's deadline survives the failure.                      *)
ForgetHolder(r) ==
  /\ holder' = [holder EXCEPT ![r] = NoDevice]
  /\ token' = [token EXCEPT ![r] = 0]
  /\ UNCHANGED lease

(* fail_group clears the device, the token digest and the deadline.        *)
GiveUpLease(r) ==
  /\ holder' = [holder EXCEPT ![r] = NoDevice]
  /\ token' = [token EXCEPT ![r] = 0]
  /\ lease' = [lease EXCEPT ![r] = Null]

(* Central's clock: every pending deadline comes one tick closer.          *)
Elapse(deadline) ==
  [r \in Requests |-> IF deadline[r] > 0 THEN deadline[r] - 1 ELSE deadline[r]]

-----------------------------------------------------------------------------
(* Users and operators                                                     *)

(* create_group.  A replay of the same user's action returns the group it  *)
(* created; a busy repository and the primary key refuse a second one.     *)
(* repository_catalog refuses a disabled repository or route target.       *)
CreateGroup(u, p, ca) ==
  LET r == <<p, ca>> IN
  /\ actions[<<u, ca>>] = NoRequest
  /\ ~RepositoryBusy(p)
  /\ p \in enabled
  /\ \A rt \in routeHeads[p] : SpaceOf[rt] \in enabled
  /\ state[r] = "absent"
  /\ state' = [state EXCEPT ![r] = "queued"]
  /\ snapshot' = [snapshot EXCEPT ![r] = routeHeads[p]]
  /\ actions' = [actions EXCEPT ![<<u, ca>>] = r]
  /\ created' = Append(created, r)
  /\ lastEvent' = [lastEvent EXCEPT ![r] = "request_queued"]
  /\ UNCHANGED <<configVars, leaseVars, sliceVars, writer, familyVars>>

(* put_repository and put_decision_space change the enabled column.        *)
SetEnabled(x) ==
  /\ \/ enabled' = enabled \cup {x}
     \/ enabled' = enabled \ {x}
  /\ UNCHANGED <<routeHeads, identityVars, state, leaseVars, sliceVars,
                 lastEvent, writer, familyVars>>

(* replace_trusted_route_heads: every target must be an enabled leaf.  It  *)
(* does not ask whether the repository is enabled or a group is under way. *)
ReplaceRouteHeads(p, routes) ==
  /\ \A rt \in routes : SpaceOf[rt] \in enabled
  /\ routeHeads' = [routeHeads EXCEPT ![p] = routes]
  /\ UNCHANGED <<enabled, identityVars, state, leaseVars, sliceVars,
                 lastEvent, writer, familyVars>>

-----------------------------------------------------------------------------
(* The lease channel                                                       *)

(* claim_next_group returns a lease on the oldest claimable group, after   *)
(* _requeue_due_groups requeued every group whose deadline has passed.     *)
ClaimNextGroup(d, r) ==
  /\ OldestClaimable(r)
  /\ state' = [Requeued(state, "queued") EXCEPT ![r] = "claimed"]
  /\ attempts' = [attempts EXCEPT ![r] = @ + 1]
  /\ holder' = [Requeued(holder, NoDevice) EXCEPT ![r] = d]
  /\ token' = [Requeued(token, 0) EXCEPT ![r] = attempts[r] + 1]
  /\ lease' = [Requeued(lease, Null) EXCEPT ![r] = LeaseSeconds]
  /\ retry' = [Requeued(retry, Null) EXCEPT ![r] = Null]
  /\ issued' = [issued EXCEPT ![r] = Append(@, d)]
  /\ lastEvent' =
       [Requeued(lastEvent, "lease_expired_requeued") EXCEPT ![r] = "device_claimed"]
  /\ UNCHANGED <<configVars, identityVars, sliceVars, writer, familyVars>>

(* The same call when no group can be claimed: the requeueing commits.     *)
RequeueDueGroups ==
  /\ \E r \in Requests : Due(r)
  /\ \A r \in Requests : ~OldestClaimable(r)
  /\ state' = Requeued(state, "queued")
  /\ holder' = Requeued(holder, NoDevice)
  /\ token' = Requeued(token, 0)
  /\ lease' = Requeued(lease, Null)
  /\ retry' = Requeued(retry, Null)
  /\ lastEvent' = Requeued(lastEvent, "lease_expired_requeued")
  /\ UNCHANGED <<configVars, identityVars, attempts, issued, sliceVars,
                 writer, familyVars>>

StartGroup(d, r, t) ==
  /\ LiveLease(d, r, t)
  /\ state[r] = "claimed"
  /\ state' = [state EXCEPT ![r] = "running"]
  /\ lastEvent' = [lastEvent EXCEPT ![r] = "capture_started"]
  /\ writer' = [writer EXCEPT ![r] = t]
  /\ UNCHANGED <<configVars, identityVars, leaseVars, sliceVars, familyVars>>

HeartbeatGroup(d, r, t) ==
  /\ LiveLease(d, r, t)
  /\ state[r] \in LeasedStates
  /\ lease' = [lease EXCEPT ![r] = LeaseSeconds]
  /\ writer' = [writer EXCEPT ![r] = t]
  /\ UNCHANGED <<configVars, identityVars, state, attempts, holder, token,
                 retry, issued, sliceVars, lastEvent, familyVars>>

RecordGroupProgress(d, r, t) ==
  /\ LiveLease(d, r, t)
  /\ state[r] = "running"
  /\ lastEvent' = [lastEvent EXCEPT ![r] = "progress"]
  /\ writer' = [writer EXCEPT ![r] = t]
  /\ UNCHANGED <<configVars, identityVars, state, leaseVars, sliceVars,
                 familyVars>>

(* plan_slices with a nonempty selection of frozen routes.  A second call  *)
(* replays the slices or is refused ("slice_plan_conflict").               *)
PlanSlices(d, r, t, selected, boundary) ==
  /\ LiveLease(d, r, t)
  /\ state[r] \in LeasedStates
  /\ PlannedRoutes(r) = {}
  /\ selected # {} /\ selected \subseteq snapshot[r]
  /\ \A rt \in selected : SpaceOf[rt] \in enabled
  /\ plan' = [plan EXCEPT ![r] =
       [rt \in Routes |-> IF rt \in selected THEN boundary[rt] ELSE NoBoundary]]
  /\ writer' = [writer EXCEPT ![r] = t]
  /\ UNCHANGED <<configVars, identityVars, state, leaseVars, receipt, result,
                 lastEvent, familyVars>>

(* plan_slices with no routable change ends the group; the device and the  *)
(* token stay so that the call and the completion can be replayed.         *)
PlanNothing(d, r, t) ==
  /\ LiveLease(d, r, t)
  /\ state[r] \in LeasedStates
  /\ PlannedRoutes(r) = {}
  /\ state' = [state EXCEPT ![r] = "succeeded_no_candidates"]
  /\ result' = [result EXCEPT ![r] = NoReceipts]
  /\ lease' = [lease EXCEPT ![r] = Null]
  /\ lastEvent' = [lastEvent EXCEPT ![r] = "terminal"]
  /\ writer' = [writer EXCEPT ![r] = t]
  /\ UNCHANGED <<configVars, identityVars, attempts, holder, token, retry,
                 issued, plan, receipt, familyVars>>

(* accept_slice_batch of a slice without a receipt; with one, the same     *)
(* batch replays the receipt and another is refused ("slice_batch_conflict")*)
AcceptSliceBatch(d, r, t, rt, batch) ==
  /\ LiveLease(d, r, t)
  /\ state[r] \in LeasedStates
  /\ rt \in PlannedRoutes(r)
  /\ receipt[r][rt] = NoBatch
  /\ \A item \in batch : Home[item.family] = Repository(r)
  /\ Acceptable(batch, rt, plan[r][rt])
  /\ SaveBatch(batch, rt, plan[r][rt])
  /\ receipt' = [receipt EXCEPT ![r][rt] = batch]
  /\ writer' = [writer EXCEPT ![r] = t]
  /\ UNCHANGED <<configVars, identityVars, state, leaseVars, plan, result,
                 lastEvent>>

(* complete_group: the digest presented must be the aggregate of every     *)
(* slice's receipt.  The state column is not consulted beyond success.     *)
CompleteGroup(d, r, t) ==
  /\ state[r] \notin SuccessStates
  /\ LiveLease(d, r, t)
  /\ PlannedRoutes(r) # {}
  /\ AllReceived(r)
  /\ state' = [state EXCEPT ![r] =
       IF \E rt \in PlannedRoutes(r) : receipt[r][rt] # {}
         THEN "succeeded" ELSE "succeeded_no_candidates"]
  /\ result' = [result EXCEPT ![r] = receipt[r]]
  /\ lease' = [lease EXCEPT ![r] = Null]
  /\ lastEvent' = [lastEvent EXCEPT ![r] = "terminal"]
  /\ writer' = [writer EXCEPT ![r] = t]
  /\ UNCHANGED <<configVars, identityVars, attempts, holder, token, retry,
                 issued, plan, receipt, familyVars>>

(* fail_group: a retryable failure is retried while delays remain          *)
(* (afterwards "retry_exhausted"); either way the lease is given up.       *)
FailGroup(d, r, t, retryable) ==
  /\ LiveLease(d, r, t)
  /\ state[r] \in LeasedStates
  /\ state' = [state EXCEPT ![r] =
       IF CanRetry(r, retryable) THEN "failed_retryable" ELSE "failed_terminal"]
  /\ retry' = [retry EXCEPT ![r] =
       IF CanRetry(r, retryable) THEN RetryDelays[attempts[r]] ELSE Null]
  /\ GiveUpLease(r)
  /\ lastEvent' = [lastEvent EXCEPT ![r] =
       IF CanRetry(r, retryable) THEN "capture_failed_retryable" ELSE "terminal"]
  /\ writer' = [writer EXCEPT ![r] = t]
  /\ UNCHANGED <<configVars, identityVars, attempts, issued, sliceVars,
                 familyVars>>

Tick ==
  /\ \E r \in Requests : lease[r] > 0 \/ retry[r] > 0
  /\ lease' = Elapse(lease)
  /\ retry' = Elapse(retry)
  /\ UNCHANGED <<configVars, identityVars, state, attempts, holder, token,
                 issued, sliceVars, lastEvent, writer, familyVars>>

-----------------------------------------------------------------------------
Operate ==
  \/ \E x \in Toggled : SetEnabled(x)
  \/ \E p \in Repositories :
       \E routes \in RouteHeads[p] : ReplaceRouteHeads(p, routes)

DeviceCall(d, r, t) ==
  \/ StartGroup(d, r, t)
  \/ HeartbeatGroup(d, r, t)
  \/ RecordGroupProgress(d, r, t)
  \/ \E selected \in SUBSET snapshot[r] :
       \E boundary \in [selected -> Boundaries] :
         PlanSlices(d, r, t, selected, boundary)
  \/ PlanNothing(d, r, t)
  \/ \E rt \in Routes, batch \in Batches : AcceptSliceBatch(d, r, t, rt, batch)
  \/ CompleteGroup(d, r, t)
  \/ \E retryable \in BOOLEAN : FailGroup(d, r, t, retryable)

Next ==
  \/ \E u \in Users, p \in Repositories, ca \in ClientActions :
       CreateGroup(u, p, ca)
  \/ Operate
  \/ \E d \in Devices, r \in Requests : ClaimNextGroup(d, r)
  \/ RequeueDueGroups
  \/ \E d \in Devices, r \in Requests :
       \E t \in HandedTo(d, r) : DeviceCall(d, r, t)
  \/ Tick

Spec == Init /\ [][Next]_vars

-----------------------------------------------------------------------------
(* Correctness                                                             *)

(* A repository never has two groups under way, so two Agents never        *)
(* reconcile against the same Candidate families at once.  Only            *)
(* create_group looks; requeueing and retrying must never revive a group   *)
(* beside a newer one.                                                     *)
OneActiveGroupPerRepository ==
  \A r, q \in Requests :
    /\ Repository(r) = Repository(q)
    /\ state[r] \in ActiveStates /\ state[q] \in ActiveStates
    => r = q

(* No group is stranded.  Whatever interleaving of claim, heartbeat,       *)
(* failure and expiry led here, a group that is neither queued nor         *)
(* terminal has exactly the deadline _requeue_due_groups looks for, and a  *)
(* lease whose device and token are both stored.                           *)
WakeupScheduled ==
  \A r \in Requests :
    /\ state[r] \in LeasedStates =>
         /\ lease[r] # Null /\ retry[r] = Null
         /\ holder[r] # NoDevice /\ token[r] = attempts[r] /\ token[r] > 0
    /\ state[r] = "failed_retryable" =>
         /\ retry[r] # Null /\ lease[r] = Null /\ token[r] = 0
    /\ state[r] \notin LeasedStates => lease[r] = Null

(* A group succeeds only with the receipts of all its slices, its frozen   *)
(* result is still the aggregate of the stored receipts, and it reports    *)
(* Candidates exactly when a slice uploaded one.  No call after the        *)
(* success (a late upload, a second plan, a requeue) undoes this.          *)
SuccessIsBacked ==
  \A r \in Requests :
    /\ state[r] \in SuccessStates <=> result[r] # NoResult
    /\ state[r] \in SuccessStates =>
         /\ result[r] = receipt[r]
         /\ \A rt \in PlannedRoutes(r) : receipt[r][rt] # NoBatch
         /\ state[r] = "succeeded" <=>
              \E rt \in Routes : receipt[r][rt] \notin {NoBatch, {}}

(* Receipts and the Candidate store tell one story: each revision a        *)
(* receipt stands for is stored under the ownership its slice was planned  *)
(* with, and each stored revision came in through such a receipt, whether  *)
(* or not the group that uploaded it later succeeded.                      *)
ReceiptsMatchStore ==
  /\ \A r \in Requests : \A rt \in Routes : receipt[r][rt] # NoBatch =>
       \A item \in receipt[r][rt] :
         /\ item \in revisions
         /\ [family |-> item.family, revision |-> item.revision,
             route |-> rt, boundary |-> plan[r][rt]] \in ownership
  /\ \A item \in revisions : \E r \in Requests, rt \in Routes :
       receipt[r][rt] # NoBatch /\ item \in receipt[r][rt]

(* A worker that lost its lease is fenced off: every change to a group's   *)
(* slices, receipts or result, and every start and failure, is made with   *)
(* the token of the group's newest claim, even when the same device holds  *)
(* both the stale token and the current one.                               *)
StaleTokensAreFenced ==
  [][\A r \in Requests :
       \/ plan'[r] # plan[r] \/ receipt'[r] # receipt[r]
       \/ result'[r] # result[r]
       \/ state'[r] # state[r]
           /\ state'[r] \in TerminalStates \cup {"running", "failed_retryable"}
       => writer'[r] = attempts[r]]_vars

(* CaptureGroups implements the promise of an Update action: one open      *)
(* request per repository, slices fixed once, each settled once, and one   *)
(* irrevocable end.                                                        *)
PhaseOf(s) ==
  CASE s = "absent" -> "absent"
    [] s \in ActiveStates -> "open"
    [] s \in SuccessStates -> "succeeded"
    [] s = "failed_terminal" -> "failed"

Public == INSTANCE CaptureRequest WITH
  Requests <- Requests, RepositoryOf <- Repository,
  Slices <- Routes, Outcomes <- Batches, NoOutcome <- NoBatch,
  phase <- [r \in Requests |-> PhaseOf(state[r])],
  planned <- [r \in Requests |-> PlannedRoutes(r)],
  outcome <- receipt

Promise == Public!RequestSpec

(* "one Capture Request cannot retry forever"                              *)
(* (docs/superpowers/plans/2026-07-30-on-demand-capture-core.md:524): with *)
(* n retry delays a group is attempted at most n + 1 times.                *)
AttemptsBounded == \A r \in Requests : attempts[r] <= Len(RetryDelays) + 1
=============================================================================
