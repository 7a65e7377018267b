--------------------------- MODULE CaptureDelivery ---------------------------
(***************************************************************************)
(* The Agent composed with Central: each device runs AgentService.run_once  *)
(* in a loop.  It claims a group, freezes its changed Session sources,      *)
(* plans slices, reconciles and commits one slice at a time into its local  *)
(* database, uploads the committed batch, completes the group and only then *)
(* advances its handled checkpoints (agent/service.py, capture_processor.py,*)
(* request_lease.py, session_index.py, request_state.py).                   *)
(*                                                                          *)
(* A call to Central can be handled and answered, handled with the answer   *)
(* lost, never delivered, or refused; the first three are told apart here,  *)
(* the Agent sees the middle two alike.  A crash loses pc and job only: all *)
(* other variables of a device are rows of its local SQLite database.       *)
(*                                                                          *)
(* The steps of Central are those of CaptureGroups, called with the one     *)
(* token the device works with.  progress calls change nothing but Central's*)
(* event log and are left out; so are Session content and model turns: what *)
(* a capture yields is chosen from the batches it could yield.              *)
(***************************************************************************)
EXTENDS CaptureGroups

CONSTANTS
  Sources,         \* Session sources of a device (session_checkpoints)
  MaxTurns,        \* bound: completed turns observed per source
  Scope,           \* the sources a request's capture_scope selects from
  SingleSource,    \* requests of scope current_session: one source at most
  Origin,          \* the device and Decision Space a family is minted for
  SliceOrder,      \* slice_order of a route (routes sort by route_id)
  MaxGrowth,       \* bound: revisions one slice adds to one family
  MaxFaults,       \* bound: lost calls, lost answers and crashes explored
  Timely,          \* do renewals of a live worker arrive before expiry?
  NoFreeze, NoSelection, NoDraft, NoJob

Freezes == UNION {[S -> 1..MaxTurns] : S \in SUBSET Sources}

ASSUME DeliveryAssumption ==
  /\ MaxTurns \in Nat
  /\ Scope \in [Requests -> SUBSET Sources]
  /\ \A r, q \in Requests : Repository(r) # Repository(q) => Scope[r] \cap Scope[q] = {}
  /\ SingleSource \subseteq Requests
  /\ Origin \in [Families -> Devices \X Spaces]
  /\ SliceOrder \in [Routes -> Nat]
  /\ \A a, b \in Routes : SliceOrder[a] = SliceOrder[b] => a = b
  /\ MaxGrowth \in Nat
  /\ MaxFaults \in Nat
  /\ Timely \in BOOLEAN
  /\ Devices \X Freezes \subseteq Boundaries
  /\ NoFreeze \notin Freezes
  /\ \A routes \in SUBSET Routes : routes # NoSelection
  /\ NoJob \notin Requests \X Nat

VARIABLES
  latest,          \* latest_turn_id of each source, as its turn's number
  handled,         \* handled_turn_id of each source, 0 for NULL
  excluded,        \* sources whose checkpoint carries an excluded_reason
  freeze,          \* capture_request_sources: upper turns frozen per request
  acked,           \* requests whose freeze carries an acknowledgement
  selection,       \* capture_group_plans: routes selected per request
  localHead,       \* slice_candidate_family_heads, 0 when no row
  draft,           \* slice_reconciliation_results, before the commit
  outbox,          \* slice_candidate_outbox: the committed batch
  uploaded,        \* outbox rows in state 'uploaded': (request, route)
  pc,              \* what run_once does next
  job,             \* the claimed request and its token
  faults           \* history: faults so far

sourceVars == <<latest, handled, excluded, freeze, acked>>
localVars == <<selection, localHead, draft, outbox, uploaded>>
workVars == <<pc, job>>
agentVars == <<sourceVars, localVars, workVars, faults>>
deliveryVars == <<vars, agentVars>>

Steps == {"idle", "start", "freeze", "select", "plan", "slice",
          "completing", "replaying", "acknowledge", "retryable", "terminal"}

DeliveryInit ==
  /\ Init
  /\ latest = [d \in Devices |-> [s \in Sources |-> 0]]
  /\ handled = [d \in Devices |-> [s \in Sources |-> 0]]
  /\ excluded = [d \in Devices |-> {}]
  /\ freeze = [d \in Devices |-> [r \in Requests |-> NoFreeze]]
  /\ acked = [d \in Devices |-> {}]
  /\ selection = [d \in Devices |-> [r \in Requests |-> NoSelection]]
  /\ localHead = [d \in Devices |-> [f \in Families |-> 0]]
  /\ draft = [d \in Devices |-> [r \in Requests |-> [rt \in Routes |-> NoDraft]]]
  /\ outbox = [d \in Devices |-> [r \in Requests |-> NoReceipts]]
  /\ uploaded = [d \in Devices |-> {}]
  /\ pc = [d \in Devices |-> "idle"]
  /\ job = [d \in Devices |-> NoJob]
  /\ faults = 0

-----------------------------------------------------------------------------
(* Helpers.  An operator commented "Mutant" is a plausible mistake in the  *)
(* operator that follows it; Next uses only the latter.                    *)

Request(d) == job[d][1]
Token(d) == job[d][2]

Goto(d, step) == pc' = [pc EXCEPT ![d] = step] /\ UNCHANGED job

(* Mutant: the claimed request is remembered.                              *)
Pause(d) == pc' = [pc EXCEPT ![d] = "idle"] /\ UNCHANGED job

(* run_once returns or the process dies.                                   *)
Stop(d) == pc' = [pc EXCEPT ![d] = "idle"] /\ job' = [job EXCEPT ![d] = NoJob]

Fault == faults < MaxFaults /\ faults' = faults + 1

(* What the Agent sees of a call that Central handled: the answer; a lost  *)
(* connection (TransportError, not retried); or a retryable status in its  *)
(* place, after which _request sends the same call again.                  *)
Answered(d, next) ==
  \/ Goto(d, next) /\ UNCHANGED faults
  \/ Goto(d, "retryable") /\ Fault
  \/ UNCHANGED workVars /\ Fault

Undelivered(d) == Goto(d, "retryable") /\ Fault /\ UNCHANGED vars

(* "central_request_rejected" is not a transient code.                     *)
Refused(d) == Goto(d, "terminal") /\ UNCHANGED <<vars, faults>>

(* The sources freeze_sources may select: those with an unhandled newest   *)
(* turn; of one Session, the one observed last.                            *)
Changed(d, r) == {s \in Scope[r] \ excluded[d] : latest[d][s] # handled[d][s]}

Selections(d, r) ==
  IF r \in SingleSource /\ Changed(d, r) # {}
    THEN {{s} : s \in Changed(d, r)} ELSE {Changed(d, r)}

(* source_boundary_digest: every slice of a plan digests all its sources.  *)
BoundaryOf(d, r) == <<d, freeze[d][r]>>

(* The slices this device proposes, in the form Central stores them.       *)
Proposed(d, r) ==
  [rt \in Routes |-> IF rt \in selection[d][r] THEN BoundaryOf(d, r) ELSE NoBoundary]

(* Mutant: only the routes are compared.                                   *)
ReplaysRoutes(d, r) == PlannedRoutes(r) # {} /\ PlannedRoutes(r) = selection[d][r]

(* plan_slices on planned slices replays them or raises a conflict.        *)
ReplaysPlan(d, r) == PlannedRoutes(r) # {} /\ plan[r] = Proposed(d, r)

(* plan_slices on a group that an empty selection already ended.           *)
ReplaysNothing(d, r) ==
  PlannedRoutes(r) = {} /\ selection[d][r] = {} /\ state[r] = "succeeded_no_candidates"

(* Mutant: whatever Central answers to a completion, it is settled.        *)
AnyCompletion(d, r) == PlannedRoutes(r) # {}

(* complete_group on a completed group replays when the digests agree.     *)
ReplaysCompletion(d, r) == state[r] \in SuccessStates /\ result[r] = outbox[d][r]

(* Planned slices whose outbox row has no receipt (has_receipt), and the   *)
(* one the loop of _process is at.                                         *)
Missing(d, r) == {rt \in selection[d][r] : <<r, rt>> \notin uploaded[d]}

AtSlice(d, r, rt) ==
  /\ pc[d] = "slice" /\ r = Request(d)
  /\ rt \in Missing(d, r)
  /\ \A other \in Missing(d, r) : SliceOrder[rt] <= SliceOrder[other]

(* Mutant: the reconciliation result is uploaded before it is committed.   *)
ReconciledBatch(d, r, rt) ==
  IF draft[d][r][rt] # NoDraft THEN draft[d][r][rt].batch ELSE NoBatch

StagedBatch(d, r, rt) == outbox[d][r][rt]

(* Families of the request's repository and the route's Decision Space     *)
(* whose ids this device mints.                                            *)
MintedFor(d, r, rt) ==
  {f \in Families : Origin[f] = <<d, SpaceOf[rt]>> /\ Home[f] = Repository(r)}

(* apply_reconciliation: each family of the slice gains some revisions in  *)
(* a row (unrelated, then revise); only its final head is uploadable.      *)
Uploadable(d, heads, content) ==
  {[family |-> f, revision |-> heads[f], content |-> content] :
     f \in {g \in Families : heads[g] > localHead[d][g]}}

-----------------------------------------------------------------------------
(* Hooks and claims                                                        *)

(* SessionIndex.observe: a Stop event moves the source's newest turn.      *)
Observe(d, s) ==
  /\ latest[d][s] < MaxTurns
  /\ latest' = [latest EXCEPT ![d][s] = @ + 1]
  /\ UNCHANGED <<vars, handled, excluded, freeze, acked, localVars, workVars,
                 faults>>

(* claim_next; when the answer is lost nobody knows the token.             *)
Claim(d, r) ==
  /\ pc[d] = "idle"
  /\ ClaimNextGroup(d, r)
  /\ \/ /\ pc' = [pc EXCEPT ![d] = "start"]
        /\ job' = [job EXCEPT ![d] = <<r, attempts[r] + 1>>]
        /\ UNCHANGED faults
     \/ UNCHANGED workVars /\ Fault
  /\ UNCHANGED <<sourceVars, localVars>>

ClaimNothing(d) ==
  /\ pc[d] = "idle"
  /\ RequeueDueGroups
  /\ UNCHANGED agentVars

(* The lease thread, from the claim until quiesce.                         *)
Renewing(d) == pc[d] \in {"start", "freeze", "select", "plan", "slice"}

Renew(d) ==
  /\ Renewing(d)
  /\ HeartbeatGroup(d, Request(d), Token(d))
  /\ UNCHANGED agentVars

(* A renewal that fails makes ownership uncertain: the next guarded call   *)
(* raises, and run_once reports nothing.                                   *)
RenewalFails(d) ==
  /\ Renewing(d)
  /\ \/ ~LiveLease(d, Request(d), Token(d)) /\ UNCHANGED faults
     \/ Fault
  /\ Stop(d)
  /\ UNCHANGED <<vars, sourceVars, localVars>>

Crash(d) ==
  /\ pc[d] # "idle"
  /\ Fault
  /\ Stop(d)
  /\ UNCHANGED <<vars, sourceVars, localVars>>

-----------------------------------------------------------------------------
(* OnDemandCaptureProcessor._process                                       *)

Start(d) ==
  LET r == Request(d)  t == Token(d) IN
  /\ pc[d] = "start"
  /\ \/ StartGroup(d, r, t) /\ Answered(d, "freeze")
     \/ Undelivered(d)
     \/ ~(LiveLease(d, r, t) /\ state[r] = "claimed") /\ Refused(d)
  /\ UNCHANGED <<sourceVars, localVars>>

(* freeze_sources: a request's first freeze is its only one.               *)
FreezeSources(d) ==
  LET r == Request(d) IN
  /\ pc[d] = "freeze"
  /\ IF freeze[d][r] = NoFreeze
       THEN \E selected \in Selections(d, r) :
              freeze' = [freeze EXCEPT ![d][r] = [s \in selected |-> latest[d][s]]]
       ELSE UNCHANGED freeze
  /\ Goto(d, "select")
  /\ UNCHANGED <<vars, latest, handled, excluded, acked, localVars, faults>>

(* load_plan, or get_or_create_plan: the routes of the snapshot that the   *)
(* frozen sources touched, none without a source.                          *)
SelectRoutes(d) ==
  LET r == Request(d) IN
  /\ pc[d] = "select"
  /\ IF selection[d][r] = NoSelection
       THEN \E routes \in SUBSET snapshot[r] :
              /\ DOMAIN freeze[d][r] = {} => routes = {}
              /\ selection' = [selection EXCEPT ![d][r] = routes]
       ELSE UNCHANGED selection
  /\ Goto(d, "plan")
  /\ UNCHANGED <<vars, sourceVars, localHead, draft, outbox, uploaded, faults>>

(* Central's plan_slices refuses: no live lease, another plan, a disabled  *)
(* target.                                                                 *)
PlanRefused(d, r, t) ==
  \/ ~Holds(d, r, t)
  \/ /\ ~ReplaysPlan(d, r) /\ ~ReplaysNothing(d, r)
     /\ \/ PlannedRoutes(r) # {}
        \/ ~LiveLease(d, r, t) \/ state[r] \notin LeasedStates
        \/ \E rt \in selection[d][r] : SpaceOf[rt] \notin enabled

PlanSlicesCall(d) ==
  LET r == Request(d)  t == Token(d)  routes == selection[d][r] IN
  /\ pc[d] = "plan"
  /\ \/ /\ PlanSlices(d, r, t, routes, [rt \in routes |-> BoundaryOf(d, r)])
        /\ Answered(d, "slice")
     \/ /\ Holds(d, r, t) /\ ReplaysPlan(d, r) /\ UNCHANGED vars
        /\ Answered(d, "slice")
     \/ routes = {} /\ PlanNothing(d, r, t) /\ Answered(d, "acknowledge")
     \/ /\ Holds(d, r, t) /\ ReplaysNothing(d, r) /\ UNCHANGED vars
        /\ Answered(d, "acknowledge")
     \/ Undelivered(d)
     \/ PlanRefused(d, r, t) /\ Refused(d)
  /\ UNCHANGED <<sourceVars, localVars>>

(* mark_excluded, while a slice without a result captures its sources: the *)
(* Session is not interactive or its evidence is gone.                     *)
ExcludeSource(d, r, s) ==
  /\ \E rt \in Routes :
       AtSlice(d, r, rt) /\ outbox[d][r][rt] = NoBatch /\ draft[d][r][rt] = NoDraft
  /\ s \in DOMAIN freeze[d][r] \ excluded[d]
  /\ r \notin acked[d]
  /\ excluded' = [excluded EXCEPT ![d] = @ \cup {s}]
  /\ UNCHANGED <<vars, latest, handled, freeze, acked, localVars, workVars, faults>>

(* _process_slice up to store_slice_reconciliation: sources are captured   *)
(* and their observations reconciled against the local family heads.       *)
Reconcile(d, r, rt) ==
  /\ AtSlice(d, r, rt)
  /\ outbox[d][r][rt] = NoBatch /\ draft[d][r][rt] = NoDraft
  /\ \E growth \in [MintedFor(d, r, rt) -> 0..MaxGrowth], content \in Contents :
       LET heads == [f \in Families |->
                       IF f \in MintedFor(d, r, rt)
                         THEN localHead[d][f] + growth[f] ELSE 0]
           batch == Uploadable(d, heads, content)
       IN  /\ batch \in Batches
           /\ draft' = [draft EXCEPT ![d][r][rt] = [heads |-> heads, batch |-> batch]]
  /\ UNCHANGED <<vars, sourceVars, selection, localHead, outbox, uploaded,
                 workVars, faults>>

(* commit_slice_result: the result's current heads (0 stands for a family  *)
(* it has none of) and the outbox row in one transaction.                  *)
CommitSliceResult(d, r, rt) ==
  LET made == draft[d][r][rt] IN
  /\ AtSlice(d, r, rt)
  /\ outbox[d][r][rt] = NoBatch /\ made # NoDraft
  /\ localHead' = [localHead EXCEPT ![d] =
       [f \in Families |-> IF made.heads[f] # 0 THEN made.heads[f] ELSE @[f]]]
  /\ outbox' = [outbox EXCEPT ![d][r][rt] = made.batch]
  /\ UNCHANGED <<vars, sourceVars, selection, draft, uploaded, workVars, faults>>

(* Central's accept_slice_batch refuses.                                   *)
BatchRefused(d, r, t, rt, batch) ==
  \/ ~Holds(d, r, t) \/ rt \notin PlannedRoutes(r)
  \/ receipt[r][rt] \notin {NoBatch, batch}
  \/ /\ receipt[r][rt] = NoBatch
     /\ \/ ~LiveLease(d, r, t) \/ state[r] \notin LeasedStates
        \/ \E item \in batch : Home[item.family] # Repository(r)
        \/ ~Acceptable(batch, rt, plan[r][rt])

(* _deliver_slice: upload_slice, then mark_slice_uploaded with the receipt *)
(* that came back.  A crash between the two is a lost answer and a crash.  *)
DeliverSlice(d, r, rt) ==
  LET t == Token(d)  batch == StagedBatch(d, r, rt) IN
  /\ AtSlice(d, r, rt)
  /\ batch # NoBatch
  /\ \/ /\ \/ AcceptSliceBatch(d, r, t, rt, batch)
           \/ Holds(d, r, t) /\ receipt[r][rt] = batch /\ UNCHANGED vars
        /\ \/ /\ uploaded' = [uploaded EXCEPT ![d] = @ \cup {<<r, rt>>}]
              /\ UNCHANGED <<workVars, faults>>
           \/ Goto(d, "retryable") /\ Fault /\ UNCHANGED uploaded
           \/ Fault /\ UNCHANGED <<workVars, uploaded>>
     \/ Undelivered(d) /\ UNCHANGED uploaded
     \/ BatchRefused(d, r, t, rt, batch) /\ Refused(d) /\ UNCHANGED uploaded
  /\ UNCHANGED <<sourceVars, selection, localHead, draft, outbox>>

(* LeaseAwareCentralClient.complete_group: the lease thread is stopped and *)
(* the lease renewed once; a failed renewal still allows one completion.   *)
FinalHeartbeat(d) ==
  LET r == Request(d)  t == Token(d) IN
  /\ pc[d] = "slice" /\ Missing(d, r) = {}
  /\ \/ HeartbeatGroup(d, r, t) /\ Goto(d, "completing") /\ UNCHANGED faults
     \/ HeartbeatGroup(d, r, t) /\ Goto(d, "replaying") /\ Fault
     \/ Goto(d, "replaying") /\ Fault /\ UNCHANGED vars
     \/ /\ ~LiveLease(d, r, t) \/ state[r] \notin LeasedStates
        /\ Goto(d, "replaying") /\ UNCHANGED <<vars, faults>>
  /\ UNCHANGED <<sourceVars, localVars>>

CompletionRefused(d, r, t) ==
  \/ ~Holds(d, r, t)
  \/ /\ ~ReplaysCompletion(d, r)
     /\ \/ state[r] \in SuccessStates \/ ~LiveLease(d, r, t)
        \/ ~AllReceived(r) \/ receipt[r] # outbox[d][r]

(* complete_group with the digest of the local receipts.  When the last    *)
(* renewal failed too, an error leaves the delivery uncertain.             *)
CompleteCall(d) ==
  LET r == Request(d)  t == Token(d) IN
  /\ pc[d] \in {"completing", "replaying"}
  /\ \/ /\ \/ CompleteGroup(d, r, t) /\ receipt[r] = outbox[d][r]
           \/ Holds(d, r, t) /\ ReplaysCompletion(d, r) /\ UNCHANGED vars
        /\ \/ Goto(d, "acknowledge") /\ UNCHANGED faults
           \/ UNCHANGED workVars /\ Fault
           \/ pc[d] = "completing" /\ Goto(d, "retryable") /\ Fault
           \/ pc[d] = "replaying" /\ Stop(d) /\ Fault
     \/ pc[d] = "completing" /\ Undelivered(d)
     \/ pc[d] = "replaying" /\ Stop(d) /\ Fault /\ UNCHANGED vars
     \/ /\ CompletionRefused(d, r, t)
        /\ \/ pc[d] = "completing" /\ Refused(d)
           \/ pc[d] = "replaying" /\ Stop(d) /\ UNCHANGED <<vars, faults>>
  /\ UNCHANGED <<sourceVars, localVars>>

(* SessionIndex.acknowledge: every frozen source's checkpoint moves to the *)
(* boundary it was frozen at, whatever its newest turn is by now, and the  *)
(* checkpoints of sources excluded since then with them.                   *)
Acknowledge(d) ==
  LET upper == freeze[d][Request(d)] IN
  /\ pc[d] = "acknowledge"
  /\ handled' = [handled EXCEPT ![d] =
       [s \in Sources |-> IF s \in DOMAIN upper THEN upper[s] ELSE @[s]]]
  /\ acked' = [acked EXCEPT ![d] = @ \cup {Request(d)}]
  /\ Stop(d)
  /\ UNCHANGED <<vars, latest, excluded, freeze, localVars, faults>>

(* A local step, a model turn or a progress call of the attempt fails.     *)
AttemptFails(d) ==
  /\ pc[d] \in {"start", "freeze", "select", "slice"}
  /\ \E outcome \in {"retryable", "terminal"} : Goto(d, outcome)
  /\ Fault
  /\ UNCHANGED <<vars, sourceVars, localVars>>

(* run_once after a failure: one heartbeat; only when it is answered, fail.*)
ReportFailure(d) ==
  LET r == Request(d)  t == Token(d) IN
  /\ pc[d] \in {"retryable", "terminal"}
  /\ \/ FailGroup(d, r, t, pc[d] = "retryable") /\ UNCHANGED faults
     \/ HeartbeatGroup(d, r, t) /\ Fault
     \/ Fault /\ UNCHANGED vars
     \/ /\ ~LiveLease(d, r, t) \/ state[r] \notin LeasedStates
        /\ UNCHANGED <<vars, faults>>
  /\ Stop(d)
  /\ UNCHANGED <<sourceVars, localVars>>

-----------------------------------------------------------------------------
WorksOn(d, r) == job[d] = <<r, token[r]>> /\ holder[r] = d

(* Central's clock.  Renewals are due every 10 of a lease's 30 seconds: in *)
(* a timely system a lease runs out only when its worker is gone.          *)
Clock ==
  /\ Tick
  /\ Timely => \A d \in Devices, r \in Requests : WorksOn(d, r) => lease[r] # 1
  /\ UNCHANGED agentVars

Elsewhere ==
  /\ \/ \E u \in Users, p \in Repositories, ca \in ClientActions : CreateGroup(u, p, ca)
     \/ Operate
  /\ UNCHANGED agentVars

(* What a device does of itself, as opposed to what happens to it.         *)
Work(d) ==
  \/ \E r \in Requests : Claim(d, r)
  \/ ClaimNothing(d)
  \/ Start(d)
  \/ FreezeSources(d)
  \/ SelectRoutes(d)
  \/ PlanSlicesCall(d)
  \/ \E r \in Requests, rt \in Routes :
       \/ Reconcile(d, r, rt)
       \/ CommitSliceResult(d, r, rt)
       \/ DeliverSlice(d, r, rt)
  \/ FinalHeartbeat(d)
  \/ CompleteCall(d)
  \/ Acknowledge(d)
  \/ ReportFailure(d)

Environment(d) ==
  \/ \E s \in Sources : Observe(d, s)
  \/ \E r \in Requests, s \in Sources : ExcludeSource(d, r, s)
  \/ Renew(d)
  \/ RenewalFails(d)
  \/ AttemptFails(d)
  \/ Crash(d)

DeliveryNext ==
  \/ Elsewhere
  \/ Clock
  \/ \E d \in Devices : Work(d) \/ Environment(d)

DeliverySpec == DeliveryInit /\ [][DeliveryNext]_deliveryVars

-----------------------------------------------------------------------------
(* Correctness                                                             *)

Draft == [heads : [Families -> Nat], batch : Batches]

SourceTypeOK ==
  /\ latest \in [Devices -> [Sources -> 0..MaxTurns]]
  /\ handled \in [Devices -> [Sources -> 0..MaxTurns]]
  /\ excluded \in [Devices -> SUBSET Sources]
  /\ freeze \in [Devices -> [Requests -> Freezes \cup {NoFreeze}]]
  /\ acked \in [Devices -> SUBSET Requests]

LocalTypeOK ==
  /\ selection \in [Devices -> [Requests -> {NoSelection} \cup SUBSET Routes]]
  /\ localHead \in [Devices -> [Families -> Nat]]
  /\ draft \in [Devices -> [Requests -> [Routes -> {NoDraft} \cup Draft]]]
  /\ outbox \in [Devices -> [Requests -> Receipts]]
  /\ uploaded \in [Devices -> SUBSET (Requests \X Routes)]

WorkTypeOK ==
  /\ pc \in [Devices -> Steps]
  /\ job \in [Devices -> (Requests \X Nat) \cup {NoJob}]
  /\ \A d \in Devices : pc[d] = "idle" <=> job[d] = NoJob

(* Types, and that a device holds a job exactly while it works.            *)
DeliveryTypeOK ==
  SourceTypeOK /\ LocalTypeOK /\ WorkTypeOK /\ faults \in 0..MaxFaults

(* "The local handled checkpoint advances only after the central service   *)
(* idempotently acknowledges the complete request result": an acknowledged *)
(* request succeeded at Central with exactly the batches this device       *)
(* committed, and every handled turn is the boundary of such a request.    *)
AcknowledgedIsCentral ==
  \A d \in Devices :
    /\ \A r \in acked[d] : state[r] \in SuccessStates /\ result[r] = outbox[d][r]
    /\ \A s \in Sources : handled[d][s] # 0 =>
         \E r \in acked[d] : s \in DOMAIN freeze[d][r] /\ freeze[d][r][s] = handled[d][s]

(* Whoever claims a planned group next, its slices are only ever filled by *)
(* the device whose frozen boundary Central stores as their ownership, and *)
(* with the batch that device committed to its outbox first.               *)
BatchesComeFromTheirBoundary ==
  \A r \in Requests : \A rt \in PlannedRoutes(r) : receipt[r][rt] # NoBatch =>
    \E d \in Devices :
      plan[r][rt] = BoundaryOf(d, r) /\ receipt[r][rt] = outbox[d][r][rt]

(* Central's head of a family is never ahead of the device that mints it,  *)
(* through lost answers, crashes and redeliveries: the next local revision *)
(* can only collide with nothing.                                          *)
CentralFollowsTheDevice ==
  \A f \in Families : head[f] <= localHead[Origin[f][1]][f]

(* What a device has done stays done, although requests freeze, fail, retry   *)
(* and are acknowledged at different times: no checkpoint moves back to an    *)
(* older boundary, and no stored reconciliation result is committed after the *)
(* heads it was computed from have moved on ("move family heads only forward").*)
DeviceMovesForward ==
  [][\A d \in Devices :
       /\ \A s \in Sources : handled'[d][s] >= handled[d][s]
       /\ \A f \in Families : localHead'[d][f] >= localHead[d][f]]_deliveryVars

(* "a lost completion response, can make the group terminal before the     *)
(* final heartbeat.  The exact completion replay is authoritative in that  *)
(* case" (agent/request_lease.py:186): a device that completed a planned   *)
(* request and no longer works on it has acknowledged its sources.         *)
CompletedIsAcknowledged ==
  \A d \in Devices, r \in Requests :
    /\ state[r] \in SuccessStates /\ PlannedRoutes(r) # {}
    /\ holder[r] = d /\ ~WorksOn(d, r)
    => r \in acked[d]

(* "Only validated, non-ambiguous current Candidate revisions synchronize  *)
(* to the central Inbox": the revisions a working device is about to       *)
(* upload are ones Central's head rule accepts.                            *)
PendingRevisionsFollow ==
  \A d \in Devices, r \in Requests, rt \in Routes :
    WorksOn(d, r) /\ outbox[d][r][rt] # NoBatch /\ receipt[r][rt] = NoBatch =>
      \A item \in outbox[d][r][rt] : Monotonic(item)

(* Liveness: devices keep polling and working, Central's clock advances,   *)
(* faults are finite; users, renewals and failures owe nothing.            *)
FairDelivery ==
  /\ DeliverySpec
  /\ WF_deliveryVars(Clock)
  /\ \A d \in Devices : WF_deliveryVars(Work(d))

(* Every Update action comes to an end.                                    *)
UpdatesEnd ==
  \A r \in Requests : state[r] = "queued" ~> state[r] \in TerminalStates
=============================================================================
