# A verification of zdecision

TLA+ modules, TLC runs and TLAPS proofs about the program under `src/src/zdecision`.
A source reference below is a path under that directory; `:n` is a line.

Contents: [the system](#the-system) · [modules](#modules) · [runs](#runs) ·
[bounds](#bounds) · [fairness](#fairness) · [proofs](#proofs) ·
[disagreements found](#disagreements-found) · [not modelled](#what-is-not-modelled) ·
[plan](#plan)

## The system

zdecision captures engineering decisions from Codex Sessions. A user presses *Update* in
a browser; the Agent on a developer's machine reads the turns of its Sessions that it has
not handled yet, lets a model extract and reconcile *Candidates*, and uploads them to a
Central server; a reviewer turns Candidates into Decisions, which Central publishes as Git
commits of a registry; later Sessions recall them. Central and each Agent keep their own
SQLite database, the registry is a Git repository, and the three only agree because
of the protocols between them. These protocols are what this project verifies.

| component | state | operations |
|---|---|---|
| Central Capture service (`central/service.py`, `store.py`) | Capture groups, their lease columns, route snapshots, slices and receipts; Candidate revisions, family heads, ownership; an event log | `create_group`, `claim_next_group` (with `_requeue_due_groups`), `start_group`, `heartbeat_group`, `record_group_progress`, `plan_slices`, `accept_slice_batch`, `complete_group`, `fail_group`; operator commands on repositories, Decision Spaces and routes |
| Agent delivery worker (`agent/service.py`, `capture_processor.py`, `request_lease.py`, `central_client.py`) | the claimed request in memory; a lease thread | `run_once` in a loop, the HTTP calls with one bounded retry policy, the renewal thread, reporting of failures |
| Agent Session source index (`agent/session_index.py`) | newest and handled turn per source, exclusions, the sources frozen per request | `observe`, `freeze_sources`, `mark_excluded`, `acknowledge` |
| Agent request state and reconciliation (`agent/request_state.py`, `capture/reconciliation.py`) | route selections, reconciliation results, local family heads, the outbox and upload receipts | `get_or_create_plan`, `store_slice_reconciliation`, `commit_slice_result`, `mark_slice_uploaded` |
| Agent Capture routing (`agent/capture_routing.py`) | none of its own | selects the routes the frozen sources touched |
| Agent Capture operation store and its runners (`agent/capture_operation_store.py`, `app_server/requested_capture.py`, `reconciliation_runner.py`) | one operation per source, generations of disposable attempts, the native Threads they run in and their archival | begin, attach, validate, commit, supersede, abandon an attempt; fork, run and archive a Thread |
| Agent event ledger and Worker (`agent/db.py`, `events.py`, `worker.py`) | hook events with a processing state and deadline; a process lock | record, claim, consume, fail, requeue; launch, contend and leave |
| Agent control bindings and MCP commands (`agent/control_bindings.py`, `mcp_server.py`) | a binding per rendered card: Session, scope, action, request | bind, choose a scope, submit, attach or finish |
| Recall host state (`agent/recall_host_state.py`, `recall_handoff.py`, `recall_mcp.py`, `hooks.py`) | confirmation cards, deliveries with claims, the active set, Turn gates, epochs and restorations of a native Session | propose, enable, retrieve, deliver, acknowledge, apply; gate a Turn; compact, clear, end, resume |
| Recall demo provider (`recall/demo/*`) | installs of models, signed bundles, the selected one of each | `prepare_models`, `refresh`, `preflight`, `retrieve` |
| Central decision web (`central/web/reviews.py`, `previews.py`, `publications.py`, `store.py`) | a review draft per reviewer and leaf, review batches, previews, publications, claimed families, receipts | `save_draft`, `submit`, `create` a preview bound to a base commit, `confirm`, `resume` |
| Registry Git adapter (`registry/git.py`, `catalog.py`) | a checkout (HEAD, `origin/main`, work tree) and the remote | exact main, clean registry, exact commit, its reconciliation, remote state, exact push |
| Registry read model (`central/registry_projection.py`) | the rows of one registry tree and whether they may be shown | synchronize with a commit, at startup and after a publication |
| V1 manual Capture, Review and publication (`capture/service.py`, `review_service.py`, `registry/service.py`, `private_store/filesystem.py`) | private JSON files: captures, inventories, manifests, Candidates, review batches, publications, receipts | the commands of the first version's command line |
| The rest | HTTP surfaces, queries, contracts, command lines, the JSON-lines transport | request parsing, read-only views, validated records: no state of their own |

How they interact. The browser calls Central over HTTP; each Central handler is one
`BEGIN IMMEDIATE` transaction. The Agent calls Central over HTTP and knows only what came
back; a hook writes the Agent's database while the worker reads it; a second thread of the
worker renews the lease of the group it works on. Publication runs Git as a subprocess
between two SQLite transactions. Hooks are short processes the native host starts and may
kill; each launches a Worker it does not wait for. MCP calls read one transaction, work
outside any, and commit in another. The V1 commands and the Recall demo are processes that
share a directory tree without a lock.

What is hard in it:

- a lease expires while its holder is still working, and another device, or a later run of
  the same device, claims the group: every later call of the first must be refused;
- a call is handled and its answer lost: the caller cannot tell this from a call that
  never arrived, and every call must be replayable or safely refused;
- a crash between any two local transactions, between Central's and the local one, or
  between any two files of a command;
- two devices hold different Session sources and take turns on one group;
- checkpoints, local family heads and Central's family heads are three counters
  that move in different databases and must not overtake each other;
- users, operators and hooks act at any time between those steps; hooks fail, and the host
  goes on without them;
- a publication is one act of three stores (SQLite, the local repository, the remote)
  that no transaction spans, over a base that other people's pushes move, and the read model
  that shows its result is a fourth;
- a run that lost its lease keeps going beside the one that replaced it, and both make and
  archive native Threads;
- a Turn's permission to use a tool rests on a gate, an intent, a context epoch and an
  active set that change in different transactions.

What makes each component correct is stated as properties below. PROJECT.json lists every
hazard at its line with the property that would catch it.

## Modules

| module | models | extends |
|---|---|---|
| `CandidateFamilies` | Candidate revisions, family heads, ownership: the rules by which a batch is accepted and the rows it writes | – |
| `CaptureGroups` | every group-level handler of Central, its operators and its clock | `CandidateFamilies` |
| `CaptureRequest` | abstract specification: what an Update action promises | – |
| `CaptureDelivery` | Agents composed with Central, over calls that fail | `CaptureGroups` |
| `CaptureAttempts` | how an Agent computes the Candidates of one source for one slice: attempts, Threads, reconciliation | – |
| `WebReview` | drafts, review batches, the current revision of each family | – |
| `RegistryGit` | the commit graph, a checkout, the remote, and the Git adapter's questions about them | – |
| `RegistryProjection` | the read model and its synchronizer | `RegistryGit` |
| `DecisionPublication` | abstract specification: what publishing a reviewed Decision promises | – |
| `Publication` | previews, confirmations, commit and push, recovery, the read model, crashes, other clients of the remote | `WebReview`, `RegistryProjection` |
| `HookEvents` | the native host and the Agent's ledger of its events | – |
| `RecallHost` | cards, deliveries, gates and epochs of one native Session | `HookEvents` |
| `AgentWorker` | from a Hook to the Session index: intake, launch, lock, claims, retries | – |
| `ControlBindings` | the Candidate refresh card, from its binding to Central's answer and the Agent's choice of sources | – |
| `ManualCapture` | V1 Capture and Review over private files | – |
| `ManualPublication` | V1 publication composed with them and with Git | `ManualCapture`, `RegistryGit` |
| `RecallDemo` | installs of models, bundles, preflight and retrieval over one directory tree | – |
| `MC*` | instances for TLC | the above |
| `*Proofs` | theorems | the above and TLAPS |

### CaptureGroups and CandidateFamilies

One action is one handler, because each handler is one transaction. A refusal rolls back
and a replay returns the stored answer; both leave Central as it was, so they are
stutters. Central does not trust its callers, and neither does the model: any device may
make any call at any time with any token it was ever handed. Delayed, duplicated
and reordered calls are therefore all included.

| variable | code |
|---|---|
| `state`, `attempts`, `holder`, `token`, `lease`, `retry`, `snapshot`, `result` | columns of `capture_groups`; `token` is the number of the claim whose token's digest is stored; a deadline is the number of ticks left, 0 when it has passed, `Null` for SQL NULL |
| `plan`, `receipt` | rows of `capture_slices`: the source boundary a route is planned with, and the batch it accepted |
| `revisions`, `head`, `ownership` | `candidate_revisions`, `candidate_family_heads`, `candidate_revision_ownership` |
| `actions`, `created` | `capture_group_actions`, and the order of `created_at` |
| `enabled`, `routeHeads` | enabled columns of repositories and Decision Spaces; trusted route heads |
| `lastEvent` | code of the newest event row |
| `issued`, `writer` | history only: who was handed which token, and the token of the last accepted call |

A Candidate's record is a model value (its content is not modelled, hence not the refusal of
another product than the slice's, `central/service.py:447`), a route one `(route_id, configuration_version)`
pair, a source boundary digest a model value. `claim_next_group` requeues every due group
and then claims the oldest; both are one action (`ClaimNextGroup`), or, when nothing can be
claimed, `RequeueDueGroups`.

`CaptureRequest` says what a user may rely on, without leases, devices, retries or clocks:
one open request per repository, slices fixed once, each settled once, one irrevocable
end, in success only when every slice is settled. `CaptureGroups!Promise` instantiates it
with a refinement mapping (`PhaseOf`).

### CaptureDelivery

A device has the rows of its SQLite database (`latest`, `handled`, `excluded`, `freeze`,
`acked`; `selection`, `localHead`, `draft`, `outbox`, `uploaded`), and in memory only `pc`
(what `run_once` does next) and `job` (request and token). A crash clears these two
and nothing else.

One action is one local transaction or one call. A call has four outcomes, which the
operators `Answered`, `Undelivered` and `Refused` spell out: handled and answered;
handled, the answer lost (a `TransportError`, which `_request` does not retry); handled, a
retryable status in its place (which `_request` retries, so the same call is made again);
never delivered; or refused by Central for exactly the reasons the handler has
(`PlanRefused`, `BatchRefused`, `CompletionRefused`). Central's half of a call is
an action of `CaptureGroups`, so that the composition is Central with callers
that follow the Agent's program, which is a theorem here (`DeliveryImplementsCentral`).

| action | code |
|---|---|
| `Observe`, `FreezeSources`, `ExcludeSource`, `Acknowledge` | `SessionIndex` of `agent/session_index.py` |
| `Claim`, `ClaimNothing`, `ReportFailure` | `run_once` of `agent/service.py` |
| `Renew`, `RenewalFails`, `FinalHeartbeat` | the lease thread and the guarded client of `agent/request_lease.py` |
| `Start`, `SelectRoutes`, `PlanSlicesCall`, `DeliverSlice`, `CompleteCall` | `_process`, `_process_slice` and `_deliver_slice` of `agent/capture_processor.py` |
| `Reconcile`, `CommitSliceResult` | `apply_reconciliation` (`capture/reconciliation.py`), `store_slice_reconciliation` and `commit_slice_result` (`agent/request_state.py`) |
| `Crash`, `AttemptFails`, `Clock` | the process dies; a local step or a model turn fails; Central's time |

What the model extracts from a Session is not modelled; what a reconciliation may yield
is: any growth of the families minted for the slice, of which only the final head
is uploadable.

### Publication, with WebReview, RegistryGit and RegistryProjection

Central runs one event loop and its handlers are synchronous, so at most one request is in
progress. A publishing request is not atomic, though: it commits SQLite transactions
and runs Git in between, and a crash may fall between any two. `handler` is where the
request in progress stands (`step`, which preview, which commit); each of its actions
ends at the next durable effect, which is where the tests inject crashes (`checkpoint` in
`central/web/publications.py`). Between two of its actions others push to the
remote or pull in Central's checkout, and devices upload revisions. `Crash` forgets
`handler` and nothing else; `GitFails` is a Git command that fails or times out, before or
after its effect, and ends the request or stops the publication as the code does.

| action | code |
|---|---|
| `SaveDraft`, `SubmitReview`, `Upload` | `save_draft` and `submit` of `central/web/reviews.py`; the device API |
| `PlanPreview`, `FreezePreview`, `FetchOnly` | `create` and `get` of `central/web/previews.py`, before and in the transaction |
| `CheckConfirm`, `Confirm` | `confirm` of `central/web/publications.py`: `check_publishability`, then the transaction that revalidates, stores and claims |
| `Resume` | `resume`, a replayed `confirm`, a second `confirm` of the preview |
| `AdoptCommit`, `WriteFiles`, `StopUncommitted`, `CommitExact`, `RecordCommit` | `_resume_confirmed`, with `reconcile_exact_commit`, `write_exact`, `commit_exact` |
| `CheckRemote`, `Push`, `PushRaced`, `CompletePush` | `_complete_or_push`, with `publication_remote_state`, `push_exact` |
| `Prove`, `Install`, `InstallFails`, `Startup` | `synchronize` after a completed publication and at startup |
| `ForeignPush`, `OperatorPull` | other clients of the remote; an operator at Central's checkout (external) |

A commit is its parent, its ancestors and the preview whose files it adds (or none: others
only push commits that leave the registry alone, which the design requires of them). A
preview is named by what its id digests, review batch and base commit. A projection
is the set of publications its rows stand for: their digests are checked against the
tree when they are read. One organization, one leaf and one reviewer: rows of
different leaves are never shared. Replays of a `client_action_id` and refusals change
nothing. Preview revalidation against device uploads is kept although one event loop
would exclude most of it, because the code and its tests
(`tests/test_central_web_publication.py:105`) provide for it.

`DecisionPublication` says what a reviewer may rely on, without Git, drafts, previews, requests or
crashes: a confirmed publication owns its families, makes one decision, records it for all of
them at once, shows it only then, reports success only after that, or stops for good.
`Publication!Promise` instantiates it: owners are the claims, decisions the commits of Central,
what is public is the tree of the remote main. V1 does not make this promise: its commands
claim nothing, so two confirmed previews may share a Candidate until one is committed.

### CaptureAttempts

What `Reconcile` of `CaptureDelivery` takes as one step is here the whole of it, for one
source of one slice, under two overlapping runs: nothing keeps two Agents of one device
apart but the lease of the group. Each store transaction and each App Server call is a step;
`CutOff` ends a run anywhere.

| variable | code |
|---|---|
| `operation`, `attempts` | `capture_operations`; `capture_execution_attempts` by generation |
| `threads` | native Threads of the App Server: new, recorded as internal, archived |
| `slice` | `slice_reconciliation_results` and its archive row |
| `excluded` | `excluded_reason` of the source in `capture_request_sources` |
| `run` | where a process stands in `RequestedCaptureRunner.run` or `ReconciliationRunner.run`, with what it read: `seen`, `generation`, the list its archive sweep works through |
| `handed` | history: results given to the processor |

The status a run read before (`seen`) is kept because `_fail_unavailable` acts on it. What the
model answers is a value of `Outputs`; those in `Silent` have no Candidate and take the
short way. An archive call may fail after it archived.

Whether the source is excluded is asked on every run, before the operation's status is looked at
(`app_server/requested_capture.py:177`, `:260`). A source found not to be interactive after a run
committed its operation and before the slice has its reconciliation gets the empty one
(`SourceExcluded`, `MarkExcluded`, `StoreEmpty`; `agent/capture_processor.py:366`, `:471`), and the
Candidates of the committed operation are in no slice. `OneResult` therefore says of a
stored reconciliation that it was made from the committed output or is the empty one of an
exclusion on record. Operations of the current protocol are modelled, not the legacy ones.

### HookEvents and RecallHost

`host` is the native host: a Session is started, prompted, compacted in the middle of
a Turn, cleared, ended and resumed, and at each point a Hook is called. A Hook records its
event and then does its Recall part in other transactions; it may fail before the one or
the other (`Hook`), and the host goes on.

| variable | code |
|---|---|
| `log` | the events table in rowid order; a row is its identity |
| `attempt`, `delivery`, `gate` | `recall_activation_attempts`, `recall_deliveries`, `recall_turn_gates`; a Turn has at most one row of each |
| `session`, `active`, `restorations` | `recall_sessions`, `recall_active_injected_items`, `recall_context_restorations` |
| `internal` | whether the thread is in `recall_internal_threads` |
| `call` | MCP calls in flight: retrieval and gating read one transaction and commit in another |
| `plugin` | the installed plugin bundle, to which rows bind |
| `received` | history: the shortlists that reached the model |

| action | code |
|---|---|
| `CreateActivationAttempt`, `AttachActivationCard`, `Decline` | the card: `create_activation_attempt`, `attach_activation_card`, `decide_activation_attempt` |
| `Enable`, `TakeOver`, `EnableAgain`, `CommitPreparedDelivery`, `MarkDeliveryUnknown`, `ClaimDeliveryRetry`, `AckDelivery` | `enable` of `recall_handoff.py` and the store's delivery operations |
| `ApplyDelivery`, `CommitDeliveryApplication` | `apply_recall_delivery`: `_application_binding` looks at the delivery and for a newer gate, and `commit_delivery_application` commits in a transaction that repeats the first look (`ApplicationStands`) but not the second |
| `BindTurnGate`, `ReuseIntent`, `CommitTurnGate` | `gate_turn` with the same intent: the Session is read, then the gate is committed |
| `ChangeIntent`, `BeginIntentDelivery`, `CommitIntentDelivery` | `gate_turn` with another intent: the Session is read, the preflight frozen (`IntentStands`), the shortlist retrieved |
| `UserPrompts`, `ContextRestarts`, `ContextClears`, `SessionResumes`, ... | the Hooks |
| `SessionEnds` | `retire_activation_attempts`, then `mark_dormant`; the Hook may end between the two |
| `Refused`, `CutOff`, `Expire*`, `UpgradePlugin` | refusals, interrupted calls, time, an upgrade |

Times are what comparisons with them yield (`alive`, `fresh`). A digest of an active set is
the set, with the delivery and epochs it hashes. What the model decides about a
shortlist (applicable, conflicting) is any choice. `ToolAllowed` is what
`guard_active_turn_tool` answers for a call it could judge: when the store cannot be read in
time the guard lets the tool through (`agent/hooks.py:278`), so `ToolsFollowTheirGate` says
nothing of those calls.

A call that was begun under the gate of one Turn may commit after the next Turn was prompted.
A late application then advances the intent epoch, and the pending gate of the new Turn,
which carries the old one, can no longer be committed: that Turn has no permission until
the next prompt. `PendingGateIsCurrent` names this one exception (`Overtaken`) and says that
nothing else, in particular no compaction however its Hooks fail, leaves a running
Turn's gate behind.

### AgentWorker

`hook`, `worker` and `lock` are the processes; `work` is the state and due time of each
row of the ledger; `checkpoint` the row the Session index is at. The batch a Worker claimed
(`claims`) is a set of rows, which it goes over in row order (`IsNext`). Every transaction is an
action, and `HookDies` and `WorkerDies` come between any two. `missed` is history: rows that
were pending when a process died or the owner of the lock left, until the next owner; only
these may wait for another event.

### ControlBindings

One repository with cards, views and Sessions. `binding` is `control_bindings`, `call` one
MCP call of each view, `late` calls a view gave up that Central will still see, `group`
Central's half: one active group per repository and a replay by action, which is
`CaptureGroups` reduced to what a card can tell. `AgentFreezes` is `_selected_session_id` on
this device or on one whose database has none of the cards.

### ManualCapture and ManualPublication

Every command is a process. It reads the files it decides on in one step; what it then has
to store is its queue in `writing`, one entry per file access, in the order of the
code. A write the store refuses is never enabled and the command ends (`CutOff`). A
publication command (`publishing`) stops after each durable effect on a file, the repository or
the remote; `CommitExact` is `commit_exact` as a whole, its checks of HEAD, of a clean tree and of the
exact files together with `git add` and `git commit` (`registry/git.py:144`). `batches` are indexed by the rank of their id, which is a digest and known only
when the file is written. A preview is named by batch and base commit; `Mixed` stands for
the files of two publications in one work tree.

### RecallDemo

Two `prepare-models` commands, two publishers (Central after a publication, the seeding command
of `docs/demo-recall-provider.md`), and the Agent's preflight and retrieval, over one
directory tree without a lock. Installs, bundles and pointers are records; a digest is the value
it digests, so an install's manifest is its profile and a bundle's its Decisions.
`product` is the work tree, which need not be the tree of `head` (`FilesLeftBehind`, the
`worktree` of `RegistryGit`). `Refresh` reads HEAD and the selected bundle in one step; the
commit moves between them only by somebody else's publication, and what follows
(`BuildBundle`, `RetainGeneration`, `SwitchPointer`) is separate from it. Fsync, permissions other
than the seal, and signatures, which a directory's owner can make, are left out.

## Runs

Passing runs.

| run | question | properties |
|---|---|---|
| `central_groups` | two Update actions of one repository, two devices that use current and stale tokens, two slices, competing revisions of one family, and an operator who takes one of the routes away: does Central stay consistent, does a family stay where it is owned, and does every group that waits keep the deadline that wakes it? | `WakeupScheduled`, `SuccessIsBacked`, `GapFreeHistory`, `ReceiptsMatchStore`, `FamilyStaysInSpace`, `StaleTokensAreFenced`, `Promise` |
| `delivery_restarts` | one device, two Update actions in a row, two new turns, slices that create and revise, a Decision Space that is disabled and enabled, crashes, lost calls and lost answers: are checkpoints and heads ever ahead of what Central accepted, do they ever move back? | `AcknowledgedIsCentral`, `CentralFollowsTheDevice`, `DeviceMovesForward` |
| `delivery_handover` | two devices with different sources keep polling and take turns on one group of two slices, with a clock and two faults: is a slice ever filled from another boundary than its own, and does every Update action end? | `BatchesComeFromTheirBoundary`, `UpdatesEnd` |
| `publication` | two families, two review batches over the same or successive bases, one family revised meanwhile, a foreign commit, a crash or failure at any step: is a family ever committed twice, success claimed for what is not on main, a Decision on main forgotten, a stale read model shown, a stopped publication moved? And with somebody who resumes: does every confirmed publication end? | `CommittedOnce`, `CompletedIsOnMain`, `MainIsRecorded`, `NoStaleRegistry`, `Promise`, `ConfirmedIsCurrent`, `ConfirmedEnds` |
| `recall` | three Turns of one Session whose Hooks fail, whose context is compacted, cleared, ended and resumed and whose plugin is upgraded, with two calls racing for the deliveries of two intents: is the model ever shown two shortlists for one card, does an active set without a receipt ever govern, is a tool let through under a gate that was replaced, does a compaction strand the running Turn's gate? | `TypeOK`, `ActiveSetIsReceipted`, `OneShortlistPerDelivery`, `ToolsFollowTheirGate`, `PendingGateIsCurrent`, `DecisionsStand` |
| `agent_worker` | two Hooks, two Workers, one lock, deaths and failing events: is anything consumed that is not indexed, is anything left behind? | `ConsumedIsIndexed`, `RecordedIsConsumed` |
| `control` | two cards of two Sessions in two views, a request of the web page and a lost call: does a card stand for one request, and the request for the Session and scope chosen first? | `OneRequestPerControl`, `ScopeIsKept` |
| `capture_attempts` | two overlapping runs of one source, cut off anywhere: one result? are Turns run in Threads that a sweep took away? is anything settled changed? | `TypeOK`, `OneResult`, `TurnsRunInOpenThreads`, `SettledStays` |
| `manual` | two overlapping V1 commands, cut off anywhere, and a foreign commit: are completed Captures whole, Candidates published once, receipts and records true of Git? | `TypeOK`, `CompletedIsWhole`, `PublishedOnce`, `RecordsAreTrue` |
| `recall_demo` | two installers, two publishers, a reader, a checkout that moves, leftover files, another profile, failures and kills anywhere: are the selected models and bundle whole, is a shortlist of the bundle the user confirmed? | `ModelsAreWhole`, `SelectionIsRetained`, `RetrievedIsConfirmed` |

Runs that show a disagreement: `delivery_ack` (`CompletedIsAcknowledged`) and
`delivery_lineage` (`PendingRevisionsFollow`), see [below](#disagreements-found).

Every property of a passing run has a mutant in PROJECT.json: a plausible mistake in one
mapped definition with which TLC finds the property violated. The mutated forms are
the operators commented "Mutant"; no specification uses them.

## Bounds

- `MaxAttempts` (claims explored per group): 2 where one expiry or retry is enough for
  a stale token to meet a current one; 4 in `delivery_handover`,
  where the two faults allowed can waste at most two attempts, so the bound is
  never what stops a group.
- `LeaseSeconds = 1` and `RetryDelays = <<1>>`: a deadline is pending or passed; how many
  seconds it takes does not matter to any guard. With one delay configured, first attempt,
  retry and exhaustion all occur.
- `MaxTurns`, in the delivery runs turns per source: 2 in `delivery_restarts`, so that a turn
  arrives after the freeze and before the acknowledgement; 1 elsewhere. In `recall` Turns of
  the Session: 3, so that a set is delivered, applied in a second Turn and replaced or
  reused in a third.
- `MaxGrowth`: revisions one slice adds to a family; 2 lets it create and revise.
- `MaxFaults = 2`: two faults compose (an answer lost, then a crash); 1 suffices for the
  counterexamples, and is the bound of `publication`, where a crash already meets a foreign
  commit, a raced push and a second publication.
- `MaxReviews = 2`: one batch can supersede another, two publications can compete for a base
  or follow one another. `MaxVersion` (saves and submissions of the draft) is what two batches
  need, with one save in between. `MaxRevision` is how often each family is revised:
  one of them once. `Saves` lists the item sets the
  reviewer saves: one family, both, one rejected beside one accepted, a newer revision.
- `MaxForeign = 1`: one commit of others is enough to move a base or race a push.
- `recall`: `MaxBreaks = 1` (one compaction, clear or end per Session), `MaxCards = 1` (a
  second card needs a Session whose first came to nothing), `MaxInterrupts = 1` (one failed
  Hook, cut-off call, lost answer or upgrade), one registry generation and one head commit,
  automatic compactions only, two intents in different Decision Spaces, one of which may
  retrieve nothing.
- `agent_worker`: two events of one Session, `ClaimLimit = 2` so that one claim holds both, a
  death of each of two processes (`MaxDeaths = 2`), one failing event (`MaxErrors = 1`).
- `control`: two actions for two cards, so that a card could take a second one; one lost call
  or answer (`MaxLost = 1`).
- `capture_attempts`: `MaxGenerations = 2` lets an old attempt meet a new one, `MaxThreads = 3`
  gives each and a reconciliation one Thread; a run that would exceed them ends. Two outputs,
  one without a Candidate; two decisions.
- `manual`: two Review batches (`MaxBatches`), an extraction of two Candidates
  (`MaxCandidates`; the code allows 20) and one of one, two approving Turns. `NoCaptureRuns` keeps a Capture command and a publication from
  overlapping: a publication only reads a completed Capture, whose files never change.
- `recall_demo`: `MaxCommit = 2`, `MaxInstalls = 2` (one run of each installer, the least
  with which they race for a path), two profiles.
- Sets: two Update actions are needed for one to follow another, two devices for a handover
  or a fence, two routes for partial completion, two contents for a fork.
- Symmetry: of devices in `central_groups`, callers in `recall`, views, Sessions, cards and
  actions in `control`, runs in `capture_attempts`, commands and Turns in `manual`,
  processes and profiles in `recall_demo`; no property there tells them apart, and no run with
  a liveness property uses it.
- Deadlock is checked in `agent_worker`. Elsewhere it is off: the instance has finitely many
  Update actions, turns, reviews, cards, attempts, commands or installs, and then nothing is
  left to do.

The proofs below have no such bounds.

## Fairness

- `delivery_handover`: weak fairness of the clock and of each device's `Work`, the steps
  `run_once` takes of itself. Users, new turns, renewals and failures owe nothing. Faults are
  finite (`MaxFaults`), without which no delivery protocol terminates. `Timely`
  restricts the clock: the lease of a group whose holder still works on it does not
  run out. The renewal interval is 10 of the lease's 30 seconds (`sync/contracts.py:28`), so
  this says that one of two renewals arrives. The safety runs do not assume it:
  there leases run out under working devices.
- `publication` (`FairSpec`): weak fairness of the process (`Work`: a request goes on;
  `Startup`: it is restarted) and strong fairness of resuming a publication that has not
  ended: somebody tries again whenever that is possible again. The API allows it. The web pages
  do not in one state, see the divergences below. The invariants of the run do not depend on it.
- `agent_worker`: weak fairness of a Hook that was called, of each Worker that runs, and of
  time. Nothing obliges the host to call a Hook, and deaths are finite. The property excepts
  what `missed` holds, which is exactly what the code leaves for the next event's Worker.

## Proofs

Checked by TLAPS for all values of the constants; the assumptions are `FamilyAssumption`,
`GroupAssumption`, `ToggledAssumption`, `DeliveryAssumption`, `ReviewAssumption`,
`GitAssumption`, `PublicationAssumption`, `ControlAssumption`, `AttemptAssumption`,
`HookAssumption`, `RecallAssumption`, `WorkerAssumption`, `RecallDemoAssumption` and
`ManualCaptureAssumption`, which TLC evaluates in the runs of their modules. They type the constants and keep markers such as
"no action" apart from values. `DeliveryAssumption` also says that a Session source belongs to
one repository (`session_checkpoints.repository_id`, `agent/session_index.py:71`) and that no
two routes share a place in the slice order (`slice_order` is the index in the sorted plan,
`central/service.py:389`).

| module | theorem | argument |
|---|---|---|
| `CaptureDeliveryProofs`: Central | `TypeCorrect` | types, and one handed-out token per attempt (`IssuedOK`): the second is needed because a call's token is drawn from the history |
| | `WakeupCorrect` | `LeaseInv` = types, `IssuedOK` and `WakeupScheduled` is inductive |
| | `OneActiveCorrect` | only `CreateGroup` makes an inactive group active, and it looks |
| | `FencingCorrect` | a live lease's token equals `attempts`, from `LeaseInv` |
| | `ReceiptsCorrect`, `HistoryCorrect`, `OwnershipCorrect` | `StoreInv`: the three together, and that a receipt belongs to a planned slice, which keeps `PlanSlices` from changing what a receipt stands for; lemmas on `CandidateFamilies` say that an acceptable batch keeps histories gap-free and owners in their space |
| | `SuccessCorrect` | an unleased group's rows rest, so a frozen result stays true |
| | `PromiseKept` | initial states and every step map to the abstract specification |
| `CaptureDeliveryProofs`: the Agents | `DeliveryTypeCorrect` | `DeliveryInv`: types, every job's token was handed to its device (`JobIsHanded`), a device past a step has its rows (`Prepared`), frozen turns were observed (`BoundariesObserved`) |
| | `DeliveryImplementsCentral` | from `DeliveryInv`, each step of an Agent is a step of `CaptureGroups` or a stutter; all of Central's theorems carry over |
| | `AcknowledgedCorrect` | `AckInv`: a device about to acknowledge has a request that is settled (succeeded with its outbox); settled requests stay settled because success is terminal (`SuccessCorrect`) and an outbox row is written once, only while its request works |
| | `BoundariesCorrect` | `BoundaryInv`: a device past its plan call works on the plan it proposed, because a group is planned once and a second device's proposal carries its own boundary; receipts come from that device's outbox |
| | `ForwardCorrect`, `FollowsCorrect` | `LineInv`, below |
| `PublicationProofs` | `PublicationTypeCorrect`, `CompletedCorrect`, `PushesCorrect` | `PublicationInv`: types, `History` (a commit's `past` is its ancestry, parents come first), `Stored` (a record names an exact commit once it is past confirmation) and `Working` (what the request in progress knows at each checkpoint: this is what makes a resumed publication continue where the record says). Every step extends the commits and moves the remote main to a descendant (`GitStep`) |
| | `CommittedOnceCorrect` | `CentralCommits`: a commit of a preview stays an ancestor of HEAD, which therefore never is that preview's base again, so it is not made twice; and two stored publications never share a claim (`Claimed`) |
| | `MainIsRecordedCorrect`, `ReceiptsAreClaimedCorrect` | `Claimed` ties claims, receipts and the record's state together; a push moves the remote main only to a recorded commit |
| | `NoStaleRegistryCorrect` | `Projected`: what is about to be installed contains every commit of Central, and only a request that is still to synchronize may have completed a publication the served tree lacks |
| | `PublicationPromiseKept` | with `Owners` (a claimed family is accepted by a stored publication) each step maps to a step of `DecisionPublication` or a stutter: a commit is the publication's first because of `CentralCommits`, what is pushed is recorded because of `Claimed` |
| | `ConfirmedIsCurrentCorrect`, `StopsForGoodCorrect` | from `PublicationInv` and what each step may do to a record (`PublicationKinds`) |
| `ControlBindingsProofs` | `OneRequestCorrect`, `ScopeCorrect` | `OwnershipInv`: an action is of one card, and everything that carries it (a call under way, one that is late, a group) carries the scope that card froze. It is needed because a call given up on its way may reach Central at any later time |
| `CaptureAttemptsProofs` | `AttemptTypeCorrect`, `OneResultCorrect` | `AttemptInv`: what a run knows at each step. While it executes, the generation is its own and nobody else writes it (`OwnsAttempt`, `OwnersDiffer`); while it commits, the attempt is validated or decided; while it reconciles, it carries the committed output (`CarriesResult`), and where it is about to store the empty result of an exclusion, the exclusion is on record. A run of an old generation therefore commits nothing: `can_win` compares generations |
| | `SettledCorrect` | from `AttemptInv`, step by step: only an unfinished attempt is written |
| | `OpenThreadsCorrect` | `ThreadInv`: a Thread in use is one run's, no row has it but the attempt of that run, and no sweep has it in its list, also not one that read its list before (`Apart`) |
| `RecallHostProofs` | `TypeCorrect` | `RecallInv`, below; epochs are bounded because an intent epoch is a settled Turn and a context epoch a restored break (`Counted`), both of which the host counts |
| | `ShortlistsAreFrozen` | `HandedOut`: what reached the model is what the row of its delivery says, and a row past "preparing" keeps its shortlist, whoever claims it |
| | `ActiveSetCorrect` | `Receipted`: while the Session is active or dormant its receipt is that of an applied delivery, whose row no step changes |
| | `ToolsCorrect` | `GatesFollow`: at most one Turn is open (`OneTurnIsOpen`), and a row opens only the Turn it is the prompt of (`OpensOnly`); so when the intent changes, the one gate whose tools may run is the one the application commits |
| | `PendingGatesAreCurrent` | `Gated`: the pending gate of the running Turn is of the Session's epochs, from its prompt to its end, also while it is compacted, unless an application overtook it (`PendingIsCurrent`). An application under way is of a delivery that is alone (`OneIsLive`), and while that waits no later Turn is gated (`Applying`): so a late commit disturbs no committed gate and only the newest pending one |
| | `DecidedStands` | `RecallStep`: every action keeps `RecallInv` and what was decided |
| `AgentWorkerProofs` | `ConsumedCorrect`, `WorkIsNeverUndone` | `WorkerInv`: types, and that a Worker about to consume a row has it in the index (`IndexedFirst`). It holds under any interleaving of Workers and without the lock, because a checkpoint only moves forward |
| | `OneWorker` | a Worker is past the lock exactly while `lock` names it |
| `RecallDemoProofs` | `ModelsCorrect` | `ModelsInv`: commands under way have different ids, so none cleans up what another put into place, and the selected install stays where it is, sealed |
| | `SelectionCorrect`, `GenerationsStay`, `RetrievedCorrect` | `BundlesInv`: a publisher about to select has its bundle retained, a retained generation is never replaced, and what the Agent ranked is of the bundle the user confirmed |
| `ManualPublicationProofs` | `ManualTypesCorrect`, `CapturesAreWhole` | `CaptureInv`: what a command still has to write is of one output of one Turn, and a queued Candidate has the manifest that owns it before it, on disk or in the same queue (`Owned`) |
| | `PublicationsAreSingle`, `RecordsTellTheTruth` | `PublicationInv`, below |

`LineInv` says when what a device stored may still take effect: its request is active at Central,
or the device still works on it (`Live`). While such a request has frozen sources, the device
works on no other of the repository (`OneLine`): another claim would need a second active group
there, which `OneActiveCorrect` excludes, and a group that ended is never claimed again. So no
checkpoint passes a frozen boundary that is still to be acknowledged (`FrozenIsAhead`). A stored
result that waits for its commit belongs to the first missing slice, and only its own commit
moves the heads it started from (`PendingIsCurrent`). A stale token does no harm here, because a
device that gives up a job it lost cannot get it back once the group has ended. Committed
batches are at or below the local heads (`OutboxIsLocal`), hence so are Central's.

`RecallInv` needs the ledger and the host beside the store's rows. A call that reuses an intent
reads the Session in one transaction and commits a gate in another; what it read is current, or
an epoch behind, or the Session is about to get another set (`SeenIsCurrent`), and the commit
blocks the gate in the second case and does nothing in the third. The restoration
of a context is only right because a break that is under way has not been restored yet
(`Compacting => session.context < breaks`). One lemma (`HooksMoveTheWorld`) says what any Hook
does to host and ledger, whether it records its event or fails; the lemmas about the
actions then need no case for it.

`ManualInv` is `CaptureInv` with `PublicationInv`, whose parts are about Git, the files and the
commands. Of Git: `History` relates every commit to its ancestors, `Traced` says that what a commit
publishes is of a stored Review, and `Disjoint`, of every commit and not only of a head, that its
history publishes a Candidate at most once; so a fetch or a pull of any commit keeps it. Of the files:
a confirmed preview was found to have none of its Candidates in the history of its base, and neither
it nor its base ever changes (`Cleared`), so a commit made on exactly that base long after needs no
second look; a record past confirmation names a commit with its files and has its receipts (`Sound`);
a receipt is of such a commit (`Receipted`). Of the commands: `Knows` says what each has established
when it stands at a step, although another may have replaced the record since. A Review's sequence
is at most the number of batches (`Numbered`), because it is one more than the largest of those
stored; the library's well-founded minimum gives the least and the largest of a set of numbers
(`SmallestOf`, `LargestOf`).

The invariants of the publication proofs, of `CaptureAttemptsProofs`, of `RecallHostProofs` and of
`ManualPublicationProofs` were first checked by TLC on the constants of `publication.cfg`,
`capture_attempts.cfg`, `recall.cfg` and `manual.cfg`, `BoundaryInv` and `LineInv` on those of `delivery_handover.cfg` and on those of
`delivery_restarts.cfg` with two routes.

Central's `TypeCorrect`, `OneActiveCorrect`, `DeliveryTypeCorrect`, `DeliveryImplementsCentral`,
`PublicationTypeCorrect`, `PushesCorrect`, `ReceiptsAreClaimedCorrect`, `StopsForGoodCorrect`,
`WorkIsNeverUndone`, `OneWorker` and `GenerationsStay` state properties no run lists: they are proved, and the runs
are for questions of their own.

Every safety property of every passing run is a theorem. Only model-checked is liveness
(`UpdatesEnd`, `ConfirmedEnds`, `RecordedIsConsumed`): liveness under fairness, `ENABLED` and
induction over recursive data are out of the prover's reach.

## Disagreements found

### With a run

1. `delivery_ack`. `agent/request_lease.py:186` relies on the replay of a completion whose
   answer was lost. Within one final-heartbeat failure the code does replay it; but when the
   completion call itself loses its answer, `run_once` reports a failure, whose heartbeat
   Central refuses, and drops the job. The group is terminal and never offered again, so its
   sources are not acknowledged and the same turns are captured again by the next request.
2. `delivery_lineage`. `apply_reconciliation` (`capture/reconciliation.py:611`) uploads only
   the final head of a family; Central accepts a new family at revision 1 and a known one at
   head plus one (`central/service.py:1899`, `:1929`). A slice that creates a family and revises
   it is refused, the request fails terminally, and the local head stays ahead for good.

### Divergences

Met while modelling; each is a definition of its module that no run lists. Added to the
named configuration as INVARIANT or PROPERTY, or as its SPECIFICATION, TLC finds it violated.
(`BrowserSpec` replaces the run's SPECIFICATION; the others are checked under `Spec`.)

| definition | configuration | what is said and what the code does |
|---|---|---|
| `CaptureGroups!AttemptsBounded` | `central_groups` with `MaxAttempts = 3` | The plan (`docs/superpowers/plans/2026-07-30-on-demand-capture-core.md:524`) says that one Capture Request cannot retry forever. `fail_group` counts attempts, but `_requeue_due_groups` (`central/service.py:778`) returns an expired lease to the queue whatever the count: a worker that dies every time is re-claimed without end, and claims are oldest-first, so younger groups wait behind it. |
| `Publication!RegistryStaysServed` | `publication` with `MaxForeign = 0` | The design calls the synchronizer idempotent (`docs/superpowers/specs/2026-08-06-registry-read-model-design.md:186`, `:288`). `publish` and `resume` synchronize with the commit of their publication also when it was completed long ago (`central/web/application.py:293`); after a newer publication HEAD is not that commit, and the read model of the newer tree is marked unavailable until the next publication or restart. |
| `Publication!ConfirmedEnds` under `BrowserSpec` | `publication` | The publication page offers resume only while the push is pending (`web/src/pages/publication-history/PublicationDetailPage.tsx:98`) and the preview page no confirmation once a publication exists. After a crash between confirmation and the record of the commit the publication stays confirmed and keeps its families; the API could resume it, no page does. The design lists that crash point as one that recovers (`docs/superpowers/specs/2026-08-04-central-decision-web-design.md:601`). |
| `ControlBindings!BusyCreatesNoRequest` | `control` | "A card receiving that result displays [busy] and creates no request" (`docs/superpowers/specs/2026-07-31-codex-inline-candidate-refresh-design.md:291`). A card is clicked in two views, or again after a call was given up on its way. One call is told busy, which settles the card; the other reaches Central when the active group has ended, and creates the request the card does not show. |
| `RecallHost!OnlyNewestGatesApply` | `recall` | `test_older_turn_gate_cannot_apply_after_a_newer_gate_exists` (`tests/test_mcp_recall_handoff.py:483`). The newest gate is looked for in `_application_binding` (`agent/recall_mcp.py:308`) and not again in the transaction that applies (`agent/recall_host_state.py:1379`): a Turn prompted between the two is overtaken, and its gate can no longer be committed. |
| `ManualCapture!SequencesIncrease` | `manual` | The design numbers the Reviews of a Capture in order (`docs/superpowers/specs/2026-07-29-review-publish-design.md:225`). Two overlapping commands read the same last sequence, and the newest Review is then decided by the order of two digests. |
| `ManualPublication!ApprovalStays` | `manual` | "Publication approval is immutable" (`private_store/filesystem.py`, `_require_same_publication_payload`). `replace_publication` compares and replaces in two steps without a lock: two confirmations by different Turns both compare before either replaces, and the second overwrites the first's approval. |

Three more need no property. `RecallDemo` reaches a bundle of `Leftover`: `build_signed_bundle`
reads the work tree, whatever the commit it is for (`recall/demo/bundle.py:91`), so the files
of a publication whose commit failed are signed with the next refresh, while the design says
that no Candidate enters a bundle before its publication is completed
(`docs/superpowers/specs/2026-08-13-recall-demo-provider-bridge-design.md:129`). After the models of
another profile are prepared, every later refresh is refused, because the selected bundle no
longer verifies (`Refresh` requires `Proved(current)`). And two publishers that read the same
selection number two generations alike, and the slower one may select an older commit again;
`RetrievedIsConfirmed` holds because the whole selection is compared, not its number.

## What is not modelled

- Of Central's Capture service: the request API that preceded leaf routes
  (`create_request` to `fail`, `accept_legacy_root_batch`), the event cursor and the
  migrations. Of the Agent's delivery: progress calls (they write Central's event log only), the
  frozen model profile, loading of the configuration, the reconciliation attempts and batch
  that preceded slices.
- Of Capture routing: the evidence of paths in Git and the parsing of repositories and routes.
  `SelectRoutes` of `CaptureDelivery` selects any of the group's routes.
- Of the decision web: pages and lists, per-item ownership and scope checks (families of
  one leaf only), archived or disabled Decision Spaces. Of
  the registry: the contents of files, another origin or branch in the checkout, formal
  commits of other clients, and an operator who repairs a diverged checkout.
- Of Recall: the texts of the handoff, the protocol version that preceded deliveries, the
  migrations; one Session only, since rows of different Sessions are never shared. Of the demo:
  ranking, the index and the model runtimes, which compute over floating-point vectors.
- Of the Agent's database: the sync probe and Session leases, which the installed Worker does
  not read, and the migrations. Of the control card: its status reads and the dashboard.
- Of the V1 commands: the content of templates, prompts and provenance.
- The JSON-lines transport and the shapes of Codex messages (I/O with another program), HTTP
  parsing, Central's queries and administration (each endpoint calls one modelled handler),
  contracts and digests (records and model values in the modules), command lines.

## Plan

Done: Central (`CandidateFamilies`, `CaptureGroups`, `CaptureRequest`) and its proofs; Agents over
Central (`CaptureDelivery`), its refinement and the theorems of its safety; publication (`WebReview`,
`RegistryGit`, `RegistryProjection`, `Publication`), the theorems of its safety and its refinement of
`DecisionPublication`;
`CaptureAttempts`, `ControlBindings`, `RecallHost`, `AgentWorker`, `RecallDemo`, `ManualCapture` and
`ManualPublication` with every safety property of their runs proved.

To come, in this order:

1. `CaptureRouting`: route overlap and selection as operators, checked against a reference
   definition over bounded inputs.
2. `CaptureAttempts` as the implementation of `CaptureDelivery!Reconcile`.
