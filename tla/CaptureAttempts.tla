--------------------------- MODULE CaptureAttempts ---------------------------
(***************************************************************************)
(* How the Agent computes the Candidates of one source for one slice: a     *)
(* capture operation, its execution attempts by generation, the disposable  *)
(* native Threads they run in, and the reconciliation of the result         *)
(* (app_server/requested_capture.py, agent/capture_operation_store.py,      *)
(* app_server/reconciliation_runner.py, agent/request_state.py).            *)
(*                                                                          *)
(* A run is cut off by a crash or by an exception nobody catches (a refused *)
(* heartbeat), and the Agent serves the same slice again.  Nothing keeps    *)
(* two Agents of one device apart but the lease of the group, so the run    *)
(* that lost the lease may still be going when the next one starts: every   *)
(* transaction of a run is a step of its own.                               *)
(***************************************************************************)
EXTENDS Naturals, FiniteSets, Sequences

CONSTANTS
  Runners,         \* Agent processes serving the slice
  Outputs,         \* validated capture results the model may give
  Silent,          \* those without a Candidate
  Decisions,       \* reconciliations the model may give
  Empty,           \* the reconciliation of no Candidates
  MaxGenerations,  \* bound: attempts of the operation
  MaxThreads,      \* bound: disposable Threads
  NoOutput

ASSUME AttemptAssumption ==
  /\ Silent \subseteq Outputs /\ NoOutput \notin Outputs
  /\ NoOutput \notin Decisions /\ Empty \notin Decisions \cup {NoOutput}
  /\ MaxGenerations \in Nat \ {0} /\ MaxThreads \in Nat

VARIABLES
  operation,  \* the row of capture_operations
  attempts,   \* capture_execution_attempts, by generation
  threads,    \* disposable native Threads, in the order the App Server made them
  slice,      \* slice_reconciliation_results and slice_reconciliation_archives
  run,        \* what each process is doing
  handed,     \* results that runs returned to the processor
  excluded    \* capture_request_sources: the source was marked excluded

vars == <<operation, attempts, threads, slice, run, handed, excluded>>

NoThread == 0
Generations == 1 .. MaxGenerations
Finished == {"accepted", "superseded", "abandoned"}

Steps ==
  {"idle", "sweeping", "marking", "slice", "looking", "source", "excluding", "ensuring", "committed?",
   "validated?", "beginning", "forking", "attaching", "binding", "inventory", "extraction",
   "storing", "committing", "failing", "reconciling", "persisted?", "starting", "binding reconciliation",
   "deciding", "storing empty"}

Attempt ==
  [state : {"creating_thread", "running", "validated"} \cup Finished,
   thread : 0 .. MaxThreads, inventory : BOOLEAN, extraction : BOOLEAN,
   output : Outputs \cup {NoOutput},
   archive : {"not_applicable", "pending", "archived"}]

(* seen: the operation's status as the run read it; output: the result it   *)
(* carries; todo and next: the Threads its sweep has left, and what follows. *)
Run == [at : Steps, seen : {"absent", "open", "committed", "failed_terminal"},
        generation : 0 .. MaxGenerations, thread : 0 .. MaxThreads,
        output : Outputs \cup Decisions \cup {NoOutput},
        todo : SUBSET (1 .. MaxThreads), next : Steps]

Idle == [at |-> "idle", seen |-> "absent", generation |-> 0, thread |-> NoThread,
         output |-> NoOutput, todo |-> {}, next |-> "idle"]

(* The records are what CaptureOperation and ExecutionAttempt accept when   *)
(* they are read back (capture/on_demand.py): a row of another shape makes  *)
(* every later call fail.                                                   *)
TypeOK ==
  /\ operation \in [status : {"absent", "open", "committed", "failed_terminal"},
                    active : 0 .. MaxGenerations, winner : 0 .. MaxGenerations,
                    output : Outputs \cup {NoOutput}]
  /\ operation.status = "committed" <=> operation.winner # 0
  /\ operation.status = "committed" <=> operation.output # NoOutput
  /\ attempts \in Seq(Attempt) /\ Len(attempts) = operation.active
  /\ \A g \in DOMAIN attempts :
       attempts[g].thread = NoThread <=> attempts[g].archive = "not_applicable"
  /\ threads \in Seq({"new", "internal", "archived"}) /\ Len(threads) <= MaxThreads
  /\ slice \in [result : Decisions \cup {Empty, NoOutput}, from : Outputs \cup {NoOutput},
                thread : 0 .. MaxThreads, archive : {"none", "pending", "archived"}]
  /\ run \in [Runners -> Run] /\ handed \subseteq Outputs /\ excluded \in BOOLEAN

Init ==
  /\ operation = [status |-> "absent", active |-> 0, winner |-> 0, output |-> NoOutput]
  /\ attempts = <<>> /\ threads = <<>> /\ handed = {} /\ excluded = FALSE
  /\ slice = [result |-> NoOutput, from |-> NoOutput, thread |-> NoThread, archive |-> "none"]
  /\ run = [r \in Runners |-> Idle]

At(r, step) == run[r].at = step
Goes(r, step) == run' = [run EXCEPT ![r].at = step]
Ends(r) == run' = [run EXCEPT ![r] = Idle]

-----------------------------------------------------------------------------
(* Archiving.                                                               *)

(* Mutant: the query does not look at the attempt's state.                  *)
PendingAnyState ==
  {attempts[g].thread : g \in {h \in DOMAIN attempts : attempts[h].archive = "pending"}}

(* pending_archives: Threads of finished attempts that are still to archive. *)
PendingArchives ==
  {attempts[g].thread :
     g \in {h \in DOMAIN attempts : attempts[h].archive = "pending" /\ attempts[h].state \in Finished}}

PendingSliceArchive == IF slice.archive = "pending" THEN {slice.thread} ELSE {}

(* A sweep reads its list once and works through it.                        *)
Sweeps(r, list, next) ==
  run' = [run EXCEPT ![r] = [@ EXCEPT !.at = "sweeping", !.todo = list, !.next = next]]

(* thread/archive may fail, whatever became of the Thread: the row stays    *)
(* pending for a later sweep.                                               *)
ArchiveThread(r) ==
  \E t \in run[r].todo :
    /\ At(r, "sweeping")
    /\ \A other \in run[r].todo : t <= other
    /\ \/ /\ threads' = [threads EXCEPT ![t] = "archived"]
          /\ Goes(r, "marking")
       \/ /\ threads' \in {threads, [threads EXCEPT ![t] = "archived"]}
          /\ run' = [run EXCEPT ![r].todo = @ \ {t}]
    /\ UNCHANGED <<operation, attempts, slice, handed, excluded>>

MarkArchived(r) ==
  \E t \in run[r].todo :
    /\ At(r, "marking")
    /\ \A other \in run[r].todo : t <= other
    /\ attempts' = [g \in DOMAIN attempts |->
                      IF attempts[g].thread = t THEN [attempts[g] EXCEPT !.archive = "archived"]
                                                ELSE attempts[g]]
    /\ slice' = IF slice.thread = t THEN [slice EXCEPT !.archive = "archived"] ELSE slice
    /\ run' = [run EXCEPT ![r] = [@ EXCEPT !.at = "sweeping", !.todo = run[r].todo \ {t}]]
    /\ UNCHANGED <<operation, threads, handed, excluded>>

EndSweep(r) ==
  /\ At(r, "sweeping") /\ run[r].todo = {}
  /\ IF run[r].next = "idle" THEN Ends(r) ELSE Goes(r, run[r].next)
  /\ UNCHANGED <<operation, attempts, threads, slice, handed, excluded>>

-----------------------------------------------------------------------------
(* RequestedCaptureRunner.run, up to the attempt.                           *)

(* The processor claims the group and sweeps for both runners.              *)
Serve(r) ==
  /\ At(r, "idle")
  /\ Sweeps(r, PendingArchives \cup PendingSliceArchive, "slice")
  /\ UNCHANGED <<operation, attempts, threads, slice, handed, excluded>>

(* A slice whose result is stored makes no further model call.              *)
ReadSlice(r) ==
  /\ At(r, "slice")
  /\ IF slice.result # NoOutput THEN Ends(r) ELSE Sweeps(r, PendingArchives, "looking")
  /\ UNCHANGED <<operation, attempts, threads, slice, handed, excluded>>

ReadOperation(r) ==
  /\ At(r, "looking")
  /\ run' = [run EXCEPT ![r] = [@ EXCEPT !.at = "source", !.seen = operation.status]]
  /\ UNCHANGED <<operation, attempts, threads, slice, handed, excluded>>

(* Nobody asks again for the status that was read.                          *)
GoesOn(r, step) == run' = [run EXCEPT ![r] = [@ EXCEPT !.at = step, !.seen = "absent"]]

ReadSource(r) ==
  /\ At(r, "source")
  /\ CASE run[r].seen = "absent" -> GoesOn(r, "ensuring")
       [] run[r].seen = "failed_terminal" -> Ends(r)
       [] OTHER -> GoesOn(r, "committed?")
  /\ UNCHANGED <<operation, attempts, threads, slice, handed, excluded>>

(* A replay that conflicts with the frozen input.                           *)
ReplayConflicts(r) ==
  /\ At(r, "source") /\ run[r].seen # "absent" /\ Ends(r)
  /\ UNCHANGED <<operation, attempts, threads, slice, handed, excluded>>

(* Not an interactive Session (any more), or no prompt evidence: found      *)
(* before the operation's status is looked at, so also after a run has      *)
(* committed it.  The processor goes on without a capture of the source.    *)
SourceExcluded(r) ==
  /\ At(r, "source") /\ GoesOn(r, "excluding")
  /\ UNCHANGED <<operation, attempts, threads, slice, handed, excluded>>

MarkExcluded(r) ==
  /\ At(r, "excluding") /\ excluded' = TRUE
  /\ Goes(r, "storing empty")
  /\ UNCHANGED <<operation, attempts, threads, slice, handed>>

(* Mutant: the update does not repeat the check of the status.              *)
FailAnyOperation == operation' = [operation EXCEPT !.status = "failed_terminal"]

(* fail_operation_terminal: an open operation fails; a committed one, and   *)
(* one that failed, stay as they are.                                       *)
FailOperation ==
  operation' = IF operation.status = "open" THEN [operation EXCEPT !.status = "failed_terminal"]
                                            ELSE operation

(* _fail_unavailable goes by the status the run read before.                *)
SourceUnavailable(r) ==
  /\ At(r, "source") /\ Ends(r)
  /\ IF run[r].seen = "open" THEN FailOperation ELSE UNCHANGED operation
  /\ UNCHANGED <<attempts, threads, slice, handed, excluded>>

EnsureOperation(r) ==
  /\ At(r, "ensuring")
  /\ operation' = IF operation.status = "absent" THEN [operation EXCEPT !.status = "open"]
                                                 ELSE operation
  /\ IF operation.status = "failed_terminal" THEN Ends(r) ELSE Goes(r, "committed?")
  /\ UNCHANGED <<attempts, threads, slice, handed, excluded>>

(* A result goes back to the processor, which reconciles it.                *)
HandsOver(output) == handed' = handed \cup {output}

Carry(r, output, list) ==
  run' = [run EXCEPT ![r] = [Idle EXCEPT !.at = "sweeping", !.output = output, !.todo = list,
                                         !.next = "reconciling"]]

CommittedCapture(r) ==
  /\ At(r, "committed?")
  /\ IF operation.status = "committed"
     THEN HandsOver(operation.output) /\ Carry(r, operation.output, {})
     ELSE Goes(r, "validated?") /\ UNCHANGED handed
  /\ UNCHANGED <<operation, attempts, threads, slice, excluded>>

ActiveValidated ==
  /\ operation.status = "open" /\ operation.active > 0
  /\ attempts[operation.active].state = "validated"

ActiveValidatedAttempt(r) ==
  /\ At(r, "validated?")
  /\ IF ActiveValidated
     THEN run' = [run EXCEPT ![r] = [@ EXCEPT !.at = "committing", !.generation = operation.active]]
     ELSE Goes(r, "beginning")
  /\ UNCHANGED <<operation, attempts, threads, slice, handed, excluded>>

-----------------------------------------------------------------------------
(* The attempt.                                                             *)

NewAttempt == [state |-> "creating_thread", thread |-> NoThread, inventory |-> FALSE,
               extraction |-> FALSE, output |-> NoOutput, archive |-> "not_applicable"]

BeginAttempt(r) ==
  /\ At(r, "beginning")
  /\ IF operation.status = "open"
     THEN /\ operation.active < MaxGenerations
          /\ operation' = [operation EXCEPT !.active = @ + 1]
          /\ attempts' = Append(attempts, NewAttempt)
          /\ run' = [run EXCEPT ![r] = [@ EXCEPT !.at = "forking", !.generation = operation.active + 1]]
     ELSE UNCHANGED <<operation, attempts>> /\ Ends(r)
  /\ UNCHANGED <<threads, slice, handed, excluded>>

(* abandon_attempt on the run's own attempt, and the sweep after it.        *)
Abandons(r, next) ==
  LET g == run[r].generation IN
  /\ attempts[g].state \notin {"accepted", "superseded"}
  /\ attempts' = [attempts EXCEPT ![g].state = "abandoned"]
  /\ Sweeps(r, PendingArchives', next)

NewThread(r, step, next) ==
  /\ At(r, step) /\ Len(threads) < MaxThreads
  /\ threads' = Append(threads, "new")
  /\ run' = [run EXCEPT ![r] = [@ EXCEPT !.at = next, !.thread = Len(threads) + 1]]

ForkThread(r) ==
  /\ NewThread(r, "forking", "attaching")
  /\ UNCHANGED <<operation, attempts, slice, handed, excluded>>

(* The App Server may have made a Thread nobody hears of: it stays blank.   *)
ForkFails(r) ==
  /\ At(r, "forking") /\ Abandons(r, "idle")
  /\ UNCHANGED <<operation, threads, slice, handed, excluded>>

AttachThread(r) ==
  /\ At(r, "attaching") /\ attempts[run[r].generation].state = "creating_thread"
  /\ attempts' = [attempts EXCEPT ![run[r].generation] =
                    [@ EXCEPT !.thread = run[r].thread, !.state = "running", !.archive = "pending"]]
  /\ Goes(r, "binding")
  /\ UNCHANGED <<operation, threads, slice, handed, excluded>>

BindInternalThread(r, step, next) ==
  /\ At(r, step)
  /\ threads' = [threads EXCEPT ![run[r].thread] = "internal"]
  /\ Goes(r, next)

BindCaptureThread(r) ==
  /\ BindInternalThread(r, "binding", "inventory")
  /\ UNCHANGED <<operation, attempts, slice, handed, excluded>>

BindingFails(r) ==
  /\ At(r, "binding") /\ Abandons(r, "failing")
  /\ UNCHANGED <<operation, threads, slice, handed, excluded>>

FailTerminal(r) ==
  /\ At(r, "failing") /\ FailOperation /\ Ends(r)
  /\ UNCHANGED <<attempts, threads, slice, handed, excluded>>

TurnFails(r) ==
  /\ run[r].at \in {"inventory", "extraction"} /\ Abandons(r, "idle")
  /\ UNCHANGED <<operation, threads, slice, handed, excluded>>

AttachTurn(r) ==
  /\ attempts[run[r].generation].state = "running"
  /\ attempts' = [attempts EXCEPT ![run[r].generation] =
                    IF At(r, "inventory") THEN [@ EXCEPT !.inventory = TRUE]
                                          ELSE [@ EXCEPT !.extraction = TRUE]]
  /\ UNCHANGED <<operation, threads, slice, handed, excluded>>

InventoryIsValid(r) == At(r, "inventory") /\ AttachTurn(r) /\ Goes(r, "extraction")

ExtractionIsValid(r) ==
  \E output \in Outputs :
    /\ At(r, "extraction") /\ AttachTurn(r)
    /\ run' = [run EXCEPT ![r] = [@ EXCEPT !.at = "storing", !.output = output]]

(* _fail_provenance: an answer that does not validate abandons the attempt  *)
(* and, after the sweep, fails the operation.                               *)
TurnIsInvalid(r) ==
  /\ run[r].at \in {"inventory", "extraction"}
  /\ Abandons(r, "failing")
  /\ UNCHANGED <<operation, threads, slice, handed, excluded>>

StoreValidatedAttempt(r) ==
  LET g == run[r].generation
      state == attempts[g].state
  IN
  /\ At(r, "storing")
  /\ attempts' = [attempts EXCEPT
                    ![g].output = run[r].output,
                    ![g].state = IF state \in Finished THEN state ELSE "validated"]
  /\ Goes(r, "committing")
  /\ UNCHANGED <<operation, threads, slice, handed, excluded>>

(* Mutant: the compare-and-swap does not compare the generation.            *)
WinsWhenOpen(g) == operation.status # "failed_terminal" /\ attempts[g].state = "validated"

(* can_win.                                                                 *)
CanWin(g) ==
  /\ operation.status = "open" /\ operation.active = g
  /\ attempts[g].state = "validated"

(* commit_attempt: the winner's result is handed to every run that asks;    *)
(* an attempt that cannot win is superseded, and its run retries.           *)
CommitAttempt(r) ==
  LET g == run[r].generation
      won == operation.winner = g \/ CanWin(g)
  IN /\ At(r, "committing")
     /\ attempts' = [attempts EXCEPT ![g].state = IF won THEN "accepted" ELSE "superseded"]
     /\ operation' = IF CanWin(g)
                     THEN [operation EXCEPT !.status = "committed", !.winner = g,
                                            !.output = attempts[g].output]
                     ELSE operation
     /\ IF operation'.status = "committed"
        THEN HandsOver(operation'.output) /\ Carry(r, operation'.output, PendingArchives')
        ELSE Sweeps(r, PendingArchives', "idle") /\ UNCHANGED handed
     /\ UNCHANGED <<threads, slice, excluded>>

-----------------------------------------------------------------------------
(* The slice: _process_slice and ReconciliationRunner.run.                  *)

(* Mutant: the result of a later reconciliation replaces the stored one.    *)
KeepsLastSlice(result, from, thread) ==
  slice' = [result |-> result, from |-> from, thread |-> thread,
            archive |-> IF thread = NoThread THEN "none" ELSE "pending"]

(* store_slice_reconciliation: the first result stays, and another one (or  *)
(* the same from another Thread) is a conflict.                             *)
StoresSlice(result, from, thread) ==
  slice' = IF slice.result # NoOutput THEN slice
           ELSE [result |-> result, from |-> from, thread |-> thread,
                 archive |-> IF thread = NoThread THEN "none" ELSE "pending"]

(* Without an observation (of a silent capture, or of an excluded source)   *)
(* the processor stores the empty result at once.                           *)
StoreEmpty(r) ==
  /\ \/ At(r, "storing empty") /\ StoresSlice(Empty, NoOutput, NoThread)
     \/ /\ At(r, "reconciling") /\ run[r].output \in Silent
        /\ StoresSlice(Empty, run[r].output, NoThread)
  /\ Ends(r)
  /\ UNCHANGED <<operation, attempts, threads, handed, excluded>>

(* The runner archives what earlier reconciliations left, ...               *)
OpenReconciliation(r) ==
  /\ At(r, "reconciling") /\ run[r].output \notin Silent
  /\ Sweeps(r, PendingSliceArchive, "persisted?")
  /\ UNCHANGED <<operation, attempts, threads, slice, handed, excluded>>

(* ... and returns a result that is stored meanwhile.                       *)
Reconcile(r) ==
  /\ At(r, "persisted?")
  /\ IF slice.result # NoOutput THEN Ends(r) ELSE Goes(r, "starting")
  /\ UNCHANGED <<operation, attempts, threads, slice, handed, excluded>>

StartThread(r) ==
  /\ NewThread(r, "starting", "binding reconciliation")
  /\ UNCHANGED <<operation, attempts, slice, handed, excluded>>

StartFails(r) ==
  /\ At(r, "starting") /\ Ends(r)
  /\ UNCHANGED <<operation, attempts, threads, slice, handed, excluded>>

BindReconciliationThread(r) ==
  /\ BindInternalThread(r, "binding reconciliation", "deciding")
  /\ UNCHANGED <<operation, attempts, slice, handed, excluded>>

(* A failed binding or turn archives the Thread, if it can, and gives up.   *)
ReconciliationFails(r) ==
  /\ run[r].at \in {"binding reconciliation", "deciding"}
  /\ threads' \in {threads, [threads EXCEPT ![run[r].thread] = "archived"]}
  /\ Ends(r)
  /\ UNCHANGED <<operation, attempts, slice, handed, excluded>>

(* The observations stay the run's; the decision is made and stored.        *)
StoreReconciliation(r) ==
  \E decision \in Decisions :
    /\ At(r, "deciding")
    /\ StoresSlice(decision, run[r].output, run[r].thread)
    /\ IF slice'.thread = run[r].thread THEN Sweeps(r, {run[r].thread}, "idle") ELSE Ends(r)
    /\ UNCHANGED <<operation, attempts, threads, handed, excluded>>

(* A crash, or an exception that no step of the run catches.                *)
CutOff(r) ==
  /\ ~At(r, "idle") /\ Ends(r)
  /\ UNCHANGED <<operation, attempts, threads, slice, handed, excluded>>

-----------------------------------------------------------------------------
Sweeping(r) == ArchiveThread(r) \/ MarkArchived(r) \/ EndSweep(r)

Opening(r) ==
  \/ Serve(r) \/ ReadSlice(r) \/ ReadOperation(r)
  \/ ReadSource(r) \/ ReplayConflicts(r) \/ SourceExcluded(r) \/ MarkExcluded(r)
  \/ SourceUnavailable(r)
  \/ EnsureOperation(r) \/ CommittedCapture(r) \/ ActiveValidatedAttempt(r)

Attempting(r) ==
  \/ BeginAttempt(r) \/ ForkThread(r) \/ ForkFails(r) \/ AttachThread(r)
  \/ BindCaptureThread(r) \/ BindingFails(r) \/ FailTerminal(r)
  \/ TurnFails(r) \/ InventoryIsValid(r) \/ ExtractionIsValid(r) \/ TurnIsInvalid(r)
  \/ StoreValidatedAttempt(r) \/ CommitAttempt(r)

Reconciling(r) ==
  \/ StoreEmpty(r) \/ OpenReconciliation(r) \/ Reconcile(r) \/ StartThread(r) \/ StartFails(r)
  \/ BindReconciliationThread(r) \/ ReconciliationFails(r) \/ StoreReconciliation(r)

Next == \E r \in Runners : Sweeping(r) \/ Opening(r) \/ Attempting(r) \/ Reconciling(r) \/ CutOff(r)

Spec == Init /\ [][Next]_vars

-----------------------------------------------------------------------------
(* Whatever runs overlap, and wherever one is cut off, one result leaves    *)
(* the operation: that of the one accepted attempt, which every run is      *)
(* given.  The slice's reconciliation was made from it, or is the empty one *)
(* of an exclusion on record, which may then stand beside a committed       *)
(* operation.  (A late valid result of an older generation cannot commit,   *)
(* and two attempts with different answers have one effect.)                *)
OneResult ==
  /\ handed \subseteq {operation.output}
  /\ slice.result # NoOutput =>
       \/ slice.from = operation.output /\ operation.status = "committed"
       \/ excluded /\ slice = [result |-> Empty, from |-> NoOutput,
                               thread |-> NoThread, archive |-> "none"]
  /\ \A g \in DOMAIN attempts :
       attempts[g].state = "accepted" <=> operation.winner = g
  /\ operation.winner # 0 =>
       /\ attempts[operation.winner].output = operation.output
       /\ attempts[operation.winner].inventory /\ attempts[operation.winner].extraction

(* A Thread is archived under nobody: while a model turn of a run is going, *)
(* its Thread is open and bound as internal, so that no sweep takes it away *)
(* and no Hook mistakes it for the user's Session.                          *)
TurnsRunInOpenThreads ==
  \A r \in Runners :
    run[r].at \in {"inventory", "extraction", "deciding"} => threads[run[r].thread] = "internal"

(* What the Agent tells Central about a slice never changes: its stored     *)
(* result stays, a finished operation stays finished, and an attempt that   *)
(* was accepted, superseded or abandoned is never revived.                  *)
SettledStays ==
  [][/\ slice.result # NoOutput => slice'.result = slice.result /\ slice'.from = slice.from
     /\ operation.status \in {"committed", "failed_terminal"} => operation' = operation
     /\ \A g \in DOMAIN attempts :
          attempts[g].state \in Finished => attempts'[g].state = attempts[g].state]_vars
=============================================================================
