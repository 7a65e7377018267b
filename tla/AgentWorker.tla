----------------------------- MODULE AgentWorker -----------------------------
(***************************************************************************)
(* From a Hook to the Session index. A Hook process appends its event to   *)
(* the ledger and launches a Worker, for which it does not wait            *)
(* (agent/hooks.py handle_hook). Launched Workers contend for one process  *)
(* lock; the owner claims events under a processing deadline, indexes each *)
(* one, consumes or fails it, and leaves when it has found nothing to do   *)
(* for its grace time (agent/worker.py, agent/db.py).                      *)
(*                                                                          *)
(* Every transaction is an action of its own: a Hook or a Worker may be     *)
(* killed between any two of them, and the host goes on.  Deadlines are     *)
(* booleans that turn true when time passes.  The installed Worker has no   *)
(* sync poller, so the Session leases a Hook renews are read by nobody.     *)
(***************************************************************************)
EXTENDS Naturals, Sequences, FiniteSets

CONSTANTS
  Events,          \* Hook events of one repository that can be observed
  Stops,           \* those that are the Stop of a Turn
  Sessions,        \* native Sessions (one source each)
  SessionOf,       \* the Session of an event
  Workers,         \* Worker processes that can exist at a time
  ClaimLimit,      \* WorkerConfig.claim_limit
  MaxDeaths,       \* bound: Hooks and Workers that are killed
  MaxErrors,       \* bound: events whose processing raises
  Nobody           \* the free process lock

ASSUME WorkerAssumption ==
  /\ Stops \subseteq Events
  /\ SessionOf \in [Events -> Sessions]
  /\ ClaimLimit \in Nat \ {0}
  /\ MaxDeaths \in Nat /\ MaxErrors \in Nat
  /\ Nobody \notin Workers

VARIABLES
  log,             \* the events table in rowid order
  work,            \* the processing columns of each row
  hook,            \* the Hook process of each event
  checkpoint,      \* session_checkpoints: the newest Stop row of a Session
  worker,          \* the Worker processes
  lock,            \* who holds worker.lock
  deaths, errors,  \* faults so far
  missed           \* history: rows that were pending when a Hook or a Worker
                   \* was lost, until the next owner of the lock

vars == <<log, work, hook, checkpoint, worker, lock, deaths, errors, missed>>

(* A row's identity is its event, so there is at most one for each.        *)
Rows == 1..Cardinality(Events)

(* state: recorded, processing, consumed or failed_retryable; due: the      *)
(* claim of the row has expired, or its retry has come.                    *)
NewRow == [state |-> "recorded", due |-> FALSE]

(* at: off, launched, requeue, claim, process, consume, fail, look, sleep  *)
(* or leave; idle: it stays for the grace time only.                       *)
Asleep == [at |-> "off", claims |-> {}, idle |-> FALSE]

Init ==
  /\ log = <<>> /\ work = <<>>
  /\ hook = [e \in Events |-> "idle"]
  /\ checkpoint = [s \in Sessions |-> 0]
  /\ worker = [w \in Workers |-> Asleep]
  /\ lock = Nobody
  /\ deaths = 0 /\ errors = 0
  /\ missed = {}

-----------------------------------------------------------------------------
(* What the queries of the ledger select.                                  *)

(* claim_events: recorded rows and retries that have come, in row order.   *)
Claimable ==
  {i \in DOMAIN work :
     \/ work[i].state = "recorded"
     \/ work[i].state = "failed_retryable" /\ work[i].due}

(* ... ORDER BY rowid LIMIT claim_limit.                                   *)
NextBatch ==
  {i \in Claimable : Cardinality({j \in Claimable : j < i}) < ClaimLimit}

(* Mutant: a row that waits for its retry is not counted.                  *)
PendingNow == {i \in DOMAIN work : work[i].state \in {"recorded", "processing"}}

(* pending_event_count.                                                    *)
Pending == {i \in DOMAIN work : work[i].state # "consumed"}

Moves(w, from, to) ==
  /\ worker[w].at = from
  /\ worker' = [worker EXCEPT ![w].at = to]

-----------------------------------------------------------------------------
(* The host calls Hooks in any order, and may repeat one.  The Hook of a   *)
(* repository that is disabled on this device does nothing.                *)
HostCalls(e) ==
  /\ hook[e] = "idle"
  /\ hook' = [hook EXCEPT ![e] = "called"]
  /\ UNCHANGED <<log, work, checkpoint, worker, lock, deaths, errors, missed>>

(* record_hook: ON CONFLICT(event_id) DO NOTHING.                          *)
RecordHook(e) ==
  /\ hook[e] = "called"
  /\ hook' = [hook EXCEPT ![e] = "recorded"]
  /\ IF \E i \in DOMAIN log : log[i] = e
     THEN UNCHANGED <<log, work>>
     ELSE /\ log' = Append(log, e)
          /\ work' = Append(work, NewRow)
  /\ UNCHANGED <<checkpoint, worker, lock, deaths, errors, missed>>

(* wake_worker launches one more contender and forgets it.  When every     *)
(* process of the model is in use, the contender would find the lock held. *)
WakeWorker(e) ==
  /\ hook[e] = "recorded"
  /\ hook' = [hook EXCEPT ![e] = "idle"]
  /\ \/ \E w \in Workers :
          worker[w].at = "off" /\ worker' = [worker EXCEPT ![w].at = "launched"]
     \/ (\A w \in Workers : worker[w].at # "off") /\ UNCHANGED worker
  /\ UNCHANGED <<log, work, checkpoint, lock, deaths, errors, missed>>

(* The host's time limit, or a failure of a later step of the Hook.        *)
HookDies(e) ==
  /\ hook[e] # "idle"
  /\ deaths < MaxDeaths
  /\ deaths' = deaths + 1
  /\ missed' = missed \cup Pending
  /\ hook' = [hook EXCEPT ![e] = "idle"]
  /\ UNCHANGED <<log, work, checkpoint, worker, lock, errors>>

-----------------------------------------------------------------------------
(* The Worker.                                                             *)

(* LOCK_EX | LOCK_NB: the owner enters its loop, everybody else exits, even *)
(* if the owner is past its last look at the ledger.                       *)
AcquireLock(w) ==
  /\ worker[w].at = "launched"
  /\ IF lock = Nobody
     THEN /\ lock' = w
          /\ worker' = [worker EXCEPT ![w].at = "requeue"]
          /\ missed' = {}
     ELSE /\ worker' = [worker EXCEPT ![w] = Asleep]
          /\ UNCHANGED <<lock, missed>>
  /\ UNCHANGED <<log, work, hook, checkpoint, deaths, errors>>

(* The top of run_once.                                                    *)
RequeueExpiredClaims(w) ==
  /\ Moves(w, "requeue", "claim")
  /\ work' = [i \in DOMAIN work |->
                IF work[i].state = "processing" /\ work[i].due
                THEN [state |-> "failed_retryable", due |-> TRUE] ELSE work[i]]
  /\ UNCHANGED <<log, hook, checkpoint, lock, deaths, errors, missed>>

ClaimEvents(w) ==
  /\ worker[w].at = "claim"
  /\ work' = [i \in DOMAIN work |->
                IF i \in NextBatch
                THEN [state |-> "processing", due |-> FALSE] ELSE work[i]]
  /\ worker' = [worker EXCEPT
                  ![w] = IF NextBatch = {}
                         THEN [@ EXCEPT !.at = "look"]
                         ELSE [at |-> "process", claims |-> NextBatch, idle |-> FALSE]]
  /\ UNCHANGED <<log, hook, checkpoint, lock, deaths, errors, missed>>

(* The loop goes over the claimed events in row order.                     *)
IsNext(w, i) == i \in worker[w].claims /\ \A j \in worker[w].claims : i <= j

(* Mutant: the newest observation wins, whatever its place in the ledger.  *)
ObservedLast(i) == [checkpoint EXCEPT ![SessionOf[log[i]]] = i]

(* SessionIndex.observe: a Stop moves its Session's checkpoint, unless a   *)
(* later row already did.                                                  *)
Observed(i) == [checkpoint EXCEPT ![SessionOf[log[i]]] = IF @ < i THEN i ELSE @]

Process(w) ==
  /\ Moves(w, "process", "consume")
  /\ \E i \in worker[w].claims :
       /\ IsNext(w, i)
       /\ checkpoint' = IF log[i] \in Stops THEN Observed(i) ELSE checkpoint
  /\ UNCHANGED <<log, work, hook, lock, deaths, errors, missed>>

(* The index is busy or refuses the event.                                 *)
ProcessRaises(w) ==
  /\ Moves(w, "process", "fail")
  /\ errors < MaxErrors
  /\ errors' = errors + 1
  /\ UNCHANGED <<log, work, hook, checkpoint, lock, deaths, missed>>

(* consume_event and fail_event change a row that is still processing, and *)
(* the loop over the claimed events goes on.                               *)
Settle(w, step, state) ==
  /\ worker[w].at = step
  /\ \E i \in worker[w].claims :
       LET rest == worker[w].claims \ {i}
       IN /\ IsNext(w, i)
          /\ work' = IF work[i].state = "processing"
                     THEN [work EXCEPT ![i] = [state |-> state, due |-> FALSE]]
                     ELSE work
          /\ worker' = [worker EXCEPT ![w].claims = rest,
                          ![w].at = IF rest = {} THEN "requeue" ELSE "process"]
  /\ UNCHANGED <<log, hook, checkpoint, lock, deaths, errors, missed>>

ConsumeEvent(w) == Settle(w, "consume", "consumed")
FailEvent(w) == Settle(w, "fail", "failed_retryable")

(* run_until_idle after a cycle that claimed nothing: wait for what is     *)
(* pending, then stay for the grace time, then leave.                      *)
Look(w) ==
  /\ worker[w].at = "look"
  /\ worker' = [worker EXCEPT ![w] =
                  IF Pending # {} THEN [@ EXCEPT !.at = "sleep", !.idle = FALSE]
                  ELSE IF ~worker[w].idle THEN [@ EXCEPT !.at = "sleep", !.idle = TRUE]
                  ELSE [@ EXCEPT !.at = "leave"]]
  /\ UNCHANGED <<log, work, hook, checkpoint, lock, deaths, errors, missed>>

(* _next_wake_delay is at most a second; a nap in the grace time at most a *)
(* tenth.                                                                  *)
WakesUp(w) ==
  /\ Moves(w, "sleep", "requeue")
  /\ UNCHANGED <<log, work, hook, checkpoint, lock, deaths, errors, missed>>

(* The finally block gives the lock back.                                  *)
ReleaseLock(w) ==
  /\ worker[w].at = "leave"
  /\ worker' = [worker EXCEPT ![w] = Asleep]
  /\ lock' = Nobody
  /\ missed' = missed \cup Pending
  /\ UNCHANGED <<log, work, hook, checkpoint, deaths, errors>>

(* The system drops the lock of a killed Worker; its claims stay.          *)
WorkerDies(w) ==
  /\ worker[w].at # "off"
  /\ deaths < MaxDeaths
  /\ deaths' = deaths + 1
  /\ missed' = missed \cup Pending
  /\ worker' = [worker EXCEPT ![w] = Asleep]
  /\ lock' = IF lock = w THEN Nobody ELSE lock
  /\ UNCHANGED <<log, work, hook, checkpoint, errors>>

-----------------------------------------------------------------------------
(* Time.                                                                   *)

RowComesDue(i) ==
  /\ work[i].state \in {"processing", "failed_retryable"} /\ ~work[i].due
  /\ work' = [work EXCEPT ![i].due = TRUE]
  /\ UNCHANGED <<log, hook, checkpoint, worker, lock, deaths, errors, missed>>

Hook(e) == RecordHook(e) \/ WakeWorker(e)

(* What a running Worker does next.                                        *)
Runs(w) ==
  \/ AcquireLock(w) \/ RequeueExpiredClaims(w) \/ ClaimEvents(w)
  \/ Process(w) \/ ProcessRaises(w) \/ ConsumeEvent(w) \/ FailEvent(w)
  \/ Look(w) \/ WakesUp(w) \/ ReleaseLock(w)

Next ==
  \/ \E e \in Events : HostCalls(e) \/ Hook(e) \/ HookDies(e)
  \/ \E w \in Workers : Runs(w) \/ WorkerDies(w)
  \/ \E i \in DOMAIN work : RowComesDue(i)

(* A process that is not killed goes on, and time passes.  Nothing obliges *)
(* the host to call a Hook.                                                *)
Fairness ==
  /\ \A e \in Events : WF_vars(Hook(e))
  /\ \A w \in Workers : WF_vars(Runs(w))
  /\ \A i \in Rows : WF_vars(i \in DOMAIN work /\ RowComesDue(i))

Spec == Init /\ [][Next]_vars /\ Fairness

-----------------------------------------------------------------------------
(* A consumed Stop is in the Session index: whatever was killed between    *)
(* indexing and consuming, and in whatever order retries came, its         *)
(* Session's checkpoint is at that row or a later one.                     *)
ConsumedIsIndexed ==
  \A i \in DOMAIN log :
    work[i].state = "consumed" /\ log[i] \in Stops =>
      checkpoint[SessionOf[log[i]]] >= i

(* A row a Hook has recorded is consumed in the end, through expired       *)
(* claims and retries.  The exception is a row that was pending when its   *)
(* Hook or the Worker was killed, or when the Worker left although the row *)
(* had come after its last look: it waits for the next Hook's Worker.      *)
RecordedIsConsumed ==
  \A i \in Rows :
    i \in DOMAIN log ~> i \in missed \/ (i \in DOMAIN work /\ work[i].state = "consumed")
=============================================================================
