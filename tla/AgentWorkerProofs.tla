------------------------- MODULE AgentWorkerProofs -------------------------
(***************************************************************************)
(* Proofs about AgentWorker for any events, Sessions, Workers and claim     *)
(* limits, and any number of processes that are killed at any step.         *)
(***************************************************************************)
EXTENDS AgentWorker, TLAPS

Row == [state : {"recorded", "processing", "consumed", "failed_retryable"},
        due : BOOLEAN]

Contender == [at : {"off", "launched", "requeue", "claim", "process", "consume", "fail",
                   "look", "sleep", "leave"},
             claims : SUBSET Nat, idle : BOOLEAN]

WorkerTypes ==
  /\ log \in Seq(Events) /\ work \in Seq(Row) /\ Len(work) = Len(log)
  /\ checkpoint \in [Sessions -> Nat]
  /\ worker \in [Workers -> Contender]
  /\ \A w \in Workers : worker[w].claims \subseteq DOMAIN log

(* What a Worker is about to consume, it has indexed.                       *)
IndexedFirst ==
  \A w \in Workers : worker[w].at = "consume" =>
    \A i \in worker[w].claims : IsNext(w, i) /\ log[i] \in Stops =>
      checkpoint[SessionOf[log[i]]] >= i

WorkerInv == WorkerTypes /\ IndexedFirst /\ ConsumedIsIndexed

(* Who works on the ledger holds worker.lock.                               *)
Working(w) == worker[w].at \notin {"off", "launched"}
OwnerWorks == \A w \in Workers : Working(w) <=> lock = w

(* What is indexed stays indexed: no checkpoint goes back, no consumed row   *)
(* is ever claimed or failed.                                               *)
NothingIsUndone ==
  /\ \A s \in Sessions : checkpoint'[s] >= checkpoint[s]
  /\ \A i \in DOMAIN log :
       /\ i \in DOMAIN log' /\ log'[i] = log[i]
       /\ work[i].state = "consumed" => work'[i].state = "consumed"

(* Only w moves, and not to where it consumes.                              *)
OnlyMoves(w) ==
  /\ worker' \in [Workers -> Contender]
  /\ worker'[w].at # "consume" /\ worker'[w].claims \subseteq worker[w].claims
  /\ \A v \in Workers : v # w => worker'[v] = worker[v]

USE WorkerAssumption

-----------------------------------------------------------------------------
LEMMA InitWorker == Init => WorkerInv
  <1> SUFFICES ASSUME Init PROVE WorkerInv
    OBVIOUS
  <1>1. WorkerTypes
    BY DEF Init, WorkerTypes, Asleep, Contender
  <1> QED
    BY <1>1 DEF Init, WorkerInv, IndexedFirst, ConsumedIsIndexed, Asleep

(* The facts of a state in which every step is examined.                    *)
LEMMA Rowed ==
  ASSUME WorkerTypes
  PROVE  /\ Len(log) \in Nat
         /\ DOMAIN log = 1..Len(log) /\ DOMAIN work = 1..Len(log)
         /\ \A i \in 1..Len(log) : log[i] \in Events /\ work[i] \in Row
         /\ \A i \in 1..Len(log) : SessionOf[log[i]] \in Sessions
  BY DEF WorkerTypes

(* A step that keeps ledger and index and takes no Worker to "consume".     *)
LEMMA LedgerRests ==
  ASSUME WorkerInv, UNCHANGED <<log, work, checkpoint>>,
         worker' \in [Workers -> Contender],
         \A w \in Workers :
           \/ worker'[w] = worker[w]
           \/ worker'[w].at # "consume" /\ worker'[w].claims \subseteq worker[w].claims
  PROVE  WorkerInv' /\ NothingIsUndone
  <1>1. WorkerTypes'
    BY DEF WorkerInv, WorkerTypes
  <1>2. IndexedFirst'
    BY DEF WorkerInv, IndexedFirst, IsNext
  <1>3. ConsumedIsIndexed'
    BY DEF WorkerInv, ConsumedIsIndexed
  <1>4. NothingIsUndone
    BY DEF WorkerInv, WorkerTypes, NothingIsUndone
  <1> QED  BY <1>1, <1>2, <1>3, <1>4 DEF WorkerInv

(* A step that changes columns of rows, but consumes none.                  *)
LEMMA RowsChange ==
  ASSUME WorkerInv, UNCHANGED <<log, checkpoint>>,
         DOMAIN work' = DOMAIN work,
         \A i \in DOMAIN work :
           /\ work'[i] \in Row
           /\ work'[i].state = "consumed" <=> work[i].state = "consumed",
         work' = [i \in DOMAIN work |-> work'[i]]
  PROVE  /\ work' \in Seq(Row) /\ Len(work') = Len(log)
         /\ ConsumedIsIndexed' /\ NothingIsUndone
  <1>1. DOMAIN work = 1..Len(log) /\ Len(log) \in Nat /\ DOMAIN log = 1..Len(log)
    BY Rowed DEF WorkerInv
  <1>2. work' \in Seq(Row) /\ Len(work') = Len(log)
    BY <1>1
  <1>3. ConsumedIsIndexed'
    BY <1>1 DEF WorkerInv, ConsumedIsIndexed
  <1>4. NothingIsUndone
    BY <1>1 DEF WorkerInv, WorkerTypes, NothingIsUndone
  <1> QED  BY <1>2, <1>3, <1>4

LEMMA RecordStep ==
  ASSUME WorkerInv, NEW e \in Events, RecordHook(e)
  PROVE  WorkerInv' /\ NothingIsUndone
  <1>1. UNCHANGED <<checkpoint, worker>>
    BY DEF RecordHook
  <1>2. CASE UNCHANGED <<log, work>>
    BY <1>1, <1>2, LedgerRests DEF WorkerInv, WorkerTypes
  <1>3. CASE log' = Append(log, e) /\ work' = Append(work, NewRow)
    <2> DEFINE n == Len(log)
    <2>1. /\ n \in Nat /\ DOMAIN log = 1..n /\ DOMAIN work = 1..n
          /\ log \in Seq(Events) /\ work \in Seq(Row) /\ NewRow \in Row
      BY Rowed DEF WorkerInv, WorkerTypes, NewRow, Row
    <2>2. /\ log' \in Seq(Events) /\ work' \in Seq(Row)
          /\ Len(log') = n + 1 /\ Len(work') = n + 1
          /\ \A i \in 1..n : log'[i] = log[i] /\ work'[i] = work[i]
          /\ work'[n + 1].state = "recorded"
      BY <1>3, <2>1 DEF WorkerInv, WorkerTypes, NewRow
    <2>3. WorkerTypes'
      BY <1>1, <2>1, <2>2 DEF WorkerInv, WorkerTypes
    <2>4. IndexedFirst'
      BY <1>1, <2>1, <2>2 DEF WorkerInv, WorkerTypes, IndexedFirst, IsNext
    <2>5. ConsumedIsIndexed'
      BY <1>1, <2>1, <2>2 DEF WorkerInv, ConsumedIsIndexed
    <2>6. NothingIsUndone
      BY <1>1, <2>1, <2>2 DEF WorkerInv, WorkerTypes, NothingIsUndone
    <2> QED  BY <2>3, <2>4, <2>5, <2>6 DEF WorkerInv
  <1> QED  BY <1>2, <1>3 DEF RecordHook

LEMMA ClaimStep ==
  ASSUME WorkerInv, NEW w \in Workers, ClaimEvents(w)
  PROVE  WorkerInv' /\ NothingIsUndone
  <1>1. NextBatch \subseteq Claimable /\ Claimable \subseteq DOMAIN work
    BY DEF NextBatch, Claimable
  <1>2. DOMAIN work = 1..Len(log) /\ DOMAIN log = 1..Len(log) /\ Len(log) \in Nat
    BY Rowed DEF WorkerInv
  <1>3. \A i \in NextBatch : work[i].state # "consumed"
    BY <1>1 DEF Claimable
  <1>4. /\ work' = [i \in DOMAIN work |->
                      IF i \in NextBatch THEN [state |-> "processing", due |-> FALSE]
                      ELSE work[i]]
        /\ UNCHANGED <<log, checkpoint>>
    BY DEF ClaimEvents
  <1>5. \A i \in DOMAIN work : work[i] \in Row
    BY <1>2, Rowed DEF WorkerInv
  <1>6. /\ work' \in Seq(Row) /\ Len(work') = Len(log)
        /\ ConsumedIsIndexed' /\ NothingIsUndone
    BY <1>3, <1>4, <1>5, RowsChange DEF Row
  <1>7. /\ worker' \in [Workers -> Contender]
        /\ worker'[w].at # "consume" /\ worker'[w].claims \subseteq DOMAIN log
        /\ \A v \in Workers : v # w => worker'[v] = worker[v]
    <2>1. worker \in [Workers -> Contender] /\ worker[w].claims \subseteq DOMAIN log
      BY DEF WorkerInv, WorkerTypes
    <2>2. [worker[w] EXCEPT !.at = "look"] \in Contender
      BY <2>1 DEF Contender
    <2>3. NextBatch \subseteq DOMAIN log /\ NextBatch \subseteq Nat
      BY <1>1, <1>2
    <2>4. [at |-> "process", claims |-> NextBatch, idle |-> FALSE] \in Contender
      BY <2>3 DEF Contender
    <2>5. \/ worker' = [worker EXCEPT ![w] = [worker[w] EXCEPT !.at = "look"]]
          \/ worker' = [worker EXCEPT
                          ![w] = [at |-> "process", claims |-> NextBatch, idle |-> FALSE]]
      BY DEF ClaimEvents
    <2>6. /\ [worker[w] EXCEPT !.at = "look"].at = "look"
          /\ [worker[w] EXCEPT !.at = "look"].claims = worker[w].claims
      BY <2>1 DEF Contender
    <2>7. \E new \in Contender :
            /\ new.at # "consume" /\ new.claims \subseteq DOMAIN log
            /\ worker' = [worker EXCEPT ![w] = new]
      <3>1. CASE worker' = [worker EXCEPT ![w] = [worker[w] EXCEPT !.at = "look"]]
        BY <2>1, <2>2, <2>6, <3>1
      <3>2. CASE worker' = [worker EXCEPT
                     ![w] = [at |-> "process", claims |-> NextBatch, idle |-> FALSE]]
        BY <2>3, <2>4, <3>2
      <3> QED  BY <2>5, <3>1, <3>2
    <2> QED  BY <2>1, <2>7
  <1>8. WorkerTypes'
    BY <1>4, <1>6, <1>7 DEF WorkerInv, WorkerTypes
  <1>9. IndexedFirst'
    BY <1>4, <1>7 DEF WorkerInv, IndexedFirst, IsNext
  <1> QED  BY <1>6, <1>8, <1>9 DEF WorkerInv

LEMMA ProcessStep ==
  ASSUME WorkerInv, NEW w \in Workers, Process(w)
  PROVE  WorkerInv' /\ NothingIsUndone
  <1>1. PICK i \in worker[w].claims :
          /\ IsNext(w, i)
          /\ checkpoint' = IF log[i] \in Stops THEN Observed(i) ELSE checkpoint
    BY DEF Process
  <1>2. UNCHANGED <<log, work>> /\ worker' = [worker EXCEPT ![w].at = "consume"]
    BY DEF Process, Moves
  <1>3. /\ i \in DOMAIN log /\ i \in Nat /\ SessionOf[log[i]] \in Sessions
        /\ \A v \in Workers : worker[v].claims \subseteq Nat
        /\ \A j \in DOMAIN log : SessionOf[log[j]] \in Sessions /\ j \in Nat
    BY Rowed DEF WorkerInv, WorkerTypes, Contender
  <1>4. /\ checkpoint' \in [Sessions -> Nat]
        /\ \A s \in Sessions : checkpoint'[s] >= checkpoint[s]
        /\ log[i] \in Stops => checkpoint'[SessionOf[log[i]]] >= i
    BY <1>1, <1>3 DEF WorkerInv, WorkerTypes, Observed
  <1>5. WorkerTypes'
    BY <1>2, <1>4 DEF WorkerInv, WorkerTypes, Contender
  <1>6. IndexedFirst'
    <2> SUFFICES ASSUME NEW v \in Workers, worker'[v].at = "consume",
                        NEW j \in worker'[v].claims, IsNext(v, j)', log'[j] \in Stops
                 PROVE  checkpoint'[SessionOf[log'[j]]] >= j
      BY DEF IndexedFirst
    <2>1. worker'[v].claims = worker[v].claims /\ IsNext(v, j)
      BY <1>2 DEF IsNext, WorkerInv, WorkerTypes, Contender
    <2>2. j \in DOMAIN log /\ j \in Nat
      BY <1>3, <2>1 DEF WorkerInv, WorkerTypes
    <2>3. CASE v = w
      BY <1>1, <1>2, <1>3, <1>4, <2>1, <2>2, <2>3 DEF IsNext
    <2>4. CASE v # w
      <3>1. checkpoint[SessionOf[log[j]]] >= j
        BY <1>2, <2>1, <2>4 DEF WorkerInv, IndexedFirst
      <3> QED  BY <1>2, <1>3, <1>4, <2>2, <3>1 DEF WorkerInv, WorkerTypes
    <2> QED  BY <2>3, <2>4
  <1>7. ConsumedIsIndexed'
    BY <1>2, <1>3, <1>4 DEF WorkerInv, WorkerTypes, ConsumedIsIndexed
  <1>8. NothingIsUndone
    BY <1>2, <1>4 DEF NothingIsUndone
  <1> QED  BY <1>5, <1>6, <1>7, <1>8 DEF WorkerInv

LEMMA GoesOn ==
  ASSUME worker \in [Workers -> Contender], NEW w \in Workers,
         NEW i, NEW at \in {"requeue", "process"},
         worker' = [worker EXCEPT ![w].claims = worker[w].claims \ {i}, ![w].at = at]
  PROVE  OnlyMoves(w)
  BY DEF OnlyMoves, Contender

LEMMA SettleStep ==
  ASSUME WorkerInv, NEW w \in Workers,
         NEW step \in {"consume", "fail"}, NEW state \in {"consumed", "failed_retryable"},
         state = "consumed" => step = "consume", Settle(w, step, state)
  PROVE  WorkerInv' /\ NothingIsUndone
  <1>1. PICK i \in worker[w].claims :
          /\ IsNext(w, i)
          /\ work' = IF work[i].state = "processing"
                     THEN [work EXCEPT ![i] = [state |-> state, due |-> FALSE]] ELSE work
          /\ worker' = [worker EXCEPT
               ![w].claims = worker[w].claims \ {i},
               ![w].at = IF worker[w].claims \ {i} = {} THEN "requeue" ELSE "process"]
    BY DEF Settle
  <1>2. UNCHANGED <<log, checkpoint>> /\ worker[w].at = step
    BY DEF Settle
  <1>3. /\ DOMAIN work = 1..Len(log) /\ DOMAIN log = 1..Len(log) /\ Len(log) \in Nat
        /\ i \in 1..Len(log)
        /\ \A j \in 1..Len(log) : work[j] \in Row
    BY Rowed DEF WorkerInv, WorkerTypes
  <1>4. [state |-> state, due |-> FALSE] \in Row
    BY DEF Row
  <1>5. /\ work' \in Seq(Row) /\ Len(work') = Len(log)
        /\ \A j \in 1..Len(log) : j # i => work'[j] = work[j]
        /\ \/ work'[i] = work[i]
           \/ work'[i].state = state /\ work[i].state = "processing"
    <2> DEFINE settled == [state |-> state, due |-> FALSE]
    <2>1. work \in Seq(Row) /\ Len(work) = Len(log) /\ settled.state = state
      BY DEF WorkerInv, WorkerTypes
    <2>2. CASE work' = work
      BY <2>1, <2>2
    <2>3. CASE work' = [work EXCEPT ![i] = settled] /\ work[i].state = "processing"
      <3> HIDE DEF settled
      <3> QED  BY <1>3, <1>4, <2>1, <2>3 DEF settled
    <2> QED  BY <1>1, <2>2, <2>3
  <1>6. OnlyMoves(w)
    <2> DEFINE at == IF worker[w].claims \ {i} = {} THEN "requeue" ELSE "process"
    <2>1. worker \in [Workers -> Contender] /\ at \in {"requeue", "process"}
      BY DEF WorkerInv, WorkerTypes
    <2>2. worker' = [worker EXCEPT ![w].claims = worker[w].claims \ {i}, ![w].at = at]
      BY <1>1
    <2> HIDE DEF at
    <2> QED  BY <2>1, <2>2, GoesOn
  <1>7. WorkerTypes'
    BY <1>2, <1>5, <1>6 DEF WorkerInv, WorkerTypes, OnlyMoves
  <1>8. IndexedFirst'
    BY <1>2, <1>6 DEF WorkerInv, IndexedFirst, IsNext, OnlyMoves
  <1>9. ConsumedIsIndexed'
    <2>1. state = "consumed" /\ log[i] \in Stops => checkpoint[SessionOf[log[i]]] >= i
      BY <1>1, <1>2 DEF WorkerInv, IndexedFirst
    <2> QED  BY <1>2, <1>3, <1>5, <2>1 DEF WorkerInv, ConsumedIsIndexed
  <1>10. NothingIsUndone
    <2>1. \A s \in Sessions : checkpoint'[s] >= checkpoint[s]
      BY <1>2 DEF WorkerInv, WorkerTypes
    <2>2. \A j \in 1..Len(log) : work[j].state = "consumed" => work'[j].state = "consumed"
      BY <1>3, <1>5
    <2> QED  BY <1>2, <1>3, <2>1, <2>2 DEF NothingIsUndone
  <1> QED  BY <1>7, <1>8, <1>9, <1>10 DEF WorkerInv

LEMMA WorkerStep == WorkerInv /\ [Next]_vars => WorkerInv' /\ NothingIsUndone
  <1> SUFFICES ASSUME WorkerInv, [Next]_vars PROVE WorkerInv' /\ NothingIsUndone
    OBVIOUS
  <1>1. worker \in [Workers -> Contender] /\ Asleep \in Contender
    BY DEF WorkerInv, WorkerTypes, Asleep, Contender
  <1>2. CASE UNCHANGED vars
    BY <1>1, <1>2, LedgerRests DEF vars
  <1>3. ASSUME NEW e \in Events, HostCalls(e) \/ WakeWorker(e) \/ HookDies(e)
        PROVE  WorkerInv' /\ NothingIsUndone
    BY <1>1, <1>3, LedgerRests DEF HostCalls, WakeWorker, HookDies, Contender
  <1>4. ASSUME NEW w \in Workers, AcquireLock(w) \/ ProcessRaises(w) \/ Look(w)
                 \/ WakesUp(w) \/ ReleaseLock(w) \/ WorkerDies(w)
        PROVE  WorkerInv' /\ NothingIsUndone
    <2>1. UNCHANGED <<log, work, checkpoint>>
      BY <1>4 DEF AcquireLock, ProcessRaises, Look, WakesUp, ReleaseLock, WorkerDies
    <2>2. OnlyMoves(w)
      <3> USE <1>1 DEF OnlyMoves, Contender
      <3>1. CASE worker' = [worker EXCEPT ![w] = Asleep]
        BY <3>1 DEF Asleep
      <3>2. ASSUME NEW at \in {"requeue", "fail", "leave"},
                   worker' = [worker EXCEPT ![w].at = at]
            PROVE  OnlyMoves(w)
        BY <3>2
      <3>3. ASSUME NEW idle \in BOOLEAN,
                   worker' = [worker EXCEPT ![w] =
                                [worker[w] EXCEPT !.at = "sleep", !.idle = idle]]
            PROVE  OnlyMoves(w)
        BY <3>3
      <3>4. CASE worker' = [worker EXCEPT ![w] = [worker[w] EXCEPT !.at = "leave"]]
        BY <3>4
      <3> QED
        BY <1>4, <3>1, <3>2, <3>3, <3>4
           DEF AcquireLock, ProcessRaises, Look, WakesUp, ReleaseLock, WorkerDies, Moves
    <2> QED  BY <2>1, <2>2, LedgerRests DEF OnlyMoves
  <1>5. ASSUME NEW w \in Workers, RequeueExpiredClaims(w) PROVE WorkerInv' /\ NothingIsUndone
    <2>1. \A i \in DOMAIN work : work[i] \in Row
      BY Rowed DEF WorkerInv
    <2>2. /\ work' \in Seq(Row) /\ Len(work') = Len(log)
          /\ ConsumedIsIndexed' /\ NothingIsUndone
      BY <1>5, <2>1, RowsChange DEF RequeueExpiredClaims, Row
    <2>3. /\ worker' \in [Workers -> Contender]
          /\ \A v \in Workers :
               \/ worker'[v] = worker[v]
               \/ worker'[v].at # "consume" /\ worker'[v].claims = worker[v].claims
      BY <1>1, <1>5 DEF RequeueExpiredClaims, Moves, Contender
    <2>4. WorkerTypes'
      BY <1>5, <2>2, <2>3 DEF RequeueExpiredClaims, WorkerInv, WorkerTypes
    <2>5. IndexedFirst'
      BY <1>5, <2>3 DEF RequeueExpiredClaims, WorkerInv, IndexedFirst, IsNext
    <2> QED  BY <2>2, <2>4, <2>5 DEF WorkerInv
  <1>6. ASSUME NEW i \in DOMAIN work, RowComesDue(i) PROVE WorkerInv' /\ NothingIsUndone
    <2>1. \A j \in DOMAIN work : work[j] \in Row
      BY Rowed DEF WorkerInv
    <2>2. /\ work' \in Seq(Row) /\ Len(work') = Len(log)
          /\ ConsumedIsIndexed' /\ NothingIsUndone
      BY <1>6, <2>1, RowsChange DEF RowComesDue, Row
    <2>3. WorkerTypes'
      BY <1>6, <2>2 DEF RowComesDue, WorkerInv, WorkerTypes
    <2>4. IndexedFirst'
      BY <1>6 DEF RowComesDue, WorkerInv, IndexedFirst, IsNext
    <2> QED  BY <2>2, <2>3, <2>4 DEF WorkerInv
  <1> QED
    BY <1>2, <1>3, <1>4, <1>5, <1>6, RecordStep, ClaimStep, ProcessStep, SettleStep
       DEF Next, Hook, Runs, ConsumeEvent, FailEvent

(* Every step keeps the owner of the lock and who works on the ledger alike. *)
LEMMA OwnerStep == WorkerTypes /\ OwnerWorks /\ [Next]_vars => OwnerWorks'
  <1> SUFFICES ASSUME WorkerTypes, OwnerWorks, [Next]_vars PROVE OwnerWorks'
    OBVIOUS
  <1> USE DEF OwnerWorks, Working
  <1>1. worker \in [Workers -> Contender] /\ Nobody \notin Workers
    BY DEF WorkerTypes
  <1>2. CASE UNCHANGED vars
    BY <1>2 DEF vars
  <1>3. ASSUME NEW e \in Events, HostCalls(e) \/ RecordHook(e) \/ HookDies(e) PROVE OwnerWorks'
    BY <1>3 DEF HostCalls, RecordHook, HookDies
  <1>4. ASSUME NEW e \in Events, WakeWorker(e) PROVE OwnerWorks'
    BY <1>1, <1>4 DEF WakeWorker, Contender
  <1>5. ASSUME NEW w \in Workers, AcquireLock(w) PROVE OwnerWorks'
    BY <1>1, <1>5 DEF AcquireLock, Contender, Asleep
  <1>6. ASSUME NEW w \in Workers, NEW from, NEW to, Moves(w, from, to), lock' = lock,
               {from, to} \cap {"off", "launched"} = {}
        PROVE  OwnerWorks'
    BY <1>1, <1>6 DEF Moves, Contender
  <1>7. ASSUME NEW w \in Workers, ClaimEvents(w) PROVE OwnerWorks'
    BY <1>1, <1>7 DEF ClaimEvents, Contender
  <1>8. ASSUME NEW w \in Workers, NEW step \in {"consume", "fail"}, NEW state,
               Settle(w, step, state)
        PROVE  OwnerWorks'
    <2>1. PICK i \in worker[w].claims : worker' = [worker EXCEPT
               ![w].claims = worker[w].claims \ {i},
               ![w].at = IF worker[w].claims \ {i} = {} THEN "requeue" ELSE "process"]
      BY <1>8 DEF Settle
    <2>2. worker'[w].at \in {"requeue", "process"}
      BY <1>1, <2>1 DEF Contender
    <2>3. \A v \in Workers : v # w => worker'[v] = worker[v]
      BY <1>1, <2>1
    <2> QED  BY <1>8, <2>2, <2>3 DEF Settle
  <1>9. ASSUME NEW w \in Workers, Look(w) PROVE OwnerWorks'
    BY <1>1, <1>9 DEF Look, Contender
  <1>10. ASSUME NEW w \in Workers, ReleaseLock(w) \/ WorkerDies(w) PROVE OwnerWorks'
    BY <1>1, <1>10 DEF ReleaseLock, WorkerDies, Asleep
  <1>11. ASSUME NEW i \in DOMAIN work, RowComesDue(i) PROVE OwnerWorks'
    BY <1>11 DEF RowComesDue
  <1>12. ASSUME NEW w \in Workers,
                RequeueExpiredClaims(w) \/ Process(w) \/ ProcessRaises(w) \/ WakesUp(w)
         PROVE  OwnerWorks'
    BY <1>6, <1>12 DEF RequeueExpiredClaims, Process, ProcessRaises, WakesUp
  <1> QED
    BY <1>2, <1>3, <1>4, <1>5, <1>7, <1>8, <1>9, <1>10, <1>11, <1>12
       DEF Next, Hook, Runs, ConsumeEvent, FailEvent

(* A consumed Stop is in the Session index, at its row or a later one,       *)
(* whatever was killed between indexing and consuming and in whatever order  *)
(* retries came (worker.py run_once, session_index.py observe).             *)
THEOREM ConsumedCorrect == Spec => []ConsumedIsIndexed
  <1>1. WorkerInv => ConsumedIsIndexed
    BY DEF WorkerInv
  <1> QED  BY <1>1, InitWorker, WorkerStep, PTL DEF Spec

(* The index never goes back, and a consumed event is never taken up again   *)
(* (db.py claim_events, requeue_expired_claims, fail_event).                *)
THEOREM WorkIsNeverUndone == Spec => [][NothingIsUndone]_vars
  BY InitWorker, WorkerStep, PTL DEF Spec

(* Only the owner of worker.lock works on the ledger, and the lock of a     *)
(* killed Worker comes free (worker.py ProcessLock, run_until_idle).        *)
THEOREM OneWorker == Spec => []OwnerWorks
  <1>1. Init => OwnerWorks
    BY DEF Init, OwnerWorks, Working, Asleep
  <1>2. WorkerInv => WorkerTypes
    BY DEF WorkerInv
  <1> QED  BY <1>1, <1>2, InitWorker, WorkerStep, OwnerStep, PTL DEF Spec
=============================================================================
