------------------------ MODULE CaptureAttemptsProofs ------------------------
(***************************************************************************)
(* One result leaves a capture operation, and what is settled stays, for    *)
(* any number of overlapping runs, attempts, Threads and model answers.     *)
(*                                                                          *)
(* The invariant says what a run knows at each of its steps: until its      *)
(* attempt is validated, the generation is its own and nobody else writes   *)
(* it; while it commits, the attempt is validated or decided; while it      *)
(* reconciles, it carries the operation's one committed output.  A second   *)
(* invariant says the same of Threads: one in use is one run's, and no      *)
(* sweep has it in its list.                                                *)
(***************************************************************************)
EXTENDS CaptureAttempts, TLAPS

(* Steps of a run that executes an attempt of its own, that reconciles a   *)
(* result, and that sweep; and where a sweep may lead.                     *)
Creating == {"forking", "attaching"}
Executing == {"binding", "inventory", "extraction", "storing"}
Owning == Creating \cup Executing
Reconciliation == {"reconciling", "persisted?", "starting", "binding reconciliation", "deciding"}
Sweeps2 == {"sweeping", "marking"}
AfterSweep == {"idle", "slice", "looking", "failing", "reconciling", "persisted?"}

Reconciles(x) ==
  \/ x.at \in Reconciliation
  \/ x.at \in Sweeps2 /\ x.next \in {"reconciling", "persisted?"}

(* What a run knows.                                                       *)
OwnsAttempt(x) ==
  /\ x.at \in Owning => x.generation \in DOMAIN attempts
  /\ x.at \in Creating => attempts[x.generation].state = "creating_thread"
  /\ x.at \in Executing => attempts[x.generation].state = "running"
  /\ x.at \in {"extraction", "storing"} => attempts[x.generation].inventory
  /\ x.at = "storing" => attempts[x.generation].extraction /\ x.output \in Outputs
  /\ x.at = "committing" =>
       /\ x.generation \in DOMAIN attempts
       /\ attempts[x.generation].state \in {"validated", "accepted", "superseded"}

CarriesResult(x) ==
  Reconciles(x) => operation.status = "committed" /\ x.output = operation.output

RunOK(x) ==
  /\ OwnsAttempt(x) /\ CarriesResult(x)
  /\ x.at \in Sweeps2 => x.next \in AfterSweep
  /\ x.at \in {"attaching", "binding reconciliation", "deciding"} => x.thread # NoThread
  /\ x.at = "storing empty" => excluded

OwnersDiffer ==
  \A r, q \in Runners :
    /\ r # q /\ run[r].at \in Owning /\ run[q].at \in Owning
    => run[r].generation # run[q].generation

(* One attempt is accepted, the winner, and an attempt that may win has    *)
(* gone through both Turns.                                                *)
AttemptsOK ==
  /\ operation.winner \in 0 .. operation.active
  /\ \A g \in DOMAIN attempts :
       /\ attempts[g].state = "accepted" <=> operation.winner = g
       /\ attempts[g].state \in {"validated", "accepted"} =>
            attempts[g].output \in Outputs /\ attempts[g].inventory /\ attempts[g].extraction
       /\ operation.winner = g => attempts[g].output = operation.output

(* What a run stores for a source that was excluded.                       *)
EmptySlice == [result |-> Empty, from |-> NoOutput, thread |-> NoThread, archive |-> "none"]

ResultOK ==
  /\ handed # {} => operation.status = "committed" /\ handed = {operation.output}
  /\ slice.result # NoOutput =>
       \/ operation.status = "committed" /\ slice.from = operation.output
       \/ excluded /\ slice = EmptySlice
  /\ slice.archive = "pending" => slice.thread # NoThread

AttemptInv ==
  /\ TypeOK
  /\ AttemptsOK /\ ResultOK /\ OwnersDiffer
  /\ \A r \in Runners : RunOK(run[r])

-----------------------------------------------------------------------------
(* Sequences.                                                              *)

LEMMA SameShape ==
  ASSUME NEW S, NEW s \in Seq(S), NEW f, f = [g \in DOMAIN s |-> f[g]],
         \A g \in DOMAIN s : f[g] \in S
  PROVE  f \in Seq(S) /\ Len(f) = Len(s) /\ DOMAIN f = DOMAIN s
  <1>1. DOMAIN s = 1 .. Len(s) /\ Len(s) \in Nat
    OBVIOUS
  <1>2. DOMAIN f = 1 .. Len(s)
    BY <1>1
  <1>3. f \in [1 .. Len(s) -> S]
    BY <1>1
  <1> QED
    BY <1>1, <1>2, <1>3

LEMMA AttemptsIndex ==
  ASSUME TypeOK
  PROVE  /\ DOMAIN attempts = 1 .. operation.active /\ operation.active \in 0 .. MaxGenerations
         /\ \A g \in DOMAIN attempts : attempts[g] \in Attempt
  BY AttemptAssumption DEF TypeOK

LEMMA AttemptInit == Init => AttemptInv
  <1> SUFFICES ASSUME Init PROVE AttemptInv
    OBVIOUS
  <1> USE AttemptAssumption DEF Init, Idle, NoThread
  <1>0. excluded \in BOOLEAN
    BY DEF Init
  <1>1. TypeOK
    BY <1>0 DEF TypeOK, Run, Steps
  <1>2. AttemptsOK
    BY DEF AttemptsOK
  <1>3. ResultOK /\ OwnersDiffer
    BY DEF ResultOK, OwnersDiffer, Owning, Creating, Executing
  <1>4. ASSUME NEW r \in Runners PROVE RunOK(run[r])
    BY DEF RunOK, OwnsAttempt, CarriesResult, Reconciles, Reconciliation, Sweeps2,
       Owning, Creating, Executing
  <1> QED
    BY <1>1, <1>2, <1>3, <1>4 DEF AttemptInv

-----------------------------------------------------------------------------
(* A step of one run.                                                      *)

LEMMA RunTyped ==
  ASSUME TypeOK, NEW r \in Runners, NEW x \in Run, run' = [run EXCEPT ![r] = x]
  PROVE  /\ run' \in [Runners -> Run] /\ run'[r] = x
         /\ \A q \in Runners \ {r} : run'[q] = run[q]
  BY DEF TypeOK

(* What a step of run r must leave to the others: their attempts, the      *)
(* decided ones, and a committed result.                                   *)
OthersKeep(r) ==
  /\ \A q \in Runners \ {r} : run'[q] = run[q]
  /\ \A g \in DOMAIN attempts :
       /\ g \in DOMAIN attempts'
       /\ \/ run[r].at \in Owning /\ g = run[r].generation
          \/ /\ attempts'[g].state = attempts[g].state
             /\ attempts'[g].inventory = attempts[g].inventory
             /\ attempts'[g].extraction = attempts[g].extraction
          \/ /\ attempts[g].state \in {"validated", "accepted", "superseded"}
             /\ attempts'[g].state \in {"validated", "accepted", "superseded"}
  /\ operation.status = "committed" =>
       operation'.status = "committed" /\ operation'.output = operation.output
  /\ excluded => excluded'

Succeeds(r) ==
  run'[r].at \in Owning =>
    \/ run[r].at \in Owning /\ run'[r].generation = run[r].generation
    \/ run'[r].generation \notin DOMAIN attempts

LEMMA RunStep ==
  ASSUME AttemptInv, NEW r \in Runners, OthersKeep(r), Succeeds(r),
         TypeOK', AttemptsOK', ResultOK', RunOK(run[r])'
  PROVE  AttemptInv'
  <1>1. ASSUME NEW q \in Runners \ {r}
        PROVE  OwnsAttempt(run[q])'
    <2>1. /\ run'[q] = run[q] /\ OwnsAttempt(run[q]) /\ OwnsAttempt(run[r])
          /\ run[r].at \in Owning /\ run[q].at \in Owning
               => run[r].generation # run[q].generation
      BY <1>1 DEF OthersKeep, AttemptInv, RunOK, OwnersDiffer
    <2>2. CASE run[q].at \in Owning
      <3>1. /\ run[q].generation \in DOMAIN attempts'
            /\ attempts'[run[q].generation].state = attempts[run[q].generation].state
            /\ attempts'[run[q].generation].inventory = attempts[run[q].generation].inventory
            /\ attempts'[run[q].generation].extraction = attempts[run[q].generation].extraction
        BY <2>1, <2>2 DEF OthersKeep, OwnsAttempt, Owning, Creating, Executing
      <3> QED
        BY <2>1, <2>2, <3>1 DEF OwnsAttempt, Owning, Creating, Executing
    <2>3. CASE run[q].at \notin Owning
      <3>1. run[q].at = "committing" =>
              /\ run[q].generation \in DOMAIN attempts'
              /\ attempts'[run[q].generation].state \in {"validated", "accepted", "superseded"}
        BY <2>1 DEF OthersKeep, OwnsAttempt, Owning, Creating, Executing
      <3> QED
        BY <2>1, <2>3, <3>1 DEF OwnsAttempt, Owning, Creating, Executing
    <2> QED
      BY <2>2, <2>3
  <1>2. ASSUME NEW q \in Runners \ {r}
        PROVE  RunOK(run[q])'
    <2>1. run'[q] = run[q] /\ RunOK(run[q])
      BY DEF OthersKeep, AttemptInv
    <2>2. CarriesResult(run[q])'
      BY <2>1 DEF RunOK, CarriesResult, Reconciles, OthersKeep
    <2>3. run[q].at = "storing empty" => excluded'
      BY <2>1 DEF RunOK, OthersKeep
    <2> QED
      BY <1>1, <2>1, <2>2, <2>3 DEF RunOK
  <1>3. ASSUME NEW q \in Runners \ {r}, run'[r].at \in Owning, run'[q].at \in Owning
        PROVE  run'[r].generation # run'[q].generation
    <2>1. run'[q] = run[q] /\ run[q].at \in Owning
      BY <1>3 DEF OthersKeep
    <2>2. run[q].generation \in DOMAIN attempts
      BY <2>1 DEF AttemptInv, RunOK, OwnsAttempt
    <2>3. run[r].at \in Owning => run[r].generation # run[q].generation
      BY <2>1 DEF AttemptInv, OwnersDiffer
    <2> QED
      BY <1>3, <2>1, <2>2, <2>3 DEF Succeeds
  <1>4. OwnersDiffer'
    BY <1>3 DEF OwnersDiffer, OthersKeep, AttemptInv
  <1> QED
    BY <1>2, <1>4 DEF AttemptInv

(* A step that changes its run, and Threads perhaps, and nothing else.     *)
LEMMA RunOnly ==
  ASSUME AttemptInv, NEW r \in Runners, NEW x \in Run, run' = [run EXCEPT ![r] = x],
         UNCHANGED <<operation, attempts, slice, handed, excluded>>,
         threads' \in Seq({"new", "internal", "archived"}), Len(threads') <= MaxThreads,
         RunOK(x),
         x.at \in Owning => run[r].at \in Owning /\ x.generation = run[r].generation
  PROVE  AttemptInv'
  <1>1. /\ run' \in [Runners -> Run] /\ run'[r] = x
        /\ \A q \in Runners \ {r} : run'[q] = run[q]
    BY RunTyped DEF AttemptInv
  <1>2. OthersKeep(r) /\ Succeeds(r)
    BY <1>1 DEF OthersKeep, Succeeds
  <1>3. TypeOK'
    BY <1>1 DEF AttemptInv, TypeOK
  <1>4. AttemptsOK' /\ ResultOK'
    BY DEF AttemptInv, AttemptsOK, ResultOK
  <1>5. RunOK(run[r])'
    BY <1>1 DEF RunOK, OwnsAttempt, CarriesResult, Reconciles
  <1> QED
    BY <1>2, <1>3, <1>4, <1>5, RunStep

LEMMA IdleOK == Idle \in Run /\ RunOK(Idle) /\ Idle.at \notin Owning
  BY AttemptAssumption DEF Idle, Run, Steps, NoThread, RunOK, OwnsAttempt, CarriesResult,
     Reconciles, Reconciliation, Sweeps2, Owning, Creating, Executing

LEMMA ThreadsRest ==
  ASSUME TypeOK, UNCHANGED threads
  PROVE  threads' \in Seq({"new", "internal", "archived"}) /\ Len(threads') <= MaxThreads
  BY DEF TypeOK

LEMMA EndStep ==
  ASSUME AttemptInv, NEW r \in Runners, Ends(r),
         UNCHANGED <<operation, attempts, slice, handed, excluded>>,
         threads' \in Seq({"new", "internal", "archived"}), Len(threads') <= MaxThreads
  PROVE  AttemptInv'
  BY RunOnly, IdleOK DEF Ends

(* A sweep starts with Threads that exist, and leads where it may.         *)
LEMMA SweepingOK ==
  ASSUME AttemptInv, NEW r \in Runners, NEW list \in SUBSET (1 .. MaxThreads), NEW next \in AfterSweep,
         next \in {"reconciling", "persisted?"} =>
           operation.status = "committed" /\ run[r].output = operation.output
  PROVE  LET x == [run[r] EXCEPT !.at = "sweeping", !.todo = list, !.next = next]
         IN x \in Run /\ RunOK(x) /\ x.at \notin Owning
  <1> DEFINE x == [run[r] EXCEPT !.at = "sweeping", !.todo = list, !.next = next]
  <1>1. run[r] \in Run
    BY DEF AttemptInv, TypeOK
  <1>2. /\ x \in Run /\ x.at = "sweeping" /\ x.next = next /\ x.output = run[r].output
    BY <1>1 DEF Run, Steps, AfterSweep
  <1> HIDE DEF x
  <1>3. RunOK(x) /\ x.at \notin Owning
    BY <1>2 DEF RunOK, OwnsAttempt, CarriesResult, Reconciles, Reconciliation, Sweeps2,
       Owning, Creating, Executing
  <1> QED
    BY <1>2, <1>3 DEF x

LEMMA PendingTyped ==
  ASSUME TypeOK
  PROVE  PendingArchives \subseteq 1 .. MaxThreads
  BY AttemptsIndex, AttemptAssumption DEF TypeOK, PendingArchives, Attempt, NoThread

LEMMA ThreadsSet ==
  ASSUME TypeOK, NEW t, NEW v \in {"new", "internal", "archived"}
  PROVE  /\ [threads EXCEPT ![t] = v] \in Seq({"new", "internal", "archived"})
         /\ Len([threads EXCEPT ![t] = v]) <= MaxThreads
  <1> DEFINE f == [threads EXCEPT ![t] = v]
  <1>1. threads \in Seq({"new", "internal", "archived"}) /\ Len(threads) <= MaxThreads
    BY DEF TypeOK
  <1>2. f = [u \in DOMAIN threads |-> f[u]]
    OBVIOUS
  <1>3. \A u \in DOMAIN threads : f[u] \in {"new", "internal", "archived"}
    BY <1>1
  <1> HIDE DEF f
  <1>4. f \in Seq({"new", "internal", "archived"}) /\ Len(f) = Len(threads)
    BY <1>1, <1>2, <1>3, SameShape
  <1> QED
    BY <1>1, <1>4 DEF f

(* What a run must know where it sweeps, reconciles, or does neither.      *)
LEMMA StillSweeps ==
  ASSUME NEW y, RunOK(y), y.at \in Sweeps2,
         NEW x, x.at \in Sweeps2, x.next = y.next, x.output = y.output
  PROVE  RunOK(x) /\ x.at \notin Owning
  BY DEF RunOK, OwnsAttempt, CarriesResult, Reconciles, Reconciliation, Sweeps2,
     Owning, Creating, Executing

LEMMA StillReconciles ==
  ASSUME NEW y, RunOK(y), Reconciles(y),
         NEW x, x.at \in Reconciliation, x.output = y.output,
         x.at \in {"binding reconciliation", "deciding"} => x.thread # NoThread
  PROVE  RunOK(x) /\ x.at \notin Owning
  BY DEF RunOK, OwnsAttempt, CarriesResult, Reconciles, Reconciliation, Sweeps2,
     Owning, Creating, Executing

LEMMA QuietOK ==
  ASSUME NEW x, x.at \in {"idle", "slice", "looking", "source", "ensuring", "committed?",
                          "validated?", "beginning", "failing", "excluding"}
  PROVE  RunOK(x) /\ x.at \notin Owning
  BY DEF RunOK, OwnsAttempt, CarriesResult, Reconciles, Reconciliation, Sweeps2,
     Owning, Creating, Executing

-----------------------------------------------------------------------------
(* Archiving.                                                              *)

LEMMA ArchiveThreadStep ==
  ASSUME AttemptInv, NEW r \in Runners, ArchiveThread(r)
  PROVE  AttemptInv'
  <1>1. PICK t \in run[r].todo :
          /\ run[r].at = "sweeping"
          /\ UNCHANGED <<operation, attempts, slice, handed, excluded>>
          /\ \/ /\ threads' = [threads EXCEPT ![t] = "archived"]
                /\ run' = [run EXCEPT ![r].at = "marking"]
             \/ /\ threads' \in {threads, [threads EXCEPT ![t] = "archived"]}
                /\ run' = [run EXCEPT ![r].todo = @ \ {t}]
    BY DEF ArchiveThread, At, Goes
  <1>2. TypeOK /\ run[r] \in Run /\ RunOK(run[r])
    BY DEF AttemptInv, TypeOK
  <1>3. threads' \in Seq({"new", "internal", "archived"}) /\ Len(threads') <= MaxThreads
    BY <1>1, <1>2, ThreadsSet, ThreadsRest
  <1>4. CASE run' = [run EXCEPT ![r].at = "marking"]
    <2> DEFINE x == [run[r] EXCEPT !.at = "marking"]
    <2>1. /\ x \in Run /\ x.at = "marking" /\ x.next = run[r].next
          /\ x.output = run[r].output
      BY <1>2 DEF Run, Steps
    <2>2. run' = [run EXCEPT ![r] = x]
      BY <1>4
    <2> HIDE DEF x
    <2>3. RunOK(x) /\ x.at \notin Owning
      BY <1>1, <1>2, <2>1, StillSweeps DEF Sweeps2
    <2> QED
      BY <1>1, <1>3, <2>1, <2>2, <2>3, RunOnly
  <1>5. CASE run' = [run EXCEPT ![r].todo = @ \ {t}]
    <2> DEFINE x == [run[r] EXCEPT !.todo = @ \ {t}]
    <2>1. /\ x \in Run /\ x.at = "sweeping" /\ x.next = run[r].next
          /\ x.output = run[r].output
      BY <1>1, <1>2 DEF Run
    <2>2. run' = [run EXCEPT ![r] = x]
      BY <1>5
    <2> HIDE DEF x
    <2>3. RunOK(x) /\ x.at \notin Owning
      BY <1>1, <1>2, <2>1, StillSweeps DEF Sweeps2
    <2> QED
      BY <1>1, <1>3, <2>1, <2>2, <2>3, RunOnly
  <1> QED
    BY <1>1, <1>4, <1>5

LEMMA EndSweepStep ==
  ASSUME AttemptInv, NEW r \in Runners, EndSweep(r)
  PROVE  AttemptInv'
  <1>1. /\ run[r].at = "sweeping"
        /\ UNCHANGED <<operation, attempts, threads, slice, handed, excluded>>
        /\ IF run[r].next = "idle" THEN Ends(r)
                                   ELSE run' = [run EXCEPT ![r].at = run[r].next]
    BY DEF EndSweep, At, Goes
  <1>2. TypeOK /\ run[r] \in Run /\ RunOK(run[r])
    BY DEF AttemptInv, TypeOK
  <1>3. threads' \in Seq({"new", "internal", "archived"}) /\ Len(threads') <= MaxThreads
    BY <1>1, <1>2, ThreadsRest
  <1>4. CASE run[r].next = "idle"
    BY <1>1, <1>3, <1>4, EndStep
  <1>5. CASE run[r].next # "idle"
    <2> DEFINE x == [run[r] EXCEPT !.at = run[r].next]
    <2>1. /\ x \in Run /\ x.at = run[r].next /\ x.output = run[r].output
      BY <1>2 DEF Run
    <2>2. run' = [run EXCEPT ![r] = x]
      BY <1>1, <1>5
    <2> HIDE DEF x
    <2>3. run[r].next \in {"slice", "looking", "failing", "reconciling", "persisted?"}
      BY <1>1, <1>2, <1>5 DEF RunOK, Sweeps2, AfterSweep
    <2>4. CASE run[r].next \in {"slice", "looking", "failing"}
      <3>1. RunOK(x) /\ x.at \notin Owning
        BY <2>1, <2>4, QuietOK
      <3> QED
        BY <1>1, <1>3, <2>1, <2>2, <3>1, RunOnly
    <2>5. CASE run[r].next \in {"reconciling", "persisted?"}
      <3>1. Reconciles(run[r]) /\ x.at \in Reconciliation
            /\ x.at \notin {"binding reconciliation", "deciding"}
        BY <1>1, <2>1, <2>5 DEF Reconciles, Reconciliation, Sweeps2
      <3>2. RunOK(x) /\ x.at \notin Owning
        BY <1>2, <2>1, <3>1, StillReconciles
      <3> QED
        BY <1>1, <1>3, <2>1, <2>2, <3>2, RunOnly
    <2> QED
      BY <2>3, <2>4, <2>5
  <1> QED
    BY <1>4, <1>5

(* The attempts are written in place: the rows keep their number, and the  *)
(* rest of the type invariant follows from each row.                       *)
LEMMA AttemptsTyped ==
  ASSUME TypeOK,
         attempts' = [g \in DOMAIN attempts |-> attempts'[g]],
         \A g \in DOMAIN attempts : /\ attempts'[g] \in Attempt
                                    /\ attempts'[g].thread = NoThread
                                         <=> attempts'[g].archive = "not_applicable",
         operation'.active = operation.active
  PROVE  /\ attempts' \in Seq(Attempt) /\ Len(attempts') = operation'.active
         /\ DOMAIN attempts' = DOMAIN attempts
         /\ \A g \in DOMAIN attempts' :
              attempts'[g].thread = NoThread <=> attempts'[g].archive = "not_applicable"
  <1>1. attempts \in Seq(Attempt) /\ Len(attempts) = operation.active
    BY DEF TypeOK
  <1>2. /\ attempts' \in Seq(Attempt) /\ Len(attempts') = Len(attempts)
        /\ DOMAIN attempts' = DOMAIN attempts
    BY <1>1, SameShape
  <1> QED
    BY <1>1, <1>2

LEMMA MarkArchivedStep ==
  ASSUME AttemptInv, NEW r \in Runners, MarkArchived(r)
  PROVE  AttemptInv'
  <1>1. PICK t \in run[r].todo :
          /\ run[r].at = "marking"
          /\ attempts' = [g \in DOMAIN attempts |->
                            IF attempts[g].thread = t
                              THEN [attempts[g] EXCEPT !.archive = "archived"]
                              ELSE attempts[g]]
          /\ slice' = IF slice.thread = t THEN [slice EXCEPT !.archive = "archived"] ELSE slice
          /\ run' = [run EXCEPT ![r] = [@ EXCEPT !.at = "sweeping", !.todo = run[r].todo \ {t}]]
          /\ UNCHANGED <<operation, threads, handed, excluded>>
    BY DEF MarkArchived, At
  <1>2. TypeOK /\ run[r] \in Run /\ RunOK(run[r])
    BY DEF AttemptInv, TypeOK
  <1>3. t \in 1 .. MaxThreads
    BY <1>2 DEF Run
  <1>4. \A g \in DOMAIN attempts :
          /\ attempts'[g] \in Attempt
          /\ attempts'[g].thread = attempts[g].thread
          /\ attempts'[g].state = attempts[g].state
          /\ attempts'[g].output = attempts[g].output
          /\ attempts'[g].inventory = attempts[g].inventory
          /\ attempts'[g].extraction = attempts[g].extraction
          /\ attempts'[g].archive = IF attempts[g].thread = t THEN "archived"
                                                              ELSE attempts[g].archive
    BY <1>1, <1>2, AttemptsIndex DEF Attempt
  <1>5. /\ attempts' \in Seq(Attempt) /\ Len(attempts') = operation'.active
        /\ DOMAIN attempts' = DOMAIN attempts
        /\ \A g \in DOMAIN attempts' :
             attempts'[g].thread = NoThread <=> attempts'[g].archive = "not_applicable"
    <2>1. \A g \in DOMAIN attempts :
            attempts'[g].thread = NoThread <=> attempts'[g].archive = "not_applicable"
      BY <1>2, <1>3, <1>4 DEF TypeOK, NoThread
    <2>2. attempts' = [g \in DOMAIN attempts |-> attempts'[g]]
      BY <1>1
    <2> QED
      BY <1>1, <1>2, <1>4, <2>1, <2>2, AttemptsTyped
  <1>6. /\ slice' \in [result : Decisions \cup {Empty, NoOutput}, from : Outputs \cup {NoOutput},
                       thread : 0 .. MaxThreads, archive : {"none", "pending", "archived"}]
        /\ slice'.result = slice.result /\ slice'.from = slice.from
        /\ slice'.thread = slice.thread
        /\ slice'.archive = "pending" => slice.archive = "pending"
    BY <1>1, <1>2 DEF TypeOK
  <1>16. slice.thread = NoThread => slice' = slice
    BY <1>1, <1>3 DEF NoThread
  <1> DEFINE x == [run[r] EXCEPT !.at = "sweeping", !.todo = run[r].todo \ {t}]
  <1>7. run' = [run EXCEPT ![r] = x]
    <2>1. run' = [run EXCEPT ![r] = [@ EXCEPT !.at = "sweeping", !.todo = run[r].todo \ {t}]]
      BY <1>1, Zenon
    <2> QED
      BY <2>1
  <1>8. /\ x \in Run /\ x.at = "sweeping" /\ x.next = run[r].next
        /\ x.output = run[r].output
    BY <1>2 DEF Run, Steps
  <1> HIDE DEF x
  <1>9. RunOK(x) /\ x.at \notin Owning
    BY <1>1, <1>2, <1>8, StillSweeps DEF Sweeps2
  <1>10. /\ run' \in [Runners -> Run] /\ run'[r] = x
         /\ \A q \in Runners \ {r} : run'[q] = run[q]
    BY <1>2, <1>7, <1>8, RunTyped
  <1>11. TypeOK'
    BY <1>1, <1>2, <1>5, <1>6, <1>10 DEF TypeOK
  <1>12. AttemptsOK'
    BY <1>1, <1>4, <1>5 DEF AttemptInv, AttemptsOK
  <1>13. ResultOK'
    BY <1>1, <1>6, <1>16 DEF AttemptInv, ResultOK, EmptySlice
  <1>14. OthersKeep(r) /\ Succeeds(r)
    BY <1>1, <1>4, <1>5, <1>9, <1>10 DEF OthersKeep, Succeeds
  <1>15. RunOK(run[r])'
    BY <1>1, <1>8, <1>9, <1>10 DEF RunOK, OwnsAttempt, CarriesResult, Reconciles,
       Sweeps2, Owning, Creating, Executing
  <1> QED
    BY <1>11, <1>12, <1>13, <1>14, <1>15, RunStep

-----------------------------------------------------------------------------
(* Before the attempt.                                                     *)

LEMMA SweepsStep ==
  ASSUME AttemptInv, NEW r \in Runners,
         NEW list \in SUBSET (1 .. MaxThreads), NEW next \in AfterSweep,
         next \in {"reconciling", "persisted?"} =>
           operation.status = "committed" /\ run[r].output = operation.output,
         Sweeps(r, list, next), UNCHANGED <<operation, attempts, threads, slice, handed, excluded>>
  PROVE  AttemptInv'
  <1> DEFINE x == [run[r] EXCEPT !.at = "sweeping", !.todo = list, !.next = next]
  <1>1. x \in Run /\ RunOK(x) /\ x.at \notin Owning
    BY SweepingOK
  <1>2. run' = [run EXCEPT ![r] = x]
    BY DEF Sweeps
  <1>3. threads' \in Seq({"new", "internal", "archived"}) /\ Len(threads') <= MaxThreads
    BY ThreadsRest DEF AttemptInv
  <1> HIDE DEF x
  <1> QED
    BY <1>1, <1>2, <1>3, RunOnly

LEMMA SlicePending ==
  ASSUME AttemptInv
  PROVE  PendingSliceArchive \subseteq 1 .. MaxThreads
  BY AttemptAssumption DEF AttemptInv, TypeOK, ResultOK, PendingSliceArchive, NoThread

LEMMA SweepingActions ==
  ASSUME AttemptInv, NEW r \in Runners, Serve(r) \/ ReadSlice(r) \/ OpenReconciliation(r)
  PROVE  AttemptInv'
  <1>1. /\ PendingArchives \cup PendingSliceArchive \in SUBSET (1 .. MaxThreads)
        /\ PendingArchives \in SUBSET (1 .. MaxThreads)
        /\ PendingSliceArchive \in SUBSET (1 .. MaxThreads)
    BY PendingTyped, SlicePending DEF AttemptInv
  <1>2. TypeOK /\ UNCHANGED <<operation, attempts, threads, slice, handed, excluded>>
    BY DEF AttemptInv, Serve, ReadSlice, OpenReconciliation
  <1>3. "slice" \in AfterSweep /\ "looking" \in AfterSweep /\ "persisted?" \in AfterSweep
    BY DEF AfterSweep
  <1>4. CASE Sweeps(r, PendingArchives \cup PendingSliceArchive, "slice")
    BY <1>1, <1>2, <1>3, <1>4, SweepsStep
  <1>5. CASE Sweeps(r, PendingArchives, "looking")
    BY <1>1, <1>2, <1>3, <1>5, SweepsStep
  <1>6. CASE Ends(r)
    BY <1>2, <1>6, ThreadsRest, EndStep
  <1>7. CASE OpenReconciliation(r)
    <2>1. run[r].at = "reconciling" /\ Sweeps(r, PendingSliceArchive, "persisted?")
      BY <1>7 DEF OpenReconciliation, At
    <2>2. operation.status = "committed" /\ run[r].output = operation.output
      BY <2>1 DEF AttemptInv, RunOK, CarriesResult, Reconciles, Reconciliation
    <2> QED
      BY <1>1, <1>2, <1>3, <2>1, <2>2, SweepsStep
  <1> QED
    BY <1>4, <1>5, <1>6, <1>7 DEF Serve, ReadSlice

(* A step to a place where the run need know nothing.                      *)
Quiet == {"idle", "slice", "looking", "source", "ensuring", "committed?",
          "validated?", "beginning", "failing", "excluding"}

LEMMA GoesOK ==
  ASSUME AttemptInv, NEW r \in Runners, NEW step \in Quiet, Goes(r, step)
  PROVE  \E x \in Run : /\ run' = [run EXCEPT ![r] = x] /\ x.at = step
                        /\ RunOK(x) /\ x.at \notin Owning
  <1> DEFINE x == [run[r] EXCEPT !.at = step]
  <1>1. run[r] \in Run
    BY DEF AttemptInv, TypeOK
  <1>2. x \in Run /\ x.at = step
    BY <1>1 DEF Run, Steps, Quiet
  <1>3. run' = [run EXCEPT ![r] = x]
    BY DEF Goes
  <1> HIDE DEF x
  <1>4. RunOK(x) /\ x.at \notin Owning
    BY <1>2, QuietOK DEF Quiet
  <1> QED
    BY <1>2, <1>3, <1>4

LEMMA GoesStep ==
  ASSUME AttemptInv, NEW r \in Runners, NEW step \in Quiet, Goes(r, step),
         UNCHANGED <<operation, attempts, threads, slice, handed, excluded>>
  PROVE  AttemptInv'
  <1>1. PICK x \in Run : run' = [run EXCEPT ![r] = x] /\ RunOK(x) /\ x.at \notin Owning
    BY GoesOK
  <1>2. threads' \in Seq({"new", "internal", "archived"}) /\ Len(threads') <= MaxThreads
    BY ThreadsRest DEF AttemptInv
  <1> QED
    BY <1>1, <1>2, RunOnly

LEMMA GoesOnStep ==
  ASSUME AttemptInv, NEW r \in Runners, NEW step \in Quiet, GoesOn(r, step),
         UNCHANGED <<operation, attempts, threads, slice, handed, excluded>>
  PROVE  AttemptInv'
  <1> DEFINE x == [run[r] EXCEPT !.at = step, !.seen = "absent"]
  <1>1. run[r] \in Run
    BY DEF AttemptInv, TypeOK
  <1>2. x \in Run /\ x.at = step
    BY <1>1 DEF Run, Steps, Quiet
  <1>3. run' = [run EXCEPT ![r] = x]
    BY DEF GoesOn
  <1>4. threads' \in Seq({"new", "internal", "archived"}) /\ Len(threads') <= MaxThreads
    BY ThreadsRest DEF AttemptInv
  <1> HIDE DEF x
  <1>5. RunOK(x) /\ x.at \notin Owning
    BY <1>2, QuietOK DEF Quiet
  <1> QED
    BY <1>2, <1>3, <1>4, <1>5, RunOnly

LEMMA ReadingActions ==
  ASSUME AttemptInv, NEW r \in Runners,
         \/ ReadOperation(r) \/ ReadSource(r) \/ ReplayConflicts(r) \/ SourceExcluded(r)
         \/ ActiveValidatedAttempt(r) \/ StartFails(r) \/ CutOff(r)
  PROVE  AttemptInv'
  <1>1. TypeOK /\ run[r] \in Run /\ UNCHANGED <<operation, attempts, threads, slice, handed, excluded>>
    BY DEF AttemptInv, TypeOK, ReadOperation, ReadSource, ReplayConflicts, SourceExcluded,
       ActiveValidatedAttempt, StartFails, CutOff
  <1>2. threads' \in Seq({"new", "internal", "archived"}) /\ Len(threads') <= MaxThreads
    BY <1>1, ThreadsRest
  <1>3. CASE Ends(r)
    BY <1>1, <1>2, <1>3, EndStep
  <1>4. CASE \E step \in Quiet : Goes(r, step)
    BY <1>1, <1>4, GoesStep
  <1>10. CASE \E step \in Quiet : GoesOn(r, step)
    BY <1>1, <1>10, GoesOnStep
  <1>5. CASE ReadOperation(r)
    <2> DEFINE x == [run[r] EXCEPT !.at = "source", !.seen = operation.status]
    <2>1. operation.status \in {"absent", "open", "committed", "failed_terminal"}
      BY <1>1 DEF TypeOK
    <2>2. x \in Run /\ x.at = "source"
      BY <1>1, <2>1 DEF Run, Steps
    <2>3. run' = [run EXCEPT ![r] = x]
      BY <1>5 DEF ReadOperation
    <2> HIDE DEF x
    <2>4. RunOK(x) /\ x.at \notin Owning
      BY <2>2, QuietOK
    <2> QED
      BY <1>1, <1>2, <2>2, <2>3, <2>4, RunOnly
  <1>6. CASE ReadSource(r)
    <2>1. Ends(r) \/ GoesOn(r, "ensuring") \/ GoesOn(r, "committed?")
      BY <1>6 DEF ReadSource
    <2> QED
      BY <1>3, <1>10, <2>1 DEF Quiet
  <1>7. CASE ActiveValidatedAttempt(r) /\ ActiveValidated
    <2> DEFINE x == [run[r] EXCEPT !.at = "committing", !.generation = operation.active]
    <2>1. /\ operation.active \in DOMAIN attempts /\ operation.active \in 0 .. MaxGenerations
          /\ attempts[operation.active].state = "validated"
      BY <1>1, <1>7, AttemptsIndex, AttemptAssumption DEF ActiveValidated
    <2>2. x \in Run /\ x.at = "committing" /\ x.generation = operation.active
      BY <1>1, <2>1 DEF Run, Steps
    <2>3. run' = [run EXCEPT ![r] = x]
      BY <1>7 DEF ActiveValidatedAttempt
    <2> HIDE DEF x
    <2>4. RunOK(x) /\ x.at \notin Owning
      BY <2>1, <2>2 DEF RunOK, OwnsAttempt, CarriesResult, Reconciles, Reconciliation, Sweeps2,
         Owning, Creating, Executing
    <2> QED
      BY <1>1, <1>2, <2>2, <2>3, <2>4, RunOnly
  <1>8. CASE ActiveValidatedAttempt(r) /\ ~ActiveValidated
    BY <1>4, <1>8 DEF ActiveValidatedAttempt, Quiet
  <1>9. CASE SourceExcluded(r)
    BY <1>10, <1>9 DEF SourceExcluded, Quiet
  <1> QED
    BY <1>3, <1>5, <1>6, <1>7, <1>8, <1>9 DEF ReplayConflicts, StartFails, CutOff

(* The source is marked, and its empty result is the next thing stored.    *)
LEMMA MarkExcludedStep ==
  ASSUME AttemptInv, NEW r \in Runners, MarkExcluded(r)
  PROVE  AttemptInv'
  <1>1. /\ TypeOK /\ run[r] \in Run /\ run[r].at = "excluding" /\ excluded' = TRUE
        /\ run' = [run EXCEPT ![r].at = "storing empty"]
        /\ UNCHANGED <<operation, attempts, threads, slice, handed>>
    BY DEF AttemptInv, TypeOK, MarkExcluded, At, Goes
  <1> DEFINE x == [run[r] EXCEPT !.at = "storing empty"]
  <1>2. x \in Run /\ x.at = "storing empty"
    BY <1>1 DEF Run, Steps
  <1>3. run' = [run EXCEPT ![r] = x]
    BY <1>1
  <1> HIDE DEF x
  <1>4. /\ run' \in [Runners -> Run] /\ run'[r] = x
        /\ \A q \in Runners \ {r} : run'[q] = run[q]
    BY <1>1, <1>2, <1>3, RunTyped
  <1>5. TypeOK'
    BY <1>1, <1>4 DEF TypeOK
  <1>6. AttemptsOK' /\ ResultOK'
    BY <1>1 DEF AttemptInv, AttemptsOK, ResultOK, EmptySlice
  <1>7. OthersKeep(r) /\ Succeeds(r)
    BY <1>1, <1>2, <1>4 DEF OthersKeep, Succeeds, Owning, Creating, Executing
  <1>8. RunOK(run[r])'
    BY <1>1, <1>2, <1>4 DEF RunOK, OwnsAttempt, CarriesResult, Reconciles, Owning,
       Creating, Executing, Reconciliation, Sweeps2
  <1> QED
    BY <1>5, <1>6, <1>7, <1>8, RunStep

-----------------------------------------------------------------------------
(* The operation opens or fails: it does not commit, and a committed one   *)
(* is left alone.                                                          *)

OnlyStatus ==
  /\ operation' \in [status : {"absent", "open", "committed", "failed_terminal"},
                     active : 0 .. MaxGenerations, winner : 0 .. MaxGenerations,
                     output : Outputs \cup {NoOutput}]
  /\ operation'.active = operation.active
  /\ operation'.winner = operation.winner
  /\ operation'.output = operation.output
  /\ operation'.status = "committed" <=> operation.status = "committed"

LEMMA StatusStep ==
  ASSUME AttemptInv, NEW r \in Runners, OnlyStatus, NEW step \in Quiet,
         Goes(r, step) \/ Ends(r), UNCHANGED <<attempts, threads, slice, handed, excluded>>
  PROVE  AttemptInv'
  <1>1. PICK x \in Run : run' = [run EXCEPT ![r] = x] /\ RunOK(x) /\ x.at \in Quiet
    <2>1. CASE Ends(r)
      BY <2>1, IdleOK DEF Ends, Idle, Quiet
    <2>2. CASE Goes(r, step)
      BY <2>2, GoesOK
    <2> QED
      BY <2>1, <2>2
  <1>2. /\ run' \in [Runners -> Run] /\ run'[r] = x
        /\ \A q \in Runners \ {r} : run'[q] = run[q]
    BY <1>1, RunTyped DEF AttemptInv
  <1>3. x.at \notin Owning \cup Sweeps2 \cup Reconciliation \cup {"committing"}
    BY <1>1 DEF Quiet, Owning, Creating, Executing, Sweeps2, Reconciliation
  <1>4. TypeOK'
    BY <1>2 DEF AttemptInv, TypeOK, OnlyStatus
  <1>5. AttemptsOK'
    BY DEF AttemptInv, AttemptsOK, OnlyStatus
  <1>6. ResultOK'
    BY DEF AttemptInv, ResultOK, OnlyStatus
  <1>7. OthersKeep(r) /\ Succeeds(r)
    BY <1>2, <1>3 DEF OthersKeep, Succeeds, OnlyStatus
  <1>8. RunOK(run[r])'
    <2>1. x.at # "storing empty"
      BY <1>1 DEF Quiet
    <2> QED
      BY <1>2, <1>3, <2>1 DEF RunOK, OwnsAttempt, CarriesResult, Reconciles, Owning, Creating,
         Executing, Reconciliation
  <1> QED
    BY <1>4, <1>5, <1>6, <1>7, <1>8, RunStep

LEMMA FailKeeps ==
  ASSUME AttemptInv, FailOperation \/ UNCHANGED operation
  PROVE  OnlyStatus
  <1>1. TypeOK
    BY DEF AttemptInv
  <1> QED
    BY <1>1 DEF TypeOK, FailOperation, OnlyStatus

LEMMA StatusActions ==
  ASSUME AttemptInv, NEW r \in Runners,
         SourceUnavailable(r) \/ EnsureOperation(r) \/ FailTerminal(r)
  PROVE  AttemptInv'
  <1>1. TypeOK /\ UNCHANGED <<attempts, threads, slice, handed, excluded>>
    BY DEF AttemptInv, SourceUnavailable, EnsureOperation, FailTerminal
  <1>2. Ends(r) \/ Goes(r, "committed?")
    BY DEF SourceUnavailable, EnsureOperation, FailTerminal
  <1>3. OnlyStatus
    <2>1. CASE EnsureOperation(r)
      BY <1>1, <2>1 DEF EnsureOperation, TypeOK, OnlyStatus
    <2>2. CASE SourceUnavailable(r) \/ FailTerminal(r)
      BY <2>2, FailKeeps DEF SourceUnavailable, FailTerminal
    <2> QED
      BY <2>1, <2>2
  <1> QED
    BY <1>1, <1>2, <1>3, StatusStep DEF Quiet

(* A run that is given the committed result reconciles it.                 *)
LEMMA CarryOK ==
  ASSUME TypeOK, NEW output \in Outputs, NEW list \in SUBSET (1 .. MaxThreads)
  PROVE  LET x == [Idle EXCEPT !.at = "sweeping", !.output = output, !.todo = list,
                               !.next = "reconciling"]
         IN /\ x \in Run /\ x.at = "sweeping" /\ x.next = "reconciling" /\ x.output = output
  <1>1. "sweeping" \in Steps /\ "reconciling" \in Steps /\ Idle \in Run
    BY IdleOK DEF Steps
  <1> QED
    BY <1>1 DEF Run

LEMMA CommittedCaptureStep ==
  ASSUME AttemptInv, NEW r \in Runners, CommittedCapture(r)
  PROVE  AttemptInv'
  <1>1. TypeOK /\ UNCHANGED <<operation, attempts, threads, slice, excluded>>
    BY DEF AttemptInv, CommittedCapture
  <1>2. CASE operation.status = "committed"
    <2> DEFINE x == [Idle EXCEPT !.at = "sweeping", !.output = operation.output, !.todo = {},
                                 !.next = "reconciling"]
    <2>1. operation.output \in Outputs
      BY <1>1, <1>2 DEF TypeOK
    <2>2. x \in Run /\ x.at = "sweeping" /\ x.next = "reconciling" /\ x.output = operation.output
      BY <1>1, <2>1, CarryOK
    <2>3. run' = [run EXCEPT ![r] = x] /\ handed' = handed \cup {operation.output}
      BY <1>2 DEF CommittedCapture, Carry, HandsOver
    <2> HIDE DEF x
    <2>4. /\ run' \in [Runners -> Run] /\ run'[r] = x
          /\ \A q \in Runners \ {r} : run'[q] = run[q]
      BY <1>1, <2>2, <2>3, RunTyped
    <2>5. TypeOK'
      BY <1>1, <2>1, <2>3, <2>4 DEF TypeOK
    <2>6. AttemptsOK'
      BY <1>1 DEF AttemptInv, AttemptsOK
    <2>7. ResultOK'
      BY <1>1, <1>2, <2>3 DEF AttemptInv, ResultOK
    <2>8. OthersKeep(r) /\ Succeeds(r)
      BY <1>1, <2>2, <2>4 DEF OthersKeep, Succeeds, Owning, Creating, Executing
    <2>9. RunOK(run[r])'
      BY <1>1, <1>2, <2>2, <2>4 DEF RunOK, OwnsAttempt, CarriesResult, Reconciles, Owning,
         Creating, Executing, Reconciliation, Sweeps2, AfterSweep
    <2> QED
      BY <2>5, <2>6, <2>7, <2>8, <2>9, RunStep
  <1>3. CASE operation.status # "committed"
    <2>1. Goes(r, "validated?") /\ UNCHANGED handed
      BY <1>3 DEF CommittedCapture
    <2> QED
      BY <1>1, <2>1, GoesStep DEF Quiet
  <1> QED
    BY <1>2, <1>3

-----------------------------------------------------------------------------
(* A run writes the attempt it owns.                                       *)

LEMMA OwnTyped ==
  ASSUME AttemptInv, NEW r \in Runners, run[r].at \in Owning, UNCHANGED operation,
         NEW a \in Attempt, a.thread = NoThread <=> a.archive = "not_applicable",
         attempts' = [attempts EXCEPT ![run[r].generation] = a]
  PROVE  /\ attempts' \in Seq(Attempt) /\ Len(attempts') = operation'.active
         /\ DOMAIN attempts' = DOMAIN attempts
         /\ \A g \in DOMAIN attempts' :
              attempts'[g].thread = NoThread <=> attempts'[g].archive = "not_applicable"
         /\ run[r].generation \in DOMAIN attempts
         /\ \A g \in DOMAIN attempts :
              attempts'[g] = IF g = run[r].generation THEN a ELSE attempts[g]
         /\ PendingArchives' \subseteq 1 .. MaxThreads
  <1>1. TypeOK /\ run[r].generation \in DOMAIN attempts
    BY DEF AttemptInv, RunOK, OwnsAttempt
  <1>2. \A g \in DOMAIN attempts :
          attempts'[g] = IF g = run[r].generation THEN a ELSE attempts[g]
    BY <1>1
  <1>3. \A g \in DOMAIN attempts : /\ attempts'[g] \in Attempt
                                   /\ attempts'[g].thread = NoThread
                                        <=> attempts'[g].archive = "not_applicable"
    <2>1. \A g \in DOMAIN attempts : /\ attempts[g] \in Attempt
                                     /\ attempts[g].thread = NoThread
                                          <=> attempts[g].archive = "not_applicable"
      BY <1>1, AttemptsIndex DEF TypeOK
    <2> QED
      BY <1>2, <2>1
  <1>4. attempts' = [g \in DOMAIN attempts |-> attempts'[g]]
    OBVIOUS
  <1>5. /\ attempts' \in Seq(Attempt) /\ Len(attempts') = operation'.active
        /\ DOMAIN attempts' = DOMAIN attempts
        /\ \A g \in DOMAIN attempts' :
             attempts'[g].thread = NoThread <=> attempts'[g].archive = "not_applicable"
    BY <1>1, <1>3, <1>4, AttemptsTyped
  <1>6. PendingArchives' \subseteq 1 .. MaxThreads
    BY <1>3, <1>5, AttemptAssumption DEF PendingArchives, Attempt, NoThread
  <1> QED
    BY <1>1, <1>2, <1>5, <1>6

LEMMA OwnWrite ==
  ASSUME AttemptInv, NEW r \in Runners, run[r].at \in Owning,
         UNCHANGED <<operation, threads, slice, handed, excluded>>,
         NEW a \in Attempt, a.thread = NoThread <=> a.archive = "not_applicable",
         attempts' = [attempts EXCEPT ![run[r].generation] = a],
         a.state # "accepted",
         a.state = "validated" => a.output \in Outputs /\ a.inventory /\ a.extraction,
         NEW x \in Run, run' = [run EXCEPT ![r] = x],
         x.at \in Owning => x.generation = run[r].generation,
         RunOK(run[r])'
  PROVE  AttemptInv'
  <1> DEFINE g == run[r].generation
  <1>1. /\ attempts' \in Seq(Attempt) /\ Len(attempts') = operation'.active
        /\ DOMAIN attempts' = DOMAIN attempts
        /\ \A h \in DOMAIN attempts' :
             attempts'[h].thread = NoThread <=> attempts'[h].archive = "not_applicable"
        /\ g \in DOMAIN attempts
        /\ \A h \in DOMAIN attempts : attempts'[h] = IF h = g THEN a ELSE attempts[h]
    BY OwnTyped
  <1>2. /\ run' \in [Runners -> Run] /\ run'[r] = x
        /\ \A q \in Runners \ {r} : run'[q] = run[q]
    BY RunTyped DEF AttemptInv
  <1>3. operation.winner # g
    <2>1. attempts[g].state # "accepted"
      BY DEF AttemptInv, RunOK, OwnsAttempt, Owning, Creating, Executing
    <2> QED
      BY <1>1, <2>1 DEF AttemptInv, AttemptsOK
  <1> HIDE DEF g
  <1>4. TypeOK'
    BY <1>1, <1>2 DEF AttemptInv, TypeOK
  <1>5. AttemptsOK'
    BY <1>1, <1>3 DEF AttemptInv, AttemptsOK
  <1>6. ResultOK'
    BY DEF AttemptInv, ResultOK
  <1>7. OthersKeep(r) /\ Succeeds(r)
    BY <1>1, <1>2 DEF OthersKeep, Succeeds, g
  <1> QED
    BY <1>4, <1>5, <1>6, <1>7, RunStep

LEMMA AbandonsStep ==
  ASSUME AttemptInv, NEW r \in Runners, run[r].at \in Owning,
         UNCHANGED <<operation, threads, slice, handed, excluded>>,
         NEW next \in {"idle", "failing"}, Abandons(r, next)
  PROVE  AttemptInv'
  <1> DEFINE g == run[r].generation
             a == [attempts[g] EXCEPT !.state = "abandoned"]
  <1>1. /\ attempts' = [attempts EXCEPT ![g] = a]
        /\ Sweeps(r, PendingArchives', next)
    BY DEF Abandons
  <1>2. TypeOK /\ g \in DOMAIN attempts
    BY DEF AttemptInv, RunOK, OwnsAttempt
  <1>3. /\ a \in Attempt /\ a.state = "abandoned"
        /\ a.thread = NoThread <=> a.archive = "not_applicable"
    <2>1. /\ attempts[g] \in Attempt
          /\ attempts[g].thread = NoThread <=> attempts[g].archive = "not_applicable"
      BY <1>2, AttemptsIndex DEF TypeOK
    <2> HIDE DEF g
    <2>2. a \in Attempt /\ a.state = "abandoned" /\ a.thread = attempts[g].thread
          /\ a.archive = attempts[g].archive
      BY <2>1 DEF Attempt, Finished
    <2> QED
      BY <2>1, <2>2
  <1> HIDE DEF a
  <1>4. PICK list \in SUBSET (1 .. MaxThreads) : list = PendingArchives'
    BY <1>1, <1>3, OwnTyped
  <1> DEFINE x == [run[r] EXCEPT !.at = "sweeping", !.todo = list, !.next = next]
  <1>5. run[r] \in Run
    BY <1>2 DEF TypeOK
  <1>6. /\ x \in Run /\ x.at = "sweeping" /\ x.next = next
    BY <1>5 DEF Run, Steps
  <1>7. run' = [run EXCEPT ![r] = x]
    BY <1>1, <1>4 DEF Sweeps
  <1> HIDE DEF x
  <1>8. run'[r] = x
    BY <1>2, <1>6, <1>7, RunTyped
  <1>9. x.at \notin Owning
    BY <1>6 DEF Owning, Creating, Executing
  <1>10. RunOK(run[r])'
    BY <1>6, <1>8, <1>9 DEF RunOK, OwnsAttempt, CarriesResult, Reconciles, Owning,
       Creating, Executing, Reconciliation, Sweeps2, AfterSweep
  <1> QED
    BY <1>1, <1>3, <1>6, <1>7, <1>9, <1>10, OwnWrite

LEMMA AbandoningActions ==
  ASSUME AttemptInv, NEW r \in Runners,
         ForkFails(r) \/ BindingFails(r) \/ TurnFails(r) \/ TurnIsInvalid(r)
  PROVE  AttemptInv'
  <1>1. /\ run[r].at \in Owning /\ UNCHANGED <<operation, threads, slice, handed, excluded>>
        /\ Abandons(r, "idle") \/ Abandons(r, "failing")
    BY DEF ForkFails, BindingFails, TurnFails, TurnIsInvalid, At, Owning, Creating, Executing
  <1> QED
    BY <1>1, AbandonsStep

-----------------------------------------------------------------------------
(* The Threads a run makes and binds.                                      *)

LEMMA NewThreadOK ==
  ASSUME AttemptInv, NEW r \in Runners, NEW step, NEW next \in Steps, NewThread(r, step, next)
  PROVE  /\ threads' \in Seq({"new", "internal", "archived"}) /\ Len(threads') <= MaxThreads
         /\ run[r].at = step
         /\ run' = [run EXCEPT ![r] = run'[r]] /\ run'[r] \in Run /\ run'[r].at = next
         /\ run'[r].generation = run[r].generation /\ run'[r].output = run[r].output
         /\ run'[r].thread # NoThread
  <1>1. /\ run[r].at = step /\ Len(threads) < MaxThreads /\ threads' = Append(threads, "new")
        /\ run' = [run EXCEPT ![r] = [run[r] EXCEPT !.at = next, !.thread = Len(threads) + 1]]
    BY DEF NewThread, At
  <1>2. run[r] \in Run /\ threads \in Seq({"new", "internal", "archived"})
    BY DEF AttemptInv, TypeOK
  <1>3. /\ threads' \in Seq({"new", "internal", "archived"}) /\ Len(threads') <= MaxThreads
        /\ Len(threads) + 1 \in 1 .. MaxThreads
    BY <1>1, <1>2, AttemptAssumption
  <1>4. PICK t \in 1 .. MaxThreads : t = Len(threads) + 1
    BY <1>3
  <1> DEFINE x == [run[r] EXCEPT !.at = next, !.thread = t]
  <1>5. t \in 0 .. MaxThreads /\ t # NoThread
    BY <1>4, AttemptAssumption DEF NoThread
  <1>6. /\ x \in Run /\ x.at = next /\ x.generation = run[r].generation
        /\ x.output = run[r].output /\ x.thread = t
    BY <1>2, <1>5 DEF Run
  <1>7. run' = [run EXCEPT ![r] = x]
    BY <1>1, <1>4
  <1> HIDE DEF x
  <1>8. run'[r] = x
    BY <1>6, <1>7, RunTyped DEF AttemptInv
  <1> QED
    BY <1>1, <1>2, <1>3, <1>5, <1>6, <1>7, <1>8

LEMMA BindOK ==
  ASSUME AttemptInv, NEW r \in Runners, NEW step, NEW next \in Steps,
         BindInternalThread(r, step, next)
  PROVE  /\ threads' \in Seq({"new", "internal", "archived"}) /\ Len(threads') <= MaxThreads
         /\ run[r].at = step
         /\ run' = [run EXCEPT ![r] = run'[r]] /\ run'[r] \in Run /\ run'[r].at = next
         /\ run'[r].generation = run[r].generation /\ run'[r].output = run[r].output
         /\ run'[r].thread = run[r].thread
  <1>1. /\ run[r].at = step
        /\ threads' = [threads EXCEPT ![run[r].thread] = "internal"]
        /\ run' = [run EXCEPT ![r].at = next]
    BY DEF BindInternalThread, At, Goes
  <1>2. run[r] \in Run /\ TypeOK
    BY DEF AttemptInv, TypeOK
  <1>3. threads' \in Seq({"new", "internal", "archived"}) /\ Len(threads') <= MaxThreads
    BY <1>1, <1>2, ThreadsSet
  <1> DEFINE x == [run[r] EXCEPT !.at = next]
  <1>4. /\ x \in Run /\ x.at = next /\ x.generation = run[r].generation
        /\ x.output = run[r].output /\ x.thread = run[r].thread
    BY <1>2 DEF Run
  <1>5. run' = [run EXCEPT ![r] = x]
    BY <1>1
  <1> HIDE DEF x
  <1>6. run'[r] = x
    BY <1>4, <1>5, RunTyped DEF AttemptInv
  <1> QED
    BY <1>1, <1>3, <1>4, <1>5, <1>6

LEMMA ThreadActions ==
  ASSUME AttemptInv, NEW r \in Runners,
         \/ ForkThread(r) \/ BindCaptureThread(r)
         \/ StartThread(r) \/ BindReconciliationThread(r)
  PROVE  AttemptInv'
  <1>1. /\ UNCHANGED <<operation, attempts, slice, handed, excluded>> /\ RunOK(run[r])
        /\ "attaching" \in Steps /\ "inventory" \in Steps
        /\ "binding reconciliation" \in Steps /\ "deciding" \in Steps
    BY DEF AttemptInv, ForkThread, BindCaptureThread, StartThread, BindReconciliationThread, Steps
  <1>2. CASE ForkThread(r)
    <2>1. NewThread(r, "forking", "attaching")
      BY <1>2 DEF ForkThread
    <2>2. /\ threads' \in Seq({"new", "internal", "archived"}) /\ Len(threads') <= MaxThreads
          /\ run[r].at = "forking"
      BY <1>1, <2>1, NewThreadOK
    <2>3. /\ run' = [run EXCEPT ![r] = run'[r]] /\ run'[r] \in Run /\ run'[r].at = "attaching"
          /\ run'[r].generation = run[r].generation /\ run'[r].output = run[r].output
          /\ run'[r].thread # NoThread
      BY <1>1, <2>1, NewThreadOK
    <2>4. RunOK(run'[r])
      BY <1>1, <2>2, <2>3 DEF RunOK, OwnsAttempt, CarriesResult, Reconciles, Reconciliation,
         Sweeps2, Owning, Creating, Executing
    <2>5. run[r].at \in Owning
      BY <2>2 DEF Owning, Creating
    <2> QED
      BY <1>1, <2>2, <2>3, <2>4, <2>5, RunOnly
  <1>3. CASE BindCaptureThread(r)
    <2>1. BindInternalThread(r, "binding", "inventory")
      BY <1>3 DEF BindCaptureThread
    <2>2. /\ threads' \in Seq({"new", "internal", "archived"}) /\ Len(threads') <= MaxThreads
          /\ run[r].at = "binding"
      BY <1>1, <2>1, BindOK
    <2>3. /\ run' = [run EXCEPT ![r] = run'[r]] /\ run'[r] \in Run /\ run'[r].at = "inventory"
          /\ run'[r].generation = run[r].generation /\ run'[r].output = run[r].output
          /\ run'[r].thread = run[r].thread
      BY <1>1, <2>1, BindOK
    <2>4. RunOK(run'[r])
      BY <1>1, <2>2, <2>3 DEF RunOK, OwnsAttempt, CarriesResult, Reconciles, Reconciliation,
         Sweeps2, Owning, Creating, Executing
    <2>5. run[r].at \in Owning
      BY <2>2 DEF Owning, Executing
    <2> QED
      BY <1>1, <2>2, <2>3, <2>4, <2>5, RunOnly
  <1>4. CASE StartThread(r)
    <2>1. NewThread(r, "starting", "binding reconciliation")
      BY <1>4 DEF StartThread
    <2>2. /\ threads' \in Seq({"new", "internal", "archived"}) /\ Len(threads') <= MaxThreads
          /\ run[r].at = "starting"
      BY <1>1, <2>1, NewThreadOK
    <2>3. /\ run' = [run EXCEPT ![r] = run'[r]] /\ run'[r] \in Run /\ run'[r].at = "binding reconciliation"
          /\ run'[r].generation = run[r].generation /\ run'[r].output = run[r].output
          /\ run'[r].thread # NoThread
      BY <1>1, <2>1, NewThreadOK
    <2>4. Reconciles(run[r]) /\ run'[r].at \in Reconciliation
      BY <2>2, <2>3 DEF Reconciles, Reconciliation
    <2>5. RunOK(run'[r]) /\ run'[r].at \notin Owning
      BY <1>1, <2>3, <2>4, StillReconciles
    <2> QED
      BY <1>1, <2>2, <2>3, <2>5, RunOnly
  <1>5. CASE BindReconciliationThread(r)
    <2>1. BindInternalThread(r, "binding reconciliation", "deciding")
      BY <1>5 DEF BindReconciliationThread
    <2>2. /\ threads' \in Seq({"new", "internal", "archived"}) /\ Len(threads') <= MaxThreads
          /\ run[r].at = "binding reconciliation"
      BY <1>1, <2>1, BindOK
    <2>3. /\ run' = [run EXCEPT ![r] = run'[r]] /\ run'[r] \in Run /\ run'[r].at = "deciding"
          /\ run'[r].generation = run[r].generation /\ run'[r].output = run[r].output
          /\ run'[r].thread = run[r].thread
      BY <1>1, <2>1, BindOK
    <2>4. Reconciles(run[r]) /\ run'[r].at \in Reconciliation /\ run'[r].thread # NoThread
      BY <1>1, <2>2, <2>3 DEF Reconciles, Reconciliation, RunOK
    <2>5. RunOK(run'[r]) /\ run'[r].at \notin Owning
      BY <1>1, <2>3, <2>4, StillReconciles
    <2> QED
      BY <1>1, <2>2, <2>3, <2>5, RunOnly
  <1> QED
    BY <1>2, <1>3, <1>4, <1>5

LEMMA ReconciliationFailsStep ==
  ASSUME AttemptInv, NEW r \in Runners, ReconciliationFails(r)
  PROVE  AttemptInv'
  <1>1. /\ threads' \in {threads, [threads EXCEPT ![run[r].thread] = "archived"]}
        /\ Ends(r) /\ TypeOK
        /\ UNCHANGED <<operation, attempts, slice, handed, excluded>>
    BY DEF ReconciliationFails, AttemptInv
  <1>2. threads' \in Seq({"new", "internal", "archived"}) /\ Len(threads') <= MaxThreads
    BY <1>1, ThreadsSet, ThreadsRest
  <1> QED
    BY <1>1, <1>2, EndStep

-----------------------------------------------------------------------------
(* The attempt goes through its Turns.                                     *)

LEMMA MovesOn ==
  ASSUME AttemptInv, NEW r \in Runners, NEW step \in Steps, Goes(r, step)
  PROVE  /\ run' = [run EXCEPT ![r] = run'[r]] /\ run'[r] \in Run /\ run'[r].at = step
         /\ run'[r].generation = run[r].generation /\ run'[r].output = run[r].output
  <1> DEFINE x == [run[r] EXCEPT !.at = step]
  <1>1. run[r] \in Run
    BY DEF AttemptInv, TypeOK
  <1>2. /\ x \in Run /\ x.at = step /\ x.generation = run[r].generation
        /\ x.output = run[r].output
    BY <1>1 DEF Run
  <1>3. run' = [run EXCEPT ![r] = x]
    BY DEF Goes
  <1> HIDE DEF x
  <1>4. run'[r] = x
    BY <1>2, <1>3, RunTyped DEF AttemptInv
  <1> QED
    BY <1>2, <1>3, <1>4

LEMMA OwnAttempt ==
  ASSUME AttemptInv, NEW r \in Runners, run[r].at \in Owning \cup {"committing"}
  PROVE  /\ run[r].generation \in DOMAIN attempts
         /\ attempts[run[r].generation] \in Attempt
         /\ attempts[run[r].generation].thread = NoThread
              <=> attempts[run[r].generation].archive = "not_applicable"
         /\ OwnsAttempt(run[r])
  <1>1. TypeOK /\ OwnsAttempt(run[r])
    BY DEF AttemptInv, RunOK
  <1>2. run[r].generation \in DOMAIN attempts
    BY <1>1 DEF OwnsAttempt
  <1> QED
    BY <1>1, <1>2, AttemptsIndex DEF TypeOK

LEMMA AttachThreadStep ==
  ASSUME AttemptInv, NEW r \in Runners, AttachThread(r)
  PROVE  AttemptInv'
  <1> DEFINE g == run[r].generation
             a == [attempts[g] EXCEPT !.thread = run[r].thread, !.state = "running",
                                      !.archive = "pending"]
  <1>1. /\ run[r].at = "attaching" /\ Goes(r, "binding")
        /\ attempts' = [attempts EXCEPT ![g] = a]
        /\ UNCHANGED <<operation, threads, slice, handed, excluded>>
    BY DEF AttachThread, At
  <1>2. /\ run[r].at \in Owning /\ "binding" \in Steps
        /\ run[r].thread # NoThread /\ run[r].thread \in 0 .. MaxThreads
    BY <1>1 DEF AttemptInv, RunOK, Owning, Creating, Steps, TypeOK, Run
  <1>3. /\ run' = [run EXCEPT ![r] = run'[r]] /\ run'[r] \in Run /\ run'[r].at = "binding"
        /\ run'[r].generation = g /\ run'[r].output = run[r].output
    BY <1>1, <1>2, MovesOn
  <1>4. attempts[g] \in Attempt
    BY <1>2, OwnAttempt
  <1> HIDE DEF g
  <1>5. /\ a \in Attempt /\ a.state = "running"
        /\ a.thread # NoThread /\ a.archive = "pending"
    BY <1>2, <1>4 DEF Attempt
  <1> HIDE DEF a
  <1> USE DEF g
  <1>6. g \in DOMAIN attempts' /\ attempts'[g] = a
    BY <1>1, <1>2, <1>5, OwnTyped
  <1>7. RunOK(run[r])'
    BY <1>3, <1>5, <1>6 DEF RunOK, OwnsAttempt, CarriesResult, Reconciles, Owning,
       Creating, Executing, Reconciliation, Sweeps2
  <1> QED
    BY <1>1, <1>2, <1>3, <1>5, <1>7, OwnWrite

LEMMA InventoryStep ==
  ASSUME AttemptInv, NEW r \in Runners, InventoryIsValid(r)
  PROVE  AttemptInv'
  <1> DEFINE g == run[r].generation
             a == [attempts[g] EXCEPT !.inventory = TRUE]
  <1>1. /\ run[r].at = "inventory" /\ Goes(r, "extraction")
        /\ attempts[g].state = "running"
        /\ attempts' = [attempts EXCEPT ![g] = a]
        /\ UNCHANGED <<operation, threads, slice, handed, excluded>>
    BY DEF InventoryIsValid, AttachTurn, At
  <1>2. run[r].at \in Owning /\ "extraction" \in Steps
    BY <1>1 DEF Owning, Executing, Steps
  <1>3. /\ run' = [run EXCEPT ![r] = run'[r]] /\ run'[r] \in Run /\ run'[r].at = "extraction"
        /\ run'[r].generation = g /\ run'[r].output = run[r].output
    BY <1>1, <1>2, MovesOn
  <1>4. /\ attempts[g] \in Attempt
        /\ attempts[g].thread = NoThread <=> attempts[g].archive = "not_applicable"
    BY <1>2, OwnAttempt
  <1> HIDE DEF g
  <1>5. /\ a \in Attempt /\ a.state = "running" /\ a.inventory
        /\ a.thread = attempts[g].thread /\ a.archive = attempts[g].archive
    BY <1>1, <1>4 DEF Attempt
  <1>6. a.thread = NoThread <=> a.archive = "not_applicable"
    BY <1>4, <1>5
  <1> HIDE DEF a
  <1> USE DEF g
  <1>7. g \in DOMAIN attempts' /\ attempts'[g] = a
    BY <1>1, <1>2, <1>5, <1>6, OwnTyped
  <1>8. RunOK(run[r])'
    BY <1>3, <1>5, <1>7 DEF RunOK, OwnsAttempt, CarriesResult, Reconciles, Owning,
       Creating, Executing, Reconciliation, Sweeps2
  <1> QED
    BY <1>1, <1>2, <1>3, <1>5, <1>6, <1>8, OwnWrite

LEMMA ExtractionStep ==
  ASSUME AttemptInv, NEW r \in Runners, ExtractionIsValid(r)
  PROVE  AttemptInv'
  <1> DEFINE g == run[r].generation
             a == [attempts[g] EXCEPT !.extraction = TRUE]
  <1>1. PICK output \in Outputs :
          /\ run[r].at = "extraction"
          /\ run' = [run EXCEPT ![r] = [run[r] EXCEPT !.at = "storing", !.output = output]]
    BY DEF ExtractionIsValid, At
  <1>2. /\ attempts[g].state = "running"
        /\ attempts' = [attempts EXCEPT ![g] = a]
        /\ UNCHANGED <<operation, threads, slice, handed, excluded>>
    BY <1>1 DEF ExtractionIsValid, AttachTurn, At
  <1> DEFINE x == [run[r] EXCEPT !.at = "storing", !.output = output]
  <1>3. /\ run[r].at \in Owning /\ run[r] \in Run /\ attempts[g].inventory
    BY <1>1, OwnAttempt DEF Owning, Executing, AttemptInv, TypeOK, OwnsAttempt
  <1>4. x \in Run /\ x.at = "storing" /\ x.output = output /\ x.generation = g
    BY <1>3 DEF Run, Steps
  <1>5. run' = [run EXCEPT ![r] = x]
    BY <1>1
  <1> HIDE DEF x
  <1>6. run'[r] = x
    BY <1>4, <1>5, RunTyped DEF AttemptInv
  <1>7. /\ attempts[g] \in Attempt
        /\ attempts[g].thread = NoThread <=> attempts[g].archive = "not_applicable"
    BY <1>3, OwnAttempt
  <1> HIDE DEF g
  <1>8. /\ a \in Attempt /\ a.state = "running" /\ a.extraction /\ a.inventory = attempts[g].inventory
        /\ a.thread = attempts[g].thread /\ a.archive = attempts[g].archive
    BY <1>2, <1>7 DEF Attempt
  <1>9. a.thread = NoThread <=> a.archive = "not_applicable"
    BY <1>7, <1>8
  <1> HIDE DEF a
  <1> USE DEF g
  <1>10. g \in DOMAIN attempts' /\ attempts'[g] = a
    BY <1>2, <1>3, <1>8, <1>9, OwnTyped
  <1>11. RunOK(run[r])'
    BY <1>3, <1>4, <1>6, <1>8, <1>10 DEF RunOK, OwnsAttempt, CarriesResult, Reconciles, Owning,
       Creating, Executing, Reconciliation, Sweeps2
  <1> QED
    BY <1>2, <1>3, <1>4, <1>5, <1>8, <1>9, <1>11, OwnWrite

LEMMA StoreValidatedStep ==
  ASSUME AttemptInv, NEW r \in Runners, StoreValidatedAttempt(r)
  PROVE  AttemptInv'
  <1> DEFINE g == run[r].generation
             a == [attempts[g] EXCEPT !.output = run[r].output, !.state = "validated"]
  <1>1. /\ run[r].at = "storing" /\ Goes(r, "committing")
        /\ UNCHANGED <<operation, threads, slice, handed, excluded>>
    BY DEF StoreValidatedAttempt, At
  <1>2. run[r].at \in Owning /\ "committing" \in Steps
    BY <1>1 DEF Owning, Executing, Steps
  <1>3. /\ g \in DOMAIN attempts /\ attempts[g] \in Attempt
        /\ attempts[g].thread = NoThread <=> attempts[g].archive = "not_applicable"
        /\ attempts[g].state = "running" /\ attempts[g].inventory /\ attempts[g].extraction
        /\ run[r].output \in Outputs
    BY <1>1, <1>2, OwnAttempt DEF OwnsAttempt, Executing
  <1>4. attempts' = [attempts EXCEPT ![g] = a]
    BY <1>3 DEF StoreValidatedAttempt, Finished, AttemptInv, TypeOK
  <1>5. /\ run' = [run EXCEPT ![r] = run'[r]] /\ run'[r] \in Run /\ run'[r].at = "committing"
        /\ run'[r].generation = g /\ run'[r].output = run[r].output
    BY <1>1, <1>2, MovesOn
  <1> HIDE DEF g
  <1>6. /\ a \in Attempt /\ a.state = "validated" /\ a.inventory /\ a.extraction
        /\ a.output = run[r].output
        /\ a.thread = attempts[g].thread /\ a.archive = attempts[g].archive
    BY <1>3 DEF Attempt
  <1>7. a.thread = NoThread <=> a.archive = "not_applicable"
    BY <1>3, <1>6
  <1> HIDE DEF a
  <1> USE DEF g
  <1>8. g \in DOMAIN attempts' /\ attempts'[g] = a
    BY <1>1, <1>2, <1>4, <1>6, <1>7, OwnTyped
  <1>9. RunOK(run[r])'
    BY <1>5, <1>6, <1>8 DEF RunOK, OwnsAttempt, CarriesResult, Reconciles, Owning,
       Creating, Executing, Reconciliation, Sweeps2
  <1>10. run'[r].at \notin Owning
    BY <1>5 DEF Owning, Creating, Executing
  <1> QED
    BY <1>1, <1>2, <1>3, <1>4, <1>5, <1>6, <1>7, <1>9, <1>10, OwnWrite

-----------------------------------------------------------------------------
(* The first and the last transaction of an attempt.                       *)

LEMMA BeginAttemptStep ==
  ASSUME AttemptInv, NEW r \in Runners, BeginAttempt(r)
  PROVE  AttemptInv'
  <1>1. TypeOK /\ UNCHANGED <<threads, slice, handed, excluded>>
    BY DEF AttemptInv, BeginAttempt
  <1>2. CASE operation.status # "open"
    <2>1. UNCHANGED <<operation, attempts>> /\ Ends(r)
      BY <1>2 DEF BeginAttempt
    <2> QED
      BY <1>1, <2>1, EndStep, ThreadsRest
  <1>3. CASE operation.status = "open"
    <2> DEFINE n == operation.active + 1
    <2>1. /\ operation.active < MaxGenerations
          /\ operation' = [operation EXCEPT !.active = n]
          /\ attempts' = Append(attempts, NewAttempt)
          /\ run' = [run EXCEPT ![r] = [run[r] EXCEPT !.at = "forking", !.generation = n]]
      BY <1>3 DEF BeginAttempt
    <2>2. /\ attempts \in Seq(Attempt) /\ Len(attempts) = operation.active
          /\ operation.active \in 0 .. MaxGenerations
          /\ operation.winner = 0 /\ run[r] \in Run
          /\ NewAttempt \in Attempt
      BY <1>1, <1>3, AttemptAssumption DEF TypeOK, NewAttempt, Attempt, NoThread
    <2>3. n \in 1 .. MaxGenerations /\ n \in 0 .. MaxGenerations /\ n \notin DOMAIN attempts
      BY <2>1, <2>2, AttemptAssumption
    <2> DEFINE x == [run[r] EXCEPT !.at = "forking", !.generation = n]
    <2> HIDE DEF n
    <2>4. x \in Run /\ x.at = "forking" /\ x.generation = n
      BY <2>2, <2>3 DEF Run, Steps
    <2>5. run' = [run EXCEPT ![r] = x]
      BY <2>1
    <2> HIDE DEF x
    <2>6. /\ run' \in [Runners -> Run] /\ run'[r] = x
          /\ \A q \in Runners \ {r} : run'[q] = run[q]
      BY <1>1, <2>4, <2>5, RunTyped
    <2>7. /\ attempts' \in Seq(Attempt) /\ Len(attempts') = n
          /\ DOMAIN attempts' = DOMAIN attempts \cup {n}
          /\ attempts'[n] = NewAttempt
          /\ \A g \in DOMAIN attempts : attempts'[g] = attempts[g]
      BY <2>1, <2>2 DEF n
    <2>8. /\ operation' \in [status : {"absent", "open", "committed", "failed_terminal"},
                             active : 0 .. MaxGenerations, winner : 0 .. MaxGenerations,
                             output : Outputs \cup {NoOutput}]
          /\ operation'.status = operation.status /\ operation'.active = n
          /\ operation'.winner = operation.winner /\ operation'.output = operation.output
      BY <1>1, <2>1, <2>3 DEF TypeOK
    <2>9. TypeOK'
      <3>1. \A g \in DOMAIN attempts' :
              attempts'[g].thread = NoThread <=> attempts'[g].archive = "not_applicable"
        BY <1>1, <2>7 DEF TypeOK, NewAttempt
      <3> QED
        BY <1>1, <2>6, <2>7, <2>8, <3>1 DEF TypeOK
    <2>10. AttemptsOK'
      <3>1. n # 0 /\ operation'.winner \in 0 .. operation'.active
        BY <2>2, <2>3, <2>8
      <3> QED
        BY <2>2, <2>7, <2>8, <3>1 DEF AttemptInv, AttemptsOK, NewAttempt
    <2>11. ResultOK'
      BY <1>1, <2>8 DEF AttemptInv, ResultOK
    <2>12. OthersKeep(r) /\ Succeeds(r)
      BY <1>1, <2>3, <2>4, <2>6, <2>7, <2>8 DEF OthersKeep, Succeeds
    <2>13. RunOK(run[r])'
      <3>1. attempts'[n].state = "creating_thread" /\ n \in DOMAIN attempts'
        BY <2>7 DEF NewAttempt
      <3>2. run'[r].at = "forking" /\ run'[r].generation = n
        BY <2>4, <2>6
      <3> QED
        BY <3>1, <3>2 DEF RunOK, OwnsAttempt, CarriesResult, Reconciles, Owning,
           Creating, Executing, Reconciliation, Sweeps2
    <2> QED
      BY <2>9, <2>10, <2>11, <2>12, <2>13, RunStep
  <1> QED
    BY <1>2, <1>3

(* What commit_attempt does to the attempt and to the operation.           *)
LEMMA CommitFacts ==
  ASSUME AttemptInv, NEW r \in Runners, CommitAttempt(r)
  PROVE  LET g == run[r].generation IN
         /\ run[r].at = "committing" /\ g \in DOMAIN attempts
         /\ DOMAIN attempts' = DOMAIN attempts
         /\ attempts[g].state \in {"validated", "accepted", "superseded"}
         /\ \A h \in DOMAIN attempts :
              /\ attempts'[h] \in Attempt
              /\ attempts'[h].thread = attempts[h].thread
              /\ attempts'[h].archive = attempts[h].archive
              /\ attempts'[h].output = attempts[h].output
              /\ attempts'[h].inventory = attempts[h].inventory
              /\ attempts'[h].extraction = attempts[h].extraction
              /\ attempts'[h].state =
                   IF h # g THEN attempts[h].state
                   ELSE IF operation.winner = g \/ CanWin(g) THEN "accepted" ELSE "superseded"
         /\ attempts' = [h \in DOMAIN attempts |-> attempts'[h]]
         /\ IF CanWin(g)
            THEN /\ operation'.status = "committed" /\ operation'.winner = g
                 /\ operation'.output = attempts[g].output
                 /\ operation'.active = operation.active
            ELSE operation' = operation
         /\ operation' \in [status : {"absent", "open", "committed", "failed_terminal"},
                            active : 0 .. MaxGenerations, winner : 0 .. MaxGenerations,
                            output : Outputs \cup {NoOutput}]
         /\ UNCHANGED <<threads, slice, excluded>>
  <1> DEFINE g == run[r].generation
             state == IF operation.winner = g \/ CanWin(g) THEN "accepted" ELSE "superseded"
  <1>1. /\ run[r].at = "committing"
        /\ attempts' = [attempts EXCEPT ![g].state = state]
        /\ operation' = IF CanWin(g)
                        THEN [operation EXCEPT !.status = "committed", !.winner = g,
                                               !.output = attempts[g].output]
                        ELSE operation
        /\ UNCHANGED <<threads, slice, excluded>>
    BY DEF CommitAttempt, At
  <1>2. /\ g \in DOMAIN attempts
        /\ attempts[g].state \in {"validated", "accepted", "superseded"}
    BY <1>1, OwnAttempt DEF OwnsAttempt
  <1>3. /\ DOMAIN attempts = 1 .. operation.active /\ operation.active \in 0 .. MaxGenerations
        /\ \A h \in DOMAIN attempts : attempts[h] \in Attempt
        /\ TypeOK
    BY AttemptsIndex DEF AttemptInv
  <1> DEFINE a == [attempts[g] EXCEPT !.state = state]
  <1>4. state \in {"accepted", "superseded"}
    OBVIOUS
  <1>5. attempts' = [attempts EXCEPT ![g] = a]
    BY <1>1
  <1>6. attempts[g] \in Attempt
    BY <1>2, <1>3
  <1> HIDE DEF g, state
  <1>7. /\ a \in Attempt /\ a.state = state
        /\ a.thread = attempts[g].thread /\ a.archive = attempts[g].archive
        /\ a.output = attempts[g].output /\ a.inventory = attempts[g].inventory
        /\ a.extraction = attempts[g].extraction
    BY <1>4, <1>6 DEF Attempt, Finished
  <1> HIDE DEF a
  <1>8. /\ DOMAIN attempts' = DOMAIN attempts
        /\ attempts' = [h \in DOMAIN attempts |-> attempts'[h]]
        /\ \A h \in DOMAIN attempts : attempts'[h] = IF h = g THEN a ELSE attempts[h]
    BY <1>5
  <1>9. /\ g \in 0 .. MaxGenerations
        /\ CanWin(g) => attempts[g].output \in Outputs /\ attempts[g].output # NoOutput
    BY <1>2, <1>3, AttemptAssumption DEF AttemptInv, AttemptsOK, CanWin
  <1>10. /\ operation' \in [status : {"absent", "open", "committed", "failed_terminal"},
                            active : 0 .. MaxGenerations, winner : 0 .. MaxGenerations,
                            output : Outputs \cup {NoOutput}]
         /\ IF CanWin(g)
            THEN /\ operation'.status = "committed" /\ operation'.winner = g
                 /\ operation'.output = attempts[g].output
                 /\ operation'.active = operation.active
            ELSE operation' = operation
    BY <1>1, <1>3, <1>9 DEF TypeOK
  <1> QED
    BY <1>1, <1>2, <1>3, <1>7, <1>8, <1>10 DEF g, state

LEMMA CommitAttemptStep ==
  ASSUME AttemptInv, NEW r \in Runners, CommitAttempt(r)
  PROVE  AttemptInv'
  <1> DEFINE g == run[r].generation
  <1>1. /\ run[r].at = "committing" /\ g \in DOMAIN attempts
        /\ DOMAIN attempts' = DOMAIN attempts
        /\ attempts[g].state \in {"validated", "accepted", "superseded"}
        /\ \A h \in DOMAIN attempts :
             /\ attempts'[h] \in Attempt
             /\ attempts'[h].thread = attempts[h].thread
             /\ attempts'[h].archive = attempts[h].archive
             /\ attempts'[h].output = attempts[h].output
             /\ attempts'[h].inventory = attempts[h].inventory
             /\ attempts'[h].extraction = attempts[h].extraction
             /\ attempts'[h].state =
                  IF h # g THEN attempts[h].state
                  ELSE IF operation.winner = g \/ CanWin(g) THEN "accepted" ELSE "superseded"
        /\ attempts' = [h \in DOMAIN attempts |-> attempts'[h]]
        /\ IF CanWin(g)
           THEN /\ operation'.status = "committed" /\ operation'.winner = g
                /\ operation'.output = attempts[g].output
                /\ operation'.active = operation.active
           ELSE operation' = operation
        /\ operation' \in [status : {"absent", "open", "committed", "failed_terminal"},
                           active : 0 .. MaxGenerations, winner : 0 .. MaxGenerations,
                           output : Outputs \cup {NoOutput}]
        /\ UNCHANGED <<threads, slice, excluded>>
    BY CommitFacts
  <1>2. /\ IF operation'.status = "committed"
           THEN /\ handed' = handed \cup {operation'.output}
                /\ Carry(r, operation'.output, PendingArchives')
           ELSE Sweeps(r, PendingArchives', "idle") /\ UNCHANGED handed
    BY DEF CommitAttempt, HandsOver
  <1>3. /\ TypeOK
        /\ DOMAIN attempts = 1 .. operation.active /\ operation.active \in 0 .. MaxGenerations
    BY AttemptsIndex DEF AttemptInv
  <1> HIDE DEF g
  <1>4. operation'.active = operation.active
    BY <1>1
  <1>5. \A h \in DOMAIN attempts :
          attempts'[h].thread = NoThread <=> attempts'[h].archive = "not_applicable"
    BY <1>1, <1>3 DEF TypeOK
  <1>6. /\ attempts' \in Seq(Attempt) /\ Len(attempts') = operation'.active
        /\ \A h \in DOMAIN attempts' :
             attempts'[h].thread = NoThread <=> attempts'[h].archive = "not_applicable"
    BY <1>1, <1>3, <1>4, <1>5, AttemptsTyped
  <1>7. CanWin(g) => operation.status = "open" /\ operation.winner = 0
                     /\ attempts[g].output \in Outputs /\ attempts[g].output # NoOutput
    BY <1>1, <1>3, AttemptAssumption DEF AttemptInv, AttemptsOK, CanWin, TypeOK
  <1>8. g # 0
    BY <1>1, <1>3
  <1>9. /\ operation'.status = "committed" <=> operation'.winner # 0
        /\ operation'.status = "committed" <=> operation'.output # NoOutput
    BY <1>1, <1>3, <1>7, <1>8 DEF TypeOK
  <1>10. PICK list \in SUBSET (1 .. MaxThreads) : list = PendingArchives'
    <2>1. PendingArchives' \subseteq 1 .. MaxThreads
      BY <1>1, <1>5, AttemptAssumption DEF PendingArchives, Attempt, NoThread
    <2> QED
      BY <2>1
  <1>11. /\ run' = [run EXCEPT ![r] = run'[r]] /\ run'[r] \in Run /\ run'[r].at = "sweeping"
         /\ \/ run'[r].next = "idle"
            \/ /\ run'[r].next = "reconciling" /\ operation'.status = "committed"
               /\ run'[r].output = operation'.output
    <2>1. CASE operation'.status = "committed"
      <3> DEFINE x == [Idle EXCEPT !.at = "sweeping", !.output = operation'.output,
                                   !.todo = list, !.next = "reconciling"]
      <3>1. PICK output \in Outputs : output = operation'.output
        BY <1>1, <1>9, <2>1
      <3>2. /\ x \in Run /\ x.at = "sweeping" /\ x.next = "reconciling"
            /\ x.output = operation'.output
        BY <1>3, <3>1, CarryOK
      <3>3. run' = [run EXCEPT ![r] = x]
        BY <1>2, <1>10, <2>1 DEF Carry
      <3> HIDE DEF x
      <3>4. run'[r] = x
        BY <1>3, <3>2, <3>3, RunTyped
      <3> QED
        BY <2>1, <3>2, <3>3, <3>4
    <2>2. CASE operation'.status # "committed"
      <3> DEFINE x == [run[r] EXCEPT !.at = "sweeping", !.todo = list, !.next = "idle"]
      <3>1. run[r] \in Run
        BY <1>3 DEF TypeOK
      <3>2. x \in Run /\ x.at = "sweeping" /\ x.next = "idle"
        BY <3>1 DEF Run, Steps
      <3>3. run' = [run EXCEPT ![r] = x]
        BY <1>2, <1>10, <2>2 DEF Sweeps
      <3> HIDE DEF x
      <3>4. run'[r] = x
        BY <1>3, <3>2, <3>3, RunTyped
      <3> QED
        BY <3>2, <3>3, <3>4
    <2> QED
      BY <2>1, <2>2
  <1>12. run' \in [Runners -> Run] /\ \A q \in Runners \ {r} : run'[q] = run[q]
    BY <1>3, <1>11, RunTyped
  <1>13. handed' \subseteq Outputs
    BY <1>1, <1>2, <1>3, <1>9 DEF TypeOK
  <1>14. TypeOK'
    BY <1>1, <1>3, <1>6, <1>9, <1>12, <1>13 DEF TypeOK
  <1>15. AttemptsOK'
    <2>1. operation'.winner \in 0 .. operation'.active
      BY <1>1, <1>3, <1>4 DEF AttemptInv, AttemptsOK
    <2>2. ASSUME NEW h \in DOMAIN attempts
          PROVE  /\ attempts'[h].state = "accepted" <=> operation'.winner = h
                 /\ attempts'[h].state \in {"validated", "accepted"} =>
                      /\ attempts'[h].output \in Outputs
                      /\ attempts'[h].inventory /\ attempts'[h].extraction
                 /\ operation'.winner = h => attempts'[h].output = operation'.output
      <3>1. /\ attempts[h].state = "accepted" <=> operation.winner = h
            /\ attempts[h].state \in {"validated", "accepted"} =>
                 attempts[h].output \in Outputs /\ attempts[h].inventory /\ attempts[h].extraction
            /\ operation.winner = h => attempts[h].output = operation.output
            /\ h # 0
        BY <1>3 DEF AttemptInv, AttemptsOK
      <3>2. CASE CanWin(g)
        BY <1>1, <1>7, <3>1, <3>2 DEF CanWin
      <3>3. CASE ~CanWin(g)
        BY <1>1, <3>1, <3>3
      <3> QED
        BY <3>2, <3>3
    <2> QED
      BY <1>1, <2>1, <2>2 DEF AttemptsOK
  <1>16. operation.status = "committed" =>
           operation'.status = "committed" /\ operation'.output = operation.output
    BY <1>1, <1>7
  <1>17. ResultOK'
    BY <1>1, <1>2, <1>16 DEF AttemptInv, ResultOK
  <1>18. OthersKeep(r) /\ Succeeds(r)
    BY <1>1, <1>11, <1>12, <1>16 DEF OthersKeep, Succeeds, Owning, Creating, Executing
  <1>19. RunOK(run[r])'
    BY <1>11 DEF RunOK, OwnsAttempt, CarriesResult, Reconciles, Owning,
       Creating, Executing, Reconciliation, Sweeps2, AfterSweep
  <1> QED
    BY <1>14, <1>15, <1>17, <1>18, <1>19, RunStep

-----------------------------------------------------------------------------
(* The reconciliation is stored once: from the committed output, or empty   *)
(* for an excluded source.                                                  *)

(* What a stored result is, whoever stores it.                             *)
LEMMA StoresOK ==
  ASSUME AttemptInv, NEW result \in Decisions \cup {Empty}, NEW from, NEW thread \in 0 .. MaxThreads,
         \/ operation.status = "committed" /\ from = operation.output
         \/ excluded /\ result = Empty /\ from = NoOutput /\ thread = NoThread,
         StoresSlice(result, from, thread), UNCHANGED <<operation, handed, excluded>>
  PROVE  /\ slice' \in [result : Decisions \cup {Empty, NoOutput}, from : Outputs \cup {NoOutput},
                        thread : 0 .. MaxThreads, archive : {"none", "pending", "archived"}]
         /\ ResultOK'
  <1>1. TypeOK /\ from \in Outputs \cup {NoOutput}
    BY DEF AttemptInv, TypeOK
  <1>2. CASE slice.result # NoOutput
    <2>1. slice' = slice
      BY <1>2 DEF StoresSlice
    <2> QED
      BY <1>1, <2>1 DEF AttemptInv, TypeOK, ResultOK
  <1>3. CASE slice.result = NoOutput
    <2>1. slice' = [result |-> result, from |-> from, thread |-> thread,
                    archive |-> IF thread = NoThread THEN "none" ELSE "pending"]
      BY <1>3 DEF StoresSlice
    <2>2. /\ slice' \in [result : Decisions \cup {Empty, NoOutput}, from : Outputs \cup {NoOutput},
                         thread : 0 .. MaxThreads, archive : {"none", "pending", "archived"}]
          /\ slice'.from = from
          /\ slice'.archive = "pending" => slice'.thread # NoThread
          /\ result = Empty /\ from = NoOutput /\ thread = NoThread => slice' = EmptySlice
      BY <1>1, <2>1 DEF EmptySlice
    <2> QED
      BY <2>2 DEF AttemptInv, ResultOK
  <1> QED
    BY <1>2, <1>3

LEMMA ReconcileStep ==
  ASSUME AttemptInv, NEW r \in Runners, Reconcile(r)
  PROVE  AttemptInv'
  <1>1. /\ run[r].at = "persisted?" /\ TypeOK
        /\ UNCHANGED <<operation, attempts, threads, slice, handed, excluded>>
    BY DEF Reconcile, At, AttemptInv
  <1>3. threads' \in Seq({"new", "internal", "archived"}) /\ Len(threads') <= MaxThreads
    BY <1>1, ThreadsRest
  <1>4. CASE Ends(r)
    BY <1>1, <1>3, <1>4, EndStep
  <1>5. CASE Goes(r, "starting")
    <2>1. "starting" \in Steps
      BY DEF Steps
    <2>2. /\ run' = [run EXCEPT ![r] = run'[r]] /\ run'[r] \in Run /\ run'[r].at = "starting"
          /\ run'[r].output = run[r].output
      BY <1>5, <2>1, MovesOn
    <2>3. RunOK(run[r]) /\ Reconciles(run[r]) /\ run'[r].at \in Reconciliation
      BY <1>1, <2>2 DEF AttemptInv, Reconciles, Reconciliation
    <2>4. RunOK(run'[r]) /\ run'[r].at \notin Owning
      BY <2>2, <2>3, StillReconciles
    <2> QED
      BY <1>1, <1>3, <2>2, <2>4, RunOnly
  <1> QED
    BY <1>4, <1>5 DEF Reconcile

LEMMA StoreEmptyStep ==
  ASSUME AttemptInv, NEW r \in Runners, StoreEmpty(r)
  PROVE  AttemptInv'
  <1>1. TypeOK /\ Ends(r) /\ UNCHANGED <<operation, attempts, threads, handed, excluded>>
    BY DEF AttemptInv, StoreEmpty
  <1>2. /\ slice' \in [result : Decisions \cup {Empty, NoOutput}, from : Outputs \cup {NoOutput},
                       thread : 0 .. MaxThreads, archive : {"none", "pending", "archived"}]
        /\ ResultOK'
    <2>1. NoThread \in 0 .. MaxThreads /\ Empty \in Decisions \cup {Empty}
      BY AttemptAssumption DEF NoThread
    <2>2. CASE run[r].at = "storing empty" /\ StoresSlice(Empty, NoOutput, NoThread)
      <3>1. excluded
        BY <2>2 DEF AttemptInv, RunOK
      <3> QED
        BY <1>1, <2>1, <2>2, <3>1, StoresOK
    <2>3. CASE run[r].at = "reconciling" /\ StoresSlice(Empty, run[r].output, NoThread)
      <3>1. operation.status = "committed" /\ run[r].output = operation.output
        BY <2>3 DEF AttemptInv, RunOK, CarriesResult, Reconciles, Reconciliation
      <3>2. StoresSlice(Empty, operation.output, NoThread)
        BY <2>3, <3>1
      <3> QED
        BY <1>1, <2>1, <3>1, <3>2, StoresOK
    <2> QED
      BY <2>2, <2>3 DEF StoreEmpty, At
  <1>3. /\ run' \in [Runners -> Run] /\ run'[r] = Idle
        /\ \A q \in Runners \ {r} : run'[q] = run[q]
    BY <1>1, IdleOK, RunTyped DEF Ends
  <1>4. TypeOK'
    BY <1>1, <1>2, <1>3 DEF TypeOK
  <1>5. AttemptsOK'
    BY <1>1 DEF AttemptInv, AttemptsOK
  <1>6. OthersKeep(r) /\ Succeeds(r)
    BY <1>1, <1>3, IdleOK DEF OthersKeep, Succeeds
  <1>7. RunOK(run[r])'
    BY <1>3 DEF Idle, RunOK, OwnsAttempt, CarriesResult, Reconciles, Owning,
       Creating, Executing, Reconciliation, Sweeps2
  <1> QED
    BY <1>2, <1>4, <1>5, <1>6, <1>7, RunStep

LEMMA StoreReconciliationStep ==
  ASSUME AttemptInv, NEW r \in Runners, StoreReconciliation(r)
  PROVE  AttemptInv'
  <1>1. PICK decision \in Decisions :
          /\ run[r].at = "deciding"
          /\ StoresSlice(decision, run[r].output, run[r].thread)
          /\ Sweeps(r, {run[r].thread}, "idle") \/ Ends(r)
          /\ UNCHANGED <<operation, attempts, threads, handed, excluded>>
    BY DEF StoreReconciliation, At
  <1>2. /\ TypeOK /\ run[r] \in Run /\ RunOK(run[r])
        /\ operation.status = "committed" /\ run[r].output = operation.output
        /\ run[r].thread # NoThread
    BY <1>1 DEF AttemptInv, TypeOK, RunOK, CarriesResult, Reconciles, Reconciliation
  <1>3. run[r].thread \in 0 .. MaxThreads /\ {run[r].thread} \in SUBSET (1 .. MaxThreads)
    BY <1>2, AttemptAssumption DEF Run, NoThread
  <1>4. /\ slice' \in [result : Decisions \cup {Empty, NoOutput}, from : Outputs \cup {NoOutput},
                       thread : 0 .. MaxThreads, archive : {"none", "pending", "archived"}]
        /\ ResultOK'
    <2>1. StoresSlice(decision, operation.output, run[r].thread)
      BY <1>1, <1>2
    <2> QED
      BY <1>1, <1>2, <1>3, <2>1, StoresOK
  <1>5. PICK x \in Run : /\ run' = [run EXCEPT ![r] = x] /\ x.at \in {"idle", "sweeping"}
                         /\ x.at = "sweeping" => x.next = "idle"
    <2>1. CASE Ends(r)
      BY <2>1, IdleOK DEF Ends, Idle
    <2>2. CASE Sweeps(r, {run[r].thread}, "idle")
      <3> DEFINE x == [run[r] EXCEPT !.at = "sweeping", !.todo = {run[r].thread}, !.next = "idle"]
      <3>1. x \in Run /\ x.at = "sweeping" /\ x.next = "idle"
        BY <1>2, <1>3 DEF Run, Steps
      <3>2. run' = [run EXCEPT ![r] = x]
        BY <2>2 DEF Sweeps
      <3> HIDE DEF x
      <3> QED
        BY <3>1, <3>2
    <2> QED
      BY <1>1, <2>1, <2>2
  <1>6. /\ run' \in [Runners -> Run] /\ run'[r] = x
        /\ \A q \in Runners \ {r} : run'[q] = run[q]
    BY <1>2, <1>5, RunTyped
  <1>7. TypeOK'
    BY <1>1, <1>2, <1>4, <1>6 DEF TypeOK
  <1>8. AttemptsOK'
    BY <1>1 DEF AttemptInv, AttemptsOK
  <1>9. OthersKeep(r) /\ Succeeds(r)
    BY <1>1, <1>5, <1>6 DEF OthersKeep, Succeeds, Owning, Creating, Executing
  <1>10. RunOK(run[r])'
    BY <1>5, <1>6 DEF RunOK, OwnsAttempt, CarriesResult, Reconciles, Owning,
       Creating, Executing, Reconciliation, Sweeps2, AfterSweep
  <1> QED
    BY <1>4, <1>7, <1>8, <1>9, <1>10, RunStep

-----------------------------------------------------------------------------
LEMMA AttemptStep ==
  ASSUME AttemptInv, [Next]_vars
  PROVE  AttemptInv'
  <1>1. CASE UNCHANGED vars
    BY <1>1 DEF vars, AttemptInv, TypeOK, AttemptsOK, ResultOK, OwnersDiffer, RunOK,
       OwnsAttempt, CarriesResult, Reconciles
  <1>2. ASSUME NEW r \in Runners, Sweeping(r)
        PROVE  AttemptInv'
    BY <1>2, ArchiveThreadStep, MarkArchivedStep, EndSweepStep DEF Sweeping
  <1>3. ASSUME NEW r \in Runners, Opening(r)
        PROVE  AttemptInv'
    BY <1>3, SweepingActions, ReadingActions, MarkExcludedStep, StatusActions, CommittedCaptureStep
       DEF Opening
  <1>4. ASSUME NEW r \in Runners, Attempting(r)
        PROVE  AttemptInv'
    BY <1>4, BeginAttemptStep, ThreadActions, AbandoningActions, AttachThreadStep, StatusActions,
       InventoryStep, ExtractionStep, StoreValidatedStep, CommitAttemptStep DEF Attempting
  <1>5. ASSUME NEW r \in Runners, Reconciling(r)
        PROVE  AttemptInv'
    BY <1>5, SweepingActions, StoreEmptyStep, ReconcileStep, ThreadActions, ReadingActions,
       ReconciliationFailsStep, StoreReconciliationStep DEF Reconciling
  <1>6. ASSUME NEW r \in Runners, CutOff(r)
        PROVE  AttemptInv'
    BY <1>6, ReadingActions
  <1> QED
    BY <1>1, <1>2, <1>3, <1>4, <1>5, <1>6 DEF Next

(* What AttemptInv says is so after any number of steps.                   *)
LEMMA AttemptAlways == Spec => []AttemptInv
  <1>1. Init => AttemptInv
    BY AttemptInit
  <1>2. AttemptInv /\ [Next]_vars => AttemptInv'
    BY AttemptStep
  <1> QED
    BY <1>1, <1>2, PTL DEF Spec

(* Every row has a shape the code accepts when it reads it back: an         *)
(* operation has a winner exactly when it has a result, and an attempt is   *)
(* to archive exactly when it has a Thread.                                 *)
THEOREM AttemptTypeCorrect == Spec => []TypeOK
  <1>1. AttemptInv => TypeOK
    BY DEF AttemptInv
  <1> QED
    BY <1>1, AttemptAlways, PTL

(* Whatever runs overlap and wherever they are cut off, one attempt is      *)
(* accepted, its output is the operation's, every run is given that output, *)
(* and the slice's reconciliation was made from it, unless it is the empty  *)
(* one of an exclusion on record.                                           *)
THEOREM OneResultCorrect == Spec => []OneResult
  <1>1. AttemptInv => OneResult
    <2> SUFFICES ASSUME AttemptInv PROVE OneResult
      OBVIOUS
    <2>1. DOMAIN attempts = 1 .. operation.active
      BY AttemptsIndex DEF AttemptInv
    <2>2. operation.winner # 0 => operation.winner \in DOMAIN attempts
      BY <2>1 DEF AttemptInv, AttemptsOK, TypeOK
    <2>3. handed \subseteq {operation.output}
      BY DEF AttemptInv, ResultOK
    <2>4. operation.winner # 0 =>
            /\ attempts[operation.winner].output = operation.output
            /\ attempts[operation.winner].inventory /\ attempts[operation.winner].extraction
      BY <2>2 DEF AttemptInv, AttemptsOK
    <2> QED
      BY <2>3, <2>4 DEF OneResult, AttemptInv, AttemptsOK, ResultOK, EmptySlice
  <1> QED
    BY <1>1, AttemptAlways, PTL

-----------------------------------------------------------------------------
(* What is settled stays.                                                  *)

SettledStep ==
  /\ slice.result # NoOutput => slice'.result = slice.result /\ slice'.from = slice.from
  /\ operation.status \in {"committed", "failed_terminal"} => operation' = operation
  /\ \A g \in DOMAIN attempts :
       attempts[g].state \in Finished => attempts'[g].state = attempts[g].state

(* A run that writes its own attempt, or fails the operation.              *)
LEMMA OwnSettles ==
  ASSUME AttemptInv, NEW r \in Runners, run[r].at \in Owning, UNCHANGED <<operation, slice>>,
         \A g \in DOMAIN attempts : g # run[r].generation => attempts'[g] = attempts[g]
  PROVE  SettledStep
  <1>1. attempts[run[r].generation].state \notin Finished
    BY OwnAttempt DEF OwnsAttempt, Owning, Creating, Executing, Finished
  <1> QED
    BY <1>1 DEF SettledStep

LEMMA AttemptingSettles ==
  ASSUME AttemptInv, NEW r \in Runners, Attempting(r)
  PROVE  SettledStep
  <1>1. TypeOK
    BY DEF AttemptInv
  <1>2. CASE BeginAttempt(r)
    <2>1. CASE operation.status = "open"
      <3>1. attempts' = Append(attempts, NewAttempt) /\ UNCHANGED slice
        BY <1>2, <2>1 DEF BeginAttempt
      <3>2. \A g \in DOMAIN attempts : attempts'[g] = attempts[g]
        BY <1>1, <3>1 DEF TypeOK
      <3> QED
        BY <2>1, <3>1, <3>2 DEF SettledStep
    <2>2. CASE operation.status # "open"
      BY <1>2, <2>2 DEF BeginAttempt, SettledStep
    <2> QED
      BY <2>1, <2>2
  <1>3. CASE ForkThread(r) \/ BindCaptureThread(r)
    BY <1>3 DEF ForkThread, BindCaptureThread, SettledStep
  <1>4. CASE FailTerminal(r)
    BY <1>1, <1>4 DEF FailTerminal, FailOperation, SettledStep, TypeOK
  <1>5. CASE \/ ForkFails(r) \/ BindingFails(r) \/ TurnFails(r) \/ TurnIsInvalid(r)
             \/ AttachThread(r) \/ InventoryIsValid(r) \/ ExtractionIsValid(r)
             \/ StoreValidatedAttempt(r)
    <2>1. run[r].at \in Owning /\ UNCHANGED <<operation, slice>>
      BY <1>5 DEF ForkFails, BindingFails, TurnFails, TurnIsInvalid, AttachThread, InventoryIsValid,
         ExtractionIsValid, StoreValidatedAttempt, AttachTurn, At, Owning, Creating, Executing
    <2>2. \A g \in DOMAIN attempts : g # run[r].generation => attempts'[g] = attempts[g]
      <3>1. CASE ForkFails(r) \/ BindingFails(r) \/ TurnFails(r) \/ TurnIsInvalid(r)
        BY <1>1, <3>1 DEF ForkFails, BindingFails, TurnFails, TurnIsInvalid, Abandons, TypeOK
      <3>2. CASE AttachThread(r)
        BY <1>1, <3>2 DEF AttachThread, TypeOK
      <3>3. CASE InventoryIsValid(r) \/ ExtractionIsValid(r)
        BY <1>1, <3>3 DEF InventoryIsValid, ExtractionIsValid, AttachTurn, TypeOK
      <3>4. CASE StoreValidatedAttempt(r)
        BY <1>1, <3>4 DEF StoreValidatedAttempt, TypeOK
      <3> QED
        BY <1>5, <3>1, <3>2, <3>3, <3>4
    <2> QED
      BY <2>1, <2>2, OwnSettles
  <1>6. CASE CommitAttempt(r)
    <2> DEFINE g == run[r].generation
    <2>1. /\ g \in DOMAIN attempts /\ UNCHANGED slice
          /\ attempts[g].state \in {"validated", "accepted", "superseded"}
          /\ CanWin(g) \/ operation' = operation
          /\ \A h \in DOMAIN attempts :
               attempts'[h].state =
                 IF h # g THEN attempts[h].state
                 ELSE IF operation.winner = g \/ CanWin(g) THEN "accepted" ELSE "superseded"
      BY <1>6, CommitFacts
    <2>2. CanWin(g) => operation.status = "open" /\ attempts[g].state = "validated"
      BY DEF CanWin
    <2>3. attempts[g].state = "accepted" <=> operation.winner = g
      BY <2>1 DEF AttemptInv, AttemptsOK
    <2> HIDE DEF g
    <2> QED
      BY <2>1, <2>2, <2>3 DEF SettledStep, Finished
  <1> QED
    BY <1>2, <1>3, <1>4, <1>5, <1>6 DEF Attempting

LEMMA StepSettles ==
  ASSUME AttemptInv, Next
  PROVE  SettledStep
  <1> SUFFICES ASSUME NEW r \in Runners,
                      Sweeping(r) \/ Opening(r) \/ Attempting(r) \/ Reconciling(r) \/ CutOff(r)
               PROVE  SettledStep
    BY DEF Next
  <1>1. TypeOK
    BY DEF AttemptInv
  <1>2. CASE UNCHANGED <<operation, attempts, slice>>
    BY <1>2 DEF SettledStep
  <1>3. CASE MarkArchived(r)
    <2>1. PICK t \in run[r].todo :
            /\ attempts' = [g \in DOMAIN attempts |->
                              IF attempts[g].thread = t
                                THEN [attempts[g] EXCEPT !.archive = "archived"]
                                ELSE attempts[g]]
            /\ slice' = IF slice.thread = t THEN [slice EXCEPT !.archive = "archived"] ELSE slice
            /\ UNCHANGED operation
      BY <1>3 DEF MarkArchived
    <2>2. \A g \in DOMAIN attempts : attempts'[g].state = attempts[g].state
      BY <1>1, <2>1, AttemptsIndex DEF Attempt
    <2>3. slice'.result = slice.result /\ slice'.from = slice.from
      BY <1>1, <2>1 DEF TypeOK
    <2> QED
      BY <2>1, <2>2, <2>3 DEF SettledStep
  <1>4. CASE SourceUnavailable(r) \/ EnsureOperation(r)
    BY <1>1, <1>4 DEF SourceUnavailable, EnsureOperation, FailOperation, SettledStep, TypeOK
  <1>5. CASE Attempting(r)
    BY <1>5, AttemptingSettles
  <1>6. CASE StoreEmpty(r) \/ StoreReconciliation(r)
    BY <1>6 DEF StoreEmpty, StoreReconciliation, StoresSlice, SettledStep
  <1>7. CASE Sweeping(r)
    BY <1>2, <1>3, <1>7 DEF Sweeping, ArchiveThread, EndSweep
  <1>8. CASE Opening(r)
    BY <1>2, <1>4, <1>8 DEF Opening, Serve, ReadSlice, ReadOperation, ReadSource,
       ReplayConflicts, SourceExcluded, MarkExcluded, CommittedCapture, ActiveValidatedAttempt
  <1>9. CASE Reconciling(r)
    BY <1>2, <1>6, <1>9 DEF Reconciling, OpenReconciliation, Reconcile, StartThread, StartFails,
       BindReconciliationThread, ReconciliationFails
  <1>10. CASE CutOff(r)
    BY <1>2, <1>10 DEF CutOff
  <1> QED
    BY <1>5, <1>7, <1>8, <1>9, <1>10

(* What the Agent tells Central about a slice never changes: a stored       *)
(* result, a finished operation and a finished attempt are never rewritten. *)
THEOREM SettledCorrect == Spec => SettledStays
  <1>1. AttemptInv /\ [Next]_vars => [SettledStep]_vars
    BY StepSettles
  <1>2. Spec => [][SettledStep]_vars
    BY <1>1, AttemptAlways, PTL DEF Spec
  <1> QED
    BY <1>2 DEF SettledStays, SettledStep

-----------------------------------------------------------------------------
(* The Threads in use.                                                     *)

Using == {"attaching", "binding reconciliation", "deciding"} \cup Executing
Turns == {"inventory", "extraction", "deciding"}

(* A Thread in use is one run's: no sweep has it in its list, no row has   *)
(* it but the attempt of that run, and during a Turn it is open.           *)
InUse(r) ==
  run[r].at \in Using =>
    /\ run[r].thread \in 1 .. Len(threads)
    /\ slice.thread # run[r].thread
    /\ \A g \in DOMAIN attempts :
         attempts[g].thread = run[r].thread => run[r].at \in Executing /\ g = run[r].generation
    /\ run[r].at \in Turns => threads[run[r].thread] = "internal"

Apart(r, q) ==
  run[r].at \in Using =>
    /\ q # r /\ run[q].at \in Using => run[q].thread # run[r].thread
    /\ run[q].at \in Sweeps2 => run[r].thread \notin run[q].todo

(* Rows and lists name Threads that exist.                                 *)
Known ==
  /\ \A g \in DOMAIN attempts : attempts[g].thread <= Len(threads)
  /\ slice.thread <= Len(threads)
  /\ \A q \in Runners : run[q].at \in Sweeps2 => run[q].todo \subseteq 1 .. Len(threads)

ThreadInv ==
  /\ \A r \in Runners : InUse(r)
  /\ \A r, q \in Runners : Apart(r, q)
  /\ Known

LEMMA ThreadInit == Init => ThreadInv
  <1> SUFFICES ASSUME Init PROVE ThreadInv
    OBVIOUS
  <1>1. \A r \in Runners : run[r].at = "idle"
    BY DEF Init, Idle
  <1>2. "idle" \notin Using \cup Sweeps2
    BY DEF Using, Executing, Sweeps2
  <1>3. attempts = <<>> /\ threads = <<>> /\ slice.thread = 0
    BY DEF Init, NoThread
  <1>4. Known
    BY <1>1, <1>2, <1>3 DEF Known
  <1> QED
    BY <1>1, <1>2, <1>4 DEF ThreadInv, InUse, Apart

(* What a step of run r may do to the Threads, the rows and its own place. *)
LeavesThreads(r) ==
  /\ Len(threads') \in Nat /\ Len(threads) <= Len(threads')
  /\ \A q \in Runners \ {r} :
       run[q].at \in Using => threads'[run[q].thread] = threads[run[q].thread]

TakesThread(r) ==
  run'[r].at \in Using =>
    /\ run'[r].thread \in 1 .. Len(threads')
    /\ \/ /\ run[r].at \in Using /\ run'[r].thread = run[r].thread
          /\ run[r].at \in Executing =>
               run'[r].at \in Executing /\ run'[r].generation = run[r].generation
       \/ run'[r].thread = Len(threads) + 1
    /\ run'[r].at \in Turns => threads'[run'[r].thread] = "internal"

TakesList(r) ==
  run'[r].at \in Sweeps2 =>
    \A t \in run'[r].todo :
      /\ t \in 1 .. Len(threads')
      /\ \A q \in Runners \ {r} : run[q].at \in Using => run[q].thread # t

WritesThreads(r) ==
  /\ \A g \in DOMAIN attempts' :
       \/ attempts'[g].thread = NoThread
       \/ g \in DOMAIN attempts /\ attempts'[g].thread = attempts[g].thread
       \/ /\ run[r].at \in Using /\ attempts'[g].thread = run[r].thread
          /\ run'[r].at \in Executing /\ run'[r].generation = g
  /\ \/ slice'.thread \in {slice.thread, NoThread}
     \/ run[r].at \in Using /\ slice'.thread = run[r].thread /\ run'[r].at \notin Using

LEMMA ThreadStep ==
  ASSUME AttemptInv, ThreadInv, NEW r \in Runners,
         \A q \in Runners \ {r} : run'[q] = run[q],
         LeavesThreads(r), TakesThread(r), TakesList(r), WritesThreads(r)
  PROVE  ThreadInv'
  <1>1. Len(threads) \in Nat /\ Len(threads') \in Nat /\ Len(threads) <= Len(threads')
    BY DEF AttemptInv, TypeOK, LeavesThreads
  <1>2. /\ run[r].at \in Using => run[r].thread \in 1 .. Len(threads)
        /\ slice.thread \in Nat /\ slice.thread <= Len(threads)
        /\ \A g \in DOMAIN attempts : attempts[g].thread \in Nat
                                      /\ attempts[g].thread <= Len(threads)
    <2>1. \A g \in DOMAIN attempts : attempts[g] \in Attempt
      BY AttemptsIndex DEF AttemptInv
    <2> QED
      BY <2>1 DEF ThreadInv, InUse, Known, AttemptInv, TypeOK, Attempt
  <1>3. Known'
    <2>1. \A g \in DOMAIN attempts' : attempts'[g].thread <= Len(threads')
      BY <1>1, <1>2 DEF WritesThreads, NoThread
    <2>2. slice'.thread <= Len(threads')
      BY <1>1, <1>2 DEF WritesThreads, NoThread
    <2>3. ASSUME NEW q \in Runners, run'[q].at \in Sweeps2
          PROVE  run'[q].todo \subseteq 1 .. Len(threads')
      <3>1. CASE q = r
        BY <2>3, <3>1 DEF TakesList
      <3>2. CASE q # r
        <4>1. run[q].todo \subseteq 1 .. Len(threads) /\ run'[q] = run[q]
          BY <2>3, <3>2 DEF ThreadInv, Known
        <4> QED
          BY <1>1, <4>1
      <3> QED
        BY <3>1, <3>2
    <2> QED
      BY <2>1, <2>2, <2>3 DEF Known
  <1>4. ASSUME NEW q \in Runners \ {r}
        PROVE  InUse(q)'
    <2> SUFFICES ASSUME run[q].at \in Using
                 PROVE  /\ run[q].thread \in 1 .. Len(threads')
                        /\ slice'.thread # run[q].thread
                        /\ \A g \in DOMAIN attempts' :
                             attempts'[g].thread = run[q].thread =>
                               run[q].at \in Executing /\ g = run[q].generation
                        /\ run[q].at \in Turns => threads'[run[q].thread] = "internal"
      BY DEF InUse
    <2>1. /\ run[q].thread \in 1 .. Len(threads)
          /\ slice.thread # run[q].thread
          /\ \A g \in DOMAIN attempts :
               attempts[g].thread = run[q].thread =>
                 run[q].at \in Executing /\ g = run[q].generation
          /\ run[q].at \in Turns => threads[run[q].thread] = "internal"
          /\ run[r].at \in Using => run[r].thread # run[q].thread
      BY DEF ThreadInv, InUse, Apart
    <2>2. run[q].thread \in 1 .. Len(threads') /\ run[q].thread # NoThread
      BY <1>1, <2>1 DEF NoThread
    <2>3. slice'.thread # run[q].thread
      BY <2>1, <2>2 DEF WritesThreads
    <2>4. ASSUME NEW g \in DOMAIN attempts', attempts'[g].thread = run[q].thread
          PROVE  run[q].at \in Executing /\ g = run[q].generation
      BY <2>1, <2>2, <2>4 DEF WritesThreads
    <2>5. run[q].at \in Turns => threads'[run[q].thread] = "internal"
      BY <2>1 DEF LeavesThreads
    <2> QED
      BY <2>2, <2>3, <2>4, <2>5
  <1>5. InUse(r)'
    <2> SUFFICES ASSUME run'[r].at \in Using
                 PROVE  /\ run'[r].thread \in 1 .. Len(threads')
                        /\ slice'.thread # run'[r].thread
                        /\ \A g \in DOMAIN attempts' :
                             attempts'[g].thread = run'[r].thread =>
                               run'[r].at \in Executing /\ g = run'[r].generation
                        /\ run'[r].at \in Turns => threads'[run'[r].thread] = "internal"
      BY DEF InUse
    <2>1. /\ run'[r].thread \in 1 .. Len(threads') /\ run'[r].thread # NoThread
          /\ run'[r].at \in Turns => threads'[run'[r].thread] = "internal"
      BY <1>1 DEF TakesThread, NoThread
    <2>2. CASE /\ run[r].at \in Using /\ run'[r].thread = run[r].thread
               /\ run[r].at \in Executing =>
                    run'[r].at \in Executing /\ run'[r].generation = run[r].generation
      <3>1. /\ slice.thread # run[r].thread
            /\ \A g \in DOMAIN attempts :
                 attempts[g].thread = run[r].thread =>
                   run[r].at \in Executing /\ g = run[r].generation
        BY <2>2 DEF ThreadInv, InUse
      <3>2. slice'.thread # run'[r].thread
        BY <2>1, <2>2, <3>1 DEF WritesThreads
      <3>3. ASSUME NEW g \in DOMAIN attempts', attempts'[g].thread = run'[r].thread
            PROVE  run'[r].at \in Executing /\ g = run'[r].generation
        BY <2>1, <2>2, <3>1, <3>3 DEF WritesThreads
      <3> QED
        BY <2>1, <3>2, <3>3
    <2>3. CASE run'[r].thread = Len(threads) + 1
      <3>1. slice'.thread # run'[r].thread
        BY <1>1, <1>2, <2>1, <2>3 DEF WritesThreads
      <3>2. ASSUME NEW g \in DOMAIN attempts', attempts'[g].thread = run'[r].thread
            PROVE  run'[r].at \in Executing /\ g = run'[r].generation
        BY <1>1, <1>2, <2>1, <2>3, <3>2 DEF WritesThreads
      <3> QED
        BY <2>1, <3>1, <3>2
    <2> QED
      BY <2>2, <2>3 DEF TakesThread
  <1>6. ASSUME NEW p \in Runners, NEW q \in Runners
        PROVE  Apart(p, q)'
    <2> SUFFICES ASSUME run'[p].at \in Using
                 PROVE  /\ q # p /\ run'[q].at \in Using => run'[q].thread # run'[p].thread
                        /\ run'[q].at \in Sweeps2 => run'[p].thread \notin run'[q].todo
      BY DEF Apart
    <2>1. /\ \A s \in Runners : run[s].at \in Using => run[s].thread \in 1 .. Len(threads)
          /\ \A s \in Runners : run[s].at \in Sweeps2 => run[s].todo \subseteq 1 .. Len(threads)
          /\ Apart(p, q) /\ Apart(q, p)
      BY DEF ThreadInv, InUse, Known
    <2>2. CASE p # r /\ q # r
      BY <2>1, <2>2 DEF Apart
    <2>3. CASE p = r /\ q = r
      BY <2>3 DEF Using, Executing, Sweeps2
    <2>4. CASE p = r /\ q # r
      BY <1>1, <2>1, <2>4 DEF Apart, TakesThread
    <2>5. CASE p # r /\ q = r
      BY <1>1, <2>1, <2>5 DEF Apart, TakesThread, TakesList
    <2> QED
      BY <2>2, <2>3, <2>4, <2>5
  <1>7. \A q \in Runners : InUse(q)'
    <2> TAKE q \in Runners
    <2>1. CASE q = r
      BY <1>5, <2>1 DEF InUse
    <2>2. CASE q # r
      BY <1>4, <2>2 DEF InUse
    <2> QED
      BY <2>1, <2>2
  <1>8. \A p, q \in Runners : Apart(p, q)'
    BY <1>6
  <1> QED
    BY <1>3, <1>7, <1>8 DEF ThreadInv

-----------------------------------------------------------------------------
(* The steps of a run, as to Threads.                                      *)

(* No row changes its Thread, and no Thread changes.                       *)
RowsRest ==
  /\ UNCHANGED threads /\ slice'.thread = slice.thread
  /\ \A g \in DOMAIN attempts' :
       \/ attempts'[g].thread = NoThread
       \/ g \in DOMAIN attempts /\ attempts'[g].thread = attempts[g].thread

LEMMA RowsRestOK ==
  ASSUME AttemptInv, RowsRest, NEW r \in Runners
  PROVE  LeavesThreads(r) /\ WritesThreads(r)
  BY DEF RowsRest, LeavesThreads, WritesThreads, AttemptInv, TypeOK


(* A run that neither uses a Thread after the step nor sweeps.             *)
LEMMA LetsGo ==
  ASSUME AttemptInv, ThreadInv, NEW r \in Runners, RowsRest,
         NEW x, run' = [run EXCEPT ![r] = x], x.at \notin Using \cup Sweeps2
  PROVE  ThreadInv'
  <1>1. run'[r] = x /\ \A q \in Runners \ {r} : run'[q] = run[q]
    BY DEF AttemptInv, TypeOK
  <1>2. TakesThread(r) /\ TakesList(r)
    BY <1>1 DEF TakesThread, TakesList
  <1> QED
    BY <1>1, <1>2, RowsRestOK, ThreadStep

LEMMA EndsThreads ==
  ASSUME AttemptInv, ThreadInv, NEW r \in Runners, RowsRest, Ends(r)
  PROVE  ThreadInv'
  <1>1. Idle.at \notin Using \cup Sweeps2
    BY DEF Idle, Using, Executing, Sweeps2
  <1> QED
    BY <1>1, LetsGo DEF Ends

LEMMA GoesThreads ==
  ASSUME AttemptInv, ThreadInv, NEW r \in Runners, RowsRest,
         NEW step \in Steps, step \notin Using \cup Sweeps2, Goes(r, step)
  PROVE  ThreadInv'
  <1>1. /\ run' = [run EXCEPT ![r] = run'[r]] /\ run'[r].at = step
    BY MovesOn
  <1> QED
    BY <1>1, LetsGo

(* A sweep of Threads nobody else uses.                                    *)
LEMMA SweepsThreads ==
  ASSUME AttemptInv, ThreadInv, NEW r \in Runners, RowsRest,
         NEW list, NEW next, Sweeps(r, list, next),
         \A t \in list : /\ t \in 1 .. Len(threads)
                         /\ \A q \in Runners \ {r} : run[q].at \in Using => run[q].thread # t
  PROVE  ThreadInv'
  <1> DEFINE x == [run[r] EXCEPT !.at = "sweeping", !.todo = list, !.next = next]
  <1>1. run' = [run EXCEPT ![r] = x] /\ run[r] \in Run
    BY DEF Sweeps, AttemptInv, TypeOK
  <1>2. x.at = "sweeping" /\ x.todo = list
    BY <1>1 DEF Run
  <1> HIDE DEF x
  <1>3. run'[r] = x /\ \A q \in Runners \ {r} : run'[q] = run[q]
    BY <1>1 DEF AttemptInv, TypeOK
  <1>4. TakesThread(r) /\ TakesList(r)
    BY <1>2, <1>3 DEF TakesThread, TakesList, RowsRest, Using, Executing
  <1> QED
    BY <1>3, <1>4, RowsRestOK, ThreadStep

(* What a sweep finds to archive is in no use.                             *)
LEMMA PendingUnused ==
  ASSUME AttemptInv, ThreadInv, NEW t \in PendingArchives \cup PendingSliceArchive
  PROVE  /\ t \in 1 .. Len(threads)
         /\ \A q \in Runners : run[q].at \in Using => run[q].thread # t
  <1>1. TypeOK /\ \A g \in DOMAIN attempts : attempts[g] \in Attempt
    BY AttemptsIndex DEF AttemptInv
  <1>2. CASE t \in PendingArchives
    <2>1. PICK g \in DOMAIN attempts :
            /\ t = attempts[g].thread /\ attempts[g].archive = "pending"
            /\ attempts[g].state \in Finished
      BY <1>2 DEF PendingArchives
    <2>2. t \in 1 .. Len(threads)
      BY <1>1, <2>1 DEF TypeOK, Attempt, NoThread, ThreadInv, Known
    <2>3. ASSUME NEW q \in Runners, run[q].at \in Using, run[q].thread = t
          PROVE  FALSE
      <3>1. run[q].at \in Executing /\ g = run[q].generation
        BY <2>1, <2>3 DEF ThreadInv, InUse
      <3>2. attempts[g].state = "running"
        BY <3>1 DEF AttemptInv, RunOK, OwnsAttempt
      <3> QED
        BY <2>1, <3>2 DEF Finished
    <2> QED
      BY <2>2, <2>3
  <1>3. CASE t \in PendingSliceArchive
    <2>1. t = slice.thread /\ slice.archive = "pending"
      BY <1>3 DEF PendingSliceArchive
    <2>2. t \in 1 .. Len(threads)
      BY <1>1, <2>1 DEF TypeOK, NoThread, ThreadInv, Known, AttemptInv, ResultOK
    <2> QED
      BY <2>1, <2>2 DEF ThreadInv, InUse
  <1> QED
    BY <1>2, <1>3

(* Nor is what it finds right after an attempt is decided.                 *)
LEMMA DecidedUnused ==
  ASSUME AttemptInv, ThreadInv, AttemptInv', NEW r \in Runners, RowsRest,
         \A q \in Runners \ {r} : run'[q] = run[q],
         DOMAIN attempts' = DOMAIN attempts, NEW t \in PendingArchives'
  PROVE  /\ t \in 1 .. Len(threads)
         /\ \A q \in Runners \ {r} : run[q].at \in Using => run[q].thread # t
  <1>1. /\ TypeOK' /\ \A g \in DOMAIN attempts : attempts[g] \in Attempt
    BY AttemptsIndex DEF AttemptInv
  <1>2. PICK g \in DOMAIN attempts :
          /\ t = attempts'[g].thread /\ attempts'[g].archive = "pending"
          /\ attempts'[g].state \in Finished
    BY DEF PendingArchives
  <1>3. t # NoThread /\ attempts[g].thread = t
    <2>1. t # NoThread
      BY <1>1, <1>2 DEF TypeOK
    <2> QED
      BY <1>2, <2>1 DEF RowsRest
  <1>4. t \in 1 .. Len(threads)
    BY <1>1, <1>3 DEF Attempt, NoThread, ThreadInv, Known
  <1>5. ASSUME NEW q \in Runners \ {r}, run[q].at \in Using, run[q].thread = t
        PROVE  FALSE
    <2>1. run[q].at \in Executing /\ g = run[q].generation
      BY <1>3, <1>5 DEF ThreadInv, InUse
    <2>2. attempts'[g].state = "running"
      <3>1. OwnsAttempt(run[q])'
        BY DEF AttemptInv, RunOK
      <3> QED
        BY <2>1, <3>1 DEF OwnsAttempt
    <2> QED
      BY <1>2, <2>2 DEF Finished
  <1> QED
    BY <1>4, <1>5

(* The same where the run starts anew with a result.                       *)
LEMMA SweepsFresh ==
  ASSUME AttemptInv, ThreadInv, NEW r \in Runners, RowsRest,
         NEW output, NEW list, Carry(r, output, list),
         \A t \in list : /\ t \in 1 .. Len(threads)
                         /\ \A q \in Runners \ {r} : run[q].at \in Using => run[q].thread # t
  PROVE  ThreadInv'
  <1> DEFINE x == [Idle EXCEPT !.at = "sweeping", !.output = output, !.todo = list,
                               !.next = "reconciling"]
  <1>1. run' = [run EXCEPT ![r] = x]
    BY DEF Carry
  <1>2. x.at = "sweeping" /\ x.todo = list
    BY DEF Idle
  <1> HIDE DEF x
  <1>3. run'[r] = x /\ \A q \in Runners \ {r} : run'[q] = run[q]
    BY <1>1 DEF AttemptInv, TypeOK
  <1>4. TakesThread(r) /\ TakesList(r)
    BY <1>2, <1>3 DEF TakesThread, TakesList, RowsRest, Using, Executing
  <1> QED
    BY <1>3, <1>4, RowsRestOK, ThreadStep

LEMMA SweepingThreads ==
  ASSUME AttemptInv, ThreadInv, NEW r \in Runners, Sweeping(r)
  PROVE  ThreadInv'
  <1>1. TypeOK /\ run[r] \in Run /\ RunOK(run[r])
    BY DEF AttemptInv, TypeOK
  <1>2. run[r].at \in Sweeps2 /\ run[r].at \notin Using
    BY DEF Sweeping, ArchiveThread, MarkArchived, EndSweep, At, Sweeps2, Using, Executing
  <1>3. \A t \in run[r].todo :
          /\ t \in 1 .. Len(threads)
          /\ \A q \in Runners \ {r} : run[q].at \in Using => run[q].thread # t
    BY <1>2 DEF ThreadInv, Known, Apart
  <1>4. CASE ArchiveThread(r)
    <2>1. PICK t \in run[r].todo :
            /\ run[r].at = "sweeping"
            /\ UNCHANGED <<operation, attempts, slice, handed, excluded>>
            /\ \/ /\ threads' = [threads EXCEPT ![t] = "archived"]
                  /\ run' = [run EXCEPT ![r].at = "marking"]
               \/ /\ threads' \in {threads, [threads EXCEPT ![t] = "archived"]}
                  /\ run' = [run EXCEPT ![r].todo = @ \ {t}]
      BY <1>4 DEF ArchiveThread, At, Goes
    <2>2. /\ \A q \in Runners \ {r} : run'[q] = run[q]
          /\ run'[r].at \in Sweeps2 /\ run'[r].todo \subseteq run[r].todo
      BY <1>1, <2>1 DEF TypeOK, Run, Sweeps2
    <2>3. /\ Len(threads') = Len(threads) /\ Len(threads) \in Nat
          /\ \A u \in 1 .. Len(threads) : u # t => threads'[u] = threads[u]
      BY <1>1, <2>1 DEF TypeOK
    <2>4. LeavesThreads(r)
      <3>1. ASSUME NEW q \in Runners \ {r}, run[q].at \in Using
            PROVE  threads'[run[q].thread] = threads[run[q].thread]
        <4>1. run[q].thread \in 1 .. Len(threads) /\ run[q].thread # t
          BY <1>3, <2>1, <3>1 DEF ThreadInv, InUse
        <4> QED
          BY <2>3, <4>1
      <3> QED
        BY <2>3, <3>1 DEF LeavesThreads
    <2>5. TakesThread(r)
      BY <2>2 DEF TakesThread, Using, Executing, Sweeps2
    <2>6. TakesList(r)
      BY <1>3, <2>2, <2>3 DEF TakesList
    <2>7. WritesThreads(r)
      BY <2>1 DEF WritesThreads
    <2> QED
      BY <2>2, <2>4, <2>5, <2>6, <2>7, ThreadStep
  <1>5. CASE MarkArchived(r)
    <2>1. PICK t \in run[r].todo :
            /\ attempts' = [g \in DOMAIN attempts |->
                              IF attempts[g].thread = t
                                THEN [attempts[g] EXCEPT !.archive = "archived"]
                                ELSE attempts[g]]
            /\ slice' = IF slice.thread = t THEN [slice EXCEPT !.archive = "archived"] ELSE slice
            /\ run' = [run EXCEPT ![r] = [@ EXCEPT !.at = "sweeping", !.todo = run[r].todo \ {t}]]
            /\ UNCHANGED threads
      BY <1>5 DEF MarkArchived
    <2>2. slice'.thread = slice.thread
      BY <1>1, <2>1 DEF TypeOK
    <2>3. DOMAIN attempts' = DOMAIN attempts
          /\ \A g \in DOMAIN attempts : attempts'[g].thread = attempts[g].thread
      BY <1>1, <2>1, AttemptsIndex DEF Attempt
    <2>4. RowsRest
      BY <2>1, <2>2, <2>3 DEF RowsRest
    <2>5. run' = [run EXCEPT ![r] = [@ EXCEPT !.at = "sweeping", !.todo = run[r].todo \ {t}]]
      BY <2>1, Zenon
    <2> DEFINE x == [run[r] EXCEPT !.at = "sweeping", !.todo = run[r].todo \ {t}]
    <2>6. run' = [run EXCEPT ![r] = x]
      BY <2>5
    <2>7. x.at = "sweeping" /\ x.todo = run[r].todo \ {t}
      BY <1>1 DEF Run
    <2> HIDE DEF x
    <2>8. run'[r] = x /\ \A q \in Runners \ {r} : run'[q] = run[q]
      BY <1>1, <2>6 DEF TypeOK
    <2>9. TakesThread(r) /\ TakesList(r)
      BY <1>3, <2>1, <2>7, <2>8 DEF TakesThread, TakesList, Using, Executing
    <2> QED
      BY <2>4, <2>8, <2>9, RowsRestOK, ThreadStep
  <1>6. CASE EndSweep(r)
    <2>1. /\ run[r].at = "sweeping" /\ RowsRest
          /\ Ends(r) \/ Goes(r, run[r].next)
      BY <1>6 DEF EndSweep, At, RowsRest
    <2>2. run[r].next \in AfterSweep
      BY <1>1, <2>1 DEF RunOK, Sweeps2
    <2>3. run[r].next \in Steps /\ run[r].next \notin Using \cup Sweeps2
      BY <2>2 DEF AfterSweep, Steps, Using, Executing, Sweeps2
    <2> QED
      BY <2>1, <2>3, EndsThreads, GoesThreads
  <1> QED
    BY <1>4, <1>5, <1>6 DEF Sweeping

(* Steps that only read, or that write rows without a Thread.              *)
LEMMA OpeningThreads ==
  ASSUME AttemptInv, ThreadInv, NEW r \in Runners, Opening(r)
  PROVE  ThreadInv'
  <1>1. UNCHANGED <<attempts, threads, slice>> /\ RowsRest
    BY DEF Opening, Serve, ReadSlice, ReadOperation, ReadSource, ReplayConflicts,
       SourceExcluded, MarkExcluded, SourceUnavailable, EnsureOperation, CommittedCapture, ActiveValidatedAttempt, RowsRest
  <1>2. \A t \in PendingArchives \cup PendingSliceArchive :
          /\ t \in 1 .. Len(threads)
          /\ \A q \in Runners \ {r} : run[q].at \in Using => run[q].thread # t
    BY PendingUnused
  <1>3. CASE Ends(r)
    BY <1>1, <1>3, EndsThreads
  <1>4. CASE \E step \in {"ensuring", "committed?", "validated?", "beginning", "excluding", "storing empty"} : Goes(r, step)
    <2>1. PICK step \in {"ensuring", "committed?", "validated?", "beginning", "excluding", "storing empty"} : Goes(r, step)
      BY <1>4
    <2>2. step \in Steps /\ step \notin Using \cup Sweeps2
      BY DEF Steps, Using, Executing, Sweeps2
    <2> QED
      BY <1>1, <2>1, <2>2, GoesThreads
  <1>16. CASE \E step \in {"ensuring", "committed?", "excluding"} : GoesOn(r, step)
    <2>1. PICK step \in {"ensuring", "committed?", "excluding"} : GoesOn(r, step)
      BY <1>16
    <2> DEFINE x == [run[r] EXCEPT !.at = step, !.seen = "absent"]
    <2>2. run' = [run EXCEPT ![r] = x] /\ run[r] \in Run
      BY <2>1 DEF GoesOn, AttemptInv, TypeOK
    <2>3. x.at \notin Using \cup Sweeps2
      BY <2>2 DEF Run, Using, Executing, Sweeps2
    <2> HIDE DEF x
    <2> QED
      BY <1>1, <2>2, <2>3, LetsGo
  <1>5. CASE Serve(r)
    <2>1. Sweeps(r, PendingArchives \cup PendingSliceArchive, "slice")
      BY <1>5 DEF Serve
    <2> QED
      BY <1>1, <1>2, <2>1, SweepsThreads
  <1>6. CASE ReadSlice(r)
    <2>1. Ends(r) \/ Sweeps(r, PendingArchives, "looking")
      BY <1>6 DEF ReadSlice
    <2> QED
      BY <1>1, <1>2, <1>3, <2>1, SweepsThreads
  <1>7. CASE ReadOperation(r)
    <2> DEFINE x == [run[r] EXCEPT !.at = "source", !.seen = operation.status]
    <2>1. run' = [run EXCEPT ![r] = x] /\ run[r] \in Run
      BY <1>7 DEF ReadOperation, AttemptInv, TypeOK
    <2>2. x.at \notin Using \cup Sweeps2
      BY <2>1 DEF Run, Using, Executing, Sweeps2
    <2> HIDE DEF x
    <2> QED
      BY <1>1, <2>1, <2>2, LetsGo
  <1>8. CASE CommittedCapture(r) /\ operation.status = "committed"
    <2>1. Carry(r, operation.output, {})
      BY <1>8 DEF CommittedCapture
    <2> QED
      BY <1>1, <2>1, SweepsFresh
  <1>9. CASE ActiveValidatedAttempt(r) /\ ActiveValidated
    <2> DEFINE x == [run[r] EXCEPT !.at = "committing", !.generation = operation.active]
    <2>1. run' = [run EXCEPT ![r] = x] /\ run[r] \in Run
      BY <1>9 DEF ActiveValidatedAttempt, AttemptInv, TypeOK
    <2>2. x.at \notin Using \cup Sweeps2
      BY <2>1 DEF Run, Using, Executing, Sweeps2
    <2> HIDE DEF x
    <2> QED
      BY <1>1, <2>1, <2>2, LetsGo
  <1>10. CASE ReadSource(r)
    BY <1>3, <1>16, <1>10 DEF ReadSource
  <1>11. CASE CommittedCapture(r) /\ operation.status # "committed"
    BY <1>4, <1>11 DEF CommittedCapture
  <1>12. CASE ActiveValidatedAttempt(r) /\ ~ActiveValidated
    BY <1>4, <1>12 DEF ActiveValidatedAttempt
  <1>13. CASE EnsureOperation(r)
    BY <1>3, <1>4, <1>13 DEF EnsureOperation
  <1>14. CASE ReplayConflicts(r) \/ SourceUnavailable(r)
    BY <1>3, <1>14 DEF ReplayConflicts, SourceUnavailable
  <1>15. CASE SourceExcluded(r) \/ MarkExcluded(r)
    BY <1>4, <1>16, <1>15 DEF SourceExcluded, MarkExcluded
  <1> QED
    BY <1>15, <1>5, <1>6, <1>7, <1>8, <1>9, <1>10, <1>11, <1>12, <1>13, <1>14 DEF Opening

(* A run keeps its Thread over a step that writes only its own attempt.    *)
LEMMA KeepsThread ==
  ASSUME AttemptInv, ThreadInv, NEW r \in Runners, run[r].at \in Using, UNCHANGED slice,
         \A q \in Runners \ {r} : run'[q] = run[q],
         run'[r].thread = run[r].thread, run'[r].generation = run[r].generation,
         run'[r].at \in Using,
         run[r].at \in Executing => run'[r].at \in Executing,
         \/ UNCHANGED threads
         \/ threads' = [threads EXCEPT ![run[r].thread] = "internal"],
         run'[r].at \in Turns => threads'[run[r].thread] = "internal",
         \A g \in DOMAIN attempts' :
           \/ g \in DOMAIN attempts /\ attempts'[g].thread = attempts[g].thread
           \/ /\ attempts'[g].thread = run[r].thread
              /\ run'[r].at \in Executing /\ run'[r].generation = g
  PROVE  ThreadInv'
  <1>1. threads \in Seq({"new", "internal", "archived"})
    BY DEF AttemptInv, TypeOK
  <1>2. Len(threads') = Len(threads) /\ Len(threads) \in Nat
    BY <1>1
  <1>3. run[r].thread \in 1 .. Len(threads)
    BY DEF ThreadInv, InUse
  <1>4. LeavesThreads(r)
    <2>1. ASSUME NEW q \in Runners \ {r}, run[q].at \in Using
          PROVE  threads'[run[q].thread] = threads[run[q].thread]
      <3>1. run[q].thread \in 1 .. Len(threads) /\ run[q].thread # run[r].thread
        BY <2>1 DEF ThreadInv, InUse, Apart
      <3> QED
        BY <1>1, <3>1
    <2> QED
      BY <1>2, <2>1 DEF LeavesThreads
  <1>5. TakesThread(r)
    BY <1>2, <1>3 DEF TakesThread
  <1>6. TakesList(r)
    BY DEF TakesList, Using, Executing, Sweeps2
  <1>7. WritesThreads(r)
    BY DEF WritesThreads
  <1> QED
    BY <1>4, <1>5, <1>6, <1>7, ThreadStep

(* A new Thread is nobody's.                                               *)
LEMMA MakesThread ==
  ASSUME AttemptInv, ThreadInv, NEW r \in Runners, UNCHANGED <<attempts, slice>>,
         NEW step, NEW next \in Steps \ (Turns \cup Sweeps2), NewThread(r, step, next),
         step \notin Using
  PROVE  ThreadInv'
  <1>1. /\ run[r].at = step /\ threads' = Append(threads, "new")
        /\ run' = [run EXCEPT ![r] = [run[r] EXCEPT !.at = next, !.thread = Len(threads) + 1]]
    BY DEF NewThread, At
  <1>2. run[r] \in Run /\ threads \in Seq({"new", "internal", "archived"})
    BY DEF AttemptInv, TypeOK
  <1>3. /\ run'[r].at = next /\ run'[r].thread = Len(threads) + 1
        /\ \A q \in Runners \ {r} : run'[q] = run[q]
    BY <1>1, <1>2 DEF AttemptInv, TypeOK, Run
  <1>4. /\ Len(threads') = Len(threads) + 1 /\ Len(threads) \in Nat
        /\ \A t \in 1 .. Len(threads) : threads'[t] = threads[t]
    BY <1>1, <1>2
  <1>5. LeavesThreads(r)
    BY <1>4 DEF LeavesThreads, ThreadInv, InUse
  <1>6. TakesThread(r) /\ TakesList(r)
    BY <1>3, <1>4 DEF TakesThread, TakesList
  <1>7. WritesThreads(r)
    BY DEF WritesThreads
  <1> QED
    BY <1>3, <1>5, <1>6, <1>7, ThreadStep

LEMMA AttemptingThreads ==
  ASSUME AttemptInv, AttemptInv', ThreadInv, NEW r \in Runners, Attempting(r)
  PROVE  ThreadInv'
  <1>1. TypeOK /\ run[r] \in Run /\ run \in [Runners -> Run]
    BY DEF AttemptInv, TypeOK
  <1>2. CASE BeginAttempt(r)
    <2>1. CASE operation.status = "open"
      <3> DEFINE x == [run[r] EXCEPT !.at = "forking", !.generation = operation.active + 1]
      <3>1. /\ attempts' = Append(attempts, NewAttempt) /\ UNCHANGED <<threads, slice>>
            /\ run' = [run EXCEPT ![r] = x]
        BY <1>2, <2>1 DEF BeginAttempt
      <3>2. RowsRest
        <4>1. \A g \in DOMAIN attempts' :
                \/ attempts'[g] = NewAttempt
                \/ g \in DOMAIN attempts /\ attempts'[g] = attempts[g]
          BY <1>1, <3>1 DEF TypeOK
        <4> QED
          BY <3>1, <4>1 DEF RowsRest, NewAttempt
      <3>3. x.at \notin Using \cup Sweeps2
        BY <1>1 DEF Run, Using, Executing, Sweeps2
      <3> HIDE DEF x
      <3> QED
        BY <3>1, <3>2, <3>3, LetsGo
    <2>2. CASE operation.status # "open"
      <3>1. RowsRest /\ Ends(r)
        BY <1>2, <2>2 DEF BeginAttempt, RowsRest
      <3> QED
        BY <3>1, EndsThreads
    <2> QED
      BY <2>1, <2>2
  <1>3. CASE ForkThread(r)
    <2>1. /\ NewThread(r, "forking", "attaching") /\ UNCHANGED <<attempts, slice>>
          /\ "attaching" \in Steps \ (Turns \cup Sweeps2) /\ "forking" \notin Using
      BY <1>3 DEF ForkThread, Steps, Turns, Sweeps2, Using, Executing
    <2> QED
      BY <2>1, MakesThread
  <1>4. CASE ForkFails(r) \/ BindingFails(r) \/ TurnFails(r) \/ TurnIsInvalid(r)
    <2>1. /\ UNCHANGED <<threads, slice>>
          /\ attempts' = [attempts EXCEPT ![run[r].generation].state = "abandoned"]
          /\ Sweeps(r, PendingArchives', "idle") \/ Sweeps(r, PendingArchives', "failing")
      BY <1>4 DEF ForkFails, BindingFails, TurnFails, TurnIsInvalid, Abandons
    <2>2. /\ DOMAIN attempts' = DOMAIN attempts
          /\ \A g \in DOMAIN attempts : attempts'[g].thread = attempts[g].thread
      BY <1>1, <2>1, AttemptsIndex DEF Attempt
    <2>3. RowsRest /\ \A q \in Runners \ {r} : run'[q] = run[q]
      BY <1>1, <2>1, <2>2 DEF RowsRest, Sweeps
    <2>4. \A t \in PendingArchives' :
            /\ t \in 1 .. Len(threads)
            /\ \A q \in Runners \ {r} : run[q].at \in Using => run[q].thread # t
      BY <2>2, <2>3, DecidedUnused
    <2> QED
      BY <2>1, <2>3, <2>4, SweepsThreads
  <1>5. CASE AttachThread(r)
    <2>1. /\ run[r].at = "attaching" /\ UNCHANGED <<threads, slice>>
          /\ attempts' = [attempts EXCEPT ![run[r].generation] =
               [attempts[run[r].generation] EXCEPT !.thread = run[r].thread, !.state = "running",
                                                   !.archive = "pending"]]
          /\ run' = [run EXCEPT ![r].at = "binding"]
      BY <1>5 DEF AttachThread, At, Goes
    <2>2. /\ run'[r].at = "binding" /\ run'[r].thread = run[r].thread
          /\ run'[r].generation = run[r].generation
          /\ \A q \in Runners \ {r} : run'[q] = run[q]
      BY <1>1, <2>1 DEF Run
    <2>3. \A g \in DOMAIN attempts' :
            \/ g \in DOMAIN attempts /\ attempts'[g].thread = attempts[g].thread
            \/ attempts'[g].thread = run[r].thread /\ run[r].generation = g
      BY <1>1, <2>1, AttemptsIndex DEF Attempt
    <2>4. run[r].at \in Using /\ run'[r].at \in Executing \cap Using /\ run'[r].at \notin Turns
      BY <2>1, <2>2 DEF Using, Executing, Turns
    <2> QED
      BY <2>1, <2>2, <2>3, <2>4, KeepsThread
  <1>6. CASE BindCaptureThread(r)
    <2>1. /\ run[r].at = "binding" /\ UNCHANGED <<attempts, slice>>
          /\ threads' = [threads EXCEPT ![run[r].thread] = "internal"]
          /\ run' = [run EXCEPT ![r].at = "inventory"]
      BY <1>6 DEF BindCaptureThread, BindInternalThread, At, Goes
    <2>2. /\ run'[r].at = "inventory" /\ run'[r].thread = run[r].thread
          /\ run'[r].generation = run[r].generation
          /\ \A q \in Runners \ {r} : run'[q] = run[q]
      BY <1>1, <2>1 DEF Run
    <2>3. run[r].at \in Using /\ run'[r].at \in Executing \cap Using
      BY <2>1, <2>2 DEF Using, Executing
    <2>4. threads'[run[r].thread] = "internal"
      BY <1>1, <2>1, <2>3 DEF TypeOK, ThreadInv, InUse
    <2> QED
      BY <2>1, <2>2, <2>3, <2>4, KeepsThread
  <1>7. CASE InventoryIsValid(r) \/ ExtractionIsValid(r)
    <2>1. /\ run[r].at \in {"inventory", "extraction"} /\ UNCHANGED <<threads, slice>>
          /\ \/ run' = [run EXCEPT ![r].at = "extraction"]
             \/ \E output \in Outputs :
                  run' = [run EXCEPT ![r] = [run[r] EXCEPT !.at = "storing", !.output = output]]
      <3>1. CASE InventoryIsValid(r)
        BY <1>1, <3>1 DEF InventoryIsValid, AttachTurn, At, Goes, TypeOK
      <3>2. CASE ExtractionIsValid(r)
        BY <1>1, <3>2 DEF ExtractionIsValid, AttachTurn, At, TypeOK
      <3> QED
        BY <1>7, <3>1, <3>2
    <2>2. /\ run'[r].at \in {"extraction", "storing"} /\ run'[r].thread = run[r].thread
          /\ run'[r].generation = run[r].generation
          /\ \A q \in Runners \ {r} : run'[q] = run[q]
      <3>1. CASE run' = [run EXCEPT ![r].at = "extraction"]
        BY <1>1, <3>1 DEF Run
      <3>2. ASSUME NEW output \in Outputs,
                   run' = [run EXCEPT ![r] = [run[r] EXCEPT !.at = "storing", !.output = output]]
            PROVE  /\ run'[r].at = "storing" /\ run'[r].thread = run[r].thread
                   /\ run'[r].generation = run[r].generation
                   /\ \A q \in Runners \ {r} : run'[q] = run[q]
        BY <1>1, <3>2 DEF Run
      <3> QED
        BY <2>1, <3>1, <3>2
    <2>3. /\ run[r].at \in Using /\ run[r].at \in Turns
          /\ run'[r].at \in Executing \cap Using
      BY <2>1, <2>2 DEF Using, Executing, Turns
    <2>4. \A g \in DOMAIN attempts' :
            g \in DOMAIN attempts /\ attempts'[g].thread = attempts[g].thread
      <3>1. CASE InventoryIsValid(r)
        BY <1>1, <3>1, AttemptsIndex DEF InventoryIsValid, AttachTurn, At, Attempt
      <3>2. CASE ExtractionIsValid(r)
        BY <1>1, <3>2, AttemptsIndex DEF ExtractionIsValid, AttachTurn, At, Attempt
      <3> QED
        BY <1>7, <3>1, <3>2
    <2>5. threads'[run[r].thread] = "internal"
      BY <2>1, <2>3 DEF ThreadInv, InUse
    <2> QED
      BY <2>1, <2>2, <2>3, <2>4, <2>5, KeepsThread
  <1>8. CASE StoreValidatedAttempt(r)
    <2>1. UNCHANGED <<threads, slice>> /\ Goes(r, "committing")
      BY <1>8 DEF StoreValidatedAttempt
    <2>2. \A g \in DOMAIN attempts' :
            g \in DOMAIN attempts /\ attempts'[g].thread = attempts[g].thread
      BY <1>1, <1>8, AttemptsIndex DEF StoreValidatedAttempt, Attempt
    <2>3. RowsRest /\ "committing" \in Steps /\ "committing" \notin Using \cup Sweeps2
      BY <2>1, <2>2 DEF RowsRest, Steps, Using, Executing, Sweeps2
    <2> QED
      BY <2>1, <2>3, GoesThreads
  <1>9. CASE CommitAttempt(r)
    <2>1. /\ \/ Carry(r, operation'.output, PendingArchives')
             \/ Sweeps(r, PendingArchives', "idle")
          /\ UNCHANGED <<threads, slice>>
      BY <1>9 DEF CommitAttempt
    <2>2. /\ DOMAIN attempts' = DOMAIN attempts
          /\ \A g \in DOMAIN attempts : attempts'[g].thread = attempts[g].thread
      BY <1>9, CommitFacts
    <2>3. RowsRest /\ \A q \in Runners \ {r} : run'[q] = run[q]
      BY <1>1, <2>1, <2>2 DEF RowsRest, Sweeps, Carry
    <2>4. \A t \in PendingArchives' :
            /\ t \in 1 .. Len(threads)
            /\ \A q \in Runners \ {r} : run[q].at \in Using => run[q].thread # t
      BY <2>2, <2>3, DecidedUnused
    <2> QED
      BY <2>1, <2>3, <2>4, SweepsThreads, SweepsFresh
  <1>10. CASE FailTerminal(r)
    <2>1. RowsRest /\ Ends(r)
      BY <1>10 DEF FailTerminal, RowsRest
    <2> QED
      BY <2>1, EndsThreads
  <1> QED
    BY <1>2, <1>3, <1>4, <1>5, <1>6, <1>7, <1>8, <1>9, <1>10 DEF Attempting

LEMMA ReconcilingThreads ==
  ASSUME AttemptInv, ThreadInv, NEW r \in Runners, Reconciling(r)
  PROVE  ThreadInv'
  <1>1. TypeOK /\ run[r] \in Run /\ run \in [Runners -> Run] /\ UNCHANGED attempts
    BY DEF AttemptInv, TypeOK, Reconciling, StoreEmpty, OpenReconciliation, Reconcile, StartThread,
       StartFails, BindReconciliationThread, ReconciliationFails, StoreReconciliation
  <1>2. CASE OpenReconciliation(r)
    <2>1. RowsRest /\ Sweeps(r, PendingSliceArchive, "persisted?")
      BY <1>2 DEF OpenReconciliation, RowsRest
    <2>2. \A t \in PendingSliceArchive :
            /\ t \in 1 .. Len(threads)
            /\ \A q \in Runners \ {r} : run[q].at \in Using => run[q].thread # t
      BY PendingUnused
    <2> QED
      BY <2>1, <2>2, SweepsThreads
  <1>3. CASE Reconcile(r)
    <2>1. RowsRest /\ (Ends(r) \/ Goes(r, "starting"))
      BY <1>3 DEF Reconcile, RowsRest
    <2>2. "starting" \in Steps /\ "starting" \notin Using \cup Sweeps2
      BY DEF Steps, Using, Executing, Sweeps2
    <2> QED
      BY <2>1, <2>2, EndsThreads, GoesThreads
  <1>9. CASE StoreEmpty(r)
    <2>1. /\ UNCHANGED threads /\ slice'.thread \in {slice.thread, NoThread} /\ Ends(r)
      <3>1. PICK from \in {NoOutput, run[r].output} : StoresSlice(Empty, from, NoThread)
        BY <1>9 DEF StoreEmpty
      <3>2. slice'.thread \in {slice.thread, NoThread}
        BY <3>1 DEF StoresSlice
      <3> QED
        BY <1>9, <3>2 DEF StoreEmpty
    <2>2. /\ run'[r].at \notin Using \cup Sweeps2
          /\ \A q \in Runners \ {r} : run'[q] = run[q]
      BY <1>1, <2>1 DEF Ends, Idle, Using, Executing, Sweeps2
    <2>3. LeavesThreads(r)
      BY <1>1, <2>1 DEF LeavesThreads, TypeOK
    <2>4. TakesThread(r) /\ TakesList(r)
      BY <2>2 DEF TakesThread, TakesList
    <2>5. WritesThreads(r)
      BY <1>1, <2>1 DEF WritesThreads
    <2> QED
      BY <2>2, <2>3, <2>4, <2>5, ThreadStep
  <1>4. CASE StartThread(r)
    <2>1. /\ NewThread(r, "starting", "binding reconciliation") /\ UNCHANGED <<attempts, slice>>
          /\ "binding reconciliation" \in Steps \ (Turns \cup Sweeps2) /\ "starting" \notin Using
      BY <1>4 DEF StartThread, Steps, Turns, Sweeps2, Using, Executing
    <2> QED
      BY <2>1, MakesThread
  <1>5. CASE StartFails(r)
    <2>1. RowsRest /\ Ends(r)
      BY <1>5 DEF StartFails, RowsRest
    <2> QED
      BY <2>1, EndsThreads
  <1>6. CASE BindReconciliationThread(r)
    <2>1. /\ run[r].at = "binding reconciliation" /\ UNCHANGED <<attempts, slice>>
          /\ threads' = [threads EXCEPT ![run[r].thread] = "internal"]
          /\ run' = [run EXCEPT ![r].at = "deciding"]
      BY <1>6 DEF BindReconciliationThread, BindInternalThread, At, Goes
    <2>2. /\ run'[r].at = "deciding" /\ run'[r].thread = run[r].thread
          /\ run'[r].generation = run[r].generation
          /\ \A q \in Runners \ {r} : run'[q] = run[q]
      BY <1>1, <2>1 DEF Run
    <2>3. run[r].at \in Using /\ run[r].at \notin Executing /\ run'[r].at \in Using
      BY <2>1, <2>2 DEF Using, Executing
    <2>4. threads'[run[r].thread] = "internal"
      <3>1. run[r].thread \in 1 .. Len(threads)
        BY <2>3 DEF ThreadInv, InUse
      <3>2. threads \in Seq({"new", "internal", "archived"})
        BY <1>1 DEF TypeOK
      <3>3. run[r].thread \in DOMAIN threads
        BY <3>1, <3>2
      <3> QED
        BY <2>1, <3>3
    <2> QED
      BY <2>1, <2>2, <2>3, <2>4, KeepsThread
  <1>7. CASE ReconciliationFails(r)
    <2>1. /\ run[r].at \in Using /\ UNCHANGED <<attempts, slice>> /\ Ends(r)
          /\ threads' \in {threads, [threads EXCEPT ![run[r].thread] = "archived"]}
      BY <1>7 DEF ReconciliationFails, Using
    <2>2. /\ run'[r].at \notin Using \cup Sweeps2
          /\ \A q \in Runners \ {r} : run'[q] = run[q]
      BY <1>1, <2>1 DEF Ends, Idle, Using, Executing, Sweeps2
    <2>3. LeavesThreads(r)
      <3>1. Len(threads') = Len(threads) /\ Len(threads) \in Nat
        BY <1>1, <2>1 DEF TypeOK
      <3>2. ASSUME NEW q \in Runners \ {r}, run[q].at \in Using
            PROVE  threads'[run[q].thread] = threads[run[q].thread]
        <4>1. run[q].thread \in 1 .. Len(threads) /\ run[q].thread # run[r].thread
          BY <2>1, <3>2 DEF ThreadInv, InUse, Apart
        <4> QED
          BY <1>1, <2>1, <4>1 DEF TypeOK
      <3> QED
        BY <3>1, <3>2 DEF LeavesThreads
    <2>4. TakesThread(r) /\ TakesList(r)
      BY <2>2 DEF TakesThread, TakesList
    <2>5. WritesThreads(r)
      BY <2>1 DEF WritesThreads
    <2> QED
      BY <2>2, <2>3, <2>4, <2>5, ThreadStep
  <1>8. CASE StoreReconciliation(r)
    <2>1. /\ run[r].at = "deciding" /\ UNCHANGED threads
          /\ slice'.thread \in {slice.thread, run[r].thread}
          /\ Sweeps(r, {run[r].thread}, "idle") \/ Ends(r)
      BY <1>8 DEF StoreReconciliation, StoresSlice, At
    <2>2. run[r].at \in Using
      BY <2>1 DEF Using
    <2>3. /\ run'[r].at \notin Using
          /\ run'[r].at \in Sweeps2 => run'[r].todo = {run[r].thread}
          /\ \A q \in Runners \ {r} : run'[q] = run[q]
      <3>1. CASE Ends(r)
        BY <1>1, <3>1 DEF Ends, Idle, Using, Executing, Sweeps2
      <3>2. CASE Sweeps(r, {run[r].thread}, "idle")
        <4> DEFINE x == [run[r] EXCEPT !.at = "sweeping", !.todo = {run[r].thread}, !.next = "idle"]
        <4>1. run' = [run EXCEPT ![r] = x]
          BY <3>2 DEF Sweeps
        <4>2. x.at = "sweeping" /\ x.todo = {run[r].thread}
          BY <1>1 DEF Run
        <4> HIDE DEF x
        <4> QED
          BY <1>1, <4>1, <4>2 DEF Using, Executing
      <3> QED
        BY <2>1, <3>1, <3>2
    <2>4. LeavesThreads(r)
      BY <1>1, <2>1 DEF LeavesThreads, TypeOK
    <2>5. TakesThread(r)
      BY <2>3 DEF TakesThread
    <2>6. TakesList(r)
      <3>1. /\ run[r].thread \in 1 .. Len(threads')
            /\ \A q \in Runners \ {r} : run[q].at \in Using => run[q].thread # run[r].thread
        BY <2>1, <2>2 DEF ThreadInv, InUse, Apart
      <3> QED
        BY <2>3, <3>1 DEF TakesList
    <2>7. WritesThreads(r)
      BY <1>1, <2>1, <2>2, <2>3 DEF WritesThreads
    <2> QED
      BY <2>3, <2>4, <2>5, <2>6, <2>7, ThreadStep
  <1> QED
    BY <1>2, <1>3, <1>4, <1>5, <1>6, <1>7, <1>8, <1>9 DEF Reconciling

LEMMA ThreadNext ==
  ASSUME AttemptInv, AttemptInv', ThreadInv, [Next]_vars
  PROVE  ThreadInv'
  <1>1. CASE UNCHANGED vars
    BY <1>1 DEF vars, ThreadInv, InUse, Apart, Known
  <1>2. CASE Next
    <2>1. PICK r \in Runners :
            Sweeping(r) \/ Opening(r) \/ Attempting(r) \/ Reconciling(r) \/ CutOff(r)
      BY <1>2 DEF Next
    <2>2. CASE CutOff(r)
      <3>1. RowsRest /\ Ends(r)
        BY <2>2 DEF CutOff, RowsRest
      <3> QED
        BY <3>1, EndsThreads
    <2> QED
      BY <2>1, <2>2, SweepingThreads, OpeningThreads, AttemptingThreads, ReconcilingThreads
  <1> QED
    BY <1>1, <1>2

(* While a model Turn of a run is going its Thread is open and internal:    *)
(* no sweep of any run, and no row, has that Thread.                        *)
THEOREM OpenThreadsCorrect == Spec => []TurnsRunInOpenThreads
  <1>1. Init => ThreadInv
    BY ThreadInit
  <1>2. AttemptInv /\ AttemptInv' /\ ThreadInv /\ [Next]_vars => ThreadInv'
    BY ThreadNext
  <1>3. ThreadInv => TurnsRunInOpenThreads
    BY DEF ThreadInv, InUse, TurnsRunInOpenThreads, Using, Executing, Turns
  <1> QED
    BY <1>1, <1>2, <1>3, AttemptAlways, PTL DEF Spec
=============================================================================
