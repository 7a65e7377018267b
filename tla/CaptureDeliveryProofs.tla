----------------------- MODULE CaptureDeliveryProofs -----------------------
(***************************************************************************)
(* First CaptureGroups alone, for every set of repositories, actions,        *)
(* devices, routes and batches and for every lease and retry schedule.       *)
(*                                                                          *)
(* Then the composition of Agents with Central: it only takes steps           *)
(* CaptureGroups allows, so that every theorem about Central holds of it;    *)
(* and a device's local records are well typed, are never ahead of what      *)
(* Central knows, and only move forward.                                    *)
(***************************************************************************)
EXTENDS CaptureDelivery, TLAPS

(* The history of claims has one entry per attempt, so a token a device    *)
(* can present names a claim that was made.                                *)
IssuedOK == \A r \in Requests : Len(issued[r]) = attempts[r]

-----------------------------------------------------------------------------
(* Type correctness, action by action.                                     *)

LEMMA InitTypeOK == Init => TypeOK /\ IssuedOK
  <1> SUFFICES ASSUME Init PROVE TypeOK /\ IssuedOK
    OBVIOUS
  <1>1. FamilyTypeOK
    BY DEF Init, FamilyInit, FamilyTypeOK
  <1>2. TypeOK
    BY <1>1 DEF Init, TypeOK, States, Null, Unplanned, NoReceipts, Receipts,
                EventCodes
  <1>3. IssuedOK
    BY DEF Init, IssuedOK
  <1> QED  BY <1>2, <1>3

LEMMA CreateGroupTypeOK ==
  ASSUME TypeOK, NEW u \in Users, NEW p \in Repositories,
         NEW ca \in ClientActions, CreateGroup(u, p, ca)
  PROVE  TypeOK'
  <1> DEFINE r == <<p, ca>>
  <1>1. r \in Requests
    BY DEF Requests
  <1> HIDE DEF r
  <1>2. /\ state' = [state EXCEPT ![r] = "queued"]
        /\ snapshot' = [snapshot EXCEPT ![r] = routeHeads[p]]
        /\ actions' = [actions EXCEPT ![<<u, ca>>] = r]
        /\ created' = Append(created, r)
        /\ lastEvent' = [lastEvent EXCEPT ![r] = "request_queued"]
        /\ UNCHANGED <<configVars, leaseVars, sliceVars, writer, familyVars>>
    BY DEF CreateGroup, r
  <1>3. state' \in [Requests -> States] /\ snapshot' \in [Requests -> SUBSET Routes]
    BY <1>1, <1>2 DEF TypeOK, States, ActiveStates
  <1>4. actions' \in [Users \X ClientActions -> Requests \cup {NoRequest}]
    BY <1>1, <1>2 DEF TypeOK
  <1>5. created' \in Seq(Requests) /\ lastEvent' \in [Requests -> EventCodes]
    BY <1>1, <1>2 DEF TypeOK, EventCodes
  <1> QED
    BY <1>2, <1>3, <1>4, <1>5
       DEF TypeOK, FamilyTypeOK, familyVars, configVars, leaseVars, sliceVars

LEMMA OperateTypeOK ==
  ASSUME TypeOK, Operate
  PROVE  TypeOK'
  <1>1. ASSUME NEW x \in Toggled, SetEnabled(x) PROVE TypeOK'
    BY <1>1, ToggledAssumption
       DEF SetEnabled, TypeOK, FamilyTypeOK, familyVars, identityVars, leaseVars,
           sliceVars
  <1>2. ASSUME NEW p \in Repositories, NEW routes \in RouteHeads[p],
               ReplaceRouteHeads(p, routes)
        PROVE  TypeOK'
    BY <1>2, FamilyAssumption, GroupAssumption
    DEF ReplaceRouteHeads, TypeOK, FamilyTypeOK, familyVars, identityVars,
                leaseVars, sliceVars
  <1> QED  BY <1>1, <1>2 DEF Operate

LEMMA RequeuedType ==
  ASSUME NEW S, NEW column \in [Requests -> S], NEW value \in S
  PROVE  Requeued(column, value) \in [Requests -> S]
  BY DEF Requeued

(* What requeueing writes into each column is of the column's type.        *)
LEMMA RequeuedColumns ==
  ASSUME TypeOK
  PROVE  /\ Requeued(state, "queued") \in [Requests -> States]
         /\ Requeued(holder, NoDevice) \in [Requests -> Devices \cup {NoDevice}]
         /\ Requeued(token, 0) \in [Requests -> Nat]
         /\ Requeued(lease, Null) \in [Requests -> Nat \cup {Null}]
         /\ Requeued(retry, Null) \in [Requests -> Nat \cup {Null}]
         /\ Requeued(lastEvent, "lease_expired_requeued")
              \in [Requests -> EventCodes]
  <1>1. "queued" \in States /\ "lease_expired_requeued" \in EventCodes
    BY DEF States, ActiveStates, EventCodes
  <1>2. /\ state \in [Requests -> States]
        /\ holder \in [Requests -> Devices \cup {NoDevice}]
        /\ token \in [Requests -> Nat]
        /\ lease \in [Requests -> Nat \cup {Null}]
        /\ retry \in [Requests -> Nat \cup {Null}]
        /\ lastEvent \in [Requests -> EventCodes]
    BY DEF TypeOK
  <1> HIDE DEF States, EventCodes
  <1> QED  BY <1>1, <1>2, RequeuedType

LEMMA ClaimNextGroupTypeOK ==
  ASSUME TypeOK, IssuedOK, NEW d \in Devices, NEW r \in Requests,
         ClaimNextGroup(d, r)
  PROVE  TypeOK' /\ IssuedOK'
  <1>1. /\ state' = [Requeued(state, "queued") EXCEPT ![r] = "claimed"]
        /\ holder' = [Requeued(holder, NoDevice) EXCEPT ![r] = d]
        /\ token' = [Requeued(token, 0) EXCEPT ![r] = attempts[r] + 1]
        /\ lease' = [Requeued(lease, Null) EXCEPT ![r] = LeaseSeconds]
        /\ retry' = [Requeued(retry, Null) EXCEPT ![r] = Null]
        /\ lastEvent' = [Requeued(lastEvent, "lease_expired_requeued")
                           EXCEPT ![r] = "device_claimed"]
    BY DEF ClaimNextGroup
  <1>2. attempts \in [Requests -> Nat] /\ issued \in [Requests -> Seq(Devices)]
    BY DEF TypeOK
  <1>3. /\ attempts' = [attempts EXCEPT ![r] = @ + 1]
        /\ issued' = [issued EXCEPT ![r] = Append(@, d)]
        /\ UNCHANGED <<configVars, identityVars, sliceVars, writer, familyVars>>
    BY DEF ClaimNextGroup
  <1>4. state' \in [Requests -> States]
    BY <1>1, RequeuedColumns DEF States, ActiveStates
  <1>5. /\ holder' \in [Requests -> Devices \cup {NoDevice}]
        /\ token' \in [Requests -> Nat]
    BY <1>1, <1>2, RequeuedColumns
  <1>6. /\ lease' \in [Requests -> Nat \cup {Null}]
        /\ retry' \in [Requests -> Nat \cup {Null}]
    BY <1>1, RequeuedColumns, GroupAssumption
  <1>7. lastEvent' \in [Requests -> EventCodes]
    BY <1>1, RequeuedColumns, GroupAssumption DEF EventCodes
  <1>8. attempts' \in [Requests -> Nat] /\ issued' \in [Requests -> Seq(Devices)]
    BY <1>2, <1>3
  <1>9. TypeOK'
    BY <1>3, <1>4, <1>5, <1>6, <1>7, <1>8
       DEF TypeOK, FamilyTypeOK, familyVars, configVars, identityVars, sliceVars
  <1>10. IssuedOK'
    BY <1>2, <1>3 DEF IssuedOK
  <1> QED  BY <1>9, <1>10

LEMMA RequeueDueGroupsTypeOK ==
  ASSUME TypeOK, RequeueDueGroups
  PROVE  TypeOK'
  BY RequeuedColumns
     DEF RequeueDueGroups, TypeOK, FamilyTypeOK, familyVars, configVars,
         identityVars, sliceVars

LEMMA TickTypeOK ==
  ASSUME TypeOK, Tick
  PROVE  TypeOK'
  <1>1. ASSUME NEW deadline \in [Requests -> Nat \cup {Null}]
        PROVE  Elapse(deadline) \in [Requests -> Nat \cup {Null}]
    BY <1>1 DEF Elapse, Null
  <1>2. lease' = Elapse(lease) /\ retry' = Elapse(retry)
    BY DEF Tick
  <1>3. /\ lease' \in [Requests -> Nat \cup {Null}]
        /\ retry' \in [Requests -> Nat \cup {Null}]
    BY <1>1, <1>2 DEF TypeOK
  <1> QED
    BY <1>3 DEF Tick, TypeOK, FamilyTypeOK, familyVars, configVars, identityVars,
                sliceVars

LEMMA SaveBatchTypeOK ==
  ASSUME FamilyTypeOK, NEW batch \in Batches, NEW rt \in Routes,
         NEW boundary \in Boundaries, SaveBatch(batch, rt, boundary)
  PROVE  FamilyTypeOK'
  <1>1. \A item \in batch : item \in Item
    BY FamilyAssumption, GroupAssumption
  <1>2. revisions' \subseteq Item
    BY <1>1 DEF SaveBatch, FamilyTypeOK
  <1>3. head' \in [Families -> Nat]
    <2>1. ASSUME NEW f \in Families, \E item \in batch : item.family = f
          PROVE  (CHOOSE item \in batch : item.family = f).revision \in Nat
      BY <1>1, <2>1 DEF Item
    <2> QED  BY <2>1 DEF SaveBatch, NewHeads, FamilyTypeOK
  <1>4. ownership' \subseteq Ownership
    BY <1>1 DEF SaveBatch, FamilyTypeOK, Ownership, Item
  <1> QED  BY <1>2, <1>3, <1>4 DEF FamilyTypeOK

(* A failure that may still be retried finds its delay in _RETRY_DELAYS.    *)
LEMMA RetryDelayExists ==
  ASSUME NEW r \in Requests, attempts[r] \in Nat, attempts[r] >= 1,
         NEW retryable \in BOOLEAN, CanRetry(r, retryable)
  PROVE  RetryDelays[attempts[r]] \in Nat
  BY GroupAssumption DEF CanRetry

LEMMA DeviceCallTypeOK ==
  ASSUME TypeOK, NEW d \in Devices, NEW r \in Requests, NEW t \in HandedTo(d, r),
         DeviceCall(d, r, t)
  PROVE  TypeOK'
  <1>1. t \in Nat /\ attempts[r] \in Nat
    BY DEF HandedTo, TypeOK
  <1>2. writer' = [writer EXCEPT ![r] = t] => writer' \in [Requests -> Nat]
    BY <1>1 DEF TypeOK
  <1> HIDE DEF HandedTo
  <1>3. CASE StartGroup(d, r, t)
    BY <1>2, <1>3 DEF StartGroup, TypeOK, FamilyTypeOK, States, ActiveStates,
       EventCodes, familyVars, configVars, identityVars, leaseVars, sliceVars
  <1>4. CASE HeartbeatGroup(d, r, t)
    BY <1>2, <1>4, GroupAssumption DEF HeartbeatGroup, TypeOK, FamilyTypeOK, familyVars,
       configVars, identityVars, sliceVars
  <1>5. CASE RecordGroupProgress(d, r, t)
    BY <1>2, <1>5 DEF RecordGroupProgress, TypeOK, FamilyTypeOK, EventCodes,
       familyVars, configVars, identityVars, leaseVars, sliceVars
  <1>6. ASSUME NEW selected \in SUBSET snapshot[r],
               NEW boundary \in [selected -> Boundaries],
               PlanSlices(d, r, t, selected, boundary)
        PROVE  TypeOK'
    <2>1. plan' \in [Requests -> [Routes -> Boundaries \cup {NoBoundary}]]
      BY <1>6 DEF PlanSlices, TypeOK
    <2> QED
      BY <1>2, <1>6, <2>1 DEF PlanSlices, TypeOK, FamilyTypeOK, familyVars,
         configVars, identityVars, leaseVars
  <1>7. CASE PlanNothing(d, r, t)
    <2>1. /\ state' \in [Requests -> States]
          /\ lease' \in [Requests -> Nat \cup {Null}]
          /\ lastEvent' \in [Requests -> EventCodes]
      BY <1>7 DEF PlanNothing, TypeOK, States, TerminalStates, SuccessStates,
                  EventCodes
    <2>2. result' \in [Requests -> Receipts \cup {NoResult}]
      BY <1>7 DEF PlanNothing, TypeOK, Receipts, NoReceipts
    <2> QED
      BY <1>2, <1>7, <2>1, <2>2 DEF PlanNothing, TypeOK, FamilyTypeOK,
         familyVars, configVars, identityVars
  <1>8. ASSUME NEW rt \in Routes, NEW batch \in Batches,
               AcceptSliceBatch(d, r, t, rt, batch)
        PROVE  TypeOK'
    <2>1. plan[r][rt] \in Boundaries
      BY <1>8 DEF AcceptSliceBatch, PlannedRoutes, TypeOK
    <2>2. FamilyTypeOK'
      BY <1>8, <2>1, SaveBatchTypeOK DEF AcceptSliceBatch, TypeOK
    <2>3. receipt' \in [Requests -> Receipts]
      BY <1>8 DEF AcceptSliceBatch, TypeOK, Receipts
    <2> QED
      BY <1>2, <1>8, <2>2, <2>3 DEF AcceptSliceBatch, TypeOK, configVars,
         identityVars, leaseVars
  <1>9. CASE CompleteGroup(d, r, t)
    <2>1. /\ state' \in [Requests -> States]
          /\ lease' \in [Requests -> Nat \cup {Null}]
          /\ lastEvent' \in [Requests -> EventCodes]
      BY <1>9 DEF CompleteGroup, TypeOK, States, TerminalStates, SuccessStates,
                  EventCodes
    <2>2. result' \in [Requests -> Receipts \cup {NoResult}]
      BY <1>9 DEF CompleteGroup, TypeOK
    <2> QED
      BY <1>2, <1>9, <2>1, <2>2 DEF CompleteGroup, TypeOK, FamilyTypeOK,
         familyVars, configVars, identityVars
  <1>10. ASSUME NEW retryable \in BOOLEAN, FailGroup(d, r, t, retryable)
         PROVE  TypeOK'
    <2>1. /\ state' \in [Requests -> States]
          /\ lastEvent' \in [Requests -> EventCodes]
      BY <1>10 DEF FailGroup, TypeOK, States, ActiveStates, TerminalStates,
                   EventCodes
    <2>2. t >= 1 /\ attempts[r] >= 1
      BY <1>1 DEF HandedTo
    <2>3. CanRetry(r, retryable) => RetryDelays[attempts[r]] \in Nat
      BY <1>1, <2>2, RetryDelayExists
    <2>4. retry' \in [Requests -> Nat \cup {Null}]
      BY <1>10, <2>3 DEF FailGroup, TypeOK
    <2>5. /\ holder' \in [Requests -> Devices \cup {NoDevice}]
          /\ token' \in [Requests -> Nat]
          /\ lease' \in [Requests -> Nat \cup {Null}]
      BY <1>10 DEF FailGroup, GiveUpLease, TypeOK
    <2> QED
      BY <1>2, <1>10, <2>1, <2>4, <2>5 DEF FailGroup, TypeOK, FamilyTypeOK,
         familyVars, configVars, identityVars, sliceVars
  <1> QED
    BY <1>3, <1>4, <1>5, <1>6, <1>7, <1>8, <1>9, <1>10 DEF DeviceCall

(* Only a claim touches the history of claims.                             *)
LEMMA IssuedStep ==
  ASSUME TypeOK, IssuedOK, [Next]_vars
  PROVE  IssuedOK'
  <1>1. ASSUME NEW d \in Devices, NEW r \in Requests, ClaimNextGroup(d, r)
        PROVE  IssuedOK'
    BY <1>1, ClaimNextGroupTypeOK
  <1>2. UNCHANGED <<attempts, issued>> => IssuedOK'
    BY DEF IssuedOK
  <1>3. ASSUME NEW d \in Devices, NEW r \in Requests, NEW t \in HandedTo(d, r),
               DeviceCall(d, r, t)
        PROVE  UNCHANGED <<attempts, issued>>
    BY <1>3 DEF DeviceCall, StartGroup, HeartbeatGroup, RecordGroupProgress,
       PlanSlices, PlanNothing, AcceptSliceBatch, CompleteGroup, FailGroup,
       leaseVars
  <1>4. Tick \/ RequeueDueGroups \/ Operate \/ UNCHANGED vars
          => UNCHANGED <<attempts, issued>>
    BY DEF Tick, RequeueDueGroups, Operate, SetEnabled, ReplaceRouteHeads,
           leaseVars, vars
  <1>5. ASSUME NEW u \in Users, NEW p \in Repositories, NEW ca \in ClientActions,
               CreateGroup(u, p, ca)
        PROVE  UNCHANGED <<attempts, issued>>
    BY <1>5 DEF CreateGroup, leaseVars
  <1> QED
    BY <1>1, <1>2, <1>3, <1>4, <1>5 DEF Next

LEMMA NextTypeOK ==
  ASSUME TypeOK, IssuedOK, [Next]_vars
  PROVE  TypeOK' /\ IssuedOK'
  <1>1. CASE UNCHANGED vars
    BY <1>1 DEF vars, TypeOK, FamilyTypeOK, familyVars, configVars, identityVars,
                leaseVars, sliceVars, IssuedOK
  <1>2. CASE Next
    BY <1>2, IssuedStep, CreateGroupTypeOK, OperateTypeOK, ClaimNextGroupTypeOK,
       RequeueDueGroupsTypeOK, DeviceCallTypeOK, TickTypeOK DEF Next
  <1> QED  BY <1>1, <1>2

(* Every state Central can reach is well typed: every deadline is a number *)
(* of ticks or NULL, every stored token names a claim that was made.       *)
THEOREM TypeCorrect == Spec => [](TypeOK /\ IssuedOK)
  <1>1. Init => TypeOK /\ IssuedOK
    BY InitTypeOK
  <1>2. (TypeOK /\ IssuedOK) /\ [Next]_vars => (TypeOK /\ IssuedOK)'
    BY NextTypeOK
  <1> QED  BY <1>1, <1>2, PTL DEF Spec

-----------------------------------------------------------------------------
(* Safety: every lease is backed by the newest claim, every deadline is     *)
(* scheduled and every receipt belongs to a planned slice.                  *)

LeaseInv == TypeOK /\ IssuedOK /\ WakeupScheduled

-----------------------------------------------------------------------------
(* Leases and deadlines.                                                   *)

LEMMA InitWakeup == Init => WakeupScheduled
  BY DEF Init, WakeupScheduled, LeasedStates, Null

LEMMA CreateWakeup ==
  ASSUME LeaseInv, NEW u \in Users, NEW p \in Repositories,
         NEW ca \in ClientActions, CreateGroup(u, p, ca)
  PROVE  WakeupScheduled'
  <1> DEFINE r == <<p, ca>>
  <1>1. r \in Requests
    BY DEF Requests
  <1>2. state[r] = "absent" /\ state' = [state EXCEPT ![r] = "queued"]
    BY DEF CreateGroup
  <1>3. UNCHANGED leaseVars
    BY DEF CreateGroup
  <1> HIDE DEF r
  <1> QED
    BY <1>1, <1>2, <1>3 DEF LeaseInv, TypeOK, WakeupScheduled, leaseVars,
       LeasedStates

LEMMA ClaimWakeup ==
  ASSUME LeaseInv, NEW d \in Devices, NEW r \in Requests, ClaimNextGroup(d, r)
  PROVE  WakeupScheduled'
  <1>1. attempts[r] \in Nat /\ attempts'[r] = attempts[r] + 1
    BY DEF LeaseInv, TypeOK, ClaimNextGroup
  <1>2. \A q \in Requests \ {r} : attempts'[q] = attempts[q]
    BY DEF LeaseInv, TypeOK, ClaimNextGroup
  <1>3. /\ state'[r] = "claimed" /\ lease'[r] = LeaseSeconds /\ retry'[r] = Null
        /\ holder'[r] = d /\ token'[r] = attempts[r] + 1
    BY DEF ClaimNextGroup, Requeued
  <1>4. ASSUME NEW q \in Requests \ {r}
        PROVE  /\ state'[q] = IF Due(q) THEN "queued" ELSE state[q]
               /\ lease'[q] = IF Due(q) THEN Null ELSE lease[q]
               /\ retry'[q] = IF Due(q) THEN Null ELSE retry[q]
               /\ holder'[q] = IF Due(q) THEN NoDevice ELSE holder[q]
               /\ token'[q] = IF Due(q) THEN 0 ELSE token[q]
    BY DEF ClaimNextGroup, Requeued
  <1>5. LeaseSeconds # Null /\ d # NoDevice
    BY GroupAssumption DEF Null
  <1> QED
    BY <1>1, <1>2, <1>3, <1>4, <1>5 DEF LeaseInv, WakeupScheduled, LeasedStates

LEMMA RequeueWakeup ==
  ASSUME LeaseInv, RequeueDueGroups
  PROVE  WakeupScheduled'
  BY DEF LeaseInv, WakeupScheduled, RequeueDueGroups, Requeued, LeasedStates, Null

LEMMA TickWakeup ==
  ASSUME LeaseInv, Tick
  PROVE  WakeupScheduled'
  <1>1. \A r \in Requests : /\ lease'[r] = Null <=> lease[r] = Null
                            /\ retry'[r] = Null <=> retry[r] = Null
    BY DEF LeaseInv, TypeOK, Tick, Elapse, Null
  <1> QED
    BY <1>1 DEF LeaseInv, WakeupScheduled, Tick

(* A call with a live lease is made with the token of the newest claim.    *)
LEMMA LiveLeaseIsNewest ==
  ASSUME LeaseInv, NEW d \in Devices, NEW r \in Requests, NEW t,
         LiveLease(d, r, t)
  PROVE  state[r] \in LeasedStates /\ t = attempts[r]
  BY DEF LeaseInv, TypeOK, WakeupScheduled, LiveLease, Holds, Null

LEMMA DeviceWakeup ==
  ASSUME LeaseInv, NEW d \in Devices, NEW r \in Requests, NEW t \in HandedTo(d, r),
         DeviceCall(d, r, t)
  PROVE  WakeupScheduled'
  <1> USE DEF LeaseInv, TypeOK, WakeupScheduled, LeasedStates
  <1>1. CASE StartGroup(d, r, t)
    BY <1>1 DEF StartGroup, leaseVars
  <1>2. CASE HeartbeatGroup(d, r, t)
    BY <1>2, GroupAssumption DEF HeartbeatGroup, Null
  <1>3. CASE RecordGroupProgress(d, r, t)
    BY <1>3 DEF RecordGroupProgress, leaseVars
  <1>4. ASSUME NEW selected, NEW boundary, PlanSlices(d, r, t, selected, boundary)
        PROVE  WakeupScheduled'
    BY <1>4 DEF PlanSlices, leaseVars
  <1>5. CASE PlanNothing(d, r, t)
    BY <1>5 DEF PlanNothing
  <1>6. ASSUME NEW rt, NEW batch, AcceptSliceBatch(d, r, t, rt, batch)
        PROVE  WakeupScheduled'
    BY <1>6 DEF AcceptSliceBatch, leaseVars
  <1>7. CASE CompleteGroup(d, r, t)
    <2>1. state'[r] \notin LeasedStates /\ state'[r] # "failed_retryable"
      BY <1>7 DEF CompleteGroup
    <2>2. \A q \in Requests \ {r} : state'[q] = state[q] /\ lease'[q] = lease[q]
      BY <1>7 DEF CompleteGroup
    <2>3. lease'[r] = Null /\ UNCHANGED <<attempts, holder, token, retry>>
      BY <1>7 DEF CompleteGroup
    <2> QED  BY <2>1, <2>2, <2>3
  <1>8. ASSUME NEW retryable \in BOOLEAN, FailGroup(d, r, t, retryable)
        PROVE  WakeupScheduled'
    <2>1. /\ state'[r] = IF CanRetry(r, retryable) THEN "failed_retryable"
                                                    ELSE "failed_terminal"
          /\ lease'[r] = Null /\ token'[r] = 0
          /\ retry'[r] = IF CanRetry(r, retryable) THEN RetryDelays[attempts[r]]
                                                    ELSE Null
      BY <1>8 DEF FailGroup, GiveUpLease
    <2>2. \A q \in Requests \ {r} :
            /\ state'[q] = state[q] /\ lease'[q] = lease[q]
            /\ retry'[q] = retry[q] /\ holder'[q] = holder[q]
            /\ token'[q] = token[q] /\ attempts'[q] = attempts[q]
      BY <1>8 DEF FailGroup, GiveUpLease
    <2>3. attempts[r] \in Nat /\ attempts[r] >= 1
      BY DEF HandedTo
    <2>4. CanRetry(r, retryable) => RetryDelays[attempts[r]] \in Nat
      BY <2>3, RetryDelayExists
    <2>5. \A q \in Requests \ {r} :
            /\ state'[q] \in LeasedStates =>
                 /\ lease'[q] # Null /\ retry'[q] = Null
                 /\ holder'[q] # NoDevice /\ token'[q] = attempts'[q] /\ token'[q] > 0
            /\ state'[q] = "failed_retryable" =>
                 /\ retry'[q] # Null /\ lease'[q] = Null /\ token'[q] = 0
            /\ state'[q] \notin LeasedStates => lease'[q] = Null
      BY <2>2
    <2>6. state'[r] \notin LeasedStates
      BY <2>1
    <2> HIDE DEF LeasedStates
    <2> QED  BY <2>1, <2>4, <2>5, <2>6 DEF Null
  <1> QED
    BY <1>1, <1>2, <1>3, <1>4, <1>5, <1>6, <1>7, <1>8 DEF DeviceCall

LEMMA NextLeaseInv == LeaseInv /\ [Next]_vars => LeaseInv'
  <1> SUFFICES ASSUME LeaseInv, [Next]_vars PROVE LeaseInv'
    OBVIOUS
  <1>1. TypeOK' /\ IssuedOK'
    BY NextTypeOK DEF LeaseInv
  <1>2. CASE Operate \/ UNCHANGED vars
    <2>1. UNCHANGED <<state, leaseVars>>
      BY <1>2 DEF Operate, SetEnabled, ReplaceRouteHeads, vars
    <2> QED  BY <1>1, <2>1 DEF LeaseInv, WakeupScheduled, leaseVars
  <1>3. CASE Next /\ ~Operate
    <2>1. WakeupScheduled'
      BY <1>3, CreateWakeup, ClaimWakeup, RequeueWakeup, DeviceWakeup, TickWakeup
         DEF Next
    <2> QED  BY <1>1, <2>1 DEF LeaseInv
  <1> QED  BY <1>2, <1>3

(* The invariant the later theorems build on: types, the register of       *)
(* issued tokens, and the deadline and holder every active group has.      *)
THEOREM LeaseCorrect == Spec => []LeaseInv
  <1>1. Init => LeaseInv
    BY InitTypeOK, InitWakeup DEF LeaseInv
  <1> QED  BY <1>1, NextLeaseInv, PTL DEF Spec

(* No group is stranded: a leased or failed group always has the deadline  *)
(* that _requeue_due_groups looks for.                                     *)
THEOREM WakeupCorrect == Spec => []WakeupScheduled
  <1>1. LeaseInv => WakeupScheduled
    BY DEF LeaseInv
  <1> QED  BY <1>1, LeaseCorrect, PTL

-----------------------------------------------------------------------------
(* One active group per repository.                                        *)

(* Only create_group makes a group active that was not.                    *)
LEMMA ActiveOnlyByCreate ==
  ASSUME LeaseInv, [Next]_vars,
         NEW q \in Requests, state'[q] \in ActiveStates, state[q] \notin ActiveStates
  PROVE  \E u \in Users, p \in Repositories, ca \in ClientActions :
           CreateGroup(u, p, ca) /\ q = <<p, ca>>
  <1> USE DEF LeaseInv, TypeOK, ActiveStates, LeasedStates
  <1>1. ASSUME NEW u \in Users, NEW p \in Repositories, NEW ca \in ClientActions,
               CreateGroup(u, p, ca)
        PROVE  q = <<p, ca>>
    BY <1>1 DEF CreateGroup
  <1>2. ASSUME NEW d \in Devices, NEW r \in Requests, ClaimNextGroup(d, r)
        PROVE  FALSE
    BY <1>2 DEF ClaimNextGroup, OldestClaimable, Claimable, Requeued, Due
  <1>3. CASE RequeueDueGroups
    BY <1>3 DEF RequeueDueGroups, Requeued, Due
  <1>4. ASSUME NEW d \in Devices, NEW r \in Requests, NEW t \in HandedTo(d, r),
               DeviceCall(d, r, t)
        PROVE  FALSE
    <2>1. \/ state'[q] = state[q]
          \/ q = r /\ state[r] \in LeasedStates
          \/ q = r /\ state'[r] \in SuccessStates
      BY <1>4 DEF DeviceCall, StartGroup, HeartbeatGroup, RecordGroupProgress,
         PlanSlices, PlanNothing, AcceptSliceBatch, CompleteGroup, FailGroup,
         SuccessStates
    <2> QED  BY <2>1 DEF SuccessStates
  <1>5. CASE Tick \/ Operate \/ UNCHANGED vars
    BY <1>5 DEF Tick, Operate, SetEnabled, ReplaceRouteHeads, vars
  <1> QED
    BY <1>1, <1>2, <1>3, <1>4, <1>5 DEF Next

LEMMA NextOneActive ==
  LeaseInv /\ OneActiveGroupPerRepository /\ [Next]_vars
    => OneActiveGroupPerRepository'
  <1> SUFFICES ASSUME LeaseInv, OneActiveGroupPerRepository, [Next]_vars,
                      NEW r \in Requests, NEW q \in Requests,
                      Repository(r) = Repository(q),
                      state'[r] \in ActiveStates, state'[q] \in ActiveStates
               PROVE  r = q
    BY DEF OneActiveGroupPerRepository
  <1>1. ASSUME NEW a \in Requests, NEW b \in Requests,
               Repository(a) = Repository(b),
               state'[a] \in ActiveStates, state'[b] \in ActiveStates,
               state[a] \notin ActiveStates
        PROVE  a = b
    <2>1. PICK u \in Users, p \in Repositories, ca \in ClientActions :
            CreateGroup(u, p, ca) /\ a = <<p, ca>>
      BY <1>1, ActiveOnlyByCreate
    <2>2. Repository(b) = p
      BY <1>1, <2>1 DEF Repository
    <2>3. state[b] \notin ActiveStates
      BY <2>1, <2>2 DEF CreateGroup, RepositoryBusy
    <2> HIDE DEF Requests
    <2>4. state' = [state EXCEPT ![a] = "queued"] /\ state \in [Requests -> States]
      BY <2>1 DEF CreateGroup, LeaseInv, TypeOK
    <2> QED  BY <1>1, <2>3, <2>4
  <1> QED
    BY <1>1 DEF OneActiveGroupPerRepository

(* However claims, retries and expiries interleave, two Agents never work  *)
(* on groups of one repository: only create_group activates a group, and   *)
(* it looks at every active state first.                                   *)
THEOREM OneActiveCorrect == Spec => []OneActiveGroupPerRepository
  <1>1. Init => OneActiveGroupPerRepository
    BY DEF Init, OneActiveGroupPerRepository, ActiveStates
  <1> QED
    BY <1>1, LeaseCorrect, NextOneActive, PTL DEF Spec

-----------------------------------------------------------------------------
(* Fencing.                                                                *)

(* Whoever changes a group's slices, receipts, result or course does so    *)
(* with the token of its newest claim: a worker that lost its lease cannot.*)
THEOREM FencingCorrect == Spec => StaleTokensAreFenced
  <1> DEFINE Fenced ==
        \A r \in Requests :
          \/ plan'[r] # plan[r] \/ receipt'[r] # receipt[r]
          \/ result'[r] # result[r]
          \/ state'[r] # state[r]
              /\ state'[r] \in TerminalStates \cup {"running", "failed_retryable"}
          => writer'[r] = attempts[r]
  <1>1. LeaseInv /\ [Next]_vars => [Fenced]_vars
    <2> SUFFICES ASSUME LeaseInv, Next PROVE Fenced
      OBVIOUS
    <2> USE DEF LeaseInv, TypeOK, TerminalStates, SuccessStates
    <2>1. ASSUME NEW d \in Devices, NEW r \in Requests, NEW t \in HandedTo(d, r),
                 DeviceCall(d, r, t)
          PROVE  Fenced
      <3>1. LiveLease(d, r, t) /\ writer' = [writer EXCEPT ![r] = t]
        BY <2>1 DEF DeviceCall, StartGroup, HeartbeatGroup, RecordGroupProgress,
           PlanSlices, PlanNothing, AcceptSliceBatch, CompleteGroup, FailGroup
      <3>2. writer'[r] = attempts[r]
        BY <3>1, LiveLeaseIsNewest
      <3>3. \A q \in Requests \ {r} :
              /\ plan'[q] = plan[q] /\ receipt'[q] = receipt[q]
              /\ result'[q] = result[q] /\ state'[q] = state[q]
        BY <2>1 DEF DeviceCall, StartGroup, HeartbeatGroup, RecordGroupProgress,
           PlanSlices, PlanNothing, AcceptSliceBatch, CompleteGroup, FailGroup,
           sliceVars
      <3> QED  BY <3>2, <3>3
    <2>2. ASSUME NEW d \in Devices, NEW r \in Requests, ClaimNextGroup(d, r)
          PROVE  Fenced
      BY <2>2 DEF ClaimNextGroup, Requeued, sliceVars
    <2>3. CASE RequeueDueGroups
      BY <2>3 DEF RequeueDueGroups, Requeued, sliceVars
    <2>4. ASSUME NEW u \in Users, NEW p \in Repositories, NEW ca \in ClientActions,
                 CreateGroup(u, p, ca)
          PROVE  Fenced
      BY <2>4 DEF CreateGroup, sliceVars
    <2>5. CASE Tick \/ Operate
      BY <2>5 DEF Tick, Operate, SetEnabled, ReplaceRouteHeads, sliceVars
    <2> QED
      BY <2>1, <2>2, <2>3, <2>4, <2>5 DEF Next
  <1> QED
    BY <1>1, LeaseCorrect, PTL DEF Spec, StaleTokensAreFenced

-----------------------------------------------------------------------------
(* What a Capture leaves behind: the Candidate store, the receipts and the  *)
(* frozen result of a group agree; and an Update action is one request that *)
(* is opened, fixed, settled slice by slice and ended exactly once, which   *)
(* is what CaptureRequest promises.                                         *)

-----------------------------------------------------------------------------
(* An accepted batch, whatever families, contents and routes there are.     *)

(* What SaveBatch does to the head of a family: the batch's one revision   *)
(* of the family, if it has one, becomes the head.                         *)
LEMMA HeadAfterSave ==
  ASSUME NEW batch, OneRevisionPerFamily(batch), NEW route, NEW boundary,
         SaveBatch(batch, route, boundary)
  PROVE  /\ \A item \in batch :
              item.family \in Families => head'[item.family] = item.revision
         /\ \A f \in Families :
              (\A item \in batch : item.family # f) => head'[f] = head[f]
  <1>1. ASSUME NEW item \in batch, item.family \in Families
        PROVE  head'[item.family] = item.revision
    <2>1. (CHOOSE it \in batch : it.family = item.family) = item
      BY DEF OneRevisionPerFamily
    <2> QED  BY <1>1, <2>1 DEF SaveBatch, NewHeads
  <1>2. ASSUME NEW f \in Families, \A item \in batch : item.family # f
        PROVE  head'[f] = head[f]
    BY <1>2 DEF SaveBatch, NewHeads
  <1> QED  BY <1>1, <1>2

(* An acceptable batch neither skips, forks nor rewrites a revision.       *)
LEMMA SaveKeepsHistory ==
  ASSUME FamilyTypeOK, GapFreeHistory,
         NEW batch \in SUBSET Item, NEW route, NEW boundary,
         Acceptable(batch, route, boundary), SaveBatch(batch, route, boundary)
  PROVE  GapFreeHistory'
  <1>1. OneRevisionPerFamily(batch)
    BY DEF Acceptable
  <1>2. revisions' = revisions \cup batch
    BY DEF SaveBatch
  <1>3. \A item \in revisions \cup batch :
          /\ item.family \in Families
          /\ item.revision \in Nat /\ item.revision >= 1
    BY DEF FamilyTypeOK, Item
  <1>4. \A item \in batch : NotConflicting(item) /\ Monotonic(item)
    BY DEF Acceptable
  <1>5. \A item \in batch : head'[item.family] = item.revision
    BY <1>1, <1>3, HeadAfterSave
  <1>6. \A f \in Families :
          (\A item \in batch : item.family # f) => head'[f] = head[f]
    BY <1>1, HeadAfterSave
  <1>7. head \in [Families -> Nat]
    BY DEF FamilyTypeOK
  <1>8. ASSUME NEW a \in revisions', NEW b \in revisions',
               a.family = b.family, a.revision = b.revision
        PROVE  a = b
    <2>1. CASE a \in batch /\ b \in batch
      BY <1>1, <1>8, <2>1 DEF OneRevisionPerFamily
    <2>2. CASE a \in revisions /\ b \in revisions
      BY <1>8, <2>2 DEF GapFreeHistory
    <2>3. CASE a \in batch /\ b \in revisions
      BY <1>4, <1>8, <2>3 DEF NotConflicting
    <2>4. CASE a \in revisions /\ b \in batch
      BY <1>4, <1>8, <2>4 DEF NotConflicting
    <2> QED  BY <1>2, <2>1, <2>2, <2>3, <2>4
  <1>9. ASSUME NEW f \in Families
        PROVE  head'[f] \in Nat /\ head[f] <= head'[f] /\ head'[f] <= head[f] + 1
    <2>1. CASE \E item \in batch : item.family = f
      <3>1. PICK item \in batch : item.family = f
        BY <2>1
      <3>2. Monotonic(item) /\ head'[f] = item.revision /\ item.revision \in Nat
        BY <1>3, <1>4, <1>5, <3>1
      <3> QED  BY <1>7, <3>1, <3>2 DEF Monotonic
    <2>2. CASE \A item \in batch : item.family # f
      BY <1>6, <1>7, <2>2
    <2> QED  BY <2>1, <2>2
  <1>10. ASSUME NEW item \in revisions'
         PROVE  item.revision <= head'[item.family]
    <2>1. CASE item \in batch
      BY <1>3, <1>5, <2>1
    <2>2. CASE item \in revisions
      <3>1. item.revision <= head[item.family]
        BY <2>2 DEF GapFreeHistory
      <3> QED  BY <1>3, <1>7, <1>9, <2>2, <3>1
    <2> QED  BY <1>2, <2>1, <2>2
  <1>11. ASSUME NEW f \in Families, NEW n \in 1..head'[f]
         PROVE  \E item \in revisions' : item.family = f /\ item.revision = n
    <2>1. CASE n <= head[f]
      BY <1>2, <1>7, <1>9, <2>1 DEF GapFreeHistory
    <2>2. CASE ~(n <= head[f])
      <3>1. n = head'[f] /\ head'[f] # head[f]
        BY <1>7, <1>9, <2>2
      <3>2. PICK item \in batch : item.family = f
        BY <1>6, <3>1
      <3> QED  BY <1>2, <1>5, <3>1, <3>2
    <2> QED  BY <2>1, <2>2
  <1> QED
    BY <1>8, <1>10, <1>11 DEF GapFreeHistory

(* Ownership rows never disagree about the Decision Space of a family.     *)
LEMMA SaveKeepsOwners ==
  ASSUME FamilyTypeOK, FamilyStaysInSpace, NEW batch, NEW route, NEW boundary,
         Acceptable(batch, route, boundary), SaveBatch(batch, route, boundary)
  PROVE  FamilyStaysInSpace'
  <1> DEFINE Row(item) == [family |-> item.family, revision |-> item.revision,
                           route |-> route, boundary |-> boundary]
             New == {Row(item) : item \in batch}
             Agree(a, b) == /\ SpaceOf[a.route] = SpaceOf[b.route]
                            /\ a.revision = b.revision => a = b
  <1>1. ownership' = ownership \cup New
    BY DEF SaveBatch
  <1>2. ASSUME NEW a \in New, NEW b \in New, a.family = b.family
        PROVE  Agree(a, b)
    BY <1>2 DEF Acceptable, OneRevisionPerFamily
  <1>3. ASSUME NEW a \in New, NEW b \in ownership, a.family = b.family
        PROVE  Agree(a, b) /\ Agree(b, a)
    <2>1. PICK item \in batch : a = Row(item)
      OBVIOUS
    <2>2. /\ SpaceOf[b.route] = SpaceOf[route]
          /\ b.revision = a.revision => b.route = route /\ b.boundary = boundary
      BY <1>3, <2>1 DEF Acceptable, OwnershipAgrees
    <2>3. b = [family |-> b.family, revision |-> b.revision,
               route |-> b.route, boundary |-> b.boundary]
      BY DEF FamilyTypeOK, Ownership
    <2> QED  BY <1>3, <2>1, <2>2, <2>3
  <1>4. ASSUME NEW a \in ownership, NEW b \in ownership, a.family = b.family
        PROVE  Agree(a, b)
    BY <1>4 DEF FamilyStaysInSpace
  <1> HIDE DEF New, Agree
  <1>5. ASSUME NEW a \in ownership', NEW b \in ownership', a.family = b.family
        PROVE  Agree(a, b)
    BY <1>1, <1>2, <1>3, <1>4, <1>5
  <1> QED
    BY <1>5 DEF FamilyStaysInSpace, Agree

-----------------------------------------------------------------------------
(* The store and the results of groups.                                     *)

(* A slice has a receipt only if it was planned.                           *)
ReceiptsArePlanned ==
  \A r \in Requests, rt \in Routes :
    receipt[r][rt] # NoBatch => plan[r][rt] # NoBoundary

StoreInv ==
  ReceiptsArePlanned /\ ReceiptsMatchStore /\ GapFreeHistory /\ FamilyStaysInSpace

-----------------------------------------------------------------------------
(* The only steps that touch plans, receipts and the store.                *)
LEMMA StoreSteps ==
  ASSUME [Next]_vars
  PROVE  \/ UNCHANGED <<plan, receipt, familyVars>>
         \/ \E d \in Devices, r \in Requests : \E t \in HandedTo(d, r) :
              \E selected \in SUBSET snapshot[r] :
                \E boundary \in [selected -> Boundaries] :
                  PlanSlices(d, r, t, selected, boundary)
         \/ \E d \in Devices, r \in Requests : \E t \in HandedTo(d, r) :
              \E rt \in Routes, batch \in Batches :
                AcceptSliceBatch(d, r, t, rt, batch)
  <1> DEFINE Same == UNCHANGED <<plan, receipt, familyVars>>
  <1>1. ASSUME NEW u \in Users, NEW p \in Repositories, NEW ca \in ClientActions,
               CreateGroup(u, p, ca)
        PROVE  Same
    BY <1>1 DEF CreateGroup, sliceVars
  <1>2. Operate \/ RequeueDueGroups \/ Tick \/ UNCHANGED vars => Same
    BY DEF Operate, SetEnabled, ReplaceRouteHeads, RequeueDueGroups, Tick,
           sliceVars, vars
  <1>3. ASSUME NEW d \in Devices, NEW r \in Requests, ClaimNextGroup(d, r)
        PROVE  Same
    BY <1>3 DEF ClaimNextGroup, sliceVars
  <1>4. ASSUME NEW d \in Devices, NEW r \in Requests, NEW t \in HandedTo(d, r),
               \/ StartGroup(d, r, t) \/ HeartbeatGroup(d, r, t)
               \/ RecordGroupProgress(d, r, t) \/ PlanNothing(d, r, t)
               \/ CompleteGroup(d, r, t)
               \/ \E retryable \in BOOLEAN : FailGroup(d, r, t, retryable)
        PROVE  Same
    BY <1>4 DEF StartGroup, HeartbeatGroup, RecordGroupProgress, PlanNothing,
       CompleteGroup, FailGroup, sliceVars
  <1> QED
    BY <1>1, <1>2, <1>3, <1>4 DEF Next, DeviceCall

LEMMA PlanKeepsStore ==
  ASSUME LeaseInv, StoreInv, NEW d \in Devices, NEW r \in Requests, NEW t,
         NEW selected \in SUBSET snapshot[r],
         NEW boundary \in [selected -> Boundaries],
         PlanSlices(d, r, t, selected, boundary)
  PROVE  StoreInv'
  <1> USE DEF LeaseInv, TypeOK
  <1>1. UNCHANGED <<receipt, revisions, head, ownership>>
    BY DEF PlanSlices, familyVars
  <1>2. \A q \in Requests \ {r} : plan'[q] = plan[q]
    BY DEF PlanSlices
  <1>3. \A rt \in Routes : receipt[r][rt] = NoBatch
    BY DEF PlanSlices, PlannedRoutes, StoreInv, ReceiptsArePlanned
  <1>4. ReceiptsArePlanned'
    BY <1>1, <1>2, <1>3 DEF StoreInv, ReceiptsArePlanned
  <1>5. ReceiptsMatchStore'
    BY <1>1, <1>2, <1>3 DEF StoreInv, ReceiptsMatchStore
  <1>6. GapFreeHistory' /\ FamilyStaysInSpace'
    BY <1>1 DEF StoreInv, GapFreeHistory, FamilyStaysInSpace
  <1> QED
    BY <1>4, <1>5, <1>6 DEF StoreInv

LEMMA AcceptKeepsStore ==
  ASSUME LeaseInv, StoreInv, NEW d \in Devices, NEW r \in Requests, NEW t,
         NEW rt \in Routes, NEW batch \in Batches,
         AcceptSliceBatch(d, r, t, rt, batch)
  PROVE  StoreInv'
  <1> DEFINE boundary == plan[r][rt]
  <1>1. Acceptable(batch, rt, boundary) /\ SaveBatch(batch, rt, boundary)
    BY DEF AcceptSliceBatch
  <1>2. batch \in SUBSET Item /\ batch # NoBatch
    BY GroupAssumption
  <1>3. GapFreeHistory'
    BY <1>1, <1>2, SaveKeepsHistory DEF StoreInv, LeaseInv, TypeOK
  <1>4. FamilyStaysInSpace'
    BY <1>1, SaveKeepsOwners DEF StoreInv, LeaseInv, TypeOK
  <1>5. /\ UNCHANGED plan /\ plan[r][rt] # NoBoundary
        /\ receipt[r][rt] = NoBatch
        /\ receipt'[r][rt] = batch
        /\ \A q \in Requests, x \in Routes :
             <<q, x>> # <<r, rt>> => receipt'[q][x] = receipt[q][x]
    BY DEF AcceptSliceBatch, PlannedRoutes, LeaseInv, TypeOK, Receipts
  <1>6. ReceiptsArePlanned'
    BY <1>5 DEF StoreInv, ReceiptsArePlanned
  <1>7. /\ revisions' = revisions \cup batch
        /\ ownership' = ownership \cup
             {[family |-> item.family, revision |-> item.revision,
               route |-> rt, boundary |-> boundary] : item \in batch}
    BY <1>1 DEF SaveBatch
  <1>8. ASSUME NEW q \in Requests, NEW x \in Routes, receipt'[q][x] # NoBatch,
               NEW item \in receipt'[q][x]
        PROVE  /\ item \in revisions'
               /\ [family |-> item.family, revision |-> item.revision,
                   route |-> x, boundary |-> plan'[q][x]] \in ownership'
    <2>1. CASE q = r /\ x = rt
      BY <1>5, <1>7, <1>8, <2>1
    <2>2. CASE <<q, x>> # <<r, rt>>
      BY <1>5, <1>7, <1>8, <2>2 DEF StoreInv, ReceiptsMatchStore
    <2> QED  BY <2>1, <2>2
  <1>9. ASSUME NEW item \in revisions'
        PROVE  \E q \in Requests, x \in Routes :
                 receipt'[q][x] # NoBatch /\ item \in receipt'[q][x]
    <2>1. CASE item \in batch
      BY <1>2, <1>5, <2>1
    <2>2. CASE item \in revisions
      <3>1. PICK q \in Requests, x \in Routes :
              receipt[q][x] # NoBatch /\ item \in receipt[q][x]
        BY <2>2 DEF StoreInv, ReceiptsMatchStore
      <3> QED  BY <1>5, <3>1
    <2> QED  BY <1>7, <2>1, <2>2
  <1> HIDE DEF boundary
  <1> QED
    BY <1>3, <1>4, <1>6, <1>8, <1>9 DEF StoreInv, ReceiptsMatchStore

LEMMA NextStoreInv == LeaseInv /\ StoreInv /\ [Next]_vars => StoreInv'
  <1> SUFFICES ASSUME LeaseInv, StoreInv, [Next]_vars PROVE StoreInv'
    OBVIOUS
  <1>1. CASE UNCHANGED <<plan, receipt, familyVars>>
    BY <1>1 DEF StoreInv, ReceiptsArePlanned, ReceiptsMatchStore, GapFreeHistory,
                FamilyStaysInSpace, familyVars
  <1> QED
    BY <1>1, StoreSteps, PlanKeepsStore, AcceptKeepsStore

LEMMA InitStoreInv == Init => StoreInv
  BY DEF Init, FamilyInit, StoreInv, ReceiptsArePlanned, ReceiptsMatchStore,
         GapFreeHistory, FamilyStaysInSpace, NoReceipts

(* The inductive invariant: the three store properties, and that a slice   *)
(* has a receipt only once it is planned.                                  *)
THEOREM StoreCorrect == Spec => []StoreInv
  BY InitStoreInv, NextStoreInv, LeaseCorrect, PTL DEF Spec

(* Receipts, stored revisions and ownership tell one story, for any number *)
(* of groups, devices and slices uploading in any order.                   *)
THEOREM ReceiptsCorrect == Spec => []ReceiptsMatchStore
  <1>1. StoreInv => ReceiptsMatchStore
    BY DEF StoreInv
  <1> QED  BY <1>1, StoreCorrect, PTL

(* The history of every family is gap-free: nothing is skipped, forked or  *)
(* rewritten.                                                              *)
THEOREM HistoryCorrect == Spec => []GapFreeHistory
  <1>1. StoreInv => GapFreeHistory
    BY DEF StoreInv
  <1> QED  BY <1>1, StoreCorrect, PTL

(* No family leaves the Decision Space that first owned it, whatever the   *)
(* operator does to the routes meanwhile.                                  *)
THEOREM OwnershipCorrect == Spec => []FamilyStaysInSpace
  <1>1. StoreInv => FamilyStaysInSpace
    BY DEF StoreInv
  <1> QED  BY <1>1, StoreCorrect, PTL

-----------------------------------------------------------------------------
(* Results.                                                                *)

LEMMA InitSuccess == Init => SuccessIsBacked
  BY DEF Init, SuccessIsBacked, SuccessStates

(* A group that is not leased keeps its slices, receipts and result, and   *)
(* leaves its state only from the queue, on a retry or at its creation.    *)
LEMMA UnleasedGroupsRest ==
  ASSUME LeaseInv, [Next]_vars, NEW q \in Requests, state[q] \notin LeasedStates
  PROVE  /\ plan'[q] = plan[q] /\ receipt'[q] = receipt[q]
         /\ result'[q] = result[q]
         /\ state[q] \in TerminalStates => state'[q] = state[q]
         /\ state'[q] \in SuccessStates => state[q] \in SuccessStates
  <1> USE DEF LeaseInv, TypeOK, TerminalStates, SuccessStates, LeasedStates
  <1>1. ASSUME NEW d \in Devices, NEW r \in Requests, NEW t \in HandedTo(d, r),
               DeviceCall(d, r, t)
        PROVE  UNCHANGED <<plan[q], receipt[q], result[q], state[q]>>
    <2>1. LiveLease(d, r, t)
      BY <1>1 DEF DeviceCall, StartGroup, HeartbeatGroup, RecordGroupProgress,
         PlanSlices, PlanNothing, AcceptSliceBatch, CompleteGroup, FailGroup
    <2>2. q # r
      BY <2>1, LiveLeaseIsNewest
    <2> QED
      BY <1>1, <2>2 DEF DeviceCall, StartGroup, HeartbeatGroup,
         RecordGroupProgress, PlanSlices, PlanNothing, AcceptSliceBatch,
         CompleteGroup, FailGroup, sliceVars
  <1>2. ASSUME NEW d \in Devices, NEW r \in Requests, ClaimNextGroup(d, r)
        PROVE  /\ UNCHANGED sliceVars
               /\ state[q] \in TerminalStates => state'[q] = state[q]
               /\ state'[q] \in SuccessStates => state[q] \in SuccessStates
    BY <1>2 DEF ClaimNextGroup, OldestClaimable, Claimable, Requeued, Due
  <1>3. CASE RequeueDueGroups
    BY <1>3 DEF RequeueDueGroups, Requeued, Due, sliceVars
  <1>4. ASSUME NEW u \in Users, NEW p \in Repositories, NEW ca \in ClientActions,
               CreateGroup(u, p, ca)
        PROVE  /\ UNCHANGED sliceVars
               /\ state[q] \in TerminalStates => state'[q] = state[q]
               /\ state'[q] \in SuccessStates => state[q] \in SuccessStates
    BY <1>4 DEF CreateGroup
  <1>5. CASE Tick \/ Operate \/ UNCHANGED vars
    BY <1>5 DEF Tick, Operate, SetEnabled, ReplaceRouteHeads, vars, sliceVars
  <1> QED
    BY <1>1, <1>2, <1>3, <1>4, <1>5 DEF Next, sliceVars

(* A leased group succeeds only by an empty plan or by a completion.       *)
LEMMA LeasedGroupsEnd ==
  ASSUME LeaseInv, [Next]_vars, NEW q \in Requests, state[q] \in LeasedStates
  PROVE  \/ result'[q] = result[q] /\ state'[q] \notin SuccessStates
         \/ \E d \in Devices : \E t \in HandedTo(d, q) :
              PlanNothing(d, q, t) \/ CompleteGroup(d, q, t)
  <1> USE DEF LeaseInv, TypeOK, SuccessStates, LeasedStates
  <1> DEFINE Open == result'[q] = result[q] /\ state'[q] \notin SuccessStates
  <1>1. ASSUME NEW d \in Devices, NEW r \in Requests, NEW t \in HandedTo(d, r),
               \/ StartGroup(d, r, t) \/ HeartbeatGroup(d, r, t)
               \/ RecordGroupProgress(d, r, t)
               \/ \E selected, boundary : PlanSlices(d, r, t, selected, boundary)
               \/ \E rt, batch : AcceptSliceBatch(d, r, t, rt, batch)
               \/ \E retryable \in BOOLEAN : FailGroup(d, r, t, retryable)
        PROVE  Open
    BY <1>1 DEF StartGroup, HeartbeatGroup, RecordGroupProgress, PlanSlices,
       AcceptSliceBatch, FailGroup, sliceVars
  <1>2. ASSUME NEW d \in Devices, NEW r \in Requests, NEW t \in HandedTo(d, r),
               PlanNothing(d, r, t) \/ CompleteGroup(d, r, t), q # r
        PROVE  Open
    BY <1>2 DEF PlanNothing, CompleteGroup
  <1>3. ASSUME NEW d \in Devices, NEW r \in Requests, ClaimNextGroup(d, r)
        PROVE  Open
    BY <1>3 DEF ClaimNextGroup, Requeued, sliceVars
  <1>4. CASE RequeueDueGroups
    BY <1>4 DEF RequeueDueGroups, Requeued, sliceVars
  <1>5. ASSUME NEW u \in Users, NEW p \in Repositories, NEW ca \in ClientActions,
               CreateGroup(u, p, ca)
        PROVE  Open
    BY <1>5 DEF CreateGroup, sliceVars
  <1>6. CASE Tick \/ Operate \/ UNCHANGED vars
    BY <1>6 DEF Tick, Operate, SetEnabled, ReplaceRouteHeads, vars, sliceVars
  <1> QED
    BY <1>1, <1>2, <1>3, <1>4, <1>5, <1>6 DEF Next, DeviceCall

Backed(q) ==
  /\ state[q] \in SuccessStates <=> result[q] # NoResult
  /\ state[q] \in SuccessStates =>
       /\ result[q] = receipt[q]
       /\ \A rt \in PlannedRoutes(q) : receipt[q][rt] # NoBatch
       /\ state[q] = "succeeded" <=>
            \E rt \in Routes : receipt[q][rt] \notin {NoBatch, {}}

LEMMA NextSuccess ==
  LeaseInv /\ StoreInv /\ SuccessIsBacked /\ [Next]_vars => SuccessIsBacked'
  <1> SUFFICES ASSUME LeaseInv, StoreInv, SuccessIsBacked, [Next]_vars,
                      NEW q \in Requests
               PROVE  Backed(q)'
    BY DEF SuccessIsBacked, Backed
  <1> USE DEF LeaseInv, TypeOK
  <1>1. Backed(q)
    BY DEF SuccessIsBacked, Backed
  <1>2. CASE state[q] \notin LeasedStates
    <2>1. /\ plan'[q] = plan[q] /\ receipt'[q] = receipt[q]
          /\ result'[q] = result[q]
          /\ state[q] \in SuccessStates => state'[q] = state[q]
          /\ state'[q] \in SuccessStates => state[q] \in SuccessStates
      BY <1>2, UnleasedGroupsRest DEF TerminalStates
    <2> QED  BY <1>1, <2>1 DEF Backed, PlannedRoutes
  <1>3. CASE state[q] \in LeasedStates
    <2>1. result[q] = NoResult
      BY <1>1, <1>3 DEF Backed, LeasedStates, SuccessStates
    <2>2. CASE result'[q] = result[q] /\ state'[q] \notin SuccessStates
      BY <2>1, <2>2 DEF Backed
    <2>3. ASSUME NEW d \in Devices, NEW t \in HandedTo(d, q), PlanNothing(d, q, t)
          PROVE  Backed(q)'
      <3>1. /\ state'[q] = "succeeded_no_candidates"
            /\ result'[q] = NoReceipts
            /\ plan' = plan /\ receipt' = receipt /\ PlannedRoutes(q) = {}
        BY <2>3 DEF PlanNothing
      <3>2. \A rt \in Routes : receipt[q][rt] = NoBatch
        BY <3>1 DEF StoreInv, ReceiptsArePlanned, PlannedRoutes
      <3>3. receipt[q] = NoReceipts
        BY <3>2 DEF Receipts, NoReceipts
      <3>4. NoReceipts # NoResult
        BY GroupAssumption DEF NoReceipts
      <3> QED
        BY <3>1, <3>2, <3>3, <3>4 DEF Backed, SuccessStates, PlannedRoutes
    <2>4. ASSUME NEW d \in Devices, NEW t \in HandedTo(d, q), CompleteGroup(d, q, t)
          PROVE  Backed(q)'
      <3>1. /\ state'[q] = IF \E rt \in PlannedRoutes(q) : receipt[q][rt] # {}
                             THEN "succeeded" ELSE "succeeded_no_candidates"
            /\ result'[q] = receipt[q]
            /\ plan' = plan /\ receipt' = receipt /\ AllReceived(q)
        BY <2>4 DEF CompleteGroup
      <3>2. receipt[q] # NoResult
        BY GroupAssumption DEF Receipts
      <3>3. \A rt \in Routes : receipt[q][rt] # NoBatch <=> rt \in PlannedRoutes(q)
        BY <3>1 DEF StoreInv, ReceiptsArePlanned, PlannedRoutes, AllReceived
      <3>4. PlannedRoutes(q)' = PlannedRoutes(q)
        BY <3>1 DEF PlannedRoutes
      <3>5. PlannedRoutes(q) \subseteq Routes
        BY DEF PlannedRoutes
      <3> HIDE DEF TypeOK, LeaseInv
      <3> QED
        BY <3>1, <3>2, <3>3, <3>4, <3>5 DEF Backed, SuccessStates
    <2> QED  BY <1>3, <2>2, <2>3, <2>4, LeasedGroupsEnd
  <1> QED  BY <1>2, <1>3

(* A group that succeeded did so on the receipts of all its slices, and    *)
(* nothing that happens afterwards changes its receipts or its result.     *)
THEOREM SuccessCorrect == Spec => []SuccessIsBacked
  BY InitSuccess, NextSuccess, LeaseCorrect, StoreCorrect, PTL DEF Spec

-----------------------------------------------------------------------------
(* The promise.                                                             *)

phaseNow == [r \in Requests |-> PhaseOf(state[r])]
plannedNow == [r \in Requests |-> PlannedRoutes(r)]

LEMMA PhaseOfStates ==
  /\ PhaseOf("absent") = "absent"
  /\ \A s \in ActiveStates : PhaseOf(s) = "open"
  /\ \A s \in SuccessStates : PhaseOf(s) = "succeeded"
  /\ PhaseOf("failed_terminal") = "failed"
  BY DEF PhaseOf, ActiveStates, SuccessStates

LEMMA OpenIsActive ==
  ASSUME NEW s \in States, PhaseOf(s) = "open"
  PROVE  s \in ActiveStates
  BY DEF PhaseOf, States, ActiveStates, TerminalStates, SuccessStates

LEMMA PromiseInit == Init => Public!RequestInit
  BY PhaseOfStates DEF Init, Public!RequestInit, PlannedRoutes, Unplanned,
     NoReceipts

(* The steps a request does not show: its groups stay in their phase.      *)
LEMMA SamePhase ==
  ASSUME LeaseInv, UNCHANGED <<plan, receipt>>, state' \in [Requests -> States],
         \A r \in Requests : PhaseOf(state'[r]) = PhaseOf(state[r])
  PROVE  UNCHANGED Public!requestVars
  BY DEF Public!requestVars, PlannedRoutes

LEMMA PromiseCreate ==
  ASSUME LeaseInv, NEW u \in Users, NEW p \in Repositories,
         NEW ca \in ClientActions, CreateGroup(u, p, ca)
  PROVE  Public!Open(<<p, ca>>) /\ <<p, ca>> \in Requests
  <1> DEFINE r == <<p, ca>>
  <1>1. r \in Requests /\ Repository(r) = p
    BY DEF Requests, Repository
  <1>2. /\ state[r] = "absent" /\ state' = [state EXCEPT ![r] = "queued"]
        /\ UNCHANGED <<plan, receipt>> /\ ~RepositoryBusy(p)
    BY DEF CreateGroup, sliceVars
  <1>3. state \in [Requests -> States]
    BY DEF LeaseInv, TypeOK
  <1> HIDE DEF r
  <1>4. \A q \in Requests : Repository(q) = p => PhaseOf(state[q]) # "open"
    BY <1>2, <1>3, OpenIsActive DEF RepositoryBusy
  <1>5. phaseNow' = [phaseNow EXCEPT ![r] = "open"]
    BY <1>1, <1>2, <1>3, PhaseOfStates DEF phaseNow, ActiveStates
  <1>6. plannedNow' = plannedNow
    BY <1>2 DEF plannedNow, PlannedRoutes
  <1>7. phaseNow[r] = "absent"
    BY <1>1, <1>2, PhaseOfStates DEF phaseNow
  <1>8. \A q \in Requests : Repository(r) = Repository(q) => phaseNow[q] # "open"
    BY <1>1, <1>4 DEF phaseNow
  <1>9. Public!Open(r)
    BY <1>1, <1>2, <1>5, <1>6, <1>7, <1>8 DEF Public!Open, phaseNow, plannedNow
  <1> QED  BY <1>1, <1>9 DEF r

LEMMA PromiseQuiet ==
  ASSUME LeaseInv, [Next]_vars,
         \/ \E d \in Devices, r \in Requests : ClaimNextGroup(d, r)
         \/ RequeueDueGroups \/ Tick \/ Operate \/ UNCHANGED vars
  PROVE  UNCHANGED Public!requestVars
  <1> USE DEF LeaseInv, TypeOK
  <1>1. TypeOK'
    BY NextTypeOK
  <1>2. UNCHANGED <<plan, receipt>>
    BY DEF ClaimNextGroup, RequeueDueGroups, Tick, Operate, SetEnabled,
           ReplaceRouteHeads, sliceVars, vars
  <1>3. ASSUME NEW q \in Requests
        PROVE  \/ state'[q] = state[q]
               \/ state[q] \in ActiveStates /\ state'[q] \in ActiveStates
    <2> USE DEF ActiveStates, LeasedStates
    <2>1. ASSUME NEW d \in Devices, NEW r \in Requests, ClaimNextGroup(d, r)
          PROVE  \/ state'[q] = state[q]
                 \/ state[q] \in ActiveStates /\ state'[q] \in ActiveStates
      BY <2>1 DEF ClaimNextGroup, OldestClaimable, Claimable, Requeued, Due
    <2>2. CASE RequeueDueGroups
      BY <2>2 DEF RequeueDueGroups, Requeued, Due
    <2>3. CASE Tick \/ Operate \/ UNCHANGED vars
      BY <2>3 DEF Tick, Operate, SetEnabled, ReplaceRouteHeads, vars
    <2> QED  BY <2>1, <2>2, <2>3
  <1> QED
    BY <1>1, <1>2, <1>3, SamePhase, PhaseOfStates

LEMMA PromiseDevice ==
  ASSUME LeaseInv, StoreInv, [Next]_vars, NEW d \in Devices, NEW r \in Requests,
         NEW t \in HandedTo(d, r), DeviceCall(d, r, t)
  PROVE  Public!RequestNext \/ UNCHANGED Public!requestVars
  <1>1. /\ state \in [Requests -> States] /\ state' \in [Requests -> States]
        /\ plan \in [Requests -> [Routes -> Boundaries \cup {NoBoundary}]]
        /\ receipt \in [Requests -> Receipts]
    BY NextTypeOK DEF LeaseInv, TypeOK
  <1>2. LiveLease(d, r, t)
    BY DEF DeviceCall, StartGroup, HeartbeatGroup, RecordGroupProgress,
       PlanSlices, PlanNothing, AcceptSliceBatch, CompleteGroup, FailGroup
  <1>3. state[r] \in LeasedStates
    BY <1>2, LiveLeaseIsNewest
  <1>4. phaseNow[r] = "open"
    BY <1>3, PhaseOfStates DEF phaseNow, LeasedStates, ActiveStates
  <1>5. CASE \/ StartGroup(d, r, t) \/ HeartbeatGroup(d, r, t)
             \/ RecordGroupProgress(d, r, t)
    <2>1. UNCHANGED <<plan, receipt>>
      BY <1>5 DEF StartGroup, HeartbeatGroup, RecordGroupProgress, sliceVars
    <2>2. \A q \in Requests : PhaseOf(state'[q]) = PhaseOf(state[q])
      BY <1>1, <1>5, PhaseOfStates DEF StartGroup, HeartbeatGroup,
         RecordGroupProgress, ActiveStates
    <2> QED  BY <1>1, <2>1, <2>2, SamePhase
  <1>6. ASSUME NEW selected \in SUBSET snapshot[r],
               NEW boundary \in [selected -> Boundaries],
               PlanSlices(d, r, t, selected, boundary)
        PROVE  Public!Fix(r, selected) /\ selected \in SUBSET Routes
    <2>1. selected \subseteq Routes
      BY DEF LeaseInv, TypeOK
    <2>2. \A rt \in selected : boundary[rt] # NoBoundary
      BY GroupAssumption
    <2>3. plannedNow' = [plannedNow EXCEPT ![r] = selected]
      BY <1>1, <1>6, <2>1, <2>2 DEF PlanSlices, plannedNow, PlannedRoutes
    <2>4. UNCHANGED <<state, receipt>> /\ plannedNow[r] = {} /\ selected # {}
      BY <1>6 DEF PlanSlices, plannedNow
    <2> QED
      BY <1>4, <2>1, <2>3, <2>4 DEF Public!Fix, phaseNow, plannedNow
  <1>7. ASSUME NEW rt \in Routes, NEW batch \in Batches,
               AcceptSliceBatch(d, r, t, rt, batch)
        PROVE  Public!Settle(r, rt, batch)
    <2>1. /\ rt \in plannedNow[r] /\ receipt[r][rt] = NoBatch
          /\ receipt' = [receipt EXCEPT ![r][rt] = batch]
          /\ UNCHANGED <<state, plan>>
      BY <1>7 DEF AcceptSliceBatch, plannedNow
    <2>2. plannedNow' = plannedNow /\ phaseNow' = phaseNow
      BY <2>1 DEF plannedNow, phaseNow, PlannedRoutes
    <2> QED
      BY <1>4, <2>1, <2>2 DEF Public!Settle, phaseNow, plannedNow
  <1>8. CASE PlanNothing(d, r, t) \/ CompleteGroup(d, r, t)
    <2>1. /\ state' = [state EXCEPT ![r] = state'[r]]
          /\ state'[r] \in SuccessStates /\ UNCHANGED <<plan, receipt>>
      BY <1>1, <1>8 DEF PlanNothing, CompleteGroup, SuccessStates
    <2>2. \A rt \in plannedNow[r] : receipt[r][rt] # NoBatch
      BY <1>8 DEF PlanNothing, CompleteGroup, AllReceived, plannedNow
    <2>3. phaseNow' = [phaseNow EXCEPT ![r] = "succeeded"]
      BY <1>1, <2>1, PhaseOfStates DEF phaseNow
    <2>4. plannedNow' = plannedNow
      BY <2>1 DEF plannedNow, PlannedRoutes
    <2>5. Public!Succeed(r)
      BY <1>4, <2>1, <2>2, <2>3, <2>4 DEF Public!Succeed, phaseNow, plannedNow
    <2> QED  BY <2>5 DEF Public!RequestNext
  <1>9. ASSUME NEW retryable \in BOOLEAN, FailGroup(d, r, t, retryable)
        PROVE  Public!Fail(r) \/ UNCHANGED Public!requestVars
    <2>1. UNCHANGED <<plan, receipt>>
      BY <1>9 DEF FailGroup, sliceVars
    <2>2. plannedNow' = plannedNow
      BY <2>1 DEF plannedNow, PlannedRoutes
    <2>3. CASE CanRetry(r, retryable)
      <3>1. \A q \in Requests : PhaseOf(state'[q]) = PhaseOf(state[q])
        BY <1>1, <1>3, <1>9, <2>3, PhaseOfStates
           DEF FailGroup, ActiveStates, LeasedStates
      <3> QED  BY <1>1, <2>1, <3>1, SamePhase
    <2>4. CASE ~CanRetry(r, retryable)
      <3>1. state' = [state EXCEPT ![r] = "failed_terminal"]
        BY <1>9, <2>4 DEF FailGroup
      <3>2. phaseNow' = [phaseNow EXCEPT ![r] = "failed"]
        BY <1>1, <3>1, PhaseOfStates DEF phaseNow
      <3> QED
        BY <1>4, <2>1, <2>2, <3>2 DEF Public!Fail, phaseNow, plannedNow
    <2> QED  BY <2>3, <2>4
  <1> QED
    BY <1>5, <1>6, <1>7, <1>8, <1>9 DEF DeviceCall, Public!RequestNext

LEMMA PromiseStep ==
  LeaseInv /\ StoreInv /\ [Next]_vars => [Public!RequestNext]_(Public!requestVars)
  <1> SUFFICES ASSUME LeaseInv, StoreInv, [Next]_vars
               PROVE  Public!RequestNext \/ UNCHANGED Public!requestVars
    OBVIOUS
  <1>1. ASSUME NEW u \in Users, NEW p \in Repositories, NEW ca \in ClientActions,
               CreateGroup(u, p, ca)
        PROVE  Public!RequestNext
    BY <1>1, PromiseCreate DEF Public!RequestNext
  <1> QED
    BY <1>1, PromiseQuiet, PromiseDevice DEF Next

(* The Capture service keeps the promise of an Update action.              *)
THEOREM PromiseKept == Spec => Promise
  BY PromiseInit, PromiseStep, LeaseCorrect, StoreCorrect, PTL
     DEF Spec, Promise, Public!RequestSpec

-----------------------------------------------------------------------------
(* The composition of the Agents with Central.                              *)

(* A device works with a token a claim handed to it.                       *)
JobIsHanded ==
  \A d \in Devices : job[d] # NoJob => Token(d) \in HandedTo(d, Request(d))

(* What each step of _process has prepared for the later ones.             *)
Frozen == {"select", "plan", "slice", "completing", "replaying", "acknowledge"}
Selected == Frozen \ {"select"}

Prepared ==
  \A d \in Devices :
    /\ pc[d] \in Frozen => freeze[d][Request(d)] # NoFreeze
    /\ pc[d] \in Selected => selection[d][Request(d)] # NoSelection

(* Checkpoints and frozen boundaries are turns that were observed.         *)
BoundariesObserved ==
  \A d \in Devices, s \in Sources :
    /\ handled[d][s] <= latest[d][s]
    /\ \A r \in Requests :
         freeze[d][r] # NoFreeze /\ s \in DOMAIN freeze[d][r] =>
           freeze[d][r][s] <= latest[d][s]

DeliveryInv ==
  /\ LeaseInv
  /\ DeliveryTypeOK
  /\ JobIsHanded
  /\ Prepared
  /\ BoundariesObserved

-----------------------------------------------------------------------------
(* Refinement: every step of the composition is a step of Central or none. *)

LEMMA JobOf ==
  ASSUME DeliveryTypeOK, NEW d \in Devices, pc[d] # "idle"
  PROVE  /\ job[d] # NoJob /\ job[d] = <<Request(d), Token(d)>>
         /\ Request(d) \in Requests /\ Token(d) \in Nat
  BY DEF DeliveryTypeOK, WorkTypeOK, Request, Token

LEMMA CallIsCentral ==
  ASSUME NEW d \in Devices, NEW r \in Requests, NEW t \in HandedTo(d, r),
         DeviceCall(d, r, t)
  PROVE  Next
  BY DEF Next

LEMMA PlanIsCentral ==
  ASSUME DeliveryTypeOK, JobIsHanded, Prepared, NEW d \in Devices, PlanSlicesCall(d)
  PROVE  [Next]_vars
  <1> DEFINE r == Request(d)
             t == Token(d)
             boundary == [rt \in selection[d][r] |-> BoundaryOf(d, r)]
  <1>1. pc[d] = "plan" /\ r \in Requests /\ t \in HandedTo(d, r)
    BY JobOf DEF PlanSlicesCall, JobIsHanded
  <1>2. freeze[d][r] \in Freezes
    BY <1>1 DEF Prepared, Frozen, DeliveryTypeOK, SourceTypeOK
  <1>3. BoundaryOf(d, r) \in Boundaries
    BY <1>2, DeliveryAssumption DEF BoundaryOf
  <1>4. boundary \in [selection[d][r] -> Boundaries]
    BY <1>3
  <1>5. CASE PlanSlices(d, r, t, selection[d][r], boundary)
    <2>1. selection[d][r] \in SUBSET snapshot[r]
      BY <1>5 DEF PlanSlices
    <2>2. DeviceCall(d, r, t)
      BY <1>4, <1>5, <2>1 DEF DeviceCall
    <2> QED  BY <1>1, <2>2, CallIsCentral
  <1>6. CASE PlanNothing(d, r, t)
    BY <1>1, <1>6, CallIsCentral DEF DeviceCall
  <1> QED
    BY <1>5, <1>6 DEF PlanSlicesCall, Undelivered, Refused

LEMMA WorkIsCentral ==
  ASSUME DeliveryTypeOK, JobIsHanded, Prepared, NEW d \in Devices,
         Work(d) \/ Environment(d)
  PROVE  [Next]_vars
  <1> DEFINE r == Request(d)
             t == Token(d)
             Same == UNCHANGED vars
  <1>1. pc[d] # "idle" => r \in Requests /\ t \in HandedTo(d, r)
    BY JobOf DEF JobIsHanded
  <1>2. ASSUME NEW q \in Requests, Claim(d, q) PROVE Next
    BY <1>2 DEF Claim, Next
  <1>3. ClaimNothing(d) => Next
    BY DEF ClaimNothing, Next
  <1>4. Start(d) => Next \/ Same
    BY <1>1, CallIsCentral DEF Start, DeviceCall, Undelivered, Refused
  <1>5. FreezeSources(d) \/ SelectRoutes(d) \/ Acknowledge(d) => Same
    BY DEF FreezeSources, SelectRoutes, Acknowledge
  <1>6. PlanSlicesCall(d) => [Next]_vars
    BY PlanIsCentral
  <1>7. ASSUME NEW q \in Requests, NEW rt \in Routes,
               Reconcile(d, q, rt) \/ CommitSliceResult(d, q, rt)
        PROVE  Same
    BY <1>7 DEF Reconcile, CommitSliceResult
  <1>8. ASSUME NEW q \in Requests, NEW rt \in Routes, DeliverSlice(d, q, rt)
        PROVE  Next \/ Same
    <2>1. pc[d] = "slice" /\ q = r
      BY <1>8 DEF DeliverSlice, AtSlice
    <2>2. StagedBatch(d, q, rt) \in Batches
      BY <1>8 DEF DeliverSlice, StagedBatch, DeliveryTypeOK, LocalTypeOK,
                  Receipts
    <2>3. AcceptSliceBatch(d, q, t, rt, StagedBatch(d, q, rt)) => DeviceCall(d, q, t)
      BY <2>2 DEF DeviceCall
    <2> QED
      BY <1>1, <1>8, <2>1, <2>3, CallIsCentral DEF DeliverSlice, Undelivered, Refused
  <1>9. FinalHeartbeat(d) => Next \/ Same
    BY <1>1, CallIsCentral DEF FinalHeartbeat, DeviceCall
  <1>10. CompleteCall(d) => Next \/ Same
    BY <1>1, CallIsCentral DEF CompleteCall, DeviceCall, Undelivered, Refused
  <1>11. ReportFailure(d) => Next \/ Same
    <2>1. FailGroup(d, r, t, pc[d] = "retryable") => DeviceCall(d, r, t)
      BY DEF DeviceCall
    <2>2. HeartbeatGroup(d, r, t) => DeviceCall(d, r, t)
      BY DEF DeviceCall
    <2> QED  BY <1>1, <2>1, <2>2, CallIsCentral DEF ReportFailure
  <1>12. ASSUME Environment(d) PROVE Next \/ Same
    <2>1. Renew(d) => Next
      BY <1>1, CallIsCentral DEF Renew, Renewing, DeviceCall
    <2> QED
      BY <1>12, <2>1 DEF Environment, Observe, ExcludeSource, RenewalFails,
         AttemptFails, Crash
  <1> QED
    BY <1>2, <1>3, <1>4, <1>5, <1>6, <1>7, <1>8, <1>9, <1>10, <1>11, <1>12 DEF Work

LEMMA DeliveryIsCentral ==
  ASSUME DeliveryTypeOK, JobIsHanded, Prepared, [DeliveryNext]_deliveryVars
  PROVE  [Next]_vars
  <1>1. Elsewhere => Next
    BY DEF Elsewhere, Next
  <1>2. Clock => Next
    BY DEF Clock, Next
  <1>3. UNCHANGED deliveryVars => UNCHANGED vars
    BY DEF deliveryVars
  <1> QED
    BY <1>1, <1>2, <1>3, WorkIsCentral DEF DeliveryNext

-----------------------------------------------------------------------------
(* Which actions touch which of a device's records.                        *)

LEMMA WorkFootprint ==
  ASSUME DeliveryNext
  PROVE  \/ UNCHANGED workVars
         \/ \E d \in Devices : pc[d] # "idle" /\ Stop(d)
         \/ \E d \in Devices : pc[d] # "idle" /\
              \E step \in Steps \ {"idle"} : Goto(d, step)
         \/ \E d \in Devices, r \in Requests : Claim(d, r)
  <1> DEFINE Stays == UNCHANGED workVars
             Moves(d) == pc[d] # "idle" /\
               (Stop(d) \/ \E step \in Steps \ {"idle"} : Goto(d, step))
  <1> USE DEF Steps, Goto, Undelivered, Refused, Answered
  <1>1. Elsewhere \/ Clock => Stays
    BY DEF Elsewhere, Clock, agentVars
  <1>2. ASSUME NEW d \in Devices, Work(d)
        PROVE  Stays \/ Moves(d) \/ \E r \in Requests : Claim(d, r)
    <2>1. ClaimNothing(d) => Stays
      BY DEF ClaimNothing, agentVars
    <2>2. Start(d) \/ FreezeSources(d) \/ SelectRoutes(d) => Stays \/ Moves(d)
      BY DEF Start, FreezeSources, SelectRoutes
    <2>3. PlanSlicesCall(d) => Stays \/ Moves(d)
      BY DEF PlanSlicesCall
    <2>4. ASSUME NEW r \in Requests, NEW rt \in Routes,
                 \/ Reconcile(d, r, rt) \/ CommitSliceResult(d, r, rt)
                 \/ DeliverSlice(d, r, rt)
          PROVE  Stays \/ Moves(d)
      BY <2>4 DEF Reconcile, CommitSliceResult, DeliverSlice, AtSlice
    <2>5. FinalHeartbeat(d) \/ CompleteCall(d) \/ Acknowledge(d) \/ ReportFailure(d)
            => Stays \/ Moves(d)
      BY DEF FinalHeartbeat, CompleteCall, Acknowledge, ReportFailure
    <2> QED  BY <1>2, <2>1, <2>2, <2>3, <2>4, <2>5 DEF Work
  <1>3. ASSUME NEW d \in Devices, Environment(d)
        PROVE  Stays \/ Moves(d)
    <2>1. ASSUME \/ \E s \in Sources : Observe(d, s)
                 \/ \E r \in Requests, s \in Sources : ExcludeSource(d, r, s)
                 \/ Renew(d)
          PROVE  Stays
      BY <2>1 DEF Observe, ExcludeSource, Renew, agentVars
    <2>2. RenewalFails(d) \/ AttemptFails(d) \/ Crash(d) => Moves(d)
      BY DEF RenewalFails, Renewing, AttemptFails, Crash
    <2> QED  BY <1>3, <2>1, <2>2 DEF Environment
  <1> QED  BY <1>1, <1>2, <1>3 DEF DeliveryNext

LEMMA SourceFootprint ==
  ASSUME DeliveryNext
  PROVE  \/ UNCHANGED sourceVars
         \/ \E d \in Devices, s \in Sources : Observe(d, s)
         \/ \E d \in Devices, r \in Requests, s \in Sources : ExcludeSource(d, r, s)
         \/ \E d \in Devices : FreezeSources(d)
         \/ \E d \in Devices : Acknowledge(d)
  <1>1. Elsewhere \/ Clock => UNCHANGED sourceVars
    BY DEF Elsewhere, Clock, agentVars
  <1>2. ASSUME NEW d \in Devices, Work(d)
        PROVE  UNCHANGED sourceVars \/ FreezeSources(d) \/ Acknowledge(d)
    BY <1>2 DEF Work, Claim, ClaimNothing, agentVars, Start, SelectRoutes,
       PlanSlicesCall, Reconcile, CommitSliceResult, DeliverSlice, FinalHeartbeat,
       CompleteCall, ReportFailure
  <1>3. ASSUME NEW d \in Devices, Environment(d)
        PROVE  \/ UNCHANGED sourceVars \/ \E s \in Sources : Observe(d, s)
               \/ \E r \in Requests, s \in Sources : ExcludeSource(d, r, s)
    BY <1>3 DEF Environment, Renew, RenewalFails, AttemptFails, Crash, agentVars
  <1> QED  BY <1>1, <1>2, <1>3 DEF DeliveryNext

LEMMA LocalFootprint ==
  ASSUME DeliveryNext
  PROVE  \/ UNCHANGED localVars
         \/ \E d \in Devices : SelectRoutes(d)
         \/ \E d \in Devices, r \in Requests, rt \in Routes :
              \/ Reconcile(d, r, rt) \/ CommitSliceResult(d, r, rt)
              \/ DeliverSlice(d, r, rt)
  <1>1. Elsewhere \/ Clock => UNCHANGED localVars
    BY DEF Elsewhere, Clock, agentVars
  <1>2. ASSUME NEW d \in Devices, Work(d)
        PROVE  \/ UNCHANGED localVars \/ SelectRoutes(d)
               \/ \E r \in Requests, rt \in Routes :
                    \/ Reconcile(d, r, rt) \/ CommitSliceResult(d, r, rt)
                    \/ DeliverSlice(d, r, rt)
    BY <1>2 DEF Work, Claim, ClaimNothing, agentVars, Start, FreezeSources,
       PlanSlicesCall, FinalHeartbeat, CompleteCall, Acknowledge, ReportFailure
  <1>3. ASSUME NEW d \in Devices, Environment(d) PROVE UNCHANGED localVars
    BY <1>3 DEF Environment, Observe, ExcludeSource, Renew, RenewalFails,
       AttemptFails, Crash, agentVars
  <1> QED  BY <1>1, <1>2, <1>3 DEF DeliveryNext

-----------------------------------------------------------------------------
(* Types of a device's records.                                            *)

LEMMA WorkTypeStep ==
  ASSUME TypeOK, WorkTypeOK, DeliveryNext
  PROVE  WorkTypeOK'
  <1>1. CASE UNCHANGED workVars
    BY <1>1 DEF WorkTypeOK, workVars
  <1>2. ASSUME NEW d \in Devices, pc[d] # "idle", Stop(d) PROVE WorkTypeOK'
    BY <1>2 DEF WorkTypeOK, Stop, Steps
  <1>3. ASSUME NEW d \in Devices, pc[d] # "idle",
               NEW step \in Steps \ {"idle"}, Goto(d, step)
        PROVE  WorkTypeOK'
    BY <1>3 DEF WorkTypeOK, Goto
  <1>4. ASSUME NEW d \in Devices, NEW r \in Requests, Claim(d, r)
        PROVE  WorkTypeOK'
    <2>1. <<r, attempts[r] + 1>> \in Requests \X Nat
      BY DEF TypeOK
    <2>2. <<r, attempts[r] + 1>> # NoJob
      BY <2>1, DeliveryAssumption
    <2> QED
      BY <1>4, <2>1, <2>2 DEF WorkTypeOK, Claim, workVars, Steps
  <1> QED
    BY <1>1, <1>2, <1>3, <1>4, WorkFootprint

(* Tokens once handed out stay in the device's hands.                      *)
LEMMA HandedStays ==
  ASSUME TypeOK, IssuedOK, [Next]_vars, NEW d \in Devices, NEW r \in Requests,
         NEW t \in HandedTo(d, r)
  PROVE  t \in HandedTo(d, r)'
  <1>1. attempts[r] \in Nat /\ issued[r] \in Seq(Devices) /\ Len(issued[r]) = attempts[r]
    BY DEF TypeOK, IssuedOK
  <1>2. CASE UNCHANGED <<attempts, issued>>
    BY <1>2 DEF HandedTo
  <1>3. ASSUME NEW e \in Devices, NEW q \in Requests, ClaimNextGroup(e, q)
        PROVE  t \in HandedTo(d, r)'
    <2>1. CASE q = r
      <3>1. attempts'[r] = attempts[r] + 1 /\ issued'[r] = Append(issued[r], e)
        BY <1>3, <2>1 DEF ClaimNextGroup, TypeOK
      <3> QED  BY <1>1, <3>1 DEF HandedTo
    <2>2. CASE q # r
      <3>1. attempts'[r] = attempts[r] /\ issued'[r] = issued[r]
        BY <1>3, <2>2 DEF ClaimNextGroup, TypeOK
      <3> QED  BY <3>1 DEF HandedTo
    <2> QED  BY <2>1, <2>2
  <1>4. \/ UNCHANGED <<attempts, issued>>
        \/ \E e \in Devices, q \in Requests : ClaimNextGroup(e, q)
    <2>1. ASSUME NEW e \in Devices, NEW q \in Requests, NEW u \in HandedTo(e, q),
                 DeviceCall(e, q, u)
          PROVE  UNCHANGED <<attempts, issued>>
      BY <2>1 DEF DeviceCall, StartGroup, HeartbeatGroup, RecordGroupProgress,
         PlanSlices, PlanNothing, AcceptSliceBatch, CompleteGroup, FailGroup,
         leaseVars
    <2>2. Tick \/ RequeueDueGroups \/ Operate \/ UNCHANGED vars
            => UNCHANGED <<attempts, issued>>
      BY DEF Tick, RequeueDueGroups, Operate, SetEnabled, ReplaceRouteHeads,
             leaseVars, vars
    <2>3. ASSUME NEW u \in Users, NEW p \in Repositories, NEW ca \in ClientActions,
                 CreateGroup(u, p, ca)
          PROVE  UNCHANGED <<attempts, issued>>
      BY <2>3 DEF CreateGroup, leaseVars
    <2> QED  BY <2>1, <2>2, <2>3 DEF Next
  <1> QED  BY <1>2, <1>3, <1>4

LEMMA JobIsHandedStep ==
  ASSUME TypeOK, IssuedOK, WorkTypeOK, JobIsHanded, [Next]_vars, DeliveryNext
  PROVE  JobIsHanded'
  <1>1. SUFFICES ASSUME NEW d \in Devices, job'[d] # NoJob
                 PROVE  Token(d)' \in HandedTo(d, Request(d))'
    BY DEF JobIsHanded
  <1>2. CASE job'[d] = job[d]
    <2>1. Request(d) \in Requests /\ Token(d) \in HandedTo(d, Request(d))
      BY <1>1, <1>2 DEF JobIsHanded, WorkTypeOK, Request
    <2>2. Token(d) \in HandedTo(d, Request(d))'
      <3> DEFINE r == Request(d)
      <3>1. r \in Requests /\ Token(d) \in HandedTo(d, r)
        BY <2>1
      <3>2. r' = r
        BY <1>2 DEF Request
      <3> HIDE DEF r
      <3>3. Token(d) \in HandedTo(d, r)'
        BY <3>1, <3>2, HandedStays DEF HandedTo
      <3> QED  BY <3>3 DEF r
    <2> QED  BY <1>2, <2>2 DEF Token
  <1>3. ASSUME NEW r \in Requests, Claim(d, r), job'[d] = <<r, attempts[r] + 1>>
        PROVE  Token(d)' \in HandedTo(d, Request(d))'
    <2>1. /\ attempts[r] \in Nat /\ issued[r] \in Seq(Devices)
          /\ Len(issued[r]) = attempts[r]
      BY DEF TypeOK, IssuedOK
    <2>2. attempts'[r] = attempts[r] + 1 /\ issued'[r] = Append(issued[r], d)
      BY <1>3 DEF Claim, ClaimNextGroup, TypeOK
    <2> QED  BY <1>3, <2>1, <2>2 DEF HandedTo, Request, Token
  <1>4. \/ job'[d] = job[d] \/ job'[d] = NoJob
        \/ \E r \in Requests : Claim(d, r) /\ job'[d] = <<r, attempts[r] + 1>>
    BY WorkFootprint DEF workVars, Stop, Goto, Claim, WorkTypeOK
  <1> QED  BY <1>1, <1>2, <1>3, <1>4

LEMMA FreezeIsObserved ==
  ASSUME SourceTypeOK, BoundariesObserved, NEW d \in Devices, NEW r \in Requests,
         NEW selected \in Selections(d, r)
  PROVE  /\ [s \in selected |-> latest[d][s]] \in Freezes
         /\ selected \subseteq Sources
  <1>1. selected \subseteq Changed(d, r) /\ Changed(d, r) \subseteq Sources
    BY DeliveryAssumption DEF Selections, Changed
  <1>2. ASSUME NEW s \in Changed(d, r) PROVE latest[d][s] \in 1..MaxTurns
    BY <1>1, <1>2, DeliveryAssumption DEF Changed, SourceTypeOK, BoundariesObserved
  <1>3. [s \in selected |-> latest[d][s]] \in [selected -> 1..MaxTurns]
    BY <1>1, <1>2
  <1> QED  BY <1>1, <1>3 DEF Freezes

LEMMA SourceTypeStep ==
  ASSUME SourceTypeOK, WorkTypeOK, Prepared, BoundariesObserved, DeliveryNext
  PROVE  SourceTypeOK' /\ BoundariesObserved'
  <1> USE DEF SourceTypeOK, BoundariesObserved
  <1>1. CASE UNCHANGED sourceVars
    BY <1>1 DEF sourceVars
  <1>2. ASSUME NEW d \in Devices, NEW s \in Sources, Observe(d, s)
        PROVE  SourceTypeOK' /\ BoundariesObserved'
    <2>1. latest[d][s] + 1 \in 0..MaxTurns
      BY <1>2, DeliveryAssumption DEF Observe
    <2>2. /\ latest' = [latest EXCEPT ![d][s] = @ + 1]
          /\ UNCHANGED <<handled, excluded, freeze, acked>>
      BY <1>2 DEF Observe
    <2>3. SourceTypeOK'
      BY <2>1, <2>2
    <2>4. \A e \in Devices, x \in Sources : latest'[e][x] >= latest[e][x]
      BY <2>1, <2>2, DeliveryAssumption
    <2>5. BoundariesObserved'
      <3>1. SUFFICES ASSUME NEW e \in Devices, NEW x \in Sources
                     PROVE  /\ handled[e][x] <= latest'[e][x]
                            /\ \A r \in Requests :
                                 freeze[e][r] # NoFreeze /\ x \in DOMAIN freeze[e][r]
                                   => freeze[e][r][x] <= latest'[e][x]
        BY <2>2
      <3>2. handled[e][x] \in Nat /\ latest[e][x] \in Nat /\ latest'[e][x] \in Nat
        BY <2>3, DeliveryAssumption
      <3>3. ASSUME NEW r \in Requests, freeze[e][r] # NoFreeze,
                   x \in DOMAIN freeze[e][r]
            PROVE  freeze[e][r][x] \in Nat
        BY <3>3, DeliveryAssumption DEF Freezes
      <3> QED  BY <2>4, <3>2, <3>3
    <2> QED  BY <2>3, <2>5
  <1>3. ASSUME NEW d \in Devices, NEW r \in Requests, NEW s \in Sources,
               ExcludeSource(d, r, s)
        PROVE  SourceTypeOK' /\ BoundariesObserved'
    BY <1>3 DEF ExcludeSource
  <1>4. ASSUME NEW d \in Devices, FreezeSources(d)
        PROVE  SourceTypeOK' /\ BoundariesObserved'
    <2>1. CASE UNCHANGED freeze
      BY <1>4, <2>1 DEF FreezeSources
    <2>2. ASSUME NEW selected \in Selections(d, Request(d)),
                 freeze' = [freeze EXCEPT ![d][Request(d)] =
                              [s \in selected |-> latest[d][s]]]
          PROVE  SourceTypeOK' /\ BoundariesObserved'
      <3> DEFINE r == Request(d)
                 upper == [s \in selected |-> latest[d][s]]
      <3>1. r \in Requests
        BY <1>4 DEF FreezeSources, WorkTypeOK, Request
      <3>2. upper \in Freezes /\ selected \subseteq Sources
        BY <2>2, <3>1, FreezeIsObserved
      <3>3. \A s \in selected : upper[s] <= latest[d][s]
        BY <3>2, DeliveryAssumption
      <3>4. DOMAIN upper = selected
        OBVIOUS
      <3>5. /\ freeze' = [freeze EXCEPT ![d][r] = upper]
            /\ UNCHANGED <<latest, handled, excluded, acked>>
        BY <1>4, <2>2 DEF FreezeSources
      <3> HIDE DEF upper, r
      <3>6. SourceTypeOK'
        BY <3>1, <3>2, <3>5
      <3>7. BoundariesObserved'
        BY <3>1, <3>3, <3>4, <3>5
      <3> QED  BY <3>6, <3>7
    <2> QED  BY <1>4, <2>1, <2>2 DEF FreezeSources
  <1>5. ASSUME NEW d \in Devices, Acknowledge(d), freeze[d][Request(d)] \in Freezes
        PROVE  SourceTypeOK' /\ BoundariesObserved'
    <2> DEFINE upper == freeze[d][Request(d)]
               moved == [s \in Sources |->
                           IF s \in DOMAIN upper THEN upper[s] ELSE handled[d][s]]
    <2>1. Request(d) \in Requests
      BY <1>5 DEF Acknowledge, WorkTypeOK, Request
    <2>2. /\ handled' = [handled EXCEPT ![d] = moved]
          /\ acked' = [acked EXCEPT ![d] = @ \cup {Request(d)}]
          /\ UNCHANGED <<latest, excluded, freeze>>
      BY <1>5 DEF Acknowledge
    <2>3. upper # NoFreeze
      BY <1>5, DeliveryAssumption
    <2>4. \A s \in DOMAIN upper : upper[s] \in 0..MaxTurns
      BY <1>5, DeliveryAssumption DEF Freezes
    <2>5. \A s \in Sources : moved[s] \in 0..MaxTurns /\ moved[s] <= latest[d][s]
      BY <2>1, <2>3, <2>4
    <2> HIDE DEF moved
    <2>6. moved \in [Sources -> 0..MaxTurns]
      BY <2>5 DEF moved
    <2>7. SourceTypeOK'
      BY <2>1, <2>2, <2>6
    <2>8. BoundariesObserved'
      BY <2>2, <2>5
    <2> QED  BY <2>7, <2>8
  <1>6. ASSUME NEW d \in Devices, Acknowledge(d)
        PROVE  freeze[d][Request(d)] \in Freezes
    BY <1>6 DEF Acknowledge, WorkTypeOK, Prepared, Frozen, Request
  <1> QED  BY <1>1, <1>2, <1>3, <1>4, <1>5, <1>6, SourceFootprint

LEMMA LocalTypeStep ==
  ASSUME TypeOK, LocalTypeOK, WorkTypeOK, DeliveryNext
  PROVE  LocalTypeOK'
  <1> USE DEF LocalTypeOK
  <1>1. CASE UNCHANGED localVars
    BY <1>1 DEF localVars
  <1>2. ASSUME NEW d \in Devices, SelectRoutes(d) PROVE LocalTypeOK'
    <2>1. CASE UNCHANGED selection
      BY <1>2, <2>1 DEF SelectRoutes
    <2>2. ASSUME NEW routes \in SUBSET snapshot[Request(d)], routes \subseteq Routes,
                 selection' = [selection EXCEPT ![d][Request(d)] = routes]
          PROVE  LocalTypeOK'
      BY <1>2, <2>2 DEF SelectRoutes
    <2>3. snapshot[Request(d)] \subseteq Routes
      BY <1>2 DEF SelectRoutes, WorkTypeOK, Request, TypeOK
    <2> QED  BY <1>2, <2>1, <2>2, <2>3 DEF SelectRoutes
  <1>3. ASSUME NEW d \in Devices, NEW r \in Requests, NEW rt \in Routes,
               Reconcile(d, r, rt)
        PROVE  LocalTypeOK'
    <2>1. PICK growth \in [MintedFor(d, r, rt) -> 0..MaxGrowth], content \in Contents :
            LET heads == [f \in Families |->
                            IF f \in MintedFor(d, r, rt)
                              THEN localHead[d][f] + growth[f] ELSE 0]
                batch == Uploadable(d, heads, content)
            IN  /\ batch \in Batches
                /\ draft' = [draft EXCEPT ![d][r][rt] = [heads |-> heads, batch |-> batch]]
      BY <1>3 DEF Reconcile
    <2> DEFINE heads == [f \in Families |->
                           IF f \in MintedFor(d, r, rt)
                             THEN localHead[d][f] + growth[f] ELSE 0]
               batch == Uploadable(d, heads, content)
    <2>2. heads \in [Families -> Nat]
      BY DeliveryAssumption
    <2>3. batch \in Batches
      BY <2>1
    <2> HIDE DEF heads, batch
    <2>4. [heads |-> heads, batch |-> batch] \in Draft
      BY <2>2, <2>3 DEF Draft
    <2>5. draft' = [draft EXCEPT ![d][r][rt] = [heads |-> heads, batch |-> batch]]
      BY <2>1 DEF heads, batch
    <2> QED  BY <1>3, <2>4, <2>5 DEF Reconcile
  <1>4. ASSUME NEW d \in Devices, NEW r \in Requests, NEW rt \in Routes,
               CommitSliceResult(d, r, rt)
        PROVE  LocalTypeOK'
    <2>1. draft[d][r][rt].heads \in [Families -> Nat] /\ draft[d][r][rt].batch \in Batches
      BY <1>4 DEF CommitSliceResult, Draft
    <2> QED  BY <1>4, <2>1 DEF CommitSliceResult, Receipts
  <1>5. ASSUME NEW d \in Devices, NEW r \in Requests, NEW rt \in Routes,
               DeliverSlice(d, r, rt)
        PROVE  LocalTypeOK'
    <2>1. UNCHANGED <<selection, localHead, draft, outbox>>
      BY <1>5 DEF DeliverSlice
    <2>2. \/ UNCHANGED uploaded
          \/ uploaded' = [uploaded EXCEPT ![d] = @ \cup {<<r, rt>>}]
      BY <1>5 DEF DeliverSlice
    <2>3. uploaded' \in [Devices -> SUBSET (Requests \X Routes)]
      <3>1. uploaded[d] \cup {<<r, rt>>} \in SUBSET (Requests \X Routes)
        OBVIOUS
      <3> QED  BY <2>2, <3>1
    <2> QED  BY <2>1, <2>3
  <1> QED  BY <1>1, <1>2, <1>3, <1>4, <1>5, LocalFootprint

-----------------------------------------------------------------------------
(* The order of _process.                                                  *)

LEMMA StepOrder ==
  ASSUME WorkTypeOK, DeliveryNext, NEW d \in Devices, pc'[d] \in Frozen
  PROVE  /\ job'[d] = job[d] /\ pc[d] # "idle"
         /\ pc[d] \in Frozen \/ (FreezeSources(d) /\ pc'[d] = "select")
         /\ pc'[d] \in Selected => pc[d] \in Selected \/ SelectRoutes(d)
  <1> USE DEF WorkTypeOK, Frozen, Selected, Steps, Goto, Stop, Undelivered, Refused,
          Answered, workVars
  <1>1. Elsewhere \/ Clock => UNCHANGED workVars
    BY DEF Elsewhere, Clock, agentVars
  <1>2. ASSUME NEW e \in Devices, Work(e)
        PROVE  \/ UNCHANGED <<pc[d], job[d]>>
               \/ /\ e = d /\ job'[d] = job[d]
                  /\ \/ FreezeSources(d) /\ pc'[d] = "select"
                     \/ pc[d] \in Frozen /\ SelectRoutes(d)
                     \/ pc[d] \in Selected
    <2>1. ASSUME NEW r \in Requests, Claim(e, r) PROVE UNCHANGED <<pc[d], job[d]>>
      BY <2>1 DEF Claim
    <2>2. ClaimNothing(e) => UNCHANGED <<pc[d], job[d]>>
      BY DEF ClaimNothing, agentVars
    <2>3. Start(e) => UNCHANGED <<pc[d], job[d]>> \/ (e = d /\ pc'[d] \in {"freeze"})
      BY DEF Start
    <2>4. FreezeSources(e) => UNCHANGED <<pc[d], job[d]>>
                                \/ (e = d /\ job'[d] = job[d] /\ pc'[d] = "select")
      BY DEF FreezeSources
    <2>5. SelectRoutes(e) => UNCHANGED <<pc[d], job[d]>>
                               \/ (e = d /\ job'[d] = job[d] /\ pc[d] = "select")
      BY DEF SelectRoutes
    <2>6. PlanSlicesCall(e) => UNCHANGED <<pc[d], job[d]>>
                                 \/ (e = d /\ job'[d] = job[d] /\ pc[d] = "plan")
      BY DEF PlanSlicesCall
    <2>7. ASSUME NEW r \in Requests, NEW rt \in Routes,
                 \/ Reconcile(e, r, rt) \/ CommitSliceResult(e, r, rt)
                 \/ DeliverSlice(e, r, rt)
          PROVE  UNCHANGED <<pc[d], job[d]>>
                   \/ (e = d /\ job'[d] = job[d] /\ pc[d] = "slice")
      BY <2>7 DEF Reconcile, CommitSliceResult, DeliverSlice, AtSlice
    <2>8. FinalHeartbeat(e) => UNCHANGED <<pc[d], job[d]>>
                                 \/ (e = d /\ job'[d] = job[d] /\ pc[d] = "slice")
      BY DEF FinalHeartbeat
    <2>9. CompleteCall(e) => UNCHANGED <<pc[d], job[d]>>
            \/ (e = d /\ job'[d] = job[d] /\ pc[d] \in {"completing", "replaying"})
      BY DEF CompleteCall
    <2>10. Acknowledge(e) \/ ReportFailure(e) => UNCHANGED <<pc[d], job[d]>>
      BY DEF Acknowledge, ReportFailure
    <2> QED
      BY <1>2, <2>1, <2>2, <2>3, <2>4, <2>5, <2>6, <2>7, <2>8, <2>9, <2>10 DEF Work
  <1>3. ASSUME NEW e \in Devices, Environment(e)
        PROVE  UNCHANGED <<pc[d], job[d]>>
    BY <1>3 DEF Environment, Observe, ExcludeSource, Renew, RenewalFails,
       AttemptFails, Crash, agentVars
  <1>4. \/ UNCHANGED <<pc[d], job[d]>>
        \/ /\ job'[d] = job[d]
           /\ \/ FreezeSources(d) /\ pc'[d] = "select"
              \/ pc[d] \in Frozen /\ SelectRoutes(d)
              \/ pc[d] \in Selected
    BY <1>1, <1>2, <1>3 DEF DeliveryNext
  <1>5. FreezeSources(d) => pc[d] = "freeze"
    BY DEF FreezeSources
  <1> QED  BY <1>4, <1>5

(* A freeze and a selection are made once.                                 *)
LEMMA FrozenStays ==
  ASSUME SourceTypeOK, WorkTypeOK, DeliveryNext, NEW d \in Devices,
         NEW r \in Requests, freeze[d][r] # NoFreeze
  PROVE  freeze'[d][r] = freeze[d][r]
  <1>1. CASE UNCHANGED freeze
    BY <1>1
  <1>2. ASSUME NEW e \in Devices, FreezeSources(e)
        PROVE  freeze'[d][r] = freeze[d][r]
    <2>1. CASE freeze[e][Request(e)] = NoFreeze
      <3>1. PICK upper : freeze' = [freeze EXCEPT ![e][Request(e)] = upper]
        BY <1>2, <2>1 DEF FreezeSources
      <3> QED  BY <2>1, <3>1 DEF SourceTypeOK
    <2> QED  BY <1>2, <2>1 DEF FreezeSources
  <1> QED
    BY <1>1, <1>2, SourceFootprint DEF sourceVars, Observe, ExcludeSource, Acknowledge

LEMMA SelectionStays ==
  ASSUME LocalTypeOK, WorkTypeOK, DeliveryNext, NEW d \in Devices,
         NEW r \in Requests, selection[d][r] # NoSelection
  PROVE  selection'[d][r] = selection[d][r]
  <1>1. CASE UNCHANGED selection
    BY <1>1
  <1>2. ASSUME NEW e \in Devices, SelectRoutes(e)
        PROVE  selection'[d][r] = selection[d][r]
    <2>1. CASE selection[e][Request(e)] = NoSelection
      <3>1. PICK routes : selection' = [selection EXCEPT ![e][Request(e)] = routes]
        BY <1>2, <2>1 DEF SelectRoutes
      <3> QED  BY <2>1, <3>1 DEF LocalTypeOK
    <2> QED  BY <1>2, <2>1 DEF SelectRoutes
  <1> QED
    BY <1>1, <1>2, LocalFootprint DEF localVars, Reconcile, CommitSliceResult,
       DeliverSlice

LEMMA PreparedStep ==
  ASSUME TypeOK, SourceTypeOK, LocalTypeOK, WorkTypeOK, BoundariesObserved,
         Prepared, DeliveryNext
  PROVE  Prepared'
  <1>1. SUFFICES ASSUME NEW d \in Devices, pc'[d] \in Frozen
                 PROVE  /\ freeze'[d][Request(d)'] # NoFreeze
                        /\ pc'[d] \in Selected => selection'[d][Request(d)'] # NoSelection
    BY DEF Prepared, Frozen, Selected
  <1>2. job'[d] = job[d] /\ Request(d)' = Request(d) /\ Request(d) \in Requests
    BY <1>1, StepOrder DEF Request, WorkTypeOK
  <1>3. freeze'[d][Request(d)] # NoFreeze
    <2>1. CASE pc[d] \in Frozen
      BY <1>2, <2>1, FrozenStays DEF Prepared
    <2>2. CASE FreezeSources(d) /\ freeze[d][Request(d)] # NoFreeze
      BY <1>2, <2>2, FrozenStays
    <2>3. ASSUME FreezeSources(d), freeze[d][Request(d)] = NoFreeze
          PROVE  freeze'[d][Request(d)] # NoFreeze
      <3>1. PICK selected \in Selections(d, Request(d)) :
              freeze' = [freeze EXCEPT ![d][Request(d)] = [s \in selected |-> latest[d][s]]]
        BY <2>3 DEF FreezeSources
      <3>2. [s \in selected |-> latest[d][s]] \in Freezes
        BY <1>2, FreezeIsObserved
      <3>3. freeze'[d][Request(d)] = [s \in selected |-> latest[d][s]]
        BY <1>2, <3>1 DEF SourceTypeOK
      <3>4. NoFreeze \notin Freezes
        BY DeliveryAssumption
      <3> QED  BY <3>2, <3>3, <3>4
    <2> QED  BY <1>1, <2>1, <2>2, <2>3, StepOrder
  <1>4. ASSUME pc'[d] \in Selected
        PROVE  selection'[d][Request(d)] # NoSelection
    <2>1. CASE pc[d] \in Selected
      BY <1>2, <2>1, SelectionStays DEF Prepared
    <2>2. CASE SelectRoutes(d) /\ selection[d][Request(d)] # NoSelection
      BY <1>2, <2>2, SelectionStays
    <2>3. ASSUME SelectRoutes(d), selection[d][Request(d)] = NoSelection
          PROVE  selection'[d][Request(d)] # NoSelection
      <3>1. PICK routes \in SUBSET snapshot[Request(d)] :
              selection' = [selection EXCEPT ![d][Request(d)] = routes]
        BY <2>3 DEF SelectRoutes
      <3>2. routes \in SUBSET Routes
        BY <1>2 DEF TypeOK
      <3>3. selection'[d][Request(d)] = routes
        BY <1>2, <3>1 DEF LocalTypeOK
      <3> QED  BY <3>2, <3>3, DeliveryAssumption
    <2> QED  BY <1>1, <1>4, <2>1, <2>2, <2>3, StepOrder
  <1> QED  BY <1>2, <1>3, <1>4

-----------------------------------------------------------------------------
(* The invariant of the composition.                                       *)

LEMMA FaultsStep ==
  ASSUME faults \in 0..MaxFaults, DeliveryNext
  PROVE  faults' \in 0..MaxFaults
  <1>1. faults < MaxFaults /\ faults' = faults + 1 => faults' \in 0..MaxFaults
    BY DeliveryAssumption
  <1>2. Elsewhere \/ Clock => UNCHANGED faults
    BY DEF Elsewhere, Clock, agentVars
  <1>3. ASSUME NEW d \in Devices, Work(d) \/ Environment(d)
        PROVE  UNCHANGED faults \/ (faults < MaxFaults /\ faults' = faults + 1)
    <2> USE DEF Fault, Answered, Undelivered, Refused
    <2>1. ASSUME NEW r \in Requests, NEW rt \in Routes,
                 \/ Reconcile(d, r, rt) \/ CommitSliceResult(d, r, rt)
                 \/ DeliverSlice(d, r, rt)
          PROVE  UNCHANGED faults \/ (faults < MaxFaults /\ faults' = faults + 1)
      BY <2>1 DEF Reconcile, CommitSliceResult, DeliverSlice
    <2>2. Start(d) \/ FreezeSources(d) \/ SelectRoutes(d) \/ PlanSlicesCall(d)
            => UNCHANGED faults \/ (faults < MaxFaults /\ faults' = faults + 1)
      BY DEF Start, FreezeSources, SelectRoutes, PlanSlicesCall
    <2>3. FinalHeartbeat(d) \/ CompleteCall(d) \/ Acknowledge(d) \/ ReportFailure(d)
            => UNCHANGED faults \/ (faults < MaxFaults /\ faults' = faults + 1)
      BY DEF FinalHeartbeat, CompleteCall, Acknowledge, ReportFailure
    <2>4. Environment(d) \/ ClaimNothing(d) \/ (\E r \in Requests : Claim(d, r))
            => UNCHANGED faults \/ (faults < MaxFaults /\ faults' = faults + 1)
      BY DEF Environment, Observe, ExcludeSource, Renew, RenewalFails, AttemptFails,
             Crash, ClaimNothing, Claim, agentVars
    <2> QED  BY <1>3, <2>1, <2>2, <2>3, <2>4 DEF Work
  <1> QED  BY <1>1, <1>2, <1>3 DEF DeliveryNext

LEMMA InitDeliveryInv == DeliveryInit => DeliveryInv
  <1> SUFFICES ASSUME DeliveryInit PROVE DeliveryInv
    OBVIOUS
  <1> USE DEF DeliveryInit
  <1>1. LeaseInv
    BY InitTypeOK, InitWakeup DEF LeaseInv
  <1>2. SourceTypeOK /\ BoundariesObserved
    BY DeliveryAssumption DEF SourceTypeOK, BoundariesObserved
  <1>3. LocalTypeOK
    BY DEF LocalTypeOK, Receipts, NoReceipts
  <1>4. WorkTypeOK /\ JobIsHanded /\ Prepared
    BY DEF WorkTypeOK, JobIsHanded, Prepared, Frozen, Selected, Steps
  <1>5. faults \in 0..MaxFaults
    BY DeliveryAssumption
  <1> QED  BY <1>1, <1>2, <1>3, <1>4, <1>5 DEF DeliveryInv, DeliveryTypeOK

LEMMA NextDeliveryInv ==
  DeliveryInv /\ [DeliveryNext]_deliveryVars => DeliveryInv'
  <1> SUFFICES ASSUME DeliveryInv, [DeliveryNext]_deliveryVars PROVE DeliveryInv'
    OBVIOUS
  <1>1. [Next]_vars
    BY DeliveryIsCentral DEF DeliveryInv
  <1>2. LeaseInv'
    BY <1>1, NextLeaseInv DEF DeliveryInv
  <1>3. CASE DeliveryNext
    <2>1. /\ TypeOK /\ IssuedOK /\ SourceTypeOK /\ LocalTypeOK /\ WorkTypeOK
          /\ faults \in 0..MaxFaults
          /\ JobIsHanded /\ Prepared /\ BoundariesObserved
      BY DEF DeliveryInv, LeaseInv, DeliveryTypeOK
    <2>2. SourceTypeOK' /\ BoundariesObserved'
      BY <1>3, <2>1, SourceTypeStep
    <2>3. LocalTypeOK' /\ WorkTypeOK' /\ faults' \in 0..MaxFaults
      BY <1>3, <2>1, LocalTypeStep, WorkTypeStep, FaultsStep
    <2>4. JobIsHanded' /\ Prepared'
      BY <1>1, <1>3, <2>1, JobIsHandedStep, PreparedStep
    <2> QED  BY <1>2, <2>2, <2>3, <2>4 DEF DeliveryInv, DeliveryTypeOK
  <1>4. CASE UNCHANGED deliveryVars
    BY <1>2, <1>4 DEF DeliveryInv, DeliveryTypeOK, SourceTypeOK, LocalTypeOK,
       WorkTypeOK, JobIsHanded, Prepared, BoundariesObserved, deliveryVars,
       agentVars, sourceVars, localVars, workVars, Request, Token, HandedTo, vars,
       leaseVars
  <1> QED  BY <1>3, <1>4

(* The inductive invariant of the composition: what the steps of one        *)
(* attempt (capture_processor.py, _process) have prepared for the next ones. *)
THEOREM DeliveryInvCorrect == DeliverySpec => []DeliveryInv
  BY InitDeliveryInv, NextDeliveryInv, PTL DEF DeliverySpec

(* Types of a device's records, and that it holds a job exactly while it   *)
(* works (agent/service.py, run_once).                                     *)
THEOREM DeliveryTypeCorrect == DeliverySpec => []DeliveryTypeOK
  <1>1. DeliveryInv => DeliveryTypeOK
    BY DEF DeliveryInv
  <1> QED  BY <1>1, DeliveryInvCorrect, PTL

(* Agents only take the steps Central's specification allows: every        *)
(* theorem about CaptureGroups is one about the composition.               *)
THEOREM DeliveryImplementsCentral == DeliverySpec => Spec
  <1>1. DeliveryInit => Init
    BY DEF DeliveryInit
  <1>2. DeliveryInv /\ [DeliveryNext]_deliveryVars => [Next]_vars
    BY DeliveryIsCentral DEF DeliveryInv
  <1> QED
    BY <1>1, <1>2, DeliveryInvCorrect, PTL DEF DeliverySpec, Spec

-----------------------------------------------------------------------------
(* What a device acknowledges is what Central has.                         *)

(* The invariants of Central the rest builds on.                           *)
CentralInv == LeaseInv /\ StoreInv /\ SuccessIsBacked

(* Central's inductive invariants hold beside the devices' own.            *)
THEOREM CentralInvCorrect == DeliverySpec => [](CentralInv /\ DeliveryInv)
  BY LeaseCorrect, StoreCorrect, SuccessCorrect, DeliveryImplementsCentral,
     DeliveryInvCorrect, PTL DEF CentralInv

(* Request r of device d succeeded with exactly what d committed.          *)
Settled(d, r) == state[r] \in SuccessStates /\ result[r] = outbox[d][r]

(* Every checkpoint is the boundary of an acknowledged request.            *)
HandledIsAcked ==
  \A d \in Devices, s \in Sources : handled[d][s] # 0 =>
    \E r \in acked[d] : /\ freeze[d][r] # NoFreeze /\ s \in DOMAIN freeze[d][r]
                       /\ freeze[d][r][s] = handled[d][s]

(* Only planned routes are staged, and nobody works on a settled request   *)
(* again, so what was acknowledged stays what it was.                      *)
AckInv ==
  /\ \A d \in Devices, r \in Requests, rt \in Routes : outbox[d][r][rt] # NoBatch =>
       selection[d][r] # NoSelection /\ rt \in selection[d][r]
  /\ \A d \in Devices : pc[d] = "acknowledge" => Settled(d, Request(d))
  /\ \A d \in Devices : job[d] # NoJob => Request(d) \notin acked[d]
  /\ \A d \in Devices : \A r \in acked[d] : Settled(d, r)
  /\ HandledIsAcked

LEMMA SettledStays ==
  ASSUME CentralInv, DeliveryInv, [Next]_vars, NEW d \in Devices, NEW r \in Requests,
         Settled(d, r), outbox'[d][r] = outbox[d][r]
  PROVE  Settled(d, r)'
  <1>1. state[r] \notin LeasedStates /\ state[r] \in TerminalStates
    BY DEF Settled, SuccessStates, LeasedStates, TerminalStates
  <1> QED  BY <1>1, UnleasedGroupsRest DEF CentralInv, Settled

LEMMA OutboxStep ==
  ASSUME LocalTypeOK, DeliveryNext
  PROVE  \/ UNCHANGED outbox
         \/ \E d \in Devices, rt \in Routes :
              /\ pc[d] = "slice" /\ rt \in selection[d][Request(d)]
              /\ outbox[d][Request(d)][rt] = NoBatch
              /\ \E batch \in Batches :
                   outbox' = [outbox EXCEPT ![d][Request(d)][rt] = batch]
              /\ UNCHANGED <<selection, pc, job>>
  <1>1. ASSUME NEW d \in Devices, NEW r \in Requests, NEW rt \in Routes,
               CommitSliceResult(d, r, rt)
        PROVE  /\ pc[d] = "slice" /\ rt \in selection[d][Request(d)]
               /\ outbox[d][Request(d)][rt] = NoBatch
               /\ \E batch \in Batches :
                    outbox' = [outbox EXCEPT ![d][Request(d)][rt] = batch]
               /\ UNCHANGED <<selection, pc, job>>
    <2>1. r = Request(d) /\ draft[d][r][rt].batch \in Batches
      BY <1>1 DEF CommitSliceResult, AtSlice, LocalTypeOK, Draft
    <2> QED  BY <1>1, <2>1 DEF CommitSliceResult, AtSlice, Missing, workVars
  <1> QED
    BY <1>1, LocalFootprint DEF localVars, SelectRoutes, Reconcile, DeliverSlice

(* A device staged nothing when it selected no route.                      *)
LEMMA EmptySelection ==
  ASSUME AckInv, LocalTypeOK, NEW d \in Devices, NEW r \in Requests,
         selection[d][r] = {}
  PROVE  outbox[d][r] = NoReceipts
  <1>1. outbox[d][r] \in Receipts
    BY DEF LocalTypeOK
  <1>2. \A rt \in Routes : outbox[d][r][rt] = NoBatch
    BY DEF AckInv
  <1> QED  BY <1>1, <1>2 DEF Receipts, NoReceipts

(* The two calls whose answer lets a device acknowledge.                   *)
LEMMA PlanSettles ==
  ASSUME CentralInv, DeliveryInv, AckInv, NEW d \in Devices, PlanSlicesCall(d),
         pc'[d] = "acknowledge"
  PROVE  Settled(d, Request(d))'
  <1> DEFINE r == Request(d)
  <1>1. r \in Requests /\ pc[d] = "plan" /\ job'[d] = job[d] /\ r' = r
    BY StepOrder, JobOf DEF DeliveryInv, PlanSlicesCall, DeliveryTypeOK, WorkTypeOK, Frozen,
       Request, Goto, Answered, Undelivered, Refused, workVars
  <1>2. outbox' = outbox
    BY DEF PlanSlicesCall, localVars
  <1>3. /\ selection[d][r] = {}
        /\ \/ PlanNothing(d, r, Token(d))
           \/ ReplaysNothing(d, r) /\ UNCHANGED vars
    BY <1>1 DEF PlanSlicesCall, Goto, Answered, Undelivered, Refused, workVars,
       DeliveryInv, DeliveryTypeOK, WorkTypeOK, ReplaysNothing
  <1>4. outbox[d][r] = NoReceipts
    BY <1>1, <1>3, EmptySelection DEF DeliveryInv, DeliveryTypeOK
  <1>5. CASE PlanNothing(d, r, Token(d))
    <2>1. state'[r] = "succeeded_no_candidates" /\ result'[r] = NoReceipts
      BY <1>1, <1>5 DEF PlanNothing, CentralInv, LeaseInv, TypeOK
    <2> QED  BY <1>1, <1>2, <1>4, <2>1 DEF Settled, SuccessStates
  <1>6. CASE ReplaysNothing(d, r) /\ UNCHANGED vars
    <2>1. state[r] \in SuccessStates /\ result[r] = receipt[r] /\ PlannedRoutes(r) = {}
      BY <1>1, <1>6 DEF ReplaysNothing, SuccessStates, CentralInv, SuccessIsBacked
    <2>2. \A rt \in Routes : receipt[r][rt] = NoBatch
      BY <1>1, <2>1 DEF CentralInv, StoreInv, ReceiptsArePlanned, PlannedRoutes
    <2>3. receipt[r] = NoReceipts
      BY <1>1, <2>2 DEF CentralInv, LeaseInv, TypeOK, Receipts, NoReceipts
    <2>4. state' = state /\ result' = result
      BY <1>6 DEF vars, sliceVars
    <2> QED  BY <1>1, <1>2, <1>4, <2>1, <2>3, <2>4 DEF Settled
  <1> QED  BY <1>3, <1>5, <1>6

LEMMA CompletionSettles ==
  ASSUME CentralInv, DeliveryInv, NEW d \in Devices, CompleteCall(d),
         pc'[d] = "acknowledge"
  PROVE  Settled(d, Request(d))'
  <1> DEFINE r == Request(d)
             t == Token(d)
  <1>1. r \in Requests /\ job'[d] = job[d] /\ r' = r
    BY StepOrder, JobOf DEF DeliveryInv, CompleteCall, DeliveryTypeOK, WorkTypeOK, Frozen,
       Request, Goto, Stop, Undelivered, Refused, workVars
  <1>2. outbox' = outbox
    BY DEF CompleteCall, localVars
  <1>3. \/ CompleteGroup(d, r, t) /\ receipt[r] = outbox[d][r]
        \/ ReplaysCompletion(d, r) /\ UNCHANGED vars
    BY DEF CompleteCall, Goto, Stop, Undelivered, Refused, workVars,
       DeliveryInv, DeliveryTypeOK, WorkTypeOK
  <1>4. CASE CompleteGroup(d, r, t) /\ receipt[r] = outbox[d][r]
    <2>1. state'[r] \in SuccessStates /\ result'[r] = receipt[r]
      BY <1>1, <1>4 DEF CompleteGroup, CentralInv, LeaseInv, TypeOK, SuccessStates
    <2> QED  BY <1>1, <1>2, <1>4, <2>1 DEF Settled
  <1>5. CASE ReplaysCompletion(d, r) /\ UNCHANGED vars
    BY <1>1, <1>2, <1>5 DEF ReplaysCompletion, Settled, vars, sliceVars
  <1> QED  BY <1>3, <1>4, <1>5

LEMMA AcknowledgeComes ==
  ASSUME WorkTypeOK, DeliveryNext, NEW d \in Devices, pc'[d] = "acknowledge"
  PROVE  \/ pc[d] = "acknowledge"
         \/ PlanSlicesCall(d)
         \/ CompleteCall(d)
  <1> USE DEF WorkTypeOK, Steps, Goto, Stop, Undelivered, Refused, Answered, workVars
  <1>1. Elsewhere \/ Clock => UNCHANGED workVars
    BY DEF Elsewhere, Clock, agentVars
  <1>2. ASSUME NEW e \in Devices, Work(e)
        PROVE  pc'[d] = pc[d] \/ PlanSlicesCall(d) \/ CompleteCall(d)
    <2>1. ASSUME NEW r \in Requests, NEW rt \in Routes,
                 \/ Reconcile(e, r, rt) \/ CommitSliceResult(e, r, rt)
                 \/ DeliverSlice(e, r, rt) \/ Claim(e, r)
          PROVE  pc'[d] = pc[d]
      BY <2>1 DEF Reconcile, CommitSliceResult, DeliverSlice, Claim
    <2>2. PlanSlicesCall(e) => pc'[d] = pc[d] \/ PlanSlicesCall(d)
      BY DEF PlanSlicesCall
    <2>3. CompleteCall(e) => pc'[d] = pc[d] \/ CompleteCall(d)
      BY DEF CompleteCall
    <2>4. \/ Start(e) \/ FreezeSources(e) \/ SelectRoutes(e) \/ ClaimNothing(e)
          \/ FinalHeartbeat(e) \/ Acknowledge(e) \/ ReportFailure(e)
          => pc'[d] = pc[d]
      BY DEF Start, FreezeSources, SelectRoutes, ClaimNothing, FinalHeartbeat,
         Acknowledge, ReportFailure, agentVars
    <2>5. ASSUME NEW r \in Requests, Claim(e, r) PROVE pc'[d] = pc[d]
      BY <2>5 DEF Claim
    <2> QED  BY <1>2, <2>1, <2>2, <2>3, <2>4, <2>5 DEF Work
  <1>3. ASSUME NEW e \in Devices, Environment(e) PROVE pc'[d] = pc[d]
    BY <1>3 DEF Environment, Observe, ExcludeSource, Renew, RenewalFails,
       AttemptFails, Crash, agentVars
  <1> QED  BY <1>1, <1>2, <1>3 DEF DeliveryNext

(* A device that has work has not acknowledged it.                         *)
LEMMA WorkIsOpen ==
  ASSUME AckInv, DeliveryInv, NEW d \in Devices, pc[d] # "idle"
  PROVE  Request(d) \in Requests /\ Request(d) \notin acked[d]
  BY JobOf DEF AckInv, DeliveryInv

(* The batches of a settled request are not staged again.                  *)
LEMMA OutboxRests ==
  ASSUME DeliveryInv, AckInv, DeliveryNext, NEW d \in Devices, NEW r \in Requests,
         r \in acked[d] \/ (pc[d] = "acknowledge" /\ r = Request(d))
  PROVE  outbox'[d][r] = outbox[d][r]
  <1>1. CASE UNCHANGED outbox
    BY <1>1
  <1>2. ASSUME NEW e \in Devices, NEW rt \in Routes, NEW batch \in Batches,
               pc[e] = "slice", outbox' = [outbox EXCEPT ![e][Request(e)][rt] = batch]
        PROVE  outbox'[d][r] = outbox[d][r]
    <2>1. Request(e) \notin acked[e]
      BY <1>2, WorkIsOpen
    <2>2. e # d \/ Request(e) # r
      BY <1>2, <2>1
    <2> QED  BY <1>2, <2>2 DEF DeliveryInv, DeliveryTypeOK, LocalTypeOK, Receipts
  <1> QED
    BY <1>1, <1>2, OutboxStep DEF DeliveryInv, DeliveryTypeOK

LEMMA StagedStep ==
  ASSUME DeliveryInv, AckInv, DeliveryNext, NEW d \in Devices, NEW r \in Requests,
         NEW rt \in Routes, outbox'[d][r][rt] # NoBatch
  PROVE  selection'[d][r] # NoSelection /\ rt \in selection'[d][r]
  <1>1. ASSUME selection[d][r] # NoSelection, rt \in selection[d][r]
        PROVE  selection'[d][r] # NoSelection /\ rt \in selection'[d][r]
    BY <1>1, SelectionStays DEF DeliveryInv, DeliveryTypeOK
  <1>2. CASE outbox[d][r][rt] # NoBatch
    BY <1>1, <1>2 DEF AckInv
  <1>3. ASSUME NEW e \in Devices, NEW x \in Routes, NEW batch \in Batches,
               pc[e] = "slice", x \in selection[e][Request(e)],
               outbox' = [outbox EXCEPT ![e][Request(e)][x] = batch],
               outbox[d][r][rt] = NoBatch
        PROVE  selection'[d][r] # NoSelection /\ rt \in selection'[d][r]
    <2>1. e = d /\ Request(e) = r /\ x = rt
      BY <1>3 DEF DeliveryInv, DeliveryTypeOK, LocalTypeOK, Receipts
    <2>2. selection[d][r] # NoSelection
      BY <1>3, <2>1 DEF DeliveryInv, Prepared, Selected, Frozen
    <2> QED  BY <1>1, <1>3, <2>1, <2>2
  <1> QED
    BY <1>2, <1>3, OutboxStep DEF DeliveryInv, DeliveryTypeOK

LEMMA AckedStep ==
  ASSUME DeliveryInv, AckInv, DeliveryNext, NEW d \in Devices
  PROVE  \/ acked'[d] = acked[d]
         \/ Acknowledge(d) /\ acked'[d] = acked[d] \cup {Request(d)}
  BY SourceFootprint DEF sourceVars, Observe, ExcludeSource, FreezeSources, Acknowledge,
     DeliveryInv, DeliveryTypeOK, SourceTypeOK

(* Nobody claims a request that succeeded.                                 *)
LEMMA OpenStep ==
  ASSUME DeliveryInv, AckInv, DeliveryNext, NEW d \in Devices, job'[d] # NoJob
  PROVE  Request(d)' \notin acked'[d]
  <1>1. ~Acknowledge(d)
    BY DEF Acknowledge, Stop, DeliveryInv, DeliveryTypeOK, WorkTypeOK
  <1>2. acked'[d] = acked[d]
    BY <1>1, AckedStep
  <1>3. CASE job'[d] = job[d]
    BY <1>2, <1>3 DEF AckInv, Request
  <1>4. ASSUME NEW r \in Requests, Claim(d, r), job'[d] = <<r, attempts[r] + 1>>
        PROVE  Request(d)' \notin acked'[d]
    <2>1. state[r] \notin SuccessStates
      BY <1>4 DEF Claim, ClaimNextGroup, OldestClaimable, Claimable, Due, SuccessStates,
         LeasedStates
    <2> QED  BY <1>2, <1>4, <2>1 DEF AckInv, Settled, Request
  <1> QED
    BY <1>3, <1>4, WorkFootprint DEF workVars, Stop, Goto, Claim, DeliveryInv,
       DeliveryTypeOK, WorkTypeOK

LEMMA HandledStep ==
  ASSUME DeliveryInv, AckInv, DeliveryNext
  PROVE  HandledIsAcked'
  <1> USE DEF DeliveryInv, DeliveryTypeOK
  <1>1. SUFFICES ASSUME NEW d \in Devices, NEW s \in Sources, handled'[d][s] # 0
                 PROVE  \E r \in acked'[d] :
                          /\ freeze'[d][r] # NoFreeze /\ s \in DOMAIN freeze'[d][r]
                          /\ freeze'[d][r][s] = handled'[d][s]
    BY DEF HandledIsAcked
  <1>2. ASSUME NEW r \in acked'[d], r \in Requests,
               freeze[d][r] # NoFreeze, s \in DOMAIN freeze[d][r],
               freeze[d][r][s] = handled'[d][s]
        PROVE  \E q \in acked'[d] :
                 /\ freeze'[d][q] # NoFreeze /\ s \in DOMAIN freeze'[d][q]
                 /\ freeze'[d][q][s] = handled'[d][s]
    BY <1>2, FrozenStays
  <1>3. CASE handled'[d][s] = handled[d][s]
    <2>1. PICK r \in acked[d] : /\ freeze[d][r] # NoFreeze /\ s \in DOMAIN freeze[d][r]
                                /\ freeze[d][r][s] = handled[d][s]
      BY <1>1, <1>3 DEF AckInv, HandledIsAcked
    <2>2. r \in acked'[d] /\ r \in Requests
      BY AckedStep DEF SourceTypeOK
    <2> QED  BY <1>2, <1>3, <2>1, <2>2
  <1>4. ASSUME Acknowledge(d), handled'[d][s] # handled[d][s]
        PROVE  \E q \in acked'[d] :
                 /\ freeze'[d][q] # NoFreeze /\ s \in DOMAIN freeze'[d][q]
                 /\ freeze'[d][q][s] = handled'[d][s]
    <2>1. Request(d) \in Requests /\ freeze[d][Request(d)] # NoFreeze
      BY <1>4, WorkIsOpen DEF Acknowledge, Prepared, Frozen
    <2>2. /\ s \in DOMAIN freeze[d][Request(d)]
          /\ handled'[d][s] = freeze[d][Request(d)][s]
      BY <1>4 DEF Acknowledge, SourceTypeOK
    <2>3. Request(d) \in acked'[d]
      BY <1>4 DEF Acknowledge, SourceTypeOK
    <2> QED  BY <1>2, <2>1, <2>2, <2>3
  <1>5. handled'[d][s] = handled[d][s] \/ Acknowledge(d)
    BY SourceFootprint DEF sourceVars, Observe, ExcludeSource, FreezeSources, Acknowledge,
       SourceTypeOK
  <1> QED  BY <1>3, <1>4, <1>5

LEMMA InitAckInv == DeliveryInit => AckInv
  BY DEF DeliveryInit, AckInv, HandledIsAcked, NoReceipts

LEMMA NextAckInv ==
  CentralInv /\ DeliveryInv /\ AckInv /\ [DeliveryNext]_deliveryVars => AckInv'
  <1> SUFFICES ASSUME CentralInv, DeliveryInv, AckInv, [DeliveryNext]_deliveryVars
               PROVE  AckInv'
    OBVIOUS
  <1>1. [Next]_vars
    BY DeliveryIsCentral DEF DeliveryInv
  <1>2. CASE DeliveryNext
    <2>1. ASSUME NEW d \in Devices, NEW r \in Requests, Settled(d, r),
                 r \in acked[d] \/ (pc[d] = "acknowledge" /\ r = Request(d))
          PROVE  Settled(d, r)'
      BY <1>1, <1>2, <2>1, SettledStays, OutboxRests
    <2>2. ASSUME NEW d \in Devices, pc'[d] = "acknowledge"
          PROVE  Settled(d, Request(d))'
      <3>1. CASE pc[d] = "acknowledge"
        <4> DEFINE r == Request(d)
        <4>1. r \in Requests /\ Settled(d, r)
          BY <3>1, WorkIsOpen DEF AckInv
        <4>2. r' = r
          BY <1>2, <2>2, StepOrder DEF Request, DeliveryInv, DeliveryTypeOK, Frozen
        <4> HIDE DEF r
        <4>3. Settled(d, r)'
          BY <2>1, <3>1, <4>1, <4>2 DEF Settled, r
        <4> QED  BY <4>3 DEF r
      <3>2. CASE PlanSlicesCall(d)
        BY <2>2, <3>2, PlanSettles
      <3>3. CASE CompleteCall(d)
        BY <2>2, <3>3, CompletionSettles
      <3> QED
        BY <1>2, <2>2, <3>1, <3>2, <3>3, AcknowledgeComes DEF DeliveryInv, DeliveryTypeOK
    <2>3. ASSUME NEW d \in Devices, NEW r \in acked'[d]
          PROVE  Settled(d, r)'
      <3>1. CASE r \in acked[d]
        <4>1. r \in Requests /\ Settled(d, r)
          BY <3>1 DEF AckInv, DeliveryInv, DeliveryTypeOK, SourceTypeOK
        <4> QED  BY <2>1, <3>1, <4>1
      <3>2. ASSUME Acknowledge(d), r = Request(d)
            PROVE  Settled(d, r)'
        <4>1. Settled(d, r) /\ UNCHANGED <<vars, localVars>>
          BY <3>2 DEF Acknowledge, AckInv
        <4>2. state' = state /\ result' = result /\ outbox' = outbox
          BY <4>1 DEF vars, sliceVars, localVars
        <4> QED  BY <4>1, <4>2 DEF Settled
      <3> QED  BY <1>2, <2>3, <3>1, <3>2, AckedStep
    <2> QED
      BY <1>2, <2>2, <2>3, StagedStep, OpenStep, HandledStep DEF AckInv
  <1>3. CASE UNCHANGED deliveryVars
    BY <1>3 DEF AckInv, HandledIsAcked, Settled, Request, deliveryVars, agentVars,
       sourceVars, localVars, workVars, vars, sliceVars
  <1> QED  BY <1>2, <1>3

(* "The local handled checkpoint advances only after the central service   *)
(* idempotently acknowledges the complete request result": what a device   *)
(* acknowledged succeeded at Central with the batches it committed, and    *)
(* stays so (session_index.py, acknowledge; service.py, complete_group).   *)
THEOREM AcknowledgedCorrect == DeliverySpec => []AcknowledgedIsCentral
  <1>1. AckInv => AcknowledgedIsCentral
    BY DEF AckInv, HandledIsAcked, Settled, AcknowledgedIsCentral
  <1> QED
    BY <1>1, InitAckInv, NextAckInv, CentralInvCorrect, PTL DEF DeliverySpec

-----------------------------------------------------------------------------
(* Slices are filled from the boundary they were planned with.             *)

AtPlannedSteps == {"slice", "completing", "replaying"}

(* A device that is past its plan_slices call works on the plan it         *)
(* proposed, and a slice's receipt is the batch of the device whose        *)
(* boundary the slice was planned with.                                    *)
BoundaryInv ==
  /\ \A d \in Devices : pc[d] \in AtPlannedSteps =>
       /\ PlannedRoutes(Request(d)) # {}
       /\ plan[Request(d)] = Proposed(d, Request(d))
  /\ \A r \in Requests, rt \in Routes : receipt[r][rt] # NoBatch =>
       \E d \in Devices :
         /\ freeze[d][r] # NoFreeze
         /\ plan[r][rt] = BoundaryOf(d, r) /\ receipt[r][rt] = outbox[d][r][rt]


LEMMA PlanStays ==
  ASSUME TypeOK, [Next]_vars, NEW r \in Requests, PlannedRoutes(r) # {}
  PROVE  plan'[r] = plan[r]
  <1>1. ASSUME NEW d \in Devices, NEW q \in Requests, NEW t, NEW selected, NEW boundary,
               PlanSlices(d, q, t, selected, boundary)
        PROVE  plan'[r] = plan[r]
    BY <1>1 DEF PlanSlices, TypeOK
  <1>2. ASSUME NEW d \in Devices, NEW q \in Requests, NEW t, NEW rt, NEW batch,
               AcceptSliceBatch(d, q, t, rt, batch)
        PROVE  plan'[r] = plan[r]
    BY <1>2 DEF AcceptSliceBatch
  <1> QED  BY <1>1, <1>2, StoreSteps

(* Only deliver_slice makes Central accept a batch: the one in the outbox. *)
LEMMA ReceiptStep ==
  ASSUME DeliveryNext
  PROVE  \/ UNCHANGED <<receipt, head>>
         \/ \E d \in Devices, r \in Requests, rt \in Routes :
              /\ DeliverSlice(d, r, rt)
              /\ AcceptSliceBatch(d, r, Token(d), rt, outbox[d][r][rt])
  <1> DEFINE Same == UNCHANGED <<receipt, head>>
  <1> USE DEF vars, sliceVars, familyVars, Undelivered, Refused
  <1>1. ASSUME NEW d \in Devices, NEW r \in Requests, NEW t,
               \/ StartGroup(d, r, t) \/ HeartbeatGroup(d, r, t)
               \/ PlanNothing(d, r, t) \/ CompleteGroup(d, r, t)
               \/ \E retryable \in BOOLEAN : FailGroup(d, r, t, retryable)
               \/ \E selected, boundary : PlanSlices(d, r, t, selected, boundary)
               \/ ClaimNextGroup(d, r) \/ RequeueDueGroups
        PROVE  Same
    BY <1>1 DEF StartGroup, HeartbeatGroup, PlanNothing, CompleteGroup, FailGroup,
       PlanSlices, ClaimNextGroup, RequeueDueGroups
  <1>2. Elsewhere \/ Clock => Same
    BY DEF Elsewhere, CreateGroup, Operate, SetEnabled, ReplaceRouteHeads, Clock, Tick
  <1>3. ASSUME NEW d \in Devices, Environment(d) PROVE Same
    BY <1>1, <1>3 DEF Environment, Observe, ExcludeSource, Renew, Renewing, RenewalFails,
       AttemptFails, Crash, HeartbeatGroup
  <1>4. ASSUME NEW d \in Devices, NEW r \in Requests, NEW rt \in Routes,
               DeliverSlice(d, r, rt)
        PROVE  Same \/ AcceptSliceBatch(d, r, Token(d), rt, outbox[d][r][rt])
    BY <1>4 DEF DeliverSlice, StagedBatch
  <1>5. ASSUME NEW d \in Devices,
               \/ \E r \in Requests : Claim(d, r)
               \/ ClaimNothing(d) \/ Start(d) \/ FreezeSources(d) \/ SelectRoutes(d)
               \/ \E r \in Requests, rt \in Routes :
                    Reconcile(d, r, rt) \/ CommitSliceResult(d, r, rt)
               \/ Acknowledge(d)
        PROVE  Same
    BY <1>5 DEF Claim, ClaimNothing, Start, FreezeSources, SelectRoutes, Reconcile,
       CommitSliceResult, Acknowledge, ClaimNextGroup, RequeueDueGroups, StartGroup
  <1>6. ASSUME NEW d \in Devices,
               PlanSlicesCall(d) \/ FinalHeartbeat(d) \/ CompleteCall(d) \/ ReportFailure(d)
        PROVE  Same
    BY <1>6 DEF PlanSlicesCall, FinalHeartbeat, CompleteCall, ReportFailure, PlanSlices,
       PlanNothing, HeartbeatGroup, CompleteGroup, FailGroup
  <1> QED
    BY <1>2, <1>3, <1>4, <1>5, <1>6 DEF DeliveryNext, Work

LEMMA PlannedComes ==
  ASSUME WorkTypeOK, DeliveryNext, NEW d \in Devices, pc'[d] \in AtPlannedSteps
  PROVE  pc[d] \in AtPlannedSteps \/ (PlanSlicesCall(d) /\ pc'[d] = "slice")
  <1> USE DEF WorkTypeOK, Steps, Goto, Stop, Undelivered, Refused, Answered, workVars,
          AtPlannedSteps
  <1>1. Elsewhere \/ Clock => UNCHANGED workVars
    BY DEF Elsewhere, Clock, agentVars
  <1>2. ASSUME NEW e \in Devices, Work(e)
        PROVE  \/ pc'[d] = pc[d] \/ pc[d] \in AtPlannedSteps
               \/ PlanSlicesCall(d) /\ pc'[d] = "slice"
    <2>1. ASSUME NEW r \in Requests, NEW rt \in Routes,
                 \/ Reconcile(e, r, rt) \/ CommitSliceResult(e, r, rt)
                 \/ DeliverSlice(e, r, rt) \/ Claim(e, r)
          PROVE  pc'[d] = pc[d]
      BY <2>1 DEF Reconcile, CommitSliceResult, DeliverSlice, Claim
    <2>2. PlanSlicesCall(e) =>
            \/ pc'[d] = pc[d] \/ pc[d] \in AtPlannedSteps
            \/ PlanSlicesCall(d) /\ pc'[d] = "slice"
      BY DEF PlanSlicesCall
    <2>3. FinalHeartbeat(e) \/ CompleteCall(e)
            => pc'[d] = pc[d] \/ pc[d] \in AtPlannedSteps
      BY DEF FinalHeartbeat, CompleteCall
    <2>4. \/ Start(e) \/ FreezeSources(e) \/ SelectRoutes(e) \/ ClaimNothing(e)
          \/ Acknowledge(e) \/ ReportFailure(e)
          => pc'[d] = pc[d]
      BY DEF Start, FreezeSources, SelectRoutes, ClaimNothing, Acknowledge,
         ReportFailure, agentVars
    <2>5. ASSUME NEW r \in Requests, Claim(e, r) PROVE pc'[d] = pc[d]
      BY <2>5 DEF Claim
    <2> QED  BY <1>2, <2>1, <2>2, <2>3, <2>4, <2>5 DEF Work
  <1>3. ASSUME NEW e \in Devices, Environment(e) PROVE pc'[d] = pc[d]
    BY <1>3 DEF Environment, Observe, ExcludeSource, Renew, RenewalFails,
       AttemptFails, Crash, agentVars
  <1> QED  BY <1>1, <1>2, <1>3 DEF DeliveryNext

(* A plan call that lets the device go on left its own plan at Central.    *)
LEMMA PlanIsProposed ==
  ASSUME TypeOK, LocalTypeOK, WorkTypeOK, SourceTypeOK, Prepared,
         NEW d \in Devices, NEW r \in Requests, r = Request(d),
         PlanSlicesCall(d), pc'[d] = "slice"
  PROVE  (PlannedRoutes(r) # {})' /\ plan'[r] = Proposed(d, r)
  <1>1. pc[d] = "plan"
    BY DEF PlanSlicesCall
  <1>2. \/ PlanSlices(d, r, Token(d), selection[d][r],
                      [rt \in selection[d][r] |-> BoundaryOf(d, r)])
        \/ ReplaysPlan(d, r) /\ UNCHANGED vars
    BY <1>1 DEF PlanSlicesCall, Goto, Answered, Undelivered, Refused, workVars,
       WorkTypeOK
  <1>3. CASE PlanSlices(d, r, Token(d), selection[d][r],
                        [rt \in selection[d][r] |-> BoundaryOf(d, r)])
    <2>1. plan'[r] = Proposed(d, r)
      BY <1>3 DEF PlanSlices, Proposed, TypeOK
    <2>2. selection[d][r] # {} /\ selection[d][r] \subseteq snapshot[r]
      BY <1>3 DEF PlanSlices
    <2>3. PICK rt \in selection[d][r] : rt \in Routes
      BY <2>2 DEF TypeOK
    <2>4. plan'[r][rt] = BoundaryOf(d, r)
      BY <2>1, <2>3 DEF Proposed
    <2>5. BoundaryOf(d, r) \in Boundaries
      BY <1>1, DeliveryAssumption DEF BoundaryOf, Prepared, Frozen, SourceTypeOK
    <2> QED  BY <2>1, <2>3, <2>4, <2>5, GroupAssumption DEF PlannedRoutes
  <1>4. CASE ReplaysPlan(d, r) /\ UNCHANGED vars
    BY <1>4 DEF ReplaysPlan, PlannedRoutes, vars, sliceVars
  <1> QED  BY <1>2, <1>3, <1>4

LEMMA StagedStays ==
  ASSUME LocalTypeOK, DeliveryNext, NEW d \in Devices, NEW r \in Requests,
         NEW rt \in Routes, outbox[d][r][rt] # NoBatch
  PROVE  outbox'[d][r][rt] = outbox[d][r][rt]
  <1>1. ASSUME NEW e \in Devices, NEW q, NEW x, NEW batch,
               outbox[e][q][x] = NoBatch, outbox' = [outbox EXCEPT ![e][q][x] = batch]
        PROVE  outbox'[d][r][rt] = outbox[d][r][rt]
    <2>1. e # d \/ q # r \/ x # rt
      BY <1>1
    <2> QED  BY <1>1, <2>1 DEF LocalTypeOK, Receipts
  <1> QED  BY <1>1, OutboxStep

LEMMA ProposedStays ==
  ASSUME SourceTypeOK, LocalTypeOK, WorkTypeOK, DeliveryNext, NEW d \in Devices,
         NEW r \in Requests, freeze[d][r] # NoFreeze, selection[d][r] # NoSelection
  PROVE  Proposed(d, r)' = Proposed(d, r)
  BY FrozenStays, SelectionStays DEF Proposed, BoundaryOf

LEMMA PlannedStep ==
  ASSUME CentralInv, DeliveryInv, BoundaryInv, [Next]_vars, DeliveryNext,
         NEW d \in Devices, NEW r \in Requests, pc'[d] \in AtPlannedSteps,
         r = Request(d)'
  PROVE  (PlannedRoutes(r) # {})' /\ plan'[r] = Proposed(d, r)'
  <1> USE DEF DeliveryInv, DeliveryTypeOK, CentralInv, LeaseInv
  <1>1. pc'[d] \in Selected /\ job'[d] = job[d]
    BY StepOrder DEF AtPlannedSteps, Selected, Frozen
  <1>2. r = Request(d)
    BY <1>1 DEF Request
  <1>3. pc[d] \in Selected
    BY PlannedComes DEF AtPlannedSteps, Selected, Frozen, PlanSlicesCall
  <1>4. Proposed(d, r)' = Proposed(d, r)
    BY <1>2, <1>3, ProposedStays DEF Prepared, Selected
  <1>5. CASE pc[d] \in AtPlannedSteps
    <2>1. PlannedRoutes(r) # {} /\ plan[r] = Proposed(d, r)
      BY <1>2, <1>5 DEF BoundaryInv
    <2> QED  BY <1>4, <2>1, PlanStays DEF PlannedRoutes
  <1>6. CASE PlanSlicesCall(d) /\ pc'[d] = "slice"
    BY <1>2, <1>4, <1>6, PlanIsProposed
  <1> QED  BY <1>5, <1>6, PlannedComes

LEMMA ReceiptOwnerStep ==
  ASSUME CentralInv, DeliveryInv, BoundaryInv, [Next]_vars, DeliveryNext,
         NEW r \in Requests, NEW rt \in Routes, receipt'[r][rt] # NoBatch
  PROVE  \E d \in Devices :
           /\ freeze'[d][r] # NoFreeze
           /\ plan'[r][rt] = BoundaryOf(d, r)' /\ receipt'[r][rt] = outbox'[d][r][rt]
  <1> USE DEF DeliveryInv, DeliveryTypeOK, CentralInv, LeaseInv
  <1>1. ASSUME NEW d \in Devices, freeze[d][r] # NoFreeze,
               plan[r][rt] = BoundaryOf(d, r), plan[r][rt] # NoBoundary,
               receipt'[r][rt] = outbox[d][r][rt]
        PROVE  /\ freeze'[d][r] # NoFreeze
               /\ plan'[r][rt] = BoundaryOf(d, r)' /\ receipt'[r][rt] = outbox'[d][r][rt]
    <2>1. freeze'[d][r] = freeze[d][r]
      BY <1>1, FrozenStays
    <2>2. plan'[r] = plan[r]
      BY <1>1, PlanStays DEF PlannedRoutes
    <2>3. outbox'[d][r][rt] = outbox[d][r][rt]
      BY <1>1, StagedStays
    <2> QED  BY <1>1, <2>1, <2>2, <2>3 DEF BoundaryOf
  <1>2. CASE receipt'[r][rt] = receipt[r][rt]
    <2>1. plan[r][rt] # NoBoundary
      BY <1>2 DEF StoreInv, ReceiptsArePlanned
    <2> QED  BY <1>1, <1>2, <2>1 DEF BoundaryInv
  <1>3. ASSUME NEW d \in Devices, NEW q \in Requests, NEW x \in Routes,
               DeliverSlice(d, q, x),
               AcceptSliceBatch(d, q, Token(d), x, outbox[d][q][x]),
               receipt'[r][rt] # receipt[r][rt]
        PROVE  /\ freeze[d][r] # NoFreeze
               /\ plan[r][rt] = BoundaryOf(d, r) /\ plan[r][rt] # NoBoundary
               /\ receipt'[r][rt] = outbox[d][r][rt]
    <2>1. receipt' = [receipt EXCEPT ![q][x] = outbox[d][q][x]]
      BY <1>3 DEF AcceptSliceBatch
    <2>2. q = r /\ x = rt /\ receipt'[r][rt] = outbox[d][r][rt]
      BY <1>3, <2>1 DEF TypeOK, Receipts
    <2>3. pc[d] = "slice" /\ r = Request(d) /\ rt \in PlannedRoutes(r)
      BY <1>3, <2>2 DEF DeliverSlice, AtSlice, AcceptSliceBatch
    <2>4. plan[r] = Proposed(d, r) /\ freeze[d][r] # NoFreeze
      BY <2>3 DEF BoundaryInv, AtPlannedSteps, Prepared, Frozen
    <2> QED  BY <2>2, <2>3, <2>4 DEF Proposed, PlannedRoutes
  <1> QED
    BY <1>1, <1>2, <1>3, ReceiptStep

LEMMA InitBoundaryInv == DeliveryInit => BoundaryInv
  BY DEF DeliveryInit, Init, BoundaryInv, AtPlannedSteps, NoReceipts

LEMMA NextBoundaryInv ==
  CentralInv /\ DeliveryInv /\ BoundaryInv /\ [DeliveryNext]_deliveryVars => BoundaryInv'
  <1> SUFFICES ASSUME CentralInv, DeliveryInv, BoundaryInv, [DeliveryNext]_deliveryVars
               PROVE  BoundaryInv'
    OBVIOUS
  <1>1. [Next]_vars
    BY DeliveryIsCentral DEF DeliveryInv
  <1>2. CASE DeliveryNext
    <2>1. ASSUME NEW d \in Devices, pc'[d] \in AtPlannedSteps
          PROVE  /\ (PlannedRoutes(Request(d)) # {})'
                 /\ (plan[Request(d)] = Proposed(d, Request(d)))'
      <3>1. job'[d] = job[d] /\ pc[d] # "idle"
        BY <1>2, <2>1, StepOrder DEF AtPlannedSteps, Frozen, DeliveryInv, DeliveryTypeOK
      <3>2. PICK r \in Requests : r = Request(d)'
        BY <3>1, JobOf DEF Request, DeliveryInv
      <3>3. (PlannedRoutes(r) # {})' /\ plan'[r] = Proposed(d, r)'
        BY <1>1, <1>2, <2>1, <3>2, PlannedStep
      <3> QED  BY <3>2, <3>3 DEF PlannedRoutes, Proposed, BoundaryOf
    <2>2. ASSUME NEW r \in Requests, NEW rt \in Routes, receipt'[r][rt] # NoBatch
          PROVE  \E d \in Devices :
                   /\ freeze'[d][r] # NoFreeze
                   /\ plan'[r][rt] = BoundaryOf(d, r)'
                   /\ receipt'[r][rt] = outbox'[d][r][rt]
      BY <1>1, <1>2, <2>2, ReceiptOwnerStep
    <2> QED  BY <2>1, <2>2 DEF BoundaryInv
  <1>3. CASE UNCHANGED deliveryVars
    BY <1>3 DEF BoundaryInv, PlannedRoutes, Proposed, BoundaryOf, Request, deliveryVars,
       agentVars, sourceVars, localVars, workVars, vars, sliceVars
  <1> QED  BY <1>2, <1>3

(* "source_boundary_digest" is frozen with a slice when it is planned      *)
(* (service.py, plan_slices): whoever works on the group afterwards, only  *)
(* the device whose boundary it is fills the slice, with the batch it      *)
(* committed (request_state.py, commit_slice_result).                      *)
THEOREM BoundariesCorrect == DeliverySpec => []BatchesComeFromTheirBoundary
  <1>1. BoundaryInv => BatchesComeFromTheirBoundary
    BY DEF BoundaryInv, BatchesComeFromTheirBoundary, PlannedRoutes
  <1> QED
    BY <1>1, InitBoundaryInv, NextBoundaryInv, CentralInvCorrect, PTL DEF DeliverySpec

-----------------------------------------------------------------------------
(* A device never moves back.                                              *)

(* The device may still commit or acknowledge something for request r.     *)
Live(d, r) == state[r] \in ActiveStates \/ (job[d] # NoJob /\ Request(d) = r)

(* A reconciliation result that waits for its commit.                      *)
Pending(d, r, rt) == draft[d][r][rt] # NoDraft /\ outbox[d][r][rt] = NoBatch

(* What a device has begun belongs to a request that was created.          *)
BegunIsCreated ==
  \A d \in Devices :
    /\ job[d] # NoJob => state[Request(d)] # "absent"
    /\ \A r \in Requests : freeze[d][r] # NoFreeze =>
         state[r] # "absent" /\ DOMAIN freeze[d][r] \subseteq Scope[r]
    /\ \A r \in Requests, rt \in Routes : draft[d][r][rt] # NoDraft =>
         /\ freeze[d][r] # NoFreeze
         /\ selection[d][r] # NoSelection /\ rt \in selection[d][r]

(* While a request a device has frozen sources for is live, the device     *)
(* works on no other request of the repository.                            *)
OneLine ==
  \A d \in Devices, r \in Requests :
    /\ freeze[d][r] # NoFreeze /\ Live(d, r)
    /\ job[d] # NoJob /\ Repository(Request(d)) = Repository(r)
    => Request(d) = r

FrozenIsAhead ==
  \A d \in Devices, r \in Requests :
    freeze[d][r] # NoFreeze /\ Live(d, r) =>
      \A s \in DOMAIN freeze[d][r] : handled[d][s] <= freeze[d][r][s]

(* A waiting result belongs to the first slice still missing, and starts   *)
(* from heads that have not moved since.                                   *)
PendingIsCurrent ==
  \A d \in Devices, r \in Requests, rt \in Routes :
    Pending(d, r, rt) /\ Live(d, r) =>
      /\ rt \in Missing(d, r)
      /\ \A other \in Missing(d, r) : SliceOrder[rt] <= SliceOrder[other]
      /\ \A f \in Families : draft[d][r][rt].heads[f] # 0 =>
           localHead[d][f] <= draft[d][r][rt].heads[f]

(* Results and batches hold families of the device, the repository and the *)
(* Decision Space, at their final heads.                                   *)
DraftsAreMinted ==
  \A d \in Devices, r \in Requests, rt \in Routes : draft[d][r][rt] # NoDraft =>
    /\ \A f \in Families : draft[d][r][rt].heads[f] # 0 => f \in MintedFor(d, r, rt)
    /\ \A item \in draft[d][r][rt].batch :
         item.revision = draft[d][r][rt].heads[item.family]

OutboxIsLocal ==
  \A d \in Devices, r \in Requests, rt \in Routes :
    /\ <<r, rt>> \in uploaded[d] => outbox[d][r][rt] # NoBatch
    /\ outbox[d][r][rt] # NoBatch =>
         \A item \in outbox[d][r][rt] :
           Origin[item.family][1] = d /\ item.revision <= localHead[d][item.family]

LineInv ==
  /\ BegunIsCreated
  /\ OneLine
  /\ FrozenIsAhead
  /\ PendingIsCurrent
  /\ DraftsAreMinted
  /\ OutboxIsLocal
  /\ CentralFollowsTheDevice

-----------------------------------------------------------------------------
(* Where a device's records change.                                        *)

LEMMA FreezeStep ==
  ASSUME SourceTypeOK, WorkTypeOK, BoundariesObserved, DeliveryNext,
         NEW d \in Devices, NEW r \in Requests, freeze'[d][r] # freeze[d][r]
  PROVE  /\ pc[d] = "freeze" /\ r = Request(d) /\ job'[d] = job[d]
         /\ freeze[d][r] = NoFreeze /\ handled' = handled
         /\ \E selected \in Selections(d, r) :
              freeze'[d][r] = [s \in selected |-> latest[d][s]]
  <1>1. PICK e \in Devices : FreezeSources(e)
    BY SourceFootprint DEF sourceVars, Observe, ExcludeSource, Acknowledge
  <1>2. PICK selected \in Selections(e, Request(e)) :
          /\ freeze[e][Request(e)] = NoFreeze
          /\ freeze' = [freeze EXCEPT ![e][Request(e)] = [s \in selected |-> latest[e][s]]]
    BY <1>1 DEF FreezeSources
  <1>3. e = d /\ Request(e) = r
    BY <1>2 DEF SourceTypeOK
  <1> QED
    BY <1>1, <1>2, <1>3 DEF FreezeSources, Goto, SourceTypeOK

LEMMA DraftStep ==
  ASSUME LocalTypeOK, DeliveryNext, NEW d \in Devices, NEW r \in Requests,
         NEW rt \in Routes, draft'[d][r][rt] # draft[d][r][rt]
  PROVE  Reconcile(d, r, rt)
  <1>1. PICK e \in Devices, q \in Requests, x \in Routes : Reconcile(e, q, x)
    BY LocalFootprint DEF localVars, SelectRoutes, CommitSliceResult, DeliverSlice
  <1>2. PICK made : draft' = [draft EXCEPT ![e][q][x] = made]
    BY <1>1 DEF Reconcile
  <1>3. e = d /\ q = r /\ x = rt
    BY <1>2 DEF LocalTypeOK
  <1> QED  BY <1>1, <1>3

LEMMA HeadStep ==
  ASSUME LocalTypeOK, DeliveryNext, NEW d \in Devices, localHead'[d] # localHead[d]
  PROVE  \E r \in Requests, rt \in Routes : CommitSliceResult(d, r, rt)
  <1>1. PICK e \in Devices, q \in Requests, x \in Routes : CommitSliceResult(e, q, x)
    BY LocalFootprint DEF localVars, SelectRoutes, Reconcile, DeliverSlice
  <1>2. PICK made : localHead' = [localHead EXCEPT ![e] = made]
    BY <1>1 DEF CommitSliceResult
  <1>3. e = d
    BY <1>2 DEF LocalTypeOK
  <1> QED  BY <1>1, <1>3

LEMMA UploadStep ==
  ASSUME LocalTypeOK, DeliveryNext, NEW d \in Devices, NEW r \in Requests,
         NEW rt \in Routes
  PROVE  /\ <<r, rt>> \in uploaded[d] => <<r, rt>> \in uploaded'[d]
         /\ <<r, rt>> \in uploaded'[d] =>
              <<r, rt>> \in uploaded[d] \/ outbox[d][r][rt] # NoBatch
  <1>1. ASSUME NEW e \in Devices, NEW q \in Requests, NEW x \in Routes,
               DeliverSlice(e, q, x)
        PROVE  /\ outbox[e][q][x] # NoBatch
               /\ \/ UNCHANGED uploaded
                  \/ uploaded' = [uploaded EXCEPT ![e] = @ \cup {<<q, x>>}]
    BY <1>1 DEF DeliverSlice, StagedBatch
  <1>2. CASE UNCHANGED uploaded
    BY <1>2
  <1>3. ASSUME NEW e \in Devices, NEW q \in Requests, NEW x \in Routes,
               outbox[e][q][x] # NoBatch,
               uploaded' = [uploaded EXCEPT ![e] = @ \cup {<<q, x>>}]
        PROVE  /\ <<r, rt>> \in uploaded[d] => <<r, rt>> \in uploaded'[d]
               /\ <<r, rt>> \in uploaded'[d] =>
                    <<r, rt>> \in uploaded[d] \/ outbox[d][r][rt] # NoBatch
    <2>1. CASE e = d
      <3>1. uploaded'[d] = uploaded[d] \cup {<<q, x>>}
        BY <1>3, <2>1 DEF LocalTypeOK
      <3> QED  BY <1>3, <2>1, <3>1
    <2>2. CASE e # d
      <3>1. uploaded'[d] = uploaded[d]
        BY <1>3, <2>2 DEF LocalTypeOK
      <3> QED  BY <3>1
    <2> QED  BY <2>1, <2>2
  <1> QED
    BY <1>1, <1>2, <1>3, LocalFootprint DEF localVars, SelectRoutes, Reconcile,
       CommitSliceResult

LEMMA JobStep ==
  ASSUME WorkTypeOK, DeliveryNext, NEW d \in Devices, job'[d] # NoJob,
         job'[d] # job[d]
  PROVE  \E r \in Requests : Claim(d, r) /\ job'[d] = <<r, attempts[r] + 1>>
  BY WorkFootprint DEF workVars, Stop, Goto, Claim, WorkTypeOK

(* A group that exists does not go away, and only a live one is worked on  *)
(* again.                                                                  *)
LEMMA CreatedStays ==
  ASSUME TypeOK, [Next]_vars, NEW q \in Requests, state[q] # "absent"
  PROVE  state'[q] # "absent"
  <1> USE DEF TypeOK
  <1>1. ASSUME NEW d \in Devices, NEW r \in Requests, NEW t \in HandedTo(d, r),
               DeviceCall(d, r, t)
        PROVE  state'[q] # "absent"
    BY <1>1 DEF DeviceCall, StartGroup, HeartbeatGroup, RecordGroupProgress,
       PlanSlices, PlanNothing, AcceptSliceBatch, CompleteGroup, FailGroup
  <1>2. ASSUME NEW d \in Devices, NEW r \in Requests, ClaimNextGroup(d, r)
        PROVE  state'[q] # "absent"
    BY <1>2 DEF ClaimNextGroup, Requeued
  <1>3. CASE RequeueDueGroups
    BY <1>3 DEF RequeueDueGroups, Requeued
  <1>4. ASSUME NEW u \in Users, NEW p \in Repositories, NEW ca \in ClientActions,
               CreateGroup(u, p, ca)
        PROVE  state'[q] # "absent"
    BY <1>4 DEF CreateGroup
  <1>5. CASE Tick \/ Operate \/ UNCHANGED vars
    BY <1>5 DEF Tick, Operate, SetEnabled, ReplaceRouteHeads, vars
  <1> QED
    BY <1>1, <1>2, <1>3, <1>4, <1>5 DEF Next

LEMMA ClaimedWasActive ==
  ASSUME TypeOK, NEW d \in Devices, NEW r \in Requests, Claim(d, r)
  PROVE  state[r] \in ActiveStates /\ state'[r] = "claimed"
  BY DEF Claim, ClaimNextGroup, OldestClaimable, Claimable, Due, ActiveStates,
     LeasedStates, TypeOK, Requeued

LEMMA LiveBefore ==
  ASSUME LeaseInv, WorkTypeOK, [Next]_vars, DeliveryNext, NEW d \in Devices,
         NEW r \in Requests, state[r] # "absent", Live(d, r)'
  PROVE  Live(d, r)
  <1>1. CASE state'[r] \in ActiveStates
    BY <1>1, ActiveOnlyByCreate DEF CreateGroup, Live
  <1>2. ASSUME job'[d] # NoJob, Request(d)' = r
        PROVE  Live(d, r)
    <2>1. CASE job'[d] = job[d]
      BY <1>2, <2>1 DEF Live, Request
    <2>2. ASSUME NEW q \in Requests, Claim(d, q), job'[d] = <<q, attempts[q] + 1>>
          PROVE  Live(d, r)
      BY <1>2, <2>2, ClaimedWasActive DEF Live, Request, LeaseInv
    <2> QED  BY <1>2, <2>1, <2>2, JobStep
  <1> QED  BY <1>1, <1>2 DEF Live

LEMMA InitLineInv == DeliveryInit => LineInv
  <1> SUFFICES ASSUME DeliveryInit PROVE LineInv
    OBVIOUS
  <1> USE DEF DeliveryInit
  <1>1. BegunIsCreated /\ OneLine /\ FrozenIsAhead
    BY DEF BegunIsCreated, OneLine, FrozenIsAhead
  <1>2. PendingIsCurrent /\ DraftsAreMinted /\ OutboxIsLocal
    BY DEF PendingIsCurrent, Pending, DraftsAreMinted, OutboxIsLocal, NoReceipts
  <1>3. CentralFollowsTheDevice
    BY DeliveryAssumption DEF Init, FamilyInit, CentralFollowsTheDevice
  <1> QED  BY <1>1, <1>2, <1>3 DEF LineInv

(* The hypotheses of a step of the composition.                            *)
LineStep ==
  /\ CentralInv /\ DeliveryInv /\ OneActiveGroupPerRepository
  /\ OneActiveGroupPerRepository'
  /\ LineInv /\ [Next]_vars /\ DeliveryNext

LEMMA BegunStep == LineStep => BegunIsCreated'
  <1> SUFFICES ASSUME LineStep, NEW d \in Devices
               PROVE  /\ job'[d] # NoJob => state'[Request(d)'] # "absent"
                      /\ \A r \in Requests : freeze'[d][r] # NoFreeze =>
                           /\ state'[r] # "absent"
                           /\ DOMAIN freeze'[d][r] \subseteq Scope[r]
                      /\ \A r \in Requests, rt \in Routes : draft'[d][r][rt] # NoDraft =>
                           /\ freeze'[d][r] # NoFreeze
                           /\ selection'[d][r] # NoSelection /\ rt \in selection'[d][r]
    BY DEF BegunIsCreated
  <1> USE DEF LineStep, DeliveryInv, DeliveryTypeOK, LineInv, LeaseInv
  <1>1. ASSUME job'[d] # NoJob PROVE state'[Request(d)'] # "absent"
    <2>1. CASE job'[d] = job[d]
      <3>1. Request(d) \in Requests /\ Request(d)' = Request(d)
        BY <1>1, <2>1 DEF WorkTypeOK, Request
      <3>2. state[Request(d)] # "absent"
        BY <1>1, <2>1 DEF BegunIsCreated
      <3> QED  BY <3>1, <3>2, CreatedStays
    <2>2. ASSUME NEW r \in Requests, Claim(d, r), job'[d] = <<r, attempts[r] + 1>>
          PROVE  state'[Request(d)'] # "absent"
      BY <2>2, ClaimedWasActive DEF Request
    <2> QED  BY <1>1, <2>1, <2>2, JobStep
  <1>2. ASSUME NEW r \in Requests, freeze'[d][r] # NoFreeze
        PROVE  state'[r] # "absent" /\ DOMAIN freeze'[d][r] \subseteq Scope[r]
    <2>1. CASE freeze'[d][r] = freeze[d][r]
      BY <1>2, <2>1, CreatedStays DEF BegunIsCreated
    <2>2. CASE freeze'[d][r] # freeze[d][r]
      <3>1. r = Request(d) /\ pc[d] = "freeze"
        BY <2>2, FreezeStep
      <3>2. job[d] # NoJob
        BY <3>1, JobOf
      <3>3. state'[r] # "absent"
        BY <3>1, <3>2, CreatedStays DEF BegunIsCreated
      <3>4. PICK selected \in Selections(d, r) :
              freeze'[d][r] = [s \in selected |-> latest[d][s]]
        BY <2>2, FreezeStep
      <3>5. selected \subseteq Scope[r]
        BY DEF Selections, Changed
      <3> QED  BY <3>3, <3>4, <3>5
    <2> QED  BY <2>1, <2>2
  <1>3. ASSUME NEW r \in Requests, NEW rt \in Routes, draft'[d][r][rt] # NoDraft
        PROVE  /\ freeze'[d][r] # NoFreeze
               /\ selection'[d][r] # NoSelection /\ rt \in selection'[d][r]
    <2>1. /\ freeze[d][r] # NoFreeze
          /\ selection[d][r] # NoSelection /\ rt \in selection[d][r]
      <3>1. CASE draft'[d][r][rt] = draft[d][r][rt]
        BY <1>3, <3>1 DEF BegunIsCreated
      <3>2. CASE Reconcile(d, r, rt)
        BY <3>2 DEF Reconcile, AtSlice, Missing, Prepared, Selected, Frozen
      <3> QED  BY <3>1, <3>2, DraftStep
    <2> QED  BY <2>1, FrozenStays, SelectionStays
  <1> QED  BY <1>1, <1>2, <1>3

LEMMA OneLineStep == LineStep => OneLine'
  <1> SUFFICES ASSUME LineStep, NEW d \in Devices, NEW r \in Requests,
                      freeze'[d][r] # NoFreeze, Live(d, r)',
                      job'[d] # NoJob, Repository(Request(d)') = Repository(r)
               PROVE  Request(d)' = r
    BY DEF OneLine, Repository
  <1> USE DEF LineStep, DeliveryInv, DeliveryTypeOK, LineInv, LeaseInv
  <1>1. CASE freeze[d][r] = NoFreeze
    BY <1>1, FreezeStep DEF Request
  <1>2. CASE freeze[d][r] # NoFreeze
    <2>1. state[r] # "absent"
      BY <1>2 DEF BegunIsCreated
    <2>2. Live(d, r)
      BY <2>1, LiveBefore
    <2>3. CASE job'[d] = job[d]
      BY <1>2, <2>2, <2>3 DEF OneLine, Request
    <2>4. ASSUME NEW q \in Requests, Claim(d, q), job'[d] = <<q, attempts[q] + 1>>
          PROVE  Request(d)' = r
      <3>1. Request(d)' = q /\ state'[q] \in ActiveStates
        BY <2>4, ClaimedWasActive DEF Request, ActiveStates
      <3>2. CASE state'[r] \in ActiveStates
        BY <3>1, <3>2 DEF OneActiveGroupPerRepository
      <3> QED  BY <3>2 DEF Live
    <2> QED  BY <2>3, <2>4, JobStep
  <1> QED  BY <1>1, <1>2

LEMMA FrozenIsAheadStep == LineStep => FrozenIsAhead'
  <1> SUFFICES ASSUME LineStep, NEW d \in Devices, NEW r \in Requests,
                      freeze'[d][r] # NoFreeze, Live(d, r)',
                      NEW s \in DOMAIN freeze'[d][r]
               PROVE  handled'[d][s] <= freeze'[d][r][s]
    BY DEF FrozenIsAhead
  <1> USE DEF LineStep, DeliveryInv, DeliveryTypeOK, LineInv, LeaseInv
  <1>1. CASE freeze[d][r] = NoFreeze
    <2>1. freeze'[d][r] # freeze[d][r]
      BY <1>1
    <2>2. PICK selected \in Selections(d, r) :
            freeze'[d][r] = [x \in selected |-> latest[d][x]]
      BY <2>1, FreezeStep
    <2>3. handled' = handled
      BY <2>1, FreezeStep
    <2>4. s \in Sources /\ freeze'[d][r][s] = latest[d][s]
      BY <2>2, FreezeIsObserved
    <2> QED  BY <2>3, <2>4 DEF BoundariesObserved
  <1>2. CASE freeze[d][r] # NoFreeze
    <2>1. freeze'[d][r] = freeze[d][r] /\ state[r] # "absent" /\ s \in Scope[r]
      BY <1>2, FrozenStays DEF BegunIsCreated
    <2>2. Live(d, r) /\ s \in Sources
      BY <2>1, LiveBefore, DeliveryAssumption
    <2>3. handled[d][s] <= freeze[d][r][s]
      BY <1>2, <2>1, <2>2 DEF FrozenIsAhead
    <2>4. CASE handled'[d][s] = handled[d][s]
      BY <2>1, <2>3, <2>4
    <2>5. ASSUME Acknowledge(d), handled'[d][s] # handled[d][s]
          PROVE  handled'[d][s] <= freeze'[d][r][s]
      <3> DEFINE q == Request(d)
      <3>1. pc[d] = "acknowledge" /\ q \in Requests /\ job[d] # NoJob
        BY <2>5, JobOf DEF Acknowledge
      <3>2. freeze[d][q] # NoFreeze /\ freeze[d][q] \in Freezes
        BY <3>1 DEF Prepared, Frozen, SourceTypeOK
      <3>3. s \in DOMAIN freeze[d][q] /\ handled'[d][s] = freeze[d][q][s]
        BY <2>2, <2>5 DEF Acknowledge, SourceTypeOK
      <3>4. s \in Scope[q]
        BY <3>1, <3>2, <3>3 DEF BegunIsCreated
      <3>5. Repository(q) = Repository(r)
        BY <2>1, <3>1, <3>4, DeliveryAssumption
      <3>6. q = r
        BY <1>2, <2>2, <3>1, <3>5 DEF OneLine
      <3>7. freeze[d][q][s] \in Nat
        BY <3>2, <3>3, DeliveryAssumption DEF Freezes
      <3> QED  BY <2>1, <3>3, <3>6, <3>7
    <2>6. handled'[d][s] = handled[d][s] \/ Acknowledge(d)
      BY SourceFootprint DEF sourceVars, Observe, ExcludeSource, FreezeSources,
         Acknowledge, SourceTypeOK
    <2> QED  BY <2>4, <2>5, <2>6
  <1> QED  BY <1>1, <1>2

(* The result a device commits starts from the heads it has.               *)
LEMMA CommitMovesForward ==
  ASSUME DeliveryInv, LineInv, NEW d \in Devices, NEW r \in Requests,
         NEW rt \in Routes, CommitSliceResult(d, r, rt), NEW f \in Families
  PROVE  /\ localHead'[d][f] >= localHead[d][f]
         /\ draft[d][r][rt].heads[f] # 0 => localHead'[d][f] = draft[d][r][rt].heads[f]
         /\ draft[d][r][rt].heads[f] = 0 => localHead'[d][f] = localHead[d][f]
  <1> USE DEF DeliveryInv, DeliveryTypeOK, LocalTypeOK, LineInv
  <1> DEFINE made == draft[d][r][rt]
  <1>1. pc[d] = "slice" /\ r = Request(d) /\ Pending(d, r, rt)
    BY DEF CommitSliceResult, AtSlice, Pending
  <1>2. Live(d, r)
    BY <1>1, JobOf DEF Live
  <1>3. made.heads[f] # 0 => localHead[d][f] <= made.heads[f]
    BY <1>1, <1>2 DEF PendingIsCurrent
  <1>4. made \in Draft
    BY <1>1 DEF Pending
  <1>5. made.heads[f] \in Nat /\ localHead[d][f] \in Nat
    BY <1>4 DEF Draft
  <1>6. localHead'[d][f] = IF made.heads[f] # 0 THEN made.heads[f] ELSE localHead[d][f]
    BY DEF CommitSliceResult
  <1> HIDE DEF made
  <1>7. /\ localHead'[d][f] >= localHead[d][f]
        /\ made.heads[f] # 0 => localHead'[d][f] = made.heads[f]
        /\ made.heads[f] = 0 => localHead'[d][f] = localHead[d][f]
    BY <1>3, <1>5, <1>6
  <1> QED  BY <1>7 DEF made

LEMMA HeadsForward ==
  ASSUME DeliveryInv, LineInv, DeliveryNext, NEW d \in Devices, NEW f \in Families
  PROVE  localHead'[d][f] >= localHead[d][f]
  <1>1. CASE localHead'[d] = localHead[d]
    <2>1. localHead[d][f] \in Nat
      BY DEF DeliveryInv, DeliveryTypeOK, LocalTypeOK
    <2> QED  BY <1>1, <2>1
  <1>2. ASSUME NEW r \in Requests, NEW rt \in Routes, CommitSliceResult(d, r, rt)
        PROVE  localHead'[d][f] >= localHead[d][f]
    BY <1>2, CommitMovesForward
  <1> QED  BY <1>1, <1>2, HeadStep DEF DeliveryInv, DeliveryTypeOK

LEMMA HandledForward ==
  ASSUME DeliveryInv, LineInv, DeliveryNext, NEW d \in Devices, NEW s \in Sources
  PROVE  handled'[d][s] >= handled[d][s]
  <1> USE DEF DeliveryInv, DeliveryTypeOK, SourceTypeOK, LineInv
  <1>1. handled[d][s] \in Nat
    BY DeliveryAssumption
  <1>2. CASE handled'[d][s] = handled[d][s]
    BY <1>1, <1>2
  <1>3. ASSUME Acknowledge(d), handled'[d][s] # handled[d][s]
        PROVE  handled'[d][s] >= handled[d][s]
    <2> DEFINE q == Request(d)
    <2>1. q \in Requests /\ Live(d, q)
      BY <1>3, JobOf DEF Acknowledge, Live
    <2>2. freeze[d][q] # NoFreeze /\ freeze[d][q] \in Freezes
      BY <1>3, <2>1 DEF Acknowledge, Prepared, Frozen
    <2>3. s \in DOMAIN freeze[d][q] /\ handled'[d][s] = freeze[d][q][s]
      BY <1>3 DEF Acknowledge
    <2>4. freeze[d][q][s] \in Nat
      BY <2>2, <2>3, DeliveryAssumption DEF Freezes
    <2>5. handled[d][s] <= freeze[d][q][s]
      BY <2>1, <2>2, <2>3 DEF FrozenIsAhead
    <2> QED  BY <1>1, <2>3, <2>4, <2>5
  <1> QED
    BY <1>2, <1>3, SourceFootprint DEF sourceVars, Observe, ExcludeSource,
       FreezeSources, Acknowledge

(* A result that has just been computed.                                   *)
LEMMA ReconcileIsCurrent ==
  ASSUME DeliveryInv, LineInv, DeliveryNext, NEW d \in Devices, NEW r \in Requests,
         NEW rt \in Routes, Reconcile(d, r, rt)
  PROVE  /\ (rt \in Missing(d, r))'
         /\ \A other \in Missing(d, r)' : SliceOrder[rt] <= SliceOrder[other]
         /\ \A f \in Families : draft'[d][r][rt].heads[f] # 0 =>
              f \in MintedFor(d, r, rt) /\ localHead'[d][f] <= draft'[d][r][rt].heads[f]
         /\ \A item \in draft'[d][r][rt].batch :
              item.revision = draft'[d][r][rt].heads[item.family]
  <1> USE DEF DeliveryInv, DeliveryTypeOK, LocalTypeOK
  <1>1. PICK growth \in [MintedFor(d, r, rt) -> 0..MaxGrowth], content \in Contents :
          LET heads == [f \in Families |->
                          IF f \in MintedFor(d, r, rt)
                            THEN localHead[d][f] + growth[f] ELSE 0]
              batch == Uploadable(d, heads, content)
          IN  draft' = [draft EXCEPT ![d][r][rt] = [heads |-> heads, batch |-> batch]]
    BY DEF Reconcile
  <1> DEFINE heads == [f \in Families |->
                         IF f \in MintedFor(d, r, rt)
                           THEN localHead[d][f] + growth[f] ELSE 0]
             batch == Uploadable(d, heads, content)
  <1>2. \A item \in batch : item.revision = heads[item.family]
    BY DEF Uploadable
  <1>3. \A f \in Families : heads[f] # 0 =>
          f \in MintedFor(d, r, rt) /\ localHead[d][f] <= heads[f]
    BY DeliveryAssumption
  <1>4. draft'[d][r][rt] = [heads |-> heads, batch |-> batch]
    BY <1>1
  <1> HIDE DEF heads, batch
  <1>5. draft'[d][r][rt].heads = heads /\ draft'[d][r][rt].batch = batch
    BY <1>4
  <1>6. UNCHANGED <<selection, uploaded, localHead>>
    BY DEF Reconcile
  <1>7. Missing(d, r)' = Missing(d, r)
    BY <1>6 DEF Missing
  <1> QED  BY <1>2, <1>3, <1>5, <1>6, <1>7 DEF Reconcile, AtSlice

(* Only its own commit moves the heads a waiting result starts from.       *)
LEMMA PendingHeadsStay ==
  ASSUME LineStep, NEW d \in Devices, NEW r \in Requests, NEW rt \in Routes,
         Pending(d, r, rt), outbox'[d][r][rt] = NoBatch, Live(d, r),
         NEW f \in Families, draft[d][r][rt].heads[f] # 0
  PROVE  localHead'[d][f] = localHead[d][f]
  <1> USE DEF LineStep, DeliveryInv, DeliveryTypeOK, LineInv
  <1>1. ASSUME NEW q \in Requests, NEW x \in Routes, CommitSliceResult(d, q, x)
        PROVE  localHead'[d][f] = localHead[d][f]
    <2>1. pc[d] = "slice" /\ q = Request(d) /\ Pending(d, q, x)
      BY <1>1 DEF CommitSliceResult, AtSlice, Pending
    <2>2. draft[d][q][x] \in Draft
      BY <2>1 DEF Pending, LocalTypeOK
    <2>3. outbox'[d][q][x] = draft[d][q][x].batch /\ draft[d][q][x].batch # NoBatch
      BY <1>1, <2>2, GroupAssumption DEF CommitSliceResult, LocalTypeOK, Receipts, Draft
    <2>4. q # r
      <3>1. ASSUME q = r PROVE FALSE
        <4>1. rt \in Missing(d, r) /\ x \in Missing(d, r)
          BY <1>1, <3>1 DEF CommitSliceResult, AtSlice, PendingIsCurrent
        <4>2. SliceOrder[rt] <= SliceOrder[x] /\ SliceOrder[x] <= SliceOrder[rt]
          BY <1>1, <3>1, <4>1 DEF CommitSliceResult, AtSlice, PendingIsCurrent
        <4>3. SliceOrder[rt] = SliceOrder[x]
          BY <4>2, DeliveryAssumption
        <4>4. rt = x
          BY <4>3, DeliveryAssumption
        <4> QED  BY <2>3, <3>1, <4>4
      <3> QED  BY <3>1
    <2>5. freeze[d][r] # NoFreeze /\ job[d] # NoJob
      BY <2>1, JobOf DEF BegunIsCreated, Pending
    <2>6. Repository(q) # Repository(r)
      BY <2>1, <2>4, <2>5 DEF OneLine
    <2>7. f \in MintedFor(d, r, rt)
      BY DEF DraftsAreMinted, Pending
    <2>8. draft[d][q][x].heads[f] = 0
      BY <2>1, <2>6, <2>7 DEF DraftsAreMinted, MintedFor, Pending
    <2> QED  BY <1>1, <2>8, CommitMovesForward
  <1> QED  BY <1>1, HeadStep

LEMMA PendingStep == LineStep => PendingIsCurrent'
  <1> SUFFICES ASSUME LineStep, NEW d \in Devices, NEW r \in Requests, NEW rt \in Routes,
                      Pending(d, r, rt)', Live(d, r)'
               PROVE  /\ (rt \in Missing(d, r))'
                      /\ \A other \in Missing(d, r)' : SliceOrder[rt] <= SliceOrder[other]
                      /\ \A f \in Families : draft'[d][r][rt].heads[f] # 0 =>
                           localHead'[d][f] <= draft'[d][r][rt].heads[f]
    BY DEF PendingIsCurrent
  <1> USE DEF LineStep, DeliveryInv, DeliveryTypeOK, LineInv, LeaseInv
  <1>1. outbox[d][r][rt] = NoBatch /\ outbox'[d][r][rt] = NoBatch
    BY StagedStays DEF Pending
  <1>2. CASE Reconcile(d, r, rt)
    BY <1>2, ReconcileIsCurrent
  <1>3. CASE draft'[d][r][rt] = draft[d][r][rt]
    <2>1. Pending(d, r, rt)
      BY <1>1, <1>3 DEF Pending
    <2>2. state[r] # "absent" /\ selection[d][r] # NoSelection
      BY <2>1 DEF BegunIsCreated, Pending
    <2>3. Live(d, r)
      BY <2>2, LiveBefore
    <2>4. selection'[d][r] = selection[d][r]
      BY <2>2, SelectionStays
    <2>5. /\ rt \in Missing(d, r)
          /\ \A other \in Missing(d, r) : SliceOrder[rt] <= SliceOrder[other]
          /\ \A f \in Families : draft[d][r][rt].heads[f] # 0 =>
               localHead[d][f] <= draft[d][r][rt].heads[f]
      BY <2>1, <2>3 DEF PendingIsCurrent
    <2>6. (rt \in Missing(d, r))'
      BY <1>1, <2>4, <2>5, UploadStep DEF Missing
    <2>7. selection[d][r] \subseteq Routes
      BY <2>2 DEF LocalTypeOK
    <2>8. Missing(d, r)' \subseteq Missing(d, r)
      BY <2>4, <2>7, UploadStep DEF Missing
    <2>9. \A f \in Families : draft[d][r][rt].heads[f] # 0 =>
            localHead'[d][f] = localHead[d][f]
      BY <1>1, <2>1, <2>3, PendingHeadsStay
    <2> QED  BY <1>3, <2>5, <2>6, <2>8, <2>9
  <1> QED  BY <1>2, <1>3, DraftStep

LEMMA MintedStep == LineStep => DraftsAreMinted'
  <1> SUFFICES ASSUME LineStep, NEW d \in Devices, NEW r \in Requests, NEW rt \in Routes,
                      draft'[d][r][rt] # NoDraft
               PROVE  /\ \A f \in Families : draft'[d][r][rt].heads[f] # 0 =>
                           f \in MintedFor(d, r, rt)
                      /\ \A item \in draft'[d][r][rt].batch :
                           item.revision = draft'[d][r][rt].heads[item.family]
    BY DEF DraftsAreMinted, MintedFor, Repository
  <1> USE DEF LineStep, DeliveryInv, DeliveryTypeOK, LineInv
  <1>1. CASE draft'[d][r][rt] = draft[d][r][rt]
    BY <1>1 DEF DraftsAreMinted
  <1>2. CASE Reconcile(d, r, rt)
    BY <1>2, ReconcileIsCurrent
  <1> QED  BY <1>1, <1>2, DraftStep

LEMMA CommitStep ==
  ASSUME LocalTypeOK, DeliveryNext, NEW d \in Devices, NEW r \in Requests,
         NEW rt \in Routes, outbox'[d][r][rt] # outbox[d][r][rt]
  PROVE  CommitSliceResult(d, r, rt)
  <1>1. PICK e \in Devices, q \in Requests, x \in Routes : CommitSliceResult(e, q, x)
    BY LocalFootprint DEF localVars, SelectRoutes, Reconcile, DeliverSlice
  <1>2. PICK batch : outbox' = [outbox EXCEPT ![e][q][x] = batch]
    BY <1>1 DEF CommitSliceResult
  <1>3. e = d /\ q = r /\ x = rt
    BY <1>2 DEF LocalTypeOK, Receipts
  <1> QED  BY <1>1, <1>3

LEMMA OutboxIsLocalStep == LineStep => OutboxIsLocal'
  <1> SUFFICES ASSUME LineStep, NEW d \in Devices, NEW r \in Requests, NEW rt \in Routes
               PROVE  /\ <<r, rt>> \in uploaded'[d] => outbox'[d][r][rt] # NoBatch
                      /\ outbox'[d][r][rt] # NoBatch =>
                           \A item \in outbox'[d][r][rt] :
                             /\ Origin[item.family][1] = d
                             /\ item.revision <= localHead'[d][item.family]
    BY DEF OutboxIsLocal
  <1> USE DEF LineStep, DeliveryInv, DeliveryTypeOK, LineInv
  <1>1. CASE outbox[d][r][rt] # NoBatch
    <2>1. outbox'[d][r][rt] = outbox[d][r][rt]
      BY <1>1, StagedStays
    <2>2. ASSUME NEW item \in outbox[d][r][rt]
          PROVE  /\ Origin[item.family][1] = d
                 /\ item.revision <= localHead'[d][item.family]
      <3>1. /\ Origin[item.family][1] = d
            /\ item.revision <= localHead[d][item.family]
        BY <1>1 DEF OutboxIsLocal
      <3>2. item \in Item
        BY <1>1, GroupAssumption DEF LocalTypeOK, Receipts
      <3>3. item.family \in Families /\ item.revision \in Nat
        BY <3>2 DEF Item
      <3>4. localHead'[d][item.family] >= localHead[d][item.family]
        BY <3>3, HeadsForward
      <3>5. localHead[d][item.family] \in Nat /\ localHead'[d][item.family] \in Nat
        BY <3>3, LocalTypeStep DEF LocalTypeOK, CentralInv, LeaseInv
      <3> QED  BY <3>1, <3>3, <3>4, <3>5
    <2> QED  BY <1>1, <2>1, <2>2
  <1>2. CASE outbox[d][r][rt] = NoBatch
    <2>1. ASSUME <<r, rt>> \in uploaded'[d] PROVE FALSE
      BY <1>2, <2>1, UploadStep DEF OutboxIsLocal
    <2>2. ASSUME CommitSliceResult(d, r, rt), NEW item \in outbox'[d][r][rt]
          PROVE  /\ Origin[item.family][1] = d
                 /\ item.revision <= localHead'[d][item.family]
      <3>1. Pending(d, r, rt) /\ draft[d][r][rt] \in Draft
        BY <2>2 DEF CommitSliceResult, Pending, LocalTypeOK
      <3>2. item \in draft[d][r][rt].batch
        BY <2>2 DEF CommitSliceResult, LocalTypeOK, Receipts
      <3>3. item \in Item
        BY <3>1, <3>2, GroupAssumption DEF Draft
      <3>4. item.family \in Families /\ item.revision \in Nat \ {0}
        BY <3>3 DEF Item
      <3>5. item.revision = draft[d][r][rt].heads[item.family]
        BY <3>1, <3>2 DEF DraftsAreMinted, Pending
      <3>6. item.family \in MintedFor(d, r, rt)
        BY <3>1, <3>4, <3>5 DEF DraftsAreMinted, Pending
      <3>7. localHead'[d][item.family] = item.revision
        BY <2>2, <3>4, <3>5, CommitMovesForward
      <3> QED  BY <3>4, <3>6, <3>7 DEF MintedFor
    <2>3. outbox'[d][r][rt] # NoBatch => CommitSliceResult(d, r, rt)
      BY <1>2, CommitStep
    <2> QED  BY <2>1, <2>2, <2>3
  <1> QED  BY <1>1, <1>2

LEMMA FollowsStep == LineStep => CentralFollowsTheDevice'
  <1> SUFFICES ASSUME LineStep, NEW f \in Families
               PROVE  head'[f] <= localHead'[Origin[f][1]][f]
    BY DEF CentralFollowsTheDevice
  <1> USE DEF LineStep, DeliveryInv, DeliveryTypeOK, LineInv
  <1> DEFINE o == Origin[f][1]
  <1>1. o \in Devices
    BY DeliveryAssumption
  <1>2. localHead'[o][f] >= localHead[o][f]
    BY <1>1, HeadsForward
  <1>3. localHead[o][f] \in Nat /\ localHead'[o][f] \in Nat /\ head[f] \in Nat
    BY <1>1, LocalTypeStep DEF LocalTypeOK, CentralInv, LeaseInv, TypeOK, FamilyTypeOK
  <1>4. head[f] <= localHead[o][f]
    BY DEF CentralFollowsTheDevice
  <1> HIDE DEF o
  <1>5. CASE head'[f] = head[f]
    BY <1>2, <1>3, <1>4, <1>5 DEF o
  <1>6. ASSUME NEW d \in Devices, NEW r \in Requests, NEW rt \in Routes,
               DeliverSlice(d, r, rt),
               AcceptSliceBatch(d, r, Token(d), rt, outbox[d][r][rt]),
               head'[f] # head[f]
        PROVE  head'[f] <= localHead'[o][f]
    <2> DEFINE batch == outbox[d][r][rt]
    <2>1. batch # NoBatch /\ batch \in Batches
      BY <1>6 DEF DeliverSlice, StagedBatch, LocalTypeOK, Receipts
    <2>2. SaveBatch(batch, rt, plan[r][rt]) /\ OneRevisionPerFamily(batch)
      BY <1>6 DEF AcceptSliceBatch, Acceptable
    <2>3. PICK item \in batch : item.family = f
      BY <1>6, <2>2, HeadAfterSave
    <2>4. head'[f] = item.revision
      BY <2>2, <2>3, HeadAfterSave
    <2>5. Origin[item.family][1] = d /\ item.revision <= localHead[d][item.family]
      BY <2>1 DEF OutboxIsLocal
    <2>6. item.revision \in Nat
      BY <2>1, <2>3, GroupAssumption DEF Item
    <2>7. item.revision <= localHead[o][f]
      BY <2>3, <2>5 DEF o
    <2> QED  BY <1>2, <1>3, <2>4, <2>6, <2>7
  <1> QED  BY <1>5, <1>6, ReceiptStep DEF o

LEMMA NextLineInv ==
  ASSUME CentralInv, DeliveryInv, OneActiveGroupPerRepository,
         OneActiveGroupPerRepository', LineInv, [DeliveryNext]_deliveryVars
  PROVE  LineInv'
  <1>1. [Next]_vars
    BY DeliveryIsCentral DEF DeliveryInv
  <1>2. CASE DeliveryNext
    <2>1. LineStep
      BY <1>1, <1>2 DEF LineStep
    <2> QED
      BY <2>1, BegunStep, OneLineStep, FrozenIsAheadStep, PendingStep, MintedStep,
         OutboxIsLocalStep, FollowsStep DEF LineInv
  <1>3. CASE UNCHANGED deliveryVars
    <2> USE <1>3 DEF deliveryVars, agentVars, sourceVars, localVars, workVars, vars,
            sliceVars, familyVars, LineInv
    <2>1. BegunIsCreated' /\ OneLine' /\ FrozenIsAhead'
      BY DEF BegunIsCreated, OneLine, FrozenIsAhead, Live, Request
    <2>2. PendingIsCurrent'
      BY DEF PendingIsCurrent, Pending, Live, Request, Missing
    <2>3. DraftsAreMinted' /\ OutboxIsLocal' /\ CentralFollowsTheDevice'
      BY DEF DraftsAreMinted, OutboxIsLocal, CentralFollowsTheDevice
    <2> QED  BY <2>1, <2>2, <2>3
  <1> QED  BY <1>2, <1>3

(* The inductive invariant of a device's history: while a request it froze *)
(* sources for is live, it works on no other of the repository             *)
(* (service.py, create_group), so no stored result and no frozen boundary  *)
(* is overtaken before it is committed or acknowledged.                    *)
THEOREM LineInvCorrect == DeliverySpec => []LineInv
  <1>1. DeliverySpec => []OneActiveGroupPerRepository
    BY OneActiveCorrect, DeliveryImplementsCentral, PTL
  <1> QED
    BY <1>1, InitLineInv, NextLineInv, CentralInvCorrect, PTL DEF DeliverySpec

(* Central's head of a family never passes the device that mints it: what  *)
(* it accepts is a committed batch (request_state.py, commit_slice_result),*)
(* and the device's own heads only move forward.                           *)
THEOREM FollowsCorrect == DeliverySpec => []CentralFollowsTheDevice
  <1>1. LineInv => CentralFollowsTheDevice
    BY DEF LineInv
  <1> QED  BY <1>1, LineInvCorrect, PTL

(* No checkpoint moves back to an older boundary (session_index.py,        *)
(* acknowledge), and no stored result is committed after the heads it was  *)
(* computed from have moved on (request_state.py, commit_slice_result).    *)
THEOREM ForwardCorrect == DeliverySpec => DeviceMovesForward
  <1> DEFINE Forward ==
        \A d \in Devices :
          /\ \A s \in Sources : handled'[d][s] >= handled[d][s]
          /\ \A f \in Families : localHead'[d][f] >= localHead[d][f]
  <1>1. DeliveryInv /\ LineInv /\ [DeliveryNext]_deliveryVars => [Forward]_deliveryVars
    BY HandledForward, HeadsForward
  <1> QED
    BY <1>1, LineInvCorrect, CentralInvCorrect, PTL DEF DeliverySpec, DeviceMovesForward
=============================================================================
