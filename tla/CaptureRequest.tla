--------------------------- MODULE CaptureRequest ---------------------------
(***************************************************************************)
(* What a public Update action promises, without leases, devices, retries   *)
(* or clocks: a repository works on one request at a time; the request      *)
(* fixes its slices once, settles each slice once, and ends once, in        *)
(* success only when every slice is settled.                                *)
(*                                                                          *)
(* CaptureGroups implements this specification (CaptureGroups!Promise).     *)
(***************************************************************************)
CONSTANTS Requests, RepositoryOf(_), Slices, Outcomes, NoOutcome

VARIABLES
  phase,     \* "absent", "open", "succeeded" or "failed"
  planned,   \* the slices the request has fixed
  outcome    \* the batch each slice has settled on, or NoOutcome

requestVars == <<phase, planned, outcome>>

RequestInit ==
  /\ phase = [r \in Requests |-> "absent"]
  /\ planned = [r \in Requests |-> {}]
  /\ outcome = [r \in Requests |-> [s \in Slices |-> NoOutcome]]

Open(r) ==
  /\ phase[r] = "absent"
  /\ \A q \in Requests : RepositoryOf(q) = RepositoryOf(r) => phase[q] # "open"
  /\ phase' = [phase EXCEPT ![r] = "open"]
  /\ UNCHANGED <<planned, outcome>>

Fix(r, slices) ==
  /\ phase[r] = "open" /\ planned[r] = {} /\ slices # {}
  /\ planned' = [planned EXCEPT ![r] = slices]
  /\ UNCHANGED <<phase, outcome>>

Settle(r, s, batch) ==
  /\ phase[r] = "open" /\ s \in planned[r] /\ outcome[r][s] = NoOutcome
  /\ outcome' = [outcome EXCEPT ![r][s] = batch]
  /\ UNCHANGED <<phase, planned>>

Succeed(r) ==
  /\ phase[r] = "open"
  /\ \A s \in planned[r] : outcome[r][s] # NoOutcome
  /\ phase' = [phase EXCEPT ![r] = "succeeded"]
  /\ UNCHANGED <<planned, outcome>>

Fail(r) ==
  /\ phase[r] = "open"
  /\ phase' = [phase EXCEPT ![r] = "failed"]
  /\ UNCHANGED <<planned, outcome>>

RequestNext ==
  \E r \in Requests :
    \/ Open(r)
    \/ \E slices \in SUBSET Slices : Fix(r, slices)
    \/ \E s \in Slices, batch \in Outcomes : Settle(r, s, batch)
    \/ Succeed(r)
    \/ Fail(r)

RequestSpec == RequestInit /\ [][RequestNext]_requestVars
=============================================================================
