------------------------------ MODULE RecallHost ------------------------------
(***************************************************************************)
(* Recall of Decisions into one native Session: the confirmation card, the  *)
(* delivery of a frozen shortlist, its application in a Turn, the gate every*)
(* later Turn has to pass, context restorations, end and resume             *)
(* (agent/recall_host_state.py, recall_handoff.py, recall_mcp.py and the    *)
(* Recall part of agent/hooks.py).                                          *)
(*                                                                          *)
(* Each operation of RecallHostStore is one transaction.  The calls of the  *)
(* MCP server that work outside a transaction (retrieval, the reading of the*)
(* Session before a gate is committed) are processes with steps of their    *)
(* own, and can be cut off between them; so is the application of a         *)
(* delivery, which is bound to a gate before its commit.  A Hook records its*)
(* event first and then does its Recall part; it can fail before, between   *)
(* and after.                                                               *)
(*                                                                          *)
(* One Turn has at most one row of recall_activation_attempts, of           *)
(* recall_deliveries and of recall_turn_gates: rows are indexed by the Turn.*)
(* Times are what comparisons with them yield: a claim, a card or a         *)
(* preflight is alive until it expires.  Rows bind the installed plugin     *)
(* bundle; an upgrade replaces it, and older bindings no longer verify.     *)
(***************************************************************************)
EXTENDS HookEvents, FiniteSets

CONSTANTS
  Task,            \* the native Session the module is about
  Callers,         \* MCP calls that can be in flight at a time
  Intents,         \* normalized Recall intents
  SpacesOf,        \* target_decision_space_ids of an intent
  Shortlists,      \* what retrieval can yield for an intent: sets of Decisions
  Generations,     \* registry generations a preflight can be against
  MaxCards,        \* bound: confirmation cards of the Session
  MaxInterrupts,   \* bound: failed Hooks, cut-off calls, lost answers and
                   \* plugin upgrades
  NoIntent, Nobody

ASSUME RecallAssumption ==
  /\ Task \in Sessions
  /\ MaxCards \in Nat /\ MaxInterrupts \in Nat
  /\ Generations \subseteq Nat \ {0}
  /\ NoIntent \notin Intents /\ Nobody \notin Callers
  /\ DOMAIN SpacesOf = Intents /\ DOMAIN Shortlists = Intents

VARIABLES
  attempt,         \* recall_activation_attempts, by Turn
  delivery,        \* recall_deliveries, by the Turn of their attempt
  session,         \* the row of recall_sessions
  active,          \* recall_active_injected_items
  gate,            \* recall_turn_gates, by Turn
  restorations,    \* recall_context_restorations
  internal,        \* is the thread in recall_internal_threads?
  call,            \* MCP calls in flight
  plugin,          \* the installed plugin bundle
  received,        \* history: <<delivery, shortlist>> that reached the model
  interrupts       \* history: interruptions so far

storeVars == <<attempt, delivery, session, active, gate, restorations, internal>>
recallVars == <<storeVars, call, plugin, received, interrupts>>
vars == <<ledgerVars, recallVars>>

NoGeneration == 0
Decisions == UNION UNION {Shortlists[i] : i \in Intents}
Plugins == 1..(MaxInterrupts + 1)

(* A Turn is gated once per intent epoch, a break adds one context epoch.  *)
Epochs == 0..(MaxTurns + MaxBreaks)
NoSet == <<>>

(* active_set_digest: the delivery, the epochs and the Decisions it hashes.*)
Sets == {NoSet} \cup (Turns \X Epochs \X Epochs \X SUBSET Decisions)

NoAttempt ==
  [state |-> "none", card |-> FALSE, alive |-> FALSE, fresh |-> FALSE,
   intent |-> NoIntent, generation |-> NoGeneration, plugin |-> 0]

NoDelivery ==
  [state |-> "none", claim |-> Nobody, alive |-> FALSE, shortlist |-> {},
   receipt |-> NoSet]

NoSession ==
  [state |-> "none", context |-> 0, intent |-> 0, active_intent |-> NoIntent,
   set |-> NoSet, delivery |-> NoTurn, receipt |-> NoSet, last_gate |-> NoTurn]

NoGate ==
  [state |-> "none", id |-> <<>>, context |-> 0, intent |-> 0,
   generation |-> NoGeneration, result |-> NoIntent, set |-> NoSet, plugin |-> 0]

Idle == [step |-> "idle", turn |-> NoTurn, gate |-> NoGate.id, delivery |-> NoTurn,
         seen |-> NoSession]

Init ==
  /\ LedgerInit
  /\ attempt = [t \in Turns |-> NoAttempt]
  /\ delivery = [t \in Turns |-> NoDelivery]
  /\ session = NoSession
  /\ active = {}
  /\ gate = [t \in Turns |-> NoGate]
  /\ restorations = {}
  /\ internal = FALSE
  /\ call = [c \in Callers |-> Idle]
  /\ plugin = 1
  /\ received = {}
  /\ interrupts = 0

-----------------------------------------------------------------------------
(* Conditions.  An operator commented "Mutant" is a plausible mistake in    *)
(* the operator that follows it; Next uses only the latter.                 *)

Interrupted == interrupts < MaxInterrupts /\ interrupts' = interrupts + 1

Now == host[Task].turn
InTurn == host[Task].phase = "turn"

(* _trusted_recall_coordinates.                                            *)
Trusted == InTurn /\ OpenTurn(log, Task, Now)

(* _session_frozen_binding: one bundle, which still verifies.              *)
Bindings ==
  ({attempt[t].plugin : t \in Turns} \cup {gate[t].plugin : t \in Turns}) \ {0}

Bound == Bindings \subseteq {plugin}

(* _require_v1_delivery and _require_delivery_binding.                     *)
Authorized(t) ==
  /\ ~internal
  /\ attempt[t].state = "committed"
  /\ Bound

(* bind_recall_tool_call: the coordinates of a Recall tool are the Hook's,  *)
(* never the model's, and never those of a Thread ZDecision runs itself.   *)
HookBinds == Trusted /\ ~internal

Delivered == {t \in Turns : delivery[t].state \in {"host_delivered", "delivery_unknown"}}

(* eligible_delivery_for_session: the one delivery that can be applied.    *)
Eligible(t) == Delivered = {t} /\ ~internal

(* No gate of a newer Turn, as rowids follow the Turns.                    *)
NewestGate(t) ==
  gate[t].state # "none" /\ \A u \in Turns : u > t => gate[u].state = "none"

GateId(t, gen) == <<session.context, session.intent, gen>>

EpochsAgree(t) ==
  gate[t].context = session.context /\ gate[t].intent = session.intent

(* Mutant: any Turn with a committed gate, not only the open one.          *)
ToolAllowedInTurn(t) == gate[t].state = "committed" /\ Bound

(* guard_active_turn_tool for a tool call of Turn t, in an active Session: *)
(* require_committed_gate and has_open_observed_turn.  These are the calls *)
(* the guard judges: when the Hook cannot read its store within 50 ms, any *)
(* tool but those of Recall passes unjudged (handle_pre_tool_use).         *)
ToolAllowed(t) ==
  gate[t].state = "committed" /\ Bound /\ OpenTurn(log, Task, t)

(* provider.retrieve: what the call of c can get for its frozen preflight. *)
Retrieved(c) ==
  IF call[c].step \in {"retrieving", "intent"}
    THEN Shortlists[attempt[call[c].turn].intent] ELSE {}

Return(c) == call' = [call EXCEPT ![c] = Idle]

(* The answer with the shortlist reaches the model, or is lost on the way. *)
Answers(t, shortlist) ==
  \/ received' = received \cup {<<t, shortlist>>} /\ UNCHANGED interrupts
  \/ Interrupted /\ UNCHANGED received

-----------------------------------------------------------------------------
(* The confirmation card.                                                  *)

(* bind_recall_tool_call for the confirmation tool: the provider is ready, *)
(* and create_activation_attempt freezes what the card will show.          *)
CreateActivationAttempt(i, g) ==
  /\ HookBinds
  /\ session.state = "none" /\ attempt[Now].state = "none"
  /\ Cardinality({t \in Turns : attempt[t].state # "none"}) < MaxCards
  /\ attempt' = [attempt EXCEPT ![Now] =
       [state |-> "pending_confirmation", card |-> FALSE, alive |-> TRUE,
        fresh |-> TRUE, intent |-> i, generation |-> g, plugin |-> plugin]]
  /\ UNCHANGED <<ledgerVars, delivery, session, active, gate, restorations, internal,
                 call, plugin, received, interrupts>>

(* show_recall_confirmation, attach_activation_card.                       *)
AttachActivationCard(t) ==
  /\ attempt[t].state = "pending_confirmation" /\ ~attempt[t].card
  /\ attempt[t].plugin = plugin
  /\ attempt' = [attempt EXCEPT ![t].card = TRUE]
  /\ UNCHANGED <<ledgerVars, delivery, session, active, gate, restorations, internal,
                 call, plugin, received, interrupts>>

(* Mutant: a state that recall_activation_attempts does not know.          *)
DeclinedOrExpired(t) == IF attempt[t].alive THEN "declined" ELSE "expired"

(* A card that expired before the decision has failed.                     *)
DeclinedOrFailed(t) == IF attempt[t].alive THEN "declined" ELSE "failed"

(* decline, decide_activation_attempt.                                     *)
Decline(t) ==
  /\ attempt[t].state = "pending_confirmation" /\ attempt[t].card
  /\ attempt[t].plugin = plugin
  /\ attempt' = [attempt EXCEPT ![t].state = DeclinedOrFailed(t)]
  /\ UNCHANGED <<ledgerVars, delivery, session, active, gate, restorations, internal,
                 call, plugin, received, interrupts>>

(* _attempt_is_current.                                                    *)
AttemptIsCurrent(t) ==
  attempt[t].card /\ attempt[t].fresh /\ attempt[t].plugin = plugin

(* enable: begin_delivery takes the consent and the first claim, ...       *)
Enable(c, t) ==
  /\ call[c].step = "idle" /\ ~internal
  /\ AttemptIsCurrent(t)
  /\ attempt[t].state = "pending_confirmation" /\ attempt[t].alive
  /\ session.state = "none"
  /\ attempt' = [attempt EXCEPT ![t].state = "committed"]
  /\ session' = [NoSession EXCEPT !.state = "activating"]
  /\ delivery' = [delivery EXCEPT ![t] =
       [NoDelivery EXCEPT !.state = "preparing", !.claim = c, !.alive = TRUE]]
  /\ call' = [call EXCEPT ![c] = [Idle EXCEPT !.step = "retrieving", !.turn = t]]
  /\ UNCHANGED <<ledgerVars, active, gate, restorations, internal, plugin,
                 received, interrupts>>

(* ... or takes over a claim that expired while its caller retrieved, ...  *)
TakeOver(c, t) ==
  /\ call[c].step = "idle" /\ ~internal
  /\ AttemptIsCurrent(t)
  /\ attempt[t].state = "committed"
  /\ delivery[t].state = "preparing" /\ ~delivery[t].alive
  /\ delivery' = [delivery EXCEPT ![t].claim = c, ![t].alive = TRUE]
  /\ call' = [call EXCEPT ![c] = [Idle EXCEPT !.step = "retrieving", !.turn = t]]
  /\ UNCHANGED <<ledgerVars, attempt, session, active, gate, restorations, internal,
                 plugin, received, interrupts>>

(* ... or, with the context handed out, is about to mark an expired claim  *)
(* unknown or to claim an unknown one again.                               *)
EnableAgain(c, t) ==
  /\ call[c].step = "idle" /\ ~internal
  /\ AttemptIsCurrent(t)
  /\ attempt[t].state = "committed"
  /\ \/ delivery[t].state = "delivery_claimed" /\ ~delivery[t].alive
     \/ delivery[t].state = "delivery_unknown"
  /\ call' = [call EXCEPT ![c] =
       [Idle EXCEPT !.turn = t,
                    !.step = IF delivery[t].state = "delivery_unknown" THEN "retry" ELSE "unknown"]]
  /\ UNCHANGED <<ledgerVars, storeVars, plugin, received, interrupts>>

(* Mutant: whoever retrieved may prepare, whatever happened to its claim.  *)
OwnsAnyClaim(c, t) == delivery[t].state \in {"preparing", "delivery_claimed"}

(* The caller still holds the claim it retrieved under.                    *)
OwnsClaim(c, t) ==
  delivery[t].state = "preparing" /\ delivery[t].claim = c /\ delivery[t].alive

(* commit_prepared_delivery, and the answer with the context.              *)
CommitPreparedDelivery(c, t, shortlist) ==
  /\ call[c].step = "retrieving"
  /\ AttemptIsCurrent(t) /\ Authorized(t)
  /\ OwnsClaim(c, t)
  /\ delivery' = [delivery EXCEPT ![t].state = "delivery_claimed", ![t].claim = Nobody,
                                  ![t].shortlist = shortlist]
  /\ Return(c)
  /\ Answers(t, shortlist)
  /\ UNCHANGED <<ledgerVars, attempt, session, active, gate, restorations, internal,
                 plugin>>

(* mark_delivery_unknown; another call may have changed the row meanwhile. *)
MarkDeliveryUnknown(c) ==
  LET t == call[c].turn IN
  /\ call[c].step = "unknown"
  /\ IF Authorized(t) /\ (\/ delivery[t].state = "delivery_unknown"
                          \/ delivery[t].state = "delivery_claimed" /\ ~delivery[t].alive)
       THEN /\ delivery' = [delivery EXCEPT ![t].state = "delivery_unknown"]
            /\ call' = [call EXCEPT ![c].step = "retry"]
       ELSE Return(c) /\ UNCHANGED delivery
  /\ UNCHANGED <<ledgerVars, attempt, session, active, gate, restorations, internal,
                 plugin, received, interrupts>>

(* claim_delivery_retry: the frozen bytes are handed out again.            *)
ClaimDeliveryRetry(c) ==
  LET t == call[c].turn IN
  /\ call[c].step = "retry"
  /\ Return(c)
  /\ IF Authorized(t) /\ (\/ delivery[t].state = "delivery_unknown"
                          \/ delivery[t].state = "delivery_claimed" /\ ~delivery[t].alive)
       THEN /\ delivery' = [delivery EXCEPT ![t].state = "delivery_claimed", ![t].alive = TRUE]
            /\ Answers(t, delivery[t].shortlist)
       ELSE UNCHANGED <<delivery, received, interrupts>>
  /\ UNCHANGED <<ledgerVars, attempt, session, active, gate, restorations, internal,
                 plugin>>

(* ack_delivery with the digest of bytes the card was given.               *)
AckDelivery(t) ==
  /\ <<t, delivery[t].shortlist>> \in received
  /\ delivery[t].state \in {"delivery_claimed", "delivery_unknown"}
  /\ attempt[t].plugin = plugin /\ Authorized(t)
  /\ delivery' = [delivery EXCEPT ![t].state = "host_delivered", ![t].alive = FALSE]
  /\ UNCHANGED <<ledgerVars, attempt, session, active, gate, restorations, internal,
                 call, plugin, received, interrupts>>

(* A call in flight fails or is cut off: its claim token is never used     *)
(* again, and stays in the row until it expires.                           *)
CutOff(c) ==
  /\ call[c].step # "idle"
  /\ Interrupted
  /\ Return(c)
  /\ delivery' = [t \in Turns |->
       IF delivery[t].claim = c THEN [delivery[t] EXCEPT !.claim = Nobody] ELSE delivery[t]]
  /\ UNCHANGED <<ledgerVars, attempt, session, active, gate, restorations, internal,
                 plugin, received>>

-----------------------------------------------------------------------------
(* The application of a delivery.                                          *)

(* Mutant: items of an earlier delivery stay in the set.                   *)
KeptAndApplied(items) == active \cup items

(* recall_active_injected_items after an application: the earlier rows are *)
(* deleted.                                                                *)
Applied(items) == items

(* bind_recall_tool_call for the application tool and _application_binding: *)
(* the running Turn has a pending gate of the delivery's generation, and no *)
(* newer Turn has a gate.                                                   *)
ApplicationBinds(t, d) ==
  /\ Trusted /\ t = Now
  /\ session.state = "activating"
  /\ Eligible(d)
  /\ gate[t].state = "pending" /\ NewestGate(t)
  /\ gate[t].generation = attempt[d].generation

(* apply_recall_delivery: the model has classified the shortlist it         *)
(* received, and the call is bound to Turn and gate ...                     *)
ApplyDelivery(c, d) ==
  /\ call[c].step = "idle"
  /\ ApplicationBinds(Now, d)
  /\ <<d, delivery[d].shortlist>> \in received
  /\ call' = [call EXCEPT ![c] = [Idle EXCEPT !.step = "apply", !.turn = Now,
                                     !.gate = gate[Now].id, !.delivery = d]]
  /\ UNCHANGED <<ledgerVars, storeVars, plugin, received, interrupts>>

(* What commit_delivery_application checks in its own transaction: that the *)
(* gate is the one the call was bound to and of the epochs of the Session,  *)
(* not that the Turn still runs or that its gate still is the newest.       *)
ApplicationStands(c) ==
  LET t == call[c].turn
      d == call[c].delivery
  IN /\ Authorized(d) /\ attempt[d].plugin = plugin
     /\ d \in Delivered /\ session.state \in {"activating", "active"}
     /\ gate[t].id = call[c].gate /\ gate[t].plugin = plugin
     /\ gate[t].state = "pending" /\ EpochsAgree(t)
     /\ gate[t].generation = attempt[d].generation

(* The classifications a call may have brought.                             *)
Classified(c) ==
  IF call[c].step = "apply" THEN SUBSET delivery[call[c].delivery].shortlist ELSE {}

(* ... and commit_delivery_application makes the applicable items the       *)
(* active set; a conflicting or uncertain one blocks gate and Session.      *)
CommitDeliveryApplication(c, applicable, blocked) ==
  LET t == call[c].turn
      d == call[c].delivery
      next == session.intent + 1
      set == <<d, gate[t].context, next, applicable>>
      outcome == IF blocked THEN "blocked" ELSE "committed"
  IN /\ call[c].step = "apply"
     /\ ApplicationStands(c)
     /\ blocked => applicable # delivery[d].shortlist
     /\ delivery' = [delivery EXCEPT
          ![d].state = IF blocked THEN "blocked" ELSE "application_committed",
          ![d].receipt = set]
     /\ active' = Applied({[decision |-> x, delivery |-> d, receipt |-> set] : x \in applicable})
     /\ gate' = [gate EXCEPT ![t].state = outcome, ![t].set = set,
                             ![t].result = attempt[d].intent]
     /\ session' = [session EXCEPT
          !.state = IF blocked THEN "blocked" ELSE "active",
          !.intent = next, !.active_intent = attempt[d].intent, !.set = set,
          !.delivery = d, !.receipt = set, !.last_gate = t]
     /\ Return(c)
     /\ UNCHANGED <<ledgerVars, attempt, restorations, internal, plugin, received,
                    interrupts>>

-----------------------------------------------------------------------------
(* The gate of a Turn.                                                     *)

(* begin_turn_gate for a Turn without a gate.                              *)
BeginTurnGate(t, gen) ==
  gate' = [gate EXCEPT ![t] =
    [NoGate EXCEPT !.state = "pending", !.id = GateId(t, gen),
       !.context = session.context, !.intent = session.intent,
       !.generation = gen, !.plugin = plugin]]

(* What the gate tool's PreToolUse Hook requires of an existing gate, and  *)
(* gate_turn's _turn_binding after it: the id it computes anew.            *)
GateBinds(t) ==
  /\ HookBinds /\ t = Now
  /\ session.state = "active" /\ Bound
  /\ gate[t].state = "pending" /\ NewestGate(t)
  /\ gate[t].id = GateId(t, NoGeneration) /\ EpochsAgree(t)
  /\ gate[t].generation = NoGeneration

(* bind_recall_tool_call makes up for a prompt whose Hook failed.          *)
BindTurnGate ==
  /\ HookBinds
  /\ session.state = "active" /\ Bound
  /\ gate[Now].state = "none"
  /\ BeginTurnGate(Now, NoGeneration)
  /\ UNCHANGED <<ledgerVars, attempt, delivery, session, active, restorations, internal,
                 call, plugin, received, interrupts>>

(* gate_turn, the intent unchanged: the Session is read first ...          *)
ReuseIntent(c) ==
  /\ call[c].step = "idle"
  /\ GateBinds(Now)
  /\ call' = [call EXCEPT ![c] = [Idle EXCEPT !.step = "reuse", !.turn = Now,
                                     !.gate = gate[Now].id, !.seen = session]]
  /\ UNCHANGED <<ledgerVars, storeVars, plugin, received, interrupts>>

(* _validate_result and _validate_session_epoch.                           *)
CommitOnEpochs(t, seen) ==
  /\ seen.context = gate[t].context
  /\ gate[t].intent <= seen.intent /\ seen.intent <= gate[t].intent + 1
  /\ EpochsAgree(t)

(* ... and commit_turn_gate writes what was read.  A stale result blocks   *)
(* the gate; a gate that a compaction gave another id meanwhile stays as it *)
(* is.                                                                      *)
CommitTurnGate(c) ==
  LET t == call[c].turn
      seen == call[c].seen
  IN /\ call[c].step = "reuse"
     /\ Return(c)
     /\ IF \/ gate[t].id # call[c].gate \/ gate[t].state # "pending"
           \/ ~Bound \/ internal \/ session.state = "activating"
          THEN UNCHANGED <<gate, session>>
        ELSE IF ~CommitOnEpochs(t, seen)
          THEN gate' = [gate EXCEPT ![t].state = "blocked"] /\ UNCHANGED session
        ELSE /\ gate' = [gate EXCEPT ![t].state = "committed", ![t].set = seen.set,
                                     ![t].result = seen.active_intent]
             /\ session' = [session EXCEPT
                  !.context = seen.context, !.intent = seen.intent,
                  !.active_intent = seen.active_intent, !.set = seen.set, !.last_gate = t]
     /\ UNCHANGED <<ledgerVars, attempt, delivery, active, restorations, internal,
                    plugin, received, interrupts>>

(* gate_turn, a changed intent or an explicit refresh: the Session is read  *)
(* before the preflight ...                                                 *)
ChangeIntent(c) ==
  /\ call[c].step = "idle"
  /\ GateBinds(Now)
  /\ attempt[Now].state = "none"
  /\ call' = [call EXCEPT ![c] = [Idle EXCEPT !.step = "preflight", !.turn = Now,
                                     !.gate = gate[Now].id, !.seen = session]]
  /\ UNCHANGED <<ledgerVars, storeVars, plugin, received, interrupts>>

(* What begin_intent_delivery checks in its own transaction.               *)
IntentStands(c) ==
  LET t == call[c].turn IN
  /\ session.state = "active" /\ ~internal /\ Bound
  /\ gate[t].id = call[c].gate /\ gate[t].state = "pending" /\ EpochsAgree(t)
  /\ attempt[t].state = "none"

(* ... and begin_intent_delivery freezes what it yielded.  Other target     *)
(* spaces than those of the intent that was read retire the active set.     *)
BeginIntentDelivery(c, i, g) ==
  LET t == call[c].turn
      retire == SpacesOf[call[c].seen.active_intent] # SpacesOf[i]
  IN /\ call[c].step = "preflight"
     /\ IntentStands(c)
     /\ attempt' = [attempt EXCEPT ![t] =
          [state |-> "committed", card |-> FALSE, alive |-> TRUE, fresh |-> TRUE,
           intent |-> i, generation |-> g, plugin |-> plugin]]
     /\ delivery' = [delivery EXCEPT ![t] =
          [NoDelivery EXCEPT !.state = "preparing", !.claim = c, !.alive = TRUE]]
     /\ gate' = [gate EXCEPT ![t].generation = g]
     /\ active' = IF retire THEN {} ELSE active
     /\ session' = [session EXCEPT !.state = "activating", !.set = IF retire THEN NoSet ELSE @]
     /\ call' = [call EXCEPT ![c] = [Idle EXCEPT !.step = "intent", !.turn = t]]
     /\ UNCHANGED <<ledgerVars, restorations, internal, plugin, received, interrupts>>

(* commit_intent_delivery, and the tool result with the shortlist.         *)
CommitIntentDelivery(c, t, shortlist) ==
  /\ call[c].step = "intent"
  /\ Authorized(t) /\ attempt[t].fresh
  /\ OwnsClaim(c, t)
  /\ delivery' = [delivery EXCEPT ![t].state = "host_delivered", ![t].claim = Nobody,
                                  ![t].alive = FALSE, ![t].shortlist = shortlist]
  /\ Return(c)
  /\ Answers(t, shortlist)
  /\ UNCHANGED <<ledgerVars, attempt, session, active, gate, restorations, internal,
                 plugin>>

(* What a call finds that no longer may commit what it retrieved or brought.*)
Refused(c) ==
  LET t == call[c].turn IN
  /\ \/ call[c].step = "retrieving" /\ ~(AttemptIsCurrent(t) /\ Authorized(t) /\ OwnsClaim(c, t))
     \/ call[c].step = "intent" /\ ~(Authorized(t) /\ attempt[t].fresh /\ OwnsClaim(c, t))
     \/ call[c].step = "preflight" /\ ~IntentStands(c)
     \/ call[c].step = "apply" /\ ~ApplicationStands(c)
  /\ Return(c)
  /\ delivery' = IF delivery[t].claim = c THEN [delivery EXCEPT ![t].claim = Nobody] ELSE delivery
  /\ UNCHANGED <<ledgerVars, attempt, session, active, gate, restorations, internal,
                 plugin, received, interrupts>>

-----------------------------------------------------------------------------
(* Hooks of the host.  The event is recorded, then the Recall part runs;   *)
(* the Hook may fail before the one or the other.                          *)

Recorded(name, turn, fact) ==
  \E head \in Heads : Record(OfSession(Task, name, turn, fact, head))

Hook(name, turn, fact, Effect) ==
  /\ \/ Recorded(name, turn, fact) /\ Effect /\ UNCHANGED interrupts
     \/ Recorded(name, turn, fact) /\ UNCHANGED storeVars /\ Interrupted
     \/ UNCHANGED <<log, storeVars>> /\ Interrupted
  /\ UNCHANGED <<call, plugin, received>>

(* Events without a Recall part; a missing row of the last two matters.    *)
SessionStarts ==
  HostStarts(Task) /\ Recorded("SessionStart", NoTurn, "startup") /\ UNCHANGED recallVars

TurnStops == HostStops(Task) /\ Recorded("Stop", Now, "none") /\ UNCHANGED recallVars

RecordedOrLost(name, turn, fact) ==
  /\ \/ Recorded(name, turn, fact) /\ UNCHANGED interrupts
     \/ Interrupted /\ UNCHANGED log
  /\ UNCHANGED <<storeVars, call, plugin, received>>

ContextCompacting(trigger) ==
  HostCompacts(Task, trigger) /\ RecordedOrLost("PreCompact", Now, trigger)

ContextCompacted ==
  HostCompacted(Task) /\ RecordedOrLost("PostCompact", Now, host[Task].trigger)

(* UserPromptSubmit: an active Session, or one with a delivery to apply,   *)
(* gets the gate of this Turn.                                             *)
GateForPrompt(t) ==
  IF \/ internal \/ ~Bound
     \/ session.state \notin {"active", "activating"}
     \/ session.state = "activating" /\ ~\E d \in Turns : Eligible(d)
    THEN UNCHANGED storeVars
    ELSE /\ BeginTurnGate(t, IF session.state = "active" THEN NoGeneration
                             ELSE attempt[CHOOSE d \in Turns : Eligible(d)].generation)
         /\ UNCHANGED <<attempt, delivery, session, active, restorations, internal>>

UserPrompts ==
  /\ HostPrompts(Task)
  /\ Hook("UserPromptSubmit", Now + 1, "none", GateForPrompt(Now + 1))

(* begin_context_epoch.  A replay of the same key changes nothing, another *)
(* key for the same set and gated Turn is a conflict.                      *)
BeginContextEpoch(source, key, rebased) ==
  /\ session' = [session EXCEPT !.context = @ + 1]
  /\ restorations' = restorations \cup
       {[source |-> source, turn |-> session.last_gate, set |-> session.set, key |-> key]}
  /\ gate' = IF rebased = NoTurn THEN gate
             ELSE [gate EXCEPT ![rebased].id = <<session.context + 1, session.intent, gate[rebased].generation>>,
                               ![rebased].context = session.context + 1]
  /\ UNCHANGED <<attempt, delivery, active, internal>>

Restorable(source, key) ==
  /\ ~internal /\ Bound
  /\ session.state = "active"
  /\ session.last_gate # NoTurn /\ session.set # NoSet
  /\ \A r \in restorations :
       /\ r.key # key
       /\ <<r.source, r.turn, r.set>> # <<source, session.last_gate, session.set>>

(* Mutant: the gate of the running Turn keeps its context epoch.           *)
RebasedNever(t) == NoTurn

(* The pending gate of the Turn that was compacted moves along.            *)
Rebased(t) == IF gate[t].state = "pending" THEN t ELSE NoTurn

(* SessionStart(compact), in the Turn that was compacted.                  *)
RestoreAfterCompaction(t, trigger, rows) ==
  IF /\ MatchedCompaction(rows, Task, t)
     /\ OpenTurn(rows, Task, t)
     /\ gate[t].state # "blocked"
     /\ Restorable("compact", <<"compact", t, trigger>>)
     /\ gate[t].state = "pending" =>
          gate[t].id = GateId(t, gate[t].generation) /\ EpochsAgree(t)
    THEN BeginContextEpoch("compact", <<"compact", t, trigger>>, Rebased(t))
    ELSE UNCHANGED storeVars

ContextRestarts ==
  /\ HostContinues(Task)
  /\ Hook("SessionStart", NoTurn, "compact",
          RestoreAfterCompaction(Now, host[Task].trigger, log'))

ContextClears ==
  LET key == <<"clear", session.last_gate, session.set>> IN
  /\ HostClears(Task)
  /\ Hook("SessionStart", NoTurn, "clear",
          IF Restorable("clear", key) THEN BeginContextEpoch("clear", key, NoTurn)
          ELSE UNCHANGED storeVars)

(* Mutant: the cards that were decided are cancelled too.                  *)
AnyCard == {t \in Turns : attempt[t].state # "none"}

OutstandingCards == {t \in Turns : attempt[t].state = "pending_confirmation"}

(* SessionEnd: retire_activation_attempts, unless a card no longer verifies,*)
(* and then mark_dormant.  The Hook can be killed between the two.          *)
CardsVerify == \A t \in OutstandingCards : attempt[t].plugin = plugin

RetireActivationAttempts ==
  /\ CardsVerify
  /\ attempt' = [t \in Turns |->
       IF t \in OutstandingCards THEN [attempt[t] EXCEPT !.state = "cancelled"] ELSE attempt[t]]
  /\ UNCHANGED <<delivery, active, gate, restorations, internal>>

MarkDormant ==
  session' = IF session.state = "active" /\ ~internal /\ Bound
               THEN [session EXCEPT !.state = "dormant"] ELSE session

EndSession ==
  \/ RetireActivationAttempts /\ MarkDormant
  \/ ~CardsVerify /\ UNCHANGED storeVars

SessionEnds ==
  /\ HostEnds(Task)
  /\ \/ Hook("SessionEnd", NoTurn, "other", EndSession)
     \/ /\ Recorded("SessionEnd", NoTurn, "other") /\ Interrupted
        /\ RetireActivationAttempts
        /\ UNCHANGED <<session, call, plugin, received>>

(* begin_resume: the receipt, the gate and the items still agree.          *)
ReceiptHolds ==
  LET d == session.delivery IN
  /\ d # NoTurn /\ session.last_gate # NoTurn
  /\ delivery[d].state = "application_committed"
  /\ delivery[d].receipt = session.receipt
  /\ gate[session.last_gate].state = "committed"
  /\ gate[session.last_gate].plugin = plugin
  /\ \A x \in active : x.receipt = session.receipt

SessionResumes ==
  /\ HostResumes(Task)
  /\ Hook("SessionStart", NoTurn, "resume",
          IF session.state = "dormant" /\ ~internal /\ ReceiptHolds
            THEN /\ session' = [session EXCEPT !.state = "active"]
                 /\ UNCHANGED <<attempt, delivery, active, gate, restorations, internal>>
            ELSE UNCHANGED storeVars)

(* bind_internal_thread: the Agent forked this thread for its own work.    *)
BindInternalThread ==
  /\ Now = NoTurn /\ ~internal
  /\ internal' = TRUE
  /\ gate' = [t \in Turns |-> IF gate[t].state = "pending"
                                THEN [gate[t] EXCEPT !.state = "blocked"] ELSE gate[t]]
  /\ session' = IF session.state = "none" THEN session ELSE [session EXCEPT !.state = "blocked"]
  /\ UNCHANGED <<ledgerVars, attempt, delivery, active, restorations, call, plugin,
                 received, interrupts>>

-----------------------------------------------------------------------------
(* Time and the world.  A time passes while something still compares it.   *)

ExpireCard(t) ==
  /\ attempt[t].state = "pending_confirmation" /\ attempt[t].alive
  /\ attempt' = [attempt EXCEPT ![t].alive = FALSE]
  /\ UNCHANGED <<ledgerVars, delivery, session, active, gate, restorations, internal,
                 call, plugin, received, interrupts>>

ExpirePreflight(t) ==
  /\ attempt[t].fresh
  /\ attempt[t].state \in {"pending_confirmation", "committed"}
  /\ delivery[t].state \in {"none", "preparing", "delivery_claimed", "delivery_unknown"}
  /\ attempt' = [attempt EXCEPT ![t].fresh = FALSE]
  /\ UNCHANGED <<ledgerVars, delivery, session, active, gate, restorations, internal,
                 call, plugin, received, interrupts>>

ExpireClaim(t) ==
  /\ delivery[t].state \in {"preparing", "delivery_claimed"} /\ delivery[t].alive
  /\ delivery' = [delivery EXCEPT ![t].alive = FALSE]
  /\ UNCHANGED <<ledgerVars, attempt, session, active, gate, restorations, internal,
                 call, plugin, received, interrupts>>

UpgradePlugin ==
  /\ Interrupted
  /\ plugin' = plugin + 1
  /\ UNCHANGED <<ledgerVars, storeVars, call, received>>

Card ==
  \/ \E i \in Intents, g \in Generations : CreateActivationAttempt(i, g)
  \/ \E t \in Turns : AttachActivationCard(t) \/ Decline(t) \/ AckDelivery(t)
  \/ \E c \in Callers, t \in Turns : Enable(c, t) \/ TakeOver(c, t) \/ EnableAgain(c, t)

Calls ==
  \/ \E c \in Callers : \E shortlist \in Retrieved(c) :
       CommitPreparedDelivery(c, call[c].turn, shortlist)
         \/ CommitIntentDelivery(c, call[c].turn, shortlist)
  \/ \E c \in Callers, i \in Intents, g \in Generations : BeginIntentDelivery(c, i, g)
  \/ \E c \in Callers : \E applicable \in Classified(c), blocked \in BOOLEAN :
       CommitDeliveryApplication(c, applicable, blocked)
  \/ \E c \in Callers :
       MarkDeliveryUnknown(c) \/ ClaimDeliveryRetry(c) \/ CommitTurnGate(c)
         \/ Refused(c) \/ CutOff(c)

Tools ==
  \/ \E c \in Callers, d \in Delivered : ApplyDelivery(c, d)
  \/ BindTurnGate
  \/ \E c \in Callers : ReuseIntent(c) \/ ChangeIntent(c)

Hooks ==
  \/ SessionStarts \/ UserPrompts \/ TurnStops
  \/ \E trigger \in Triggers : ContextCompacting(trigger)
  \/ ContextCompacted \/ ContextRestarts \/ ContextClears
  \/ SessionEnds \/ SessionResumes \/ BindInternalThread

World ==
  \/ \E t \in Turns : ExpireCard(t) \/ ExpirePreflight(t) \/ ExpireClaim(t)
  \/ UpgradePlugin

Next == Card \/ Calls \/ Tools \/ Hooks \/ World

Spec == Init /\ [][Next]_vars

-----------------------------------------------------------------------------
(* Properties.                                                             *)

AttemptStates ==
  {"none", "pending_confirmation", "declined", "cancelled", "failed", "committed"}
DeliveryStates ==
  {"none", "preparing", "delivery_claimed", "delivery_unknown", "host_delivered",
   "application_committed", "blocked"}

Session ==
  [state : {"none", "activating", "active", "blocked", "dormant"},
   context : Epochs, intent : Epochs, active_intent : Intents \cup {NoIntent},
   set : Sets, delivery : Turns \cup {NoTurn}, receipt : Sets,
   last_gate : Turns \cup {NoTurn}]

(* Every row has the shape its table declares.                             *)
TypeOK ==
  /\ host \in [Sessions -> Host]
  /\ Range(log) \subseteq Event
  /\ attempt \in [Turns ->
       [state : AttemptStates, card : BOOLEAN, alive : BOOLEAN, fresh : BOOLEAN,
        intent : Intents \cup {NoIntent}, generation : Generations \cup {NoGeneration},
        plugin : Plugins \cup {0}]]
  /\ delivery \in [Turns ->
       [state : DeliveryStates, claim : Callers \cup {Nobody}, alive : BOOLEAN,
        shortlist : SUBSET Decisions, receipt : Sets]]
  /\ session \in Session
  /\ active \subseteq [decision : Decisions, delivery : Turns, receipt : Sets]
  /\ gate \in [Turns ->
       [state : {"none", "pending", "committed", "blocked"},
        id : {<<>>} \cup (Epochs \X Epochs \X (Generations \cup {NoGeneration})),
        context : Epochs, intent : Epochs,
        generation : Generations \cup {NoGeneration},
        result : Intents \cup {NoIntent}, set : Sets, plugin : Plugins \cup {0}]]
  /\ internal \in BOOLEAN
  /\ call \in [Callers ->
       [step : {"idle", "retrieving", "unknown", "retry", "reuse", "preflight", "intent",
                "apply"},
        turn : Turns \cup {NoTurn},
        gate : {<<>>} \cup (Epochs \X Epochs \X (Generations \cup {NoGeneration})),
        delivery : Turns \cup {NoTurn}, seen : Session]]
  /\ received \subseteq (Turns \X SUBSET Decisions)
  /\ plugin \in Plugins
  /\ interrupts \in 0..MaxInterrupts

(* What governs a Session that is active or dormant is exactly what one     *)
(* application accepted out of a shortlist that had reached the model:      *)
(* never a remainder of an earlier delivery, whatever was retrieved again,  *)
(* retried, taken over, compacted or resumed in between.                    *)
ActiveSetIsReceipted ==
  session.state \in {"active", "dormant"} =>
    LET d == session.delivery IN
    /\ delivery[d].state = "application_committed"
    /\ session.receipt = delivery[d].receipt /\ session.set = session.receipt
    /\ <<d, delivery[d].shortlist>> \in received
    /\ {x.decision : x \in active} = session.receipt[4]
    /\ session.receipt[4] \subseteq delivery[d].shortlist
    /\ \A x \in active : x.delivery = d /\ x.receipt = session.receipt

(* The bytes of a delivery are frozen: two calls that retrieved for the    *)
(* same card, one of them after its lease expired, never show the model    *)
(* two different shortlists.                                               *)
OneShortlistPerDelivery ==
  \A a, b \in received : a[1] = b[1] => a[2] = b[2]

(* A tool the guard lets through works under the intent and the active set *)
(* its Turn was gated for: not a tool of an earlier Turn, not one of a Turn*)
(* whose intent or set was replaced after its gate was committed.          *)
ToolsFollowTheirGate ==
  \A t \in Turns :
    session.state = "active" /\ ToolAllowed(t) =>
      gate[t].result = session.active_intent /\ gate[t].set = session.set

(* The receipt in force is of a later intent epoch than the gate of Turn t  *)
(* and was given under the gate of an earlier Turn.                         *)
Overtaken(t) ==
  \E u \in Turns :
    /\ u < t /\ gate[u].state = "committed"
    /\ session.delivery # NoTurn /\ gate[u].set = session.receipt
    /\ session.receipt[3] > gate[t].intent

(* A compaction in the middle of a Turn does not strand it: while the Turn *)
(* runs, its pending gate is of the epochs of the Session, as every commit *)
(* requires.  The one thing that can overtake it is an application an      *)
(* earlier Turn had begun, whose commit does not look for a newer gate.    *)
PendingGateIsCurrent ==
  /\ InTurn /\ session.state \in {"active", "activating"}
  /\ gate[Now].state = "pending" /\ NewestGate(Now)
  => /\ gate[Now].context = session.context
     /\ gate[Now].intent = session.intent \/ Overtaken(Now)

(* What was decided stays decided: a terminal card, delivery or gate never *)
(* changes again, and no epoch goes back.                                  *)
Settled(t) ==
  /\ attempt[t].state \in {"declined", "cancelled", "failed", "committed"} =>
       attempt'[t].state = attempt[t].state /\ attempt'[t].intent = attempt[t].intent
  /\ delivery[t].state \in {"application_committed", "blocked"} => delivery'[t] = delivery[t]
  /\ gate[t].state \in {"committed", "blocked"} => gate'[t] = gate[t]

DecisionsStand ==
  [][ /\ \A t \in Turns : Settled(t)
      /\ session'.context >= session.context /\ session'.intent >= session.intent ]_vars

(* "test_older_turn_gate_cannot_apply_after_a_newer_gate_exists"           *)
(* (tests/test_mcp_recall_handoff.py:483): true of the look the call takes *)
(* before it applies, not of the transaction that applies.                 *)
OnlyNewestGatesApply ==
  [][\A t \in Turns :
       session'.receipt # session.receipt /\ gate'[t].set = session'.receipt
         => NewestGate(t)]_vars
=============================================================================
