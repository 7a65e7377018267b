-------------------------- MODULE RecallHostProofs --------------------------
(***************************************************************************)
(* Proofs about RecallHost for any number of Turns, breaks, cards, callers, *)
(* intents and Decisions, and any interruptions: the inductive invariant   *)
(* RecallInv, that every step keeps it, and that no step undoes what was   *)
(* decided.                                                                 *)
(***************************************************************************)
EXTENDS RecallHost, TLAPS

Attempt ==
  [state : AttemptStates, card : BOOLEAN, alive : BOOLEAN, fresh : BOOLEAN,
   intent : Intents \cup {NoIntent}, generation : Generations \cup {NoGeneration},
   plugin : Plugins \cup {0}]

Delivery ==
  [state : DeliveryStates, claim : Callers \cup {Nobody}, alive : BOOLEAN,
   shortlist : SUBSET Decisions, receipt : Sets]

GateStates == {"none", "pending", "committed", "blocked"}
GateIds == {<<>>} \cup (Epochs \X Epochs \X (Generations \cup {NoGeneration}))

Gate ==
  [state : GateStates, id : GateIds, context : Epochs, intent : Epochs,
   generation : Generations \cup {NoGeneration},
   result : Intents \cup {NoIntent}, set : Sets, plugin : Plugins \cup {0}]

(* Steps of a call that is bound to a gate, and of all others.              *)
GateSteps == {"reuse", "preflight", "apply"}
Steps == {"idle", "retrieving", "unknown", "retry", "intent"} \cup GateSteps
Call ==
  [step : Steps, turn : Turns \cup {NoTurn}, gate : GateIds,
   delivery : Turns \cup {NoTurn}, seen : Session]

Item == [decision : Decisions, delivery : Turns, receipt : Sets]

(* Every row has the shape its table declares.                             *)
RowTypes ==
  /\ attempt \in [Turns -> Attempt]
  /\ delivery \in [Turns -> Delivery]
  /\ session \in Session
  /\ active \subseteq Item
  /\ gate \in [Turns -> Gate]
  /\ internal \in BOOLEAN
  /\ call \in [Callers -> Call]
  /\ received \subseteq (Turns \X SUBSET Decisions)

(* ... and so have the ledger and the world.  A bundle is installed once    *)
(* for every upgrade.                                                       *)
WorldTypes ==
  /\ log \in Seq(Event) /\ host \in [Sessions -> Host]
  /\ interrupts \in 0..MaxInterrupts
  /\ plugin \in Nat /\ 1 <= plugin /\ plugin <= interrupts + 1

(* Only what was consented to is delivered, and only what is being prepared *)
(* is claimed.                                                              *)
Consented ==
  \A t \in Turns :
    /\ attempt[t].state # "none" => t <= Now /\ attempt[t].intent \in Intents
    /\ delivery[t].state # "none" => attempt[t].state = "committed"
    /\ delivery[t].claim # Nobody => delivery[t].state = "preparing"

CallsWork ==
  \A c \in Callers :
    call[c].step # "idle" =>
      /\ call[c].turn \in Turns
      /\ call[c].step \notin GateSteps => attempt[call[c].turn].state = "committed"

(* What reached the model is what the delivery froze.                      *)
HandedOut ==
  \A r \in received :
    /\ delivery[r[1]].shortlist = r[2]
    /\ delivery[r[1]].state \notin {"none", "preparing"}

(* One delivery at a time is on its way, and only while the Session is being*)
(* activated, or was blocked meanwhile.                                    *)
LiveStates == {"preparing", "delivery_claimed", "delivery_unknown", "host_delivered"}

OneIsLive ==
  \A t \in Turns :
    delivery[t].state \in LiveStates =>
      /\ session.state \in {"activating", "blocked"}
      /\ \A u \in Turns : delivery[u].state \in LiveStates => u = t

(* An application that is bound is of a shortlist the model has seen and of *)
(* a Turn no older than the open one; while its delivery waits for it, no   *)
(* later Turn is gated.                                                    *)
Applying ==
  \A c \in Callers :
    call[c].step = "apply" =>
      LET t == call[c].turn
          d == call[c].delivery
      IN /\ t \in Turns /\ t <= Now /\ d \in Turns
         /\ <<d, delivery[d].shortlist>> \in received
         /\ \A u \in Turns : OpenTurn(log, Task, u) => u >= t
         /\ delivery[d].state \in LiveStates /\ session.state = "activating" =>
              \A u \in Turns : u > t => gate[u].state # "committed"

(* From its prompt to its end the Turn runs, also while it is compacted.    *)
Running == host[Task].phase \in {"turn", "compacting", "compacted"}

Compacting == host[Task].phase \in {"compacting", "compacted"}

(* The gate of the running Turn is of the epochs of the Session while it is *)
(* pending, or a late application overtook it.                             *)
PendingIsCurrent ==
  Running /\ gate[Now].state = "pending" /\ session.state # "blocked" =>
    /\ gate[Now].context = session.context
    /\ gate[Now].intent = session.intent \/ Overtaken(Now)

(* A Session that never was activated has no gates, and no gate is of an    *)
(* intent epoch that is still to come.                                     *)
Gated ==
  /\ session.state = "none" =>
       session = NoSession /\ \A t \in Turns : gate[t].state = "none"
  /\ session.state # "none" => Now # NoTurn /\ ~internal
  /\ \A t \in Turns :
       gate[t].state # "none" =>
         t <= Now /\ gate[t].intent < t /\ gate[t].intent <= session.intent
  /\ Running => Now # NoTurn
  /\ PendingIsCurrent

(* An intent epoch is a settled Turn, a context epoch is a break that has   *)
(* been restored.                                                           *)
Counted ==
  /\ session.intent <= session.last_gate
  /\ session.last_gate # NoTurn => gate[session.last_gate].state \in {"committed", "blocked"}
  /\ session.context <= host[Task].breaks
  /\ Compacting => session.context < host[Task].breaks

(* What a call that reuses the intent has read is what governs the Session, *)
(* or an epoch behind it, or the Session is about to be given another set. *)
SeenIsCurrent ==
  \A c \in Callers :
    call[c].step = "reuse" =>
      /\ session.state # "none"
      /\ call[c].seen.intent <= session.intent
      /\ call[c].seen.intent = session.intent /\ session.state # "activating" =>
           /\ call[c].seen.active_intent = session.active_intent
           /\ call[c].seen.set = session.set

Receipted ==
  /\ session.state \in {"active", "dormant"} => session.delivery \in Turns
  /\ ActiveSetIsReceipted

(* ToolsFollowTheirGate, also while the Session sleeps and whatever bundle  *)
(* is installed.                                                            *)
GatesFollow ==
  session.state \in {"active", "dormant"} =>
    \A t \in Turns :
      gate[t].state = "committed" /\ OpenTurn(log, Task, t) =>
        gate[t].result = session.active_intent /\ gate[t].set = session.set

RecallInv ==
  /\ RowTypes /\ WorldTypes
  /\ Consented /\ CallsWork /\ HandedOut /\ OneIsLive /\ Applying
  /\ Gated /\ Counted /\ SeenIsCurrent /\ Receipted /\ GatesFollow

(* The body of DecisionsStand.                                             *)
Stands ==
  /\ \A t \in Turns : Settled(t)
  /\ session'.context >= session.context /\ session'.intent >= session.intent

USE RecallAssumption, HookAssumption DEF Turns, NoTurn

-----------------------------------------------------------------------------
(* The ledger and the host.                                                *)

(* A row opens the Turn it is the prompt of, and no other.                  *)
LEMMA OpensOnly ==
  ASSUME NEW rows \in Seq(Event), NEW e \in Event, NEW s, NEW t,
         OpenTurn(Append(rows, e), s, t)
  PROVE  OpenTurn(rows, s, t) \/ (e.name = "UserPromptSubmit" /\ e.turn = t)
  <1> DEFINE longer == Append(rows, e)
  <1>1. /\ Len(rows) \in Nat /\ DOMAIN rows = 1..Len(rows)
        /\ DOMAIN longer = 1..(Len(rows) + 1)
        /\ longer[Len(rows) + 1] = e
        /\ \A i \in 1..Len(rows) : longer[i] = rows[i]
    OBVIOUS
  <1>2. PICK i \in DOMAIN longer :
          /\ longer[i].name = "UserPromptSubmit"
          /\ longer[i].session = s /\ longer[i].turn = t
          /\ \A j \in DOMAIN longer :
               j > i /\ longer[j].session = s =>
                 longer[j].name # "SessionEnd" /\ longer[j].turn \in {NoTurn, t}
    BY DEF OpenTurn
  <1> HIDE DEF longer
  <1>3. CASE i = Len(rows) + 1
    BY <1>1, <1>2, <1>3
  <1>4. CASE i \in 1..Len(rows)
    BY <1>1, <1>2, <1>4 DEF OpenTurn
  <1> QED  BY <1>1, <1>3, <1>4

(* At most one Turn of a Session is open.                                  *)
LEMMA OneTurnIsOpen ==
  ASSUME NEW rows \in Seq(Event), NEW s, NEW t \in Turns, NEW u \in Turns,
         OpenTurn(rows, s, t), OpenTurn(rows, s, u)
  PROVE  t = u
  <1>1. DOMAIN rows \subseteq Nat
    OBVIOUS
  <1>2. PICK i \in DOMAIN rows :
          /\ rows[i].session = s /\ rows[i].turn = t
          /\ \A j \in DOMAIN rows :
               j > i /\ rows[j].session = s => rows[j].turn \in {NoTurn, t}
    BY DEF OpenTurn
  <1>3. PICK k \in DOMAIN rows :
          /\ rows[k].session = s /\ rows[k].turn = u
          /\ \A j \in DOMAIN rows :
               j > k /\ rows[j].session = s => rows[j].turn \in {NoTurn, u}
    BY DEF OpenTurn
  <1> QED  BY <1>1, <1>2, <1>3

(* What a step of the world may do: Turns come one after another, a Turn    *)
(* that goes on was running, a break is counted when it begins, and only   *)
(* the Turn that is prompted is opened.                                     *)
WorldStep ==
  /\ WorldTypes'
  /\ Now' = Now \/ (Now' = Now + 1 /\ host'[Task].phase = "turn")
  /\ Now \in Nat /\ Now' \in Nat /\ Now' <= MaxTurns
  /\ Running' => Now' # NoTurn /\ (Now' = Now => Running)
  /\ host'[Task].breaks >= host[Task].breaks
  /\ Compacting' => Compacting \/ host'[Task].breaks > host[Task].breaks
  /\ \A t \in Turns :
       OpenTurn(log', Task, t) => OpenTurn(log, Task, t) \/ (t = Now' /\ Now' = Now + 1)

LEMMA RecordedTyped ==
  ASSUME WorldTypes, NEW name \in Names, NEW turn \in Turns \cup {NoTurn},
         NEW fact \in Facts, Recorded(name, turn, fact)
  PROVE  /\ log' \in Seq(Event)
         /\ \A t \in Turns :
              OpenTurn(log', Task, t) =>
                OpenTurn(log, Task, t) \/ (name = "UserPromptSubmit" /\ turn = t)
  <1>1. PICK head \in Heads : Record(OfSession(Task, name, turn, fact, head))
    BY DEF Recorded
  <1> DEFINE e == OfSession(Task, name, turn, fact, head)
  <1>2. e \in Event /\ e.name = name /\ e.turn = turn
    BY DEF OfSession, Event
  <1>3. log' = log \/ log' = Append(log, e)
    BY <1>1 DEF Record
  <1>4. log \in Seq(Event)
    BY DEF WorldTypes
  <1> HIDE DEF e
  <1>5. log' \in Seq(Event)
    BY <1>2, <1>3, <1>4
  <1>6. ASSUME NEW t \in Turns, OpenTurn(log', Task, t)
        PROVE  OpenTurn(log, Task, t) \/ (name = "UserPromptSubmit" /\ turn = t)
    <2>1. CASE log' = log
      BY <1>6, <2>1
    <2>2. CASE log' = Append(log, e)
      <3>1. OpenTurn(Append(log, e), Task, t)
        BY <1>6, <2>2
      <3> QED  BY <1>2, <1>4, <3>1, OpensOnly
    <2> QED  BY <1>3, <2>1, <2>2
  <1> QED  BY <1>5, <1>6

LEMMA HostTyped ==
  ASSUME WorldTypes
  PROVE  /\ host[Task] \in Host /\ Now \in Nat /\ Now <= MaxTurns
         /\ host[Task].breaks \in Nat /\ host[Task].breaks <= MaxBreaks
  BY DEF WorldTypes, Host, Now

(* A step that neither ledger nor host see.                                *)
LEMMA WorldRests ==
  ASSUME WorldTypes, Running => Now # NoTurn, UNCHANGED ledgerVars,
         \/ UNCHANGED <<plugin, interrupts>>
         \/ Interrupted /\ plugin' \in {plugin, plugin + 1}
  PROVE  WorldStep
  <1>1. log' = log /\ host' = host
    BY DEF ledgerVars
  <1>2. WorldTypes'
    BY <1>1 DEF WorldTypes, Interrupted
  <1> QED  BY <1>1, <1>2, HostTyped DEF WorldStep, Running, Compacting, Now

(* ... and one in which the host goes on, and its Hook may record a row.    *)
LEMMA WorldMoves ==
  ASSUME WorldTypes, UNCHANGED plugin, UNCHANGED interrupts \/ Interrupted,
         NEW name \in Names, NEW turn \in Turns \cup {NoTurn}, NEW fact \in Facts,
         log' = log \/ Recorded(name, turn, fact),
         host' \in [Sessions -> Host],
         \/ Now' = Now /\ name # "UserPromptSubmit"
         \/ Now' = Now + 1 /\ host'[Task].phase = "turn" /\ turn = Now + 1,
         Running' => Now' # NoTurn /\ (Now' = Now => Running),
         host'[Task].breaks >= host[Task].breaks,
         Compacting' => Compacting \/ host'[Task].breaks > host[Task].breaks
  PROVE  WorldStep
  <1>1. log' \in Seq(Event)
    BY RecordedTyped DEF WorldTypes
  <1>2. WorldTypes'
    BY <1>1 DEF WorldTypes, Interrupted
  <1>3. Now' \in Nat /\ Now' <= MaxTurns
    BY DEF Now, Host
  <1>4. \A t \in Turns :
          OpenTurn(log', Task, t) => OpenTurn(log, Task, t) \/ (t = Now' /\ Now' = Now + 1)
    BY RecordedTyped
  <1> QED  BY <1>2, <1>3, <1>4, HostTyped DEF WorldStep

(* What each action of the host leaves of its Session.                     *)
LEMMA HostWent ==
  ASSUME WorldTypes, NEW from,
         NEW to \in {"idle", "turn", "compacting", "compacted", "ended"},
         HostGoes(Task, from, to)
  PROVE  /\ host' \in [Sessions -> Host] /\ host[Task].phase \in from
         /\ host'[Task].phase = to /\ Now' = Now
         /\ host'[Task].breaks >= host[Task].breaks
  <1>1. host \in [Sessions -> Host] /\ host' = [host EXCEPT ![Task].phase = to]
    BY DEF WorldTypes, HostGoes
  <1>2. host' \in [Sessions -> Host]
    BY <1>1 DEF Host
  <1>3. host'[Task].phase = to /\ Now' = Now /\ host'[Task].breaks = host[Task].breaks
    BY <1>1 DEF Host, Now
  <1> QED  BY <1>2, <1>3, HostTyped DEF HostGoes

LEMMA HostBroke ==
  ASSUME WorldTypes, NEW from,
         NEW to \in {"idle", "compacting", "ended"}, NEW trigger \in Triggers \cup {"none"},
         HostBreaks(Task, from, to, trigger)
  PROVE  /\ host' \in [Sessions -> Host] /\ host[Task].phase \in from
         /\ host'[Task].phase = to /\ Now' = Now
         /\ host'[Task].breaks >= host[Task].breaks
         /\ host'[Task].breaks > host[Task].breaks
         /\ host'[Task].breaks = host[Task].breaks + 1
  <1>1. /\ host \in [Sessions -> Host] /\ host[Task].breaks + 1 \in 0..MaxBreaks
        /\ host' = [host EXCEPT ![Task].phase = to, ![Task].trigger = trigger,
                                ![Task].breaks = host[Task].breaks + 1]
    BY HostTyped DEF WorldTypes, HostBreaks
  <1>2. host' \in [Sessions -> Host]
    BY <1>1 DEF Host
  <1>3. host'[Task].phase = to /\ Now' = Now /\ host'[Task].breaks = host[Task].breaks + 1
    BY <1>1 DEF Host, Now
  <1> QED  BY <1>2, <1>3, HostTyped DEF HostBreaks

LEMMA HostPrompted ==
  ASSUME WorldTypes, HostPrompts(Task)
  PROVE  /\ host' \in [Sessions -> Host] /\ host[Task].phase = "idle"
         /\ host'[Task].phase = "turn" /\ Now' = Now + 1 /\ Now + 1 \in Turns
         /\ host'[Task].breaks >= host[Task].breaks
  <1>1. /\ host \in [Sessions -> Host] /\ Now + 1 \in Turns
        /\ host' = [host EXCEPT ![Task].phase = "turn", ![Task].turn = host[Task].turn + 1]
    BY HostTyped DEF WorldTypes, HostPrompts, Now
  <1>2. host' \in [Sessions -> Host]
    BY <1>1 DEF Host, Now
  <1>3. host'[Task].phase = "turn" /\ Now' = Now + 1 /\ host'[Task].breaks = host[Task].breaks
    BY <1>1 DEF Host, Now
  <1> QED  BY <1>1, <1>2, <1>3, HostTyped DEF HostPrompts

LEMMA HooksMoveTheWorld ==
  ASSUME WorldTypes, Running => Now # NoTurn, Hooks
  PROVE  WorldStep
  <1>1. host[Task].trigger \in Triggers \cup {"none"} /\ Now \in Turns \cup {NoTurn}
    BY HostTyped DEF Host, Now
  <1>2. CASE SessionStarts
    <2>1. HostGoes(Task, {"absent"}, "idle")
      BY <1>2 DEF SessionStarts, HostStarts
    <2>2. /\ host' \in [Sessions -> Host] /\ Now' = Now
          /\ host'[Task].phase = "idle" /\ host[Task].phase \in {"absent"}
          /\ host'[Task].breaks >= host[Task].breaks
      BY <2>1, HostWent
    <2>3. /\ UNCHANGED plugin
          /\ UNCHANGED interrupts \/ Interrupted
          /\ log' = log \/ Recorded("SessionStart", NoTurn, "startup")
      BY <1>2 DEF SessionStarts, recallVars
    <2> QED  BY <1>1, <2>2, <2>3, WorldMoves DEF Running, Compacting, Names, Facts
  <1>3. CASE UserPrompts
    <2>1. /\ HostPrompts(Task) /\ UNCHANGED plugin
          /\ UNCHANGED interrupts \/ Interrupted
          /\ log' = log \/ Recorded("UserPromptSubmit", Now + 1, "none")
      BY <1>3 DEF UserPrompts, Hook
    <2>2. /\ host' \in [Sessions -> Host] /\ host'[Task].phase = "turn"
          /\ Now' = Now + 1 /\ Now + 1 \in Turns /\ Now \in Nat
          /\ host'[Task].breaks >= host[Task].breaks
      BY <2>1, HostTyped, HostPrompted
    <2> QED  BY <2>1, <2>2, WorldMoves DEF Running, Compacting, Names, Facts
  <1>4. CASE TurnStops
    <2>1. HostGoes(Task, {"turn"}, "idle")
      BY <1>4 DEF TurnStops, HostStops
    <2>2. /\ host' \in [Sessions -> Host] /\ Now' = Now
          /\ host'[Task].phase = "idle" /\ host[Task].phase \in {"turn"}
          /\ host'[Task].breaks >= host[Task].breaks
      BY <2>1, HostWent
    <2>3. /\ UNCHANGED plugin
          /\ UNCHANGED interrupts \/ Interrupted
          /\ log' = log \/ Recorded("Stop", Now, "none")
      BY <1>4 DEF TurnStops, recallVars
    <2> QED  BY <1>1, <2>2, <2>3, WorldMoves DEF Running, Compacting, Names, Facts
  <1>5. ASSUME NEW trigger \in Triggers, ContextCompacting(trigger) PROVE WorldStep
    <2>1. HostBreaks(Task, {"turn"}, "compacting", trigger)
      BY <1>5 DEF ContextCompacting, HostCompacts
    <2>2. /\ host' \in [Sessions -> Host] /\ Now' = Now
          /\ host'[Task].phase = "compacting" /\ host[Task].phase \in {"turn"}
          /\ host'[Task].breaks >= host[Task].breaks
          /\ host'[Task].breaks > host[Task].breaks
      BY <1>1, <2>1, HostBroke
    <2>3. /\ UNCHANGED plugin
          /\ UNCHANGED interrupts \/ Interrupted
          /\ log' = log \/ Recorded("PreCompact", Now, trigger)
      BY <1>5 DEF ContextCompacting, RecordedOrLost
    <2> QED  BY <1>1, <2>2, <2>3, WorldMoves DEF Running, Compacting, Names, Facts
  <1>6. CASE ContextCompacted
    <2>1. HostGoes(Task, {"compacting"}, "compacted")
      BY <1>6 DEF ContextCompacted, HostCompacted
    <2>2. /\ host' \in [Sessions -> Host] /\ Now' = Now
          /\ host'[Task].phase = "compacted" /\ host[Task].phase \in {"compacting"}
          /\ host'[Task].breaks >= host[Task].breaks
      BY <2>1, HostWent
    <2>3. /\ UNCHANGED plugin
          /\ UNCHANGED interrupts \/ Interrupted
          /\ log' = log \/ Recorded("PostCompact", Now, host[Task].trigger)
      BY <1>6 DEF ContextCompacted, RecordedOrLost
    <2> QED  BY <1>1, <2>2, <2>3, WorldMoves DEF Running, Compacting, Names, Facts
  <1>7. CASE ContextRestarts
    <2>1. HostGoes(Task, {"compacted"}, "turn")
      BY <1>7 DEF ContextRestarts, HostContinues
    <2>2. /\ host' \in [Sessions -> Host] /\ Now' = Now
          /\ host'[Task].phase = "turn" /\ host[Task].phase \in {"compacted"}
          /\ host'[Task].breaks >= host[Task].breaks
      BY <2>1, HostWent
    <2>3. /\ UNCHANGED plugin
          /\ UNCHANGED interrupts \/ Interrupted
          /\ log' = log \/ Recorded("SessionStart", NoTurn, "compact")
      BY <1>7 DEF ContextRestarts, Hook
    <2> QED  BY <1>1, <2>2, <2>3, WorldMoves DEF Running, Compacting, Names, Facts
  <1>8. CASE ContextClears
    <2>1. HostBreaks(Task, {"idle"}, "idle", host[Task].trigger)
      BY <1>8 DEF ContextClears, HostClears
    <2>2. /\ host' \in [Sessions -> Host] /\ Now' = Now
          /\ host'[Task].phase = "idle" /\ host[Task].phase \in {"idle"}
          /\ host'[Task].breaks >= host[Task].breaks
          /\ host'[Task].breaks > host[Task].breaks
      BY <1>1, <2>1, HostBroke
    <2>3. /\ UNCHANGED plugin
          /\ UNCHANGED interrupts \/ Interrupted
          /\ log' = log \/ Recorded("SessionStart", NoTurn, "clear")
      BY <1>8 DEF ContextClears, Hook
    <2> QED  BY <1>1, <2>2, <2>3, WorldMoves DEF Running, Compacting, Names, Facts
  <1>9. CASE SessionEnds
    <2>1. HostBreaks(Task, {"idle", "turn"}, "ended", host[Task].trigger)
      BY <1>9 DEF SessionEnds, HostEnds
    <2>2. /\ host' \in [Sessions -> Host] /\ Now' = Now
          /\ host'[Task].phase = "ended" /\ host[Task].phase \in {"idle", "turn"}
          /\ host'[Task].breaks >= host[Task].breaks
          /\ host'[Task].breaks > host[Task].breaks
      BY <1>1, <2>1, HostBroke
    <2>3. /\ UNCHANGED plugin
          /\ UNCHANGED interrupts \/ Interrupted
          /\ log' = log \/ Recorded("SessionEnd", NoTurn, "other")
      BY <1>9 DEF SessionEnds, Hook
    <2> QED  BY <1>1, <2>2, <2>3, WorldMoves DEF Running, Compacting, Names, Facts
  <1>10. CASE SessionResumes
    <2>1. HostGoes(Task, {"ended"}, "idle")
      BY <1>10 DEF SessionResumes, HostResumes
    <2>2. /\ host' \in [Sessions -> Host] /\ Now' = Now
          /\ host'[Task].phase = "idle" /\ host[Task].phase \in {"ended"}
          /\ host'[Task].breaks >= host[Task].breaks
      BY <2>1, HostWent
    <2>3. /\ UNCHANGED plugin
          /\ UNCHANGED interrupts \/ Interrupted
          /\ log' = log \/ Recorded("SessionStart", NoTurn, "resume")
      BY <1>10 DEF SessionResumes, Hook
    <2> QED  BY <1>1, <2>2, <2>3, WorldMoves DEF Running, Compacting, Names, Facts
  <1>11. CASE BindInternalThread
    BY <1>11, WorldRests DEF BindInternalThread
  <1> QED
    BY <1>2, <1>3, <1>4, <1>5, <1>6, <1>7, <1>8, <1>9, <1>10, <1>11 DEF Hooks

-----------------------------------------------------------------------------
(* Parts of the invariant that a step leaves alone.                        *)

LEMMA RowsRest ==
  ASSUME RecallInv, WorldStep, UNCHANGED <<attempt, delivery, call, received>>
  PROVE  Consented' /\ CallsWork' /\ HandedOut'
  <1>1. Now \in Nat /\ Now' \in Nat /\ Now <= Now'
    BY DEF WorldStep
  <1>2. Consented'
    BY <1>1 DEF RecallInv, Consented
  <1>3. CallsWork'
    BY DEF RecallInv, CallsWork
  <1>4. HandedOut'
    BY DEF RecallInv, HandedOut
  <1> QED  BY <1>2, <1>3, <1>4

LEMMA FollowRests ==
  ASSUME RecallInv, WorldStep, UNCHANGED session,
         \A t \in Turns : gate'[t].state = "committed" => gate'[t] = gate[t]
  PROVE  GatesFollow'
  <1> SUFFICES ASSUME session.state \in {"active", "dormant"}, NEW t \in Turns,
                      gate'[t].state = "committed", OpenTurn(log', Task, t)
               PROVE  gate'[t].result = session.active_intent /\ gate'[t].set = session.set
    BY DEF GatesFollow
  <1>1. gate[t].state = "committed" /\ gate'[t] = gate[t]
    OBVIOUS
  <1>2. t <= Now /\ Now \in Nat
    BY <1>1 DEF RecallInv, Gated, WorldStep
  <1>3. OpenTurn(log, Task, t)
    BY <1>2 DEF WorldStep
  <1> QED  BY <1>1, <1>3 DEF RecallInv, GatesFollow

(* The pending gate of the running Turn stays, and what overtook it.        *)
LEMMA PendingRests ==
  ASSUME RecallInv, WorldStep,
         session'.context = session.context, session'.intent = session.intent,
         session'.delivery = session.delivery, session'.receipt = session.receipt,
         session.state = "blocked" => session'.state = "blocked",
         \A u \in Turns :
           /\ gate'[u].state = "pending" =>
                /\ gate[u].state = "pending"
                /\ gate'[u].context = gate[u].context /\ gate'[u].intent = gate[u].intent
           /\ gate[u].state = "committed" =>
                gate'[u].state = "committed" /\ gate'[u].set = gate[u].set
  PROVE  PendingIsCurrent'
  <1> SUFFICES ASSUME Running', gate'[Now'].state = "pending", session'.state # "blocked"
               PROVE  /\ gate'[Now'].context = session'.context
                      /\ gate'[Now'].intent = session'.intent \/ Overtaken(Now)'
    BY DEF PendingIsCurrent
  <1>1. PICK n \in Turns : n = Now'
    BY DEF WorldStep
  <1>2. /\ gate[n].state = "pending"
        /\ gate'[n].context = gate[n].context /\ gate'[n].intent = gate[n].intent
    BY <1>1
  <1>3. n = Now /\ Running
    BY <1>1, <1>2 DEF WorldStep, RecallInv, Gated
  <1>4. gate[n].context = session.context /\ (gate[n].intent = session.intent \/ Overtaken(n))
    BY <1>2, <1>3 DEF RecallInv, Gated, PendingIsCurrent
  <1>5. ASSUME Overtaken(n) PROVE Overtaken(n)'
    BY <1>2, <1>5 DEF Overtaken
  <1> QED  BY <1>1, <1>2, <1>4, <1>5 DEF Overtaken

LEMMA GatesRest ==
  ASSUME RecallInv, WorldStep, UNCHANGED <<session, gate, internal>>
  PROVE  Gated' /\ Counted' /\ GatesFollow'
  <1>1. Now \in Nat /\ Now' \in Nat /\ (Now' = Now \/ Now' = Now + 1) /\ Now' <= MaxTurns
    BY DEF WorldStep
  <1>2. \A t \in Turns : gate[t].state # "none" => t <= Now
    BY DEF RecallInv, Gated
  <1>3. Running' => Now' # NoTurn
    BY DEF WorldStep
  <1>4. PendingIsCurrent'
    BY PendingRests
  <1>5. Gated'
    BY <1>1, <1>2, <1>3, <1>4 DEF RecallInv, Gated
  <1>6. /\ session.context \in Nat /\ host[Task].breaks \in Nat
        /\ host'[Task].breaks \in Nat
    BY HostTyped DEF RecallInv, RowTypes, Session, Epochs, WorldStep, WorldTypes, Host
  <1>7. Counted'
    BY <1>6 DEF RecallInv, Counted, WorldStep
  <1> QED  BY <1>5, <1>7, FollowRests

LEMMA SeenRests ==
  ASSUME RecallInv, UNCHANGED session,
         \A c \in Callers : call'[c].step = "reuse" => call'[c] = call[c]
  PROVE  SeenIsCurrent'
  BY DEF RecallInv, SeenIsCurrent

(* A delivery that was applied, or that a conflict blocked, stays as it is. *)
Frozen ==
  \A t \in Turns :
    delivery[t].state \in {"application_committed", "blocked"} => delivery'[t] = delivery[t]

DecidedStay ==
  \A t \in Turns :
    attempt[t].state \in {"declined", "cancelled", "failed", "committed"} =>
      attempt'[t].state = attempt[t].state /\ attempt'[t].intent = attempt[t].intent

LEMMA ReceiptRests ==
  ASSUME RecallInv, UNCHANGED <<session, active>>, received \subseteq received', Frozen
  PROVE  Receipted'
  BY DEF RecallInv, Receipted, ActiveSetIsReceipted, Frozen

(* No delivery sets out again, and calls bound to a gate are not changed.   *)
LiveRest ==
  \A t \in Turns : delivery'[t].state \in LiveStates => delivery[t].state \in LiveStates

BoundRest == \A c \in Callers : call'[c].step \in GateSteps => call'[c] = call[c]

LEMMA LiveRests ==
  ASSUME RecallInv, LiveRest, session.state \in {"activating", "blocked"} =>
           session'.state \in {"activating", "blocked"}
  PROVE  OneIsLive'
  BY DEF RecallInv, OneIsLive, LiveRest

(* What keeps a bound application as it was bound: a delivery that was      *)
(* applied is not live again, a blocked Session is not activated, and no    *)
(* gate is committed while the Session is being activated.                 *)
LEMMA ApplyingRests ==
  ASSUME RecallInv, WorldStep, received \subseteq received', HandedOut',
         \A c \in Callers : call'[c].step = "apply" => call'[c] = call[c],
         \A t \in Turns :
           delivery[t].state # "none" /\ delivery'[t].state \in LiveStates =>
             delivery[t].state \in LiveStates,
         session.state = "blocked" => session'.state # "activating",
         \A t \in Turns :
           gate'[t].state = "committed" =>
             gate[t].state = "committed" \/ session'.state # "activating"
  PROVE  Applying'
  <1> SUFFICES ASSUME NEW c \in Callers, call'[c].step = "apply"
               PROVE  LET t == call'[c].turn
                          d == call'[c].delivery
                      IN /\ t \in Turns /\ t <= Now' /\ d \in Turns
                         /\ <<d, delivery'[d].shortlist>> \in received'
                         /\ \A u \in Turns : OpenTurn(log', Task, u) => u >= t
                         /\ delivery'[d].state \in LiveStates /\ session'.state = "activating" =>
                              \A u \in Turns : u > t => gate'[u].state # "committed"
    BY DEF Applying
  <1>1. PICK t \in Turns, d \in Turns : t = call[c].turn /\ d = call[c].delivery
    BY DEF RecallInv, Applying
  <1>2. call'[c].turn = t /\ call'[c].delivery = d /\ call[c].step = "apply"
    BY <1>1
  <1>3. /\ t <= Now
        /\ <<d, delivery[d].shortlist>> \in received
        /\ \A u \in Turns : OpenTurn(log, Task, u) => u >= t
        /\ delivery[d].state \in LiveStates /\ session.state = "activating" =>
             \A u \in Turns : u > t => gate[u].state # "committed"
    BY <1>1, <1>2 DEF RecallInv, Applying
  <1>4. t <= Now' /\ \A u \in Turns : OpenTurn(log', Task, u) => u >= t
    BY <1>3 DEF WorldStep
  <1>5. delivery[d].state # "none"
    BY <1>3 DEF RecallInv, HandedOut
  <1>6. <<d, delivery'[d].shortlist>> \in received'
    BY <1>3 DEF HandedOut
  <1>7. ASSUME delivery'[d].state \in LiveStates, session'.state = "activating"
        PROVE  \A u \in Turns : u > t => gate'[u].state # "committed"
    <2>1. delivery[d].state \in LiveStates
      BY <1>5, <1>7
    <2>2. session.state = "activating"
      BY <1>7, <2>1 DEF RecallInv, OneIsLive
    <2> QED  BY <1>3, <1>7, <2>1, <2>2
  <1> QED  BY <1>2, <1>4, <1>6, <1>7

(* A step of cards, deliveries and calls.                                  *)
LEMMA SessionRests ==
  ASSUME RecallInv, WorldStep, UNCHANGED <<session, active, gate, internal>>,
         RowTypes', Consented', CallsWork', HandedOut',
         received \subseteq received', Frozen, DecidedStay, LiveRest, BoundRest
  PROVE  RecallInv' /\ Stands
  <1>1. session.context \in Nat /\ session.intent \in Nat
    BY DEF RecallInv, RowTypes, Session, Epochs
  <1>2. Stands
    BY <1>1 DEF Stands, Settled, Frozen, DecidedStay
  <1>3. WorldTypes'
    BY DEF WorldStep
  <1>4. SeenIsCurrent'
    BY SeenRests DEF BoundRest, GateSteps
  <1>5. OneIsLive' /\ Applying'
    BY LiveRests, ApplyingRests DEF LiveRest, BoundRest, GateSteps
  <1> QED
    BY <1>2, <1>3, <1>4, <1>5, GatesRest, ReceiptRests DEF RecallInv

(* A step of the world that changes no row.                                *)
LEMMA StoreRests ==
  ASSUME RecallInv, WorldStep, UNCHANGED <<storeVars, call, received>>
  PROVE  RecallInv' /\ Stands
  <1>1. Frozen /\ DecidedStay /\ LiveRest /\ BoundRest
    BY DEF Frozen, DecidedStay, LiveRest, BoundRest, storeVars
  <1>2. RowTypes'
    BY DEF RecallInv, RowTypes, storeVars
  <1> QED  BY <1>1, <1>2, RowsRest, SessionRests DEF storeVars

(* A step that changes cards only.                                         *)
LEMMA CardsMove ==
  ASSUME RecallInv, WorldStep,
         UNCHANGED <<delivery, session, active, gate, internal, call, received>>,
         attempt' \in [Turns -> Attempt], DecidedStay,
         \A t \in Turns : attempt'[t].state # "none" =>
           t <= Now' /\ attempt'[t].intent \in Intents
  PROVE  RecallInv' /\ Stands
  <1>1. RowTypes'
    BY DEF RecallInv, RowTypes
  <1>2. Consented'
    BY DEF RecallInv, Consented, DecidedStay
  <1>3. CallsWork'
    BY DEF RecallInv, CallsWork, DecidedStay
  <1>4. HandedOut'
    BY DEF RecallInv, HandedOut
  <1>5. Frozen /\ LiveRest /\ BoundRest
    BY DEF Frozen, LiveRest, BoundRest
  <1> QED  BY <1>1, <1>2, <1>3, <1>4, <1>5, SessionRests

(* How a delivery that nobody applies goes on: it is prepared once, and     *)
(* what was prepared stays.                                                *)
DeliveriesAdvance ==
  \A t \in Turns :
    /\ delivery'[t].state # "none" => delivery[t].state # "none"
    /\ delivery'[t].claim # Nobody => delivery'[t].state = "preparing"
    /\ delivery[t].state \notin {"none", "preparing"} =>
         /\ delivery'[t].state \notin {"none", "preparing"}
         /\ delivery'[t].shortlist = delivery[t].shortlist

(* Calls end, or go on with a delivery that was consented to.              *)
CallsGoOn ==
  \A c \in Callers :
    call'[c] = call[c] \/
    (/\ call'[c].step \notin GateSteps
     /\ call'[c].step # "idle" =>
          call'[c].turn \in Turns /\ attempt[call'[c].turn].state = "committed")

LEMMA DeliveriesMove ==
  ASSUME RecallInv, WorldStep, UNCHANGED <<attempt, session, active, gate, internal>>,
         delivery' \in [Turns -> Delivery], call' \in [Callers -> Call],
         DeliveriesAdvance, Frozen, CallsGoOn,
         received \subseteq received', received' \subseteq Turns \X SUBSET Decisions,
         \A r \in received' : r \in received \/
           (/\ delivery'[r[1]].shortlist = r[2]
            /\ delivery'[r[1]].state \notin {"none", "preparing"})
  PROVE  RecallInv' /\ Stands
  <1>1. RowTypes'
    BY DEF RecallInv, RowTypes
  <1>2. Consented'
    <2>1. Now \in Nat /\ Now' \in Nat /\ Now <= Now'
      BY DEF WorldStep
    <2> QED  BY <2>1 DEF RecallInv, Consented, DeliveriesAdvance
  <1>3. CallsWork'
    BY DEF RecallInv, CallsWork, CallsGoOn
  <1>4. HandedOut'
    <2>1. \A r \in received : r[1] \in Turns
      BY DEF RecallInv, RowTypes
    <2> QED  BY <2>1 DEF RecallInv, HandedOut, DeliveriesAdvance
  <1>5. DecidedStay
    BY DEF DecidedStay
  <1>6. BoundRest
    BY DEF CallsGoOn, BoundRest
  <1>7. LiveRest
    BY DEF DeliveriesAdvance, Frozen, LiveRest, LiveStates, RecallInv, RowTypes, Delivery,
           DeliveryStates
  <1> QED  BY <1>1, <1>2, <1>3, <1>4, <1>5, <1>6, <1>7, SessionRests

LEMMA NoSessionTyped == NoSession \in Session /\ NoSet \in Sets
  BY DEF NoSession, Session, Sets, Epochs

LEMMA IdleTyped == Idle \in Call /\ Idle.step = "idle"
  BY NoSessionTyped DEF Idle, Call, Steps, GateIds, NoGate

LEMMA Returned ==
  ASSUME call \in [Callers -> Call], NEW c \in Callers, Return(c)
  PROVE  call' \in [Callers -> Call] /\ CallsGoOn
  BY IdleTyped DEF Return, CallsGoOn, GateSteps

LEMMA Called ==
  ASSUME call \in [Callers -> Call], NEW c \in Callers,
         NEW t \in Turns, attempt[t].state = "committed",
         NEW step \in Steps \ GateSteps,
         call' = [call EXCEPT ![c] = [Idle EXCEPT !.step = step, !.turn = t]]
  PROVE  call' \in [Callers -> Call] /\ CallsGoOn
  <1> DEFINE new == [Idle EXCEPT !.step = step, !.turn = t]
  <1>1. new \in Call /\ new.step = step /\ new.turn = t
    BY IdleTyped DEF Idle, Call
  <1>2. call' = [call EXCEPT ![c] = new]
    OBVIOUS
  <1> HIDE DEF new
  <1> QED  BY <1>1, <1>2 DEF CallsGoOn

(* Only the delivery of t changes.                                         *)
LEMMA OneAdvances ==
  ASSUME RecallInv, NEW t \in Turns, delivery' \in [Turns -> Delivery],
         \A u \in Turns : u # t => delivery'[u] = delivery[u],
         delivery[t].state \notin {"none", "application_committed", "blocked"},
         delivery'[t].claim # Nobody => delivery'[t].state = "preparing",
         delivery[t].state # "preparing" =>
           /\ delivery'[t].state \notin {"none", "preparing"}
           /\ delivery'[t].shortlist = delivery[t].shortlist
  PROVE  DeliveriesAdvance /\ Frozen
  <1>1. DeliveriesAdvance
    BY DEF DeliveriesAdvance, RecallInv, Consented
  <1> QED  BY <1>1 DEF Frozen

(* An answer hands out what is in the row.                                 *)
LEMMA Answered ==
  ASSUME RecallInv, NEW t \in Turns, NEW shortlist \in SUBSET Decisions,
         Answers(t, shortlist), UNCHANGED <<ledgerVars, plugin>>
  PROVE  /\ WorldStep
         /\ received \subseteq received' /\ received' \subseteq Turns \X SUBSET Decisions
         /\ received' \subseteq received \cup {<<t, shortlist>>}
  <1>1. WorldStep
    BY WorldRests DEF RecallInv, Gated, Answers
  <1>2. received \subseteq Turns \X SUBSET Decisions
    BY DEF RecallInv, RowTypes
  <1> QED  BY <1>1, <1>2 DEF Answers

-----------------------------------------------------------------------------
(* The actions of the card and of the calls that retrieve.                 *)

(* A step that only changes rows of the Session leaves the world at rest.  *)
LEMMA Rests ==
  ASSUME RecallInv, UNCHANGED <<ledgerVars, plugin, interrupts>>
  PROVE  WorldStep
  BY WorldRests DEF RecallInv, Gated

LEMMA CreateStep ==
  ASSUME RecallInv, NEW i \in Intents, NEW g \in Generations, CreateActivationAttempt(i, g)
  PROVE  RecallInv' /\ Stands
  <1> DEFINE new == [state |-> "pending_confirmation", card |-> FALSE, alive |-> TRUE,
                     fresh |-> TRUE, intent |-> i, generation |-> g, plugin |-> plugin]
  <1>1. /\ Now \in Turns /\ attempt[Now].state = "none"
        /\ attempt' = [attempt EXCEPT ![Now] = new]
        /\ UNCHANGED <<ledgerVars, delivery, session, active, gate, internal, call,
                       plugin, received, interrupts>>
    BY HostTyped DEF CreateActivationAttempt, HookBinds, Trusted, InTurn, RecallInv, Gated, Running
  <1>2. plugin \in Plugins
    BY DEF RecallInv, WorldTypes, Plugins
  <1>3. new \in Attempt /\ new.intent = i
    BY <1>2 DEF Attempt, AttemptStates
  <1>4. attempt \in [Turns -> Attempt] /\ Now' = Now
    BY <1>1 DEF RecallInv, RowTypes, ledgerVars, Now
  <1> HIDE DEF new
  <1>5. DecidedStay
    BY <1>1, <1>4 DEF DecidedStay
  <1>6. \A t \in Turns : attempt'[t].state # "none" =>
           t <= Now' /\ attempt'[t].intent \in Intents
    BY <1>1, <1>3, <1>4 DEF RecallInv, Consented
  <1>7. attempt' \in [Turns -> Attempt]
    BY <1>1, <1>3, <1>4
  <1> QED  BY <1>1, <1>5, <1>6, <1>7, CardsMove, Rests

(* The card of t changes, but not what it is about.                        *)
LEMMA OneCardMoves ==
  ASSUME RecallInv, NEW t \in Turns,
         attempt' = [u \in Turns |-> attempt'[u]],
         \A u \in Turns : u # t => attempt'[u] = attempt[u],
         attempt'[t] \in Attempt, attempt'[t].intent = attempt[t].intent,
         attempt[t].state # "none",
         attempt[t].state = "pending_confirmation" \/ attempt'[t].state = attempt[t].state,
         UNCHANGED <<ledgerVars, delivery, session, active, gate, internal, call,
                     plugin, received, interrupts>>
  PROVE  RecallInv' /\ Stands
  <1>1. attempt \in [Turns -> Attempt] /\ Now' = Now
    BY DEF RecallInv, RowTypes, ledgerVars, Now
  <1>2. attempt' \in [Turns -> Attempt]
    BY <1>1
  <1>3. DecidedStay
    BY DEF DecidedStay
  <1>4. \A u \in Turns : attempt'[u].state # "none" =>
           u <= Now' /\ attempt'[u].intent \in Intents
    BY <1>1 DEF RecallInv, Consented
  <1> QED  BY <1>2, <1>3, <1>4, CardsMove, Rests

LEMMA CardSteps ==
  ASSUME RecallInv, NEW t \in Turns,
         AttachActivationCard(t) \/ Decline(t) \/ ExpireCard(t) \/ ExpirePreflight(t)
  PROVE  RecallInv' /\ Stands
  <1>1. attempt \in [Turns -> Attempt] /\ attempt[t] \in Attempt
    BY DEF RecallInv, RowTypes
  <1>2. /\ attempt[t].state \in AttemptStates /\ attempt[t].card \in BOOLEAN
        /\ attempt[t].alive \in BOOLEAN /\ attempt[t].fresh \in BOOLEAN
    BY <1>1 DEF Attempt
  <1>3. CASE AttachActivationCard(t)
    <2>1. attempt' = [attempt EXCEPT ![t].card = TRUE]
      BY <1>3 DEF AttachActivationCard
    <2>2. attempt'[t] =
            [state |-> attempt[t].state, card |-> TRUE, alive |-> attempt[t].alive,
             fresh |-> attempt[t].fresh, intent |-> attempt[t].intent,
             generation |-> attempt[t].generation, plugin |-> attempt[t].plugin]
      BY <1>1, <2>1 DEF Attempt
    <2>3. attempt'[t] \in Attempt
      BY <1>1, <1>2, <2>1, <2>2 DEF Attempt
    <2>4. \A u \in Turns : u # t => attempt'[u] = attempt[u]
      BY <1>1, <2>1
    <2>5. attempt' = [u \in Turns |-> attempt'[u]]
      BY <1>1, <2>1
    <2>6. /\ attempt[t].state = "pending_confirmation"
          /\ UNCHANGED <<ledgerVars, delivery, session, active, gate, internal, call,
                         plugin, received, interrupts>>
      BY <1>3 DEF AttachActivationCard
    <2>7. /\ attempt'[t].intent = attempt[t].intent
          /\ attempt'[t].state = attempt[t].state
      BY <2>2
    <2> QED  BY <2>3, <2>4, <2>5, <2>6, <2>7, OneCardMoves
  <1>4. CASE Decline(t)
    <2> DEFINE state == DeclinedOrFailed(t)
    <2>1. attempt' = [attempt EXCEPT ![t].state = state] /\ state \in AttemptStates
      BY <1>4 DEF Decline, DeclinedOrFailed, AttemptStates
    <2> HIDE DEF state
    <2>2. attempt'[t] =
            [state |-> state, card |-> attempt[t].card, alive |-> attempt[t].alive,
             fresh |-> attempt[t].fresh, intent |-> attempt[t].intent,
             generation |-> attempt[t].generation, plugin |-> attempt[t].plugin]
      BY <1>1, <2>1 DEF Attempt
    <2>3. attempt'[t] \in Attempt
      BY <1>1, <1>2, <2>1, <2>2 DEF Attempt
    <2>4. \A u \in Turns : u # t => attempt'[u] = attempt[u]
      BY <1>1, <2>1
    <2>5. attempt' = [u \in Turns |-> attempt'[u]]
      BY <1>1, <2>1
    <2>6. /\ attempt[t].state = "pending_confirmation"
          /\ UNCHANGED <<ledgerVars, delivery, session, active, gate, internal, call,
                         plugin, received, interrupts>>
      BY <1>4 DEF Decline
    <2>7. /\ attempt'[t].intent = attempt[t].intent
      BY <2>2
    <2> QED  BY <2>3, <2>4, <2>5, <2>6, <2>7, OneCardMoves
  <1>5. CASE ExpireCard(t)
    <2>1. attempt' = [attempt EXCEPT ![t].alive = FALSE]
      BY <1>5 DEF ExpireCard
    <2>2. attempt'[t] =
            [state |-> attempt[t].state, card |-> attempt[t].card, alive |-> FALSE,
             fresh |-> attempt[t].fresh, intent |-> attempt[t].intent,
             generation |-> attempt[t].generation, plugin |-> attempt[t].plugin]
      BY <1>1, <2>1 DEF Attempt
    <2>3. attempt'[t] \in Attempt
      BY <1>1, <1>2, <2>1, <2>2 DEF Attempt
    <2>4. \A u \in Turns : u # t => attempt'[u] = attempt[u]
      BY <1>1, <2>1
    <2>5. attempt' = [u \in Turns |-> attempt'[u]]
      BY <1>1, <2>1
    <2>6. /\ attempt[t].state = "pending_confirmation"
          /\ UNCHANGED <<ledgerVars, delivery, session, active, gate, internal, call,
                         plugin, received, interrupts>>
      BY <1>5 DEF ExpireCard
    <2>7. /\ attempt'[t].intent = attempt[t].intent
          /\ attempt'[t].state = attempt[t].state
      BY <2>2
    <2> QED  BY <2>3, <2>4, <2>5, <2>6, <2>7, OneCardMoves
  <1>6. CASE ExpirePreflight(t)
    <2>1. attempt' = [attempt EXCEPT ![t].fresh = FALSE]
      BY <1>6 DEF ExpirePreflight
    <2>2. attempt'[t] =
            [state |-> attempt[t].state, card |-> attempt[t].card,
             alive |-> attempt[t].alive, fresh |-> FALSE, intent |-> attempt[t].intent,
             generation |-> attempt[t].generation, plugin |-> attempt[t].plugin]
      BY <1>1, <2>1 DEF Attempt
    <2>3. attempt'[t] \in Attempt
      BY <1>1, <1>2, <2>1, <2>2 DEF Attempt
    <2>4. \A u \in Turns : u # t => attempt'[u] = attempt[u]
      BY <1>1, <2>1
    <2>5. attempt' = [u \in Turns |-> attempt'[u]]
      BY <1>1, <2>1
    <2>6. /\ attempt[t].state # "none"
          /\ UNCHANGED <<ledgerVars, delivery, session, active, gate, internal, call,
                         plugin, received, interrupts>>
      BY <1>6 DEF ExpirePreflight
    <2>7. /\ attempt'[t].intent = attempt[t].intent
          /\ attempt'[t].state = attempt[t].state
      BY <2>2
    <2> QED  BY <2>3, <2>4, <2>5, <2>6, <2>7, OneCardMoves
  <1> QED  BY <1>3, <1>4, <1>5, <1>6

LEMMA TakeOverStep ==
  ASSUME RecallInv, NEW c \in Callers, NEW t \in Turns, TakeOver(c, t)
  PROVE  RecallInv' /\ Stands
  <1>1. /\ attempt[t].state = "committed" /\ delivery[t].state = "preparing"
        /\ delivery' = [delivery EXCEPT ![t].claim = c, ![t].alive = TRUE]
        /\ call' = [call EXCEPT ![c] = [Idle EXCEPT !.step = "retrieving", !.turn = t]]
        /\ UNCHANGED <<ledgerVars, attempt, session, active, gate, internal,
                       plugin, received, interrupts>>
    BY DEF TakeOver
  <1>2. delivery \in [Turns -> Delivery] /\ call \in [Callers -> Call]
    BY DEF RecallInv, RowTypes
  <1>3. delivery' \in [Turns -> Delivery]
    <2>1. delivery'[t] = [state |-> "preparing", claim |-> c, alive |-> TRUE,
            shortlist |-> delivery[t].shortlist, receipt |-> delivery[t].receipt]
      BY <1>1, <1>2 DEF Delivery
    <2>2. delivery'[t] \in Delivery
      BY <1>2, <2>1 DEF Delivery, DeliveryStates
    <2> QED  BY <1>1, <1>2, <2>2
  <1>4. /\ \A u \in Turns : u # t => delivery'[u] = delivery[u]
        /\ delivery'[t].state = "preparing"
    BY <1>1, <1>2 DEF Delivery
  <1>5. DeliveriesAdvance /\ Frozen
    BY <1>1, <1>3, <1>4, OneAdvances
  <1>6. call' \in [Callers -> Call] /\ CallsGoOn
    BY <1>1, <1>2, Called DEF Steps, GateSteps
  <1>7. received \subseteq received' /\ received' \subseteq Turns \X SUBSET Decisions
    BY <1>1 DEF RecallInv, RowTypes
  <1>8. WorldStep
    BY <1>1, Rests
  <1> QED  BY <1>1, <1>3, <1>5, <1>6, <1>7, <1>8, DeliveriesMove

LEMMA EnableAgainStep ==
  ASSUME RecallInv, NEW c \in Callers, NEW t \in Turns, EnableAgain(c, t)
  PROVE  RecallInv' /\ Stands
  <1> DEFINE step == IF delivery[t].state = "delivery_unknown" THEN "retry" ELSE "unknown"
  <1>1. /\ attempt[t].state = "committed" /\ step \in Steps \ GateSteps
        /\ call' = [call EXCEPT ![c] = [Idle EXCEPT !.turn = t, !.step = step]]
        /\ UNCHANGED <<ledgerVars, attempt, delivery, session, active, gate, internal,
                       plugin, received, interrupts>>
    BY DEF EnableAgain, storeVars, Steps, GateSteps
  <1> HIDE DEF step
  <1>2. [Idle EXCEPT !.turn = t, !.step = step] = [Idle EXCEPT !.step = step, !.turn = t]
    BY DEF Idle
  <1>3. call' \in [Callers -> Call] /\ CallsGoOn
    BY <1>1, <1>2, Called DEF RecallInv, RowTypes
  <1>4. /\ delivery' \in [Turns -> Delivery]
        /\ received \subseteq received' /\ received' \subseteq Turns \X SUBSET Decisions
    BY <1>1 DEF RecallInv, RowTypes
  <1>5. DeliveriesAdvance /\ Frozen
    BY <1>1 DEF DeliveriesAdvance, Frozen, RecallInv, Consented
  <1>6. WorldStep
    BY <1>1, Rests
  <1> QED  BY <1>1, <1>3, <1>4, <1>5, <1>6, DeliveriesMove

(* What retrieval yields is made of Decisions.                             *)
LEMMA RetrievedTyped ==
  ASSUME RecallInv, NEW c \in Callers, NEW shortlist \in Retrieved(c)
  PROVE  shortlist \in SUBSET Decisions
  <1>1. call[c].step \in {"retrieving", "intent"} /\ shortlist \in Shortlists[attempt[call[c].turn].intent]
    BY DEF Retrieved
  <1>2. call[c].turn \in Turns /\ attempt[call[c].turn].state = "committed"
    BY <1>1 DEF RecallInv, CallsWork, GateSteps
  <1>3. attempt[call[c].turn].intent \in Intents
    BY <1>2 DEF RecallInv, Consented
  <1> QED  BY <1>1, <1>3 DEF Decisions

LEMMA CommitStep ==
  ASSUME RecallInv, NEW c \in Callers, NEW shortlist \in Retrieved(c),
         \/ CommitPreparedDelivery(c, call[c].turn, shortlist)
         \/ CommitIntentDelivery(c, call[c].turn, shortlist)
  PROVE  RecallInv' /\ Stands
  <1> DEFINE t == call[c].turn
  <1>1. /\ call[c].step # "idle" /\ OwnsClaim(c, t) /\ Return(c) /\ Answers(t, shortlist)
        /\ UNCHANGED <<ledgerVars, attempt, session, active, gate, internal, plugin>>
        /\ \/ delivery' = [delivery EXCEPT ![t].state = "delivery_claimed",
                              ![t].claim = Nobody, ![t].shortlist = shortlist]
           \/ delivery' = [delivery EXCEPT ![t].state = "host_delivered",
                              ![t].claim = Nobody, ![t].alive = FALSE,
                              ![t].shortlist = shortlist]
    BY DEF CommitPreparedDelivery, CommitIntentDelivery
  <1>2. t \in Turns /\ shortlist \in SUBSET Decisions
    BY <1>1, RetrievedTyped DEF RecallInv, CallsWork
  <1>3. delivery \in [Turns -> Delivery] /\ call \in [Callers -> Call]
    BY DEF RecallInv, RowTypes
  <1> HIDE DEF t
  <1>4. /\ delivery' \in [Turns -> Delivery]
        /\ \A u \in Turns : u # t => delivery'[u] = delivery[u]
        /\ delivery'[t].state \in {"delivery_claimed", "host_delivered"}
        /\ delivery'[t].claim = Nobody /\ delivery'[t].shortlist = shortlist
    <2>1. delivery[t] \in Delivery
      BY <1>2, <1>3
    <2>2. delivery[t].alive \in BOOLEAN /\ delivery[t].receipt \in Sets
      BY <2>1 DEF Delivery
    <2>3. CASE delivery' = [delivery EXCEPT ![t].state = "delivery_claimed",
                              ![t].claim = Nobody, ![t].shortlist = shortlist]
      <3>1. delivery'[t] = [state |-> "delivery_claimed", claim |-> Nobody,
               alive |-> delivery[t].alive, shortlist |-> shortlist,
               receipt |-> delivery[t].receipt]
        BY <1>2, <1>3, <2>1, <2>3 DEF Delivery
      <3>2. delivery'[t] \in Delivery
        BY <1>2, <2>2, <3>1 DEF Delivery, DeliveryStates
      <3> QED  BY <1>2, <1>3, <2>3, <3>1, <3>2
    <2>4. CASE delivery' = [delivery EXCEPT ![t].state = "host_delivered",
                              ![t].claim = Nobody, ![t].alive = FALSE,
                              ![t].shortlist = shortlist]
      <3>1. delivery'[t] = [state |-> "host_delivered", claim |-> Nobody,
               alive |-> FALSE, shortlist |-> shortlist, receipt |-> delivery[t].receipt]
        BY <1>2, <1>3, <2>1, <2>4 DEF Delivery
      <3>2. delivery'[t] \in Delivery
        BY <1>2, <2>2, <3>1 DEF Delivery, DeliveryStates
      <3> QED  BY <1>2, <1>3, <2>4, <3>1, <3>2
    <2> QED  BY <1>1, <2>3, <2>4
  <1>5. DeliveriesAdvance /\ Frozen
    BY <1>1, <1>2, <1>4, OneAdvances DEF OwnsClaim
  <1>6. call' \in [Callers -> Call] /\ CallsGoOn
    BY <1>1, <1>3, Returned
  <1>7. /\ WorldStep
        /\ received \subseteq received' /\ received' \subseteq Turns \X SUBSET Decisions
        /\ received' \subseteq received \cup {<<t, shortlist>>}
    BY <1>1, <1>2, Answered
  <1>8. \A r \in received' : r \in received \/
           (/\ delivery'[r[1]].shortlist = r[2]
            /\ delivery'[r[1]].state \notin {"none", "preparing"})
    BY <1>4, <1>7
  <1> QED  BY <1>1, <1>4, <1>5, <1>6, <1>7, <1>8, DeliveriesMove

(* The delivery of t goes on, and may be handed out.                       *)
LEMMA OneDeliveryMoves ==
  ASSUME RecallInv, WorldStep, NEW t \in Turns,
         delivery' = [u \in Turns |-> delivery'[u]], delivery'[t] \in Delivery,
         \A u \in Turns : u # t => delivery'[u] = delivery[u],
         delivery[t].state \notin {"none", "application_committed", "blocked"},
         delivery'[t].claim # Nobody => delivery'[t].state = "preparing",
         delivery[t].state # "preparing" =>
           /\ delivery'[t].state \notin {"none", "preparing"}
           /\ delivery'[t].shortlist = delivery[t].shortlist,
         UNCHANGED <<attempt, session, active, gate, internal>>,
         call' \in [Callers -> Call], CallsGoOn,
         received \subseteq received',
         received' \subseteq received \cup {<<t, delivery'[t].shortlist>>},
         received' = received \/ delivery'[t].state \notin {"none", "preparing"}
  PROVE  RecallInv' /\ Stands
  <1>1. delivery \in [Turns -> Delivery] /\ received \subseteq Turns \X SUBSET Decisions
    BY DEF RecallInv, RowTypes
  <1>2. delivery' \in [Turns -> Delivery]
    BY <1>1
  <1>3. received' \subseteq Turns \X SUBSET Decisions
    BY <1>1 DEF Delivery
  <1>4. \A r \in received' : r \in received \/
           (/\ delivery'[r[1]].shortlist = r[2]
            /\ delivery'[r[1]].state \notin {"none", "preparing"})
    OBVIOUS
  <1>5. DeliveriesAdvance /\ Frozen
    BY <1>2, OneAdvances
  <1> QED  BY <1>2, <1>3, <1>4, <1>5, DeliveriesMove

(* A delivery that was handed out, or whose answer was lost, changes state. *)
LEMMA HandedOutMoves ==
  ASSUME RecallInv, NEW t \in Turns, NEW state \in DeliveryStates \ {"none", "preparing"},
         NEW alive \in BOOLEAN,
         delivery[t].state \in {"delivery_claimed", "delivery_unknown"},
         delivery' = [delivery EXCEPT ![t].state = state]
           \/ delivery' = [delivery EXCEPT ![t].state = state, ![t].alive = alive]
  PROVE  /\ delivery' = [u \in Turns |-> delivery'[u]] /\ delivery'[t] \in Delivery
         /\ \A u \in Turns : u # t => delivery'[u] = delivery[u]
         /\ delivery[t].state \notin {"none", "preparing", "application_committed", "blocked"}
         /\ delivery'[t].claim = Nobody
         /\ delivery'[t].state = state /\ delivery'[t].shortlist = delivery[t].shortlist
         /\ delivery[t].shortlist \in SUBSET Decisions
  <1>1. delivery \in [Turns -> Delivery] /\ delivery[t] \in Delivery
    BY DEF RecallInv, RowTypes
  <1>2. /\ delivery[t].alive \in BOOLEAN /\ delivery[t].receipt \in Sets
        /\ delivery[t].shortlist \in SUBSET Decisions /\ delivery[t].claim = Nobody
    BY <1>1 DEF Delivery, RecallInv, Consented
  <1>3. CASE delivery' = [delivery EXCEPT ![t].state = state]
    <2>1. delivery'[t] = [state |-> state, claim |-> delivery[t].claim,
             alive |-> delivery[t].alive, shortlist |-> delivery[t].shortlist,
             receipt |-> delivery[t].receipt]
      BY <1>1, <1>3 DEF Delivery
    <2>2. delivery'[t] \in Delivery
      BY <1>2, <2>1 DEF Delivery
    <2>3. /\ delivery' = [u \in Turns |-> delivery'[u]]
          /\ \A u \in Turns : u # t => delivery'[u] = delivery[u]
      BY <1>1, <1>3
    <2> QED  BY <1>2, <2>1, <2>2, <2>3
  <1>4. CASE delivery' = [delivery EXCEPT ![t].state = state, ![t].alive = alive]
    <2>1. delivery'[t] = [state |-> state, claim |-> delivery[t].claim,
             alive |-> alive, shortlist |-> delivery[t].shortlist,
             receipt |-> delivery[t].receipt]
      BY <1>1, <1>4 DEF Delivery
    <2>2. delivery'[t] \in Delivery
      BY <1>2, <2>1 DEF Delivery
    <2>3. /\ delivery' = [u \in Turns |-> delivery'[u]]
          /\ \A u \in Turns : u # t => delivery'[u] = delivery[u]
      BY <1>1, <1>4
    <2> QED  BY <1>2, <2>1, <2>2, <2>3
  <1> QED  BY <1>3, <1>4

LEMMA MarkUnknownStep ==
  ASSUME RecallInv, NEW c \in Callers, MarkDeliveryUnknown(c)
  PROVE  RecallInv' /\ Stands
  <1> DEFINE t == call[c].turn
  <1>1. /\ call[c].step = "unknown" /\ t \in Turns /\ attempt[t].state = "committed"
        /\ call \in [Callers -> Call] /\ call[c] \in Call
        /\ delivery \in [Turns -> Delivery] /\ received \subseteq Turns \X SUBSET Decisions
        /\ UNCHANGED <<ledgerVars, attempt, session, active, gate, internal,
                       plugin, received, interrupts>>
    BY DEF MarkDeliveryUnknown, RecallInv, CallsWork, RowTypes, GateSteps
  <1>2. WorldStep
    BY <1>1, Rests
  <1>3. CASE Return(c) /\ UNCHANGED delivery
    <2>1. call' \in [Callers -> Call] /\ CallsGoOn
      BY <1>1, <1>3, Returned
    <2>2. DeliveriesAdvance /\ Frozen
      BY <1>3 DEF DeliveriesAdvance, Frozen, RecallInv, Consented
    <2> QED  BY <1>1, <1>2, <1>3, <2>1, <2>2, DeliveriesMove
  <1>4. CASE /\ delivery[t].state \in {"delivery_claimed", "delivery_unknown"}
             /\ delivery' = [delivery EXCEPT ![t].state = "delivery_unknown"]
             /\ call' = [call EXCEPT ![c].step = "retry"]
    <2>1. call'[c] = [step |-> "retry", turn |-> t, gate |-> call[c].gate,
             delivery |-> call[c].delivery, seen |-> call[c].seen]
      BY <1>1, <1>4 DEF Call
    <2>2. call'[c] \in Call
      BY <1>1, <2>1 DEF Call, Steps
    <2>3. \A d \in Callers : d # c => call'[d] = call[d]
      BY <1>1, <1>4
    <2>4. CallsGoOn
      BY <1>1, <2>1, <2>3 DEF CallsGoOn, GateSteps
    <2>5. call' \in [Callers -> Call]
      BY <1>1, <1>4, <2>2
    <2>6. "delivery_unknown" \in DeliveryStates \ {"none", "preparing"}
      BY DEF DeliveryStates
    <2> HIDE DEF t
    <2>7. /\ delivery' = [u \in Turns |-> delivery'[u]] /\ delivery'[t] \in Delivery
          /\ \A u \in Turns : u # t => delivery'[u] = delivery[u]
          /\ delivery[t].state \notin {"none", "preparing", "application_committed", "blocked"}
          /\ delivery'[t].claim = Nobody
          /\ delivery'[t].state = "delivery_unknown"
          /\ delivery'[t].shortlist = delivery[t].shortlist
      BY <1>1, <1>4, <2>6, HandedOutMoves
    <2> QED  BY <1>1, <1>2, <2>4, <2>5, <2>7, OneDeliveryMoves
  <1> QED  BY <1>3, <1>4 DEF MarkDeliveryUnknown

LEMMA RetryStep ==
  ASSUME RecallInv, NEW c \in Callers, ClaimDeliveryRetry(c)
  PROVE  RecallInv' /\ Stands
  <1> DEFINE t == call[c].turn
  <1>1. /\ call[c].step = "retry" /\ t \in Turns /\ Return(c)
        /\ delivery \in [Turns -> Delivery] /\ received \subseteq Turns \X SUBSET Decisions
        /\ UNCHANGED <<ledgerVars, attempt, session, active, gate, internal, plugin>>
    BY DEF ClaimDeliveryRetry, RecallInv, CallsWork, RowTypes
  <1>2. call' \in [Callers -> Call] /\ CallsGoOn
    BY <1>1, Returned DEF RecallInv, RowTypes
  <1>3. CASE UNCHANGED <<delivery, received, interrupts>>
    <2>1. DeliveriesAdvance /\ Frozen
      BY <1>3 DEF DeliveriesAdvance, Frozen, RecallInv, Consented
    <2>2. WorldStep
      BY <1>1, <1>3, Rests
    <2> QED  BY <1>1, <1>2, <1>3, <2>1, <2>2, DeliveriesMove
  <1>4. CASE /\ delivery[t].state \in {"delivery_claimed", "delivery_unknown"}
             /\ delivery' = [delivery EXCEPT ![t].state = "delivery_claimed", ![t].alive = TRUE]
             /\ Answers(t, delivery[t].shortlist)
    <2>1. "delivery_claimed" \in DeliveryStates \ {"none", "preparing"}
      BY DEF DeliveryStates
    <2> HIDE DEF t
    <2>2. /\ delivery' = [u \in Turns |-> delivery'[u]] /\ delivery'[t] \in Delivery
          /\ \A u \in Turns : u # t => delivery'[u] = delivery[u]
          /\ delivery[t].state \notin {"none", "preparing", "application_committed", "blocked"}
          /\ delivery'[t].claim = Nobody
          /\ delivery'[t].state = "delivery_claimed"
          /\ delivery'[t].shortlist = delivery[t].shortlist
          /\ delivery[t].shortlist \in SUBSET Decisions
      BY <1>1, <1>4, <2>1, HandedOutMoves
    <2>3. /\ WorldStep /\ received \subseteq received'
          /\ received' \subseteq received \cup {<<t, delivery'[t].shortlist>>}
      BY <1>1, <1>4, <2>2, Answered
    <2> QED  BY <1>1, <1>2, <2>2, <2>3, OneDeliveryMoves
  <1> QED  BY <1>1, <1>3, <1>4 DEF ClaimDeliveryRetry

LEMMA AckStep ==
  ASSUME RecallInv, NEW t \in Turns, AckDelivery(t)
  PROVE  RecallInv' /\ Stands
  <1>1. /\ delivery[t].state \in {"delivery_claimed", "delivery_unknown"}
        /\ delivery' = [delivery EXCEPT ![t].state = "host_delivered", ![t].alive = FALSE]
        /\ UNCHANGED <<ledgerVars, attempt, session, active, gate, internal,
                       call, plugin, received, interrupts>>
    BY DEF AckDelivery
  <1>2. "host_delivered" \in DeliveryStates \ {"none", "preparing"}
    BY DEF DeliveryStates
  <1>3. /\ delivery' = [u \in Turns |-> delivery'[u]] /\ delivery'[t] \in Delivery
        /\ \A u \in Turns : u # t => delivery'[u] = delivery[u]
        /\ delivery[t].state \notin {"none", "preparing", "application_committed", "blocked"}
        /\ delivery'[t].claim = Nobody
        /\ delivery'[t].state = "host_delivered"
        /\ delivery'[t].shortlist = delivery[t].shortlist
    BY <1>1, <1>2, HandedOutMoves
  <1>4. call' \in [Callers -> Call] /\ CallsGoOn
    BY <1>1 DEF CallsGoOn, RecallInv, RowTypes
  <1>5. WorldStep
    BY <1>1, Rests
  <1> QED  BY <1>1, <1>3, <1>4, <1>5, OneDeliveryMoves

(* A call that fails takes its claim along.                                *)
LEMMA ClaimsDropped ==
  ASSUME RecallInv, WorldStep, NEW c \in Callers, Return(c),
         UNCHANGED <<attempt, session, active, gate, internal, received>>,
         delivery' = [u \in Turns |-> delivery'[u]],
         \A u \in Turns :
           \/ delivery'[u] = delivery[u]
           \/ /\ delivery[u].claim = c
              /\ delivery'[u] = [state |-> delivery[u].state, claim |-> Nobody,
                   alive |-> delivery[u].alive, shortlist |-> delivery[u].shortlist,
                   receipt |-> delivery[u].receipt]
  PROVE  RecallInv' /\ Stands
  <1>1. delivery \in [Turns -> Delivery] /\ received \subseteq Turns \X SUBSET Decisions
    BY DEF RecallInv, RowTypes
  <1>2. ASSUME NEW u \in Turns PROVE delivery'[u] \in Delivery
    <2>1. delivery[u] \in Delivery
      BY <1>1
    <2>2. /\ delivery[u].state \in DeliveryStates /\ delivery[u].alive \in BOOLEAN
          /\ delivery[u].shortlist \in SUBSET Decisions /\ delivery[u].receipt \in Sets
      BY <2>1 DEF Delivery
    <2> QED  BY <2>1, <2>2 DEF Delivery
  <1>3. \A u \in Turns : delivery'[u] = delivery[u] \/
          (/\ delivery[u].state = "preparing" /\ delivery'[u].state = "preparing"
           /\ delivery'[u].claim = Nobody)
    BY DEF RecallInv, Consented
  <1>4. delivery' \in [Turns -> Delivery]
    BY <1>2
  <1>5. DeliveriesAdvance
    BY <1>3 DEF DeliveriesAdvance, RecallInv, Consented
  <1>6. Frozen
    BY <1>3 DEF Frozen
  <1>7. call' \in [Callers -> Call] /\ CallsGoOn
    BY Returned DEF RecallInv, RowTypes
  <1> QED  BY <1>1, <1>4, <1>5, <1>6, <1>7, DeliveriesMove

LEMMA CutOffStep ==
  ASSUME RecallInv, NEW c \in Callers, CutOff(c)
  PROVE  RecallInv' /\ Stands
  <1>1. /\ Return(c) /\ Interrupted
        /\ UNCHANGED <<ledgerVars, attempt, session, active, gate, internal, plugin, received>>
        /\ delivery' = [t \in Turns |-> IF delivery[t].claim = c
             THEN [delivery[t] EXCEPT !.claim = Nobody] ELSE delivery[t]]
    BY DEF CutOff
  <1>2. delivery \in [Turns -> Delivery]
    BY DEF RecallInv, RowTypes
  <1>3. ASSUME NEW u \in Turns
        PROVE  \/ delivery'[u] = delivery[u]
               \/ /\ delivery[u].claim = c
                  /\ delivery'[u] = [state |-> delivery[u].state, claim |-> Nobody,
                       alive |-> delivery[u].alive, shortlist |-> delivery[u].shortlist,
                       receipt |-> delivery[u].receipt]
    <2>1. delivery[u] \in Delivery
      BY <1>2
    <2>2. [delivery[u] EXCEPT !.claim = Nobody] =
            [state |-> delivery[u].state, claim |-> Nobody, alive |-> delivery[u].alive,
             shortlist |-> delivery[u].shortlist, receipt |-> delivery[u].receipt]
      BY <2>1 DEF Delivery
    <2>3. delivery'[u] = IF delivery[u].claim = c
             THEN [delivery[u] EXCEPT !.claim = Nobody] ELSE delivery[u]
      BY <1>1
    <2> QED  BY <2>2, <2>3
  <1>4. delivery' = [u \in Turns |-> delivery'[u]]
    BY <1>1
  <1>5. WorldStep
    BY <1>1, WorldRests DEF RecallInv, Gated
  <1> QED  BY <1>1, <1>3, <1>4, <1>5, ClaimsDropped

LEMMA RefusedStep ==
  ASSUME RecallInv, NEW c \in Callers, Refused(c)
  PROVE  RecallInv' /\ Stands
  <1> DEFINE t == call[c].turn
  <1>1. /\ Return(c) /\ call[c].step # "idle"
        /\ UNCHANGED <<ledgerVars, attempt, session, active, gate, internal, plugin,
                       received, interrupts>>
        /\ delivery' = IF delivery[t].claim = c
                       THEN [delivery EXCEPT ![t].claim = Nobody] ELSE delivery
    BY DEF Refused
  <1>2. delivery \in [Turns -> Delivery] /\ t \in Turns
    BY <1>1 DEF RecallInv, RowTypes, CallsWork
  <1> HIDE DEF t
  <1>3. \A u \in Turns :
          \/ delivery'[u] = delivery[u]
          \/ /\ delivery[u].claim = c
             /\ delivery'[u] = [state |-> delivery[u].state, claim |-> Nobody,
                  alive |-> delivery[u].alive, shortlist |-> delivery[u].shortlist,
                  receipt |-> delivery[u].receipt]
    <2>1. CASE delivery[t].claim = c /\ delivery' = [delivery EXCEPT ![t].claim = Nobody]
      <3>1. delivery[t] \in Delivery
        BY <1>2
      <3>2. delivery'[t] = [state |-> delivery[t].state, claim |-> Nobody,
                  alive |-> delivery[t].alive, shortlist |-> delivery[t].shortlist,
                  receipt |-> delivery[t].receipt]
        BY <1>2, <2>1, <3>1 DEF Delivery
      <3>3. \A u \in Turns : u # t => delivery'[u] = delivery[u]
        BY <1>2, <2>1
      <3> QED  BY <2>1, <3>2, <3>3
    <2>2. CASE delivery' = delivery
      BY <2>2
    <2> QED  BY <1>1, <2>1, <2>2
  <1>4. delivery' = [u \in Turns |-> delivery'[u]]
    BY <1>1, <1>2
  <1>5. WorldStep
    BY <1>1, Rests
  <1> QED  BY <1>1, <1>3, <1>4, <1>5, ClaimsDropped

LEMMA ExpireClaimStep ==
  ASSUME RecallInv, NEW t \in Turns, ExpireClaim(t)
  PROVE  RecallInv' /\ Stands
  <1>1. /\ delivery[t].state \in {"preparing", "delivery_claimed"}
        /\ delivery' = [delivery EXCEPT ![t].alive = FALSE]
        /\ UNCHANGED <<ledgerVars, attempt, session, active, gate, internal,
                       call, plugin, received, interrupts>>
    BY DEF ExpireClaim
  <1>2. delivery \in [Turns -> Delivery] /\ delivery[t] \in Delivery
    BY DEF RecallInv, RowTypes
  <1>3. delivery'[t] = [state |-> delivery[t].state, claim |-> delivery[t].claim,
          alive |-> FALSE, shortlist |-> delivery[t].shortlist,
          receipt |-> delivery[t].receipt]
    BY <1>1, <1>2 DEF Delivery
  <1>4. delivery'[t] \in Delivery
    BY <1>2, <1>3 DEF Delivery
  <1>5. /\ delivery' = [u \in Turns |-> delivery'[u]]
        /\ \A u \in Turns : u # t => delivery'[u] = delivery[u]
    BY <1>1, <1>2
  <1>6. delivery[t].claim # Nobody => delivery[t].state = "preparing"
    BY DEF RecallInv, Consented
  <1>7. call' \in [Callers -> Call] /\ CallsGoOn
    BY <1>1 DEF CallsGoOn, RecallInv, RowTypes
  <1>8. WorldStep
    BY <1>1, Rests
  <1>9. /\ delivery[t].state \notin {"none", "application_committed", "blocked"}
        /\ delivery'[t].claim # Nobody => delivery'[t].state = "preparing"
        /\ delivery[t].state # "preparing" =>
             /\ delivery'[t].state \notin {"none", "preparing"}
             /\ delivery'[t].shortlist = delivery[t].shortlist
    BY <1>1, <1>3, <1>6
  <1>10. /\ UNCHANGED <<attempt, session, active, gate, internal>>
         /\ received' = received
    BY <1>1
  <1> QED  BY <1>4, <1>5, <1>7, <1>8, <1>9, <1>10, OneDeliveryMoves

-----------------------------------------------------------------------------
(* The actions that change the Session or its gates.                       *)

LEMMA EnableStep ==
  ASSUME RecallInv, NEW c \in Callers, NEW t \in Turns, Enable(c, t)
  PROVE  RecallInv' /\ Stands
  <1> DEFINE enabled ==
        [state |-> "activating", context |-> 0, intent |-> 0, active_intent |-> NoIntent,
         set |-> NoSet, delivery |-> NoTurn, receipt |-> NoSet, last_gate |-> NoTurn]
      claimed ==
        [state |-> "preparing", claim |-> c, alive |-> TRUE, shortlist |-> {}, receipt |-> NoSet]
  <1>1. /\ ~internal /\ attempt[t].state = "pending_confirmation" /\ session.state = "none"
        /\ attempt' = [attempt EXCEPT ![t].state = "committed"]
        /\ session' = [NoSession EXCEPT !.state = "activating"]
        /\ delivery' = [delivery EXCEPT ![t] =
             [NoDelivery EXCEPT !.state = "preparing", !.claim = c, !.alive = TRUE]]
        /\ call' = [call EXCEPT ![c] = [Idle EXCEPT !.step = "retrieving", !.turn = t]]
        /\ UNCHANGED <<ledgerVars, active, gate, internal, plugin, received, interrupts>>
    BY DEF Enable
  <1>2. WorldStep
    BY <1>1, Rests
  <1>3. /\ attempt \in [Turns -> Attempt] /\ delivery \in [Turns -> Delivery]
        /\ call \in [Callers -> Call] /\ attempt[t] \in Attempt /\ Now' = Now
        /\ gate \in [Turns -> Gate] /\ Now \in Nat /\ Now <= MaxTurns
    BY <1>1, HostTyped DEF RecallInv, RowTypes, ledgerVars, Now
  <1>4. /\ t <= Now /\ Now # NoTurn /\ attempt[t].intent \in Intents
        /\ delivery[t].state = "none"
        /\ session = NoSession /\ \A u \in Turns : gate[u].state = "none"
    BY <1>1, <1>3 DEF RecallInv, Consented, Gated
  <1>5. /\ attempt'[t] = [state |-> "committed", card |-> attempt[t].card,
             alive |-> attempt[t].alive, fresh |-> attempt[t].fresh,
             intent |-> attempt[t].intent, generation |-> attempt[t].generation,
             plugin |-> attempt[t].plugin]
        /\ \A u \in Turns : u # t => attempt'[u] = attempt[u]
    BY <1>1, <1>3 DEF Attempt
  <1>6. attempt' \in [Turns -> Attempt]
    <2>1. attempt[t].card \in BOOLEAN /\ attempt[t].alive \in BOOLEAN /\ attempt[t].fresh \in BOOLEAN
      BY <1>3 DEF Attempt
    <2>2. attempt'[t] \in Attempt
      BY <1>3, <1>5, <2>1 DEF Attempt, AttemptStates
    <2> QED  BY <1>1, <1>3, <2>2
  <1>7. claimed \in Delivery
    BY NoSessionTyped DEF Delivery, DeliveryStates
  <1>8. claimed.state = "preparing" /\ claimed.claim = c
    OBVIOUS
  <1>9. enabled \in Session
    BY NoSessionTyped DEF Session, Epochs
  <1>10. /\ enabled.state = "activating" /\ enabled.intent = 0 /\ enabled.context = 0
         /\ enabled.last_gate = NoTurn
    OBVIOUS
  <1>11. /\ delivery' \in [Turns -> Delivery] /\ delivery'[t] = claimed
         /\ \A u \in Turns : u # t => delivery'[u] = delivery[u]
    <2>1. delivery'[t] = claimed
      BY <1>1, <1>3 DEF NoDelivery
    <2> HIDE DEF claimed
    <2> QED  BY <1>1, <1>3, <1>7, <2>1
  <1>12. session' = enabled
    BY <1>1 DEF NoSession
  <1> HIDE DEF enabled, claimed
  <1>13. /\ call' \in [Callers -> Call] /\ call'[c].step = "retrieving" /\ call'[c].turn = t
         /\ \A d \in Callers : d # c => call'[d] = call[d]
    <2> DEFINE new == [Idle EXCEPT !.step = "retrieving", !.turn = t]
    <2>1. new \in Call /\ new.step = "retrieving" /\ new.turn = t
      BY IdleTyped DEF Idle, Call, Steps
    <2>2. call' = [call EXCEPT ![c] = new]
      BY <1>1
    <2> HIDE DEF new
    <2> QED  BY <1>3, <2>1, <2>2
  <1>14. RowTypes'
    BY <1>1, <1>12, <1>6, <1>9, <1>11, <1>13 DEF RecallInv, RowTypes
  <1>15. Consented'
    BY <1>1, <1>3, <1>4, <1>5, <1>8, <1>11 DEF RecallInv, Consented
  <1>16. CallsWork'
    BY <1>1, <1>5, <1>13 DEF RecallInv, CallsWork
  <1>17. HandedOut'
    BY <1>1, <1>4, <1>11 DEF RecallInv, HandedOut
  <1>18. Gated'
    BY <1>1, <1>12, <1>3, <1>4, <1>10, HostTyped
       DEF RecallInv, Gated, PendingIsCurrent, Running, ledgerVars
  <1>19. Counted'
    <2>1. host' = host /\ host[Task].breaks \in Nat /\ session.context = 0
      BY <1>1, <1>12, <1>4, HostTyped DEF RecallInv, ledgerVars, NoSession
    <2>2. Compacting => 0 < host[Task].breaks
      BY <2>1 DEF RecallInv, Counted
    <2> QED  BY <1>12, <1>10, <2>1, <2>2 DEF Counted, Compacting
  <1>20. SeenIsCurrent'
    BY <1>1, <1>13 DEF RecallInv, SeenIsCurrent
  <1>21. Receipted' /\ GatesFollow'
    BY <1>1, <1>12, <1>10 DEF Receipted, ActiveSetIsReceipted, GatesFollow
  <1>22. Stands
    BY <1>1, <1>12, <1>4, <1>5, <1>10, <1>11 DEF Stands, Settled, NoSession
  <1>23. OneIsLive'
    <2>1. \A u \in Turns : delivery[u].state \notin LiveStates
      BY <1>1 DEF RecallInv, OneIsLive
    <2> QED  BY <1>10, <1>11, <1>12, <2>1 DEF OneIsLive
  <1>24. Applying'
    <2>1. \A u \in Turns :
            delivery[u].state # "none" /\ delivery'[u].state \in LiveStates =>
              delivery[u].state \in LiveStates
      BY <1>4, <1>11
    <2>2. \A d \in Callers : call'[d].step = "apply" => call'[d] = call[d]
      BY <1>13
    <2> QED  BY <1>1, <1>2, <1>17, <2>1, <2>2, ApplyingRests
  <1> QED
    BY <1>2, <1>14, <1>15, <1>16, <1>17, <1>18, <1>19, <1>20, <1>21, <1>22, <1>23, <1>24
       DEF RecallInv, WorldStep

(* A gate begins in the epochs of the Session.                             *)
LEMMA GateBegins ==
  ASSUME RecallInv, WorldStep, NEW gen \in Generations \cup {NoGeneration},
         NEW t \in Turns, t = Now', gate[t].state = "none", BeginTurnGate(t, gen),
         session.state \in {"active", "activating"},
         UNCHANGED <<attempt, delivery, session, active, internal, call, received>>
  PROVE  RecallInv' /\ Stands
  <1> DEFINE new ==
        [state |-> "pending", id |-> GateId(t, gen), context |-> session.context,
         intent |-> session.intent, generation |-> gen, result |-> NoIntent,
         set |-> NoSet, plugin |-> plugin]
  <1>1. gate' = [gate EXCEPT ![t] = [NoGate EXCEPT !.state = "pending",
                  !.id = GateId(t, gen), !.context = session.context,
                  !.intent = session.intent, !.generation = gen, !.plugin = plugin]]
    BY DEF BeginTurnGate
  <1>2. /\ gate \in [Turns -> Gate] /\ session.context \in Epochs /\ session.intent \in Epochs
        /\ session.context \in Nat /\ session.intent \in Nat
        /\ session.last_gate \in Turns \cup {NoTurn}
        /\ plugin \in Plugins
    BY DEF RecallInv, RowTypes, WorldTypes, Session, Epochs, Plugins
  <1>3. GateId(t, gen) \in GateIds
    BY <1>2 DEF GateId, GateIds
  <1>4. new \in Gate
    BY <1>2, <1>3, NoSessionTyped DEF Gate, GateStates
  <1>5. new.state = "pending" /\ new.context = session.context /\ new.intent = session.intent
    OBVIOUS
  <1>6. /\ gate' \in [Turns -> Gate] /\ gate'[t] = new
        /\ \A u \in Turns : u # t => gate'[u] = gate[u]
    <2>1. gate'[t] = new
      BY <1>1, <1>2 DEF NoGate
    <2> HIDE DEF new
    <2> QED  BY <1>1, <1>2, <1>4, <2>1
  <1> HIDE DEF new
  <1>7. Now \in Nat /\ Now' \in Nat /\ Now <= Now' /\ Now' # NoTurn
    BY DEF WorldStep
  <1>8. session.intent < t
    <2>1. session.intent <= session.last_gate
      BY DEF RecallInv, Counted
    <2>2. CASE session.last_gate = NoTurn
      BY <1>2, <2>1, <2>2
    <2>3. CASE session.last_gate # NoTurn
      <3>1. gate[session.last_gate].state \in {"committed", "blocked"}
        BY <2>3 DEF RecallInv, Counted
      <3>2. session.last_gate <= Now /\ session.last_gate # t
        BY <1>2, <2>3, <3>1 DEF RecallInv, Gated
      <3> QED  BY <1>2, <1>7, <2>1, <3>2
    <2> QED  BY <2>2, <2>3
  <1>9. Gated'
    <2>1. ASSUME NEW u \in Turns, gate'[u].state # "none"
          PROVE  u <= Now' /\ gate'[u].intent < u /\ gate'[u].intent <= session.intent
      <3>1. CASE u = t
        BY <1>2, <1>5, <1>6, <1>7, <1>8, <3>1
      <3>2. CASE u # t
        BY <1>6, <1>7, <3>2, <2>1 DEF RecallInv, Gated
      <3> QED  BY <3>1, <3>2
    <2>2. PendingIsCurrent'
      BY <1>5, <1>6 DEF PendingIsCurrent
    <2> QED  BY <1>7, <2>1, <2>2 DEF Gated, RecallInv
  <1>10. Counted'
    <2>1. host'[Task].breaks \in Nat /\ host[Task].breaks \in Nat
      BY HostTyped DEF RecallInv, WorldStep, WorldTypes, Host
    <2>2. session.last_gate # NoTurn => gate'[session.last_gate].state \in {"committed", "blocked"}
      BY <1>2, <1>6 DEF RecallInv, Counted
    <2> QED  BY <1>2, <2>1, <2>2 DEF RecallInv, Counted, WorldStep
  <1>11. RowTypes'
    BY <1>6 DEF RecallInv, RowTypes
  <1>12. GatesFollow'
    BY <1>5, <1>6, FollowRests
  <1>13. SeenIsCurrent'
    BY SeenRests
  <1>14. Receipted'
    BY ReceiptRests DEF Frozen
  <1>15. Stands
    BY <1>2, <1>6 DEF Stands, Settled
  <1>16. OneIsLive' /\ Applying'
    BY <1>5, <1>6, RowsRest, LiveRests, ApplyingRests DEF LiveRest
  <1> QED
    BY <1>9, <1>10, <1>11, <1>12, <1>13, <1>14, <1>15, <1>16, RowsRest DEF RecallInv, WorldStep

LEMMA BindGateStep ==
  ASSUME RecallInv, BindTurnGate
  PROVE  RecallInv' /\ Stands
  <1>1. /\ HookBinds /\ session.state = "active" /\ gate[Now].state = "none"
        /\ BeginTurnGate(Now, NoGeneration)
        /\ UNCHANGED <<ledgerVars, attempt, delivery, session, active, internal, call,
                       plugin, received, interrupts>>
    BY DEF BindTurnGate
  <1>2. Now \in Turns /\ Now' = Now
    BY <1>1, HostTyped
       DEF HookBinds, Trusted, InTurn, RecallInv, Gated, Running, ledgerVars, Now
  <1> QED  BY <1>1, <1>2, Rests, GateBegins

LEMMA PromptStep ==
  ASSUME RecallInv, WorldStep, UserPrompts
  PROVE  RecallInv' /\ Stands
  <1> DEFINE t == Now + 1
  <1>1. /\ HostPrompts(Task) /\ UNCHANGED <<call, plugin, received>>
        /\ GateForPrompt(t) \/ UNCHANGED storeVars
    BY DEF UserPrompts, Hook
  <1>2. t = Now' /\ t \in Turns /\ Now \in Nat
    BY <1>1, HostTyped, HostPrompted DEF RecallInv
  <1>3. gate[t].state = "none"
    BY <1>2 DEF RecallInv, Gated
  <1> HIDE DEF t
  <1>4. CASE UNCHANGED storeVars
    BY <1>1, <1>4, StoreRests
  <1>5. CASE GateForPrompt(t) /\ ~UNCHANGED storeVars
    <2>1. /\ session.state \in {"active", "activating"}
          /\ session.state = "activating" => \E d \in Turns : Eligible(d)
          /\ BeginTurnGate(t, IF session.state = "active" THEN NoGeneration
                             ELSE attempt[CHOOSE d \in Turns : Eligible(d)].generation)
          /\ UNCHANGED <<attempt, delivery, session, active, internal>>
      BY <1>5 DEF GateForPrompt
    <2>2. \A d \in Turns : attempt[d].generation \in Generations \cup {NoGeneration}
      BY DEF RecallInv, RowTypes, Attempt
    <2>3. PICK gen \in Generations \cup {NoGeneration} : BeginTurnGate(t, gen)
      BY <2>1, <2>2
    <2> QED  BY <1>1, <1>2, <1>3, <2>1, <2>3, GateBegins
  <1> QED  BY <1>1, <1>4, <1>5

(* A call is bound to the pending gate of the running Turn.                 *)
LEMMA CallIsBound ==
  ASSUME RecallInv, NEW c \in Callers, NEW new \in Call,
         call' = [call EXCEPT ![c] = new],
         UNCHANGED <<ledgerVars, storeVars, plugin, received, interrupts>>,
         new.step \in GateSteps, new.turn = Now, Now \in Turns,
         new.step = "reuse" => session.state # "none" /\ new.seen = session,
         new.step = "apply" =>
           /\ new.delivery \in Turns
           /\ <<new.delivery, delivery[new.delivery].shortlist>> \in received
           /\ OpenTurn(log, Task, Now) /\ NewestGate(Now)
  PROVE  RecallInv' /\ Stands
  <1>1. /\ call' \in [Callers -> Call] /\ call'[c] = new
        /\ \A d \in Callers : d # c => call'[d] = call[d]
    BY DEF RecallInv, RowTypes
  <1>2. UNCHANGED <<log, host, attempt, delivery, session, active, gate, internal>>
    BY DEF storeVars, ledgerVars
  <1>3. session \in Session /\ session.intent \in Nat /\ session.context \in Nat
    BY DEF RecallInv, RowTypes, Session, Epochs
  <1>4. RowTypes'
    BY <1>1, <1>2 DEF RecallInv, RowTypes
  <1>5. WorldStep
    BY Rests
  <1>6. Consented'
    BY <1>2 DEF RecallInv, Consented, Now
  <1>7. CallsWork' /\ HandedOut'
    BY <1>1, <1>2 DEF RecallInv, CallsWork, HandedOut
  <1>8. OneIsLive'
    BY <1>2 DEF RecallInv, OneIsLive
  <1>9. Applying'
    <2> SUFFICES ASSUME NEW d \in Callers, call'[d].step = "apply"
                 PROVE  LET t == call'[d].turn
                            e == call'[d].delivery
                        IN /\ t \in Turns /\ t <= Now' /\ e \in Turns
                           /\ <<e, delivery'[e].shortlist>> \in received'
                           /\ \A u \in Turns : OpenTurn(log', Task, u) => u >= t
                           /\ delivery'[e].state \in LiveStates /\ session'.state = "activating" =>
                                \A u \in Turns : u > t => gate'[u].state # "committed"
      BY DEF Applying
    <2>1. Now' = Now
      BY <1>2 DEF Now
    <2>2. CASE d # c
      BY <1>1, <1>2, <2>1, <2>2 DEF RecallInv, Applying
    <2>3. CASE d = c
      <3>1. \A u \in Turns : OpenTurn(log, Task, u) => u >= Now
        BY <1>1, <2>3, OneTurnIsOpen DEF RecallInv, WorldTypes
      <3>2. \A u \in Turns : u > Now => gate[u].state = "none"
        BY <1>1, <2>3 DEF NewestGate
      <3> QED  BY <1>1, <1>2, <2>1, <2>3, <3>1, <3>2
    <2> QED  BY <2>2, <2>3
  <1>10. SeenIsCurrent'
    BY <1>1, <1>2, <1>3 DEF RecallInv, SeenIsCurrent
  <1>11. Frozen /\ DecidedStay
    BY <1>2 DEF Frozen, DecidedStay
  <1>12. Receipted'
    BY <1>2, <1>11, ReceiptRests
  <1>13. Stands
    BY <1>2, <1>3 DEF Stands, Settled
  <1> QED
    BY <1>2, <1>4, <1>5, <1>6, <1>7, <1>8, <1>9, <1>10, <1>12, <1>13, GatesRest
       DEF RecallInv, WorldStep

LEMMA TrustedTurn ==
  ASSUME RecallInv, Trusted
  PROVE  Now \in Turns /\ gate[Now].id \in GateIds
  <1>1. Now \in Turns
    BY HostTyped DEF Trusted, InTurn, RecallInv, Gated, Running
  <1> QED  BY <1>1 DEF RecallInv, RowTypes, Gate

(* gate_turn begins to reuse what governs the Session, or reads what a      *)
(* changed intent will replace.                                            *)
LEMMA ReadSteps ==
  ASSUME RecallInv, NEW c \in Callers, ReuseIntent(c) \/ ChangeIntent(c)
  PROVE  RecallInv' /\ Stands
  <1>1. /\ Trusted /\ session.state = "active"
        /\ UNCHANGED <<ledgerVars, storeVars, plugin, received, interrupts>>
        /\ \E step \in {"reuse", "preflight"} :
             call' = [call EXCEPT ![c] = [Idle EXCEPT !.step = step, !.turn = Now,
                                            !.gate = gate[Now].id, !.seen = session]]
    BY DEF ReuseIntent, ChangeIntent, GateBinds, HookBinds
  <1>2. Now \in Turns /\ gate[Now].id \in GateIds /\ session \in Session
    BY <1>1, TrustedTurn DEF RecallInv, RowTypes
  <1>3. PICK step \in {"reuse", "preflight"}, n \in Turns, id \in GateIds, seen \in Session :
          /\ n = Now /\ seen = session
          /\ call' = [call EXCEPT ![c] =
               [Idle EXCEPT !.step = step, !.turn = n, !.gate = id, !.seen = seen]]
    BY <1>1, <1>2
  <1> DEFINE new == [Idle EXCEPT !.step = step, !.turn = n, !.gate = id, !.seen = seen]
  <1>4. new \in Call
    BY IdleTyped DEF Idle, Call, Steps, GateSteps
  <1>5. new.step = step /\ new.turn = n /\ new.seen = seen
    BY DEF Idle
  <1>6. call' = [call EXCEPT ![c] = new]
    BY <1>3
  <1> HIDE DEF new
  <1>7. /\ new.step \in GateSteps /\ new.step # "apply" /\ new.turn = Now /\ Now \in Turns
        /\ session.state # "none" /\ new.seen = session
    BY <1>1, <1>2, <1>3, <1>5 DEF GateSteps
  <1>8. UNCHANGED <<ledgerVars, storeVars, plugin, received, interrupts>>
    BY <1>1
  <1> QED  BY <1>4, <1>6, <1>7, <1>8, CallIsBound

(* apply_recall_delivery is bound to the newest gate.                       *)
LEMMA ApplyStep ==
  ASSUME RecallInv, NEW c \in Callers, NEW d \in Delivered, ApplyDelivery(c, d)
  PROVE  RecallInv' /\ Stands
  <1>1. /\ Trusted /\ NewestGate(Now) /\ <<d, delivery[d].shortlist>> \in received
        /\ call' = [call EXCEPT ![c] = [Idle EXCEPT !.step = "apply", !.turn = Now,
                                           !.gate = gate[Now].id, !.delivery = d]]
        /\ UNCHANGED <<ledgerVars, storeVars, plugin, received, interrupts>>
    BY DEF ApplyDelivery, ApplicationBinds
  <1>2. Now \in Turns /\ gate[Now].id \in GateIds /\ d \in Turns
    BY <1>1, TrustedTurn DEF Delivered
  <1>3. PICK n \in Turns, id \in GateIds :
          /\ n = Now
          /\ call' = [call EXCEPT ![c] =
               [Idle EXCEPT !.step = "apply", !.turn = n, !.gate = id, !.delivery = d]]
    BY <1>1, <1>2
  <1> DEFINE new == [Idle EXCEPT !.step = "apply", !.turn = n, !.gate = id, !.delivery = d]
  <1>4. new \in Call
    BY <1>2, IdleTyped DEF Idle, Call, Steps, GateSteps
  <1>5. new.step = "apply" /\ new.turn = n /\ new.delivery = d
    BY DEF Idle
  <1>6. call' = [call EXCEPT ![c] = new]
    BY <1>3
  <1> HIDE DEF new
  <1>7. OpenTurn(log, Task, Now)
    BY <1>1 DEF Trusted
  <1> QED  BY <1>1, <1>2, <1>3, <1>4, <1>5, <1>6, <1>7, CallIsBound DEF GateSteps

(* What a call read in the epoch of the Session still governs it.          *)
LEMMA ReadIsCurrent ==
  ASSUME RecallInv, NEW c \in Callers, call[c].step = "reuse",
         CommitOnEpochs(call[c].turn, call[c].seen), session.state # "activating"
  PROVE  /\ call[c].seen.context = session.context /\ call[c].seen.intent = session.intent
         /\ call[c].seen.active_intent = session.active_intent
         /\ call[c].seen.set = session.set
         /\ EpochsAgree(call[c].turn)
  <1>1. /\ call[c].seen.intent <= session.intent
        /\ call[c].seen.intent = session.intent =>
             /\ call[c].seen.active_intent = session.active_intent
             /\ call[c].seen.set = session.set
    BY DEF RecallInv, SeenIsCurrent
  <1>2. session.intent \in Nat /\ call[c].seen.intent \in Nat
    BY DEF RecallInv, RowTypes, Session, Call, Epochs
  <1>3. /\ call[c].seen.context = session.context /\ session.intent <= call[c].seen.intent
        /\ EpochsAgree(call[c].turn)
    BY DEF CommitOnEpochs, EpochsAgree
  <1> QED  BY <1>1, <1>2, <1>3

(* A step that settles the gate of Turn t, and keeps what governs.         *)
LEMMA GateSettles ==
  ASSUME RecallInv, WorldStep, UNCHANGED ledgerVars, NEW t \in Turns,
         gate[t].state = "pending",
         gate' \in [Turns -> Gate], \A u \in Turns : u # t => gate'[u] = gate[u],
         gate'[t].state \in {"committed", "blocked"}, gate'[t].intent = gate[t].intent,
         session' \in Session,
         session'.state = session.state, session'.context = session.context,
         session'.intent = session.intent, session'.active_intent = session.active_intent,
         session'.set = session.set, session'.delivery = session.delivery,
         session'.receipt = session.receipt,
         \/ session'.last_gate = session.last_gate
         \/ session'.last_gate = t /\ session.intent = gate[t].intent,
         gate'[t].state = "committed" =>
           /\ gate'[t].result = session.active_intent /\ gate'[t].set = session.set
           /\ session.state # "activating",
         UNCHANGED <<attempt, delivery, active, internal, received>>,
         NEW c \in Callers, Return(c)
  PROVE  RecallInv' /\ Stands
  <1>1. /\ gate \in [Turns -> Gate] /\ session.intent \in Nat /\ session.context \in Nat
        /\ session.last_gate \in Turns \cup {NoTurn} /\ gate[t].intent \in Nat
        /\ Now' = Now /\ host' = host /\ log' = log
    BY DEF RecallInv, RowTypes, Session, Gate, Epochs, ledgerVars, Now
  <1>2. session.state # "none" /\ t <= Now /\ gate[t].intent < t
    BY DEF RecallInv, Gated
  <1>3. /\ call' \in [Callers -> Call] /\ CallsGoOn
    BY Returned DEF RecallInv, RowTypes
  <1>4. RowTypes'
    BY <1>3 DEF RecallInv, RowTypes
  <1>5. Consented' /\ HandedOut'
    BY <1>1 DEF RecallInv, Consented, HandedOut
  <1>6. CallsWork'
    BY <1>3 DEF RecallInv, CallsWork, CallsGoOn
  <1>7. Gated'
    <2>1. \A u \in Turns :
            gate'[u].state # "none" =>
              u <= Now /\ gate'[u].intent < u /\ gate'[u].intent <= session.intent
      BY <1>1, <1>2 DEF RecallInv, Gated
    <2>2. PendingIsCurrent'
      BY <1>1, PendingRests
    <2> QED  BY <1>1, <1>2, <2>1, <2>2 DEF RecallInv, Gated, Running
  <1>8. Counted'
    <2>1. session'.intent <= session'.last_gate
      BY <1>1, <1>2 DEF RecallInv, Counted
    <2>2. session'.last_gate # NoTurn =>
            gate'[session'.last_gate].state \in {"committed", "blocked"}
      BY <1>1 DEF RecallInv, Counted
    <2> QED  BY <1>1, <2>1, <2>2 DEF RecallInv, Counted, Compacting
  <1>9. SeenIsCurrent'
    BY <1>3 DEF RecallInv, SeenIsCurrent, CallsGoOn, GateSteps
  <1>10. Receipted'
    BY DEF RecallInv, Receipted, ActiveSetIsReceipted
  <1>11. GatesFollow'
    BY <1>1 DEF RecallInv, GatesFollow
  <1>12. Stands
    BY <1>1 DEF Stands, Settled
  <1>13. OneIsLive' /\ Applying'
    BY <1>1, <1>3, <1>5, LiveRests, ApplyingRests DEF LiveRest, CallsGoOn, GateSteps
  <1> QED
    BY <1>4, <1>5, <1>6, <1>7, <1>8, <1>9, <1>10, <1>11, <1>12, <1>13 DEF RecallInv, WorldStep

LEMMA CommitGateStep ==
  ASSUME RecallInv, NEW c \in Callers, CommitTurnGate(c)
  PROVE  RecallInv' /\ Stands
  <1> DEFINE t == call[c].turn
             seen == call[c].seen
  <1>1. /\ call[c].step = "reuse" /\ Return(c) /\ t \in Turns
        /\ gate \in [Turns -> Gate] /\ call[c] \in Call /\ session \in Session
        /\ UNCHANGED <<ledgerVars, attempt, delivery, active, internal, plugin,
                       received, interrupts>>
    BY DEF CommitTurnGate, RecallInv, CallsWork, RowTypes
  <1>2. WorldStep
    BY <1>1, Rests
  <1>3. CASE UNCHANGED <<gate, session>>
    <2>1. call' \in [Callers -> Call] /\ CallsGoOn
      BY <1>1, Returned DEF RecallInv, RowTypes
    <2>2. DeliveriesAdvance /\ Frozen
      BY <1>1 DEF DeliveriesAdvance, Frozen, RecallInv, Consented
    <2>3. /\ delivery' \in [Turns -> Delivery]
          /\ received' \subseteq Turns \X SUBSET Decisions
      BY <1>1 DEF RecallInv, RowTypes
    <2> QED  BY <1>1, <1>2, <1>3, <2>1, <2>2, <2>3, DeliveriesMove
  <1>4. CASE /\ gate[t].state = "pending"
             /\ gate' = [gate EXCEPT ![t].state = "blocked"] /\ UNCHANGED session
    <2>1. gate'[t] = [state |-> "blocked", id |-> gate[t].id, context |-> gate[t].context,
             intent |-> gate[t].intent, generation |-> gate[t].generation,
             result |-> gate[t].result, set |-> gate[t].set, plugin |-> gate[t].plugin]
      BY <1>1, <1>4 DEF Gate
    <2>2. gate'[t] \in Gate
      BY <1>1, <2>1 DEF Gate, GateStates
    <2>3. /\ gate' \in [Turns -> Gate] /\ \A u \in Turns : u # t => gate'[u] = gate[u]
          /\ gate'[t].state = "blocked" /\ gate'[t].intent = gate[t].intent
      BY <1>1, <1>4, <2>1, <2>2
    <2> HIDE DEF t
    <2> QED  BY <1>1, <1>2, <1>4, <2>3, GateSettles
  <1>5. CASE /\ gate[t].state = "pending" /\ session.state # "activating"
             /\ CommitOnEpochs(t, seen)
             /\ gate' = [gate EXCEPT ![t].state = "committed", ![t].set = seen.set,
                                     ![t].result = seen.active_intent]
             /\ session' = [session EXCEPT
                  !.context = seen.context, !.intent = seen.intent,
                  !.active_intent = seen.active_intent, !.set = seen.set, !.last_gate = t]
    <2>1. /\ seen.context = session.context /\ seen.intent = session.intent
          /\ seen.active_intent = session.active_intent /\ seen.set = session.set
          /\ EpochsAgree(t)
      BY <1>1, <1>5, ReadIsCurrent
    <2>2. /\ seen.set \in Sets /\ seen.active_intent \in Intents \cup {NoIntent}
      BY <1>1 DEF Call, Session
    <2> HIDE DEF t, seen
    <2>3. gate'[t] = [state |-> "committed", id |-> gate[t].id, context |-> gate[t].context,
             intent |-> gate[t].intent, generation |-> gate[t].generation,
             result |-> seen.active_intent, set |-> seen.set, plugin |-> gate[t].plugin]
      <3>1. /\ gate \in [Turns -> Gate] /\ t \in Turns
            /\ gate' = [gate EXCEPT ![t].state = "committed", ![t].set = seen.set,
                                    ![t].result = seen.active_intent]
        BY <1>1, <1>5
      <3>2. gate[t] \in Gate
        BY <3>1
      <3> QED  BY ONLY <3>1, <3>2 DEF Gate
    <2>4. gate'[t] \in Gate
      BY <1>1, <2>2, <2>3 DEF Gate, GateStates
    <2>5. /\ gate' \in [Turns -> Gate] /\ \A u \in Turns : u # t => gate'[u] = gate[u]
          /\ gate'[t].state = "committed" /\ gate'[t].intent = gate[t].intent
          /\ gate'[t].result = session.active_intent /\ gate'[t].set = session.set
      BY <1>1, <1>5, <2>1, <2>3, <2>4
    <2>6. session' = [state |-> session.state, context |-> session.context,
             intent |-> session.intent, active_intent |-> session.active_intent,
             set |-> session.set, delivery |-> session.delivery,
             receipt |-> session.receipt, last_gate |-> t]
      BY <1>1, <1>5, <2>1 DEF Session
    <2>7. /\ session' \in Session
          /\ session'.state = session.state /\ session'.context = session.context
          /\ session'.intent = session.intent /\ session'.active_intent = session.active_intent
          /\ session'.set = session.set /\ session'.delivery = session.delivery
          /\ session'.receipt = session.receipt /\ session'.last_gate = t
      BY <1>1, <2>6 DEF Session
    <2> QED  BY <1>1, <1>2, <1>5, <2>1, <2>5, <2>7, GateSettles DEF EpochsAgree
  <1> QED  BY <1>3, <1>4, <1>5 DEF CommitTurnGate

(* gate_turn replaces the intent: another delivery is prepared in this Turn. *)
LEMMA BeginIntentStep ==
  ASSUME RecallInv, NEW c \in Callers, NEW i \in Intents, NEW g \in Generations,
         BeginIntentDelivery(c, i, g)
  PROVE  RecallInv' /\ Stands
  <1> DEFINE t == call[c].turn
             consent == [state |-> "committed", card |-> FALSE, alive |-> TRUE,
                         fresh |-> TRUE, intent |-> i, generation |-> g, plugin |-> plugin]
             claimed == [state |-> "preparing", claim |-> c, alive |-> TRUE,
                         shortlist |-> {}, receipt |-> NoSet]
             regated == [state |-> gate[t].state, id |-> gate[t].id,
                         context |-> gate[t].context, intent |-> gate[t].intent,
                         generation |-> g, result |-> gate[t].result,
                         set |-> gate[t].set, plugin |-> gate[t].plugin]
  <1>1. /\ call[c].step = "preflight" /\ attempt[t].state = "none"
        /\ session.state = "active" /\ gate[t].state = "pending"
        /\ attempt' = [attempt EXCEPT ![t] = consent]
        /\ delivery' = [delivery EXCEPT ![t] =
             [NoDelivery EXCEPT !.state = "preparing", !.claim = c, !.alive = TRUE]]
        /\ gate' = [gate EXCEPT ![t].generation = g]
        /\ call' = [call EXCEPT ![c] = [Idle EXCEPT !.step = "intent", !.turn = t]]
        /\ active' \subseteq active
        /\ \E set \in {NoSet, session.set} :
             session' = [session EXCEPT !.state = "activating", !.set = set]
        /\ UNCHANGED <<ledgerVars, internal, plugin, received, interrupts>>
    BY DEF BeginIntentDelivery, IntentStands
  <1>2. /\ attempt \in [Turns -> Attempt] /\ delivery \in [Turns -> Delivery]
        /\ gate \in [Turns -> Gate] /\ call \in [Callers -> Call] /\ session \in Session
        /\ t \in Turns /\ Now' = Now /\ plugin \in Plugins
    BY <1>1 DEF RecallInv, RowTypes, CallsWork, WorldTypes, Plugins, ledgerVars, Now
  <1>3. /\ session.state = "active" /\ gate[t].state = "pending" /\ delivery[t].state = "none"
        /\ t <= Now /\ Now \in Nat /\ gate[t].intent \in Nat
    BY <1>1, <1>2, HostTyped DEF RecallInv, Consented, Gated, Gate, Epochs
  <1>4. consent \in Attempt /\ claimed \in Delivery
    BY <1>2, NoSessionTyped DEF Attempt, AttemptStates, Delivery, DeliveryStates
  <1>5. delivery'[t] = claimed
    BY <1>1, <1>2 DEF NoDelivery
  <1>6. regated \in Gate /\ gate'[t] = regated
    <2>1. gate[t] \in Gate
      BY <1>2
    <2>2. regated \in Gate
      BY <2>1 DEF Gate
    <2>3. gate'[t] = regated
      BY <1>1, <1>2, <2>1 DEF Gate
    <2> QED  BY <2>2, <2>3
  <1>7. PICK set \in {NoSet, session.set} :
          session' = [state |-> "activating", context |-> session.context,
             intent |-> session.intent, active_intent |-> session.active_intent,
             set |-> set, delivery |-> session.delivery,
             receipt |-> session.receipt, last_gate |-> session.last_gate]
    <2>1. PICK set \in {NoSet, session.set} :
            session' = [session EXCEPT !.state = "activating", !.set = set]
      BY <1>1
    <2>2. session \in Session
      BY <1>2
    <2>3. session' = [state |-> "activating", context |-> session.context,
             intent |-> session.intent, active_intent |-> session.active_intent,
             set |-> set, delivery |-> session.delivery,
             receipt |-> session.receipt, last_gate |-> session.last_gate]
      BY ONLY <2>1, <2>2 DEF Session
    <2> QED  BY <2>3
  <1>8. /\ session' \in Session /\ session'.state = "activating"
        /\ session'.context = session.context /\ session'.intent = session.intent
        /\ session'.last_gate = session.last_gate
        /\ session'.delivery = session.delivery /\ session'.receipt = session.receipt
    BY <1>2, <1>7, NoSessionTyped DEF Session
  <1>9. /\ call' \in [Callers -> Call] /\ call'[c].step = "intent" /\ call'[c].turn = t
        /\ \A d \in Callers : d # c => call'[d] = call[d]
    <2> DEFINE new == [Idle EXCEPT !.step = "intent", !.turn = t]
    <2>1. new \in Call /\ new.step = "intent" /\ new.turn = t
      BY <1>2, IdleTyped DEF Idle, Call, Steps
    <2>2. call' = [call EXCEPT ![c] = new]
      BY <1>1
    <2> HIDE DEF new, t
    <2> QED  BY <1>2, <2>1, <2>2
  <1>10. /\ consent.state = "committed" /\ consent.intent = i
         /\ claimed.state = "preparing" /\ regated.state = "pending"
         /\ regated.context = gate[t].context /\ regated.intent = gate[t].intent
    BY <1>3
  <1> HIDE DEF consent, claimed, regated
  <1>11. /\ attempt' \in [Turns -> Attempt] /\ attempt'[t] = consent
         /\ \A u \in Turns : u # t => attempt'[u] = attempt[u]
    BY <1>1, <1>2, <1>4
  <1>12. /\ delivery' \in [Turns -> Delivery]
         /\ \A u \in Turns : u # t => delivery'[u] = delivery[u]
    BY <1>1, <1>2, <1>4, <1>5
  <1>13. /\ gate' \in [Turns -> Gate]
         /\ \A u \in Turns : u # t => gate'[u] = gate[u]
    BY <1>1, <1>2, <1>6
  <1>14. RowTypes'
    BY <1>1, <1>8, <1>9, <1>11, <1>12, <1>13 DEF RecallInv, RowTypes
  <1>15. t <= Now /\ Now \in Nat /\ session.intent \in Nat /\ session.context \in Nat
    BY <1>2, <1>3 DEF Session, Epochs
  <1>16. Consented'
    BY <1>2, <1>5, <1>10, <1>11, <1>12, <1>15 DEF RecallInv, Consented
  <1>17. CallsWork'
    BY <1>1, <1>2, <1>9, <1>10, <1>11 DEF RecallInv, CallsWork
  <1>18. HandedOut'
    BY <1>1, <1>3, <1>12 DEF RecallInv, HandedOut
  <1>19. Gated'
    <2>1. session.state # "none" => Now # NoTurn /\ ~internal
      BY DEF RecallInv, Gated
    <2>2. \A u \in Turns :
            gate'[u].state # "none" =>
              u <= Now /\ gate'[u].intent < u /\ gate'[u].intent <= session.intent
      BY <1>3, <1>6, <1>10, <1>13 DEF RecallInv, Gated
    <2>3. PendingIsCurrent'
      <3>1. WorldStep
        BY <1>1, Rests
      <3>2. ASSUME NEW u \in Turns
            PROVE  /\ gate'[u].state = gate[u].state /\ gate'[u].context = gate[u].context
                   /\ gate'[u].intent = gate[u].intent
                   /\ gate[u].state = "committed" => gate'[u].set = gate[u].set
        BY <1>3, <1>6, <1>10, <1>13
      <3> QED  BY <1>3, <1>8, <3>1, <3>2, PendingRests
    <2> QED  BY <1>1, <1>2, <1>3, <1>8, <2>1, <2>2, <2>3 DEF Gated, RecallInv, Running, ledgerVars
  <1>20. Counted'
    <2>1. session.last_gate # NoTurn => gate'[session.last_gate].state \in {"committed", "blocked"}
      BY <1>2, <1>3, <1>13 DEF RecallInv, Counted, Session
    <2> QED  BY <1>1, <1>8, <2>1 DEF RecallInv, Counted, Compacting, ledgerVars
  <1>21. SeenIsCurrent'
    BY <1>8, <1>9 DEF RecallInv, SeenIsCurrent
  <1>22. Receipted' /\ GatesFollow'
    BY <1>8 DEF Receipted, ActiveSetIsReceipted, GatesFollow
  <1>23. Stands
    BY <1>1, <1>3, <1>8, <1>11, <1>12, <1>13, <1>15 DEF Stands, Settled
  <1>24. OneIsLive'
    <2>1. \A u \in Turns : delivery[u].state \notin LiveStates
      BY <1>3 DEF RecallInv, OneIsLive
    <2> QED  BY <1>8, <1>12, <2>1 DEF OneIsLive
  <1>25. Applying'
    <2>1. \A u \in Turns :
            /\ delivery[u].state # "none" /\ delivery'[u].state \in LiveStates =>
                 delivery[u].state \in LiveStates
            /\ gate'[u].state = "committed" => gate[u].state = "committed"
      BY <1>3, <1>6, <1>10, <1>12, <1>13
    <2>2. \A d \in Callers : call'[d].step = "apply" => call'[d] = call[d]
      BY <1>9
    <2>3. session.state # "blocked"
      BY <1>3
    <2> QED  BY <1>1, <1>18, <2>1, <2>2, <2>3, Rests, ApplyingRests
  <1> QED
    BY <1>1, <1>14, <1>16, <1>17, <1>18, <1>19, <1>20, <1>21, <1>22, <1>23, <1>24, <1>25, Rests
       DEF RecallInv, WorldStep

(* The commit of an application, in the running Turn or after it: what is   *)
(* accepted becomes the active set, receipt and gate of one transaction.   *)
LEMMA CommitApplicationStep ==
  ASSUME RecallInv, NEW c \in Callers, NEW applicable \in Classified(c),
         NEW blocked \in BOOLEAN, CommitDeliveryApplication(c, applicable, blocked)
  PROVE  RecallInv' /\ Stands
  <1>0. PICK t \in Turns, d \in Turns : t = call[c].turn /\ d = call[c].delivery
    BY DEF CommitDeliveryApplication, RecallInv, Applying
  <1> DEFINE next == session.intent + 1
             set == <<d, gate[t].context, next, applicable>>
             outcome == IF blocked THEN "blocked" ELSE "committed"
             applied == IF blocked THEN "blocked" ELSE "application_committed"
             state == IF blocked THEN "blocked" ELSE "active"
  <1>1. /\ call[c].step = "apply" /\ Return(c)
        /\ d \in Delivered /\ gate[t].state = "pending" /\ EpochsAgree(t)
        /\ session.state \in {"activating", "active"}
        /\ applicable \in SUBSET delivery[d].shortlist
        /\ delivery' = [delivery EXCEPT ![d].state = applied, ![d].receipt = set]
        /\ active' = {[decision |-> x, delivery |-> d, receipt |-> set] : x \in applicable}
        /\ gate' = [gate EXCEPT ![t].state = outcome, ![t].set = set,
                                ![t].result = attempt[d].intent]
        /\ session' = [session EXCEPT
             !.state = state, !.intent = next, !.active_intent = attempt[d].intent,
             !.set = set, !.delivery = d, !.receipt = set, !.last_gate = t]
        /\ UNCHANGED <<ledgerVars, attempt, internal, plugin, received, interrupts>>
    BY <1>0 DEF CommitDeliveryApplication, ApplicationStands, Classified, Applied
  <1>2. /\ delivery \in [Turns -> Delivery] /\ gate \in [Turns -> Gate] /\ session \in Session
        /\ t \in Turns /\ d \in Turns /\ Now' = Now /\ t <= Now /\ Now \in Nat
        /\ received \subseteq Turns \X SUBSET Decisions
        /\ <<d, delivery[d].shortlist>> \in received
    BY <1>1, <1>0, HostTyped DEF RecallInv, RowTypes, Applying, ledgerVars, Now
  <1>3. /\ gate[t].state = "pending" /\ session.state = "activating"
        /\ delivery[d].state \in {"host_delivered", "delivery_unknown"}
        /\ delivery[d].state \in LiveStates
        /\ \A u \in Turns : delivery[u].state \in LiveStates => u = d
        /\ \A u \in Turns : OpenTurn(log, Task, u) => u >= t
        /\ \A u \in Turns : u > t => gate[u].state # "committed"
    <2>1. delivery[d].state \in {"host_delivered", "delivery_unknown"}
      BY <1>1 DEF Delivered
    <2>2. delivery[d].state \in LiveStates
      BY <2>1 DEF LiveStates
    <2>3. /\ session.state \in {"activating", "blocked"}
          /\ \A u \in Turns : delivery[u].state \in LiveStates => u = d
      BY <1>2, <2>2 DEF RecallInv, OneIsLive
    <2> QED  BY <1>1, <1>0, <2>1, <2>2, <2>3 DEF RecallInv, Applying
  <1>4. /\ delivery[d] \in Delivery /\ gate[t] \in Gate
        /\ delivery[d].shortlist \in SUBSET Decisions /\ delivery[d].claim = Nobody
        /\ attempt[d].state = "committed" /\ attempt[d].intent \in Intents
    BY <1>2, <1>3 DEF RecallInv, Consented, Delivery
  <1>5. /\ session.intent \in Nat /\ session.context \in Nat
        /\ gate[t].context \in Epochs /\ gate[t].intent = session.intent
        /\ gate[t].context = session.context
        /\ next \in Nat /\ next <= t /\ next \in Epochs /\ next > session.intent
    <2>1. /\ gate[t].intent < t /\ gate[t].intent = session.intent
          /\ gate[t].context \in Epochs /\ gate[t].context = session.context
      BY <1>1, <1>2, <1>3, <1>4 DEF RecallInv, Gated, EpochsAgree, Gate
    <2>2. session.intent \in Nat /\ session.context \in Nat
      BY <1>2 DEF Session, Epochs
    <2> QED  BY <1>2, <2>1, <2>2 DEF Epochs
  <1>6. set \in Sets /\ set[4] = applicable
    BY <1>1, <1>2, <1>4, <1>5 DEF Sets
  <1>7. /\ outcome \in {"blocked", "committed"}
        /\ applied \in {"blocked", "application_committed"}
        /\ state \in {"blocked", "active"}
        /\ state = "active" => applied = "application_committed"
    OBVIOUS
  <1> HIDE DEF next, set, outcome, applied, state
  <1>8. /\ delivery'[d] = [state |-> applied, claim |-> delivery[d].claim,
              alive |-> delivery[d].alive, shortlist |-> delivery[d].shortlist,
              receipt |-> set]
        /\ \A u \in Turns : u # d => delivery'[u] = delivery[u]
    <2>1. delivery' = [delivery EXCEPT ![d].state = applied, ![d].receipt = set]
      BY <1>1
    <2> QED  BY ONLY <1>2, <1>4, <2>1 DEF Delivery
  <1>9. delivery' \in [Turns -> Delivery]
    <2>1. delivery[d].alive \in BOOLEAN
      BY <1>4 DEF Delivery
    <2>2. delivery'[d] \in Delivery
      BY <1>4, <1>6, <1>7, <1>8, <2>1 DEF Delivery, DeliveryStates
    <2> QED  BY <1>1, <1>2, <2>2
  <1>10. /\ gate'[t] = [state |-> outcome, id |-> gate[t].id, context |-> gate[t].context,
               intent |-> gate[t].intent, generation |-> gate[t].generation,
               result |-> attempt[d].intent, set |-> set, plugin |-> gate[t].plugin]
         /\ \A u \in Turns : u # t => gate'[u] = gate[u]
    <2>1. gate' = [gate EXCEPT ![t].state = outcome, ![t].set = set,
                               ![t].result = attempt[d].intent]
      BY <1>1
    <2> QED  BY ONLY <1>2, <1>4, <2>1 DEF Gate
  <1>11. gate' \in [Turns -> Gate]
    <2>1. gate'[t] \in Gate
      BY <1>4, <1>6, <1>7, <1>10 DEF Gate, GateStates
    <2> QED  BY <1>1, <1>2, <2>1
  <1>12. session' = [state |-> state, context |-> session.context, intent |-> next,
              active_intent |-> attempt[d].intent, set |-> set, delivery |-> d,
              receipt |-> set, last_gate |-> t]
    <2>1. session' = [session EXCEPT
             !.state = state, !.intent = next, !.active_intent = attempt[d].intent,
             !.set = set, !.delivery = d, !.receipt = set, !.last_gate = t]
      BY <1>1
    <2> QED  BY ONLY <1>2, <2>1 DEF Session
  <1>13. session' \in Session
    BY <1>2, <1>4, <1>5, <1>6, <1>7, <1>12 DEF Session
  <1>14. active' \subseteq Item
    BY <1>1, <1>2, <1>4, <1>6 DEF Item
  <1>14a. call' \in [Callers -> Call] /\ CallsGoOn
    BY <1>1, Returned DEF RecallInv, RowTypes
  <1>15. RowTypes'
    BY <1>1, <1>9, <1>11, <1>13, <1>14, <1>14a DEF RecallInv, RowTypes
  <1>16. Consented'
    BY <1>1, <1>2, <1>3, <1>4, <1>8 DEF RecallInv, Consented
  <1>17. CallsWork'
    BY <1>1, <1>14a DEF RecallInv, CallsWork, CallsGoOn
  <1>18. HandedOut'
    BY <1>1, <1>2, <1>7, <1>8 DEF RecallInv, HandedOut
  <1>19. Gated'
    <2>1. \A u \in Turns :
            gate'[u].state # "none" =>
              u <= Now /\ gate'[u].intent < u /\ gate'[u].intent <= session'.intent
      <3>1. ASSUME NEW u \in Turns, gate'[u].state # "none"
            PROVE  gate[u].state # "none" /\ gate'[u].intent = gate[u].intent /\ gate[u].intent \in Nat
        <4>1. gate[u].intent \in Nat
          BY <1>2 DEF Gate, Epochs
        <4>2. CASE u = t
          BY <1>3, <1>10, <4>1, <4>2
        <4>3. CASE u # t
          BY <1>10, <3>1, <4>1, <4>3
        <4> QED  BY <4>2, <4>3
      <3> QED  BY <1>5, <1>12, <3>1 DEF RecallInv, Gated
    <2>2. PendingIsCurrent'
      <3> SUFFICES ASSUME Running, gate'[Now].state = "pending", session'.state # "blocked"
                   PROVE  gate'[Now].context = session'.context /\ Overtaken(Now)'
        BY <1>1, <1>2 DEF PendingIsCurrent, Running, ledgerVars, Overtaken
      <3>1. PICK n \in Turns : n = Now
        BY <1>2, HostTyped DEF RecallInv, Gated
      <3>2. n # t /\ gate'[n] = gate[n] /\ t < n
        BY <1>2, <1>7, <1>10, <3>1
      <3>3. gate[n].context = session.context /\ gate[n].intent <= session.intent
        BY <1>3, <3>1, <3>2 DEF RecallInv, Gated, PendingIsCurrent
      <3>4. gate[n].intent \in Nat
        BY <1>2 DEF Gate, Epochs
      <3>5. /\ gate'[t].state = "committed" /\ session'.delivery # NoTurn
            /\ gate'[t].set = session'.receipt /\ session'.receipt[3] > gate'[n].intent
        <4>1. state # "blocked"
          BY <1>12
        <4>2. outcome = "committed"
          BY <4>1 DEF outcome, state
        <4>3. set[3] = next
          BY DEF set
        <4> QED  BY <1>2, <1>5, <1>10, <1>12, <3>2, <3>3, <3>4, <4>2, <4>3
      <3>6. \E u \in Turns :
              /\ u < Now' /\ gate'[u].state = "committed"
              /\ session'.delivery # NoTurn /\ gate'[u].set = session'.receipt
              /\ session'.receipt[3] > gate'[Now'].intent
        BY <1>2, <3>1, <3>2, <3>5
      <3> QED  BY <1>12, <3>1, <3>2, <3>3, <3>6 DEF Overtaken
    <2>3. session.state # "none" => Now # NoTurn /\ ~internal
      BY DEF RecallInv, Gated
    <2>4. session'.state # "none"
      BY <1>7, <1>12
    <2> QED  BY <1>1, <1>2, <1>3, <2>1, <2>2, <2>3, <2>4 DEF Gated, Running, ledgerVars
  <1>20. Counted'
    BY <1>1, <1>5, <1>7, <1>10, <1>12 DEF RecallInv, Counted, Compacting, ledgerVars
  <1>21. SeenIsCurrent'
    <2> SUFFICES ASSUME NEW e \in Callers, call[e].step = "reuse"
                 PROVE  /\ call[e].seen.intent <= session'.intent
                        /\ call[e].seen.intent # session'.intent
                        /\ session'.state # "none"
      BY <1>14a DEF SeenIsCurrent, CallsGoOn, GateSteps
    <2>1. call[e].seen.intent <= session.intent /\ call[e].seen.intent \in Nat
      BY DEF RecallInv, SeenIsCurrent, RowTypes, Call, Session, Epochs
    <2> QED  BY <1>5, <1>7, <1>12, <2>1
  <1>22. Receipted'
    <2> SUFFICES ASSUME session'.state \in {"active", "dormant"} PROVE Receipted'
      BY DEF Receipted, ActiveSetIsReceipted
    <2>1. /\ session'.delivery = d /\ session'.receipt = set /\ session'.set = set
          /\ delivery'[d].state = "application_committed" /\ delivery'[d].receipt = set
          /\ delivery'[d].shortlist = delivery[d].shortlist
      BY <1>7, <1>8, <1>12
    <2>2. /\ {x.decision : x \in active'} = applicable
          /\ \A x \in active' : x.delivery = d /\ x.receipt = set
      <3> DEFINE item(x) == [decision |-> x, delivery |-> d, receipt |-> set]
      <3>1. active' = {item(x) : x \in applicable}
        BY <1>1
      <3>2. \A x : /\ item(x).decision = x /\ item(x).delivery = d
                   /\ item(x).receipt = set
        OBVIOUS
      <3> HIDE DEF item
      <3> QED  BY <3>1, <3>2
    <2> QED  BY <1>1, <1>2, <1>6, <2>1, <2>2 DEF Receipted, ActiveSetIsReceipted
  <1>23. GatesFollow'
    <2> SUFFICES ASSUME NEW u \in Turns, OpenTurn(log, Task, u), gate'[u].state = "committed"
                 PROVE  gate'[u].result = session'.active_intent /\ gate'[u].set = session'.set
      BY <1>1 DEF GatesFollow, ledgerVars
    <2>1. u = t
      <3>1. u >= t
        BY <1>3
      <3>2. u # t => gate[u].state = "committed" /\ u > t
        BY <1>2, <1>10, <3>1
      <3> QED  BY <1>3, <3>2
    <2> QED  BY <1>10, <1>12, <2>1
  <1>24. Stands
    <2>1. ASSUME NEW u \in Turns PROVE Settled(u)
      <3>1. delivery[u].state \in {"application_committed", "blocked"} => delivery'[u] = delivery[u]
        BY <1>3, <1>8
      <3>2. gate[u].state \in {"committed", "blocked"} => gate'[u] = gate[u]
        BY <1>3, <1>10
      <3> QED  BY <1>1, <3>1, <3>2 DEF Settled
    <2>2. session'.context = session.context /\ session'.intent = next
      BY <1>12
    <2> QED  BY <1>5, <2>1, <2>2 DEF Stands
  <1>25. OneIsLive' /\ Applying'
    <2>1. \A u \in Turns : delivery'[u].state \notin LiveStates
      BY <1>3, <1>7, <1>8 DEF LiveStates
    <2>2. OneIsLive'
      BY <2>1 DEF OneIsLive
    <2>3. \A e \in Callers : call'[e].step = "apply" => call'[e] = call[e]
      BY <1>14a DEF CallsGoOn, GateSteps
    <2>4. session'.state # "activating"
      BY <1>7, <1>12
    <2>5. Applying'
      BY <1>1, <1>18, <2>1, <2>3, <2>4, Rests, ApplyingRests
    <2> QED  BY <2>2, <2>5
  <1> QED
    BY <1>1, <1>15, <1>16, <1>17, <1>18, <1>19, <1>20, <1>21, <1>22, <1>23, <1>24, <1>25, Rests
       DEF RecallInv, WorldStep

(* A restored context is one context epoch; the pending gate of the running *)
(* Turn moves along.                                                       *)
LEMMA EpochStep ==
  ASSUME RecallInv, WorldStep, NEW source, NEW key, NEW rebased \in Turns \cup {NoTurn},
         BeginContextEpoch(source, key, rebased), session.state = "active",
         Now' = Now, session.context + 1 <= host'[Task].breaks, ~Compacting',
         rebased # NoTurn =>
           rebased = Now /\ gate[rebased].state = "pending" /\ EpochsAgree(rebased),
         rebased = NoTurn /\ Running' => gate[Now].state # "pending",
         UNCHANGED <<call, received>>
  PROVE  RecallInv' /\ Stands
  <1> DEFINE epoch == session.context + 1
  <1>1. /\ gate \in [Turns -> Gate] /\ session \in Session
        /\ session.context \in Nat /\ session.intent \in Nat /\ session.intent \in Epochs
        /\ epoch \in Nat /\ Now \in Nat
        /\ session.last_gate \in Turns \cup {NoTurn}
    BY DEF RecallInv, RowTypes, Session, Epochs, WorldStep
  <1>2. epoch \in Epochs
    <2>1. host'[Task].breaks \in 0..MaxBreaks
      BY DEF WorldStep, WorldTypes, Host
    <2> QED  BY <1>1, <2>1 DEF Epochs
  <1>3. /\ session' = [session EXCEPT !.context = epoch]
        /\ UNCHANGED <<attempt, delivery, active, internal>>
    BY DEF BeginContextEpoch
  <1>4. session' = [state |-> session.state, context |-> epoch, intent |-> session.intent,
              active_intent |-> session.active_intent, set |-> session.set,
              delivery |-> session.delivery, receipt |-> session.receipt,
              last_gate |-> session.last_gate]
    BY ONLY <1>1, <1>3 DEF Session
  <1>5. session' \in Session
    BY <1>1, <1>2, <1>4 DEF Session
  <1>6. /\ gate' \in [Turns -> Gate]
        /\ \A u \in Turns :
             /\ gate'[u].state = gate[u].state /\ gate'[u].intent = gate[u].intent
             /\ gate[u].state # "pending" => gate'[u] = gate[u]
             /\ u = rebased => gate'[u].context = epoch
    <2>1. CASE rebased = NoTurn
      BY <1>1, <2>1 DEF BeginContextEpoch
    <2>2. CASE rebased \in Turns
      <3> DEFINE id == <<epoch, session.intent, gate[rebased].generation>>
                 moved == [state |-> gate[rebased].state, id |-> id, context |-> epoch,
                           intent |-> gate[rebased].intent,
                           generation |-> gate[rebased].generation,
                           result |-> gate[rebased].result, set |-> gate[rebased].set,
                           plugin |-> gate[rebased].plugin]
      <3>1. gate' = [gate EXCEPT ![rebased].id = id, ![rebased].context = epoch]
        BY <2>2 DEF BeginContextEpoch
      <3>2. gate[rebased] \in Gate
        BY <1>1, <2>2
      <3>3. gate[rebased].generation \in Generations \cup {NoGeneration}
        BY <3>2 DEF Gate
      <3>4. id \in GateIds
        BY <1>1, <1>2, <3>3 DEF GateIds
      <3> HIDE DEF id, epoch
      <3>5. gate'[rebased] = moved
        BY ONLY <1>1, <2>2, <3>1, <3>2 DEF Gate
      <3>6. moved \in Gate
        BY <1>2, <3>2, <3>4 DEF Gate
      <3>7. /\ moved.state = gate[rebased].state /\ moved.intent = gate[rebased].intent
            /\ moved.context = epoch
        OBVIOUS
      <3> HIDE DEF moved
      <3>8. \A u \in Turns : u # rebased => gate'[u] = gate[u]
        BY <1>1, <3>1
      <3>9. gate' \in [Turns -> Gate]
        BY <1>1, <2>2, <3>1, <3>5, <3>6
      <3> QED  BY <2>2, <3>5, <3>7, <3>8, <3>9
    <2> QED  BY <2>1, <2>2
  <1> HIDE DEF epoch
  <1>7. RowTypes'
    BY <1>3, <1>5, <1>6 DEF RecallInv, RowTypes
  <1>8. Gated'
    <2>1. session'.state # "none" /\ session.state # "none"
      BY <1>4
    <2>2. Now # NoTurn /\ ~internal
      BY <2>1 DEF RecallInv, Gated
    <2>3. \A u \in Turns :
            gate'[u].state # "none" =>
              u <= Now /\ gate'[u].intent < u /\ gate'[u].intent <= session'.intent
      BY <1>4, <1>6 DEF RecallInv, Gated
    <2>4. PendingIsCurrent'
      <3> SUFFICES ASSUME Running', gate'[Now].state = "pending"
                   PROVE  gate'[Now].context = session'.context /\ gate'[Now].intent = session'.intent
        BY DEF PendingIsCurrent
      <3>1. Now \in Turns
        BY <1>1, <2>2, HostTyped DEF RecallInv
      <3>2. gate[Now].state = "pending"
        BY <1>6, <3>1
      <3>3. rebased = Now /\ EpochsAgree(Now)
        BY <3>2
      <3> QED  BY <1>4, <1>6, <3>1, <3>3 DEF EpochsAgree
    <2> QED  BY <1>3, <2>1, <2>2, <2>3, <2>4 DEF Gated
  <1>9. Counted'
    <2>1. session.last_gate # NoTurn => gate'[session.last_gate].state \in {"committed", "blocked"}
      BY <1>1, <1>6 DEF RecallInv, Counted
    <2> QED  BY <1>4, <2>1 DEF RecallInv, Counted, epoch
  <1>10. SeenIsCurrent'
    BY <1>4 DEF RecallInv, SeenIsCurrent
  <1>11. Receipted'
    BY <1>3, <1>4 DEF RecallInv, Receipted, ActiveSetIsReceipted
  <1>12. GatesFollow'
    <2> SUFFICES ASSUME NEW u \in Turns, gate'[u].state = "committed", OpenTurn(log', Task, u)
                 PROVE  gate'[u].result = session'.active_intent /\ gate'[u].set = session'.set
      BY DEF GatesFollow
    <2>1. gate[u].state = "committed" /\ gate'[u] = gate[u]
      BY <1>6
    <2>2. OpenTurn(log, Task, u)
      BY <1>1 DEF WorldStep
    <2> QED  BY <1>4, <2>1, <2>2 DEF RecallInv, GatesFollow
  <1>13. Stands
    <2>1. \A u \in Turns : Settled(u)
      BY <1>3, <1>6 DEF Settled
    <2>2. epoch >= session.context
      BY <1>1 DEF epoch
    <2> QED  BY <1>1, <1>4, <2>1, <2>2 DEF Stands
  <1>14. OneIsLive' /\ Applying'
    <2>1. HandedOut' /\ session'.state = session.state
      BY <1>3, <1>4, RowsRest
    <2>2. \A u \in Turns : gate'[u].state = "committed" => gate[u].state = "committed"
      BY <1>6
    <2> QED  BY <1>3, <2>1, <2>2, LiveRests, ApplyingRests DEF LiveRest
  <1> QED
    BY <1>3, <1>7, <1>8, <1>9, <1>10, <1>11, <1>12, <1>13, <1>14, RowsRest DEF RecallInv, WorldStep

(* The Session falls asleep or wakes up; its open cards may be retired.     *)
LEMMA SessionSleeps ==
  ASSUME RecallInv, WorldStep, NEW state \in {"active", "dormant"},
         session.state \in {"active", "dormant"},
         session' = [session EXCEPT !.state = state],
         attempt' \in [Turns -> Attempt], DecidedStay, Consented',
         UNCHANGED <<delivery, active, gate, internal, call, received>>
  PROVE  RecallInv' /\ Stands
  <1>1. session \in Session /\ session.context \in Nat /\ session.intent \in Nat
    BY DEF RecallInv, RowTypes, Session, Epochs
  <1>2. session' = [state |-> state, context |-> session.context, intent |-> session.intent,
              active_intent |-> session.active_intent, set |-> session.set,
              delivery |-> session.delivery, receipt |-> session.receipt,
              last_gate |-> session.last_gate]
    BY ONLY <1>1, session' = [session EXCEPT !.state = state] DEF Session
  <1>3. RowTypes'
    BY <1>1, <1>2 DEF RecallInv, RowTypes, Session
  <1>4. CallsWork' /\ HandedOut'
    BY DEF RecallInv, CallsWork, HandedOut, DecidedStay
  <1>5. Now \in Nat /\ Now' \in Nat /\ (Now' = Now \/ Now' = Now + 1) /\ Now' <= MaxTurns
    BY DEF WorldStep
  <1>6. Gated'
    <2>1. session.state # "none" /\ session'.state # "none"
      BY <1>2
    <2>2. \A u \in Turns :
            gate[u].state # "none" =>
              u <= Now /\ gate[u].intent < u /\ gate[u].intent <= session'.intent
      BY <1>2 DEF RecallInv, Gated
    <2>3. Now # NoTurn /\ ~internal
      BY <2>1 DEF RecallInv, Gated
    <2>4. Running' => Now' # NoTurn
      BY DEF WorldStep
    <2>5. PendingIsCurrent'
      BY <1>2, PendingRests
    <2> QED  BY <1>5, <2>1, <2>2, <2>3, <2>4, <2>5 DEF Gated
  <1>7. Counted'
    <2>1. host'[Task].breaks \in Nat /\ host[Task].breaks \in Nat
      BY HostTyped DEF RecallInv, WorldStep, WorldTypes, Host
    <2> QED  BY <1>1, <1>2, <2>1 DEF RecallInv, Counted, WorldStep
  <1>8. SeenIsCurrent'
    BY <1>2 DEF RecallInv, SeenIsCurrent
  <1>9. Receipted'
    BY <1>2 DEF RecallInv, Receipted, ActiveSetIsReceipted
  <1>10. GatesFollow'
    <2> SUFFICES ASSUME NEW u \in Turns, gate[u].state = "committed", OpenTurn(log', Task, u)
                 PROVE  gate[u].result = session'.active_intent /\ gate[u].set = session'.set
      BY DEF GatesFollow
    <2>1. OpenTurn(log, Task, u)
      BY <1>5 DEF WorldStep, RecallInv, Gated
    <2> QED  BY <1>2, <2>1 DEF RecallInv, GatesFollow
  <1>11. Stands
    BY <1>1, <1>2 DEF Stands, Settled, DecidedStay
  <1>12. OneIsLive' /\ Applying'
    BY <1>2, <1>4, LiveRests, ApplyingRests DEF LiveRest
  <1> QED
    BY <1>3, <1>4, <1>6, <1>7, <1>8, <1>9, <1>10, <1>11, <1>12 DEF RecallInv, WorldStep

-----------------------------------------------------------------------------
(* Hooks that retire, restore or resume, and the rest of the world.         *)

(* Events without an effect on the rows of Recall.                         *)
LEMMA SilentHooks ==
  ASSUME RecallInv, WorldStep,
         \/ SessionStarts \/ TurnStops \/ ContextCompacted
         \/ \E trigger \in Triggers : ContextCompacting(trigger)
  PROVE  RecallInv' /\ Stands
  <1>1. UNCHANGED <<storeVars, call, received>>
    BY DEF SessionStarts, TurnStops, ContextCompacted, ContextCompacting,
           RecordedOrLost, recallVars
  <1> QED  BY <1>1, StoreRests

(* The Turn that was compacted goes on: no break is restored twice, so      *)
(* there is one left that the context epoch can count.                     *)
LEMMA RestartStep ==
  ASSUME RecallInv, WorldStep, ContextRestarts
  PROVE  RecallInv' /\ Stands
  <1> DEFINE t == Now
             key == <<"compact", t, host[Task].trigger>>
  <1>1. /\ HostGoes(Task, {"compacted"}, "turn")
        /\ UNCHANGED <<call, plugin, received>>
        /\ RestoreAfterCompaction(t, host[Task].trigger, log') \/ UNCHANGED storeVars
    BY DEF ContextRestarts, HostContinues, Hook
  <1>2. /\ host[Task].phase = "compacted" /\ host'[Task].phase = "turn" /\ Now' = Now
        /\ host'[Task].breaks >= host[Task].breaks
        /\ host'[Task].breaks \in Nat /\ host[Task].breaks \in Nat
    <2>1. WorldTypes /\ WorldTypes'
      BY DEF RecallInv, WorldStep
    <2>2. /\ host[Task].phase \in {"compacted"} /\ host'[Task].phase = "turn" /\ Now' = Now
          /\ host'[Task].breaks >= host[Task].breaks
      BY <1>1, <2>1, HostWent
    <2> QED  BY <2>1, <2>2 DEF WorldTypes, Host
  <1>3. t \in Turns
    BY <1>2, HostTyped DEF RecallInv, Gated, Running
  <1>4. CASE UNCHANGED storeVars
    BY <1>1, <1>4, StoreRests
  <1>5. CASE RestoreAfterCompaction(t, host[Task].trigger, log') /\ ~UNCHANGED storeVars
    <2>1. /\ Restorable("compact", key)
          /\ BeginContextEpoch("compact", key, Rebased(t))
          /\ gate[t].state = "pending" => EpochsAgree(t)
      BY <1>5 DEF RestoreAfterCompaction
    <2>2. session.state = "active" /\ session.context \in Nat
      BY <2>1 DEF Restorable, RecallInv, RowTypes, Session, Epochs
    <2>3. session.context + 1 <= host'[Task].breaks /\ ~Compacting'
      BY <1>2, <2>2 DEF RecallInv, Counted, Compacting
    <2>4. /\ Rebased(t) \in Turns \cup {NoTurn}
          /\ Rebased(t) # NoTurn =>
               Rebased(t) = Now /\ gate[t].state = "pending" /\ EpochsAgree(t)
          /\ Rebased(t) = NoTurn => gate[t].state # "pending"
      BY <1>3, <2>1 DEF Rebased
    <2> HIDE DEF key
    <2> QED  BY <1>1, <1>2, <2>1, <2>2, <2>3, <2>4, EpochStep
  <1> QED  BY <1>1, <1>4, <1>5

LEMMA ClearStep ==
  ASSUME RecallInv, WorldStep, ContextClears
  PROVE  RecallInv' /\ Stands
  <1> DEFINE key == <<"clear", session.last_gate, session.set>>
  <1>1. /\ HostBreaks(Task, {"idle"}, "idle", host[Task].trigger)
        /\ UNCHANGED <<call, plugin, received>>
        /\ \/ Restorable("clear", key) /\ BeginContextEpoch("clear", key, NoTurn)
           \/ UNCHANGED storeVars
    BY DEF ContextClears, HostClears, Hook
  <1>2. /\ host'[Task].phase = "idle" /\ Now' = Now
        /\ host'[Task].breaks = host[Task].breaks + 1 /\ host[Task].breaks \in Nat
    <2>1. host[Task].trigger \in Triggers \cup {"none"}
      BY HostTyped DEF RecallInv, Host
    <2> QED  BY <1>1, <2>1, HostBroke, HostTyped DEF RecallInv
  <1>3. CASE UNCHANGED storeVars
    BY <1>1, <1>3, StoreRests
  <1>4. CASE Restorable("clear", key) /\ BeginContextEpoch("clear", key, NoTurn)
    <2>1. session.state = "active" /\ session.context \in Nat
      BY <1>4 DEF Restorable, RecallInv, RowTypes, Session, Epochs
    <2>2. session.context + 1 <= host'[Task].breaks /\ ~Compacting' /\ ~Running'
      BY <1>2, <2>1 DEF RecallInv, Counted, Compacting, Running
    <2> HIDE DEF key
    <2> QED  BY <1>1, <1>2, <1>4, <2>1, <2>2, EpochStep
  <1> QED  BY <1>1, <1>3, <1>4

(* The open cards are retired, and an active Session falls asleep.         *)
LEMMA EndStep ==
  ASSUME RecallInv, WorldStep, SessionEnds
  PROVE  RecallInv' /\ Stands
  <1>1. /\ UNCHANGED <<call, plugin, received>>
        /\ \/ UNCHANGED storeVars
           \/ RetireActivationAttempts /\ (MarkDormant \/ UNCHANGED session)
    BY DEF SessionEnds, EndSession, Hook
  <1>2. CASE UNCHANGED storeVars
    BY <1>1, <1>2, StoreRests
  <1>3. CASE RetireActivationAttempts /\ (MarkDormant \/ UNCHANGED session)
    <2> DEFINE retired(t) ==
          [state |-> "cancelled", card |-> attempt[t].card, alive |-> attempt[t].alive,
           fresh |-> attempt[t].fresh, intent |-> attempt[t].intent,
           generation |-> attempt[t].generation, plugin |-> attempt[t].plugin]
    <2>1. /\ attempt' = [t \in Turns |->
               IF t \in OutstandingCards THEN [attempt[t] EXCEPT !.state = "cancelled"]
               ELSE attempt[t]]
          /\ \/ session.state = "active" /\ session' = [session EXCEPT !.state = "dormant"]
             \/ UNCHANGED session
          /\ UNCHANGED <<delivery, active, gate, internal>>
      BY <1>3 DEF RetireActivationAttempts, MarkDormant
    <2>2. attempt \in [Turns -> Attempt]
      BY DEF RecallInv, RowTypes
    <2>3. \A t \in Turns :
            \/ attempt'[t] = attempt[t]
            \/ attempt[t].state = "pending_confirmation" /\ attempt'[t] = retired(t)
      BY <2>1, <2>2 DEF Attempt, OutstandingCards
    <2>4. \A t \in Turns : retired(t) \in Attempt
      BY <2>2 DEF Attempt, AttemptStates
    <2>5. \A t \in Turns : retired(t).intent = attempt[t].intent /\ retired(t).state = "cancelled"
      OBVIOUS
    <2> HIDE DEF retired
    <2>6. attempt' = [t \in Turns |-> attempt'[t]]
      BY <2>1
    <2>7. attempt' \in [Turns -> Attempt]
      BY <2>2, <2>3, <2>4, <2>6
    <2>8. DecidedStay
      BY <2>3 DEF DecidedStay
    <2>9. \A t \in Turns : attempt'[t].state # "none" =>
            t <= Now' /\ attempt'[t].intent \in Intents
      BY <2>3, <2>5 DEF RecallInv, Consented, WorldStep
    <2>10. Consented'
      BY <2>1, <2>8, <2>9 DEF RecallInv, Consented, DecidedStay
    <2>11. CASE session.state = "active" /\ session' = [session EXCEPT !.state = "dormant"]
      BY <1>1, <2>1, <2>7, <2>8, <2>10, <2>11, SessionSleeps
    <2>12. CASE UNCHANGED session
      BY <1>1, <2>1, <2>7, <2>8, <2>9, <2>12, CardsMove
    <2> QED  BY <2>1, <2>11, <2>12
  <1> QED  BY <1>1, <1>2, <1>3

LEMMA ResumeStep ==
  ASSUME RecallInv, WorldStep, SessionResumes
  PROVE  RecallInv' /\ Stands
  <1>1. /\ UNCHANGED <<call, plugin, received>>
        /\ \/ UNCHANGED storeVars
           \/ /\ session.state = "dormant" /\ session' = [session EXCEPT !.state = "active"]
              /\ UNCHANGED <<attempt, delivery, active, gate, internal>>
    BY DEF SessionResumes, Hook
  <1>2. CASE UNCHANGED storeVars
    BY <1>1, <1>2, StoreRests
  <1>3. CASE /\ session.state = "dormant" /\ session' = [session EXCEPT !.state = "active"]
             /\ UNCHANGED <<attempt, delivery, active, gate, internal>>
    <2>1. DecidedStay /\ attempt' \in [Turns -> Attempt]
      BY <1>3 DEF DecidedStay, RecallInv, RowTypes
    <2>2. Consented'
      BY <1>1, <1>3, RowsRest
    <2> QED  BY <1>1, <1>3, <2>1, <2>2, SessionSleeps
  <1> QED  BY <1>1, <1>2, <1>3

(* A thread that ran a Turn is not bound as an internal one, and without a  *)
(* Turn there is nothing to block.                                         *)
LEMMA InternalStep ==
  ASSUME RecallInv, WorldStep, BindInternalThread
  PROVE  RecallInv' /\ Stands
  <1>1. /\ Now = NoTurn /\ internal' = TRUE
        /\ UNCHANGED <<ledgerVars, attempt, delivery, active, call, received>>
    BY DEF BindInternalThread
  <1>2. session.state = "none"
    BY <1>1 DEF RecallInv, Gated
  <1>3. \A t \in Turns : gate[t].state = "none"
    BY <1>2 DEF RecallInv, Gated
  <1>4. session' = session
    BY <1>2 DEF BindInternalThread
  <1>5. gate \in [Turns -> Gate]
    BY DEF RecallInv, RowTypes
  <1>6. gate' = gate
    BY <1>3, <1>5 DEF BindInternalThread
  <1>7. RowTypes'
    BY <1>1, <1>4, <1>6 DEF RecallInv, RowTypes
  <1>8. Frozen /\ DecidedStay
    BY <1>1 DEF Frozen, DecidedStay
  <1>9. host' = host /\ log' = log
    BY <1>1 DEF ledgerVars
  <1>10. Gated'
    BY <1>1, <1>2, <1>3, <1>4, <1>6, <1>9 DEF RecallInv, Gated, PendingIsCurrent, Running, Now
  <1>11. Counted' /\ GatesFollow'
    BY <1>4, <1>6, <1>9 DEF RecallInv, Counted, GatesFollow, Compacting
  <1>12. SeenIsCurrent'
    BY <1>1, <1>4, SeenRests
  <1>13. Receipted'
    BY <1>1, <1>4, <1>8, ReceiptRests
  <1>14. Stands
    <2>1. session.context \in Nat /\ session.intent \in Nat
      BY DEF RecallInv, RowTypes, Session, Epochs
    <2> QED  BY <1>1, <1>4, <1>6, <2>1 DEF Stands, Settled
  <1>15. OneIsLive' /\ Applying'
    BY <1>1, <1>4, <1>6, RowsRest, LiveRests, ApplyingRests DEF LiveRest
  <1> QED
    BY <1>1, <1>7, <1>10, <1>11, <1>12, <1>13, <1>14, <1>15, RowsRest DEF RecallInv, WorldStep

LEMMA UpgradeStep ==
  ASSUME RecallInv, UpgradePlugin
  PROVE  RecallInv' /\ Stands
  <1>1. /\ Interrupted /\ plugin' = plugin + 1
        /\ UNCHANGED <<ledgerVars, storeVars, call, received>>
    BY DEF UpgradePlugin
  <1>2. WorldStep
    BY <1>1, WorldRests DEF RecallInv, Gated
  <1> QED  BY <1>1, <1>2, StoreRests

-----------------------------------------------------------------------------
(* The invariant.                                                          *)

LEMMA InitRecall ==
  ASSUME Init
  PROVE  RecallInv
  <1>1. RowTypes
    <2>1. NoAttempt \in Attempt
      BY DEF NoAttempt, Attempt, AttemptStates
    <2>2. NoDelivery \in Delivery
      BY NoSessionTyped DEF NoDelivery, Delivery, DeliveryStates
    <2>3. 0 \in Epochs
      BY DEF Epochs
    <2>4. NoGate \in Gate
      BY <2>3, NoSessionTyped DEF NoGate, Gate, GateStates, GateIds
    <2> QED
      BY <2>1, <2>2, <2>4, NoSessionTyped, IdleTyped DEF Init, RowTypes
  <1>2. WorldTypes
    BY DEF Init, LedgerInit, WorldTypes, Host
  <1>3. Consented /\ CallsWork /\ HandedOut
    BY IdleTyped
       DEF Init, Consented, CallsWork, HandedOut, NoAttempt, NoDelivery
  <1>4. Now = NoTurn /\ ~Running /\ ~Compacting /\ host[Task].breaks = 0
    BY DEF Init, LedgerInit, Now, Running, Compacting
  <1>5. Gated /\ Counted
    BY <1>4 DEF Init, Gated, PendingIsCurrent, Counted, NoSession, NoGate
  <1>6. SeenIsCurrent /\ Receipted /\ GatesFollow
    BY IdleTyped
       DEF Init, SeenIsCurrent, Receipted, ActiveSetIsReceipted, GatesFollow, NoSession
  <1>7. OneIsLive /\ Applying
    BY IdleTyped DEF Init, OneIsLive, LiveStates, Applying, NoDelivery
  <1> QED  BY <1>1, <1>2, <1>3, <1>5, <1>6, <1>7 DEF RecallInv

LEMMA HookSteps ==
  ASSUME RecallInv, Hooks
  PROVE  RecallInv' /\ Stands
  <1>1. WorldStep
    BY HooksMoveTheWorld DEF RecallInv, Gated
  <1> QED
    BY <1>1, SilentHooks, PromptStep, RestartStep, ClearStep, EndStep, ResumeStep,
       InternalStep DEF Hooks

LEMMA RecallStep ==
  ASSUME RecallInv, [Next]_vars
  PROVE  RecallInv' /\ (Stands \/ UNCHANGED vars)
  <1>1. CASE UNCHANGED vars
    <2>1. /\ UNCHANGED <<ledgerVars, storeVars, call, received>>
          /\ UNCHANGED <<plugin, interrupts>>
      BY <1>1 DEF vars, recallVars
    <2> QED  BY <1>1, <2>1, Rests, StoreRests
  <1>2. CASE Card
    BY <1>2, CreateStep, CardSteps, AckStep, EnableStep, TakeOverStep, EnableAgainStep
       DEF Card
  <1>3. CASE Calls
    BY <1>3, CommitStep, BeginIntentStep, CommitApplicationStep, MarkUnknownStep, RetryStep,
       CommitGateStep, RefusedStep, CutOffStep DEF Calls
  <1>4. CASE Tools
    BY <1>4, ApplyStep, BindGateStep, ReadSteps DEF Tools
  <1>5. CASE Hooks
    BY <1>5, HookSteps
  <1>6. CASE World
    BY <1>6, CardSteps, ExpireClaimStep, UpgradeStep DEF World
  <1> QED  BY <1>1, <1>2, <1>3, <1>4, <1>5, <1>6 DEF Next

LEMMA RecallCorrect == Spec => []RecallInv
  <1>1. Init => RecallInv
    BY InitRecall
  <1>2. RecallInv /\ [Next]_vars => RecallInv'
    BY RecallStep
  <1> QED  BY <1>1, <1>2, PTL DEF Spec

-----------------------------------------------------------------------------
(* What follows from it.                                                   *)

(* Every row of the Recall tables, every call in flight and every observed  *)
(* event has the shape its table or type declares, and the epochs of the    *)
(* Session are bounded by the Turns and breaks of the host.                 *)
THEOREM TypeCorrect == Spec => []TypeOK
  <1>1. RecallInv => TypeOK
    <2> SUFFICES ASSUME RecallInv PROVE TypeOK
      OBVIOUS
    <2>1. host \in [Sessions -> Host] /\ interrupts \in 0..MaxInterrupts
      BY DEF RecallInv, WorldTypes
    <2>2. Range(log) \subseteq Event
      BY DEF RecallInv, WorldTypes, Range
    <2>3. plugin \in Plugins
      BY DEF RecallInv, WorldTypes, Plugins
    <2>4. RowTypes
      BY DEF RecallInv
    <2> QED
      BY <2>1, <2>2, <2>3, <2>4
         DEF TypeOK, RowTypes, Attempt, Delivery, Gate, GateStates, GateIds, Call, Steps,
             GateSteps, Item
  <1> QED  BY <1>1, RecallCorrect, PTL

(* Whatever calls take over, retry or answer late (begin_delivery,          *)
(* commit_prepared_delivery, claim_delivery_retry), the model never sees    *)
(* two different shortlists of one delivery.                                *)
THEOREM ShortlistsAreFrozen == Spec => []OneShortlistPerDelivery
  <1>1. RecallInv => OneShortlistPerDelivery
    BY DEF RecallInv, HandedOut, OneShortlistPerDelivery
  <1> QED  BY <1>1, RecallCorrect, PTL

(* The active set of an active or dormant Session is what the application   *)
(* named in its receipt accepted, out of a shortlist the model was shown    *)
(* (apply_delivery, and everything that leaves the Session active).         *)
THEOREM ActiveSetCorrect == Spec => []ActiveSetIsReceipted
  <1>1. RecallInv => ActiveSetIsReceipted
    BY DEF RecallInv, Receipted
  <1> QED  BY <1>1, RecallCorrect, PTL

(* A tool that guard_active_turn_tool lets through works under the intent   *)
(* and the set that govern the Session: whenever the intent is replaced,    *)
(* no older committed gate belongs to a Turn that is still open.            *)
THEOREM ToolsCorrect == Spec => []ToolsFollowTheirGate
  <1>1. RecallInv => ToolsFollowTheirGate
    BY DEF RecallInv, GatesFollow, ToolsFollowTheirGate, ToolAllowed
  <1> QED  BY <1>1, RecallCorrect, PTL

(* However often the running Turn is compacted (begin_context_epoch), its   *)
(* pending gate is of the current context and, unless a call that an earlier *)
(* Turn left behind applied its delivery meanwhile (the commit of            *)
(* commit_delivery_application), of the current intent.                      *)
THEOREM PendingGatesAreCurrent == Spec => []PendingGateIsCurrent
  <1>1. RecallInv => PendingGateIsCurrent
    BY DEF RecallInv, Gated, PendingIsCurrent, PendingGateIsCurrent, InTurn, Running
  <1> QED  BY <1>1, RecallCorrect, PTL

(* No operation of the store, no Hook and no late call changes a card, a    *)
(* delivery or a gate that was decided, or takes an epoch back.             *)
THEOREM DecidedStands == Spec => DecisionsStand
  <1>1. RecallInv /\ [Next]_vars =>
          [ /\ \A t \in Turns : Settled(t)
            /\ session'.context >= session.context /\ session'.intent >= session.intent ]_vars
    BY RecallStep DEF Stands
  <1> QED  BY <1>1, RecallCorrect, PTL DEF Spec, DecisionsStand
=============================================================================
