--------------------------- MODULE ControlBindings ---------------------------
(***************************************************************************)
(* The Candidate refresh card.  A Hook binds a rendered card to the native  *)
(* Session and Turn that asked for it (agent/hooks.py                       *)
(* handle_control_binding_hook); the first scope chosen on the card is      *)
(* frozen with one client action id, and the MCP server creates the Central *)
(* request with that id, again and again until an answer tells it how the   *)
(* submission ended (agent/mcp_server.py, agent/control_bindings.py).  The  *)
(* Agent that serves the request looks up the Session by that action id     *)
(* (agent/capture_processor.py).                                            *)
(*                                                                          *)
(* One repository.  A card may be mounted in several views and each of them *)
(* may call the server; a call can be lost before Central or answered too   *)
(* late, in which case Central still does what it asks for.                 *)
(***************************************************************************)
EXTENDS Naturals, FiniteSets

CONSTANTS
  Controls,        \* control_id values
  Actions,         \* client_action_id values the server can generate
  PageActions,     \* client_action_id values of the web page's own button
  Sessions,        \* native Sessions that can render a card
  Views,           \* mounted views: each makes one call at a time
  MaxLost,         \* bound: calls to Central or answers that are lost
  NoScope, NoAction, NoRequest, NoSession, NoControl

Scopes == {"current_session", "all_valid_sessions"}
AllSessions == "all"       \* the source of an all_valid_sessions request
Closed == "failed closed"  \* a request that found no private intent

ASSUME ControlAssumption ==
  /\ Actions \cap PageActions = {} /\ NoAction \notin Actions \cup PageActions
  /\ MaxLost \in Nat
  /\ NoScope \notin Scopes
  /\ NoSession \notin Sessions /\ NoControl \notin Controls
  /\ NoRequest \notin Actions
  /\ {AllSessions, Closed} \cap Sessions = {}

VARIABLES
  turn,            \* Sessions whose observed Turn is open
  binding,         \* control_bindings
  expired,         \* unused controls whose 15 minutes are over
  call,            \* what each view's call is doing
  late,            \* calls their view has given up and Central has not seen
  group,           \* Central's Capture groups, by action
  lost             \* calls and answers lost so far

vars == <<turn, binding, expired, call, late, group, lost>>

AnyAction == Actions \cup PageActions

(* state: absent, ready, pending, attached, busy or rejected.              *)
NoBinding == [state |-> "absent", session |-> NoSession, scope |-> NoScope,
              action |-> NoAction, request |-> NoRequest]
(* at: idle, sending or answered, with the binding the call read; answer: *)
(* none, created, busy or refused is what Central said.                    *)
NoCall == [at |-> "idle", control |-> NoControl, action |-> NoAction,
           scope |-> NoScope, answer |-> "none"]
(* state: absent, active or ended; source: where the Agent that claimed   *)
(* the group takes its material from.                                      *)
NoGroup == [state |-> "absent", scope |-> NoScope, source |-> NoSession]

Init ==
  /\ turn = {}
  /\ binding = [c \in Controls |-> NoBinding]
  /\ expired = {}
  /\ call = [v \in Views |-> NoCall]
  /\ late = {}
  /\ group = [a \in AnyAction |-> NoGroup]
  /\ lost = 0

-----------------------------------------------------------------------------
(* The card is rendered.                                                   *)

(* The Hooks see Turns begin and end (HookEvents!OpenTurn).                *)
TurnChanges(s) ==
  /\ turn' = IF s \in turn THEN turn \ {s} ELSE turn \cup {s}
  /\ UNCHANGED <<binding, expired, call, late, group, lost>>

(* A control is created for the Session whose open Turn calls the tool.    *)
CreateBinding(c, s) ==
  /\ s \in turn
  /\ binding[c].state = "absent"
  /\ binding' = [binding EXCEPT ![c].state = "ready", ![c].session = s]
  /\ UNCHANGED <<turn, expired, call, late, group, lost>>

(* Fifteen minutes.                                                        *)
ControlExpires(c) ==
  /\ binding[c].state = "ready"
  /\ expired' = expired \cup {c}
  /\ UNCHANGED <<turn, binding, call, late, group, lost>>

-----------------------------------------------------------------------------
(* start_zdecision_candidate_refresh.                                      *)

(* Mutant: every click is an action of its own.                            *)
FreshAction(c, a) == \A d \in Controls : binding[d].action # a

(* The action id of a control is generated once.                           *)
ProposedAction(c, a) ==
  IF binding[c].action # NoAction THEN a = binding[c].action
  ELSE \A d \in Controls : binding[d].action # a

(* choose_scope freezes the first scope and its action; a later click has  *)
(* to be for the same scope.  Only a pending submission goes on to Central.*)
ChooseScope(v, c, scope, a) ==
  /\ call[v].at = "idle"
  /\ ProposedAction(c, a)
  /\ \/ /\ binding[c].state = "ready" /\ c \notin expired
        /\ binding' = [binding EXCEPT ![c].state = "pending", ![c].scope = scope,
                                      ![c].action = a]
     \/ /\ binding[c].state = "pending" /\ binding[c].scope = scope
        /\ UNCHANGED binding
  /\ call' = [call EXCEPT ![v] = [NoCall EXCEPT !.at = "sending", !.control = c,
                                    !.action = a, !.scope = scope]]
  /\ UNCHANGED <<turn, expired, late, group, lost>>

(* create_group: a replay of the action, or the only active group.         *)
Created(a, scope) ==
  IF group[a].state = "absent"
  THEN group' = [group EXCEPT ![a].state = "active", ![a].scope = scope]
  ELSE UNCHANGED group

Answer(a, scope) ==
  CASE group[a].state # "absent" -> IF group[a].scope = scope THEN "created" ELSE "refused"
    [] \E b \in AnyAction : group[b].state = "active" -> "busy"
    [] OTHER -> "created"

CentralAnswers(v) ==
  /\ call[v].at = "sending"
  /\ LET a == call[v].action
         scope == call[v].scope
     IN \E answer \in {Answer(a, scope), "refused"} :
          \* refused also for a repository without trusted routes
          /\ call' = [call EXCEPT ![v].at = "answered", ![v].answer = answer]
          /\ IF answer = "created" THEN Created(a, scope) ELSE UNCHANGED group
  /\ UNCHANGED <<turn, binding, expired, late, lost>>

(* The connection fails, or times out with the call still on its way: the  *)
(* submission stays pending and the view will click again.                 *)
ConnectionUnavailable(v) ==
  /\ call[v].at # "idle"
  /\ lost < MaxLost
  /\ lost' = lost + 1
  /\ late' \in IF call[v].at = "sending"
               THEN {late, late \cup {<<call[v].action, call[v].scope>>}} ELSE {late}
  /\ call' = [call EXCEPT ![v] = NoCall]
  /\ UNCHANGED <<turn, binding, expired, group>>

LateCall(a, scope) ==
  /\ <<a, scope>> \in late
  /\ late' = late \ {<<a, scope>>}
  /\ IF Answer(a, scope) = "created" THEN Created(a, scope) ELSE UNCHANGED group
  /\ UNCHANGED <<turn, binding, expired, call, lost>>

(* attach_request: the action matches and nothing was settled meanwhile.   *)
MayAttach(c, a) == binding[c].action = a /\ binding[c].state = "pending"

AttachRequest(v) ==
  LET c == call[v].control
      a == call[v].action
  IN /\ call[v].at = "answered" /\ call[v].answer = "created"
     /\ call' = [call EXCEPT ![v] = NoCall]
     /\ binding' = IF MayAttach(c, a)
                   THEN [binding EXCEPT ![c].state = "attached", ![c].request = a]
                   ELSE binding
     /\ UNCHANGED <<turn, expired, late, group, lost>>

(* finish_submission: busy and rejected are final.                         *)
FinishSubmission(v) ==
  LET c == call[v].control
  IN /\ call[v].at = "answered" /\ call[v].answer \in {"busy", "refused"}
     /\ call' = [call EXCEPT ![v] = NoCall]
     /\ binding' = IF MayAttach(c, call[v].action)
                   THEN [binding EXCEPT ![c].state =
                           IF call[v].answer = "busy" THEN "busy" ELSE "rejected"]
                   ELSE binding
     /\ UNCHANGED <<turn, expired, late, group, lost>>

-----------------------------------------------------------------------------
(* The rest of Central and the Agent, as far as this card can tell         *)
(* (CaptureGroups, CaptureDelivery).                                       *)

(* The web page asks for the whole repository.                             *)
PageCreates(a) ==
  /\ a \in PageActions
  /\ group[a].state = "absent"
  /\ Answer(a, "all_valid_sessions") = "created"
  /\ Created(a, "all_valid_sessions")
  /\ UNCHANGED <<turn, binding, expired, call, late, lost>>

(* Mutant: without an intent of its own, the request takes everything.     *)
AnySource(a, scope, cards) ==
  LET bound == {c \in cards : binding[c].action = a /\ binding[c].scope = scope}
  IN IF scope = "all_valid_sessions" \/ bound = {} THEN AllSessions
     ELSE binding[CHOOSE c \in bound : TRUE].session

(* _selected_session_id: the intent is found by the action, and its scope  *)
(* has to be the request's.                                                *)
SelectedSource(a, scope, cards) ==
  LET bound == {c \in cards : binding[c].action = a /\ binding[c].scope = scope}
  IN IF scope = "all_valid_sessions" THEN AllSessions
     ELSE IF bound = {} THEN Closed
     ELSE binding[CHOOSE c \in bound : TRUE].session

(* The Agent that claims the group runs on this device, or on another one, *)
(* whose database has none of these cards.                                 *)
AgentFreezes(a, cards) ==
  /\ group[a].state = "active" /\ group[a].source = NoSession
  /\ group' = [group EXCEPT ![a].source = SelectedSource(a, group[a].scope, cards)]
  /\ UNCHANGED <<turn, binding, expired, call, late, lost>>

(* A group ends after the Agent has served it, or is given up.             *)
GroupEnds(a) ==
  /\ group[a].state = "active"
  /\ group' = [group EXCEPT ![a].state = "ended"]
  /\ UNCHANGED <<turn, binding, expired, call, late, lost>>

Clicks == \E v \in Views, c \in Controls, scope \in Scopes, a \in Actions :
  ChooseScope(v, c, scope, a)

Next ==
  \/ \E s \in Sessions : TurnChanges(s)
  \/ \E c \in Controls : ControlExpires(c) \/ \E s \in Sessions : CreateBinding(c, s)
  \/ Clicks
  \/ \E v \in Views : \/ CentralAnswers(v) \/ ConnectionUnavailable(v)
                      \/ AttachRequest(v) \/ FinishSubmission(v)
  \/ \E a \in Actions, scope \in Scopes : LateCall(a, scope)
  \/ \E a \in AnyAction : PageCreates(a) \/ GroupEnds(a)
                           \/ \E cards \in {Controls, {}} : AgentFreezes(a, cards)

Spec == Init /\ [][Next]_vars

-----------------------------------------------------------------------------
(* A card leads to one request at most, however often it is clicked, in    *)
(* whatever view, and whatever was lost: every request Central holds for a *)
(* generated action has the scope frozen on the one card of that action,   *)
(* and a card that shows a request shows that one.                         *)
OneRequestPerControl ==
  /\ \A a \in Actions : group[a].state # "absent" =>
       \E c \in Controls : binding[c].action = a /\ binding[c].scope = group[a].scope
  /\ \A c \in Controls : binding[c].request # NoRequest =>
       binding[c].request = binding[c].action /\ group[binding[c].action].state # "absent"

(* The Session that was chosen is the Session that is captured: a request  *)
(* for the current Session never falls back to another Session or to all,  *)
(* not even on a device that knows nothing of the card.                    *)
ScopeIsKept ==
  \A c \in Controls :
    LET a == binding[c].action
    IN a # NoAction /\ group[a].source # NoSession =>
         group[a].source \in IF binding[c].scope = "current_session"
                             THEN {binding[c].session, Closed} ELSE {AllSessions}

(* "A card receiving that result ... creates no request" (inline refresh    *)
(* design, section 8).                                                     *)
BusyCreatesNoRequest ==
  \A c \in Controls : binding[c].state = "busy" => group[binding[c].action].state = "absent"
=============================================================================
