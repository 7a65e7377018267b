------------------------ MODULE ControlBindingsProofs ------------------------
(***************************************************************************)
(* A card stands for one request of the scope and Session of its first      *)
(* click, for any number of cards, views, Sessions, actions and lost calls. *)
(*                                                                          *)
(* The invariant says who owns an action: the one card it was generated     *)
(* for.  Calls on their way, late calls and Central's groups all carry the  *)
(* scope of the owner, so that no order of their arrivals makes a           *)
(* difference.                                                              *)
(***************************************************************************)
EXTENDS ControlBindings, TLAPS

BindingStates == {"absent", "ready", "pending", "attached", "busy", "rejected"}

Binding == [state : BindingStates, session : Sessions \cup {NoSession},
            scope : Scopes \cup {NoScope}, action : Actions \cup {NoAction},
            request : Actions \cup {NoRequest}]

Call == [at : {"idle", "sending", "answered"}, control : Controls \cup {NoControl},
         action : Actions \cup {NoAction}, scope : Scopes \cup {NoScope},
         answer : {"none", "created", "busy", "refused"}]

Group == [state : {"absent", "active", "ended"}, scope : Scopes \cup {NoScope},
          source : Sessions \cup {NoSession, AllSessions, Closed}]

TypeOK ==
  /\ binding \in [Controls -> Binding]
  /\ call \in [Views -> Call]
  /\ late \subseteq (Actions \X Scopes)
  /\ group \in [AnyAction -> Group]

(* The card of an action, and the scope frozen with it.                    *)
Owns(c, a, scope) == binding[c].action = a /\ binding[c].scope = scope

Owned(a, scope) == \E c \in Controls : Owns(c, a, scope)

(* A card has an action as soon as its scope was chosen, and no other card *)
(* has the same.                                                           *)
ActionsAreOwned ==
  /\ \A c \in Controls :
       /\ binding[c].action = NoAction <=> binding[c].state \in {"absent", "ready"}
       /\ binding[c].action # NoAction => binding[c].scope \in Scopes
  /\ \A c, d \in Controls :
       binding[c].action # NoAction /\ binding[c].action = binding[d].action => c = d

(* Whatever is under way to Central is for the card's own action and scope.*)
CallsAreOwned ==
  /\ \A v \in Views : call[v].at # "idle" =>
       /\ call[v].control \in Controls /\ call[v].action \in Actions
       /\ call[v].scope \in Scopes
       /\ Owns(call[v].control, call[v].action, call[v].scope)
       /\ call[v].at = "answered" /\ call[v].answer = "created" =>
            group[call[v].action].state # "absent"
  /\ \A x \in late : Owned(x[1], x[2])

GroupsAreOwned ==
  /\ \A a \in Actions : group[a].state # "absent" => Owned(a, group[a].scope)
  /\ \A a \in AnyAction : group[a].source # NoSession => group[a].state # "absent"

CardsAreTrue ==
  \A c \in Controls : binding[c].request # NoRequest =>
    /\ binding[c].request = binding[c].action
    /\ binding[c].action \in Actions
    /\ group[binding[c].action].state # "absent"

OwnershipInv ==
  /\ TypeOK
  /\ ActionsAreOwned /\ CallsAreOwned /\ GroupsAreOwned /\ CardsAreTrue
  /\ ScopeIsKept

-----------------------------------------------------------------------------
LEMMA OwnershipInit == Init => OwnershipInv
  <1> SUFFICES ASSUME Init PROVE OwnershipInv
    OBVIOUS
  <1> USE ControlAssumption DEF Init, NoBinding, NoCall, NoGroup
  <1>1. TypeOK
    BY DEF TypeOK, Binding, BindingStates, Call, Group, AnyAction
  <1>2. ActionsAreOwned /\ CallsAreOwned /\ GroupsAreOwned /\ CardsAreTrue
    BY DEF ActionsAreOwned, CallsAreOwned, GroupsAreOwned, CardsAreTrue, AnyAction
  <1>3. ScopeIsKept
    BY DEF ScopeIsKept
  <1> QED
    BY <1>1, <1>2, <1>3 DEF OwnershipInv

(* The cards, the groups and what is under way stay: nothing to show.      *)
LEMMA OwnershipRests ==
  ASSUME OwnershipInv, UNCHANGED <<binding, call, late, group>>
  PROVE  OwnershipInv'
  BY DEF OwnershipInv, TypeOK, ActionsAreOwned, CallsAreOwned, GroupsAreOwned,
     CardsAreTrue, ScopeIsKept, Owned, Owns

LEMMA CreateBindingOwned ==
  ASSUME OwnershipInv, NEW c \in Controls, NEW s \in Sessions, CreateBinding(c, s)
  PROVE  OwnershipInv'
  <1> USE DEF OwnershipInv
  <1> DEFINE new == [binding[c] EXCEPT !.state = "ready", !.session = s]
  <1>1. /\ binding' = [binding EXCEPT ![c] = new]
        /\ UNCHANGED <<call, late, group>>
        /\ binding[c].state = "absent"
    BY DEF CreateBinding
  <1>2. binding[c] \in Binding
    BY DEF TypeOK
  <1>3. /\ new \in Binding
        /\ new.state = "ready"
        /\ new.action = binding[c].action /\ new.scope = binding[c].scope
        /\ new.request = binding[c].request
    BY <1>2 DEF Binding, BindingStates
  <1>4. \A d \in Controls : binding'[d] = IF d = c THEN new ELSE binding[d]
    BY <1>1 DEF TypeOK
  <1>5. binding[c].action = NoAction
    BY <1>1 DEF ActionsAreOwned
  <1> HIDE DEF new
  <1>6. TypeOK'
    BY <1>1, <1>3 DEF TypeOK
  <1>7. ActionsAreOwned'
    BY <1>3, <1>4, <1>5 DEF ActionsAreOwned
  <1>8. CallsAreOwned' /\ GroupsAreOwned' /\ CardsAreTrue'
    BY <1>1, <1>3, <1>4 DEF CallsAreOwned, GroupsAreOwned, CardsAreTrue, Owned, Owns
  <1>9. ScopeIsKept'
    BY <1>1, <1>3, <1>4, <1>5 DEF ScopeIsKept
  <1> QED
    BY <1>6, <1>7, <1>8, <1>9

(* A card that settles, attached or not, keeps its action, scope and       *)
(* Session.                                                                *)
LEMMA SettledOwned ==
  ASSUME OwnershipInv, NEW v \in Views, AttachRequest(v) \/ FinishSubmission(v)
  PROVE  OwnershipInv'
  <1> DEFINE c == call[v].control
  <1> USE DEF OwnershipInv
  <1>1. /\ call[v].at = "answered"
        /\ call' = [call EXCEPT ![v] = NoCall]
        /\ UNCHANGED <<late, group>>
    BY DEF AttachRequest, FinishSubmission
  <1>2. /\ c \in Controls /\ call[v].action \in Actions
        /\ Owns(c, call[v].action, call[v].scope)
        /\ call[v].answer = "created" => group[call[v].action].state # "absent"
    BY <1>1 DEF CallsAreOwned
  <1>3. /\ \A d \in Controls : /\ binding'[d].action = binding[d].action
                               /\ binding'[d].scope = binding[d].scope
                               /\ binding'[d].session = binding[d].session
                               /\ d # c => binding'[d] = binding[d]
        /\ binding' \in [Controls -> Binding]
        /\ \/ binding'[c] = binding[c]
           \/ /\ binding[c].state = "pending"
              /\ binding'[c].state \in {"attached", "busy", "rejected"}
              /\ \/ binding'[c].request = binding[c].request
                 \/ /\ binding'[c].request = call[v].action
                    /\ call[v].answer = "created"
    <2>1. CASE AttachRequest(v)
      BY <1>2, <2>1 DEF AttachRequest, MayAttach, TypeOK, Binding, BindingStates
    <2>2. CASE FinishSubmission(v)
      BY <1>2, <2>2 DEF FinishSubmission, MayAttach, TypeOK, Binding, BindingStates
    <2> QED
      BY <2>1, <2>2
  <1>4. TypeOK'
    BY <1>1, <1>3, ControlAssumption DEF TypeOK, Call, NoCall
  <1>5. ActionsAreOwned'
    BY <1>3 DEF ActionsAreOwned
  <1>6. CallsAreOwned' /\ GroupsAreOwned'
    BY <1>1, <1>3 DEF CallsAreOwned, GroupsAreOwned, Owned, Owns, TypeOK, NoCall
  <1>7. CardsAreTrue'
    BY <1>1, <1>2, <1>3 DEF CardsAreTrue, Owns
  <1>8. ScopeIsKept'
    BY <1>1, <1>3 DEF ScopeIsKept
  <1> QED
    BY <1>4, <1>5, <1>6, <1>7, <1>8

(* The first click fixes action and scope of its card: the action is fresh,*)
(* so that nothing at Central has it yet.  A later click repeats them.     *)
LEMMA ChooseScopeOwned ==
  ASSUME OwnershipInv,
         NEW v \in Views, NEW c \in Controls, NEW scope \in Scopes, NEW a \in Actions,
         ChooseScope(v, c, scope, a)
  PROVE  OwnershipInv'
  <1> USE DEF OwnershipInv
  <1> DEFINE sent == [NoCall EXCEPT !.at = "sending", !.control = c, !.action = a,
                                    !.scope = scope]
  <1>1. /\ call' = [call EXCEPT ![v] = sent]
        /\ UNCHANGED <<late, group>>
        /\ ProposedAction(c, a)
    BY DEF ChooseScope
  <1>2. /\ sent \in Call /\ sent.at = "sending" /\ sent.control = c
        /\ sent.action = a /\ sent.scope = scope
    BY DEF Call, NoCall
  <1>3. \A w \in Views : call'[w] = IF w = v THEN sent ELSE call[w]
    BY <1>1 DEF TypeOK
  <1> HIDE DEF sent
  <1>4. CASE /\ binding[c].state = "pending" /\ binding[c].scope = scope
             /\ UNCHANGED binding
    <2>1. Owns(c, a, scope)
      BY <1>1, <1>4 DEF ActionsAreOwned, ProposedAction, Owns
    <2>2. TypeOK'
      BY <1>1, <1>2, <1>4 DEF TypeOK
    <2>3. CallsAreOwned'
      BY <1>1, <1>2, <1>3, <1>4, <2>1 DEF CallsAreOwned, Owned, Owns
    <2>4. ActionsAreOwned' /\ GroupsAreOwned' /\ CardsAreTrue' /\ ScopeIsKept'
      BY <1>1, <1>4 DEF ActionsAreOwned, GroupsAreOwned, CardsAreTrue, ScopeIsKept,
         Owned, Owns
    <2> QED
      BY <2>2, <2>3, <2>4
  <1>5. CASE /\ binding[c].state = "ready"
             /\ binding' = [binding EXCEPT ![c].state = "pending", ![c].scope = scope,
                                           ![c].action = a]
    <2> DEFINE new == [binding[c] EXCEPT !.state = "pending", !.scope = scope,
                                         !.action = a]
    <2>1. /\ binding' = [binding EXCEPT ![c] = new]
          /\ binding[c] \in Binding
      BY <1>5 DEF TypeOK
    <2>2. /\ new \in Binding
          /\ new.state = "pending" /\ new.action = a /\ new.scope = scope
          /\ new.request = binding[c].request
      BY <2>1 DEF Binding, BindingStates
    <2>3. \A d \in Controls : binding'[d] = IF d = c THEN new ELSE binding[d]
      BY <2>1 DEF TypeOK
    <2>4. /\ binding[c].action = NoAction
          /\ \A d \in Controls : binding[d].action # a
          /\ a # NoAction
      BY <1>1, <1>5, ControlAssumption DEF ActionsAreOwned, ProposedAction
    <2>5. group[a].state = "absent" /\ group[a].source = NoSession
      BY <2>4 DEF GroupsAreOwned, Owned, Owns, AnyAction
    <2> HIDE DEF new
    <2>6. TypeOK'
      BY <1>1, <1>2, <2>1, <2>2 DEF TypeOK
    <2>7. ActionsAreOwned'
      BY <2>2, <2>3, <2>4 DEF ActionsAreOwned
    <2>8. \A b \in Actions, old \in Scopes \cup {NoScope} :
            Owned(b, old) => Owned(b, old)'
      BY <2>3, <2>4, ControlAssumption DEF Owned, Owns
    <2>9. CallsAreOwned'
      <3>1. \A w \in Views : w # v /\ call[w].at # "idle" =>
              Owns(call[w].control, call[w].action, call[w].scope)'
        BY <1>3, <2>3, <2>4, ControlAssumption DEF CallsAreOwned, Owns
      <3>2. Owns(c, a, scope)'
        BY <2>2, <2>3 DEF Owns
      <3>3. \A x \in late' : Owned(x[1], x[2])'
        BY <1>1, <2>8 DEF CallsAreOwned, TypeOK
      <3> QED
        BY <1>1, <1>2, <1>3, <3>1, <3>2, <3>3 DEF CallsAreOwned, Owns
    <2>10. GroupsAreOwned'
      BY <1>1, <2>8 DEF GroupsAreOwned, TypeOK, Group, AnyAction
    <2>11. CardsAreTrue'
      BY <1>1, <2>2, <2>3, <2>4, ControlAssumption DEF CardsAreTrue
    <2>12. ScopeIsKept'
      <3> SUFFICES ASSUME NEW d \in Controls,
                          binding'[d].action # NoAction,
                          group'[binding'[d].action].source # NoSession
                   PROVE  group'[binding'[d].action].source \in
                            IF binding'[d].scope = "current_session"
                            THEN {binding'[d].session, Closed} ELSE {AllSessions}
        BY DEF ScopeIsKept
      <3>1. d # c
        BY <1>1, <2>2, <2>3, <2>5
      <3> QED
        BY <1>1, <2>3, <3>1 DEF ScopeIsKept
    <2> QED
      BY <2>6, <2>7, <2>9, <2>10, <2>11, <2>12
  <1> QED
    BY <1>4, <1>5 DEF ChooseScope

(* A call that ends, is answered or becomes late asks for what it did.     *)
LEMMA LostOwned ==
  ASSUME OwnershipInv, NEW v \in Views, ConnectionUnavailable(v)
  PROVE  OwnershipInv'
  <1> USE DEF OwnershipInv
  <1>1. /\ call[v].at # "idle"
        /\ call' = [call EXCEPT ![v] = NoCall]
        /\ late' = late \/ late' = late \cup {<<call[v].action, call[v].scope>>}
        /\ UNCHANGED <<binding, group>>
    BY DEF ConnectionUnavailable
  <1>2. /\ call[v].action \in Actions /\ call[v].scope \in Scopes
        /\ Owned(call[v].action, call[v].scope)
    BY <1>1 DEF CallsAreOwned, Owned
  <1>3. NoCall \in Call
    BY DEF NoCall, Call
  <1>4. TypeOK'
    BY <1>1, <1>2, <1>3 DEF TypeOK
  <1>5. CallsAreOwned'
    BY <1>1, <1>2 DEF CallsAreOwned, Owned, Owns, TypeOK, NoCall
  <1>6. ActionsAreOwned' /\ GroupsAreOwned' /\ CardsAreTrue' /\ ScopeIsKept'
    BY <1>1 DEF ActionsAreOwned, GroupsAreOwned, CardsAreTrue, ScopeIsKept, Owned, Owns
  <1> QED
    BY <1>4, <1>5, <1>6

-----------------------------------------------------------------------------
(* Cards and groups that rest.                                             *)
LEMMA GroupsRest ==
  ASSUME OwnershipInv, UNCHANGED <<binding, group>>
  PROVE  /\ group' \in [AnyAction -> Group]
         /\ \A b \in AnyAction : group[b].state # "absent" => group'[b].state # "absent"
         /\ GroupsAreOwned' /\ CardsAreTrue' /\ ScopeIsKept'
  <1>1. group' \in [AnyAction -> Group]
    BY DEF OwnershipInv, TypeOK
  <1>2. GroupsAreOwned'
    BY DEF OwnershipInv, GroupsAreOwned, Owned, Owns
  <1>3. CardsAreTrue' /\ ScopeIsKept'
    BY DEF OwnershipInv, CardsAreTrue, ScopeIsKept
  <1> QED
    BY <1>1, <1>2, <1>3

(* Central creates a group for the scope its card froze, or for an action  *)
(* of the page, which no card has.                                         *)
LEMMA CreatedOwned ==
  ASSUME OwnershipInv, NEW a \in AnyAction, NEW scope \in Scopes,
         Created(a, scope), a \in Actions => Owned(a, scope),
         UNCHANGED binding
  PROVE  /\ group' \in [AnyAction -> Group]
         /\ group'[a].state # "absent"
         /\ \A b \in AnyAction : group[b].state # "absent" => group'[b].state # "absent"
         /\ GroupsAreOwned' /\ CardsAreTrue' /\ ScopeIsKept'
  <1> USE DEF OwnershipInv
  <1>1. CASE group[a].state = "absent"
    <2> DEFINE new == [group[a] EXCEPT !.state = "active", !.scope = scope]
    <2>1. group' = [group EXCEPT ![a] = new] /\ group[a] \in Group
      BY <1>1 DEF Created, TypeOK
    <2>2. /\ new \in Group /\ new.state = "active" /\ new.scope = scope
          /\ new.source = group[a].source
      BY <2>1 DEF Group
    <2>3. \A b \in AnyAction : group'[b] = IF b = a THEN new ELSE group[b]
      BY <2>1 DEF TypeOK
    <2> HIDE DEF new
    <2>4. group' \in [AnyAction -> Group]
      BY <2>1, <2>2 DEF TypeOK
    <2>5. GroupsAreOwned'
      BY <2>2, <2>3 DEF GroupsAreOwned, Owned, Owns, AnyAction
    <2>6. CardsAreTrue'
      BY <2>2, <2>3 DEF CardsAreTrue, AnyAction
    <2>7. ScopeIsKept'
      BY <2>2, <2>3 DEF ScopeIsKept, TypeOK, Binding, AnyAction
    <2> QED
      BY <2>2, <2>3, <2>4, <2>5, <2>6, <2>7
  <1>2. CASE group[a].state # "absent"
    <2>1. UNCHANGED <<binding, group>>
      BY <1>2 DEF Created
    <2> QED
      BY <1>2, <2>1, GroupsRest
  <1> QED
    BY <1>1, <1>2

LEMMA AnswerOwned ==
  ASSUME OwnershipInv, NEW v \in Views, CentralAnswers(v)
  PROVE  OwnershipInv'
  <1> USE DEF OwnershipInv
  <1> DEFINE a == call[v].action
             scope == call[v].scope
  <1>1. PICK answer \in {Answer(a, scope), "refused"} :
          /\ call' = [call EXCEPT ![v].at = "answered", ![v].answer = answer]
          /\ IF answer = "created" THEN Created(a, scope) ELSE UNCHANGED group
    BY DEF CentralAnswers
  <1>2. call[v].at = "sending" /\ UNCHANGED <<binding, late>>
    BY DEF CentralAnswers
  <1>3. /\ a \in Actions /\ scope \in Scopes /\ a \in AnyAction
        /\ call[v].control \in Controls
        /\ Owns(call[v].control, a, scope) /\ Owned(a, scope)
    BY <1>2 DEF CallsAreOwned, Owned, AnyAction
  <1>4. answer \in {"created", "busy", "refused"}
    BY <1>1 DEF Answer
  <1> DEFINE new == [call[v] EXCEPT !.at = "answered", !.answer = answer]
  <1>5. call' = [call EXCEPT ![v] = new] /\ call[v] \in Call
    BY <1>1 DEF TypeOK
  <1>6. /\ new \in Call /\ new.at = "answered" /\ new.answer = answer
        /\ new.control = call[v].control /\ new.action = a /\ new.scope = scope
    BY <1>4, <1>5 DEF Call
  <1>7. \A w \in Views : call'[w] = IF w = v THEN new ELSE call[w]
    BY <1>5 DEF TypeOK
  <1> HIDE DEF new
  <1>8. /\ group' \in [AnyAction -> Group]
        /\ answer = "created" => group'[a].state # "absent"
        /\ \A b \in AnyAction : group[b].state # "absent" => group'[b].state # "absent"
        /\ GroupsAreOwned' /\ CardsAreTrue' /\ ScopeIsKept'
    <2>1. CASE answer = "created"
      BY <1>1, <1>2, <1>3, <2>1, CreatedOwned
    <2>2. CASE answer # "created"
      BY <1>1, <1>2, <2>2, GroupsRest
    <2> QED
      BY <2>1, <2>2
  <1>9. TypeOK'
    BY <1>2, <1>5, <1>6, <1>8 DEF TypeOK
  <1>10. ActionsAreOwned'
    BY <1>2 DEF ActionsAreOwned
  <1>11. CallsAreOwned'
    <2>1. \A x \in late' : Owned(x[1], x[2])'
      BY <1>2 DEF CallsAreOwned, Owned, Owns
    <2>2. \A w \in Views : call[w].action \in Actions => call[w].action \in AnyAction
      BY DEF AnyAction
    <2> QED
      BY <1>2, <1>3, <1>6, <1>7, <1>8, <2>1, <2>2 DEF CallsAreOwned, Owns
  <1> QED
    BY <1>8, <1>9, <1>10, <1>11

(* Groups that change while calls and cards rest, and none disappears.     *)
LEMMA GroupsChange ==
  ASSUME OwnershipInv, UNCHANGED <<binding, call>>, late' \subseteq late,
         group' \in [AnyAction -> Group],
         \A b \in AnyAction : group[b].state # "absent" => group'[b].state # "absent",
         GroupsAreOwned', ScopeIsKept'
  PROVE  OwnershipInv'
  <1> USE DEF OwnershipInv
  <1>1. TypeOK' /\ ActionsAreOwned'
    BY DEF TypeOK, ActionsAreOwned
  <1>2. CallsAreOwned'
    BY DEF CallsAreOwned, Owned, Owns, AnyAction
  <1>3. CardsAreTrue'
    BY DEF CardsAreTrue, AnyAction
  <1> QED
    BY <1>1, <1>2, <1>3

LEMMA LateCallOwned ==
  ASSUME OwnershipInv, NEW a \in Actions, NEW scope \in Scopes, LateCall(a, scope)
  PROVE  OwnershipInv'
  <1>1. /\ Owned(a, scope) /\ a \in AnyAction
        /\ UNCHANGED <<binding, call>> /\ late' \subseteq late
    BY DEF LateCall, OwnershipInv, CallsAreOwned, AnyAction
  <1>2. CASE Created(a, scope)
    BY <1>1, <1>2, CreatedOwned, GroupsChange
  <1>3. CASE UNCHANGED group
    BY <1>1, <1>3, GroupsRest, GroupsChange
  <1> QED
    BY <1>2, <1>3 DEF LateCall

LEMMA PageCreatesOwned ==
  ASSUME OwnershipInv, NEW a \in AnyAction, PageCreates(a)
  PROVE  OwnershipInv'
  <1>1. /\ a \notin Actions /\ Created(a, "all_valid_sessions")
        /\ UNCHANGED <<binding, call, late>>
    BY ControlAssumption DEF PageCreates
  <1>2. "all_valid_sessions" \in Scopes
    BY DEF Scopes
  <1> QED
    BY <1>1, <1>2, CreatedOwned, GroupsChange

LEMMA GroupEndsOwned ==
  ASSUME OwnershipInv, NEW a \in AnyAction, GroupEnds(a)
  PROVE  OwnershipInv'
  <1> DEFINE new == [group[a] EXCEPT !.state = "ended"]
  <1>1. /\ group' = [group EXCEPT ![a] = new]
        /\ UNCHANGED <<binding, call, late>>
        /\ group[a] \in Group /\ group[a].state = "active"
    BY DEF GroupEnds, OwnershipInv, TypeOK
  <1>2. /\ new \in Group /\ new.state = "ended"
        /\ new.scope = group[a].scope /\ new.source = group[a].source
    BY <1>1 DEF Group
  <1>3. \A b \in AnyAction : group'[b] = IF b = a THEN new ELSE group[b]
    BY <1>1 DEF OwnershipInv, TypeOK
  <1> HIDE DEF new
  <1>4. group' \in [AnyAction -> Group]
    BY <1>1, <1>2 DEF OwnershipInv, TypeOK
  <1>5. GroupsAreOwned'
    BY <1>1, <1>2, <1>3 DEF OwnershipInv, GroupsAreOwned, Owned, Owns, AnyAction
  <1>6. ScopeIsKept'
    BY <1>1, <1>2, <1>3 DEF OwnershipInv, ScopeIsKept, TypeOK, Binding, AnyAction
  <1> QED
    BY <1>1, <1>2, <1>3, <1>4, <1>5, <1>6, GroupsChange

(* The Agent finds the one card of the action, of the same scope, or on    *)
(* another device no card, and then nothing.                               *)
LEMMA FreezesOwned ==
  ASSUME OwnershipInv, NEW a \in AnyAction, NEW cards \in {Controls, {}},
         AgentFreezes(a, cards)
  PROVE  OwnershipInv'
  <1> DEFINE source == SelectedSource(a, group[a].scope, cards)
             bound == {c \in cards : Owns(c, a, group[a].scope)}
             new == [group[a] EXCEPT !.source = source]
  <1>1. /\ group' = [group EXCEPT ![a] = new]
        /\ UNCHANGED <<binding, call, late>>
        /\ group[a] \in Group /\ group[a].state = "active"
    BY DEF AgentFreezes, OwnershipInv, TypeOK
  <1>2. source = IF group[a].scope = "all_valid_sessions" THEN AllSessions
                 ELSE IF bound = {} THEN Closed
                 ELSE binding[CHOOSE c \in bound : TRUE].session
    BY DEF SelectedSource, Owns
  <1>3. bound # {} => (CHOOSE c \in bound : TRUE) \in bound
    OBVIOUS
  <1>4. source \in Sessions \cup {NoSession, AllSessions, Closed}
    BY <1>2, <1>3 DEF OwnershipInv, TypeOK, Binding
  <1>5. /\ new \in Group /\ new.state = "active"
        /\ new.scope = group[a].scope /\ new.source = source
    BY <1>1, <1>4 DEF Group
  <1>6. \A b \in AnyAction : group'[b] = IF b = a THEN new ELSE group[b]
    BY <1>1 DEF OwnershipInv, TypeOK
  <1> HIDE DEF new
  <1>7. group' \in [AnyAction -> Group]
    BY <1>1, <1>5 DEF OwnershipInv, TypeOK
  <1>8. GroupsAreOwned'
    BY <1>1, <1>5, <1>6 DEF OwnershipInv, GroupsAreOwned, Owned, Owns, AnyAction
  <1>9. ASSUME NEW c \in Controls, binding[c].action = a, a # NoAction
        PROVE  source \in IF binding[c].scope = "current_session"
                          THEN {binding[c].session, Closed} ELSE {AllSessions}
    <2>1. a \in Actions
      BY <1>9 DEF OwnershipInv, TypeOK, Binding
    <2>2. PICK o \in Controls : Owns(o, a, group[a].scope)
      BY <1>1, <2>1 DEF OwnershipInv, GroupsAreOwned, Owned
    <2>3. \A d \in Controls : binding[d].action = a => d = c
      BY <1>9 DEF OwnershipInv, ActionsAreOwned
    <2>4. binding[c].scope = group[a].scope
      BY <2>2, <2>3 DEF Owns
    <2>5. group[a].scope \in Scopes
      BY <1>9, <2>4 DEF OwnershipInv, ActionsAreOwned
    <2>6. \A d \in bound : d = c
      BY <2>3 DEF Owns
    <2> QED
      BY <1>2, <1>3, <2>4, <2>5, <2>6 DEF Scopes
  <1>10. ScopeIsKept'
    BY <1>1, <1>5, <1>6, <1>9 DEF OwnershipInv, ScopeIsKept, TypeOK, Binding, AnyAction
  <1> QED
    BY <1>1, <1>5, <1>6, <1>7, <1>8, <1>10, GroupsChange

-----------------------------------------------------------------------------
LEMMA OwnershipStep == OwnershipInv /\ [Next]_vars => OwnershipInv'
  <1> SUFFICES ASSUME OwnershipInv, [Next]_vars PROVE OwnershipInv'
    OBVIOUS
  <1>1. ASSUME NEW s \in Sessions, TurnChanges(s) PROVE OwnershipInv'
    BY <1>1, OwnershipRests DEF TurnChanges
  <1>2. ASSUME NEW c \in Controls, ControlExpires(c) PROVE OwnershipInv'
    BY <1>2, OwnershipRests DEF ControlExpires
  <1>3. ASSUME NEW c \in Controls, NEW s \in Sessions, CreateBinding(c, s)
        PROVE  OwnershipInv'
    BY <1>3, CreateBindingOwned
  <1>4. ASSUME Clicks PROVE OwnershipInv'
    BY <1>4, ChooseScopeOwned DEF Clicks
  <1>5. ASSUME NEW v \in Views,
               CentralAnswers(v) \/ ConnectionUnavailable(v) \/ AttachRequest(v)
                 \/ FinishSubmission(v)
        PROVE  OwnershipInv'
    BY <1>5, AnswerOwned, LostOwned, SettledOwned
  <1>6. ASSUME NEW a \in Actions, NEW scope \in Scopes, LateCall(a, scope)
        PROVE  OwnershipInv'
    BY <1>6, LateCallOwned
  <1>7. ASSUME NEW a \in AnyAction, PageCreates(a) \/ GroupEnds(a) PROVE OwnershipInv'
    BY <1>7, PageCreatesOwned, GroupEndsOwned
  <1>8. ASSUME NEW a \in AnyAction, NEW cards \in {Controls, {}}, AgentFreezes(a, cards)
        PROVE  OwnershipInv'
    BY <1>8, FreezesOwned
  <1>9. CASE UNCHANGED vars
    BY <1>9, OwnershipRests DEF vars
  <1> QED
    BY <1>1, <1>2, <1>3, <1>4, <1>5, <1>6, <1>7, <1>8, <1>9 DEF Next

LEMMA OwnershipCorrect == Spec => []OwnershipInv
  BY OwnershipInit, OwnershipStep, PTL DEF Spec

(* A card leads to one request at most (agent/control_bindings.py           *)
(* choose_scope, attach_request): whatever Central holds for a generated    *)
(* action is of the scope frozen on its card, and a card shows its own.     *)
THEOREM OneRequestCorrect == Spec => []OneRequestPerControl
  <1>1. OwnershipInv => OneRequestPerControl
    BY DEF OwnershipInv, GroupsAreOwned, CardsAreTrue, OneRequestPerControl, Owned, Owns
  <1> QED
    BY <1>1, OwnershipCorrect, PTL

(* A request for the current Session captures that Session or nothing, on   *)
(* whatever device it is served (capture_processor.py _selected_session_id).*)
THEOREM ScopeCorrect == Spec => []ScopeIsKept
  <1>1. OwnershipInv => ScopeIsKept
    BY DEF OwnershipInv
  <1> QED
    BY <1>1, OwnershipCorrect, PTL
=============================================================================
