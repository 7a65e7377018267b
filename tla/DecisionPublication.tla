------------------------ MODULE DecisionPublication ------------------------
(***************************************************************************)
(* What publishing promises, without Git, drafts, previews, requests or      *)
(* crashes.  A publication is confirmed for Candidate families that no other *)
(* has; it makes one decision, records it for all its families at once,      *)
(* shows it to everybody, and only then reports success.  It may stop at any *)
(* point before that, and then it stays where it is.                        *)
(*                                                                          *)
(* Publication implements this specification (Publication!Promise).         *)
(***************************************************************************)
CONSTANTS Families, Nobody, NoDecision

VARIABLES
  phase,     \* of each publication so far: "open", "stopped" or "reported"
  owner,     \* the publication a family belongs to, or Nobody
  made,      \* the publication that made each decision
  receipt,   \* the decision recorded for a family, or NoDecision
  public     \* the publications everybody sees

promiseVars == <<phase, owner, made, receipt, public>>

PromiseInit ==
  /\ phase = [p \in {} |-> "open"]
  /\ owner = [f \in Families |-> Nobody]
  /\ made = [d \in {} |-> Nobody]
  /\ receipt = [f \in Families |-> NoDecision]
  /\ public = {}

(* A family is given away once and for all.                                 *)
Confirm(p, F) ==
  /\ p \notin DOMAIN phase
  /\ \A f \in F : owner[f] = Nobody
  /\ phase' = [q \in DOMAIN phase \cup {p} |-> IF q = p THEN "open" ELSE phase[q]]
  /\ owner' = [f \in Families |-> IF f \in F THEN p ELSE owner[f]]
  /\ UNCHANGED <<made, receipt, public>>

(* One decision, however often the attempt is repeated.                     *)
Decide(p, d) ==
  /\ phase[p] = "open"
  /\ d \notin DOMAIN made /\ \A e \in DOMAIN made : made[e] # p
  /\ made' = [e \in DOMAIN made \cup {d} |-> IF e = d THEN p ELSE made[e]]
  /\ UNCHANGED <<phase, owner, receipt, public>>

Record(p, d) ==
  /\ phase[p] = "open"
  /\ d \in DOMAIN made /\ made[d] = p
  /\ receipt' = [f \in Families |-> IF owner[f] = p THEN d ELSE receipt[f]]
  /\ UNCHANGED <<phase, owner, made, public>>

(* Nothing is shown that is not on record, for every family.                *)
Publish(p, d) ==
  /\ phase[p] = "open"
  /\ d \in DOMAIN made /\ made[d] = p
  /\ \A f \in Families : owner[f] = p => receipt[f] = d
  /\ p \notin public /\ public' = public \cup {p}
  /\ UNCHANGED <<phase, owner, made, receipt>>

Report(p) ==
  /\ phase[p] = "open" /\ p \in public
  /\ phase' = [phase EXCEPT ![p] = "reported"]
  /\ UNCHANGED <<owner, made, receipt, public>>

Stop(p) ==
  /\ phase[p] = "open"
  /\ phase' = [phase EXCEPT ![p] = "stopped"]
  /\ UNCHANGED <<owner, made, receipt, public>>

(* Publications and decisions have no bound: a step is about one of those     *)
(* that exist after it.                                                     *)
PromiseNext ==
  \E p \in DOMAIN phase' :
    \/ \E F \in SUBSET Families : Confirm(p, F)
    \/ \E d \in DOMAIN made' : Decide(p, d) \/ Record(p, d) \/ Publish(p, d)
    \/ Report(p)
    \/ Stop(p)

PromiseSpec == PromiseInit /\ [][PromiseNext]_promiseVars
=============================================================================
