------------------------------ MODULE HookEvents ------------------------------
(***************************************************************************)
(* The native host and the Agent's ledger of its Hook events (agent/db.py,  *)
(* agent/events.py).  The host runs Sessions: it starts one, runs Turns in  *)
(* it, compacts its context in the middle of a Turn, ends and resumes it,   *)
(* and calls a Hook at each of these points.  The Hook appends one row to   *)
(* the events table, unless a row with the same identity is there already.  *)
(*                                                                          *)
(* A row is its identity: the time of the event is not part of it.  Every   *)
(* Session works in one repository and one working directory; what can      *)
(* change between two events is the commit its worktree is at.              *)
(***************************************************************************)
EXTENDS Naturals, Sequences, SequencesExt

CONSTANTS
  Sessions,        \* native Sessions (threads) of the host
  Heads,           \* commits a worktree can be at when a Hook runs
  Triggers,        \* what starts a compaction: "manual", "auto"
  MaxTurns,        \* bound: Turns of a Session
  MaxBreaks        \* bound: compactions, clears and ends of a Session

ASSUME HookAssumption ==
  MaxTurns \in Nat /\ MaxBreaks \in Nat /\ Triggers \subseteq {"manual", "auto"}

VARIABLES
  log,             \* the events table in rowid order
  host             \* what the host is doing in each Session

ledgerVars == <<log, host>>

Turns == 1..MaxTurns
NoTurn == 0

Names == {"UserPromptSubmit", "Stop", "PreCompact", "PostCompact",
          "SessionStart", "SessionEnd"}
Facts == {"none", "startup", "resume", "clear", "compact", "other"} \cup Triggers

(* fingerprint of _build_invocation.                                       *)
Event == [name : Names, session : Sessions, turn : Turns \cup {NoTurn},
          fact : Facts, head : Heads]

Host == [phase : {"absent", "idle", "turn", "compacting", "compacted", "ended"},
         turn : Turns \cup {NoTurn},
         trigger : Triggers \cup {"none"},
         breaks : 0..MaxBreaks]

LedgerInit ==
  /\ log = <<>>
  /\ host = [s \in Sessions |->
               [phase |-> "absent", turn |-> NoTurn, trigger |-> "none",
                breaks |-> 0]]

-----------------------------------------------------------------------------
(* The ledger.                                                             *)

(* record_hook: ON CONFLICT(event_id) DO NOTHING.                          *)
Record(event) ==
  log' = IF event \in Range(log) THEN log ELSE Append(log, event)

OfSession(s, name, turn, fact, head) ==
  [name |-> name, session |-> s, turn |-> turn, fact |-> fact, head |-> head]

(* has_open_observed_turn: the Turn was prompted, and neither the end of   *)
(* the Session nor another Turn was recorded after that.                   *)
OpenTurn(rows, s, t) ==
  \E i \in DOMAIN rows :
    /\ rows[i].name = "UserPromptSubmit"
    /\ rows[i].session = s /\ rows[i].turn = t
    /\ \A j \in DOMAIN rows :
         j > i /\ rows[j].session = s =>
           rows[j].name # "SessionEnd" /\ rows[j].turn \in {NoTurn, t}

(* _matched_compaction_key: the last three rows it looks at have to be     *)
(* PreCompact, PostCompact, SessionStart(compact) of one Turn.             *)
MatchedCompaction(rows, s, t) ==
  LET seen == SelectSeq(rows, LAMBDA e :
                /\ e.session = s
                /\ e.name \in {"PreCompact", "PostCompact", "SessionStart"})
      n == Len(seen)
  IN /\ n >= 3
     /\ seen[n].name = "SessionStart" /\ seen[n].fact = "compact"
     /\ seen[n - 1].name = "PostCompact" /\ seen[n - 2].name = "PreCompact"
     /\ seen[n - 1].turn = t /\ seen[n - 2].turn = t
     /\ seen[n - 1].fact = seen[n - 2].fact

-----------------------------------------------------------------------------
(* The host, outside the repository: what it does to a Session.            *)

HostGoes(s, from, to) ==
  /\ host[s].phase \in from
  /\ host' = [host EXCEPT ![s].phase = to]

HostBreaks(s, from, to, trigger) ==
  /\ host[s].phase \in from
  /\ host[s].breaks < MaxBreaks
  /\ host' = [host EXCEPT ![s].phase = to, ![s].trigger = trigger, ![s].breaks = @ + 1]

HostStarts(s) == HostGoes(s, {"absent"}, "idle")

HostPrompts(s) ==
  /\ host[s].phase = "idle"
  /\ host[s].turn < MaxTurns
  /\ host' = [host EXCEPT ![s].phase = "turn", ![s].turn = @ + 1]

HostStops(s) == HostGoes(s, {"turn"}, "idle")
HostCompacts(s, trigger) == HostBreaks(s, {"turn"}, "compacting", trigger)
HostCompacted(s) == HostGoes(s, {"compacting"}, "compacted")
HostContinues(s) == HostGoes(s, {"compacted"}, "turn")
HostClears(s) == HostBreaks(s, {"idle"}, "idle", host[s].trigger)
HostEnds(s) == HostBreaks(s, {"idle", "turn"}, "ended", host[s].trigger)
HostResumes(s) == HostGoes(s, {"ended"}, "idle")
=============================================================================
