---------------------------- MODULE MCAgentWorker ----------------------------
(* Bounds for TLC.  All events are of one Session.                         *)
EXTENDS AgentWorker

MCSessionOf == [e \in Events |-> CHOOSE s \in Sessions : TRUE]
=============================================================================
