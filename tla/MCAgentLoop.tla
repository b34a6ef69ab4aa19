----------------------------- MODULE MCAgentLoop -----------------------------
(* Three messages of one Slack thread, one after the other.                  *)
EXTENDS AgentLoop

CONSTANTS k1, t1, t2, t3

MCKeyOf == [t \in Turns |-> k1]
=============================================================================
