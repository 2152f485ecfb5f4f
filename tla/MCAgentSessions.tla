-------------------------- MODULE MCAgentSessions --------------------------
(* Instance of AgentSessions for TLC.                                      *)
EXTENDS AgentSessions, TLC

CONSTANT p1
MCPrior == <<p1>>
MCSymmetry == Permutations(Turns)
=============================================================================
