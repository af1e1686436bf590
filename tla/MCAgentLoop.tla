---------------------------- MODULE MCAgentLoop ----------------------------
(* Small instances of AgentLoop for TLC: calls cost time in coarse units. *)
EXTENDS AgentLoop, TLC
=============================================================================
