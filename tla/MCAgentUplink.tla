---------------------------- MODULE MCAgentUplink ----------------------------
(* A small agent for TLC. *)
EXTENDS AgentUplink, TLC
=============================================================================
