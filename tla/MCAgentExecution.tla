--------------------------- MODULE MCAgentExecution ---------------------------
(* Instance of AgentExecution for TLC. *)
EXTENDS AgentExecution

CONSTANT d1
==============================================================================
