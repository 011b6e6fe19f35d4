--------------------------- MODULE MCAgentPresence ---------------------------
(* Instance of AgentPresence for TLC: one machine with two adapters. *)
EXTENDS AgentPresence

CONSTANTS m1, a1, a2, k1, k2

TwoAdapters == [m \in Machine |-> {a1, a2}]
==============================================================================
