---------------------------- MODULE MCAgentQueues ----------------------------
(* Small instance of AgentQueues for TLC. *)
EXTENDS AgentQueues
=============================================================================
