------------------------------ MODULE MCAgentRun ------------------------------
(* AgentRun as it is; the configurations choose the queue modes and bounds. *)
EXTENDS AgentRun
=============================================================================
