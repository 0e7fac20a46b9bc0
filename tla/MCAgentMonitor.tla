--------------------------- MODULE MCAgentMonitor ---------------------------
(* An instance of AgentMonitor for TLC, with the assumptions of HostSample. *)
EXTENDS AgentMonitor, HostSample
=============================================================================
