--------------------------- MODULE MCAgentRegistry --------------------------
(* Instances of AgentRegistry for TLC. *)
EXTENDS AgentRegistry

\* The streams are successive ones of a single agent: agents share no state but
\* the handler CleanupNodes.
AllOfOne == [c \in Streams |-> CHOOSE n \in Nodes : TRUE]
=============================================================================
