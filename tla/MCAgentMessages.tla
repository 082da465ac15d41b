--------------------------- MODULE MCAgentMessages ---------------------------
(***************************************************************************)
(* TLC instances of AgentMessages.                                         *)
(***************************************************************************)
EXTENDS AgentMessages

MCRefusals == {5}
=============================================================================
