---------------------------- MODULE MCAgentClient ----------------------------
(***************************************************************************)
(* TLC instances of AgentClient.                                           *)
(***************************************************************************)
EXTENDS AgentClient

\* A failure the library reports (MQTTASYNC_FAILURE), a NULL response, an
\* operation given up (below -1) and a refusal by the broker.
MCFailureCodes == {-11, -1, 0, 5}
\* Only refusals by the broker, whose codes are positive.
MCRefusals     == {5}
MCFewCodes     == {-1, 5}
=============================================================================
