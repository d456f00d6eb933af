---------------------------- MODULE MCAgentCalls ----------------------------
(* o7 reports an answer or that the loop has to end; the runner itself adds  *)
(* BLOCKED_TIMEOUT, BLOCKED_NOT_INSTALLED and FAIL_INVALID_OUTPUT.           *)
EXTENDS AgentCalls

MCStatuses == {"PASS", "BLOCKED_AUTH"}
=============================================================================
