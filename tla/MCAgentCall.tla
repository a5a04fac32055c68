----------------------------- MODULE MCAgentCall ----------------------------
(***************************************************************************)
(* Instances of AgentCall for TLC: two backends that may call each other.  *)
(***************************************************************************)
EXTENDS AgentCall

CONSTANTS a1, a2
Mutual == {<<a1, a2>>, <<a2, a1>>}
FreshSession == {NoSession}
=============================================================================
