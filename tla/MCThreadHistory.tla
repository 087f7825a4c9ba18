--------------------------- MODULE MCThreadHistory ----------------------------
(***************************************************************************)
(* The instances of AgentGraph, with the trace.                            *)
(***************************************************************************)
EXTENDS MCAgentGraph, ThreadHistory
===============================================================================
