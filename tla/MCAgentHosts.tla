---------------------------- MODULE MCAgentHosts ----------------------------
(***************************************************************************)
(* The connections of one agent, for TLC.                                  *)
(***************************************************************************)
EXTENDS AgentHosts, TLC

CONSTANTS c1, c2
=============================================================================
