---------------------------- MODULE MCAgentTurn ----------------------------
(* A small instance of one native-agent turn: three calls, two slots.      *)
EXTENDS AgentTurn
MCKinds == {"read", "garbled", "shell"}
============================================================================
