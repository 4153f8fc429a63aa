---------------------------- MODULE MCAgentTurns ----------------------------
(* Two turns over an owner's session and an anonymous one, in a store with room for one. *)
EXTENDS AgentTurns
=============================================================================
