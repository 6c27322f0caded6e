---------------------------- MODULE AgentLoopMC ----------------------------
(* The loop of AgentLoop.tla under TLC; the .cfg files give the bounds. *)
EXTENDS AgentLoop
=============================================================================
