---------------------------- MODULE AgentPoolMC ----------------------------
(* The pool of AgentPool.tla under TLC; the calls are interchangeable. *)
EXTENDS AgentPool, TLC

Symmetry == Permutations(Calls)
=============================================================================
