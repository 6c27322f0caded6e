---------------------------- MODULE DelegationMC ----------------------------
(* Three agents that may delegate in a circle: two delegations of one of them, *)
(* one of each other, and one of nobody.                                       *)
EXTENDS Delegation
CONSTANTS a, b, c, d1, d2, d3, d4, d5
MCAgents == {a, b, c}
MCTasks == {d1, d2, d3, d4, d5}
MCFrom == (d1 :> a) @@ (d2 :> a) @@ (d3 :> b) @@ (d4 :> c) @@ (d5 :> NoAgent)
=============================================================================
