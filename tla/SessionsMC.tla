----------------------------- MODULE SessionsMC -----------------------------
(* One session is allowed and a second is within the threshold: the third     *)
(* creation evicts, and one call of a handler re-enters the manager. The      *)
(* unlock closures are interchangeable.                                       *)
EXTENDS Sessions

Symmetry == Permutations(Holders)
=============================================================================
