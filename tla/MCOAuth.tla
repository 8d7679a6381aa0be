------------------------------ MODULE MCOAuth -------------------------------
(* Model checking of OAuth on small instances. *)
EXTENDS OAuth, TLC

RequestSymmetry == Permutations(Requests)
=============================================================================
