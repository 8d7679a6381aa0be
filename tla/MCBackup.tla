------------------------------ MODULE MCBackup ------------------------------
(* Model checking of Backup on small instances. *)
EXTENDS Backup, TLC

Symm == Permutations(Runs)

SeedOne == {1}
=============================================================================
