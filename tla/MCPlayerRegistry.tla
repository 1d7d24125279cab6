-------------------------- MODULE MCPlayerRegistry --------------------------
(***************************************************************************)
(* Small instances of PlayerRegistry.                                      *)
(***************************************************************************)
EXTENDS PlayerRegistry, TLC

Symmetry == Permutations(Player) \cup Permutations(Worker) \cup Permutations(Name)
=============================================================================
