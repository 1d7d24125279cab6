------------------------------- MODULE MCStartup -------------------------------
(* An old and a new version of the program: the new one adds a migration. *)
EXTENDS Startup, TLC

CONSTANTS old, new
MCKnown == [i \in Instance |-> IF i = old THEN 2 ELSE 3]
Symmetry == Permutations(Request)
=============================================================================
