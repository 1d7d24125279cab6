------------------------------- MODULE Sorting -------------------------------
(***************************************************************************)
(* Sorting rows: ORDER BY of the queries, sort_by and sort_unstable of the *)
(* services.  An order is given as a function: ahead[x] are the elements   *)
(* that come before x.  The place of x is one more than their number.      *)
(* (SortSeq of the module TLC is evaluated by an override and has no       *)
(* definition that a proof could use.)                                     *)
(***************************************************************************)
EXTENDS Integers, FiniteSets

\* What a sort demands of its comparison: a strict total order of finitely many.
IsOrder(ahead) ==
  /\ IsFiniteSet(DOMAIN ahead)
  /\ \A x \in DOMAIN ahead : ahead[x] \subseteq DOMAIN ahead \ {x}
  /\ \A x, y \in DOMAIN ahead : x = y \/ x \in ahead[y] \/ y \in ahead[x]
  /\ \A x, y \in DOMAIN ahead : x \in ahead[y] => ahead[x] \subseteq ahead[y]

InOrder(ahead) ==
  [i \in 1..Cardinality(DOMAIN ahead) |->
     CHOOSE x \in DOMAIN ahead : Cardinality(ahead[x]) = i - 1]
=============================================================================
