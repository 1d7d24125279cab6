---------------------------- MODULE SharedPlayers ----------------------------
(***************************************************************************)
(* What the rating ledger and the player registry take for granted of each *)
(* other: the players of match_service and player_service are one table.   *)
(* Each of the two models has the other's transactions as a few steps of   *)
(* its own; both implement this specification, so that what one leaves out *)
(* of the other does not matter to the players they share.                 *)
(***************************************************************************)
EXTENDS Naturals

CONSTANT Player

VARIABLES
  known,       \* players with a row
  active,      \* those with active = TRUE
  referenced   \* those that a match being inserted refers to

vars == <<known, active, referenced>>

Init == known = {} /\ active = {} /\ referenced = {}

\* create_player
Create(p) ==
  /\ p \notin known
  /\ known' = known \cup {p} /\ active' = active \cup {p}
  /\ UNCHANGED referenced

\* deactivate_player, update_player: not while a match refers to p, whose foreign
\* key holds the row.
SetActive(p) ==
  /\ p \in known \ referenced
  /\ active' \in {active \ {p}, active \cup {p}}
  /\ UNCHANGED <<known, referenced>>

\* insert_match_player, and the end of the transaction it is in
Refer ==
  /\ referenced' \in SUBSET known
  /\ UNCHANGED <<known, active>>

Next == Refer \/ \E p \in Player : Create(p) \/ SetActive(p)

Spec == Init /\ [][Next]_vars
=============================================================================
