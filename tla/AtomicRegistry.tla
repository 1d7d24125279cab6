--------------------------- MODULE AtomicRegistry ---------------------------
(***************************************************************************)
(* What the player registry promises: display names are unique, a request  *)
(* takes effect in one step or not at all, and the entries of the audit    *)
(* log about a player tell the history of its row without a gap.           *)
(***************************************************************************)
EXTENDS Naturals, Sequences, SequencesExt

CONSTANTS Player, Name

VARIABLES
  players,  \* player |-> [name, active]
  entries   \* player |-> its audit_log entries, in the order of their commits

vars == <<players, entries>>

PlayerRow == [name : Name, active : BOOLEAN]

\* old_value of the entry of a creation is NULL.
NoRow == [name |-> "", active |-> FALSE]

Entry == [action : {"player.created", "player.updated", "player.deactivated"},
          old : PlayerRow \cup {NoRow}, new : PlayerRow]

Init == players = [p \in {} |-> NoRow] /\ entries = [p \in Player |-> <<>>]

NameFree(n, p) == \A q \in DOMAIN players \ {p} : players[q].name # n

Writes(p, action, old, new) ==
  /\ players' = [q \in DOMAIN players \cup {p} |-> IF q = p THEN new ELSE players[q]]
  /\ entries' = [entries EXCEPT ![p] =
       Append(@, [action |-> action, old |-> old, new |-> new])]

Create(p, n) ==
  /\ p \notin DOMAIN players /\ NameFree(n, p)
  /\ Writes(p, "player.created", NoRow, [name |-> n, active |-> TRUE])

Update(p, n, active) ==
  /\ p \in DOMAIN players /\ NameFree(n, p)
  /\ Writes(p, "player.updated", players[p], [name |-> n, active |-> active])

Deactivate(p) ==
  /\ p \in DOMAIN players
  /\ Writes(p, "player.deactivated", players[p], [players[p] EXCEPT !.active = FALSE])

Next ==
  \E p \in Player :
    \/ \E n \in Name : Create(p, n) \/ \E active \in BOOLEAN : Update(p, n, active)
    \/ Deactivate(p)

Spec == Init /\ [][Next]_vars
=============================================================================
