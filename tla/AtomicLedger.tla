---------------------------- MODULE AtomicLedger ----------------------------
(***************************************************************************)
(* What the rating ledger promises its callers: every request takes effect *)
(* in one step or not at all, submit_match plays its match on top of the   *)
(* current ratings, and void_match, correct_match and recalculate_ratings  *)
(* leave the ratings and the snapshots a replay of the whole confirmed     *)
(* history defines.  There are no transactions, locks or failures here,    *)
(* and no loop: the result of a replay is described, not computed.         *)
(***************************************************************************)
EXTENDS MatchTables

VARIABLES active, rating, matches

vars == <<active, rating, matches>>

Init == active = {} /\ rating = NoRows /\ matches = NoRows

CreatePlayer(p) ==
  /\ p \notin DOMAIN rating
  /\ active' = active \cup {p}
  /\ rating' = Overlay(rating, [x \in {p} |-> FreshRating(InsertSkill)])
  /\ UNCHANGED matches

SetActive(p) ==
  /\ p \in DOMAIN rating
  /\ active' \in {active \cup {p}, active \ {p}}
  /\ UNCHANGED <<rating, matches>>

\* The placements of a match that existing players can have played.  A player
\* may have been deactivated since the placements were validated.
Playable == {place \in ValidPlacements : DOMAIN place \subseteq DOMAIN rating}

\* Places, times and origin of the row of a new match; the snapshots are free.
Records(row, from) ==
  /\ IsMatchRow(row)
  /\ row.status = "confirmed" /\ row.correctedFrom = from
  /\ row.place \in Playable

Submit(m) ==
  /\ m \notin DOMAIN matches /\ m \in DOMAIN matches'
  /\ LET row == matches'[m]
     IN  /\ Records(row, NoMatch)
         /\ row.old = [p \in DOMAIN row.place |-> rating[p].skill]
         /\ row.new = Rate(row.old, row.place)
         /\ matches' = Overlay(matches, [x \in {m} |-> row])
         /\ rating' = [p \in DOMAIN rating |->
              IF p \in DOMAIN row.place
              THEN RatingAfterMatch(rating[p], row.new[p], row.place[p], row.playedAt)
              ELSE rating[p]]
  /\ UNCHANGED active

\* Every rating and every snapshot is what the confirmed matches of the table
\* history say.  A player created while the replay ran is as it was created.
Rebuild(history) ==
  LET start == [p \in Player |-> DefaultSkill]
      done  == Confirmed(history)
  IN  /\ DOMAIN matches' = DOMAIN history
      /\ \A m \in DOMAIN history :
           /\ m \notin done => matches'[m] = history[m]
           /\ [matches'[m] EXCEPT !.old = history[m].old, !.new = history[m].new]
                = history[m]
      /\ SnapshotsChain(matches', done, start)
      /\ DOMAIN rating' = DOMAIN rating
      /\ \A p \in DOMAIN rating :
           \/ /\ rating'[p].skill = SkillAfter(matches', Of(history, done, p), p, DefaultSkill)
              /\ CountersAgree(matches', Of(history, done, p), p, rating'[p])
           \/ /\ Of(history, done, p) = {}
              /\ rating'[p] = rating[p] /\ rating[p] = FreshRating(InsertSkill)
      /\ UNCHANGED active

Voided(m) == [x \in {m} |-> [matches[m] EXCEPT !.status = "voided"]]

Void(m) ==
  /\ m \in Confirmed(matches)
  /\ Rebuild(Overlay(matches, Voided(m)))

Correct(m, k) ==
  /\ m \in Confirmed(matches)
  /\ k \notin DOMAIN matches /\ k \in DOMAIN matches'
  /\ Records(matches'[k], m)
  /\ Rebuild(Overlay(matches, Overlay(Voided(m), [x \in {k} |-> matches'[k]])))

Recalculate == Rebuild(matches)

Next ==
  \/ \E p \in Player : CreatePlayer(p) \/ SetActive(p)
  \/ \E m \in MatchId : Submit(m) \/ Void(m)
  \/ \E m, k \in MatchId : Correct(m, k)
  \/ Recalculate

Spec == Init /\ [][Next]_vars
=============================================================================
