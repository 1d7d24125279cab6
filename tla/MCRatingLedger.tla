--------------------------- MODULE MCRatingLedger ---------------------------
(***************************************************************************)
(* Small instances of RatingLedger: a skill is one number, and MCRate moves *)
(* points between every two players of a match, more when the loser was    *)
(* ahead.  It keeps what the properties need of Weng-Lin: the result       *)
(* depends on the order in which matches are played, and a player who      *)
(* loses long enough reaches a rating the CHECK constraint refuses.        *)
(***************************************************************************)
EXTENDS RatingLedgerInvariant, TLC

\* MCRate, like Weng-Lin, treats all players alike, and no operator tells two
\* players or two workers apart.
Symmetry == Permutations(Player) \cup Permutations(Worker)

MCSkill         == -60..60
MCStorableSkill == 1..60
MCInsertSkill   == 7     \* uncertainty 8.3333333333, the column default
MCDefaultSkill  == 6     \* uncertainty 25.0 / 3.0
MCLowSkill      == 3     \* a default from which one lost match cannot be stored

Stake(old, winner, loser) == IF old[winner] >= old[loser] THEN 3 ELSE 5

MCRate(old, place) ==
  [p \in DOMAIN place |->
     LET beaten == {q \in DOMAIN place : place[p] < place[q]}
         lostTo == {q \in DOMAIN place : place[q] < place[p]}
         moved  == MapThenSumSet(LAMBDA q : Stake(old, p, q), beaten)
                     - MapThenSumSet(LAMBDA q : Stake(old, q, p), lostTo)
     IN  IF old[p] + moved > 60 THEN 60
         ELSE IF old[p] + moved < -60 THEN -60 ELSE old[p] + moved]
=============================================================================
