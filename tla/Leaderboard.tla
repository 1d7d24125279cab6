---------------------------- MODULE Leaderboard -----------------------------
(***************************************************************************)
(* The leaderboard (leaderboard_service): rows computed from the players   *)
(* and their ratings, sorted by a comparison of seven keys, and ranked.    *)
(* The players play matches and come and go meanwhile.                     *)
(*                                                                         *)
(* Ratings and uncertainties are counted in units of 1/80, so that         *)
(* DISPLAY_RATING_SCALE = 40 makes display ratings and rank scores of      *)
(* halves of them, which are rounded.                                      *)
(*                                                                         *)
(* Voids, corrections and recalculations rebuild all rows from another     *)
(* list of matches (RatingLedger has them).  The tables they leave are     *)
(* tables that SubmitMatch reaches too, and nothing is claimed here of     *)
(* the step from one table to the other.                                   *)
(***************************************************************************)
EXTENDS Sorting, Functions

CONSTANTS
  Contestant,    \* players, as numbers: the order of display names, which are unique
  MaxMinGames,   \* bound: min_games asked for
  MaxGames,      \* bound: games of a player
  Skill,         \* bound: the ratings and uncertainties that Weng-Lin returns
  DefaultSkill   \* of a new player

ASSUME LeaderboardAssumption ==
  /\ Contestant \subseteq Nat /\ IsFiniteSet(Contestant)
  /\ MaxMinGames \in Nat /\ MaxGames \in Nat
  /\ Skill \subseteq [rating : Int, uncertainty : Nat] /\ DefaultSkill \in Skill

VARIABLES
  table,      \* players and player_ratings: player |-> row
  minGames,   \* the query
  inactive    \* include_inactive

leaderboardVars == <<table, minGames, inactive>>

-----------------------------------------------------------------------------
(* Rows *)

\* f64::round: halves go away from zero.
RoundHalf(x) == IF x >= 0 THEN (x + 1) \div 2 ELSE -((1 - x) \div 2)

DisplayRating(row) == RoundHalf(row.skill.rating)

\* conservative_rank_score, of the player's own uncertainty
RankScore(row) == RoundHalf(row.skill.rating - 3 * row.skill.uncertainty)

\* list_players_with_ratings
Listed == {p \in DOMAIN table : inactive \/ table[p].active}

IsRanked(row, min) == row.games >= min

-----------------------------------------------------------------------------
(* The comparison: "less" puts the left row first *)

Desc(l, r) == IF l > r THEN "less" ELSE IF l < r THEN "greater" ELSE "equal"

Asc(l, r) == Desc(r, l)

\* then_with
Then(order, next) == IF order = "equal" THEN next ELSE order

\* compare_optional_f64_desc(right.win_rate, left.win_rate): the rate of a player
\* without games is None, which comes first.
CompareWinRates(l, r) ==
  IF l.games = 0 /\ r.games = 0 THEN "equal"
  ELSE IF l.games = 0 THEN "less" ELSE IF r.games = 0 THEN "greater"
  ELSE Desc(l.wins * r.games, r.wins * l.games)

\* Mistake: equal rank scores are taken for equal ratings.
CompareRankedByScore(p, q, l, r) ==
  Then(Desc(RankScore(l), RankScore(r)),
  Then(Desc(l.wins, r.wins),
  Then(CompareWinRates(l, r),
  Then(Desc(l.games, r.games), Asc(p, q)))))

CompareRanked(p, q, l, r) ==
  Then(Desc(RankScore(l), RankScore(r)),
  Then(Desc(DisplayRating(l), DisplayRating(r)),
  Then(Desc(l.wins, r.wins),
  Then(CompareWinRates(l, r),
  Then(Desc(l.games, r.games), Asc(p, q))))))

\* Mistake: nothing tells two equal players apart.
CompareUnrankedLoosely(p, q, l, r) ==
  Then(Desc(DisplayRating(l), DisplayRating(r)), Desc(l.games, r.games))

\* Mistake: whoever needed fewer games comes first.
CompareUnrankedByFewGames(p, q, l, r) ==
  Then(Desc(DisplayRating(l), DisplayRating(r)), Then(Asc(l.games, r.games), Asc(p, q)))

CompareUnranked(p, q, l, r) ==
  Then(Desc(DisplayRating(l), DisplayRating(r)), Then(Desc(l.games, r.games), Asc(p, q)))

\* compare_rows
Compare(p, q, min) ==
  LET l == table[p]
      r == table[q]
  IN  IF IsRanked(l, min) /\ ~IsRanked(r, min) THEN "less"
      ELSE IF ~IsRanked(l, min) /\ IsRanked(r, min) THEN "greater"
      ELSE IF IsRanked(l, min) THEN CompareRanked(p, q, l, r)
      ELSE CompareUnranked(p, q, l, r)

\* sort_by, when the comparison is a total order.
Ahead == [p \in Listed |-> {q \in Listed : Compare(q, p, minGames) = "less"}]
Board == InOrder(Ahead)

\* RankNumbers are counted from 1 over the ranked rows; 0 stands for None.
RankNumbers(board) ==
  [i \in DOMAIN board |->
     IF IsRanked(table[board[i]], minGames)
     THEN Cardinality({j \in 1..i : IsRanked(table[board[j]], minGames)}) ELSE 0]

-----------------------------------------------------------------------------
(* Players and queries *)

LeaderboardInit == table = [p \in {} |-> 0] /\ minGames = MaxMinGames /\ inactive = FALSE

\* insert_default_rating
NewPlayer(p) ==
  /\ p \notin DOMAIN table
  /\ table' = [q \in DOMAIN table \cup {p} |->
       IF q = p THEN [skill |-> DefaultSkill, games |-> 0, wins |-> 0, active |-> TRUE]
       ELSE table[q]]
  /\ UNCHANGED <<minGames, inactive>>

\* What a match can be: its players and the place of each.
Results ==
  UNION {Bijection(S, 1..Cardinality(S)) : S \in {T \in SUBSET Contestant : Cardinality(T) > 1}}

\* weng_lin_multi_team: a match makes no rating less certain, it costs the winner
\* nothing and brings the last one nothing.  Those in between go either way.
Rates(place, new) ==
  \A p \in DOMAIN place :
    LET old == table[p].skill
    IN  /\ new[p].uncertainty <= old.uncertainty
        /\ place[p] = 1 => new[p].rating >= old.rating
        /\ place[p] = Cardinality(DOMAIN place) => new[p].rating <= old.rating

\* update_player_rating_after_match
RowAfterMatch(row, skill, place) ==
  [skill |-> skill, games |-> row.games + 1,
   wins |-> IF place = 1 THEN row.wins + 1 ELSE row.wins, active |-> row.active]

\* submit_match: one transaction writes the rows of all who played.
SubmitMatch(place) ==
  /\ \A p \in DOMAIN place :
       p \in DOMAIN table /\ table[p].active /\ table[p].games < MaxGames
  /\ \E new \in [DOMAIN place -> Skill] :
       /\ Rates(place, new)
       /\ table' = [p \in DOMAIN table |->
            IF p \in DOMAIN place THEN RowAfterMatch(table[p], new[p], place[p])
            ELSE table[p]]
  /\ UNCHANGED <<minGames, inactive>>

ComeOrGo(p) ==
  /\ p \in DOMAIN table
  /\ table' = [table EXCEPT ![p].active = ~@]
  /\ UNCHANGED <<minGames, inactive>>

\* get_leaderboard: min_games below 0 is refused.
AcceptsMinGames(min) == min >= 0

Ask ==
  /\ \E min \in -1..MaxMinGames : AcceptsMinGames(min) /\ minGames' = min
  /\ inactive' \in BOOLEAN
  /\ UNCHANGED table

LeaderboardNext ==
  \/ \E p \in Contestant : NewPlayer(p) \/ ComeOrGo(p)
  \/ \E place \in Results : SubmitMatch(place)
  \/ Ask

LeaderboardSpec == LeaderboardInit /\ [][LeaderboardNext]_leaderboardVars

-----------------------------------------------------------------------------
(* Properties *)

\* The comparison is a total order of different rows for every min_games, which
\* sort_by demands (it may panic otherwise): the missing win rate of a player
\* without games fits in between the others.
OrderIsTotal ==
  \A p, q \in DOMAIN table :
    /\ Compare(p, q, minGames) = "equal" <=> p = q
    /\ Compare(p, q, minGames) = "less" =>
         /\ Compare(q, p, minGames) = "greater"
         /\ \A s \in DOMAIN table :
              Compare(q, s, minGames) = "less" => Compare(p, s, minGames) = "less"
    /\ Compare(p, q, minGames) = "greater" => Compare(q, p, minGames) = "less"

\* p has a better row than q: the first key in which they differ is larger.
Keys(p) ==
  LET row == table[p] IN <<RankScore(row), DisplayRating(row), row.wins,
                           IF row.games = 0 THEN 1 ELSE 0, -row.games, -p>>
KeysWithoutWins(p) ==
  LET row == table[p] IN <<RankScore(row), DisplayRating(row), 0,
                           IF row.games = 0 THEN 1 ELSE 0, row.games, -p>>

Beats(p, q) ==
  LET k == IF table[p].wins = 0 THEN KeysWithoutWins(p) ELSE Keys(p)
      m == IF table[q].wins = 0 THEN KeysWithoutWins(q) ELSE Keys(q)
  IN  \E i \in DOMAIN k : k[i] > m[i] /\ \A j \in 1..(i - 1) : k[j] = m[j]

\* Whoever has enough games is ranked by the number of those who beat them, and
\* nobody else has a rank or influences one: win rates decide between equal
\* numbers of wins, so the winner with fewer games comes first; without a win
\* it is no games before many games before few.
RanksAreReference ==
  LET board  == Board
      rank   == RankNumbers(board)
      rivals == {q \in Listed : table[q].games >= minGames}
  IN  \A i \in DOMAIN board :
        rank[i] = IF board[i] \in rivals
                  THEN 1 + Cardinality({q \in rivals : Beats(q, board[i])}) ELSE 0

\* A win costs no place among those who did not play: whoever was behind the
\* winner of a match and took no part in it is still behind, also when the
\* rounding hides what the winner gained and when the game makes the winner
\* ranked.  (Nothing of the kind holds of those who played and lost: the same
\* match may give them the game they lacked to be ranked.)
WinnersKeepBystandersBehind ==
  [][\A p, q \in DOMAIN table :
       /\ {p, q} \subseteq DOMAIN table'
       /\ table'[p].wins > table[p].wins /\ table'[q].games = table[q].games
       /\ Compare(p, q, minGames) = "less"
       => Compare(p, q, minGames)' = "less"]_leaderboardVars
=============================================================================
