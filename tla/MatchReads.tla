------------------------------ MODULE MatchReads ------------------------------
(***************************************************************************)
(* The read requests beside the rating ledger: on matches (match_service:  *)
(* list_matches and get_match) and on players (player_service:             *)
(* list_players and get_player).  All are one statement but get_match,     *)
(* which is two, on the pool and outside any transaction, so that commits  *)
(* of the ledger can fall between them.                                    *)
(***************************************************************************)
EXTENDS RatingLedger, Sorting

CONSTANT Asked  \* bound: the matches get_match is asked for

ASSUME ReadAssumption == Asked \subseteq MatchId

VARIABLES
  get   \* one get_match request, and every version of its row since it began

readVars == <<vars, get>>

\* The columns of MatchResult: find_match_by_id, without match_players.
MatchResult(row) == [status |-> row.status, playedAt |-> row.playedAt,
                     createdAt |-> row.createdAt, correctedFrom |-> row.correctedFrom]

\* list_match_participants: ORDER BY placement; no two players share a place.
MatchParticipants(row) ==
  [i \in 1..Cardinality(DOMAIN row.place) |->
     LET p == CHOOSE q \in DOMAIN row.place : row.place[q] = i
     IN  [player |-> p, old |-> row.old[p], new |-> row.new[p]]]

\* MatchDetailResponse, assembled from the results of the two queries.
MatchDetail(header, participants) == [header |-> header, participants |-> participants]

\* Mistake: the newest id first; ids of matches are not in the order of play.
MatchListById(ms) ==
  InOrder([m \in DOMAIN ms |-> {k \in DOMAIN ms : k > m}])

\* list_matches: ORDER BY played_at DESC, created_at DESC, id DESC
MatchList(ms) ==
  InOrder([m \in DOMAIN ms |-> {k \in DOMAIN ms : ReplayBefore(ms, m, k)}])

\* PlayerResponse, with the summary of the player's rating.
PlayerResponse(p) ==
  [player |-> p, active |-> p \in active, skill |-> rating[p].skill,
   games |-> rating[p].games]

\* get_player, which finds inactive players too; {} is 404.
GetPlayer(p) == {PlayerResponse(q) : q \in DOMAIN rating \cap {p}}

\* list_players
ListPlayers(includeInactive) ==
  {PlayerResponse(p) : p \in {q \in DOMAIN rating : includeInactive \/ q \in active}}

-----------------------------------------------------------------------------
(* get_match *)

\* at: "idle"   no request
\*     "asked"  the request has come, nothing is read
\*     "found"  the matches row is read
\*     "done"   answered with answer, or 404 when that is <<>>
IdleGet == [at |-> "idle", match |-> NoMatch, header |-> <<>>, answer |-> <<>>, seen |-> {}]

ReadInit == Init /\ get = IdleGet

Versions(ms, m) == IF m \in DOMAIN ms THEN {ms[m]} ELSE {}

AskMatch ==
  /\ get.at \in {"idle", "done"}
  /\ \E m \in Asked :
       get' = [IdleGet EXCEPT !.at = "asked", !.match = m, !.seen = Versions(matches, m)]
  /\ UNCHANGED vars

FindMatch ==
  /\ get.at = "asked" /\ get.match \in DOMAIN matches
  /\ get' = [get EXCEPT !.at = "found", !.header = MatchResult(matches[get.match])]
  /\ UNCHANGED vars

MatchNotFound ==
  /\ get.at = "asked" /\ get.match \notin DOMAIN matches
  /\ get' = [get EXCEPT !.at = "done"]
  /\ UNCHANGED vars

ListParticipants ==
  /\ get.at = "found"
  /\ get' = [get EXCEPT !.at = "done",
               !.answer = MatchDetail(get.header, MatchParticipants(matches[get.match]))]
  /\ UNCHANGED vars

\* The ledger goes on; what it does to the row asked for is remembered until
\* the answer is given.
LedgerMoves ==
  /\ Next
  /\ get' = IF get.at \in {"asked", "found"}
            THEN [get EXCEPT !.seen = @ \cup Versions(matches', get.match)]
            ELSE get

ReadNext == AskMatch \/ FindMatch \/ MatchNotFound \/ ListParticipants \/ LedgerMoves

ReadSpec == ReadInit /\ [][ReadNext]_readVars

-----------------------------------------------------------------------------
(* Properties *)

\* Although get_match reads status and snapshots in two statements, what it
\* answers is the match as it was, whole, at one moment of the request: a void,
\* a correction or a replay between the statements never shows in one half only.
AnswersAreSnapshots ==
  get.at = "done" /\ get.answer # <<>> =>
    \E row \in get.seen :
      get.answer = MatchDetail(MatchResult(row), MatchParticipants(row))

\* list_matches shows the history in the reverse of the order in which ratings
\* are derived from it: whenever the ratings are derived, the first confirmed
\* match listed for a player ends in the rating that the player is shown with,
\* by list_players and by get_player, and as many are listed as they have games.
NewestListedShowsRatings ==
  Derived(matches, rating) =>
    \A shown \in ListPlayers(TRUE) \cup UNION {GetPlayer(p) : p \in Player} :
      LET list == MatchList(matches)
          mine == {i \in DOMAIN list :
                     list[i] \in Of(matches, Confirmed(matches), shown.player)}
      IN  /\ \A i \in mine : (\A j \in mine : i <= j) =>
               matches[list[i]].new[shown.player] = shown.skill
          /\ shown.games = Cardinality(mine)
=============================================================================
