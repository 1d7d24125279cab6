--------------------------- MODULE MatchValidation ---------------------------
(***************************************************************************)
(* The checks a new match passes on its way into the tables, as functions  *)
(* of the request: validate_match_submission (match_validation), and the   *)
(* two checks that must never fail after it, the one rate_ranked_free_for_ *)
(* all makes of its inputs and the one a replay makes of the stored rows.  *)
(* A request is a sequence of placements; the ledger's modules take what   *)
(* is accepted here as a function from players to places.                  *)
(***************************************************************************)
EXTENDS Sorting, Sequences

CONSTANTS
  Player,      \* player ids a request may name
  Place,       \* placement numbers a request may carry
  MaxLength,   \* bound: the longest request
  Time,        \* moments, in steps of the allowed skew
  Skew         \* MAX_PLAYED_AT_FUTURE_SKEW_MINUTES

ASSUME ValidationAssumption ==
  Place \subseteq Int /\ MaxLength \in Nat /\ Time \subseteq Int /\ Skew \in Nat

VARIABLES
  request,     \* placements of the request: a sequence of [player, place]
  playedAt,
  active,      \* players that load_active_player_ratings_for_update returns
  now,
  outcome      \* "none" yet, "ok" or the ValidationError

validationVars == <<request, playedAt, active, now, outcome>>

Placement == [player : Player, place : Place]
Requests == UNION {[1..n -> Placement] : n \in 0..MaxLength}

Repeats(s) == \E i, j \in DOMAIN s : i # j /\ s[i] = s[j]
PlayersOf(req) == [i \in DOMAIN req |-> req[i].player]
PlacesOf(req) == [i \in DOMAIN req |-> req[i].place]

\* The positions of req by their places.
ByPlace(req) ==
  InOrder([i \in DOMAIN req |->
    {j \in DOMAIN req : \/ req[j].place < req[i].place
                        \/ req[j].place = req[i].place /\ j < i}])

\* What list_match_participants_for_update reads back: the rows by placement.
StoredOrder(req) == [k \in DOMAIN req |-> req[ByPlace(req)[k]]]

\* ranks.sort_unstable()
Ranks(req) == PlacesOf(StoredOrder(req))

\* Mistake: the ranks are compared with their neighbours before they are sorted.
PlacementsErrorUnsorted(req) ==
  IF Len(req) < 2 THEN "MatchRequiresAtLeastTwoPlayers"
  ELSE IF Repeats(PlayersOf(req)) THEN "DuplicatePlayers"
  ELSE IF \E i \in 1..Len(req) - 1 : req[i].place = req[i + 1].place
       THEN "DuplicatePlacements"
  ELSE IF \E i \in DOMAIN req : req[i].place \notin 1..Len(req)
       THEN "NonSequentialPlacements" ELSE "ok"

\* Mistake: places may start at 0.
PlacementsErrorFromZero(req) ==
  IF Len(req) < 2 THEN "MatchRequiresAtLeastTwoPlayers"
  ELSE IF Repeats(PlayersOf(req)) THEN "DuplicatePlayers"
  ELSE IF Repeats(Ranks(req)) THEN "DuplicatePlacements"
  ELSE IF Ranks(req)[Len(req)] - Ranks(req)[1] # Len(req) - 1
       THEN "NonSequentialPlacements" ELSE "ok"

\* validate_placements: the first check that fails names the error.
PlacementsError(req) ==
  IF Len(req) < 2 THEN "MatchRequiresAtLeastTwoPlayers"
  ELSE IF Repeats(PlayersOf(req)) THEN "DuplicatePlayers"
  ELSE LET ranks == Ranks(req)
       IN  IF \E i \in 1..Len(req) - 1 : ranks[i] = ranks[i + 1]
           THEN "DuplicatePlacements"
           ELSE IF ranks # [i \in 1..Len(req) |-> i]
           THEN "NonSequentialPlacements" ELSE "ok"

\* validate_match_submission
SubmissionError(req, at, present, time) ==
  IF PlacementsError(req) # "ok" THEN PlacementsError(req)
  ELSE IF \E i \in DOMAIN req : req[i].player \notin present
       THEN "MissingOrInactivePlayers"
  ELSE IF at > time + Skew THEN "PlayedAtTooFarInFuture" ELSE "ok"

\* validate_rating_inputs of rating_service
RatingError(req) ==
  IF Len(req) < 2 THEN "RequiresAtLeastTwoPlayers"
  ELSE IF \E i \in DOMAIN req : req[i].place < 1 THEN "InvalidPlacement"
  ELSE IF Repeats(PlacesOf(req)) THEN "DuplicatePlacement" ELSE "ok"

ValidationInit ==
  request = <<>> /\ playedAt = 0 /\ active = {} /\ now = 0 /\ outcome = "none"

\* A request comes and is validated.
ValidateSubmission ==
  /\ outcome = "none"
  /\ request' \in Requests
  /\ playedAt' \in Time /\ now' \in Time
  /\ active' \in SUBSET Player
  /\ outcome' = SubmissionError(request', playedAt', active', now')

ValidationSpec == ValidationInit /\ [][ValidateSubmission]_validationVars

-----------------------------------------------------------------------------
(* Properties *)

\* What the ledger's modules assume of an accepted request: distinct active
\* players, each with one of the places 1..n, every place taken, at a time that
\* is not past the allowed skew.  Nothing that is such a ranking is refused.
AcceptedIsRanking ==
  outcome # "none" =>
    (outcome = "ok" <=>
       /\ Len(request) >= 2
       /\ \A i, j \in DOMAIN request :
            i # j => request[i].player # request[j].player
       /\ {request[i].place : i \in DOMAIN request} = 1..Len(request)
       /\ {request[i].player : i \in DOMAIN request} \subseteq active
       /\ playedAt - now <= Skew)

\* A match that was accepted never fails later on: rate_ranked_free_for_all takes
\* it when it is submitted, and validate_placements and rate_ranked_free_for_all
\* take its stored rows in every replay.  Otherwise one accepted match would make
\* every later void, correction and recalculation fail.
AcceptedStaysReplayable ==
  outcome = "ok" =>
    /\ RatingError(request) = "ok"
    /\ PlacementsError(StoredOrder(request)) = "ok"
    /\ RatingError(StoredOrder(request)) = "ok"
=============================================================================
