---------------------------- MODULE ServiceProofs ----------------------------
(***************************************************************************)
(* Proofs about the parts that turn what they find into an answer, and     *)
(* about the process they run in: which requests are accepted as a match,  *)
(* how the leaderboard ranks, what a page of the audit log leaves out,     *)
(* which variables settings come from, and which schema a process serves   *)
(* on.  For any players, limits, entries, variables, processes and         *)
(* versions.                                                               *)
(***************************************************************************)
EXTENDS MCAnswers, Startup, SortingProofs

-----------------------------------------------------------------------------
(* The validation of a match *)

\* The places of req are 1..n, each taken once.
IsRanking(req) == {req[i].place : i \in DOMAIN req} = 1..Len(req)

ValidationInvariant ==
  /\ request \in Seq(Placement) /\ playedAt \in Int /\ now \in Int
  /\ outcome # "none" => outcome = SubmissionError(request, playedAt, active, now)

AheadByPlace(req) ==
  [i \in DOMAIN req |->
    {j \in DOMAIN req : \/ req[j].place < req[i].place
                        \/ req[j].place = req[i].place /\ j < i}]

LEMMA FunctionIsSequence ==
  ASSUME NEW n \in Nat, NEW S, NEW s \in [1..n -> S]
  PROVE  s \in Seq(S) /\ Len(s) = n
OBVIOUS

LEMMA RequestShape ==
  ASSUME NEW req \in Seq(Placement)
  PROVE  /\ Len(req) \in Nat /\ DOMAIN req = 1..Len(req)
         /\ IsFiniteSet(DOMAIN req) /\ Cardinality(DOMAIN req) = Len(req)
         /\ \A i \in DOMAIN req : req[i] \in Placement /\ req[i].place \in Int
<1>1. Len(req) \in Nat /\ DOMAIN req = 1..Len(req)
  OBVIOUS
<1>2. IsFiniteSet(1..Len(req)) /\ Cardinality(1..Len(req)) = Len(req)
  BY <1>1, FS_Interval
<1>3. \A i \in DOMAIN req : req[i] \in Placement /\ req[i].place \in Int
  <2>1. \A i \in DOMAIN req : req[i] \in Placement
    OBVIOUS
  <2>2. \A x \in Placement : x.place \in Int
    BY ValidationAssumption DEF Placement
  <2>3. QED
    BY <2>1, <2>2
<1>4. QED
  BY <1>1, <1>2, <1>3

\* The sort puts every position of the request somewhere, lower places first.
LEMMA ByPlaceSorts ==
  ASSUME NEW req \in Seq(Placement)
  PROVE  /\ ByPlace(req) \in [1..Len(req) -> 1..Len(req)]
         /\ \A i \in 1..Len(req) :
              /\ Cardinality(AheadByPlace(req)[i]) + 1 \in 1..Len(req)
              /\ ByPlace(req)[Cardinality(AheadByPlace(req)[i]) + 1] = i
<1> DEFINE ahead == AheadByPlace(req)
<1>1. DOMAIN ahead = DOMAIN req
  BY DEF AheadByPlace
<1>2. IsOrder(ahead)
  <2>1. \A i \in DOMAIN req : ahead[i] \subseteq DOMAIN req \ {i}
    BY RequestShape DEF AheadByPlace
  <2>2. \A i, j \in DOMAIN req : i = j \/ i \in ahead[j] \/ j \in ahead[i]
    BY RequestShape DEF AheadByPlace
  <2>3. \A i, j \in DOMAIN req : i \in ahead[j] => ahead[i] \subseteq ahead[j]
    BY RequestShape DEF AheadByPlace
  <2>4. IsFiniteSet(DOMAIN req)
    BY RequestShape
  <2> HIDE DEF ahead
  <2>5. QED
    BY <1>1, <2>1, <2>2, <2>3, <2>4 DEF IsOrder
<1>3. ByPlace(req) = InOrder(ahead)
  BY DEF ByPlace, AheadByPlace
<1>4. Cardinality(DOMAIN req) = Len(req) /\ DOMAIN req = 1..Len(req)
  BY RequestShape
<1> HIDE DEF ahead
<1>5. /\ InOrder(ahead) \in [1..Len(req) -> 1..Len(req)]
      /\ \A i \in 1..Len(req) : /\ Cardinality(ahead[i]) + 1 \in 1..Len(req)
                                /\ InOrder(ahead)[Cardinality(ahead[i]) + 1] = i
  BY <1>1, <1>2, <1>4, InOrderSorts
<1>6. QED
  BY <1>3, <1>5 DEF ahead

\* list_match_participants reads back as many rows as were written, the same ones.
LEMMA StoredShape ==
  ASSUME NEW req \in Seq(Placement)
  PROVE  /\ StoredOrder(req) \in Seq(Placement) /\ Len(StoredOrder(req)) = Len(req)
         /\ \A k \in 1..Len(req) : StoredOrder(req)[k] = req[ByPlace(req)[k]]
         /\ \A i \in 1..Len(req) : \E k \in 1..Len(req) : StoredOrder(req)[k] = req[i]
<1>1. Len(req) \in Nat /\ DOMAIN req = 1..Len(req)
  BY RequestShape
<1>2. /\ ByPlace(req) \in [1..Len(req) -> 1..Len(req)]
      /\ \A i \in 1..Len(req) : \E k \in 1..Len(req) : ByPlace(req)[k] = i
  BY ByPlaceSorts
<1>3. \A k \in 1..Len(req) :
        StoredOrder(req)[k] = req[ByPlace(req)[k]] /\ StoredOrder(req)[k] \in Placement
  BY <1>1, <1>2 DEF StoredOrder
<1>4. StoredOrder(req) \in [1..Len(req) -> Placement]
  BY <1>1, <1>3 DEF StoredOrder
<1>5. StoredOrder(req) \in Seq(Placement) /\ Len(StoredOrder(req)) = Len(req)
  <2> DEFINE n == Len(req)
             st == StoredOrder(req)
  <2>1. n \in Nat /\ st \in [1..n -> Placement]
    BY <1>1, <1>4
  <2> HIDE DEF n, st
  <2>2. st \in Seq(Placement) /\ Len(st) = n
    BY <2>1, FunctionIsSequence
  <2>3. QED
    BY <2>2 DEF n, st
<1>6. ASSUME NEW i \in 1..Len(req)
      PROVE  \E k \in 1..Len(req) : StoredOrder(req)[k] = req[i]
  <2>1. PICK k \in 1..Len(req) : ByPlace(req)[k] = i
    BY <1>2
  <2>2. QED
    BY <1>3, <2>1
<1>7. QED
  BY <1>3, <1>5, <1>6

LEMMA RanksShape ==
  ASSUME NEW req \in Seq(Placement)
  PROVE  /\ DOMAIN Ranks(req) = 1..Len(req)
         /\ \A k \in 1..Len(req) : Ranks(req)[k] = req[ByPlace(req)[k]].place
         /\ Ranks(req) = [k \in 1..Len(req) |-> req[ByPlace(req)[k]].place]
<1>1. DOMAIN StoredOrder(req) = 1..Len(req)
  BY RequestShape DEF StoredOrder
<1>2. QED
  BY <1>1, StoredShape DEF Ranks, PlacesOf

\* No two positions of a ranking have the same place.
LEMMA RankingIsInjective ==
  ASSUME NEW req \in Seq(Placement), IsRanking(req)
  PROVE  \A i, j \in DOMAIN req : req[i].place = req[j].place => i = j
<1> DEFINE n == Len(req)
           f == [i \in 1..n |-> req[i].place]
<1>1. n \in Nat /\ DOMAIN req = 1..n /\ IsFiniteSet(1..n) /\ Cardinality(1..n) = n
  BY RequestShape
<1>2. f \in Surjection(1..n, 1..n)
  BY <1>1 DEF IsRanking, Surjection
<1>3. f \in Injection(1..n, 1..n)
  BY <1>1, <1>2, FS_SurjSameCardinalityImpliesInj
<1>4. QED
  BY <1>1, <1>3 DEF Injection, IsInjective

\* In a ranking, as many come before place k as there are lower places.
LEMMA PlacesBefore ==
  ASSUME NEW req \in Seq(Placement), IsRanking(req), NEW i \in 1..Len(req)
  PROVE  Cardinality(AheadByPlace(req)[i]) = req[i].place - 1
<1>0. Len(req) \in Nat
  OBVIOUS
<1> DEFINE k == req[i].place
           S == AheadByPlace(req)[i]
           g == [j \in S |-> req[j].place]
<1>1. /\ DOMAIN req = 1..Len(req) /\ Len(req) \in Nat
      /\ \A j \in 1..Len(req) : req[j].place \in 1..Len(req)
      /\ \A m \in 1..Len(req) : \E j \in 1..Len(req) : req[j].place = m
  BY RequestShape DEF IsRanking
<1>2. \A h, j \in 1..Len(req) : req[h].place = req[j].place => h = j
  BY <1>1, RankingIsInjective
<1>3. S = {j \in 1..Len(req) : req[j].place < k}
  <2> SUFFICES ASSUME NEW j \in 1..Len(req)
               PROVE  req[j].place < k \/ (req[j].place = k /\ j < i) <=> req[j].place < k
    BY <1>1 DEF AheadByPlace
  <2>1. req[j].place = k => ~(j < i)
    BY <1>1, <1>2
  <2>2. QED
    BY <2>1
<1>4. k \in 1..Len(req)
  BY <1>1
<1> HIDE DEF k, S
<1>5. g \in Bijection(S, 1..(k - 1))
  <2>1. g \in [S -> 1..(k - 1)]
    <3>1. ASSUME NEW j \in S PROVE req[j].place \in 1..(k - 1)
      <4>1. j \in 1..Len(req) /\ req[j].place < k
        BY <1>3
      <4>2. req[j].place \in 1..Len(req)
        BY <1>1, <4>1
      <4>3. req[j].place \in Int /\ k \in Int /\ req[j].place >= 1
        BY <1>0, <1>4, <4>2
      <4>4. QED
        BY <4>1, <4>3
    <3>2. QED
      BY <3>1
  <2>2. \A h, j \in S : g[h] = g[j] => h = j
    BY <1>2, <1>3
  <2>3. \A m \in 1..(k - 1) : \E j \in S : g[j] = m
    <3> SUFFICES ASSUME NEW m \in 1..(k - 1) PROVE \E j \in S : g[j] = m
      OBVIOUS
    <3>1. m \in 1..Len(req) /\ m < k
      <4>1. Len(req) \in Nat /\ k \in 1..Len(req) /\ m \in 1..(k - 1)
        BY <1>1, <1>4
      <4>2. QED
        BY <4>1
    <3>2. PICK j \in 1..Len(req) : req[j].place = m
      BY <1>1, <3>1
    <3>3. QED
      BY <1>3, <3>1, <3>2
  <2>4. QED
    BY <2>1, <2>2, <2>3 DEF Bijection, Injection, Surjection, IsInjective
<1>6. IsFiniteSet(S)
  BY <1>1, <1>3, RequestShape, FS_Subset
<1>7. Cardinality(1..(k - 1)) = Cardinality(S)
  BY <1>5, <1>6, FS_Bijection DEF ExistsBijection
<1>8. Cardinality(1..(k - 1)) = k - 1
  BY <1>1, <1>4, FS_Interval
<1>9. QED
  BY <1>7, <1>8 DEF k, S

\* Sorting a ranking by place gives the places 1, 2, .. in turn.
LEMMA RankingIsSorted ==
  ASSUME NEW req \in Seq(Placement), IsRanking(req)
  PROVE  Ranks(req) = [k \in 1..Len(req) |-> k]
<1>1. ASSUME NEW k \in 1..Len(req)
      PROVE  req[ByPlace(req)[k]].place = k
  <2>1. PICK i \in 1..Len(req) : req[i].place = k
    BY RequestShape DEF IsRanking
  <2>2. Cardinality(AheadByPlace(req)[i]) + 1 = k
    BY <2>1, PlacesBefore, RequestShape
  <2>3. QED
    BY <2>1, <2>2, ByPlaceSorts
<1>2. QED
  BY <1>1, RanksShape

LEMMA SortedIsRanking ==
  ASSUME NEW req \in Seq(Placement), Ranks(req) = [k \in 1..Len(req) |-> k]
  PROVE  IsRanking(req)
<1>1. \A k \in 1..Len(req) : ByPlace(req)[k] \in 1..Len(req) /\ req[ByPlace(req)[k]].place = k
  BY RanksShape, ByPlaceSorts
<1>2. ASSUME NEW i \in 1..Len(req) PROVE req[i].place \in 1..Len(req)
  <2>1. PICK k \in 1..Len(req) : ByPlace(req)[k] = i
    BY ByPlaceSorts
  <2>2. QED
    BY <1>1, <2>1
<1>3. DOMAIN req = 1..Len(req)
  BY RequestShape
<1>4. QED
  BY <1>1, <1>2, <1>3 DEF IsRanking

\* What validate_placements lets through.
LEMMA PlacementsAccepted ==
  ASSUME NEW req \in Seq(Placement)
  PROVE  PlacementsError(req) = "ok" <=>
           /\ Len(req) >= 2
           /\ \A i, j \in DOMAIN req : i # j => req[i].player # req[j].player
           /\ IsRanking(req)
<1>1. Len(req) \in Nat /\ DOMAIN req = 1..Len(req)
  BY RequestShape
<1>2. Len(req) < 2 <=> ~(Len(req) >= 2)
  BY <1>1
<1>3. Repeats(PlayersOf(req)) <=>
        ~ \A i, j \in DOMAIN req : i # j => req[i].player # req[j].player
  BY DEF Repeats, PlayersOf
<1>4. IsRanking(req) <=> Ranks(req) = [k \in 1..Len(req) |-> k]
  BY RankingIsSorted, SortedIsRanking
<1>5. Ranks(req) = [k \in 1..Len(req) |-> k] =>
        ~ \E i \in 1..Len(req) - 1 : Ranks(req)[i] = Ranks(req)[i + 1]
  BY <1>1
<1>6. QED
  BY <1>2, <1>3, <1>4, <1>5 DEF PlacementsError

LEMMA ValidationHolds == ValidationSpec => []ValidationInvariant
<1>1. ValidationInit => ValidationInvariant
  BY DEF ValidationInit, ValidationInvariant
<1>2. ValidationInvariant /\ [ValidateSubmission]_validationVars => ValidationInvariant'
  <2> SUFFICES ASSUME ValidationInvariant, [ValidateSubmission]_validationVars
               PROVE  ValidationInvariant'
    OBVIOUS
  <2>1. CASE UNCHANGED validationVars
    BY <2>1 DEF ValidationInvariant, validationVars
  <2>2. CASE ValidateSubmission
    <3>1. request' \in Seq(Placement)
      BY <2>2, ValidationAssumption DEF ValidateSubmission, Requests
    <3>2. playedAt' \in Int /\ now' \in Int
      BY <2>2, ValidationAssumption DEF ValidateSubmission
    <3>3. QED
      BY <2>2, <3>1, <3>2 DEF ValidateSubmission, ValidationInvariant
  <2>3. QED
    BY <2>1, <2>2
<1>3. QED
  BY <1>1, <1>2, PTL DEF ValidationSpec

\* validate_match_submission accepts exactly the rankings of active players, of
\* any length and with any placement numbers.
THEOREM OnlyRankingsAccepted == ValidationSpec => []AcceptedIsRanking
<1>1. ValidationInvariant => AcceptedIsRanking
  <2> SUFFICES ASSUME ValidationInvariant, outcome # "none"
               PROVE  outcome = "ok" <=>
                        /\ Len(request) >= 2
                        /\ \A i, j \in DOMAIN request :
                             i # j => request[i].player # request[j].player
                        /\ {request[i].place : i \in DOMAIN request} = 1..Len(request)
                        /\ {request[i].player : i \in DOMAIN request} \subseteq active
                        /\ playedAt - now <= Skew
    BY DEF AcceptedIsRanking
  <2>1. request \in Seq(Placement) /\ outcome = SubmissionError(request, playedAt, active, now)
    BY DEF ValidationInvariant
  <2>2. playedAt > now + Skew <=> ~(playedAt - now <= Skew)
    BY ValidationAssumption DEF ValidationInvariant
  <2>3. (\E i \in DOMAIN request : request[i].player \notin active) <=>
          ~({request[i].player : i \in DOMAIN request} \subseteq active)
    OBVIOUS
  <2>4. outcome = "ok" <=>
          /\ PlacementsError(request) = "ok"
          /\ {request[i].player : i \in DOMAIN request} \subseteq active
          /\ playedAt - now <= Skew
    BY <2>1, <2>2, <2>3 DEF SubmissionError
  <2>5. QED
    BY <2>1, <2>4, PlacementsAccepted DEF IsRanking
<1>2. QED
  BY <1>1, ValidationHolds, PTL

\* The rating service takes every ranking.
LEMMA RankingIsRated ==
  ASSUME NEW req \in Seq(Placement), Len(req) >= 2, IsRanking(req)
  PROVE  RatingError(req) = "ok"
<1>1. Len(req) \in Nat /\ DOMAIN req = 1..Len(req)
  BY RequestShape
<1>2. ~(Len(req) < 2) /\ \A i \in DOMAIN req : ~(req[i].place < 1)
  <2>1. \A i \in DOMAIN req : req[i].place \in 1..Len(req)
    BY DEF IsRanking
  <2>2. QED
    BY <1>1, <2>1
<1>3. ~Repeats(PlacesOf(req))
  BY RankingIsInjective DEF Repeats, PlacesOf
<1>4. QED
  BY <1>2, <1>3 DEF RatingError

\* ... and so does a replay: the rows that are read back are a ranking of the
\* same players.
LEMMA StoredIsRanking ==
  ASSUME NEW req \in Seq(Placement), PlacementsError(req) = "ok"
  PROVE  PlacementsError(StoredOrder(req)) = "ok"
<1> DEFINE st == StoredOrder(req)
           by == ByPlace(req)
           n == Len(req)
<1>1. /\ n >= 2 /\ IsRanking(req)
      /\ \A i, j \in DOMAIN req : i # j => req[i].player # req[j].player
  BY PlacementsAccepted
<1>2. st \in Seq(Placement) /\ Len(st) = n /\ DOMAIN req = 1..n /\ n \in Nat
      /\ \A k \in 1..n : st[k] = req[by[k]]
  BY StoredShape, RequestShape
<1>3. \A k \in 1..n : by[k] \in 1..n /\ req[by[k]].place = k
  <2>1. by \in [1..n -> 1..n]
    BY ByPlaceSorts
  <2>2. Ranks(req) = [k \in 1..n |-> k]
    BY <1>1, RankingIsSorted
  <2>3. \A k \in 1..n : Ranks(req)[k] = req[by[k]].place
    BY RanksShape
  <2> HIDE DEF by, n
  <2>4. QED
    BY <2>1, <2>2, <2>3
<1> HIDE DEF st, by
<1>4. \A k \in 1..n : st[k].place = k
  BY <1>2, <1>3
<1>5. DOMAIN st = 1..n
  BY <1>2
<1>6. IsRanking(st)
  BY <1>2, <1>4, <1>5 DEF IsRanking
<1>7. \A i, j \in 1..n : i # j => by[i] # by[j]
  BY <1>3
<1>8. \A i, j \in DOMAIN st : i # j => st[i].player # st[j].player
  BY <1>1, <1>2, <1>3, <1>5, <1>7
<1>9. QED
  BY <1>1, <1>2, <1>6, <1>8, PlacementsAccepted DEF st

\* What was accepted is rated when it is submitted and in every replay later on.
THEOREM AcceptedStaysRateable == ValidationSpec => []AcceptedStaysReplayable
<1>1. ValidationInvariant => AcceptedStaysReplayable
  <2> SUFFICES ASSUME ValidationInvariant, outcome = "ok"
               PROVE  /\ RatingError(request) = "ok"
                      /\ PlacementsError(StoredOrder(request)) = "ok"
                      /\ RatingError(StoredOrder(request)) = "ok"
    BY DEF AcceptedStaysReplayable
  <2>1. request \in Seq(Placement) /\ PlacementsError(request) = "ok"
    BY DEF ValidationInvariant, SubmissionError
  <2>2. PlacementsError(StoredOrder(request)) = "ok" /\ StoredOrder(request) \in Seq(Placement)
    BY <2>1, StoredIsRanking, StoredShape
  <2>3. QED
    BY <2>1, <2>2, PlacementsAccepted, RankingIsRated
<1>2. QED
  BY <1>1, ValidationHolds, PTL

-----------------------------------------------------------------------------
(* The leaderboard *)

Strength == [rating : Int, uncertainty : Nat]
BoardRow == [skill : Strength, games : Nat, wins : Nat, active : BOOLEAN]

BoardInvariant ==
  /\ DOMAIN table \subseteq Contestant /\ table \in [DOMAIN table -> BoardRow]
  /\ \A p \in DOMAIN table : table[p].wins <= table[p].games
  /\ minGames \in Nat

\* Between players with equally many wins: those without games before the
\* others; with a win, few games before many, and without, many before few.
RateKey(row) == IF row.wins = 0 /\ row.games = 0 THEN 1 ELSE 0
GamesKey(row) == IF row.wins = 0 THEN row.games ELSE -row.games

RankedInFront(p, q, l, r) ==
  \/ RankScore(l) > RankScore(r)
  \/ /\ RankScore(l) = RankScore(r)
     /\ \/ DisplayRating(l) > DisplayRating(r)
        \/ /\ DisplayRating(l) = DisplayRating(r)
           /\ \/ l.wins > r.wins
              \/ /\ l.wins = r.wins
                 /\ \/ RateKey(l) > RateKey(r)
                    \/ /\ RateKey(l) = RateKey(r)
                       /\ \/ GamesKey(l) > GamesKey(r)
                          \/ GamesKey(l) = GamesKey(r) /\ p < q

UnrankedInFront(p, q, l, r) ==
  \/ DisplayRating(l) > DisplayRating(r)
  \/ /\ DisplayRating(l) = DisplayRating(r)
     /\ \/ l.games > r.games
        \/ l.games = r.games /\ p < q

InFront(p, q, l, r, min) ==
  \/ IsRanked(l, min) /\ ~IsRanked(r, min)
  \/ IsRanked(l, min) /\ IsRanked(r, min) /\ RankedInFront(p, q, l, r)
  \/ ~IsRanked(l, min) /\ ~IsRanked(r, min) /\ UnrankedInFront(p, q, l, r)

\* A row that the program can have.
Plausible(row) == row \in BoardRow /\ row.wins <= row.games

\* f64::round never turns two numbers around.
LEMMA RoundingIsMonotone ==
  \A x, y \in Int : RoundHalf(x) \in Int /\ (x <= y => RoundHalf(x) <= RoundHalf(y))
BY DEF RoundHalf

LEMMA ScoresAreInts ==
  ASSUME NEW row \in BoardRow
  PROVE  RankScore(row) \in Int /\ DisplayRating(row) \in Int
<1>1. row.skill.rating \in Int /\ row.skill.rating - 3 * row.skill.uncertainty \in Int
  BY DEF BoardRow, Strength
<1>2. QED
  BY <1>1, RoundingIsMonotone DEF RankScore, DisplayRating

LEMMA LessOfSame ==
  \A w, a, b \in Nat : w > 0 => (w * a > w * b <=> a > b) /\ (w * a < w * b <=> a < b)
<1> SUFFICES ASSUME NEW w \in Nat, NEW a \in Nat, NEW b \in Nat, w > 0
             PROVE  (w * a > w * b <=> a > b) /\ (w * a < w * b <=> a < b)
  OBVIOUS
<1>1. a > b => w * a > w * b
  OBVIOUS
<1>2. a < b => w * a < w * b
  OBVIOUS
<1>3. a = b => w * a = w * b
  OBVIOUS
<1>4. w * a \in Nat /\ w * b \in Nat
  OBVIOUS
<1>5. QED
  BY <1>1, <1>2, <1>3, <1>4

\* Win rates decide only between equally many wins.
LEMMA RatesOfSameWins ==
  ASSUME NEW l, NEW r, Plausible(l), Plausible(r), l.wins = r.wins
  PROVE  Then(CompareWinRates(l, r), Desc(l.games, r.games))
           = Then(Desc(RateKey(l), RateKey(r)), Desc(GamesKey(l), GamesKey(r)))
<1>1. l.wins \in Nat /\ l.games \in Nat /\ r.games \in Nat /\ l.wins <= l.games /\ l.wins <= r.games
  BY DEF Plausible, BoardRow
<1>2. CASE l.wins = 0
  BY <1>1, <1>2 DEF Then, CompareWinRates, Desc, RateKey, GamesKey
<1>3. CASE l.wins > 0
  <2>1. l.wins * r.games > r.wins * l.games <=> r.games > l.games
    BY <1>1, <1>3, LessOfSame
  <2>2. l.wins * r.games < r.wins * l.games <=> r.games < l.games
    BY <1>1, <1>3, LessOfSame
  <2>3. Desc(l.wins * r.games, r.wins * l.games) = Desc(r.games, l.games)
    BY <2>1, <2>2 DEF Desc
  <2>4. QED
    BY <1>1, <1>3, <2>3 DEF Then, CompareWinRates, Desc, RateKey, GamesKey
<1>4. QED
  BY <1>1, <1>2, <1>3

LEMMA DescMeans ==
  \A a, b \in Int : /\ Desc(a, b) \in {"less", "greater", "equal"}
                    /\ Desc(a, b) = "less" <=> a > b
                    /\ Desc(a, b) = "greater" <=> a < b
                    /\ Desc(a, b) = "equal" <=> a = b
BY DEF Desc

\* Player p with row l against player q with row r.
Outcome(order, less, greater, equal) ==
  /\ order \in {"less", "greater", "equal"}
  /\ order = "less" <=> less
  /\ order = "greater" <=> greater
  /\ order = "equal" <=> equal

LEMMA RankedMeans ==
  ASSUME NEW p \in Nat, NEW q \in Nat, NEW l, NEW r, Plausible(l), Plausible(r), p = q => l = r
  PROVE  Outcome(CompareRanked(p, q, l, r), RankedInFront(p, q, l, r),
                 RankedInFront(q, p, r, l), p = q)
<1> DEFINE sl == RankScore(l)
           sr == RankScore(r)
           dl == DisplayRating(l)
           dr == DisplayRating(r)
           last == Then(CompareWinRates(l, r), Then(Desc(l.games, r.games), Asc(p, q)))
<1>1. /\ sl \in Int /\ sr \in Int /\ dl \in Int /\ dr \in Int
      /\ l.wins \in Nat /\ r.wins \in Nat /\ l.games \in Nat /\ r.games \in Nat
  BY ScoresAreInts DEF Plausible, BoardRow
<1>2. /\ RateKey(l) \in Int /\ RateKey(r) \in Int
      /\ GamesKey(l) \in Int /\ GamesKey(r) \in Int
  BY <1>1 DEF RateKey, GamesKey
<1>3. l.wins = r.wins =>
        last = Then(Desc(RateKey(l), RateKey(r)),
                    Then(Desc(GamesKey(l), GamesKey(r)), Asc(p, q)))
  <2>1. last = Then(Then(CompareWinRates(l, r), Desc(l.games, r.games)), Asc(p, q))
    BY DEF Then
  <2>2. QED
    BY <2>1, RatesOfSameWins DEF Then
<1>4. CompareRanked(p, q, l, r) = Then(Desc(sl, sr), Then(Desc(dl, dr), Then(Desc(l.wins, r.wins), last)))
  BY DEF CompareRanked
<1>5. l.wins = r.wins =>
        Outcome(last,
          RateKey(l) > RateKey(r) \/ (RateKey(l) = RateKey(r) /\
            (GamesKey(l) > GamesKey(r) \/ (GamesKey(l) = GamesKey(r) /\ p < q))),
          RateKey(r) > RateKey(l) \/ (RateKey(r) = RateKey(l) /\
            (GamesKey(r) > GamesKey(l) \/ (GamesKey(r) = GamesKey(l) /\ q < p))),
          RateKey(l) = RateKey(r) /\ GamesKey(l) = GamesKey(r) /\ p = q)
  BY <1>2, <1>3 DEF Outcome, Then, Desc, Asc
<1> HIDE DEF sl, sr, dl, dr, last
<1>6. CASE sl # sr
  BY <1>1, <1>4, <1>6 DEF Outcome, Then, Desc, RankedInFront, sl, sr
<1>7. CASE sl = sr /\ dl # dr
  BY <1>1, <1>4, <1>7 DEF Outcome, Then, Desc, RankedInFront, sl, sr, dl, dr
<1>8. CASE sl = sr /\ dl = dr /\ l.wins # r.wins
  BY <1>1, <1>4, <1>8 DEF Outcome, Then, Desc, RankedInFront, sl, sr, dl, dr
<1>9. CASE sl = sr /\ dl = dr /\ l.wins = r.wins
  <2>1. CompareRanked(p, q, l, r) = last
    BY <1>1, <1>4, <1>9 DEF Then, Desc
  <2>2. p = q => RateKey(l) = RateKey(r) /\ GamesKey(l) = GamesKey(r)
    OBVIOUS
  <2>3. QED
    BY <1>1, <1>2, <1>5, <1>9, <2>1, <2>2 DEF Outcome, RankedInFront, sl, sr, dl, dr
<1>10. QED
  BY <1>6, <1>7, <1>8, <1>9

LEMMA UnrankedMeans ==
  ASSUME NEW p \in Nat, NEW q \in Nat, NEW l, NEW r, Plausible(l), Plausible(r), p = q => l = r
  PROVE  Outcome(CompareUnranked(p, q, l, r), UnrankedInFront(p, q, l, r),
                 UnrankedInFront(q, p, r, l), p = q)
<1>1. DisplayRating(l) \in Int /\ DisplayRating(r) \in Int /\ l.games \in Nat /\ r.games \in Nat
  BY ScoresAreInts DEF Plausible, BoardRow
<1>2. QED
  BY <1>1 DEF Outcome, CompareUnranked, UnrankedInFront, Then, Desc, Asc

\* compare_rows, for all players of a table.
ComparisonMeans ==
  \A p, q \in DOMAIN table :
    Outcome(Compare(p, q, minGames), InFront(p, q, table[p], table[q], minGames),
            InFront(q, p, table[q], table[p], minGames), p = q)

LEMMA RowsArePlausible ==
  ASSUME BoardInvariant, NEW p \in DOMAIN table
  PROVE  p \in Nat /\ Plausible(table[p])
BY LeaderboardAssumption DEF BoardInvariant, Plausible

LEMMA CompareMeans == BoardInvariant => ComparisonMeans
<1> SUFFICES ASSUME BoardInvariant, NEW p \in DOMAIN table, NEW q \in DOMAIN table
             PROVE  Outcome(Compare(p, q, minGames),
                            InFront(p, q, table[p], table[q], minGames),
                            InFront(q, p, table[q], table[p], minGames), p = q)
  BY DEF ComparisonMeans
<1>1. /\ p \in Nat /\ q \in Nat /\ Plausible(table[p]) /\ Plausible(table[q])
  BY RowsArePlausible
<1>2. /\ Outcome(CompareRanked(p, q, table[p], table[q]), RankedInFront(p, q, table[p], table[q]),
                 RankedInFront(q, p, table[q], table[p]), p = q)
      /\ Outcome(CompareUnranked(p, q, table[p], table[q]), UnrankedInFront(p, q, table[p], table[q]),
                 UnrankedInFront(q, p, table[q], table[p]), p = q)
  BY <1>1, RankedMeans, UnrankedMeans
<1>3. QED
  BY <1>2 DEF Outcome, Compare, InFront

LEMMA InFrontTransitive ==
  ASSUME NEW p \in Nat, NEW q \in Nat, NEW s \in Nat, NEW l, NEW r, NEW t, NEW min \in Nat,
         Plausible(l), Plausible(r), Plausible(t),
         InFront(p, q, l, r, min), InFront(q, s, r, t, min)
  PROVE  InFront(p, s, l, t, min)
<1>1. /\ \A row \in {l, r, t} :
           /\ RankScore(row) \in Int /\ DisplayRating(row) \in Int /\ row.wins \in Nat
           /\ row.games \in Nat /\ RateKey(row) \in Int /\ GamesKey(row) \in Int
  <2>1. \A row \in {l, r, t} : row.wins \in Nat /\ row.games \in Nat /\ row \in BoardRow
    BY DEF Plausible, BoardRow
  <2>2. QED
    BY <2>1, ScoresAreInts DEF RateKey, GamesKey
<1>2. RankedInFront(p, q, l, r) /\ RankedInFront(q, s, r, t) => RankedInFront(p, s, l, t)
  BY <1>1 DEF RankedInFront
<1>3. UnrankedInFront(p, q, l, r) /\ UnrankedInFront(q, s, r, t) => UnrankedInFront(p, s, l, t)
  BY <1>1 DEF UnrankedInFront
<1>4. QED
  BY <1>2, <1>3 DEF InFront

LEMMA ComparisonOrders == BoardInvariant => OrderIsTotal
<1> SUFFICES ASSUME BoardInvariant PROVE OrderIsTotal
  OBVIOUS
<1>1. \A p, q \in DOMAIN table :
        Outcome(Compare(p, q, minGames), InFront(p, q, table[p], table[q], minGames),
                InFront(q, p, table[q], table[p], minGames), p = q)
  BY CompareMeans DEF ComparisonMeans
<1>2. \A p, q, s \in DOMAIN table :
        InFront(p, q, table[p], table[q], minGames) /\ InFront(q, s, table[q], table[s], minGames)
          => InFront(p, s, table[p], table[s], minGames)
  BY RowsArePlausible, InFrontTransitive DEF BoardInvariant
<1>3. QED
  BY <1>1, <1>2 DEF OrderIsTotal, Outcome

\* update_player_rating_after_match counts a game, and a win for the first place.
LEMMA RowAfterMatchIs ==
  ASSUME NEW row \in BoardRow, row.wins <= row.games, NEW place,
         NEW skill \in Strength
  PROVE  LET new == RowAfterMatch(row, skill, place)
         IN  /\ new \in BoardRow /\ new.wins <= new.games
             /\ new.skill = skill /\ new.games = row.games + 1
             /\ new.wins = IF place = 1 THEN row.wins + 1 ELSE row.wins
BY DEF RowAfterMatch, BoardRow

LEMMA BoardStep == BoardInvariant /\ [LeaderboardNext]_leaderboardVars => BoardInvariant'
<1> SUFFICES ASSUME BoardInvariant, [LeaderboardNext]_leaderboardVars PROVE BoardInvariant'
  OBVIOUS
<1>1. CASE UNCHANGED leaderboardVars
  BY <1>1 DEF BoardInvariant, leaderboardVars
<1>2. ASSUME NEW p \in Contestant, NewPlayer(p) PROVE BoardInvariant'
  <2>1. table' = [q \in DOMAIN table \cup {p} |->
          IF q = p THEN [skill |-> DefaultSkill, games |-> 0, wins |-> 0, active |-> TRUE]
          ELSE table[q]]
    BY <1>2 DEF NewPlayer
  <2>2. /\ [skill |-> DefaultSkill, games |-> 0, wins |-> 0, active |-> TRUE] \in BoardRow
        /\ minGames' = minGames
    BY <1>2, LeaderboardAssumption DEF BoardRow, Strength, NewPlayer
  <2>3. QED
    BY <2>1, <2>2 DEF BoardInvariant
<1>3. ASSUME NEW p \in Contestant, ComeOrGo(p) PROVE BoardInvariant'
  BY <1>3 DEF ComeOrGo, BoardInvariant, BoardRow
<1>4. ASSUME NEW place \in Results, SubmitMatch(place) PROVE BoardInvariant'
  <2>1. PICK new \in [DOMAIN place -> Skill] :
          table' = [p \in DOMAIN table |->
            IF p \in DOMAIN place THEN RowAfterMatch(table[p], new[p], place[p]) ELSE table[p]]
    BY <1>4 DEF SubmitMatch
  <2>2. minGames' = minGames
    BY <1>4 DEF SubmitMatch
  <2>3. ASSUME NEW p \in DOMAIN table
        PROVE  table'[p] \in BoardRow /\ table'[p].wins <= table'[p].games
    <3>1. table[p] \in BoardRow /\ table[p].wins <= table[p].games
      BY DEF BoardInvariant
    <3>2. CASE p \in DOMAIN place
      <4>1. new[p] \in Strength
        BY <2>1, <3>2, LeaderboardAssumption DEF Strength
      <4>2. table'[p] = RowAfterMatch(table[p], new[p], place[p])
        BY <2>1, <3>2
      <4>3. QED
        BY <3>1, <4>1, <4>2, RowAfterMatchIs
    <3>3. QED
      BY <2>1, <3>1, <3>2
  <2>4. QED
    BY <2>1, <2>2, <2>3 DEF BoardInvariant
<1>5. CASE Ask
  BY <1>5, LeaderboardAssumption DEF Ask, AcceptsMinGames, BoardInvariant
<1>6. QED
  BY <1>1, <1>2, <1>3, <1>4, <1>5 DEF LeaderboardNext

LEMMA BoardHolds == LeaderboardSpec => []BoardInvariant
<1>1. LeaderboardInit => BoardInvariant
  BY LeaderboardAssumption DEF LeaderboardInit, BoardInvariant
<1>2. QED
  BY <1>1, BoardStep, PTL DEF LeaderboardSpec

\* compare_rows is a total order for every table and every min_games: sort_by
\* never meets a comparison that contradicts itself.
THEOREM ComparisonIsTotal == LeaderboardSpec => []OrderIsTotal
BY ComparisonOrders, BoardHolds, PTL

LEMMA AheadIsOrder == BoardInvariant => IsOrder(Ahead)
<1> SUFFICES ASSUME BoardInvariant PROVE IsOrder(Ahead)
  OBVIOUS
<1>1. Listed \subseteq DOMAIN table /\ DOMAIN Ahead = Listed
  BY DEF Listed, Ahead
<1>2. IsFiniteSet(Listed)
  BY <1>1, LeaderboardAssumption, FS_Subset DEF BoardInvariant
<1>3. OrderIsTotal
  BY ComparisonOrders
<1>4. ComparisonMeans
  BY CompareMeans
<1>5. \A p \in Listed : Ahead[p] \subseteq Listed \ {p}
  BY <1>1, <1>3 DEF Ahead, OrderIsTotal
<1>6. \A p, q \in Listed : p = q \/ p \in Ahead[q] \/ q \in Ahead[p]
  BY <1>1, <1>3, <1>4 DEF Ahead, OrderIsTotal, ComparisonMeans, Outcome
<1>7. \A p, q \in Listed : p \in Ahead[q] => Ahead[p] \subseteq Ahead[q]
  BY <1>1, <1>3 DEF Ahead, OrderIsTotal
<1>8. QED
  BY <1>1, <1>2, <1>5, <1>6, <1>7 DEF IsOrder

\* The reference's comparison of keys is the order of the ranked rows.
LEMMA BeatsIsInFront ==
  ASSUME BoardInvariant, NEW p \in DOMAIN table, NEW q \in DOMAIN table
  PROVE  Beats(p, q) <=> RankedInFront(p, q, table[p], table[q])
<1> DEFINE l == table[p]
           r == table[q]
           k == IF table[p].wins = 0 THEN KeysWithoutWins(p) ELSE Keys(p)
           m == IF table[q].wins = 0 THEN KeysWithoutWins(q) ELSE Keys(q)
<1>1. p \in Nat /\ q \in Nat /\ Plausible(l) /\ Plausible(r)
  BY RowsArePlausible
<1>2. /\ RankScore(l) \in Int /\ DisplayRating(l) \in Int /\ l.wins \in Nat /\ l.games \in Nat
      /\ RankScore(r) \in Int /\ DisplayRating(r) \in Int /\ r.wins \in Nat /\ r.games \in Nat
      /\ l.wins <= l.games /\ r.wins <= r.games
  BY <1>1, ScoresAreInts DEF Plausible, BoardRow
<1>3. k = <<RankScore(l), DisplayRating(l), l.wins, RateKey(l), GamesKey(l), -p>>
  BY <1>2 DEF Keys, KeysWithoutWins, RateKey, GamesKey
<1>4. m = <<RankScore(r), DisplayRating(r), r.wins, RateKey(r), GamesKey(r), -q>>
  BY <1>2 DEF Keys, KeysWithoutWins, RateKey, GamesKey
<1>5. /\ RateKey(l) \in Int /\ GamesKey(l) \in Int /\ RateKey(r) \in Int /\ GamesKey(r) \in Int
  BY <1>2 DEF RateKey, GamesKey
<1>6. Beats(p, q) <=> \E i \in DOMAIN k : k[i] > m[i] /\ \A j \in 1..(i - 1) : k[j] = m[j]
  BY DEF Beats
<1> HIDE DEF k, m
<1>7. DOMAIN k = 1..6
  BY <1>3
<1>8. Beats(p, q) <=>
        \/ k[1] > m[1]
        \/ k[1] = m[1] /\ k[2] > m[2]
        \/ k[1] = m[1] /\ k[2] = m[2] /\ k[3] > m[3]
        \/ k[1] = m[1] /\ k[2] = m[2] /\ k[3] = m[3] /\ k[4] > m[4]
        \/ k[1] = m[1] /\ k[2] = m[2] /\ k[3] = m[3] /\ k[4] = m[4] /\ k[5] > m[5]
        \/ k[1] = m[1] /\ k[2] = m[2] /\ k[3] = m[3] /\ k[4] = m[4] /\ k[5] = m[5] /\ k[6] > m[6]
  <2> DEFINE first(i) == k[i] > m[i] /\ \A j \in 1..(i - 1) : k[j] = m[j]
  <2>1. Beats(p, q) <=> first(1) \/ first(2) \/ first(3) \/ first(4) \/ first(5) \/ first(6)
    <3>1. \A i \in 1..6 : i = 1 \/ i = 2 \/ i = 3 \/ i = 4 \/ i = 5 \/ i = 6
      OBVIOUS
    <3>2. Beats(p, q) <=> \E i \in 1..6 : first(i)
      BY <1>6, <1>7
    <3> HIDE DEF first
    <3>3. QED
      BY <3>1, <3>2
  <2>2. QED
    BY <2>1
<1>9. QED
  BY <1>1, <1>2, <1>3, <1>4, <1>5, <1>8 DEF RankedInFront

LEMMA RanksCount == BoardInvariant => RanksAreReference
<1> SUFFICES ASSUME BoardInvariant PROVE RanksAreReference
  OBVIOUS
<1> DEFINE n == Cardinality(Listed)
           rivals == {q \in Listed : table[q].games >= minGames}
<1>1. Listed \subseteq DOMAIN table /\ DOMAIN Ahead = Listed
  BY DEF Listed, Ahead
<1>2. /\ Board \in [1..n -> Listed]
      /\ \A i \in 1..n : Cardinality(Ahead[Board[i]]) = i - 1
      /\ \A i, j \in 1..n : i < j => Board[i] \in Ahead[Board[j]]
  BY <1>1, AheadIsOrder, InOrderSorts DEF Board
<1>3. n \in Nat
  BY <1>1, AheadIsOrder, FS_CardinalityType DEF IsOrder
<1>4. \A p \in Listed : IsRanked(table[p], minGames) <=> p \in rivals
  BY DEF IsRanked
<1>5. \A p \in rivals : Ahead[p] = {q \in rivals : Beats(q, p)}
  <2> SUFFICES ASSUME NEW p \in rivals, NEW q \in Listed
               PROVE  q \in Ahead[p] <=> q \in rivals /\ Beats(q, p)
    BY DEF Ahead
  <2>1. q \in Ahead[p] <=> InFront(q, p, table[q], table[p], minGames)
    BY <1>1, CompareMeans DEF Ahead, ComparisonMeans, Outcome
  <2>2. Beats(q, p) <=> RankedInFront(q, p, table[q], table[p])
    BY <1>1, BeatsIsInFront
  <2>3. QED
    BY <1>4, <2>1, <2>2 DEF InFront
<1>6. ASSUME NEW i \in 1..n
      PROVE  RankNumbers(Board)[i] = IF Board[i] \in rivals
               THEN 1 + Cardinality({q \in rivals : Beats(q, Board[i])}) ELSE 0
  <2>1. RankNumbers(Board)[i] =
          IF IsRanked(table[Board[i]], minGames)
          THEN Cardinality({j \in 1..i : IsRanked(table[Board[j]], minGames)}) ELSE 0
    BY <1>2 DEF RankNumbers
  <2>2. Board[i] \in Listed
    BY <1>2
  <2>3. CASE Board[i] \in rivals
    <3>1. \A j \in 1..i : IsRanked(table[Board[j]], minGames)
      <4> SUFFICES ASSUME NEW j \in 1..i PROVE IsRanked(table[Board[j]], minGames)
        OBVIOUS
      <4>1. j = i \/ Board[j] \in Ahead[Board[i]]
        BY <1>2, <1>3
      <4>2. Board[j] \in rivals
        BY <1>5, <2>3, <4>1
      <4>3. QED
        BY <4>2 DEF IsRanked
    <3>2. {j \in 1..i : IsRanked(table[Board[j]], minGames)} = 1..i
      BY <3>1
    <3>3. Cardinality(1..i) = i
      BY <1>3, FS_Interval
    <3>4. Cardinality({q \in rivals : Beats(q, Board[i])}) = i - 1
      BY <1>2, <1>5, <2>3
    <3>5. IsRanked(table[Board[i]], minGames)
      BY <2>3 DEF IsRanked
    <3>6. RankNumbers(Board)[i] = i
      BY <2>1, <3>2, <3>3, <3>5
    <3>7. 1 + Cardinality({q \in rivals : Beats(q, Board[i])}) = i
      BY <1>3, <3>4
    <3>8. QED
      BY <2>3, <3>6, <3>7
  <2>4. CASE Board[i] \notin rivals
    BY <1>4, <2>1, <2>2, <2>4
  <2>5. QED
    BY <2>3, <2>4
<1>7. DOMAIN Board = 1..n
  BY <1>2
<1>8. QED
  BY <1>6, <1>7 DEF RanksAreReference

\* Whoever has enough games is ranked by the number of those who beat them, for
\* every table, every min_games, with and without the inactive players.
THEOREM RanksStayReference == LeaderboardSpec => []RanksAreReference
BY RanksCount, BoardHolds, PTL

\* A step in which p wins is a match: it lifts p's row, and whoever has no more
\* games afterwards keeps theirs.
LEMMA WinsLiftRow ==
  ASSUME BoardInvariant, LeaderboardNext, NEW p \in DOMAIN table, NEW q \in DOMAIN table,
         table'[p].wins > table[p].wins, table'[q].games = table[q].games
  PROVE  /\ minGames' = minGames /\ table'[q] = table[q]
         /\ table'[p].skill.rating >= table[p].skill.rating
         /\ table'[p].skill.uncertainty <= table[p].skill.uncertainty
         /\ table'[p].games = table[p].games + 1
<1>1. \A s \in DOMAIN table : table[s] \in BoardRow /\ table[s].wins <= table[s].games
  BY DEF BoardInvariant
<1>2. \A s \in DOMAIN table : table[s].wins \in Nat /\ table[s].games \in Nat
  BY <1>1 DEF BoardRow
<1>3. ASSUME NEW s \in Contestant, NewPlayer(s) \/ ComeOrGo(s) PROVE FALSE
  <2>1. CASE NewPlayer(s)
    BY <2>1, <1>2 DEF NewPlayer
  <2>2. CASE ComeOrGo(s)
    <3>1. table'[p].wins = table[p].wins
      BY <2>2, <1>1 DEF ComeOrGo, BoardRow
    <3>2. QED
      BY <3>1, <1>2
  <2>3. QED
    BY <1>3, <2>1, <2>2
<1>4. ~Ask
  BY <1>2 DEF Ask
<1>5. PICK place \in Results : SubmitMatch(place)
  BY <1>3, <1>4 DEF LeaderboardNext
<1>6. PICK new \in [DOMAIN place -> Skill] :
        /\ Rates(place, new)
        /\ table' = [s \in DOMAIN table |->
             IF s \in DOMAIN place THEN RowAfterMatch(table[s], new[s], place[s]) ELSE table[s]]
  BY <1>5 DEF SubmitMatch
<1>7. \A s \in DOMAIN place \cap DOMAIN table :
        /\ table'[s].skill = new[s] /\ table'[s].games = table[s].games + 1
        /\ table'[s].wins = IF place[s] = 1 THEN table[s].wins + 1 ELSE table[s].wins
  BY <1>1, <1>6, LeaderboardAssumption, RowAfterMatchIs DEF Strength
<1>8. p \in DOMAIN place /\ place[p] = 1
  BY <1>2, <1>6, <1>7
<1>9. q \notin DOMAIN place
  BY <1>2, <1>7
<1>10. new[p].rating >= table[p].skill.rating /\ new[p].uncertainty <= table[p].skill.uncertainty
  BY <1>6, <1>8 DEF Rates
<1>11. minGames' = minGames
  BY <1>5 DEF SubmitMatch
<1>12. QED
  BY <1>6, <1>7, <1>8, <1>9, <1>10, <1>11

\* A better row is in front of whatever the worse one was in front of.
LEMMA BetterStaysInFront ==
  ASSUME NEW p \in Nat, NEW q \in Nat, NEW l, NEW new, NEW r, NEW min \in Nat,
         Plausible(l), Plausible(new), Plausible(r),
         new.skill.rating >= l.skill.rating, new.skill.uncertainty <= l.skill.uncertainty,
         new.games = l.games + 1, new.wins > l.wins,
         InFront(p, q, l, r, min)
  PROVE  InFront(p, q, new, r, min)
<1>1. /\ l.skill.rating \in Int /\ new.skill.rating \in Int
      /\ l.skill.rating - 3 * l.skill.uncertainty \in Int
      /\ new.skill.rating - 3 * new.skill.uncertainty \in Int
      /\ l.skill.rating - 3 * l.skill.uncertainty
           <= new.skill.rating - 3 * new.skill.uncertainty
  BY DEF Plausible, BoardRow, Strength
<1>2. RankScore(l) <= RankScore(new) /\ DisplayRating(l) <= DisplayRating(new)
  BY <1>1, RoundingIsMonotone DEF RankScore, DisplayRating
<1>3. /\ \A row \in {l, new, r} : RankScore(row) \in Int /\ DisplayRating(row) \in Int
                               /\ row.wins \in Nat /\ row.games \in Nat
  BY ScoresAreInts DEF Plausible, BoardRow
<1>4. RankedInFront(p, q, l, r) => RankedInFront(p, q, new, r)
  BY <1>2, <1>3 DEF RankedInFront
<1>5. UnrankedInFront(p, q, l, r) => UnrankedInFront(p, q, new, r)
  BY <1>2, <1>3 DEF UnrankedInFront
<1>6. IsRanked(l, min) => IsRanked(new, min)
  BY <1>3 DEF IsRanked
<1>7. QED
  BY <1>4, <1>5, <1>6 DEF InFront

\* A win costs no place among those who did not play, whatever the rounding hides
\* and whether or not the game makes the winner ranked: for every number of
\* players in a match, and all ratings that a match can leave.
THEOREM WinsCostNothing == LeaderboardSpec => WinnersKeepBystandersBehind
<1>1. BoardInvariant /\ BoardInvariant' /\ ComparisonMeans /\ ComparisonMeans'
        /\ [LeaderboardNext]_leaderboardVars
      => [\A p, q \in DOMAIN table :
            /\ {p, q} \subseteq DOMAIN table'
            /\ table'[p].wins > table[p].wins /\ table'[q].games = table[q].games
            /\ Compare(p, q, minGames) = "less"
            => Compare(p, q, minGames)' = "less"]_leaderboardVars
  <2> SUFFICES ASSUME BoardInvariant, BoardInvariant', ComparisonMeans, ComparisonMeans',
                      LeaderboardNext, NEW p \in DOMAIN table, NEW q \in DOMAIN table,
                      p \in DOMAIN table', q \in DOMAIN table',
                      table'[p].wins > table[p].wins, table'[q].games = table[q].games,
                      Compare(p, q, minGames) = "less"
               PROVE  Compare(p, q, minGames)' = "less"
    OBVIOUS
  <2>1. /\ minGames' = minGames /\ table'[q] = table[q]
        /\ table'[p].skill.rating >= table[p].skill.rating
        /\ table'[p].skill.uncertainty <= table[p].skill.uncertainty
        /\ table'[p].games = table[p].games + 1
    BY WinsLiftRow
  <2>2. InFront(p, q, table[p], table[q], minGames)
    BY DEF ComparisonMeans, Outcome
  <2>3. p \in Nat /\ q \in Nat /\ Plausible(table[p]) /\ Plausible(table[q])
    BY RowsArePlausible
  <2>4. Plausible(table'[p])
    BY DEF BoardInvariant, Plausible
  <2>5. minGames \in Nat
    BY DEF BoardInvariant
  <2>6. InFront(p, q, table'[p], table[q], minGames)
    BY <2>1, <2>2, <2>3, <2>4, <2>5, BetterStaysInFront
  <2>7. InFront(p, q, table'[p], table'[q], minGames')
    BY <2>1, <2>6
  <2>8. QED
    BY <2>7 DEF ComparisonMeans, Outcome
<1>2. QED
  BY <1>1, BoardHolds, CompareMeans, PTL DEF LeaderboardSpec, WinnersKeepBystandersBehind

-----------------------------------------------------------------------------
(* The audit log *)

\* Each open transaction has one entry to insert, and none has another's.
OneEntryEach ==
  /\ open \in [Worker -> {<<>>} \cup {<<e>> : e \in Entry}]
  /\ \A v, w \in Worker : v # w => Range(open[v]) \cap Range(open[w]) = {}

\* An id names one entry, which is either committed or pending.
IdsName(done, waiting) ==
  /\ done \subseteq Entry /\ waiting \subseteq Entry
  /\ done \cap waiting = {}
  /\ \A e, f \in done \cup waiting : e.id = f.id => e = f

\* now() of a transaction is later than that of every entry it could read, and
\* earlier than that of transactions which begin after its commit.
TimesFollow(time, done, waiting) ==
  /\ \A e \in done : e.createdAt < time
  /\ \A e \in waiting : e.createdAt <= time
  /\ \A e \in done \cup waiting :
       /\ e.known \subseteq Ids(done)
       /\ \A f \in done : f.id \in e.known => f.createdAt < e.createdAt

IsPage(rows) ==
  /\ rows \in Seq(log)
  /\ \A i, j \in DOMAIN rows : i < j => Newer(rows[i], rows[j])

ListingInvariant ==
  /\ clock \in Nat /\ IsFiniteSet(log)
  /\ OneEntryEach
  /\ IdsName(log, Pending)
  /\ TimesFollow(clock, log, Pending)
  /\ IsPage(page)
  /\ PagesHaveNoGaps

LEMMA RangeOfOne == Range(<<>>) = {} /\ \A e : Range(<<e>>) = {e}
BY DEF Range

LEMMA BeginAdds ==
  ASSUME OneEntryEach, NEW w \in Worker, open[w] = <<>>,
         NEW new \in Entry, new \notin Pending, open' = [open EXCEPT ![w] = <<new>>]
  PROVE  OneEntryEach' /\ Pending' = Pending \cup {new}
<1>1. /\ open'[w] = <<new>> /\ DOMAIN open' = Worker
      /\ \A v \in Worker \ {w} : open'[v] = open[v]
      /\ open' \in [Worker -> {<<>>} \cup {<<e>> : e \in Entry}]
  BY DEF OneEntryEach
<1>2. \A v \in Worker : Range(open[v]) \subseteq Pending
  BY DEF Pending
<1>3. Range(open[w]) = {} /\ Range(open'[w]) = {new}
  BY <1>1, RangeOfOne
<1>4. Pending' = Pending \cup {new}
  BY <1>1, <1>3 DEF Pending
<1>5. \A v, u \in Worker : v # u => Range(open'[v]) \cap Range(open'[u]) = {}
  BY <1>1, <1>2, <1>3 DEF OneEntryEach
<1>6. QED
  BY <1>1, <1>4, <1>5 DEF OneEntryEach

LEMMA EndRemoves ==
  ASSUME OneEntryEach, NEW w \in Worker, open[w] # <<>>, open' = [open EXCEPT ![w] = <<>>]
  PROVE  /\ OneEntryEach'
         /\ \E e \in Pending : Range(open[w]) = {e} /\ Pending' = Pending \ {e}
<1>1. /\ open'[w] = <<>> /\ DOMAIN open' = Worker
      /\ \A v \in Worker \ {w} : open'[v] = open[v]
      /\ open' \in [Worker -> {<<>>} \cup {<<e>> : e \in Entry}]
  BY DEF OneEntryEach
<1>2. PICK e \in Entry : open[w] = <<e>>
  BY DEF OneEntryEach
<1>3. Range(open[w]) = {e} /\ Range(open'[w]) = {}
  BY <1>1, <1>2, RangeOfOne
<1>4. e \in Pending
  BY <1>3 DEF Pending
<1>5. \A v \in Worker \ {w} : e \notin Range(open[v])
  BY <1>3 DEF OneEntryEach
<1>6. Pending' = Pending \ {e}
  BY <1>1, <1>3, <1>5 DEF Pending
<1>7. \A v, u \in Worker : v # u => Range(open'[v]) \cap Range(open'[u]) = {}
  BY <1>1, <1>3 DEF OneEntryEach
<1>8. QED
  BY <1>1, <1>3, <1>4, <1>6, <1>7 DEF OneEntryEach

LEMMA BeginKeepsListing ==
  ASSUME ListingInvariant, NEW w \in Worker, BeginEntry(w)
  PROVE  ListingInvariant'
<1>1. PICK i \in EntryId \ Ids(log \cup Pending) :
        open' = [open EXCEPT ![w] = <<[id |-> i, createdAt |-> clock, known |-> Ids(log)]>>]
  BY DEF BeginEntry
<1> DEFINE new == [id |-> i, createdAt |-> clock, known |-> Ids(log)]
<1>2. new \in Entry /\ new.id = i /\ new.createdAt = clock /\ new.known = Ids(log)
  BY DEF ListingInvariant, IdsName, Entry, Ids
<1>3. \A e \in log \cup Pending : e.id # i
  BY <1>1 DEF Ids
<1>4. clock' = clock /\ log' = log /\ page' = page /\ open[w] = <<>>
  BY DEF BeginEntry
<1>5. open' = [open EXCEPT ![w] = <<new>>]
  BY <1>1
<1> HIDE DEF new
<1>6. OneEntryEach' /\ Pending' = Pending \cup {new}
  BY <1>2, <1>3, <1>4, <1>5, BeginAdds DEF ListingInvariant
<1>7. IdsName(log, Pending \cup {new})
  BY <1>2, <1>3 DEF ListingInvariant, IdsName
<1>8. TimesFollow(clock, log, Pending \cup {new})
  BY <1>2 DEF ListingInvariant, TimesFollow, IdsName, Ids
<1>9. IsPage(page)' /\ PagesHaveNoGaps'
  BY <1>4 DEF ListingInvariant, IsPage, PagesHaveNoGaps
<1>10. QED
  BY <1>4, <1>6, <1>7, <1>8, <1>9 DEF ListingInvariant

LEMMA CommitKeepsListing ==
  ASSUME ListingInvariant, NEW w \in Worker, CommitEntry(w)
  PROVE  ListingInvariant'
<1>1. PICK e \in Pending : Range(open[w]) = {e} /\ Pending' = Pending \ {e} /\ OneEntryEach'
  BY EndRemoves DEF ListingInvariant, CommitEntry
<1>2. log' = log \cup {e} /\ clock' = clock + 1 /\ page' = page
  BY <1>1 DEF CommitEntry
<1>3. IsFiniteSet(log \cup {e})
  BY FS_AddElement DEF ListingInvariant
<1>4. IdsName(log \cup {e}, Pending \ {e})
  BY <1>1 DEF ListingInvariant, IdsName
<1>5. \A f \in log \cup Pending : e.id \notin f.known
  BY <1>1 DEF ListingInvariant, IdsName, TimesFollow, Ids
<1>6. \A f \in log \cup Pending : f \in Entry /\ f.createdAt \in Nat
  BY DEF ListingInvariant, IdsName, Entry
<1>7. TimesFollow(clock + 1, log \cup {e}, Pending \ {e})
  <2>1. /\ \A f \in log \cup {e} : f.createdAt < clock + 1
        /\ \A f \in Pending \ {e} : f.createdAt <= clock + 1
    BY <1>1, <1>6 DEF ListingInvariant, TimesFollow
  <2>2. Ids(log) \subseteq Ids(log \cup {e})
    BY DEF Ids
  <2>3. \A f \in log \cup Pending :
          /\ f.known \subseteq Ids(log \cup {e})
          /\ \A g \in log \cup {e} : g.id \in f.known => g.createdAt < f.createdAt
    BY <1>5, <2>2 DEF ListingInvariant, TimesFollow
  <2>4. QED
    BY <1>1, <2>1, <2>3 DEF TimesFollow
<1>8. IsPage(page)'
  BY <1>2 DEF ListingInvariant, IsPage
<1>9. PagesHaveNoGaps'
  <2>1. \A f \in DOMAIN page : page[f] \in log
    BY DEF ListingInvariant, IsPage
  <2>2. page # <<>> => page[1] \in log
    BY <2>1 DEF ListingInvariant, IsPage
  <2>3. QED
    BY <1>2, <1>5, <2>2 DEF ListingInvariant, PagesHaveNoGaps
<1>10. QED
  BY <1>1, <1>2, <1>3, <1>4, <1>7, <1>8, <1>9 DEF ListingInvariant

LEMMA RollbackKeepsListing ==
  ASSUME ListingInvariant, NEW w \in Worker, RollbackEntry(w)
  PROVE  ListingInvariant'
<1>1. PICK e \in Pending : Pending' = Pending \ {e} /\ OneEntryEach'
  BY EndRemoves DEF ListingInvariant, RollbackEntry
<1>2. clock' = clock /\ log' = log /\ page' = page
  BY DEF RollbackEntry
<1>3. IdsName(log, Pending \ {e}) /\ TimesFollow(clock, log, Pending \ {e})
  BY DEF ListingInvariant, IdsName, TimesFollow
<1>4. IsPage(page)' /\ PagesHaveNoGaps'
  BY <1>2 DEF ListingInvariant, IsPage, PagesHaveNoGaps
<1>5. QED
  BY <1>1, <1>2, <1>3, <1>4 DEF ListingInvariant

\* The order of the listing is one that sorts: no two entries have the same id.
LEMMA EntriesAreOrdered ==
  ASSUME ListingInvariant
  PROVE  IsOrder([e \in log |-> {f \in log : Newer(f, e)}])
<1> DEFINE ahead == [e \in log |-> {f \in log : Newer(f, e)}]
<1>1. \A e \in log : e.id \in Nat /\ e.createdAt \in Nat
  BY ListingAssumption DEF ListingInvariant, IdsName, Entry
<1>2. \A e, f \in log : e.id = f.id => e = f
  BY DEF ListingInvariant, IdsName
<1>3. \A e \in log : ahead[e] \subseteq log \ {e}
  BY <1>1 DEF Newer
<1>4. \A e, f \in log : e = f \/ e \in ahead[f] \/ f \in ahead[e]
  BY <1>1, <1>2 DEF Newer
<1>5. \A e, f \in log : e \in ahead[f] => ahead[e] \subseteq ahead[f]
  BY <1>1 DEF Newer
<1>6. QED
  BY <1>3, <1>4, <1>5 DEF ListingInvariant, IsOrder

\* The first entries of the listing: sorted, and older than none left out.
LEMMA FirstEntriesSorted ==
  ASSUME ListingInvariant, NEW limit \in Nat
  PROVE  /\ IsPage(FirstEntries(limit))
         /\ \A e \in log : e \notin Range(FirstEntries(limit)) =>
              \A i \in DOMAIN FirstEntries(limit) : Newer(FirstEntries(limit)[i], e)
<1> DEFINE ahead == [e \in log |-> {f \in log : Newer(f, e)}]
           listed == InOrder(ahead)
           n == Cardinality(log)
           m == IF limit < n THEN limit ELSE n
           first == FirstEntries(limit)
<1>1. /\ n \in Nat /\ listed \in [1..n -> log]
      /\ \A i, j \in 1..n : i < j <=> Newer(listed[i], listed[j])
      /\ \A e \in log : \E i \in 1..n : listed[i] = e
  <2>1. IsOrder(ahead) /\ DOMAIN ahead = log
    BY EntriesAreOrdered
  <2>2. n \in Nat
    BY FS_CardinalityType DEF ListingInvariant
  <2>3. /\ listed \in [1..n -> log]
        /\ \A i, j \in 1..n : i < j <=> listed[i] \in ahead[listed[j]]
        /\ \A e \in log : \E i \in 1..n : listed[i] = e
    <3> HIDE DEF ahead
    <3>1. QED
      BY <2>1, InOrderSorts
  <2>4. QED
    BY <2>2, <2>3
<1>2. SortedEntries(log) = listed
  BY DEF SortedEntries
<1> HIDE DEF listed
<1>3. listed \in Seq(log) /\ Len(listed) = n
  BY <1>1
<1>4. first = SubSeq(listed, 1, m) /\ m \in 0..n
  BY <1>1, <1>2, <1>3 DEF FirstEntries
<1>5. first \in Seq(log) /\ Len(first) = m /\ DOMAIN first = 1..m /\ \A i \in 1..m : first[i] = listed[i]
  BY <1>1, <1>3, <1>4
<1>6. IsPage(first)
  BY <1>1, <1>4, <1>5 DEF IsPage
<1>7. ASSUME NEW e \in log, e \notin Range(first), NEW i \in DOMAIN first
      PROVE  Newer(first[i], e)
  <2>1. PICK k \in 1..n : listed[k] = e
    BY <1>1
  <2>2. k \notin 1..m
    BY <1>5, <1>7, <2>1 DEF Range
  <2>3. QED
    BY <1>1, <1>4, <1>5, <1>7, <2>1, <2>2
<1>8. QED
  BY <1>6, <1>7

LEMMA ListKeepsListing ==
  ASSUME ListingInvariant, NEW query \in Limits \cup {NoLimit}, ListAuditLog(query)
  PROVE  ListingInvariant'
<1>1. clock' = clock /\ log' = log /\ open' = open
  BY DEF ListAuditLog
<1>2. IsPage(page') /\ PagesHaveNoGaps'
  <2>1. CASE LimitOf(query) \in 1..MaxLimit
    <3>1. page' = FirstEntries(LimitOf(query)) /\ LimitOf(query) \in Nat
      BY <2>1, ListingAssumption DEF ListAuditLog
    <3>2. /\ IsPage(page')
          /\ \A e \in log : e \notin Range(page') => \A i \in DOMAIN page' : Newer(page'[i], e)
      BY <3>1, FirstEntriesSorted
    <3>3. \A e \in log : e.createdAt \in Nat
      BY DEF ListingInvariant, IdsName, Entry
    <3>4. \A e \in log : e.id \notin Ids(Range(page')) => e \notin Range(page')
      BY DEF Ids
    <3>5. \A i \in DOMAIN page' : page'[i] \in log
      BY <3>2 DEF IsPage
    <3>6. \A e \in log : e.id \notin Ids(Range(page')) =>
            \A i \in DOMAIN page' : e.createdAt <= page'[i].createdAt
      BY <3>2, <3>3, <3>4, <3>5 DEF Newer
    <3>7. QED
      BY <1>1, <3>2, <3>6 DEF PagesHaveNoGaps
  <2>2. CASE LimitOf(query) \notin 1..MaxLimit
    BY <2>2 DEF ListAuditLog, IsPage, PagesHaveNoGaps
  <2>3. QED
    BY <2>1, <2>2
<1>3. IsPage(page)' /\ Pending' = Pending /\ OneEntryEach'
  BY <1>1, <1>2 DEF IsPage, Pending, OneEntryEach, ListingInvariant
<1>4. QED
  BY <1>1, <1>2, <1>3 DEF ListingInvariant

LEMMA ListingStep == ListingInvariant /\ [ListingNext]_listingVars => ListingInvariant'
<1> SUFFICES ASSUME ListingInvariant, [ListingNext]_listingVars PROVE ListingInvariant'
  OBVIOUS
<1>1. CASE UNCHANGED listingVars
  BY <1>1 DEF ListingInvariant, OneEntryEach, IsPage, PagesHaveNoGaps, Pending, listingVars
<1>2. CASE ListingNext
  BY <1>2, BeginKeepsListing, CommitKeepsListing, RollbackKeepsListing, ListKeepsListing
     DEF ListingNext
<1>3. QED
  BY <1>1, <1>2

LEMMA ListingHolds == ListingSpec => []ListingInvariant
<1>1. ListingInit => ListingInvariant
  <2> SUFFICES ASSUME ListingInit PROVE ListingInvariant
    OBVIOUS
  <2>1. Pending = {}
    BY RangeOfOne DEF ListingInit, Pending
  <2>2. OneEntryEach
    BY RangeOfOne DEF ListingInit, OneEntryEach
  <2>3. QED
    BY <2>1, <2>2, FS_EmptySet
       DEF ListingInit, ListingInvariant, IdsName, TimesFollow, IsPage, PagesHaveNoGaps
<1>2. QED
  BY <1>1, ListingStep, PTL DEF ListingSpec

\* A page of the audit log tells causes below their effects, for any number of
\* concurrent transactions and any ids.
THEOREM CausesStayBelow == ListingSpec => []CausesAreListedBelow
<1>1. ListingInvariant => CausesAreListedBelow
  <2> SUFFICES ASSUME ListingInvariant, NEW i \in DOMAIN page, NEW j \in DOMAIN page, i < j,
                      page[i].id \in page[j].known
               PROVE  FALSE
    BY DEF CausesAreListedBelow
  <2>1. page[i] \in log /\ page[j] \in log /\ Newer(page[i], page[j])
    BY DEF ListingInvariant, IsPage
  <2>2. page[i].createdAt < page[j].createdAt
    BY <2>1 DEF ListingInvariant, TimesFollow
  <2>3. page[i].createdAt \in Nat /\ page[j].createdAt \in Nat
    BY <2>1 DEF ListingInvariant, IdsName, Entry
  <2>4. QED
    BY <2>1, <2>2, <2>3 DEF Newer
<1>2. QED
  BY <1>1, ListingHolds, PTL

\* A page of the audit log has no gaps: what could be read when its newest entry
\* was written and is missing is older than all it lists.
THEOREM PagesStayWhole == ListingSpec => []PagesHaveNoGaps
<1>1. ListingInvariant => PagesHaveNoGaps
  BY DEF ListingInvariant
<1>2. QED
  BY <1>1, ListingHolds, PTL

-----------------------------------------------------------------------------
(* The settings *)

\* Up to the first of keys that a has set, b holds what a holds.
SameUpToFirst(a, b, keys) ==
  \A i \in DOMAIN keys : (\A j \in 1..(i - 1) : a[keys[j]] = Unset) => b[keys[i]] = a[keys[i]]

LEMMA FirstOfSome ==
  ASSUME NEW n \in Nat, NEW I \in SUBSET (1..n), I # {}
  PROVE  Min(I) \in I /\ \A j \in I : Min(I) <= j
<1>1. \E x \in I : \A y \in I : x <= y
  BY LeastNatural
<1>2. QED
  BY <1>1 DEF Min

IsList(keys) == Len(keys) \in Nat /\ DOMAIN keys = 1..Len(keys)

\* A name that comes after the first one set does not matter to find_map.
LEMMA SameFirst ==
  ASSUME NEW a, NEW b, NEW keys, IsList(keys), SameUpToFirst(a, b, keys)
  PROVE  GetAny(a, keys) = GetAny(b, keys) /\ FirstSet(a, keys) = FirstSet(b, keys)
<1> DEFINE n == Len(keys)
           A == {i \in 1..n : a[keys[i]] # Unset}
           B == {i \in 1..n : b[keys[i]] # Unset}
<1>1. n \in Nat /\ DOMAIN keys = 1..n
  BY DEF IsList
<1>2. /\ FirstSet(a, keys) = IF A # {} THEN Min(A) ELSE 0
      /\ FirstSet(b, keys) = IF B # {} THEN Min(B) ELSE 0
  BY DEF FirstSet, SelectInSeq
<1> HIDE DEF n
<1>3. CASE A = {}
  <2>1. \A i \in 1..n : a[keys[i]] = Unset
    BY <1>3
  <2>2. \A i \in 1..n : b[keys[i]] = a[keys[i]]
    BY <1>1, <2>1 DEF SameUpToFirst
  <2>3. B = {}
    BY <2>1, <2>2
  <2>4. QED
    BY <1>2, <1>3, <2>3 DEF GetAny
<1>4. CASE A # {}
  <2>1. Min(A) \in A /\ \A j \in A : Min(A) <= j
    BY <1>1, <1>4, FirstOfSome
  <2> DEFINE m == Min(A)
  <2> HIDE DEF A, B
  <2>2. m \in 1..n /\ a[keys[m]] # Unset /\ \A j \in 1..(m - 1) : a[keys[j]] = Unset
    <3>1. m \in A /\ \A j \in A : m <= j
      BY <2>1
    <3>2. m \in 1..n /\ a[keys[m]] # Unset
      BY <3>1 DEF A
    <3> HIDE DEF m
    <3>3. ASSUME NEW j \in 1..(m - 1) PROVE a[keys[j]] = Unset
      <4>1. j \in 1..n /\ ~(m <= j)
        BY <1>1, <3>2
      <4>2. QED
        BY <3>1, <4>1 DEF A
    <3>4. QED
      BY <3>2, <3>3
  <2> HIDE DEF m
  <2>3. \A i \in 1..m : b[keys[i]] = a[keys[i]]
    <3> SUFFICES ASSUME NEW i \in 1..m PROVE b[keys[i]] = a[keys[i]]
      OBVIOUS
    <3>1. i \in DOMAIN keys /\ \A j \in 1..(i - 1) : j \in 1..(m - 1)
      BY <1>1, <2>2
    <3>2. QED
      BY <2>2, <3>1 DEF SameUpToFirst
  <2>4. m \in B /\ \A j \in B : m <= j
    <3>1. b[keys[m]] # Unset
      BY <1>1, <2>2, <2>3
    <3>2. \A j \in 1..(m - 1) : b[keys[j]] = Unset
      BY <1>1, <2>2, <2>3
    <3>3. QED
      BY <1>1, <2>2, <3>1, <3>2 DEF B
  <2>5. Min(B) = m
    <3>1. B \in SUBSET (1..n)
      BY DEF B
    <3>2. Min(B) \in B /\ \A j \in B : Min(B) <= j
      BY <1>1, <2>4, <3>1, FirstOfSome
    <3>3. m <= Min(B) /\ Min(B) <= m
      BY <2>4, <3>2
    <3>4. Min(B) \in Int /\ m \in Int
      <4>1. Min(B) \in 1..n
        BY <3>1, <3>2
      <4>2. \A i \in 1..n : i \in Int
        BY <1>1
      <4>3. QED
        BY <2>2, <4>1, <4>2
    <3>5. QED
      BY <3>3, <3>4
  <2>6. FirstSet(a, keys) = m /\ FirstSet(b, keys) = m
    BY <1>2, <1>4, <2>4, <2>5 DEF m
  <2>7. b[keys[m]] = a[keys[m]] /\ m # 0
    BY <1>1, <2>2, <2>3
  <2>8. QED
    BY <2>6, <2>7 DEF GetAny
<1>5. QED
  BY <1>3, <1>4

Parts == {"POSTGRES_DB", "POSTGRES_HOST", "POSTGRES_PORT", "POSTGRES_USER", "POSTGRES_PASSWORD"}

\* All that Config::load looks at.
SameSettings(a, b) ==
  /\ \A keys \in {Hosts, Ports, Pools} : SameUpToFirst(a, b, keys)
  /\ b["DATABASE_URL"] = a["DATABASE_URL"]
  /\ a["DATABASE_URL"] = Unset => \A piece \in Parts : b[piece] = a[piece]

LEMMA SameLoaded ==
  ASSUME NEW a, NEW b, SameSettings(a, b)
  PROVE  LoadFromLookup(a) = LoadFromLookup(b)
<1>1. IsList(Hosts) /\ IsList(Ports) /\ IsList(Pools)
  BY DEF IsList, Hosts, Ports, Pools
<1>2. \A keys \in {Hosts, Ports, Pools} :
        GetAny(a, keys) = GetAny(b, keys) /\ FirstSet(a, keys) = FirstSet(b, keys)
  BY <1>1, SameFirst DEF SameSettings
<1>3. /\ GetAny(a, Hosts) = GetAny(b, Hosts)
      /\ ParseAny(a, Ports) = ParseAny(b, Ports)
      /\ ParseAnyOptional(a, Pools, "5") = ParseAnyOptional(b, Pools, "5")
  <2>1. \A keys \in {Hosts, Ports, Pools} : ParseAny(a, keys) = ParseAny(b, keys)
    BY <1>2 DEF ParseAny
  <2>2. QED
    BY <1>2, <2>1 DEF ParseAnyOptional
<1>4. DatabaseSettings(a) = DatabaseSettings(b)
  <2>1. CASE a["DATABASE_URL"] # Unset
    BY <2>1 DEF DatabaseSettings, SameSettings
  <2>2. CASE a["DATABASE_URL"] = Unset
    <3>1. ASSUME NEW piece \in Parts
          PROVE  GetAny(a, <<piece>>) = GetAny(b, <<piece>>) /\ ParseAny(a, <<piece>>) = ParseAny(b, <<piece>>)
      <4>1. SameUpToFirst(a, b, <<piece>>) /\ IsList(<<piece>>)
        BY <2>2, <3>1 DEF SameSettings, SameUpToFirst, Parts, IsList
      <4>2. QED
        BY <4>1, SameFirst DEF ParseAny
    <3>2. QED
      BY <2>2, <3>1 DEF DatabaseSettings, SameSettings, Parts
  <2>3. QED
    BY <2>1, <2>2
<1>5. QED
  BY <1>3, <1>4 DEF LoadFromLookup

\* In two environments that differ in shadowed variables only, load sees the same.
LEMMA ShadowedAreUnseen ==
  ASSUME NEW a, NEW b,
         \A k \in Variable : b[k] # a[k] => Shadowed(k, a)
  PROVE  SameSettings(a, b)
<1>1. \A k \in Range(Hosts) \cup Range(Ports) \cup Range(Pools) \cup {"DATABASE_URL"} \cup Parts :
        k \in Variable
  BY NamesAssumption DEF Range, Hosts, Ports, Pools, Parts
<1>2. ASSUME NEW keys \in {Hosts, Ports, Pools} PROVE SameUpToFirst(a, b, keys)
  <2> SUFFICES ASSUME NEW i \in DOMAIN keys, \A j \in 1..(i - 1) : a[keys[j]] = Unset,
                      b[keys[i]] # a[keys[i]]
               PROVE  FALSE
    BY DEF SameUpToFirst
  <2>1. keys[i] \in Variable
    BY <1>1 DEF Range
  <2>2. PICK names \in NamesOfSettings : \E h, j \in DOMAIN names :
          h < j /\ names[j] = keys[i] /\ a[names[h]] # Unset
    BY <2>1 DEF Shadowed
  <2> PICK h \in DOMAIN names, j \in DOMAIN names :
        h < j /\ names[j] = keys[i] /\ a[names[h]] # Unset
    BY <2>2
  <2>3. names = keys /\ h \in 1..(i - 1)
    BY <2>2 DEF NamesOfSettings, Hosts, Ports, Pools
  <2>4. QED
    BY <2>3
<1>3. b["DATABASE_URL"] = a["DATABASE_URL"]
  <2>1. ~Shadowed("DATABASE_URL", a)
    BY DEF Shadowed, NamesOfSettings, Hosts, Ports, Pools
  <2>2. QED
    BY <1>1, <2>1
<1>4. ASSUME a["DATABASE_URL"] = Unset, NEW piece \in Parts PROVE b[piece] = a[piece]
  <2>1. ~Shadowed(piece, a)
    BY <1>4 DEF Shadowed, NamesOfSettings, Hosts, Ports, Pools, Parts
  <2>2. QED
    BY <1>1, <2>1
<1>5. QED
  BY <1>2, <1>3, <1>4 DEF SameSettings

\* Old names left behind are harmless and repair nothing, whatever the variables
\* hold and whichever of them are set.
THEOREM ShadowedStayHarmless == ConfigSpec => ShadowedNamesDoNotMatter
<1>1. ASSUME \A k \in Edited : Shadowed(k, Lookup)
      PROVE  Loaded' = Loaded
  <2> DEFINE a == Lookup
             b == Lookup'
  <2>1. \A k \in Variable \ Edited : env'[k] = env[k] /\ file'[k] = file[k]
    BY DEF Edited
  <2>2. \A k \in {"ENV_FILE", "ENV_TEST"} : k \in Variable /\ ~Shadowed(k, a)
    BY NamesAssumption DEF Shadowed, NamesOfSettings, Hosts, Ports, Pools
  <2>3. EnvFile(env') = EnvFile(env)
    BY <1>1, <2>1, <2>2 DEF EnvFile
  <2>4. \A k \in Variable : b[k] # a[k] => Shadowed(k, a)
    <3> SUFFICES ASSUME NEW k \in Variable \ Edited PROVE b[k] = a[k]
      BY <1>1
    <3>1. env'[k] = env[k] /\ file'[k] = file[k]
      BY <2>1
    <3>2. CASE EnvFile(env) = ".env"
      BY <2>3, <3>1, <3>2 DEF Lookup, Seen, WithFile
    <3>3. CASE EnvFile(env) # ".env"
      BY <2>3, <3>1, <3>3 DEF Lookup, Seen
    <3>4. QED
      BY <3>2, <3>3
  <2>5. LoadFromLookup(a) = LoadFromLookup(b)
    <3> HIDE DEF a, b
    <3>1. QED
      BY <2>4, ShadowedAreUnseen, SameLoaded
  <2>6. QED
    BY <2>5 DEF Loaded
<1>2. [ConfigNext]_configVars =>
        [Edited # {} /\ (\A k \in Edited : Shadowed(k, Lookup)) => Loaded' = Loaded]_configVars
  BY <1>1
<1>3. QED
  BY <1>2, PTL DEF ConfigSpec, ShadowedNamesDoNotMatter

-----------------------------------------------------------------------------
(* What the audit page shows of an entry *)

\* The values of depth n at most, from those of a lower depth.
Deeper(V, n) == V \cup Objects(V, Width[n]) \cup Arrays(V, Width[n])

\* f gives the values of each depth up to n.
GivesValues(f, n) ==
  /\ DOMAIN f = 0..n
  /\ f[0] = {Scalar(x) : x \in Leaf}
  /\ \A i \in 1..n : f[i] = Deeper(f[i - 1], i)

\* The recursive definition of Values has a solution: induction over the depth, as
\* a smallest depth without one.
LEMMA ValuesExist ==
  ASSUME NEW n \in Nat
  PROVE  \E f : GivesValues(f, n)
<1> DEFINE T == {m \in Nat : ~ \E f : GivesValues(f, m)}
<1>1. SUFFICES ASSUME T # {} PROVE FALSE
  OBVIOUS
<1>2. PICK m \in T : \A k \in T : m <= k
  BY <1>1, LeastNatural
<1>3. m \in Nat /\ ~ \E f : GivesValues(f, m)
  OBVIOUS
<1>4. CASE m = 0
  <2> DEFINE g == [i \in 0..0 |-> {Scalar(x) : x \in Leaf}]
  <2>1. GivesValues(g, 0)
    BY DEF GivesValues
  <2>2. QED
    BY <1>3, <1>4, <2>1
<1>5. CASE m # 0
  <2>1. m - 1 \in Nat /\ m - 1 \notin T
    BY <1>2, <1>3, <1>5
  <2>2. PICK f : GivesValues(f, m - 1)
    BY <2>1
  <2> DEFINE g == [i \in 0..m |-> IF i < m THEN f[i] ELSE Deeper(f[m - 1], m)]
  <2>3. g[0] = {Scalar(x) : x \in Leaf}
    BY <1>3, <1>5, <2>2 DEF GivesValues
  <2>4. ASSUME NEW i \in 1..m PROVE g[i] = Deeper(g[i - 1], i)
    <3>1. i - 1 \in 0..m /\ i - 1 < m /\ i \in 0..m
      BY <1>3
    <3>2. CASE i = m
      BY <3>1, <3>2
    <3>3. CASE i # m
      <4>1. i \in 1..(m - 1) /\ i < m
        BY <1>3, <3>3
      <4>2. f[i] = Deeper(f[i - 1], i)
        BY <2>2, <4>1 DEF GivesValues
      <4>3. QED
        BY <3>1, <4>1, <4>2
    <3>4. QED
      BY <3>2, <3>3
  <2>5. GivesValues(g, m)
    BY <2>3, <2>4 DEF GivesValues
  <2>6. QED
    BY <1>3, <2>5
<1>6. QED
  BY <1>4, <1>5

LEMMA ValuesByDepth ==
  /\ Values[0] = {Scalar(x) : x \in Leaf}
  /\ \A n \in 1..Depth : Values[n] = Deeper(Values[n - 1], n)
<1> DEFINE step(f) == [n \in 0..Depth |->
             IF n = 0 THEN {Scalar(x) : x \in Leaf}
             ELSE f[n - 1] \cup Objects(f[n - 1], Width[n]) \cup Arrays(f[n - 1], Width[n])]
<1>1. Depth \in Nat
  BY RedactionAssumption
<1>2. PICK f : GivesValues(f, Depth)
  BY <1>1, ValuesExist
<1> DEFINE g == [n \in 0..Depth |-> f[n]]
<1>3. g = step(g)
  <2>1. ASSUME NEW n \in 0..Depth PROVE g[n] = step(g)[n]
    <3>1. CASE n = 0
      BY <1>2, <3>1 DEF GivesValues
    <3>2. CASE n # 0
      <4>1. n \in 1..Depth /\ n - 1 \in 0..Depth
        BY <1>1, <3>2
      <4>2. f[n] = Deeper(f[n - 1], n)
        BY <1>2, <4>1 DEF GivesValues
      <4>3. QED
        BY <3>2, <4>1, <4>2 DEF Deeper
    <3>3. QED
      BY <3>1, <3>2
  <2>2. QED
    BY <2>1
<1>4. Values = step(Values)
  BY <1>3 DEF Values
<1>5. ASSUME NEW n \in 0..Depth PROVE Values[n] = step(Values)[n]
  <2> HIDE DEF step
  <2>1. QED BY <1>4
<1>6. 0 \in 0..Depth /\ step(Values)[0] = {Scalar(x) : x \in Leaf}
  BY <1>1
<1>7. ASSUME NEW n \in 1..Depth PROVE Values[n] = Deeper(Values[n - 1], n)
  <2>1. n \in 0..Depth /\ n # 0
    BY <1>1
  <2>2. step(Values)[n] = Deeper(Values[n - 1], n)
    BY <2>1, Zenon DEF Deeper
  <2>3. QED
    BY <1>5, <2>1, <2>2
<1>8. QED
  <2> HIDE DEF step
  <2>1. QED BY <1>5, <1>6, <1>7

\* A value of some depth is one of every greater depth.
LEMMA ValuesGrow ==
  ASSUME NEW i \in 0..Depth, NEW j \in 0..Depth, i <= j
  PROVE  Values[i] \subseteq Values[j]
<1> DEFINE T == {k \in i..Depth : ~(Values[i] \subseteq Values[k])}
<1>1. SUFFICES ASSUME T # {} PROVE FALSE
  BY RedactionAssumption
<1>2. T \subseteq Nat
  BY RedactionAssumption
<1>3. PICK k \in T : \A l \in T : k <= l
  BY <1>1, <1>2, LeastNatural
<1>4. k \in i..Depth /\ ~(Values[i] \subseteq Values[k])
  OBVIOUS
<1>5. k \in 1..Depth /\ k - 1 \in i..Depth
  <2>1. k # i
    BY <1>4
  <2>2. QED
    BY <1>4, <2>1, RedactionAssumption
<1>6. k - 1 \notin T
  BY <1>3, <1>5, RedactionAssumption
<1>7. Values[i] \subseteq Values[k - 1]
  BY <1>5, <1>6
<1>8. Values[k - 1] \subseteq Values[k]
  BY <1>5, ValuesByDepth DEF Deeper
<1>9. QED
  BY <1>4, <1>7, <1>8

\* A value is a scalar, or it holds values of lower depth.
IsScalar(v) == Held(v) \in Leaf /\ v = Scalar(Held(v))
IsObject(v, i) == \E ks \in KeySets(Width[i]) : \E ms \in [ks -> Values[i - 1]] : v = Object(ms)
IsArray(v, i) == \E m \in 0..Width[i] : \E xs \in [1..m -> Values[i - 1]] : v = Array(xs)

LEMMA ObjectsAre ==
  ASSUME NEW V, NEW n, NEW v
  PROVE  v \in Objects(V, n) <=> \E ks \in KeySets(n) : \E ms \in [ks -> V] : v = Object(ms)
<1> DEFINE of(ks) == {Object(ms) : ms \in [ks -> V]}
<1>1. v \in Objects(V, n) <=> \E ks \in KeySets(n) : v \in of(ks)
  <2>1. Objects(V, n) = UNION {of(ks) : ks \in KeySets(n)}
    BY DEF Objects
  <2> HIDE DEF of
  <2>2. QED BY <2>1
<1>2. \A ks : v \in of(ks) <=> \E ms \in [ks -> V] : v = Object(ms)
  OBVIOUS
<1> HIDE DEF of
<1>3. QED
  BY <1>1, <1>2

LEMMA ArraysAre ==
  ASSUME NEW V, NEW n \in Nat, NEW v
  PROVE  v \in Arrays(V, n) <=> \E m \in 0..n : \E xs \in [1..m -> V] : v = Array(xs)
<1>1. v \in Arrays(V, n) <=> \E xs \in BoundedSeq(V, n) : v = Array(xs)
  BY DEF Arrays
<1>2. \A xs : xs \in BoundedSeq(V, n) <=> \E m \in 0..n : xs \in [1..m -> V]
  BY DEF BoundedSeq, SeqOf
<1>3. QED
  BY <1>1, <1>2

LEMMA ValueShape ==
  ASSUME NEW n \in 0..Depth, NEW v \in Values[n]
  PROVE  IsScalar(v) \/ \E i \in 1..n : IsObject(v, i) \/ IsArray(v, i)
<1> DEFINE T == {k \in 0..n : v \in Values[k]}
<1>1. T \subseteq Nat /\ n \in T
  BY RedactionAssumption
<1>2. PICK k \in T : \A l \in T : k <= l
  BY <1>1, LeastNatural
<1>3. CASE k = 0
  BY <1>2, <1>3, ValuesByDepth DEF IsScalar, Scalar, Held
<1>4. CASE k # 0
  <2>1. k \in 1..n /\ k \in 1..Depth /\ k - 1 \in 0..n
    BY <1>4, RedactionAssumption
  <2>2. k - 1 \notin T
    BY <1>2, <2>1
  <2>3. v \in Values[k] /\ v \notin Values[k - 1]
    BY <2>1, <2>2
  <2>4. v \in Objects(Values[k - 1], Width[k]) \/ v \in Arrays(Values[k - 1], Width[k])
    BY <2>1, <2>3, ValuesByDepth DEF Deeper
  <2>5. IsObject(v, k) \/ IsArray(v, k)
    <3>1. Width[k] \in Nat
      BY <2>1, RedactionAssumption
    <3>2. v \in Objects(Values[k - 1], Width[k]) => IsObject(v, k)
      BY ObjectsAre DEF IsObject
    <3>3. v \in Arrays(Values[k - 1], Width[k]) => IsArray(v, k)
      BY <3>1, ArraysAre DEF IsArray
    <3>4. QED
      BY <2>4, <3>2, <3>3
  <2>6. QED
    BY <2>1, <2>5
<1>5. QED
  BY <1>3, <1>4

LEMMA HeldAreShallower ==
  ASSUME NEW n \in 0..Depth, NEW v \in Values[n], Kind(v) # "scalar", NEW k \in DOMAIN Held(v)
  PROVE  n - 1 \in 0..Depth /\ Held(v)[k] \in Values[n - 1]
<1>1. ~IsScalar(v)
  BY DEF IsScalar, Scalar, Kind
<1>2. PICK i \in 1..n : IsObject(v, i) \/ IsArray(v, i)
  BY <1>1, ValueShape
<1>3. Held(v)[k] \in Values[i - 1]
  BY <1>2 DEF IsObject, IsArray, Object, Array, Held
<1>4. n - 1 \in 0..Depth /\ i - 1 \in 0..Depth /\ i - 1 <= n - 1
  BY RedactionAssumption
<1>5. QED
  BY <1>3, <1>4, ValuesGrow

LEMMA DeepestAreAll == Depth \in 0..Depth /\ \A n \in 0..Depth : Values[n] \subseteq Value
<1>1. Depth \in 0..Depth /\ \A n \in 0..Depth : n <= Depth
  BY RedactionAssumption
<1>2. QED
  BY <1>1, ValuesGrow DEF Value

-----------------------------------------------------------------------------
(* sanitize_audit_value *)

\* Its body, with f for the recursive calls.
Redacted(f, value) ==
  CASE Kind(value) = "object" ->
         Object([k \in {key \in DOMAIN Held(value) : ~IsSensitive(key)} |-> f[Held(value)[k]]])
    [] Kind(value) = "array" ->
         Array([i \in DOMAIN Held(value) |-> f[Held(value)[i]]])
    [] OTHER -> value

Redacts(f, n) ==
  /\ DOMAIN f = Value
  /\ \A v \in Values[n] : f[v] = Redacted(f, v)

LEMMA SameRedacted ==
  ASSUME NEW v, NEW f, NEW g,
         Kind(v) # "scalar" => \A k \in DOMAIN Held(v) : f[Held(v)[k]] = g[Held(v)[k]]
  PROVE  Redacted(f, v) = Redacted(g, v)
<1>1. CASE Kind(v) = "object"
  <2>1. [k \in {key \in DOMAIN Held(v) : ~IsSensitive(key)} |-> f[Held(v)[k]]]
          = [k \in {key \in DOMAIN Held(v) : ~IsSensitive(key)} |-> g[Held(v)[k]]]
    BY <1>1
  <2>2. QED
    BY <1>1, <2>1 DEF Redacted
<1>2. CASE Kind(v) = "array"
  <2>1. [k \in DOMAIN Held(v) |-> f[Held(v)[k]]] = [k \in DOMAIN Held(v) |-> g[Held(v)[k]]]
    BY <1>2
  <2>2. QED
    BY <1>2, <2>1 DEF Redacted
<1>3. CASE Kind(v) # "object" /\ Kind(v) # "array"
  BY <1>3 DEF Redacted
<1>4. QED
  BY <1>1, <1>2, <1>3

\* The recursion has a solution for the values of each depth.
LEMMA RedactionExists ==
  ASSUME NEW n \in 0..Depth
  PROVE  \E f : Redacts(f, n)
<1> DEFINE T == {m \in 0..Depth : ~ \E f : Redacts(f, m)}
<1>1. SUFFICES ASSUME T # {} PROVE FALSE
  OBVIOUS
<1> T \subseteq Nat
  BY RedactionAssumption
<1>2. PICK m \in T : \A k \in T : m <= k
  BY <1>1, LeastNatural
<1>3. m \in 0..Depth /\ ~ \E f : Redacts(f, m)
  OBVIOUS
<1>4. \E f : m > 0 => Redacts(f, m - 1)
  <2>1. CASE m = 0
    BY <2>1
  <2>2. CASE m # 0
    <3>1. m - 1 \in 0..Depth /\ m - 1 \notin T
      BY <1>2, <1>3, <2>2, RedactionAssumption
    <3>2. QED
      BY <3>1
  <2>3. QED
    BY <2>1, <2>2
<1>5. PICK f : m > 0 => Redacts(f, m - 1)
  BY <1>4
<1> DEFINE g == [v \in Value |-> Redacted(f, v)]
<1>6. ASSUME NEW v \in Values[m] PROVE g[v] = Redacted(g, v)
  <2>1. v \in Value
    BY <1>3, DeepestAreAll
  <2>2. ASSUME Kind(v) # "scalar", NEW k \in DOMAIN Held(v)
        PROVE  f[Held(v)[k]] = g[Held(v)[k]]
    <3>1. m - 1 \in 0..Depth /\ Held(v)[k] \in Values[m - 1]
      BY <1>3, <2>2, HeldAreShallower
    <3>2. m > 0 /\ Held(v)[k] \in Value
      BY <1>3, <3>1, DeepestAreAll, RedactionAssumption
    <3>3. f[Held(v)[k]] = Redacted(f, Held(v)[k])
      BY <1>5, <3>1, <3>2 DEF Redacts
    <3>4. QED
      BY <3>2, <3>3
  <2>3. Redacted(f, v) = Redacted(g, v)
    <3> HIDE DEF g
    <3>1. QED BY <2>2, SameRedacted
  <2>4. QED
    BY <2>1, <2>3
<1>7. Redacts(g, m)
  BY <1>6 DEF Redacts
<1>8. QED
  BY <1>3, <1>7

LEMMA SanitizeIsRedacted == \A v \in Value : Sanitize[v] = Redacted(Sanitize, v)
<1> DEFINE step(f) == [value \in Value |->
             CASE Kind(value) = "object" ->
                    Object([k \in {key \in DOMAIN Held(value) : ~IsSensitive(key)} |->
                              f[Held(value)[k]]])
               [] Kind(value) = "array" ->
                    Array([i \in DOMAIN Held(value) |-> f[Held(value)[i]]])
               [] OTHER -> value]
<1>1. PICK f : Redacts(f, Depth)
  BY RedactionExists, DeepestAreAll
<1> DEFINE g == [v \in Value |-> f[v]]
<1>2. ASSUME NEW v \in Value PROVE f[v] = Redacted(g, v)
  <2>1. f[v] = Redacted(f, v) /\ v \in Values[Depth]
    BY <1>1 DEF Redacts, Value
  <2>2. ASSUME Kind(v) # "scalar", NEW k \in DOMAIN Held(v)
        PROVE  f[Held(v)[k]] = g[Held(v)[k]]
    <3>1. Held(v)[k] \in Value
      BY <2>1, <2>2, HeldAreShallower, DeepestAreAll
    <3>2. QED
      BY <3>1
  <2>3. QED
    <3> HIDE DEF g
    <3>1. QED BY <2>1, <2>2, SameRedacted
<1>3. g = step(g)
  <2>1. \A v \in Value : g[v] = Redacted(g, v)
    BY <1>2
  <2>2. step(g) = [value \in Value |-> Redacted(g, value)]
    BY Zenon DEF Redacted
  <2> HIDE DEF step
  <2>3. QED
    BY <2>1, <2>2
<1>4. Sanitize = step(Sanitize)
  BY <1>3 DEF Sanitize
<1>5. step(Sanitize) = [value \in Value |-> Redacted(Sanitize, value)]
  BY Zenon DEF Redacted
<1>6. QED
  <2> HIDE DEF step
  <2>1. QED BY <1>4, <1>5

-----------------------------------------------------------------------------
(* The nodes of a value *)

\* The body of Nodes, with f for the recursive calls.
Below(f, v, k) == {Under(<<Kind(v), k>>, node) : node \in f[Held(v)[k]]}
Spread(f, v) ==
  IF Kind(v) = "scalar" THEN {Node(<<>>, "scalar", Held(v))}
  ELSE {Node(<<>>, Kind(v), Blank)} \cup UNION {Below(f, v, k) : k \in DOMAIN Held(v)}

Spreads(f, n) ==
  /\ DOMAIN f = Value
  /\ \A v \in Values[n] : f[v] = Spread(f, v)

LEMMA SameSpread ==
  ASSUME NEW v, NEW f, NEW g,
         Kind(v) # "scalar" => \A k \in DOMAIN Held(v) : f[Held(v)[k]] = g[Held(v)[k]]
  PROVE  Spread(f, v) = Spread(g, v)
<1>1. CASE Kind(v) = "scalar"
  BY <1>1 DEF Spread
<1>2. CASE Kind(v) # "scalar"
  <2>1. \A k \in DOMAIN Held(v) : Below(f, v, k) = Below(g, v, k)
    BY <1>2 DEF Below
  <2>2. {Below(f, v, k) : k \in DOMAIN Held(v)} = {Below(g, v, k) : k \in DOMAIN Held(v)}
    BY <2>1
  <2>3. QED
    BY <1>2, <2>2 DEF Spread
<1>3. QED
  BY <1>1, <1>2

LEMMA SpreadExists ==
  ASSUME NEW n \in 0..Depth
  PROVE  \E f : Spreads(f, n)
<1> DEFINE T == {m \in 0..Depth : ~ \E f : Spreads(f, m)}
<1>1. SUFFICES ASSUME T # {} PROVE FALSE
  OBVIOUS
<1> T \subseteq Nat
  BY RedactionAssumption
<1>2. PICK m \in T : \A k \in T : m <= k
  BY <1>1, LeastNatural
<1>3. m \in 0..Depth /\ ~ \E f : Spreads(f, m)
  OBVIOUS
<1>4. \E f : m > 0 => Spreads(f, m - 1)
  <2>1. CASE m = 0
    BY <2>1
  <2>2. CASE m # 0
    <3>1. m - 1 \in 0..Depth /\ m - 1 \notin T
      BY <1>2, <1>3, <2>2, RedactionAssumption
    <3>2. QED
      BY <3>1
  <2>3. QED
    BY <2>1, <2>2
<1>5. PICK f : m > 0 => Spreads(f, m - 1)
  BY <1>4
<1> DEFINE g == [v \in Value |-> Spread(f, v)]
<1>6. ASSUME NEW v \in Values[m] PROVE g[v] = Spread(g, v)
  <2>1. v \in Value
    BY <1>3, DeepestAreAll
  <2>2. ASSUME Kind(v) # "scalar", NEW k \in DOMAIN Held(v)
        PROVE  f[Held(v)[k]] = g[Held(v)[k]]
    <3>1. m - 1 \in 0..Depth /\ Held(v)[k] \in Values[m - 1]
      BY <1>3, <2>2, HeldAreShallower
    <3>2. m > 0 /\ Held(v)[k] \in Value
      BY <1>3, <3>1, DeepestAreAll, RedactionAssumption
    <3>3. f[Held(v)[k]] = Spread(f, Held(v)[k])
      BY <1>5, <3>1, <3>2 DEF Spreads
    <3>4. QED
      BY <3>2, <3>3
  <2>3. Spread(f, v) = Spread(g, v)
    <3> HIDE DEF g
    <3>1. QED BY <2>2, SameSpread
  <2>4. QED
    BY <2>1, <2>3
<1>7. Spreads(g, m)
  BY <1>6 DEF Spreads
<1>8. QED
  BY <1>3, <1>7

LEMMA NodesAreSpread == \A v \in Value : Nodes[v] = Spread(Nodes, v)
<1> DEFINE step(f) == [v \in Value |->
             IF Kind(v) = "scalar" THEN {Node(<<>>, "scalar", Held(v))}
             ELSE {Node(<<>>, Kind(v), Blank)}
                    \cup UNION {{Under(<<Kind(v), k>>, node) : node \in f[Held(v)[k]]} :
                                  k \in DOMAIN Held(v)}]
<1>1. PICK f : Spreads(f, Depth)
  BY SpreadExists, DeepestAreAll
<1> DEFINE g == [v \in Value |-> f[v]]
<1>2. ASSUME NEW v \in Value PROVE f[v] = Spread(g, v)
  <2>1. f[v] = Spread(f, v) /\ v \in Values[Depth]
    BY <1>1 DEF Spreads, Value
  <2>2. ASSUME Kind(v) # "scalar", NEW k \in DOMAIN Held(v)
        PROVE  f[Held(v)[k]] = g[Held(v)[k]]
    <3>1. Held(v)[k] \in Value
      BY <2>1, <2>2, HeldAreShallower, DeepestAreAll
    <3>2. QED
      BY <3>1
  <2>3. QED
    <3> HIDE DEF g
    <3>1. QED BY <2>1, <2>2, SameSpread
<1>3. g = step(g)
  <2>1. \A v \in Value : g[v] = Spread(g, v)
    BY <1>2
  <2>2. step(g) = [v \in Value |-> Spread(g, v)]
    BY Zenon DEF Spread, Below
  <2> HIDE DEF step
  <2>3. QED
    BY <2>1, <2>2
<1>4. Nodes = step(Nodes)
  BY <1>3 DEF Nodes
<1>5. step(Nodes) = [v \in Value |-> Spread(Nodes, v)]
  BY Zenon DEF Spread, Below
<1>6. QED
  <2> HIDE DEF step
  <2>1. QED BY <1>4, <1>5

-----------------------------------------------------------------------------
(* What is concealed *)

Step == ({"object"} \X Key) \cup ({"array"} \X Nat)
IsNode(node) == \E path \in Seq(Step) : \E kind, leaf : node = Node(path, kind, leaf)

\* A node below a step is concealed by the step, or in the value that the step
\* leads to.
LEMMA ConcealedUnder ==
  ASSUME NEW step \in Step, NEW node, IsNode(node)
  PROVE  /\ IsNode(Under(step, node))
         /\ Concealed(Under(step, node).path)
              <=> (step[1] = "object" /\ step[2][1] \in Secret) \/ Concealed(node.path)
<1>0. PICK path \in Seq(Step) : \E kind, leaf : node = Node(path, kind, leaf)
  BY DEF IsNode
<1>1. PICK kind, leaf : node = Node(path, kind, leaf)
  BY <1>0
<1> DEFINE longer == <<step>> \o path
<1>2. Under(step, node) = Node(longer, kind, leaf)
  <2>1. node.path = path
    BY <1>1 DEF Node
  <2>2. Under(step, node) = [node EXCEPT !.path = longer]
    BY <2>1 DEF Under
  <2> HIDE DEF longer
  <2>3. [Node(path, kind, leaf) EXCEPT !.path = longer] = Node(longer, kind, leaf)
    BY DEF Node
  <2>4. QED
    BY <1>1, <2>2, <2>3
<1>3. longer \in Seq(Step) /\ Len(longer) = Len(path) + 1 /\ longer[1] = step
      /\ \A i \in 1..Len(path) : longer[i + 1] = path[i]
  OBVIOUS
<1> HIDE DEF longer
<1>4. IsNode(Under(step, node))
  BY <1>2, <1>3 DEF IsNode
<1> DEFINE isSecret(s) == s[1] = "object" /\ s[2][1] \in Secret
<1>5. Concealed(longer) <=> \E i \in 1..(Len(path) + 1) : isSecret(longer[i])
  BY <1>3 DEF Concealed
<1>6. Concealed(path) <=> \E i \in 1..Len(path) : isSecret(path[i])
  BY DEF Concealed
<1> HIDE DEF isSecret
<1>7. Concealed(longer) <=> isSecret(step) \/ Concealed(path)
  <2>1. Len(path) \in Nat
    OBVIOUS
  <2>2. ASSUME NEW i \in 1..(Len(path) + 1), isSecret(longer[i])
        PROVE  isSecret(step) \/ Concealed(path)
    <3>1. CASE i = 1
      BY <1>3, <2>2, <3>1
    <3>2. CASE i # 1
      <4>1. i - 1 \in 1..Len(path) /\ longer[(i - 1) + 1] = path[i - 1]
        BY <1>3, <2>1, <3>2
      <4>2. QED
        BY <1>6, <2>2, <4>1
    <3>3. QED
      BY <3>1, <3>2
  <2>3. ASSUME isSecret(step) \/ Concealed(path)
        PROVE  \E i \in 1..(Len(path) + 1) : isSecret(longer[i])
    <3>1. CASE isSecret(step)
      BY <1>3, <2>1, <3>1
    <3>2. CASE Concealed(path)
      <4>1. PICK i \in 1..Len(path) : isSecret(path[i])
        BY <1>6, <3>2
      <4>2. i + 1 \in 1..(Len(path) + 1) /\ longer[i + 1] = path[i]
        BY <1>3, <2>1
      <4>3. QED
        BY <4>1, <4>2
    <3>3. QED
      BY <2>3, <3>1, <3>2
  <2>4. QED
    BY <1>5, <2>2, <2>3
<1>8. Under(step, node).path = longer /\ node.path = path
  BY <1>1, <1>2 DEF Node
<1>9. QED
  BY <1>4, <1>7, <1>8 DEF isSecret

LEMMA TopIsShown ==
  ASSUME NEW kind, NEW leaf
  PROVE  IsNode(Node(<<>>, kind, leaf)) /\ ~Concealed(Node(<<>>, kind, leaf).path)
<1>1. <<>> \in Seq(Step) /\ DOMAIN <<>> = {}
  OBVIOUS
<1>2. QED
  BY <1>1 DEF IsNode, Node, Concealed

\* The nodes of v are nodes, those that its response keeps are the ones that no
\* sensitive key leads to, and the response is a value again.
Hides(v, n) ==
  /\ Sanitize[v] \in Values[n]
  /\ \A node \in Nodes[v] : IsNode(node)
  /\ Nodes[Sanitize[v]] = {node \in Nodes[v] : ~Concealed(node.path)}

LEMMA HidesScalar ==
  ASSUME NEW n \in 0..Depth, NEW v \in Values[n], IsScalar(v)
  PROVE  Hides(v, n)
<1>1. v \in Value /\ Kind(v) = "scalar"
  BY DeepestAreAll DEF IsScalar, Scalar, Kind
<1>2. Sanitize[v] = v
  BY <1>1, SanitizeIsRedacted, Zenon DEF Redacted
<1>3. Nodes[v] = {Node(<<>>, "scalar", Held(v))}
  BY <1>1, NodesAreSpread DEF Spread
<1>4. QED
  BY <1>2, <1>3, TopIsShown DEF Hides

\* The nodes of a response: the top, and those of the members or elements it keeps.
\* held: the keys or positions, kept: those that lead to a part of the response.
LEMMA HidesParts ==
  ASSUME NEW n \in 1..Depth, NEW v \in Values[n], NEW kind \in {"object", "array"},
         Kind(v) = kind, Sanitize[v] \in Values[n], Kind(Sanitize[v]) = kind,
         \A k \in DOMAIN Held(v) : <<kind, k>> \in Step,
         \A k \in DOMAIN Held(v) : Hides(Held(v)[k], n - 1),
         DOMAIN Held(Sanitize[v])
           = {k \in DOMAIN Held(v) : ~(kind = "object" /\ k[1] \in Secret)},
         \A k \in DOMAIN Held(Sanitize[v]) : Held(Sanitize[v])[k] = Sanitize[Held(v)[k]]
  PROVE  Hides(v, n)
<1> DEFINE top == Node(<<>>, kind, Blank)
           below(w, k) == {Under(<<kind, k>>, node) : node \in Nodes[Held(w)[k]]}
           shows(k) == ~(kind = "object" /\ k[1] \in Secret)
<1>1. v \in Value /\ Sanitize[v] \in Value /\ kind # "scalar"
  <2>1. n \in 0..Depth
    BY RedactionAssumption
  <2>2. QED
    BY <2>1, DeepestAreAll
<1>2. \A w \in {v, Sanitize[v]} : Nodes[w] = {top} \cup UNION {below(w, k) : k \in DOMAIN Held(w)}
  <2>1. ASSUME NEW w \in {v, Sanitize[v]}
        PROVE  Nodes[w] = {top} \cup UNION {below(w, k) : k \in DOMAIN Held(w)}
    <3>1. w \in Value /\ Kind(w) = kind
      BY <1>1
    <3>2. Nodes[w] = {top} \cup UNION {Below(Nodes, w, k) : k \in DOMAIN Held(w)}
      BY <1>1, <3>1, NodesAreSpread DEF Spread
    <3>3. \A k : Below(Nodes, w, k) = below(w, k)
      BY <3>1 DEF Below
    <3> HIDE DEF top, below
    <3>4. QED
      BY <3>2, <3>3
  <2>2. QED
    BY <2>1
<1>3. \A w \in {v, Sanitize[v]} : \A node :
        node \in Nodes[w] <=> node = top \/ \E k \in DOMAIN Held(w) : node \in below(w, k)
  <2> HIDE DEF top, below
  <2>1. QED BY <1>2
<1>4. IsNode(top) /\ ~Concealed(top.path)
  BY TopIsShown
\* What lies below a key: nodes, hidden if the key is, and otherwise like the
\* member it leads to.
<1>5. ASSUME NEW k \in DOMAIN Held(v), NEW node \in Nodes[Held(v)[k]]
      PROVE  /\ IsNode(Under(<<kind, k>>, node))
             /\ Concealed(Under(<<kind, k>>, node).path) <=> ~shows(k) \/ Concealed(node.path)
  <2>1. IsNode(node) /\ <<kind, k>> \in Step
    BY <1>5 DEF Hides
  <2>2. <<kind, k>>[1] = kind /\ <<kind, k>>[2] = k
    OBVIOUS
  <2>3. QED
    BY <2>1, <2>2, ConcealedUnder
<1>6. ASSUME NEW k \in DOMAIN Held(v), shows(k)
      PROVE  below(Sanitize[v], k) = {node \in below(v, k) : ~Concealed(node.path)}
  <2>1. Nodes[Held(Sanitize[v])[k]] = {node \in Nodes[Held(v)[k]] : ~Concealed(node.path)}
    BY <1>6 DEF Hides
  <2>2. QED
    BY <1>5, <1>6, <2>1
<1>7. ASSUME NEW k \in DOMAIN Held(v), ~shows(k)
      PROVE  \A node \in below(v, k) : Concealed(node.path)
  BY <1>5, <1>7
<1>8. \A k : k \in DOMAIN Held(Sanitize[v]) <=> k \in DOMAIN Held(v) /\ shows(k)
  OBVIOUS
<1>9. \A node \in Nodes[v] : IsNode(node)
  <2>1. \A k \in DOMAIN Held(v) : \A node \in below(v, k) : IsNode(node)
    BY <1>5
  <2> HIDE DEF top, below
  <2>2. QED
    BY <1>3, <1>4, <2>1
<1>10. \A node : node \in Nodes[Sanitize[v]] <=> node \in Nodes[v] /\ ~Concealed(node.path)
  <2> HIDE DEF top, below, shows
  <2>1. QED
    BY <1>3, <1>4, <1>6, <1>7, <1>8
<1>11. QED
  BY <1>9, <1>10 DEF Hides

LEMMA HidesObject ==
  ASSUME NEW n \in 1..Depth, NEW v \in Values[n], NEW i \in 1..n, IsObject(v, i),
         \A k \in DOMAIN Held(v) : Hides(Held(v)[k], i - 1)
  PROVE  Hides(v, n)
<1>1. PICK ks \in KeySets(Width[i]) : \E ms \in [ks -> Values[i - 1]] : v = Object(ms)
  BY DEF IsObject
<1>2. PICK ms \in [ks -> Values[i - 1]] : v = Object(ms)
  BY <1>1
<1> DEFINE kept == {key \in ks : ~IsSensitive(key)}
           left == [k \in kept |-> Sanitize[ms[k]]]
<1>3. Kind(v) = "object" /\ Held(v) = ms /\ DOMAIN ms = ks
  BY <1>2 DEF Object, Kind, Held
<1>4. i \in 1..Depth /\ i \in 0..Depth /\ i - 1 \in 0..Depth /\ n \in 0..Depth /\ Width[i] \in Nat
  BY RedactionAssumption
<1>5. v \in Value
  BY <1>4, DeepestAreAll
<1>6. Sanitize[v] = Object(left)
  <2>1. Sanitize[v] = Redacted(Sanitize, v)
    BY <1>5, SanitizeIsRedacted
  <2>2. QED
    BY <1>3, <2>1, Zenon DEF Redacted
<1>7. left \in [kept -> Values[i - 1]]
  BY <1>3 DEF Hides
<1>8. kept \in KeySets(Width[i])
  <2>1. ks \subseteq Key /\ IsFiniteSet(ks) /\ Cardinality(ks) <= Width[i]
    BY DEF KeySets
  <2>2. IsFiniteSet(kept) /\ Cardinality(kept) <= Cardinality(ks)
    BY <2>1, FS_Subset
  <2>3. Cardinality(kept) \in Nat /\ Cardinality(ks) \in Nat
    BY <2>1, <2>2, FS_CardinalityType
  <2>4. QED
    BY <1>4, <2>1, <2>2, <2>3 DEF KeySets
<1>9. Sanitize[v] \in Values[i]
  <2>1. Object(left) \in Objects(Values[i - 1], Width[i])
    BY <1>7, <1>8, ObjectsAre
  <2>2. QED
    BY <1>4, <1>6, <2>1, ValuesByDepth DEF Deeper
<1>10. Hides(v, i)
  <2>1. v \in Values[i]
    <3>1. v \in Objects(Values[i - 1], Width[i])
      BY <1>2, ObjectsAre
    <3>2. QED
      BY <1>4, <3>1, ValuesByDepth DEF Deeper
  <2>2. \A k \in DOMAIN Held(v) : <<"object", k>> \in Step
    BY <1>3 DEF KeySets, Step
  <2>3. Kind(Sanitize[v]) = "object" /\ Held(Sanitize[v]) = left
    BY <1>6 DEF Object, Kind, Held
  <2>4. DOMAIN left = {k \in DOMAIN Held(v) : ~("object" = "object" /\ k[1] \in Secret)}
    BY <1>3 DEF IsSensitive
  <2>5. \A k \in DOMAIN left : left[k] = Sanitize[Held(v)[k]]
    BY <1>3
  <2> HIDE DEF left
  <2>6. QED
    BY <1>3, <1>4, <1>9, <2>1, <2>2, <2>3, <2>4, <2>5, HidesParts
<1>11. Values[i] \subseteq Values[n]
  BY <1>4, ValuesGrow
<1>12. QED
  BY <1>10, <1>11 DEF Hides

LEMMA HidesArray ==
  ASSUME NEW n \in 1..Depth, NEW v \in Values[n], NEW i \in 1..n, IsArray(v, i),
         \A k \in DOMAIN Held(v) : Hides(Held(v)[k], i - 1)
  PROVE  Hides(v, n)
<1>1. PICK m \in 0..Width[i] : \E xs \in [1..m -> Values[i - 1]] : v = Array(xs)
  BY DEF IsArray
<1>2. PICK xs \in [1..m -> Values[i - 1]] : v = Array(xs)
  BY <1>1
<1> DEFINE left == [k \in 1..m |-> Sanitize[xs[k]]]
<1>3. Kind(v) = "array" /\ Held(v) = xs /\ DOMAIN xs = 1..m
  BY <1>2 DEF Array, Kind, Held
<1>4. i \in 1..Depth /\ i \in 0..Depth /\ i - 1 \in 0..Depth /\ n \in 0..Depth
      /\ Width[i] \in Nat /\ m \in Nat
  BY RedactionAssumption
<1>5. v \in Value
  BY <1>4, DeepestAreAll
<1>6. Sanitize[v] = Array(left)
  <2>1. Sanitize[v] = Redacted(Sanitize, v)
    BY <1>5, SanitizeIsRedacted
  <2>2. "array" # "object"
    OBVIOUS
  <2>3. QED
    BY <1>3, <2>1, <2>2 DEF Redacted
<1>7. left \in [1..m -> Values[i - 1]]
  BY <1>3 DEF Hides
<1>9. Sanitize[v] \in Values[i]
  <2>1. Array(left) \in Arrays(Values[i - 1], Width[i])
    BY <1>4, <1>7, ArraysAre
  <2>2. QED
    BY <1>4, <1>6, <2>1, ValuesByDepth DEF Deeper
<1>10. Hides(v, i)
  <2>1. v \in Values[i]
    <3>1. v \in Arrays(Values[i - 1], Width[i])
      BY <1>2, <1>4, ArraysAre
    <3>2. QED
      BY <1>4, <3>1, ValuesByDepth DEF Deeper
  <2>2. \A k \in DOMAIN Held(v) : <<"array", k>> \in Step
    BY <1>3, <1>4 DEF Step
  <2>3. Kind(Sanitize[v]) = "array" /\ Held(Sanitize[v]) = left
    BY <1>6 DEF Array, Kind, Held
  <2>4. DOMAIN left = {k \in DOMAIN Held(v) : ~("array" = "object" /\ k[1] \in Secret)}
    BY <1>3
  <2>5. \A k \in DOMAIN left : left[k] = Sanitize[Held(v)[k]]
    BY <1>3
  <2> HIDE DEF left
  <2>6. QED
    BY <1>3, <1>4, <1>9, <2>1, <2>2, <2>3, <2>4, <2>5, HidesParts
<1>11. Values[i] \subseteq Values[n]
  BY <1>4, ValuesGrow
<1>12. QED
  BY <1>10, <1>11 DEF Hides

\* Induction over the depth.
LEMMA ResponsesHide ==
  ASSUME NEW n \in 0..Depth, NEW v \in Values[n]
  PROVE  Hides(v, n)
<1> DEFINE T == {m \in 0..Depth : \E w \in Values[m] : ~Hides(w, m)}
<1>1. SUFFICES ASSUME T # {} PROVE FALSE
  OBVIOUS
<1> T \subseteq Nat
  BY RedactionAssumption
<1>2. PICK m \in T : \A k \in T : m <= k
  BY <1>1, LeastNatural
<1>3. m \in 0..Depth /\ \E w \in Values[m] : ~Hides(w, m)
  OBVIOUS
<1>4. PICK w \in Values[m] : ~Hides(w, m)
  BY <1>3
<1>5. ~IsScalar(w)
  BY <1>3, <1>4, HidesScalar
<1>6. PICK i \in 1..m : IsObject(w, i) \/ IsArray(w, i)
  BY <1>3, <1>5, ValueShape
<1>7. m \in 1..Depth /\ i - 1 \in 0..Depth /\ i - 1 < m
  BY <1>3, RedactionAssumption
<1>8. i - 1 \notin T
  BY <1>2, <1>7, RedactionAssumption
<1>9. \A k \in DOMAIN Held(w) : Held(w)[k] \in Values[i - 1]
  BY <1>6 DEF IsObject, IsArray, Object, Array, Held
<1>10. \A k \in DOMAIN Held(w) : Hides(Held(w)[k], i - 1)
  BY <1>7, <1>8, <1>9
<1>11. QED
  BY <1>4, <1>6, <1>7, <1>10, HidesObject, HidesArray

RedactionInvariant ==
  /\ stored \in Value
  /\ shown = Sanitize[stored]

LEMMA RedactionStep ==
  ASSUME RedactionInvariant, [ShowEntry]_redactionVars
  PROVE  RedactionInvariant'
<1>1. CASE ShowEntry
  BY <1>1 DEF ShowEntry, RedactionInvariant, AuditValue
<1>2. CASE UNCHANGED redactionVars
  BY <1>2 DEF redactionVars, RedactionInvariant
<1>3. QED
  BY <1>1, <1>2

LEMMA RedactionStart == RedactionInit => RedactionInvariant
<1>1. Scalar(Blank) \in Values[0] /\ 0 \in 0..Depth
  BY ValuesByDepth, RedactionAssumption
<1>2. Scalar(Blank) \in Value /\ Kind(Scalar(Blank)) = "scalar"
  BY <1>1, DeepestAreAll DEF Scalar, Kind
<1>3. Sanitize[Scalar(Blank)] = Scalar(Blank)
  BY <1>2, SanitizeIsRedacted, Zenon DEF Redacted
<1>4. QED
  BY <1>2, <1>3 DEF RedactionInit, RedactionInvariant

\* What the audit page shows of an entry is the entry without the nodes below a
\* sensitive key, for any keys, secrets and depth of the values: nothing secret is
\* shown and nothing else is lost (sanitize_audit_value, is_sensitive_key).
THEOREM SecretsStayConcealed == RedactionSpec => []OnlySecretsAreConcealed
<1>1. RedactionInvariant => OnlySecretsAreConcealed
  <2>1. SUFFICES ASSUME RedactionInvariant PROVE OnlySecretsAreConcealed
    OBVIOUS
  <2>2. Hides(stored, Depth)
    BY <2>1, ResponsesHide, DeepestAreAll DEF RedactionInvariant, Value
  <2>3. QED
    BY <2>1, <2>2 DEF Hides, RedactionInvariant, OnlySecretsAreConcealed
<1>2. QED
  BY <1>1, RedactionStart, RedactionStep, PTL DEF RedactionSpec

-----------------------------------------------------------------------------
(* The parts beside each other *)

\* A behaviour of the parts beside each other is one of each part: the others'
\* steps leave it alone.
THEOREM AnswersImplementParts ==
  AnswersSpec => /\ ValidationSpec
                 /\ LeaderboardSpec
                 /\ ListingSpec
                 /\ RedactionSpec
                 /\ ConfigSpec
<1>1. AnswersInit => /\ ValidationInit
                     /\ LeaderboardInit
                     /\ ListingInit
                     /\ RedactionInit
                     /\ ConfigInit
  BY DEF AnswersInit
<1>2. [AnswersNext]_answersVars => /\ [ValidateSubmission]_validationVars
                                   /\ [LeaderboardNext]_leaderboardVars
                                   /\ [ListingNext]_listingVars
                                   /\ [ShowEntry]_redactionVars
                                   /\ [ConfigNext]_configVars
  <2>1. CASE AnswersNext
    BY <2>1, Zenon DEF AnswersNext
  <2>2. CASE UNCHANGED answersVars
    BY <2>2 DEF answersVars
  <2>3. QED
    BY <2>1, <2>2
<1>3. QED
  BY <1>1, <1>2, PTL
     DEF AnswersSpec, ValidationSpec, LeaderboardSpec, ListingSpec, RedactionSpec, ConfigSpec

\* Everything the run of the parts checks holds of the specification it checks, for
\* any players, places, limits, entries, values and variables.
THEOREM AnswersStayRight ==
  AnswersSpec =>
    /\ [](AcceptedIsRanking /\ AcceptedStaysReplayable)
    /\ [](OrderIsTotal /\ RanksAreReference)
    /\ WinnersKeepBystandersBehind
    /\ [](CausesAreListedBelow /\ PagesHaveNoGaps)
    /\ []OnlySecretsAreConcealed
    /\ ShadowedNamesDoNotMatter
BY AnswersImplementParts, OnlyRankingsAccepted, AcceptedStaysRateable, ComparisonIsTotal,
   RanksStayReference, WinsCostNothing, CausesStayBelow, PagesStayWhole,
   SecretsStayConcealed, ShadowedStayHarmless, PTL

-----------------------------------------------------------------------------
(* Start-up *)

At == Starting \cup {"down", "serving", "draining"}

ProcRecord ==
  [at : At, env : Environment \cup {<<>>}, inFlight : SUBSET Request,
   status : {"none", "success", "failure", "killed"}]

TypeOK ==
  /\ applied \in Seq(Nat)
  /\ proc \in [Instance -> ProcRecord]

\* The steps after the migrations.
Migrates == {"seed", "bind", "serving", "draining"}

\* The migrations applied are the first ones, and a process leaves the migrator
\* only when they are at least those it knows.  Rows of _sqlx_migrations stay.
StartInvariant ==
  /\ TypeOK
  /\ \A k \in DOMAIN applied : applied[k] = k
  /\ \A i \in Instance : proc[i].at \in Migrates => Len(applied) >= Known[i]

\* A process that moves on, with the tables it leaves or extends.
LEMMA MovesTo ==
  ASSUME TypeOK, NEW i \in Instance, NEW from \in At, NEW to \in At, Moves(i, from, to)
  PROVE  /\ proc' \in [Instance -> ProcRecord]
         /\ proc[i].at = from /\ proc'[i].at = to
         /\ \A j \in Instance \ {i} : proc'[j] = proc[j]
<1> DEFINE new == [proc[i] EXCEPT !.at = to]
<1>1. proc \in [Instance -> ProcRecord] /\ proc[i] \in ProcRecord
  BY DEF TypeOK
<1>2. new \in ProcRecord /\ new.at = to
  BY <1>1 DEF ProcRecord
<1>3. proc' = [proc EXCEPT ![i] = new]
  BY DEF Moves
<1> HIDE DEF new
<1>4. QED
  BY <1>1, <1>2, <1>3 DEF Moves

\* Everything that leaves the migrations alone and sends nobody past them.
LEMMA ScheduleKept ==
  ASSUME StartInvariant, applied' = applied, proc' \in [Instance -> ProcRecord],
         \A i \in Instance : proc'[i].at \in Migrates => proc[i].at \in Migrates
  PROVE  StartInvariant'
BY DEF StartInvariant, TypeOK

LEMMA EndKeeps ==
  ASSUME StartInvariant, NEW i \in Instance,
         NEW status \in {"success", "failure", "killed"}, Exit(i, status)
  PROVE  StartInvariant'
<1> DEFINE new == [DownProc EXCEPT !.status = status]
<1>1. new \in ProcRecord /\ new.at = "down"
  BY DEF DownProc, ProcRecord, At
<1>2. proc' = [proc EXCEPT ![i] = new] /\ applied' = applied
  BY DEF Exit
<1> HIDE DEF new
<1>3. /\ proc' \in [Instance -> ProcRecord]
      /\ \A j \in Instance : proc'[j].at \in Migrates => proc[j].at \in Migrates
  BY <1>1, <1>2 DEF StartInvariant, TypeOK, Migrates
<1>4. QED
  BY <1>2, <1>3, ScheduleKept

LEMMA RunKeeps ==
  ASSUME StartInvariant, NEW i \in Instance, RunCommand(i)
  PROVE  StartInvariant'
<1>1. PICK e \in Environment :
        proc' = [proc EXCEPT ![i] = [DownProc EXCEPT !.at = "load", !.env = e]]
  BY DEF RunCommand
<1> DEFINE new == [DownProc EXCEPT !.at = "load", !.env = e]
<1>2. new \in ProcRecord /\ new.at = "load"
  BY DEF DownProc, ProcRecord, At, Starting
<1>3. proc' = [proc EXCEPT ![i] = new] /\ applied' = applied
  BY <1>1 DEF RunCommand, database
<1> HIDE DEF new
<1>4. /\ proc' \in [Instance -> ProcRecord]
      /\ \A j \in Instance : proc'[j].at \in Migrates => proc[j].at \in Migrates
  BY <1>2, <1>3 DEF StartInvariant, TypeOK, Migrates
<1>5. QED
  BY <1>3, <1>4, ScheduleKept

LEMMA ServeKeeps ==
  ASSUME StartInvariant, NEW i \in Instance, NEW r \in Request, Accept(i, r) \/ Answer(i, r)
  PROVE  StartInvariant'
<1>1. PICK S \in SUBSET Request : proc' = [proc EXCEPT ![i].inFlight = S]
  <2>1. proc[i].inFlight \subseteq Request
    BY DEF StartInvariant, TypeOK, ProcRecord
  <2>2. \/ proc' = [proc EXCEPT ![i].inFlight = proc[i].inFlight \cup {r}]
        \/ proc' = [proc EXCEPT ![i].inFlight = proc[i].inFlight \ {r}]
    BY DEF Accept, Answer
  <2>3. QED
    BY <2>1, <2>2
<1> DEFINE new == [proc[i] EXCEPT !.inFlight = S]
<1>2. new \in ProcRecord /\ new.at = proc[i].at
  BY DEF StartInvariant, TypeOK, ProcRecord
<1>3. proc' = [proc EXCEPT ![i] = new] /\ applied' = applied
  BY <1>1 DEF Accept, Answer, database
<1> HIDE DEF new
<1>4. /\ proc' \in [Instance -> ProcRecord]
      /\ \A j \in Instance : proc'[j].at \in Migrates => proc[j].at \in Migrates
  BY <1>2, <1>3 DEF StartInvariant, TypeOK
<1>5. QED
  BY <1>3, <1>4, ScheduleKept

LEMMA StepKeeps ==
  ASSUME StartInvariant, NEW i \in Instance,
         \/ LoadConfig(i) \/ Connect(i) \/ LockMigrations(i)
         \/ SeedAdmin(i) \/ Bind(i) \/ Signal(i)
  PROVE  StartInvariant'
<1>1. PICK from \in At, to \in At :
        Moves(i, from, to) /\ (to \in Migrates => from \in Migrates)
  BY DEF LoadConfig, Connect, LockMigrations, SeedAdmin, Bind, Signal, At, Starting, Migrates
<1>2. applied' = applied
  BY DEF LoadConfig, Connect, LockMigrations, SeedAdmin, Bind, Signal, database
<1>3. TypeOK
  BY DEF StartInvariant
<1>4. /\ proc' \in [Instance -> ProcRecord]
      /\ \A j \in Instance : proc'[j].at \in Migrates => proc[j].at \in Migrates
  BY <1>1, <1>3, MovesTo
<1>5. QED
  BY <1>2, <1>4, ScheduleKept

LEMMA MigrateKeeps ==
  ASSUME StartInvariant, NEW i \in Instance, ApplyMigration(i) \/ Migrated(i)
  PROVE  StartInvariant'
<1>1. /\ TypeOK /\ applied \in Seq(Nat) /\ Known[i] \in Nat
      /\ "migrate" \in At /\ "seed" \in At
  BY StartupAssumption DEF StartInvariant, TypeOK, At, Starting
<1>2. CASE ApplyMigration(i)
  <2>1. /\ proc' \in [Instance -> ProcRecord] /\ proc'[i].at = "migrate"
        /\ \A j \in Instance \ {i} : proc'[j] = proc[j]
    BY <1>1, <1>2, MovesTo DEF ApplyMigration
  <2>2. /\ applied' \in Seq(Nat) /\ Len(applied') = Len(applied) + 1
        /\ \A k \in DOMAIN applied' : applied'[k] = k
    <3> DEFINE n == Len(applied) + 1
    <3>1. applied' = Append(applied, n) /\ n \in Nat
      BY <1>1, <1>2 DEF ApplyMigration
    <3>2. /\ Append(applied, n) \in Seq(Nat) /\ Len(Append(applied, n)) = n
          /\ DOMAIN Append(applied, n) = 1..n /\ Append(applied, n)[n] = n
          /\ \A k \in DOMAIN applied : Append(applied, n)[k] = applied[k]
      BY <1>1, <3>1
    <3>3. \A k \in 1..n : k = n \/ k \in DOMAIN applied
      BY <1>1
    <3>4. \A k \in DOMAIN applied : applied[k] = k
      BY DEF StartInvariant
    <3> HIDE DEF n
    <3>5. \A k \in 1..n : Append(applied, n)[k] = k
      BY <3>2, <3>3, <3>4
    <3>6. /\ applied' \in Seq(Nat) /\ Len(applied') = n
          /\ \A k \in DOMAIN applied' : applied'[k] = k
      BY <3>1, <3>2, <3>5
    <3>7. QED
      BY <3>6 DEF n
  <2>3. \A j \in Instance : proc'[j].at \in Migrates => Len(applied') >= Known[j]
    <3>1. Len(applied) \in Nat /\ \A j \in Instance : Known[j] \in Nat
      BY <1>1, StartupAssumption
    <3>2. ASSUME NEW j \in Instance, proc'[j].at \in Migrates
          PROVE  proc[j].at \in Migrates
      BY <2>1, <3>2 DEF Migrates
    <3>3. \A j \in Instance : proc[j].at \in Migrates => Len(applied) >= Known[j]
      BY DEF StartInvariant
    <3>4. QED
      BY <2>2, <3>1, <3>2, <3>3
  <2>4. QED
    BY <2>1, <2>2, <2>3 DEF StartInvariant, TypeOK
<1>3. CASE Migrated(i)
  <2>1. /\ proc' \in [Instance -> ProcRecord]
        /\ \A j \in Instance \ {i} : proc'[j] = proc[j]
    BY <1>1, <1>3, MovesTo DEF Migrated
  <2>2. applied' = applied /\ Len(applied) = Known[i]
    BY <1>3 DEF Migrated
  <2>3. QED
    BY <1>1, <2>1, <2>2 DEF StartInvariant, TypeOK
<1>4. QED
  BY <1>2, <1>3

LEMMA StartInvariantHolds == Spec => []StartInvariant
<1>1. Init => StartInvariant
  <2>1. DownProc \in ProcRecord /\ DownProc.at = "down"
    BY DEF DownProc, ProcRecord, At
  <2>2. QED
    BY <2>1 DEF Init, StartInvariant, TypeOK, Migrates
<1>2. StartInvariant /\ [Next]_vars => StartInvariant'
  <2> SUFFICES ASSUME StartInvariant, [Next]_vars PROVE StartInvariant'
    OBVIOUS
  <2>1. CASE UNCHANGED vars
    BY <2>1 DEF vars, database, StartInvariant, TypeOK
  <2>2. ASSUME NEW i \in Instance, SeedAdminDone(i) \/ StartRefused(i) \/ Drained(i) \/ Killed(i)
        PROVE  StartInvariant'
    BY <2>2, EndKeeps DEF SeedAdminDone, StartRefused, Drained, Killed
  <2>3. QED
    BY <2>1, <2>2, RunKeeps, ServeKeeps, StepKeeps, MigrateKeeps DEF Next, Advance
<1>3. QED
  BY <1>1, <1>2, PTL DEF Spec

\* A process that binds its address, serves or drains does so on the schema its
\* binary was written for, with each migration applied once and in order
\* (app::run runs the migrations before server::start).
THEOREM AlwaysServesOnItsSchema == Spec => []ServesOnItsSchema
<1>1. StartInvariant => ServesOnItsSchema
  BY DEF StartInvariant, Migrates, ServesOnItsSchema
<1>2. QED
  BY <1>1, StartInvariantHolds, PTL
-----------------------------------------------------------------------------
(* Serving *)

\* No two processes listen, and what a process has accepted it is serving alone: it
\* has neither been answered nor been passed to another.
RequestsAreServedOnce ==
  /\ \A i, j \in Listening : i = j
  /\ \A i \in Instance :
       /\ proc[i].inFlight \subseteq sent \ answered
       /\ \A j \in Instance \ {i} : proc[i].inFlight \cap proc[j].inFlight = {}

\* The only step that loses a request is the death of the process that serves it.
OnlyKillsLoseRequests ==
  [][\A i \in Instance : \A r \in proc[i].inFlight :
       r \in proc'[i].inFlight \/ r \in answered' \/ Killed(i)]_vars

\* Only a process that serves, or drains, has requests in flight.
ServeInvariant ==
  /\ RequestsAreServedOnce
  /\ answered \subseteq sent
  /\ \A i \in Instance : proc[i].at \notin {"serving", "draining"} => proc[i].inFlight = {}

\* A process that is not serving, or ends, passes nothing on and answers nothing.
LEMMA WithoutRequests ==
  ASSUME StartInvariant, ServeInvariant, NEW i \in Instance, NEW p,
         proc' = [proc EXCEPT ![i] = p], UNCHANGED <<sent, answered>>,
         p.inFlight = {} \/ (p.inFlight = proc[i].inFlight /\ p.at \in {"serving", "draining"}),
         p.at = "serving" => Listening = {}
  PROVE  ServeInvariant'
<1>1. proc'[i] = p /\ \A j \in Instance \ {i} : proc'[j] = proc[j]
  BY DEF StartInvariant, TypeOK
<1>2. Listening' \subseteq Listening \cup {i} /\ (i \in Listening' => Listening = {})
  BY <1>1 DEF Listening
<1>3. \A j \in Instance : proc'[j].inFlight \subseteq proc[j].inFlight
  BY <1>1
<1>4. RequestsAreServedOnce'
  BY <1>2, <1>3 DEF ServeInvariant, RequestsAreServedOnce
<1>5. QED
  BY <1>1, <1>4 DEF ServeInvariant

LEMMA AcceptKeepsServing ==
  ASSUME StartInvariant, ServeInvariant, NEW i \in Instance, NEW r \in Request,
         Accept(i, r) \/ Answer(i, r)
  PROVE  ServeInvariant'
<1>1. /\ proc'[i].at = proc[i].at
      /\ \A j \in Instance \ {i} : proc'[j] = proc[j]
  BY DEF StartInvariant, TypeOK, ProcRecord, Accept, Answer
<1>2. Listening' = Listening
  BY <1>1 DEF Listening
<1>3. CASE Accept(i, r)
  <2>1. /\ proc'[i].inFlight = proc[i].inFlight \cup {r} /\ proc[i].at = "serving"
        /\ sent' = sent \cup {r} /\ answered' = answered /\ r \notin sent
    BY <1>3 DEF StartInvariant, TypeOK, ProcRecord, Accept
  <2>2. ASSUME NEW j \in Instance  PROVE proc'[j].inFlight \subseteq sent' \ answered'
    BY <1>1, <2>1 DEF ServeInvariant, RequestsAreServedOnce
  <2>3. ASSUME NEW j \in Instance, NEW k \in Instance \ {j}
        PROVE  proc'[j].inFlight \cap proc'[k].inFlight = {}
    BY <1>1, <2>1 DEF ServeInvariant, RequestsAreServedOnce
  <2>4. \A j \in Instance : proc'[j].at \notin {"serving", "draining"} => proc'[j].inFlight = {}
    BY <1>1, <2>1 DEF ServeInvariant
  <2>5. QED
    BY <1>2, <2>1, <2>2, <2>3, <2>4 DEF ServeInvariant, RequestsAreServedOnce
<1>4. CASE Answer(i, r)
  <2>1. /\ proc'[i].inFlight = proc[i].inFlight \ {r} /\ r \in proc[i].inFlight
        /\ sent' = sent /\ answered' = answered \cup {r}
    BY <1>4 DEF StartInvariant, TypeOK, ProcRecord, Answer
  <2>2. QED
    BY <1>1, <1>2, <2>1 DEF ServeInvariant, RequestsAreServedOnce
<1>5. QED
  BY <1>3, <1>4

\* The steps of a start that succeed; only the last one opens a listener.
LEMMA StartKeepsServing ==
  ASSUME StartInvariant, ServeInvariant, NEW i \in Instance,
         \/ LoadConfig(i) \/ Connect(i) \/ LockMigrations(i) \/ ApplyMigration(i)
         \/ Migrated(i) \/ SeedAdmin(i) \/ Bind(i) \/ Signal(i)
  PROVE  ServeInvariant'
<1>1. PICK from, to :
        /\ Moves(i, from, to)
        /\ to = "serving" => Listening = {}
        /\ (from = "serving" /\ to = "draining") \/ from \notin {"serving", "draining"}
  BY DEF LoadConfig, Connect, LockMigrations, ApplyMigration, Migrated, SeedAdmin, Bind, Signal
<1>2. proc[i] \in ProcRecord
  BY DEF StartInvariant, TypeOK
<1> DEFINE p == [proc[i] EXCEPT !.at = to]
<1>3. p.at = to /\ p.inFlight = proc[i].inFlight
  BY <1>2 DEF ProcRecord
<1>4. proc' = [proc EXCEPT ![i] = p] /\ UNCHANGED <<sent, answered>>
  BY <1>1 DEF Moves
<1>5. p.inFlight = {} \/ p.at \in {"serving", "draining"}
  BY <1>1, <1>3 DEF Moves, ServeInvariant
<1> HIDE DEF p
<1>6. QED
  BY <1>1, <1>3, <1>4, <1>5, WithoutRequests

LEMMA EndKeepsServing ==
  ASSUME StartInvariant, ServeInvariant, NEW i \in Instance,
         \/ RunCommand(i) \/ SeedAdminDone(i) \/ StartRefused(i) \/ Drained(i) \/ Killed(i)
  PROVE  ServeInvariant'
<1>1. PICK p : /\ proc' = [proc EXCEPT ![i] = p] /\ UNCHANGED <<sent, answered>>
               /\ p.inFlight = {} /\ p.at \in {"down", "load"}
  <2>1. CASE RunCommand(i)
    <3>1. PICK e \in Environment :
            proc' = [proc EXCEPT ![i] = [DownProc EXCEPT !.at = "load", !.env = e]]
      BY <2>1 DEF RunCommand
    <3>2. QED
      BY <2>1, <3>1 DEF RunCommand, DownProc, StartInvariant, TypeOK
  <2>2. CASE SeedAdminDone(i) \/ StartRefused(i) \/ Drained(i) \/ Killed(i)
    <3>1. PICK status : Exit(i, status)
      BY <2>2 DEF SeedAdminDone, StartRefused, Drained, Killed
    <3> DEFINE p == [DownProc EXCEPT !.status = status]
    <3>2. p.inFlight = {} /\ p.at = "down"
      BY DEF DownProc
    <3>3. proc' = [proc EXCEPT ![i] = p] /\ UNCHANGED <<sent, answered>>
      BY <3>1 DEF Exit
    <3> HIDE DEF p
    <3>4. QED
      BY <3>2, <3>3
  <2>3. QED
    BY <2>1, <2>2
<1>2. QED
  BY <1>1, WithoutRequests

LEMMA ServeInvariantHolds == Spec => []ServeInvariant
<1>1. Init => ServeInvariant
  BY DEF Init, DownProc, ServeInvariant, RequestsAreServedOnce, Listening
<1>2. StartInvariant /\ ServeInvariant /\ [Next]_vars => ServeInvariant'
  <2> SUFFICES ASSUME StartInvariant, ServeInvariant, [Next]_vars PROVE ServeInvariant'
    OBVIOUS
  <2>1. CASE UNCHANGED vars
    BY <2>1 DEF vars, ServeInvariant, RequestsAreServedOnce, Listening
  <2>2. QED
    BY <2>1, AcceptKeepsServing, StartKeepsServing, EndKeepsServing DEF Next, Advance
<1>3. QED
  BY <1>1, <1>2, StartInvariantHolds, PTL DEF Spec

\* However processes start beside each other, one at most has the port, and each
\* request is served, and answered, by the process that accepted it (server::start).
THEOREM RequestsStayServedOnce == Spec => []RequestsAreServedOnce
<1>1. ServeInvariant => RequestsAreServedOnce
  BY DEF ServeInvariant
<1>2. QED
  BY <1>1, ServeInvariantHolds, PTL

\* Nothing else ends a process before it has answered what it accepted: neither a
\* signal, since the server drains (with_graceful_shutdown), nor a start that fails.
THEOREM ShutdownKeepsRequests == Spec => OnlyKillsLoseRequests
<1>1. ASSUME StartInvariant, ServeInvariant, Next, NEW i \in Instance, NEW r \in proc[i].inFlight
      PROVE  r \in proc'[i].inFlight \/ r \in answered' \/ Killed(i)
  <2>1. proc \in [Instance -> ProcRecord] /\ proc[i].at \in {"serving", "draining"}
    BY <1>1 DEF StartInvariant, TypeOK, ServeInvariant
  <2>2. PICK j \in Instance : \/ RunCommand(j) \/ LockMigrations(j) \/ Advance(j)
                              \/ Signal(j) \/ Killed(j) \/ \E q \in Request : Accept(j, q)
    BY <1>1 DEF Next
  <2>3. CASE j # i
    <3>1. \E p : proc' = [proc EXCEPT ![j] = p]
      BY <2>2 DEF RunCommand, LockMigrations, Advance, Signal, Killed, Accept, LoadConfig, Connect,
         ApplyMigration, Migrated, SeedAdmin, SeedAdminDone, Bind, StartRefused, Drained, Answer,
         Moves, Exit
    <3>2. QED
      BY <2>1, <2>3, <3>1
  <2>4. CASE j = i
    <3>1. ~RunCommand(i) /\ ~SeedAdminDone(i) /\ ~StartRefused(i) /\ ~Drained(i)
      BY <1>1, <2>1 DEF RunCommand, SeedAdminDone, StartRefused, Refused, Drained
    <3>2. CASE \/ LockMigrations(i) \/ LoadConfig(i) \/ Connect(i) \/ ApplyMigration(i)
               \/ Migrated(i) \/ SeedAdmin(i) \/ Bind(i) \/ Signal(i)
      <4>1. \E to : proc' = [proc EXCEPT ![i].at = to]
        BY <3>2 DEF LockMigrations, LoadConfig, Connect, ApplyMigration, Migrated, SeedAdmin, Bind,
           Signal, Moves
      <4>2. QED
        BY <2>1, <4>1 DEF ProcRecord
    <3>3. CASE \E q \in Request : Accept(i, q) \/ Answer(i, q)
      BY <2>1, <3>3 DEF Accept, Answer, ProcRecord
    <3>4. QED
      BY <2>2, <2>4, <3>1, <3>2, <3>3 DEF Advance
  <2>5. QED
    BY <2>3, <2>4
<1>2. StartInvariant /\ ServeInvariant /\ [Next]_vars =>
        [\A i \in Instance : \A r \in proc[i].inFlight :
           r \in proc'[i].inFlight \/ r \in answered' \/ Killed(i)]_vars
  BY <1>1
<1>3. QED
  BY <1>2, StartInvariantHolds, ServeInvariantHolds, PTL DEF Spec, OnlyKillsLoseRequests
=============================================================================
