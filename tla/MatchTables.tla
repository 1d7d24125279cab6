----------------------------- MODULE MatchTables -----------------------------
(***************************************************************************)
(* The tables matches (with match_players) and player_ratings as functions *)
(* from primary keys to rows, the order in which confirmed matches are     *)
(* replayed, and what it means for the ratings to be derived from the      *)
(* match history.  There are no variables here: the ledger and the         *)
(* abstract ledger share these operators, which take a table as parameter. *)
(***************************************************************************)
EXTENDS Integers, FiniteSets, FiniteSetsExt

CONSTANTS
  Player,         \* players that may ever be created
  MatchId,        \* the UUIDs a match can get, as numbers: the last replay key
  PlayedAt,       \* the played_at values a request may carry
  IntMax,         \* largest value of a Postgres INTEGER column
  Skill,          \* every (rating, uncertainty) pair Weng-Lin can return
  StorableSkill,  \* those that pass the CHECK (rating > 0), (uncertainty > 0)
  InsertSkill,    \* the column defaults of player_ratings
  DefaultSkill,   \* DEFAULT_RATING, DEFAULT_UNCERTAINTY, written by a replay
  Rate(_, _),     \* rate_ranked_free_for_all: skills, placements |-> skills
  NoMatch         \* NULL in matches.corrected_from_match_id

\* A match's placements, as validate_placements accepts them: at least two
\* distinct players, placed 1, 2, ... without a tie or a gap.
Placements(S) == {f \in [S -> 1..Cardinality(S)] :
                    \A p, q \in S : f[p] = f[q] => p = q}
ValidPlacements ==
  UNION {Placements(S) : S \in {T \in SUBSET Player : Cardinality(T) > 1}}

ASSUME TablesAssumption ==
  /\ IsFiniteSet(Player)
  /\ IsFiniteSet(MatchId)
  /\ MatchId \subseteq Nat
  /\ NoMatch \notin MatchId
  /\ PlayedAt \subseteq Nat \ {0}
  /\ IntMax \in Nat
  /\ StorableSkill \subseteq Skill
  /\ InsertSkill \in StorableSkill
  /\ DefaultSkill \in StorableSkill

ASSUME RateAssumption ==
  \A place \in ValidPlacements :
    \A old \in [DOMAIN place -> StorableSkill] :
      Rate(old, place) \in [DOMAIN place -> Skill]

-----------------------------------------------------------------------------
(* Rows *)

\* A matches row with its match_players rows: place, and the snapshots
\* old_rating/old_uncertainty (old) and new_rating/new_uncertainty (new).
NewRow(playedAt, createdAt, from, place, old, new) ==
  [status |-> "confirmed", playedAt |-> playedAt, createdAt |-> createdAt,
   correctedFrom |-> from, place |-> place, old |-> old, new |-> new]

IsMatchRow(row) ==
  /\ row \in [status : {"confirmed", "voided"}, playedAt : PlayedAt, createdAt : Nat,
              correctedFrom : MatchId \cup {NoMatch}, place : ValidPlacements,
              old : {row.old}, new : {row.new}]
  /\ row.old \in [DOMAIN row.place -> StorableSkill]
  /\ row.new \in [DOMAIN row.place -> StorableSkill]

\* A player_ratings row that no match has touched; last = 0 stands for NULL.
FreshRating(skill) ==
  [skill |-> skill, games |-> 0, wins |-> 0, losses |-> 0, total |-> 0, last |-> 0]

\* A row the database accepts: the CHECK constraints and the column width.
RatingRow == [skill : StorableSkill, games : 0..IntMax, wins : 0..IntMax,
              losses : 0..IntMax, total : 0..IntMax, last : PlayedAt \cup {0}]

\* update_player_rating_after_match
RatingAfterMatch(row, skill, placement, playedAt) ==
  [skill  |-> skill,
   games  |-> row.games + 1,
   wins   |-> row.wins + (IF placement = 1 THEN 1 ELSE 0),
   losses |-> row.losses + (IF placement = 1 THEN 0 ELSE 1),
   total  |-> row.total + placement,
   last   |-> IF row.last > playedAt THEN row.last ELSE playedAt]

\* The rows that statements written so far in a transaction make visible to
\* its own reads, and that its commit publishes.
Overlay(base, writes) ==
  [x \in DOMAIN base \cup DOMAIN writes |->
     IF x \in DOMAIN writes THEN writes[x] ELSE base[x]]

IsTable(f, Key, Row) == DOMAIN f \subseteq Key /\ f \in [DOMAIN f -> Row]
NoRows == [k \in {} |-> k]    \* the table, or the write set, without rows

-----------------------------------------------------------------------------
(* History *)

Confirmed(ms) == {m \in DOMAIN ms : ms[m].status = "confirmed"}

\* The matches of S that player p took part in.
Of(ms, S, p) == {m \in S : p \in DOMAIN ms[m].place}

\* ORDER BY played_at ASC, created_at ASC, id ASC
ReplayBefore(ms, a, b) ==
  \/ ms[a].playedAt < ms[b].playedAt
  \/ /\ ms[a].playedAt = ms[b].playedAt
     /\ \/ ms[a].createdAt < ms[b].createdAt
        \/ ms[a].createdAt = ms[b].createdAt /\ a < b

LatestOf(ms, S) == CHOOSE m \in S : \A k \in S : k = m \/ ReplayBefore(ms, k, m)
FirstOf(ms, S)  == CHOOSE m \in S : \A k \in S : k = m \/ ReplayBefore(ms, m, k)

\* What the snapshots say p's skill is once p's matches S have been played.
SkillAfter(ms, S, p, start) ==
  IF S = {} THEN start ELSE ms[LatestOf(ms, S)].new[p]

\* In the matches S, every snapshot starts where the player's previous match
\* of S (or start[p], if there is none) left off and was computed by Rate.
SnapshotsChain(ms, S, start) ==
  \A m \in S :
    /\ \A p \in DOMAIN ms[m].place :
         LET before == {k \in Of(ms, S, p) : ReplayBefore(ms, k, m)}
         IN  ms[m].old[p] = SkillAfter(ms, before, p, start[p])
    /\ ms[m].new = Rate(ms[m].old, ms[m].place)

\* The skills and snapshots are what replaying the confirmed matches from
\* start would write.
DerivedFrom(ms, rt, start) ==
  /\ SnapshotsChain(ms, Confirmed(ms), start)
  /\ \A p \in DOMAIN rt :
       rt[p].skill = SkillAfter(ms, Of(ms, Confirmed(ms), p), p, start[p])

\* ... from the rating each player was given at creation or by a reset.
Derived(ms, rt) ==
  \E start \in [DOMAIN rt -> {InsertSkill, DefaultSkill}] : DerivedFrom(ms, rt, start)

-----------------------------------------------------------------------------
(* Counters *)

\* The counters of p's player_ratings row agree with the matches S of p:
\* games played, won and lost, the sum of places, the latest played_at.
CountersAgree(ms, S, p, row) ==
  /\ row.games  = Cardinality(S)
  /\ row.wins   = Cardinality({m \in S : ms[m].place[p] = 1})
  /\ row.losses = Cardinality({m \in S : ms[m].place[p] # 1})
  /\ row.total  = MapThenSumSet(LAMBDA m : ms[m].place[p], S)
  /\ \A m \in S : ms[m].playedAt <= row.last
  /\ row.last = 0 \/ \E m \in S : ms[m].playedAt = row.last
=============================================================================
