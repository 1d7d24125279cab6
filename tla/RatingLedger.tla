---------------------------- MODULE RatingLedger ----------------------------
(***************************************************************************)
(* The rating ledger: match submission, voiding, correction and rating     *)
(* recalculation (match_service, replay_service and the repositories they  *)
(* call), with the player writes that run beside them (player_service).    *)
(*                                                                         *)
(* Every request is one Postgres transaction at READ COMMITTED whose first *)
(* statement takes the advisory lock 74000001 and keeps it until the       *)
(* transaction ends.  A transaction's writes are private to it (its write  *)
(* set) until Commit publishes them; Abort throws them away.               *)
(*                                                                         *)
(* A definition commented "Mistake" belongs to no behaviour: it is a bug   *)
(* one could write in place of the definition after it, kept to see the    *)
(* properties fail (README, "Mutants").                                    *)
(***************************************************************************)
EXTENDS MatchTables

CONSTANTS
  Worker,    \* tasks that serve requests; each holds one pooled connection
  Run,       \* ids of rows of rating_recalculation_runs
  NoRun,
  Nobody,    \* the advisory lock is free
  Skew,      \* MAX_PLAYED_AT_FUTURE_SKEW_MINUTES
  MaxClock,  \* bound: the clock stops here
  Faults     \* the faults that may happen: a subset of Fault

\* "statement": a statement or COMMIT fails and the server rolls back.
\* "ack": COMMIT takes effect but its answer is lost with the connection.
\* "drop": the handler's future is dropped (client gone, process killed).
Fault == {"statement", "ack", "drop"}

ASSUME LedgerAssumption ==
  /\ Nobody \notin Worker
  /\ NoRun \notin Run
  /\ Skew \in Nat
  /\ MaxClock \in Nat \ {0}
  /\ Faults \subseteq Fault

VARIABLES
  clock,    \* the database's and the application's clock
  active,   \* players: the rows with active = TRUE
  rating,   \* player_ratings, and with it players: one row each, never deleted
  matches,  \* matches and match_players
  audit,    \* how many audit_log entries there are of each AuditEvent
  runs,     \* rating_recalculation_runs: id |-> status
  lock,     \* who holds the advisory lock
  tx        \* the request each worker is serving

tables == <<active, rating, matches, audit, runs>>
vars == <<clock, active, rating, matches, audit, runs, lock, tx>>

AuditEvent == ({"match.created", "match.voided", "match.corrected"} \X MatchId)
                \cup ({"ratings.recalculated"} \X Run)

-----------------------------------------------------------------------------
(* A request and its transaction *)

\* A request and the write set of its transaction.
\* pc: "started"  the run's row is inserted, the transaction not begun
\*     "waiting"  in pg_advisory_xact_lock
\*     "locked"   the lock is held, nothing is written
\*     "loaded"   a new match is validated, its players' ratings are read
\*     "writing"  writes are pending; the matches todo are still to be replayed
\*     "failing"  rolled back, the run is still to be marked failed
IdleTx == [op |-> "none", pc |-> "idle", begunAt |-> 0, run |-> NoRun,
           target |-> NoMatch, playedAt |-> 0, place |-> NoRows, old |-> NoRows,
           ratings |-> NoRows, rows |-> NoRows, event |-> <<>>, todo |-> {}]

InTransaction(w) == tx[w].pc \in {"waiting", "locked", "loaded", "writing"}

\* What the transaction of w reads.
RatingsSeen(w) == Overlay(rating, tx[w].ratings)
MatchesSeen(w) == Overlay(matches, tx[w].rows)

\* match_players rows inserted by w hold a KEY SHARE lock on their players.
PlayersReferenced(w) ==
  UNION {DOMAIN tx[w].rows[m].place : m \in DOMAIN tx[w].rows \ DOMAIN matches}

\* Mistake: a session lock (pg_advisory_lock) outlives its transaction.
EndsHoldingLock(w, next) == tx' = [tx EXCEPT ![w] = next] /\ UNCHANGED lock

\* The end of w's transaction: its lock is released, its write set is gone.
Ends(w, next) ==
  /\ tx' = [tx EXCEPT ![w] = next]
  /\ lock' = IF lock = w THEN Nobody ELSE lock

\* Mistake: an error of the transaction is returned before the run is finished.
AbortedForGood(w) == IdleTx

\* Rollback.  recalculate_ratings goes on to record the failure of its run.
AbortedTx(w) ==
  IF tx[w].op = "recalculate"
  THEN [IdleTx EXCEPT !.op = "recalculate", !.pc = "failing", !.run = tx[w].run]
  ELSE IdleTx

Abort(w) == Ends(w, AbortedTx(w)) /\ UNCHANGED <<clock, tables>>

-----------------------------------------------------------------------------
(* The beginning of a request *)

Init ==
  /\ clock = 1
  /\ active = {}
  /\ rating = NoRows
  /\ matches = NoRows
  /\ audit = [e \in AuditEvent |-> 0]
  /\ runs = NoRows
  /\ lock = Nobody
  /\ tx = [w \in Worker |-> IdleTx]

Tick ==
  /\ clock < MaxClock
  /\ clock' = clock + 1
  /\ UNCHANGED <<tables, lock, tx>>

\* Bound: an id is left for the match of every request that will insert one.
IdLeft ==
  Cardinality({w \in Worker : tx[w].op \in {"submit", "correct"}})
    < Cardinality(MatchId \ DOMAIN matches)

\* BEGIN of w's transaction; created_at defaults to now(), which is this time.
Begin(w, op, target, run) ==
  /\ tx' = [tx EXCEPT ![w] = [IdleTx EXCEPT !.op = op, !.pc = "waiting",
                              !.begunAt = clock, !.target = target, !.run = run]]
  /\ UNCHANGED <<clock, tables, lock>>

\* submit_match, void_match and correct_match up to pool.begin().  The rest of
\* the body of a request (played_at, placements) is chosen where it is first
\* compared with the database.
BeginSubmit(w) ==
  tx[w].pc = "idle" /\ IdLeft /\ Begin(w, "submit", NoMatch, NoRun)

BeginVoid(w) ==
  /\ tx[w].pc = "idle"
  /\ \E m \in DOMAIN matches : Begin(w, "void", m, NoRun)

BeginCorrect(w) ==
  /\ tx[w].pc = "idle" /\ IdLeft
  /\ \E m \in DOMAIN matches : Begin(w, "correct", m, NoRun)

\* recalculate_ratings: the run's row is inserted on the pool, not in the
\* transaction that replays.
StartRecalculation(w) ==
  /\ tx[w].pc = "idle"
  /\ \E r \in Run \ DOMAIN runs :
       /\ runs' = Overlay(runs, [x \in {r} |-> "running"])
       /\ tx' = [tx EXCEPT ![w] = [IdleTx EXCEPT !.op = "recalculate",
                                   !.pc = "started", !.run = r]]
  /\ UNCHANGED <<clock, active, rating, matches, audit, lock>>

BeginRecalculation(w) ==
  tx[w].pc = "started" /\ Begin(w, "recalculate", NoMatch, tx[w].run)

\* Mistake: pg_advisory_xact_lock_shared excludes nobody.
AcquireSharedLock(w) ==
  /\ tx[w].pc = "waiting"
  /\ lock' = w
  /\ tx' = [tx EXCEPT ![w].pc = "locked"]
  /\ UNCHANGED <<clock, tables>>

\* acquire_rating_mutation_lock
AcquireLock(w) ==
  /\ tx[w].pc = "waiting" /\ lock = Nobody
  /\ lock' = w
  /\ tx' = [tx EXCEPT ![w].pc = "locked"]
  /\ UNCHANGED <<clock, tables>>

-----------------------------------------------------------------------------
(* A new match: submit_match and correct_match *)

\* Mistake: the match is found, its status is not looked at.
TargetFound(w) == tx[w].target \in DOMAIN matches

\* find_match_by_id_for_update and the status check of void_match, correct_match
TargetConfirmed(w) == tx[w].target \in Confirmed(matches)

\* validate_match_submission, with the players that
\* load_active_player_ratings_for_update found.
NewMatchAccepted(w, playedAt, place) ==
  /\ tx[w].op = "correct" => TargetConfirmed(w)
  /\ DOMAIN place \subseteq active
  /\ playedAt <= clock + Skew

LoadAndValidate(w) ==
  /\ tx[w].pc = "locked" /\ tx[w].op \in {"submit", "correct"}
  /\ \E place \in ValidPlacements, playedAt \in PlayedAt :
       /\ NewMatchAccepted(w, playedAt, place)
       /\ tx' = [tx EXCEPT ![w].pc = "loaded", ![w].playedAt = playedAt,
                           ![w].place = place,
                           ![w].old = [p \in DOMAIN place |-> rating[p].skill]]
  /\ UNCHANGED <<clock, tables, lock>>

RejectNewMatch(w) ==
  /\ tx[w].pc = "locked" /\ tx[w].op \in {"submit", "correct"}
  /\ \E place \in ValidPlacements, playedAt \in PlayedAt :
       ~NewMatchAccepted(w, playedAt, place)
  /\ Abort(w)

\* update_player_rating_after_match for every participant of a match.
RatingsAfterMatch(rt, place, new, playedAt) ==
  [p \in DOMAIN place |-> RatingAfterMatch(rt[p], new[p], place[p], playedAt)]

\* A CHECK constraint or the INTEGER range refuses any other row.
Storable(ratings) == \A p \in DOMAIN ratings : ratings[p] \in RatingRow

\* submit_match computes the new ratings from those it loaded, inserts the
\* match with its participants and applies the ratings to the current rows.
SubmitWrites(w) ==
  LET t   == tx[w]
      new == Rate(t.old, t.place)
  IN  [ratings |-> RatingsAfterMatch(rating, t.place, new, t.playedAt),
       row     |-> NewRow(t.playedAt, t.begunAt, NoMatch, t.place, t.old, new)]

SubmitWrite(w) ==
  LET writes == SubmitWrites(w)
  IN  /\ tx[w].pc = "loaded" /\ tx[w].op = "submit"
      /\ Storable(writes.ratings)
      /\ \E m \in MatchId \ DOMAIN matches :
           tx' = [tx EXCEPT ![w].pc = "writing",
                            ![w].ratings = writes.ratings,
                            ![w].rows = [x \in {m} |-> writes.row],
                            ![w].event = <<"match.created", m>>]
      /\ UNCHANGED <<clock, tables, lock>>

SubmitRefused(w) ==
  /\ tx[w].pc = "loaded" /\ tx[w].op = "submit"
  /\ ~Storable(SubmitWrites(w).ratings)
  /\ Abort(w)

-----------------------------------------------------------------------------
(* Replay *)

\* Mistake: the ratings are not reset before the replay.
StartReplayUnreset(w, rows, event) ==
  /\ tx' = [tx EXCEPT ![w].pc = "writing", ![w].rows = rows, ![w].event = event,
                      ![w].todo = Confirmed(Overlay(matches, rows))]
  /\ UNCHANGED <<clock, tables, lock>>

\* Mistake: the replay's query has lost WHERE status = 'confirmed'.
StartReplayOfAll(w, rows, event) ==
  /\ tx' = [tx EXCEPT ![w].pc = "writing", ![w].rows = rows, ![w].event = event,
                      ![w].ratings = [p \in DOMAIN rating |-> FreshRating(DefaultSkill)],
                      ![w].todo = DOMAIN Overlay(matches, rows)]
  /\ UNCHANGED <<clock, tables, lock>>

\* reset_all_player_ratings and list_confirmed_matches_for_replay, after w has
\* written the match rows given.  A player committed later is not reset.
StartReplay(w, rows, event) ==
  /\ tx' = [tx EXCEPT ![w].pc = "writing",
                      ![w].rows = rows,
                      ![w].ratings = [p \in DOMAIN rating |-> FreshRating(DefaultSkill)],
                      ![w].todo = Confirmed(Overlay(matches, rows)),
                      ![w].event = event]
  /\ UNCHANGED <<clock, tables, lock>>

Voided(m) == [matches[m] EXCEPT !.status = "voided"]

VoidWrite(w) ==
  LET m == tx[w].target
  IN  /\ tx[w].pc = "locked" /\ tx[w].op = "void"
      /\ TargetConfirmed(w)
      /\ StartReplay(w, [x \in {m} |-> Voided(m)], <<"match.voided", m>>)

RejectVoid(w) ==
  /\ tx[w].pc = "locked" /\ tx[w].op = "void"
  /\ ~TargetConfirmed(w)
  /\ Abort(w)

\* The corrected match starts with DEFAULT_RATING snapshots, which the replay
\* overwrites.
CorrectWrite(w) ==
  LET t       == tx[w]
      default == [p \in DOMAIN t.place |-> DefaultSkill]
      row     == NewRow(t.playedAt, t.begunAt, t.target, t.place, default, default)
  IN  /\ t.pc = "loaded" /\ t.op = "correct"
      /\ \E m \in MatchId \ DOMAIN matches :
           StartReplay(w, [x \in {m, t.target} |-> IF x = m THEN row ELSE Voided(x)],
                       <<"match.corrected", m>>)

RecalculateWrite(w) ==
  /\ tx[w].pc = "locked" /\ tx[w].op = "recalculate"
  /\ StartReplay(w, NoRows, <<"ratings.recalculated", tx[w].run>>)

\* One turn of the loop of replay_confirmed_matches: the next match, from the
\* ratings this transaction has written so far.
ReplayWrites(w) ==
  LET m   == FirstOf(MatchesSeen(w), tx[w].todo)
      row == MatchesSeen(w)[m]
      old == [p \in DOMAIN row.place |-> RatingsSeen(w)[p].skill]
      new == Rate(old, row.place)
  IN  [match   |-> m,
       ratings |-> RatingsAfterMatch(RatingsSeen(w), row.place, new, row.playedAt),
       row     |-> [row EXCEPT !.old = old, !.new = new]]

ReplayMatch(w) ==
  LET writes == ReplayWrites(w)
      m      == writes.match
  IN  /\ tx[w].pc = "writing" /\ tx[w].todo # {}
      /\ Storable(writes.ratings)
      /\ tx' = [tx EXCEPT ![w].ratings = Overlay(@, writes.ratings),
                          ![w].rows = Overlay(@, [x \in {m} |-> writes.row]),
                          ![w].todo = @ \ {m}]
      /\ UNCHANGED <<clock, tables, lock>>

ReplayRefused(w) ==
  /\ tx[w].pc = "writing" /\ tx[w].todo # {}
  /\ ~Storable(ReplayWrites(w).ratings)
  /\ Abort(w)

-----------------------------------------------------------------------------
(* The end of a request *)

\* Mistake: the audit entry of a recalculation is left to a later call.
PublishUnaudited(w) ==
  /\ tx[w].pc = "writing" /\ tx[w].todo = {}
  /\ rating' = Overlay(rating, tx[w].ratings)
  /\ matches' = Overlay(matches, tx[w].rows)
  /\ audit' = IF tx[w].op = "recalculate" THEN audit
              ELSE [audit EXCEPT ![tx[w].event] = @ + 1]
  /\ runs' = IF tx[w].op = "recalculate"
             THEN [runs EXCEPT ![tx[w].run] = "succeeded"] ELSE runs
  /\ UNCHANGED <<clock, active>>

\* The audit entry is written last; finish_recalculation_run(Succeeded) is part
\* of the transaction that replayed.
Publish(w) ==
  /\ tx[w].pc = "writing" /\ tx[w].todo = {}
  /\ rating' = Overlay(rating, tx[w].ratings)
  /\ matches' = Overlay(matches, tx[w].rows)
  /\ audit' = [audit EXCEPT ![tx[w].event] = @ + 1]
  /\ runs' = IF tx[w].op = "recalculate"
             THEN [runs EXCEPT ![tx[w].run] = "succeeded"] ELSE runs
  /\ UNCHANGED <<clock, active>>

Commit(w) == Publish(w) /\ Ends(w, IdleTx)

\* The caller is told the commit failed.  It makes a difference only to
\* recalculate_ratings, which then marks the run failed.
CommitUnacknowledged(w) ==
  "ack" \in Faults /\ Publish(w) /\ Ends(w, AbortedTx(w))

\* A statement, a begin or a commit fails and nothing of it took effect.
StatementFails(w) ==
  /\ "statement" \in Faults
  /\ InTransaction(w) \/ tx[w].pc = "started"
  /\ Abort(w)

\* finish_recalculation_run(Failed), unconditional: whatever the row says.
MarkFailed(w) ==
  /\ tx[w].pc = "failing"
  /\ runs' = [runs EXCEPT ![tx[w].run] = "failed"]
  /\ tx' = [tx EXCEPT ![w] = IdleTx]
  /\ UNCHANGED <<clock, active, rating, matches, audit, lock>>

\* ... and its own failure is ignored (let _ =).
MarkFailedLost(w) ==
  /\ "statement" \in Faults
  /\ tx[w].pc = "failing"
  /\ tx' = [tx EXCEPT ![w] = IdleTx]
  /\ UNCHANGED <<clock, tables, lock>>

Drop(w) ==
  /\ "drop" \in Faults
  /\ tx[w].pc # "idle"
  /\ Ends(w, IdleTx)
  /\ UNCHANGED <<clock, tables>>

-----------------------------------------------------------------------------
(* Player writes: short transactions of their own that take no rating lock *)

\* create_player, with insert_default_rating
CreatePlayer(p) ==
  /\ p \notin DOMAIN rating
  /\ rating' = Overlay(rating, [x \in {p} |-> FreshRating(InsertSkill)])
  /\ active' = active \cup {p}
  /\ UNCHANGED <<clock, matches, audit, runs, lock, tx>>

\* deactivate_player, and update_player when it changes active: FOR UPDATE OF p
\* waits for the KEY SHARE lock of a match that is being inserted.
SetActive(p) ==
  /\ p \in DOMAIN rating
  /\ \A w \in Worker : p \notin PlayersReferenced(w)
  /\ \/ active' = active \ {p}
     \/ active' = active \cup {p}
  /\ UNCHANGED <<clock, rating, matches, audit, runs, lock, tx>>

-----------------------------------------------------------------------------
Request(w) == BeginSubmit(w) \/ BeginVoid(w) \/ BeginCorrect(w) \/ StartRecalculation(w)

Advance(w) ==
  \/ BeginRecalculation(w)
  \/ LoadAndValidate(w) \/ RejectNewMatch(w)
  \/ SubmitWrite(w) \/ SubmitRefused(w)
  \/ VoidWrite(w) \/ RejectVoid(w)
  \/ CorrectWrite(w) \/ RecalculateWrite(w)
  \/ ReplayMatch(w) \/ ReplayRefused(w)
  \/ Commit(w) \/ MarkFailed(w)

Fails(w) ==
  CommitUnacknowledged(w) \/ StatementFails(w) \/ MarkFailedLost(w) \/ Drop(w)

Next ==
  \/ \E w \in Worker : Request(w) \/ AcquireLock(w) \/ Advance(w) \/ Fails(w)
  \/ \E p \in Player : CreatePlayer(p) \/ SetActive(p)
  \/ Tick

Spec == Init /\ [][Next]_vars

\* A request that can go on does.  Postgres grants a lock in the order of its
\* queue, so a worker that finds the lock free again and again gets it.
Fairness == \A w \in Worker : WF_vars(Advance(w)) /\ SF_vars(AcquireLock(w))

FairSpec == Spec /\ Fairness

-----------------------------------------------------------------------------
(* Properties *)

IsTx(t) ==
  /\ t \in [op : {"none", "submit", "void", "correct", "recalculate"},
            pc : {"idle", "started", "waiting", "locked", "loaded", "writing", "failing"},
            begunAt : Nat, run : Run \cup {NoRun}, target : MatchId \cup {NoMatch},
            playedAt : PlayedAt \cup {0}, place : ValidPlacements \cup {NoRows},
            event : AuditEvent \cup {<<>>}, todo : SUBSET MatchId,
            old : {t.old}, ratings : {t.ratings}, rows : {t.rows}]
  /\ IsTable(t.old, Player, StorableSkill)
  /\ IsTable(t.ratings, Player, RatingRow)
  /\ DOMAIN t.rows \subseteq MatchId /\ \A m \in DOMAIN t.rows : IsMatchRow(t.rows[m])

\* Every table holds rows its columns accept, and every request is well formed.
TypeOK ==
  /\ clock \in 1..MaxClock
  /\ IsTable(rating, Player, RatingRow)
  /\ active \subseteq DOMAIN rating
  /\ DOMAIN matches \subseteq MatchId /\ \A m \in DOMAIN matches : IsMatchRow(matches[m])
  /\ audit \in [AuditEvent -> Nat]
  /\ IsTable(runs, Run, {"running", "succeeded", "failed"})
  /\ lock \in Worker \cup {Nobody}
  /\ DOMAIN tx = Worker /\ \A w \in Worker : IsTx(tx[w])

\* Only the holder of the advisory lock is between its first read and its
\* commit, and a lock that is held is held by such a transaction: it never
\* outlives its transaction (pg_advisory_xact_lock in rating_repo).
LockGuardsTransaction ==
  \A w \in Worker : lock = w <=> tx[w].pc \in {"locked", "loaded", "writing"}

\* The counters of every player (games, wins, losses, total placement, last
\* played) are those of the confirmed matches the player took part in, however
\* submissions, voids, corrections, recalculations and failures interleave.
CountersMatchHistory ==
  \A p \in DOMAIN rating :
    CountersAgree(matches, Of(matches, Confirmed(matches), p), p, rating[p])

\* The audit log tells the history: one creation or correction entry per match
\* row, one voiding entry per match that was voided and not corrected.
AuditMatchesHistory ==
  \A m \in MatchId :
    /\ audit[<<"match.created", m>>] + audit[<<"match.corrected", m>>]
         = IF m \in DOMAIN matches THEN 1 ELSE 0
    /\ m \in DOMAIN matches =>
         /\ audit[<<"match.corrected", m>>] = 1 <=> matches[m].correctedFrom # NoMatch
         /\ audit[<<"match.voided", m>>]
              = IF \/ matches[m].status = "confirmed"
                   \/ \E k \in DOMAIN matches : matches[k].correctedFrom = m
                THEN 0 ELSE 1
    /\ m \notin DOMAIN matches => audit[<<"match.voided", m>>] = 0

\* A match is corrected at most once, from a row that exists and is now voided:
\* two corrections (or a void and a correction) of one match cannot both pass
\* the status check.
CorrectionsAreLinear ==
  \A k \in DOMAIN matches :
    matches[k].correctedFrom # NoMatch =>
      /\ matches[k].correctedFrom \in DOMAIN matches \ {k}
      /\ matches[matches[k].correctedFrom].status = "voided"
      /\ \A j \in DOMAIN matches :
           matches[j].correctedFrom = matches[k].correctedFrom => j = k

\* A run counts as succeeded only if its replay is in the audit log, and no run
\* that is still running has an entry: the status and the replay commit
\* together.  (A failed run may have one: finish_recalculation_run(Failed)
\* overwrites the outcome of a commit whose answer was lost.)
RunOutcomeAudited ==
  \A r \in Run :
    LET entries == audit[<<"ratings.recalculated", r>>]
    IN  /\ entries <= 1
        /\ entries = 1 => r \in DOMAIN runs /\ runs[r] # "running"
        /\ r \in DOMAIN runs /\ runs[r] = "succeeded" => entries = 1

\* A match row is never deleted; what it says was played never changes; a voided
\* match is never confirmed again and its snapshots stay as they were.
HistoryIsPermanent ==
  [][\A m \in DOMAIN matches :
       /\ m \in DOMAIN matches'
       /\ LET before == matches[m]
              after  == matches'[m]
          IN  /\ [before EXCEPT !.status = after.status, !.old = after.old,
                                !.new = after.new] = after
              /\ before.status = "voided" => after = before]_vars

\* The new match of this step is replayed before a confirmed match that shares
\* a player with it.
OutOfOrderSubmit ==
  \E m \in DOMAIN matches' \ DOMAIN matches, k \in Confirmed(matches) :
    /\ matches'[m].correctedFrom = NoMatch
    /\ DOMAIN matches'[m].place \cap DOMAIN matches[k].place # {}
    /\ ReplayBefore(matches', m, k)

\* Ratings that are what a replay of the history gives stay so, except when
\* submit_match (which applies a match to the current ratings and never
\* replays) records a match that belongs before one already recorded.
OnlyOutOfOrderSubmitBreaksDerivation ==
  [][<<matches, rating>>' # <<matches, rating>> /\ Derived(matches, rating)
       => Derived(matches', rating') \/ OutOfOrderSubmit]_vars

\* Seen through its committed tables, the ledger is the atomic one: neither
\* concurrency nor a failure ever shows a part of a request, a submission never
\* loses another one's update, and every replay ends in the ratings and the
\* snapshots that the confirmed history defines.
Atomic == INSTANCE AtomicLedger WITH
  active <- active, rating <- rating, matches <- matches
ImplementsAtomicLedger == Atomic!Spec

Shared == INSTANCE SharedPlayers WITH
  known <- DOMAIN rating, active <- active,
  referenced <- UNION {PlayersReferenced(w) : w \in Worker}

\* To the registry the matches are what it takes them for: they refer to known
\* players only, and players change by the registry's own steps.
ImplementsSharedPlayers == Shared!Spec

\* README: "Current ratings are derived and can be rebuilt by replaying confirmed
\* matches in deterministic order."  (Even when no two were played at once.)
RatingsAreReplayOfHistory ==
  (\A m, k \in Confirmed(matches) : matches[m].playedAt = matches[k].playedAt => m = k)
    => Derived(matches, rating)

\* ... so that rebuilding ratings that are derived changes nothing, given that
\* "Players start with internal rating 25.0 and uncertainty 25.0 / 3.0".
RebuildReproducesDerivedRatings ==
  [][Derived(matches, rating) /\ (\E w \in Worker : tx[w].op = "recalculate" /\ Commit(w))
       => \A p \in DOMAIN rating : rating'[p].skill = rating[p].skill]_vars

\* Every request gets its answer, whatever fails: no transaction waits for the
\* advisory lock for ever, and none keeps it for ever.
RequestsReturn == \A w \in Worker : tx[w].pc # "idle" ~> tx[w].pc = "idle"

\* If no handler is dropped and no statement fails, every recalculation run
\* ends up succeeded or failed.
RunsSettle == \A r \in Run : r \in DOMAIN runs ~> r \in DOMAIN runs /\ runs[r] # "running"
=============================================================================
