# Verification of the Coup leaderboard backend

TLA+ models, TLC runs and TLAPS proofs for the Rust backend in `src/backend`:
an HTTP service over PostgreSQL in which admins record finished games of Coup,
void and correct them, and recalculate Weng-Lin ratings from the match history.
The heart of it is the *rating ledger*, where several concurrent requests
read ratings, compute new ones in the application and write them back, and
where the ratings must stay what the match history says they are. Around it the
models follow a request from the process that serves it through authorization,
the connection pool and the transaction to its answer.

## 1. The system

| Part | State | Operations | Talks to |
|---|---|---|---|
| Rating ledger: `match_service`, `replay_service`, `match_repo`, `rating_repo`, `recalculation_repo` | `matches`, `match_players` (with snapshots), `player_ratings`, `rating_recalculation_runs`, the advisory lock 74000001 | `submit_match`, `void_match`, `correct_match`, `recalculate_ratings` | validation, rating algorithm, audit log; shares `player_ratings` and `players` with the registry |
| Match validation: `match_validation`, `validate_rating_inputs` | none | `validate_placements`, `validate_match_submission` | called by the ledger before and inside its transactions |
| Rating algorithm: `rating_service` | none | `rate_ranked_free_for_all`, display rounding | the crate `skillratings` |
| Player registry: `player_service`, `player_repo` | `players`, and `player_ratings` at creation | `create_player`, `update_player`, `deactivate_player` | inserts the rating row the ledger needs; takes no rating lock |
| Leaderboard: `leaderboard_service` | none | ranking and ordering of the player rows | reads `players`, `player_ratings` |
| Audit log: `audit_repo`, `audit_service` | `audit_log` | insert in the caller's transaction; paged listing | written by ledger, registry and login |
| Login: `auth_handlers`, `session`, `permissions`, `session_repo`, `user_repo`, `password` | `users`, `user_sessions`, an in-process map of recent attempts behind a mutex | login, logout, role checks, rate limit | every handler asks it who is calling |
| HTTP: `server`, routes, handlers, `error` | none | routing, extractors, status of answers, graceful shutdown | session lookup, services |
| Connection pool: `db/postgres`, `state` | the pool's connections | acquire, return | every request holds one connection per transaction |
| Start-up: `main`, `app`, `db`, `config`, `options` | `_sqlx_migrations`, the seeded admin, environment and `.env` | load, connect, migrate, seed, bind | the same database as other processes |
| Browser UI | none | static pages | the API |

Every ledger request is one Postgres transaction at READ COMMITTED. Its first
statement takes `pg_advisory_xact_lock(74000001)`, which serializes the four
ledger operations but not the registry's, nor the reads. Only
`recalculate_ratings` writes outside its transaction: the run's row before it,
and `finish_recalculation_run(Failed)` after a failure.

**What is hard.** The ledger is read-modify-write through the application; a
replay resets every rating and rewrites them match by match in one transaction;
a handler's future can be dropped at any `await`; the answer of a `COMMIT` can be
lost; `created_at` is the time of `BEGIN`, before the wait for the lock;
players are created and deactivated while a replay runs. `PROJECT.json` lists
each hazard at its line, with the property that guards against it.

**What makes each part correct.**

- Ledger: no update is lost and no part of a request is ever visible; counters,
  snapshots, audit entries, correction links and run statuses agree with each
  other and with the history; history is never rewritten; every request returns.
- Validation: what is accepted is a ranking of distinct active players, and is
  never refused by a later replay.
- Registry: names are unique, every player has a rating row, an audit entry
  tells every change and no change that did not happen.
- Leaderboard: the order is total and stable, ranks are those of the ranked.
- Login: no session without a correct password, the limit counts every attempt
  in the window, an expired or revoked session opens nothing.
- HTTP: an effect needs a caller who was entitled to it during the request;
  strangers learn nothing; 2xx means the changes are committed and 4xx that they are
  not, even if a recalculation has left its run.
- Pool: it never runs dry for good, although waiters keep their connections.
- Start-up: whoever serves has its schema;
  starts do not block each other; a shutdown drops no request and ends.
- Reads: an answer put together from two statements is one state of the match;
  lists of matches, players and audit entries agree with what happened.

## 2. Modules

| Module | Models |
|---|---|
| `MatchTables` | rows, tables, the replay order, `update_player_rating_after_match`; what it means for ratings to be *derived* from a history. No variables. |
| `RatingLedger` | the ledger with its transactions, the lock, failures, and the registry's writes beside it. |
| `AtomicLedger` | what the ledger promises: the same requests as single steps, replay described by its result. |
| `RatingLedgerInvariant` | the inductive invariant. |
| `MCRatingLedger` | finite skills and a rate function for TLC. |
| `MatchValidation` | the request checks as operators on sequences, against a reference definition. |
| `MatchReads` | `list_matches`, `get_match`, `list_players`, `get_player` beside the ledger (extends `RatingLedger`). |
| `PlayerRegistry` | creation, update and deactivation of players: row locks, the unique index, deadlocks, audit entries. |
| `AtomicRegistry` | what the registry promises: single steps and a gapless audit log. |
| `SharedPlayers` | what ledger and registry take for granted of each other's steps on `players`; both implement it. |
| `Leaderboard` | the comparison of rows, ranks and the query, over tables that change. |
| `AccessTables` | `users` and `user_sessions`: who a session is, what it may do, seeding. No variables. |
| `LoginGate` | login, the rate limiter behind its mutex, logout, restarts (extends `AccessTables`). |
| `RequestPrograms` | each API operation: who may call it, what its handler extracts, its database calls in order. No variables. |
| `ApiGate` | a request from arrival to answer: extractors, role, service, status (extends the last two). |
| `ConnectionPool` | requests sharing a pool and the advisory lock, each running its program of `RequestPrograms`. |
| `AuditListing` | writing and paging the audit log. |
| `AuditRedaction` | what a response shows of an entry's JSON values. |
| `Startup` | processes from command line to exit, sharing a database. |
| `Config` | which variable of environment and `.env` a setting comes from. |
| `Sorting` | sorting by a strict total order: `ORDER BY`, `sort_by`. No variables. |

`MC...` modules instantiate these for TLC (`MCAnswers` those that need no larger
instance). `SortingProofs`, `RatingLedgerProofs`, `RatingHistoryProofs`,
`PlayerRegistryProofs`, `LoginGateProofs`, `ApiGateProofs`, `ConnectionPoolProofs` and
`ServiceProofs` hold the theorems, with their inductive invariants.

**Composition.** `MatchReads` runs the read requests against the whole ledger.
`LoginGate` and `ApiGate` share the tables of `AccessTables`, and `ApiGate` and
`ConnectionPool` the operations of `RequestPrograms`, so that the operation that is
authorized is the one whose database calls compete for connections. The ledger and the
registry meet in `players`: `RatingLedger` has the registry's writes as single steps,
which `PlayerRegistry` implements with its locks (`ImplementsAtomicRegistry`);
`PlayerRegistry` in turn has the locks of a match insert. What each of the two assumes
of the other is one specification, `SharedPlayers` (a player is created once, and does
not change while a match being inserted refers to him), and both implement it:
`ImplementsSharedPlayers`, proved of each (`RegistrySharesPlayers`,
`LedgerSharesPlayers`). A product of all of them is out of TLC's reach and would add
nothing the shared parts do not already say.

### How `RatingLedger` corresponds to the code

A table is a function whose domain is the set of primary keys present. A
request is a record `tx[w]` of the task `w` serving it: its operation, how far
it has come (`pc`) and the write set of its transaction, which nobody else
reads until `Commit` overlays it on the tables. `RatingsSeen(w)` and
`MatchesSeen(w)` are what the transaction's own statements read.

| Actions | Code |
|---|---|
| `BeginSubmit`, `BeginVoid`, `BeginCorrect`, `BeginRecalculation` | `pool.begin()`; `begunAt` is the transaction's `now()`, the later `created_at` |
| `StartRecalculation` | `insert_recalculation_run` on the pool |
| `AcquireLock` | `acquire_rating_mutation_lock` |
| `LoadAndValidate`, `RejectNewMatch` | status check, `load_active_player_ratings_for_update`, `validate_match_submission` |
| `SubmitWrite`, `SubmitRefused` | `rate_ranked_free_for_all`, the inserts and rating updates of `submit_match`; a row that a CHECK refuses |
| `VoidWrite`, `CorrectWrite`, `RecalculateWrite`, `RejectVoid` | `set_match_status`, the insert of the corrected match, then reset and query of `replay_confirmed_matches` |
| `ReplayMatch`, `ReplayRefused` | one turn of the loop of `replay_confirmed_matches` |
| `Commit`, `CommitUnacknowledged` | the audit entry, `finish_recalculation_run(Succeeded)`, `tx.commit()`; the answer lost |
| `StatementFails`, `Drop` | rollback after an error, or of a dropped `Transaction` |
| `MarkFailed`, `MarkFailedLost` | `finish_recalculation_run(Failed)`, whose own failure is ignored |
| `CreatePlayer`, `SetActive` | `create_player`, `update_player`, `deactivate_player` |

Decisions a reader may question:

- *Granularity.* Statements between which no other transaction can notice a
  difference are one action. The splits that remain are those where another
  request matters: before the lock, between the load and the writes (a player
  may be deactivated), between the reset and each replayed match (a player may
  be created), before the commit.
- *Row locks.* `FOR UPDATE` on `player_ratings`, `matches` and `match_players`
  is subsumed by the advisory lock: only its holders write those rows. The one
  row lock that reaches across is kept: an inserted `match_players` row holds
  KEY SHARE on its players, for which `find_player_with_rating_for_update`
  (`FOR UPDATE OF p`) waits; hence the guard of `SetActive`.
- *The body of a request* (players, placements, `played_at`) is chosen where the
  transaction first compares it with the database, not at the beginning. No step
  between depends on it, so no behaviour is lost and far fewer states are kept.
  Bodies that `validate_placements` refuses never begin a transaction.
- *Match ids* are numbers, since UUIDs are only compared; a new one is any free
  one, so every order of ids is explored. A 404 for an unknown id has no effect
  on any table and is left out.
- *Skills* are the pair (rating, uncertainty), taken as one value; `Rate` is a
  constant about which only its type is assumed. `Storable` is the CHECK
  constraints and the width of INTEGER.
- *Rounding.* `Rate` is a function from players to skills, so it cannot depend on
  the order of its inputs. The floating-point computation does, in the last
  digits (`PROJECT.json`, hazards).
- *Clock.* One clock stands for the database's and the application's.

### The other modules

- *`PlayerRegistry`*: a transaction moves through `begun`, `locked`, `updating`,
  `written`; whom it waits for is computed (`WaitsFor`) from what the others
  hold: rows `FOR UPDATE`, `KEY SHARE` of a match insert, uncommitted entries of
  the unique index. Postgres writes the row before it checks the index, so a
  rename holds its old name's row while it waits for the new name. A deadlock is
  a cycle of waits; Postgres breaks it by failing a transaction on it.
- *`LoginGate`*: each statement of `login_handler` commits by itself, so each is
  an action, and may fail or take effect unheard. The limiter's read of the clock
  and its critical section are two actions, because the code reads the clock
  before it takes the mutex. A login's id names its attempt and its session.
- *`ApiGate`*: extractors run one by one in the order of the handler's arguments;
  users, sessions and the clock move between any two. Then the service goes through
  its program of `RequestPrograms`, and may fail, or take effect unheard, at each
  step; it refuses where the code has its checks. A recalculation commits its run
  (`runs`) before its transaction begins, and marks it failed after any error, also one
  answered 400. `entitled` observes, and decides nothing.
- *`ConnectionPool`*: a program is a sequence of steps ("pool", "begin", "lock",
  "tx", "commit"). A dropped handler that waits for the lock leaves its connection
  behind until the server has answered, as sqlx cannot interrupt a statement.
- *`Startup`*: one action per fallible call of `app::run`, in its order; sqlx's
  migrator, its lock and its table are external. Environments are records of
  what the start distinguishes (pool of none, half a pair of SEED_ADMIN_*, ...).
- *`Config`*: settings are strings in small sets; parsing is a test.
- *`Leaderboard`*: every row has its own rating and uncertainty; `f64` keys are compared
  as exact fractions, and display ratings and rank scores are rounded as the code
  rounds them. `SubmitMatch` writes the rows of all who played in one step, as the
  transaction does. Their new skills are any that `Rates` allows, which is what is
  assumed of `weng_lin_multi_team`: the winner's rating does not fall, the last one's
  does not rise, no uncertainty grows. Voids, corrections and recalculations are not
  steps here (they are `RatingLedger`'s), and no action property speaks of them.
- *Sorting* (`Leaderboard`, `AuditListing`, `MatchReads`, `MatchValidation`) is
  `InOrder`: the element at place i is the one with i - 1 elements ahead of it. That
  sorts if the comparison is a strict total order (`IsOrder`), which is proved of
  each comparison used; for the leaderboard's, TLC checks it too (`OrderIsTotal`).
- *`AuditListing`*: an entry carries `known`, what could be read when its
  transaction began: an observation, no column.
- *`MatchReads`*: `get` remembers every version its row has had since the request
  came, to say that the answer is one of them.

### Mutants

A definition commented "Mistake" is a plausible bug in the definition after it:
a session lock instead of a transaction lock, a dropped status check, a missing
reset, a lost `WHERE status = 'confirmed'`, reads on the pool instead of the
transaction. They belong to no behaviour. `PROJECT.json` pairs each property of
each passing run with the mistake that makes TLC refute it.

## 3. Runs

| Run | Shows | Bounds |
|---|---|---|
| `ledger_safety` | lock, counters, audit log, correction chain, permanence of history, and that only an out-of-order submission makes ratings differ from the replay of the history | 2 players, 2 workers, 3 matches, 2 values of `played_at`, handlers dropped anywhere |
| `ledger_refinement` | the committed tables implement `AtomicLedger`; the inductive invariant | 2 players, 2 workers, 2 matches, 2 values of `played_at` and of the clock, 1 run, failing statements |
| `ledger_liveness` | every request returns, every run ends succeeded or failed, and one that says succeeded has its audit entry | 2 workers, 2 matches, 1 run, lost commit answers, a default skill from which a replay is refused |
| `match_reads` | answers of `get_match` are one version of the match; the newest match listed ends in the rating shown | 3 players, 1 worker, 2 matches, 2 values of `played_at`, and one read of the first match beside them |
| `registry` | unique names, audit log, who can deadlock, every request ends, the registry implements `AtomicRegistry`, and no player changes while a match refers to him (`SharedPlayers`) | 2 players, 2 names, 2 transactions, 4 entries, matches of 2 |
| `login` | the limit per window, justified refusals; sessions, answers and audit entries fit; logout is final | 3 logins, 2 spellings, a broken hash, limit 2, a window that ends before the clock does, every failure and restart, one logout |
| `api_gate` | entitlement of whatever is written, silence towards strangers, what 2xx and 4xx tell of the changes and of a recalculation's run | 2 requests, an admin and a player, 7 operations that differ in what they extract and write |
| `pool` | an empty pool has a user that can go on; every request returns | 3 requests, 2 connections, failures, timeouts and drops |
| `startup` | schema, starts settle, shutdowns answer what was asked and end | 2 versions, 3 starts, 1 request, kills |
| `answers` | match validation accepts exactly the rankings, and what stays replayable; the leaderboard's order, its ranks, and that a winner stays in front of those who did not play; pages of the audit log; exactly the secrets are concealed; shadowed settings | placements of 3 with places 0..4; 3 players, 2 games each, matches of 2 and 3, skills among which ratings round alike (a gain of half a point that is not shown) and one rank score comes with two display ratings; 3 transactions, 4 entries, pages of up to 3; values of depth 3; 15 variables, 2 edits |
| `ratings_are_replay` (violation) | finding 1 | |
| `rebuild_reproduces` (violation) | finding 2 | |

The parts in `answers` keep no state of their own and share none, so `MCAnswers`
puts them side by side: a behaviour is one of one part while the others rest.

*Why the bounds are enough to be worth something.* Every pair of requests is
interleaved at every step, which two workers do; a third could only wait for the
lock. Three matches are what a correction of a correction needs, and a match
before, at and after another. `MCRate` moves points between players by an amount
that depends on who was ahead, so order matters and a long losing streak reaches
a skill the table refuses: all paths of `Storable` are taken. `MaxClock`,
`IntMax` and the number of ids and runs are bounds of the models, not of the code;
the theorems of section 5 need none of them.

Elsewhere the same rule holds: bounds are chosen so that each hazard happens.
Two registry transactions after two creations can swap the names of two players;
three logins reach a limit of two, or clear it for the third; two connections are
filled by two lock waiters, with a third request in the queue; three starts let a
process be killed half way, another migrate, and the first come back; two edits
can shadow a variable and then change it.

*Symmetry.* Players and workers are only compared for equality, and `MCRate`
treats all players alike, so permutations of both are sound; so are those of
logins but for the one that logs out, of requests and of transactions. The
liveness runs use none.

*Fairness.* Weak fairness of `Advance(w)`: a request whose next statement can run
is run; the async runtime polls every ready task and Postgres executes every
statement. Strong fairness of `AcquireLock(w)`: Postgres queues waiters of a lock
and grants it in order, so one that finds the lock free again and again gets it.
Nothing is assumed of new requests, of failures or of the clock. In
`PlayerRegistry` strong fairness of `Proceeds(w)` stands for the fair queues of
row and index locks, and weak fairness of `BreakDeadlock` for `deadlock_timeout`.
`ConnectionPool` needs weak fairness only, because its two queues are modelled;
In `Startup` the migrator's lock gets strong fairness, everything else weak;
nobody need kill or stop a process.

*Deadlock* is checked everywhere but in `Startup`, where all processes may be down
with no start left, and in `answers`, where a request or an entry is looked at once
and edits are bounded.

## 4. Findings

1. `src/README.md` calls current ratings "derived", to be rebuilt "by replaying
   confirmed matches in deterministic order". `submit_match` applies a match to
   the current ratings whatever its `played_at`; a match submitted after one that
   was played later leaves ratings no replay gives (`ratings_are_replay`). The
   passing property `OnlyOutOfOrderSubmitBreaksDerivation` shows it is the only
   way ratings leave the replay of the history.
2. The column default of `uncertainty` is 8.3333333333, a replay writes
   `25.0 / 3.0`: a recalculation changes ratings that were derived already, even of
   players who have played nothing (`rebuild_reproduces`).

A behaviour worth knowing, which no document denies: when the answer of a
recalculation's `COMMIT` is lost, its run is marked failed although its replay and
its audit entry are committed. `RunOutcomeAudited` allows it: a run that says succeeded
has its audit entry, and not the other way round.

Nor does anything forbid that a dropped or killed recalculation leaves its run
`running` for ever (`RunsSettle` is checked where neither happens), that a restart
forgets login attempts (`AttemptsBounded` counts from the last restart), or that an empty
variable hides one of a later name. A rank may also fall by a win of one's own among
those who played: the match may give the loser the game he lacked to be ranked, above
the winner who still lacks some.

## 5. Proofs

All theorems hold for any constants that meet the named assumptions of the modules,
which TLC evaluates in the runs. Most are of the specification that TLC runs. Those of
`ServiceProofs` are of the specification of one part (`ValidationSpec`,
`LeaderboardSpec`, `ListingSpec`, `RedactionSpec`, `ConfigSpec`, and `Spec` of
`Startup`). In `MCAnswers` each of the first five runs while the others rest: its
`AnswersSpec` implements each of them (`AnswersImplementParts`), so that what is proved
of the parts holds of what the run checks (`AnswersStayRight`). Those about reads are of
`ReadSpec`, which implies the ledger's `Spec` (`ReadsAreBeside`).

### `SortingProofs`

Lemmas for the other proofs. `InOrderSorts`: sorting by any order that meets `IsOrder` gives each element of the
set once, and those that come before an element at lower places. In a finite
strict total order no two elements have as many ahead of them (`FewerAhead`), and each
number below the size of the set is taken: of the elements with at least so many ahead,
one with the fewest has exactly so many (`PlacesAreTaken`).

### `RatingLedgerProofs`

For any players, matches, workers and runs, any bounds, any faults and any rating
function, the specification implies always `LedgerInvariant`, and from it
`TypeOK`, `LockGuardsTransaction`, `AuditMatchesHistory`, `CorrectionsAreLinear`
and `RunOutcomeAudited`, and the action property `HistoryIsPermanent`.

*Assumptions*: `TablesAssumption`, `RateAssumption` and `LedgerAssumption`: ids are
natural numbers, defaults are storable, a rating function returns a skill for each
player it is given.

*Why a stronger invariant.* The properties speak of committed tables, which only
`Commit` changes, by publishing writes made many steps earlier. So the invariant
says what a pending write set is allowed to be (`WritesFitEvent`): the rows of a
submission are one new match; those of a void are its target, still confirmed in
the table, and rows that say of their match what the table already says
(`SameMatch`) with the status and origin it has there; and so on, in
step with the audit entry to come. This stays true while a transaction runs only
because nobody else commits matches meanwhile, which is `LockGuardsTransaction`.
`RunOwned` says the same of a run and the request that recalculates.

*The argument.* `OwnStep`: a step that writes only its own request preserves the
invariant if that request stays well formed; all actions between `BEGIN` and the
end of a transaction are instances. `FirstOfIsFirst`: a non-empty set of matches
has a first one in replay order, so the loop's next match exists and is
confirmed. `PublishedTables`: a commit makes one of four changes to the history
(a match appears, is voided, is corrected, or none), each with its audit entry;
`CommitKeepsAudit`, `CommitKeepsCorrections` and `CommitKeepsRuns` follow by these
cases. The other table writes are short. `HistoryIsPermanent` follows because only
a commit writes matches (`OnlyCommitWritesMatches`) and a commit that fits its
event keeps every row but for the status it is there to change
(`CommitKeepsRows`).

*Shared players.* `LedgerSharesPlayers`: requests write neither `active` nor the set of
players (`RequestKeepsPlayers`), a player that a match being inserted refers to has a row
(`ReferencedAreKnown`), and `SetActive` waits for the end of that insert.

*Progress.* `RequestsOnlyGoForward`: a step of a request leaves it in the same phase
or a later one (started, waiting for the lock, locked, loaded, writing, failing, idle),
and a turn of the replay loop leaves one match less to do. With `LockGuardsTransaction`
(one holder, and a holder that is under way) this is the part of `RequestsReturn` that
needs no fairness: no request goes round in a circle or back to the lock.

### `RatingHistoryProofs`

*Derived ratings.* `OnlyOutOfOrderSubmitBreaksDerivation`, under the same assumptions;
nothing else is assumed of the rating function. `DerivationInvariant` adds to `LedgerInvariant` what
the pending writes are computed from (`Fits`): a submission that has loaded or
written its match holds the ratings of the table (nobody else writes them
while the lock is held); in a replay, the matches done precede those to do, and the
ratings and snapshots written so far are what the matches done define
(`Replayed`).

`ReplayBefore` orders the matches of a table totally, and a
non-empty set of them has a latest one (`LatestExists`, by a smallest
counterexample), so `SkillAfter` means something. `PlayedLast` is the core: a match
that comes after all earlier matches of its players and was rated from what they left
extends the chain of snapshots, has the last word on its players and changes nothing
for others. It is used twice: for each turn of the replay loop (`ReplayFits`), and for the
commit of a submission that is not out of order (`SubmissionKeepsDerived`).

*Counters*, up to `CountersMatchHistory`. `total_placement` is compared with a sum over
a set of matches, a recursion on its subsets (`MapThenSumSet`). That such a sum exists,
and that any match may be taken out of it first, needs induction over sets, which is
stated here as a lemma on the set of counterexamples (`NoSmallest`: if each becomes
another one when some match is taken out, there is none). `PlayedIsCounted` then does
for counters what `PlayedLast` does for skills.

`CountingInvariant` adds to `DerivationInvariant` the counters of the
table, and of pending writes (`Counts`): a submission adds its match once to the row it
will replace; a replay has counted the matches done; a player it has not reset was
created after the reset and is as created; a void or correction leaves its target's
row as it was but voided.

*The refinement* `ImplementsAtomicLedger`. A commit is a step of `AtomicLedger`:
`SubmissionIsAtomic`, `VoidIsAtomic`, `CorrectionIsAtomic`, `RecalculationIsAtomic`, the
last three through `ReplayIsRebuild`, which shows that what the loop has computed is
what `Rebuild` describes. Creation and deactivation of players are their own steps
there; everything else stutters (`StepsAreAtomic`).

*Reads.* `AnswersAreSnapshots`, about the two statements of `get_match`. A commit leaves
a row's status and origin as they are, or it voids the row and leaves its snapshots
(`CommitTurnsRow`): a replay rewrites the snapshots of confirmed matches only, and
the match that a request voids is not among those it replays. So while `get_match`
is between its statements, its row still has the header that was read, or it has been
voided since and still has the snapshots it had before (`FoundFits`); a voided row
never changes again. `GetInvariant` is that, and what `seen` holds.

`NewestListedShowsRatings`: `ReplayBefore` orders the matches of a table (`ListIsSorted`),
so in `list_matches` a match that was played later stands at a lower place. The
first match listed for a player is the one `SkillAfter` looks at; that the list has as
many of them as the player has games is `CountersMatchHistory` (`NewestShowsSkill`).

### `PlayerRegistryProofs`

`NamesUnique`, `AuditIsHistory`, `OnlyRenamesDeadlock` and the refinements
`ImplementsAtomicRegistry` and `ImplementsSharedPlayers`, for any players, names and
transactions. (`RegistryAssumption`: the marks of no player and no name are neither, and
the transactions are finitely many, as each has a connection of the pool.)

`RegistryInvariant` adds to the properties what the locks are for: a row is held
`FOR UPDATE` by one transaction (`RowsAreExclusive`); while it is held, the `before`
a transaction has read is the row in the table (`UpdateShape`); a name entered in
the index and not yet committed is nobody's and entered once
(`EnteredNamesAreFree`, `EnteredNamesAreUnique`). So a commit publishes a name that
is still free (`CommitKeepsNames`) and an entry whose old value is the last one's
new value (`CommitKeepsEntries`), and is a step of `AtomicRegistry`
(`CommitIsAtomic`); every other step stutters. For deadlocks: on a cycle
everybody waits and is waited for (`OnCycle`); an update that still waits for its row
holds nothing anybody waits for; so everybody on a cycle has his row and waits for a
name.

*Progress.* `SomebodyAlwaysGetsOn`: while there are transactions, one of them can go on or
is on a cycle that Postgres will break. If all wait, a smallest non-empty set
whose members wait for members of it is such a cycle (`AllWaitingDeadlock`).
`RequestsOnlyGoForward`: a step of a transaction brings it nearer to its end.

*Shared players.* `RegistrySharesPlayers`, by `SharingInvariant`: a row held
`FOR UPDATE` is referred to by no match insert, and referenced players have rows.

### `LoginGateProofs`

`AttemptsBounded`, `RefusalsJustified`, `LoginsOnRecord` and `LogoutIsFinal`, for any
limit and window and any finite number of logins (`LoginAssumption`).

`LimiterHolds`: for each key, the attempts remembered are among those let through,
at most `Limit`, and contain all that are younger than the window. The last part
is what a clock read before the mutex could break: an attempt is removed by a
login whose own time is at most `now`, so what it removes is too old for everybody
after it (`CheckHolds`). `RecordHolds` ties the place of a handler to its session,
audit entry and answer, and `LogoutHolds` an answered logout to a revoked row that
nothing makes valid again.

### `ApiGateProofs`

`EffectsWereEntitled`, `RefusalsTellNothing` and `AnswersTellOutcome`, for any
requests, users, sessions and tables to begin with. `KeeperComesFirst`: the
extractors of every operation that is not public begin with the one that keeps
strangers out. `Gated`: a request that was never entitled still has its keeper
ahead, or has been answered 401, 403 or 500, so it has written nothing. `Left` says what
may remain of a service: its changes are committed by the last step and by no other
(`TransactionsClosed`, `ServiceIsLeft`). So the request that has nothing left has its
effect, whoever is refused has none, as the code refuses nothing after a commit
(`RefusesInTime`), and a step whose answer is lost is answered 500 (`Tells`).
`TypeCorrect` is type correctness of the same specification.

### `ConnectionPoolProofs`

`PoolIsServed`, for any number of requests and connections. `ProgramsWellFormed`:
in the program of every operation, what follows a "begin" is statements and lock
requests up to a "commit", and nothing that asks the pool. `PoolInvariant` keeps that
of the rest of each program, and that everybody in the lock's queue has a connection.
If all connections are taken, some user of one is outside a transaction and can
finish his statement, or all are in one; then the head of the lock's queue, or any of
them if none waits, goes on (`SomebodyCanGoOn`). It would fail for a program that asked
for a second connection in its transaction.

`TypeCorrect` includes that there are never more than `MaxConnections` connections.
`SomebodyAlwaysGetsOn`: while a request is under way, some request can take a step, so the
pool is never in a state where all wait for each other. It needs that a request without a
transaction is not past a "begin" (`OrderHolds`): whoever is under way can step,
or is in a queue with room, or somebody who has a connection can go on.

### `ServiceProofs`

*Validation.* `AcceptedIsRanking` and `AcceptedStaysReplayable`, for requests of any
length, with any numbers as places. The code sorts the places and compares them
with 1..n. `RankingIsSorted`: if they are 1..n in any order, the place k has k - 1 places
ahead of it, so sorting puts it k-th. `SortedIsRanking` is the converse. A sorted ranking
is a ranking again (`StoredIsRanking`), which is why a replay accepts what is stored.

*Leaderboard.* `OrderIsTotal`, `RanksAreReference` and `WinnersKeepBystandersBehind`, for
any skills, any `min_games` and any number of players. (`LeaderboardAssumption`; the last
of the three rests on `Rates`, the others on nothing about the rating algorithm.) `BoardInvariant` is that a row is plausible:
no more wins than games. `RankedMeans` and `UnrankedMeans` say which row the nested
comparison puts in front as one disjunction; the win rate is reached only by
rows with equally many wins, where it says that fewer games are better
(`RatesOfSameWins`). From that the order is transitive (`InFrontTransitive`). Ranked
rows stand before the others, so the number counted up to a row is one more than the
number of ranked rows in front of it, which are those that `Beats` names
(`BeatsIsInFront`, `RanksCount`). The winner of a match gets a game and a win, no
lower rating and no higher uncertainty (`WinsLiftRow`), so neither score falls, as
rounding is monotone (`RoundingIsMonotone`): each key that can decide is kept or gets better
(`BetterStaysInFront`).

*Audit listing.* `CausesAreListedBelow` and `PagesHaveNoGaps`, for any number of
transactions and entries. `ListingInvariant`: ids name entries (`IdsName`), what an entry
may have read was committed and has an earlier `created_at`, as the clock moves with
each commit (`TimesFollow`), and a page is sorted and committed (`IsPage`).

*Redaction.* `OnlySecretsAreConcealed`, for any keys and secrets, values of any depth and
width (`RedactionAssumption`: a key is a word, in capitals or not). The values of a depth, what the
filter makes of a value and the nodes of a value are recursive functions on the depth.
That each of them exists (`ValuesExist`, `RedactionExists`, `SpreadExists`) is shown by a
smallest depth at which it would not; then a response hides what it must, and
nothing else, at depth 0 and, if at one depth, at the next (`ResponsesHide`).

*Settings.* `ShadowedNamesDoNotMatter`, for any variables and values. The first name
that is set stays the first when names after it change, in the environment or in
the file (`SameFirst`, `ShadowedAreUnseen`); `ENV_FILE` and `ENV_TEST`, which choose the file, are
never shadowed. `NamesAssumption`: every name the code looks up is a variable.

*Start-up.* `ServesOnItsSchema`, for any number of processes and versions. The
migrations applied are the first ones without a gap, and no process is past the migrator
unless it found or made as many as it knows; rows of `_sqlx_migrations` never go.
`RequestsStayServedOnce`: one process at most listens, and what it has accepted is in no
other process and not yet answered. `ShutdownKeepsRequests`: a request that was accepted
is only ever answered or lost to a kill, never to an orderly shutdown. These are the
safety half of `ShutdownIsGraceful`.

### Only model-checked

- Liveness under fairness, which is beyond the prover: `RequestsReturn`, `RunsSettle`
  and those of registry, pool and start-up. Proved is what they rest on: that somebody
  can go on, that steps lead to the end, that only kills lose requests. That
  fairness makes them happen is TLC's part.
- The two findings of section 4: TLC shows a behaviour.

## 6. Not modelled

- The numerical content of Weng-Lin (`skillratings`) and of argon2: external
  crates, represented by what the code relies on.
- Wording of messages, JSON encoding, logging, cookie attributes, the columns that
  nothing compares (`notes`, `user_id`, `average_placement`, `last_seen_at`).
- The browser UI (`static/`, `api/ui.rs`): pages and a script without state the
  server relies on.
- `application/repository/` and `api/version.rs`: no module declares them, so they
  are not part of the build. `insert_user`, `find_user_by_id` and
  `set_player_active` are called by tests only; `set_user_active` too, but it is
  in the models because an operator's statement has the same effect.
- Two server processes sharing the login limiter: it is in memory, each has its
  own, and nothing relates them.
