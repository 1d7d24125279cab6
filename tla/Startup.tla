------------------------------- MODULE Startup -------------------------------
(***************************************************************************)
(* A process of the backend from its command line to its exit (main, app,  *)
(* db, api/server): configuration, database pool, migrations, the seeded   *)
(* administrator, the listener, requests, graceful shutdown.  Several      *)
(* processes share one database and may run different versions of the      *)
(* program; each can be killed at any step and started again.              *)
(***************************************************************************)
EXTENDS Integers, FiniteSets, Sequences

CONSTANTS
  Instance,   \* processes
  Known,      \* Known[i]: how many migrations the binary of i has embedded
  Request,    \* bound: each is sent once
  MaxStarts,  \* bound: starts, of all processes together
  NoInstance

ASSUME StartupAssumption ==
  /\ Known \in [Instance -> Nat \ {0}]
  /\ NoInstance \notin Instance
  /\ MaxStarts \in Nat

VARIABLES
  applied,   \* _sqlx_migrations: the migrations applied, in order
  admin,     \* the users row of the seeded administrator: who wrote it last
  migrator,  \* who holds the lock of sqlx's migrator
  proc,      \* each process
  starts,    \* how often a process was started
  sent,      \* requests a process has accepted
  answered   \* those that got their answer

database == <<applied, admin, migrator>>
vars == <<database, proc, starts, sent, answered>>

\* The first error ends a start, so that an environment has one at most.
Errors(e) ==
  <<e.config = "invalid", e.pool = 0, e.host = "name", e.seed \in {"half", "blank"}>>

\* What a process finds in its environment and on its command line.
\* config: whether Config::load_from_lookup succeeds; pool: max_connections;
\* host: an IP address, as SocketAddr wants it, or a name; seed: the pair
\* SEED_ADMIN_USERNAME, SEED_ADMIN_PASSWORD, or the arguments of seed-admin.
Environment ==
  {e \in [command : {"serve", "seed-admin"}, config : {"valid", "invalid"},
          pool : {0, 5}, host : {"address", "name"},
          seed : {"unset", "half", "blank", "set"}] :
     /\ e.command = "seed-admin" => e.seed \in {"blank", "set"} /\ e.host = "address"
     /\ \A i, j \in 1..4 : Errors(e)[i] /\ Errors(e)[j] => i = j}

\* at: "down", or the step of app::run or app::seed_admin the process is at.
\* inFlight: the requests it is serving; status: how it last ended.
DownProc == [at |-> "down", env |-> <<>>, inFlight |-> {}, status |-> "none"]

Starting == {"load", "connect", "lock", "migrate", "seed", "bind"}

Init ==
  /\ applied = <<>> /\ admin = NoInstance /\ migrator = NoInstance
  /\ proc = [i \in Instance |-> DownProc]
  /\ starts = 0 /\ sent = {} /\ answered = {}

Moves(i, from, to) ==
  /\ proc[i].at = from
  /\ proc' = [proc EXCEPT ![i].at = to]
  /\ UNCHANGED <<starts, sent, answered>>

\* The end of a process.  Its connections end with it, and so does the
\* migrator's lock, which belongs to a session.
Exit(i, status) ==
  /\ proc' = [proc EXCEPT ![i] = [DownProc EXCEPT !.status = status]]
  /\ migrator' = IF migrator = i THEN NoInstance ELSE migrator
  /\ UNCHANGED <<applied, admin, starts, sent, answered>>

-----------------------------------------------------------------------------
(* Starting *)

\* main: run_command.  Any other command line ends with an error at once.
RunCommand(i) ==
  /\ proc[i].at = "down" /\ starts < MaxStarts
  /\ \E e \in Environment :
       proc' = [proc EXCEPT ![i] = [DownProc EXCEPT !.at = "load", !.env = e]]
  /\ starts' = starts + 1
  /\ UNCHANGED <<database, sent, answered>>

LoadConfig(i) ==
  /\ Moves(i, "load", "connect") /\ UNCHANGED database
  /\ proc[i].env.config = "valid"

\* PgPoolOptions::connect opens a first connection, which a pool of none cannot.
Connect(i) ==
  /\ Moves(i, "connect", "lock") /\ UNCHANGED database
  /\ proc[i].env.pool > 0

\* sqlx::migrate!(..).run: the lock, then the migrations already applied are
\* compared with the embedded ones: one that the binary does not know is an error.
LockMigrations(i) ==
  /\ migrator = NoInstance
  /\ migrator' = i
  /\ Moves(i, "lock", "migrate") /\ UNCHANGED <<applied, admin>>

KnowsApplied(i) == Len(applied) <= Known[i]

\* Each migration and its row in _sqlx_migrations are one transaction.
ApplyMigration(i) ==
  /\ KnowsApplied(i) /\ Len(applied) < Known[i]
  /\ applied' = Append(applied, Len(applied) + 1)
  /\ Moves(i, "migrate", "migrate") /\ UNCHANGED <<admin, migrator>>

\* Mistake: the administrator is seeded as soon as the lock is held.
MigratedEarly(i) ==
  /\ KnowsApplied(i)
  /\ migrator' = NoInstance
  /\ Moves(i, "migrate", "seed") /\ UNCHANGED <<applied, admin>>

Migrated(i) ==
  /\ Len(applied) = Known[i]
  /\ migrator' = NoInstance
  /\ Moves(i, "migrate", "seed") /\ UNCHANGED <<applied, admin>>

\* seed_admin_from_environment: a pair that is half set is refused; and
\* seed_admin_with_pool: so is a blank name or password.
SeedRefused(env) == env.seed \in {"half", "blank"}

\* ensure_admin_user: an INSERT .. ON CONFLICT DO UPDATE, so that the password
\* is the one of whoever started last.
SeedAdmin(i) ==
  /\ Moves(i, "seed", "bind")
  /\ ~SeedRefused(proc[i].env)
  /\ admin' = IF proc[i].env.seed = "set" THEN i ELSE admin
  /\ UNCHANGED <<applied, migrator>>

\* app::seed_admin ends here.
SeedAdminDone(i) ==
  /\ proc[i].at = "bind" /\ proc[i].env.command = "seed-admin"
  /\ Exit(i, "success")

Listening == {i \in Instance : proc[i].at = "serving"}

\* server::start: the address is parsed only now; all processes are on one
\* machine and configured with one port.
Bind(i) ==
  /\ Moves(i, "bind", "serving") /\ UNCHANGED database
  /\ proc[i].env.command = "serve" /\ proc[i].env.host = "address"
  /\ Listening = {}

\* Mistake: a port that is in use is waited for.
RefusedUnlessBusy(i) ==
  LET p == proc[i]
  IN  \/ p.at = "load" /\ p.env.config = "invalid"
      \/ p.at = "connect" /\ p.env.pool = 0
      \/ p.at = "migrate" /\ ~KnowsApplied(i)
      \/ p.at = "seed" /\ SeedRefused(p.env)
      \/ p.at = "bind" /\ p.env.command = "serve" /\ p.env.host = "name"

\* A step of the start that cannot succeed: a StartupError.
Refused(i) ==
  LET p == proc[i]
  IN  \/ p.at = "load" /\ p.env.config = "invalid"
      \/ p.at = "connect" /\ p.env.pool = 0
      \/ p.at = "migrate" /\ ~KnowsApplied(i)
      \/ p.at = "seed" /\ SeedRefused(p.env)
      \/ /\ p.at = "bind" /\ p.env.command = "serve"
         /\ (p.env.host = "name" \/ Listening # {})

\* main: the error is logged, exit(1).
StartRefused(i) == Refused(i) /\ Exit(i, "failure")

\* The database does not answer, or an operator or the system kills the
\* process; before the server runs no signal handler is installed.
Killed(i) == proc[i].at # "down" /\ Exit(i, "killed")

-----------------------------------------------------------------------------
(* Serving *)

Accept(i, r) ==
  /\ proc[i].at = "serving" /\ r \notin sent
  /\ proc' = [proc EXCEPT ![i].inFlight = @ \cup {r}]
  /\ sent' = sent \cup {r}
  /\ UNCHANGED <<database, starts, answered>>

\* Any handler; also /healthz, which looks at nothing, and /readyz, which asks
\* the database for SELECT 1.
Answer(i, r) ==
  /\ r \in proc[i].inFlight
  /\ proc' = [proc EXCEPT ![i].inFlight = @ \ {r}]
  /\ answered' = answered \cup {r}
  /\ UNCHANGED <<database, starts, sent>>

\* shutdown_signal: Ctrl-C or SIGTERM.  The listener is closed at once; further
\* signals are received by nobody.
Signal(i) ==
  Moves(i, "serving", "draining") /\ UNCHANGED database

\* Mistake: the server stops without looking at its connections.
DrainedAtOnce(i) == proc[i].at = "draining" /\ Exit(i, "success")

\* with_graceful_shutdown: the server ends once every connection has.
Drained(i) ==
  /\ proc[i].at = "draining" /\ proc[i].inFlight = {}
  /\ Exit(i, "success")

-----------------------------------------------------------------------------
Advance(i) ==
  \/ LoadConfig(i) \/ Connect(i)
  \/ ApplyMigration(i) \/ Migrated(i)
  \/ SeedAdmin(i) \/ SeedAdminDone(i) \/ Bind(i)
  \/ StartRefused(i) \/ Drained(i)
  \/ \E r \in Request : Answer(i, r)

Next ==
  \E i \in Instance : \/ RunCommand(i) \/ LockMigrations(i) \/ Advance(i)
                      \/ Signal(i) \/ Killed(i)
                      \/ \E r \in Request : Accept(i, r)

Spec == Init /\ [][Next]_vars

\* A process goes on with what it does, and Postgres grants the migrator's lock
\* in the order of its queue.
FairSpec ==
  Spec /\ \A i \in Instance : WF_vars(Advance(i)) /\ SF_vars(LockMigrations(i))

-----------------------------------------------------------------------------
(* Properties *)

\* A process that answers requests, or did until it was told to stop, finds
\* every table its binary was written for: the migrations of its version are
\* applied, each once and in their order, whoever else starts, fails, or is
\* killed half way.
ServesOnItsSchema ==
  \A i \in Instance :
    proc[i].at \in {"bind", "serving", "draining"} =>
      /\ Len(applied) >= Known[i]
      /\ \A k \in DOMAIN applied : applied[k] = k

\* Every start comes to an end: the process serves, or it is down again; two
\* processes starting at once do not block each other.
StartsSettle ==
  \A i \in Instance : proc[i].at \in Starting ~> proc[i].at \in {"serving", "down"}

\* A process that is told to stop does, and each request it was serving then got
\* its answer, unless the process was killed meanwhile.
ShutdownIsGraceful ==
  \A i \in Instance :
    /\ proc[i].at = "draining" ~> proc[i].at = "down"
    /\ \A r \in Request :
         proc[i].at = "draining" /\ r \in proc[i].inFlight
           ~> r \in answered \/ proc[i].status = "killed"
=============================================================================
