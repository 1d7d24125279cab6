------------------------------ MODULE ApiGate -------------------------------
(***************************************************************************)
(* From a request to its answer (routes, handlers, extractors, ApiError):  *)
(* axum runs a handler's extractors in the order of its arguments, the     *)
(* user first, then path, query and body; then the service goes through    *)
(* its database program (RequestPrograms), step by step.                   *)
(*                                                                         *)
(*   idle -> extract -> ... -> service -> ... -> done                      *)
(*                                                                         *)
(* A recalculation commits its run before its transaction begins, and      *)
(* after a failure marks it failed before it answers ("rescue").           *)
(*                                                                         *)
(* The user and the role are those of one look at the session.  Sessions,  *)
(* roles and the clock go on changing while the request waits for its      *)
(* body, a connection, a lock.                                             *)
(***************************************************************************)
EXTENDS AccessTables, RequestPrograms

CONSTANTS
  Request,         \* each is used once
  SessionId, NoSession,
  Offered,         \* bound: the operations requests ask for
  InitialUser, InitialSession,
  MaxTime          \* bound: the clock stops here

ASSUME ApiAssumption ==
  /\ Offered \subseteq Operation \ {"login", "readyz"}
  /\ NoSession \notin SessionId
  /\ DOMAIN InitialUser \subseteq Name /\ DOMAIN InitialSession \subseteq SessionId
  /\ \A n \in DOMAIN InitialUser : InitialUser[n] \in UserRow
  /\ \A s \in DOMAIN InitialSession : InitialSession[s] \in SessionRow
  /\ MaxTime \in Nat

VARIABLES
  now, users, sessions,
  req,      \* the requests
  effects,  \* requests whose changes are committed
  runs,     \* rating_recalculation_runs: the status of the run of each request
  entitled  \* observed: requests that since their arrival, at some moment before
            \* their effect, came with a session that entitled them

vars == <<now, users, sessions, req, effects, runs, entitled>>

NewRequest ==
  [at |-> "idle", op |-> "me", session |-> NoSession, wellFormed |-> TRUE,
   rest |-> <<>>, status |-> 0]

Init ==
  /\ now = 0 /\ users = InitialUser /\ sessions = InitialSession
  /\ req = [r \in Request |-> NewRequest]
  /\ effects = {} /\ runs = [r \in Request |-> "none"] /\ entitled = {}

Writes(o) == o = "logout" \/ o \in ForAdmins \ {"list_audit_log"}

UserOf(s) == users[sessions[s].user]

Entitles(s, o) ==
  \/ o \in Public
  \/ /\ Authenticates(sessions, users, s, now)
     /\ o \in ForAdmins => UserOf(s).role = "admin"

Answers(r, status) == req' = [req EXCEPT ![r].at = "done", ![r].status = status]
Keeps == UNCHANGED <<now, users, sessions, effects, runs>>

-----------------------------------------------------------------------------
(* Extractors *)

Arrive(r) ==
  /\ req[r].at = "idle"
  /\ \E o \in Offered, s \in SessionId \cup {NoSession}, ok \in BOOLEAN :
       req' = [req EXCEPT ![r] = [at |-> "extract", op |-> o, session |-> s,
                                  wellFormed |-> ok, rest |-> Extractors(o), status |-> 0]]
  /\ Keeps

Turn(r, parts) ==
  req[r].at = "extract" /\ req[r].rest # <<>> /\ Head(req[r].rest) \in parts

GoesOn(r) == req' = [req EXCEPT ![r].rest = Tail(@)]

\* FromRequestParts of AuthenticatedUser and AdminUser: 401, 403, or go on.
LookUp(r) ==
  LET s == req[r].session IN
  /\ Turn(r, {"user", "admin"})
  /\ \/ ~Authenticates(sessions, users, s, now) /\ Answers(r, 401)
     \/ /\ Authenticates(sessions, users, s, now)
        /\ IF Head(req[r].rest) = "admin" /\ ~IsAdmin(UserOf(s)) THEN Answers(r, 403)
                                                              ELSE GoesOn(r)
  /\ Keeps

\* The statement of the look-up fails, or no connection is free in time.
LookUpFails(r) ==
  /\ Turn(r, {"user", "admin"})
  /\ Answers(r, 500)
  /\ Keeps

\* Path, Query and Json: whatever they reject is answered 4xx, here 400.
Parse(r) ==
  /\ Turn(r, {"path", "query", "body"})
  /\ IF req[r].wellFormed THEN GoesOn(r) ELSE Answers(r, 400)
  /\ Keeps

Admit(r) ==
  /\ req[r].at = "extract" /\ req[r].rest = <<>>
  /\ req' = [req EXCEPT ![r].at = "service", ![r].rest = Service(req[r].op)]
  /\ Keeps

-----------------------------------------------------------------------------
(* Services *)

Success(o) ==
  CASE o \in {"create_player", "submit_match", "correct_match"} -> 201
    [] o \in {"delete_player", "logout"} -> 204
    [] OTHER -> 200

\* Mistake: every database error of a write is reported as a duplicate.
DatabaseConflict(e) == 409

\* From<sqlx::Error>.
DatabaseStatus(e) == IF e = "row_not_found" THEN 404 ELSE 500

\* What the step at hand commits: a transaction ends with COMMIT, a statement on a
\* connection of its own commits at once.
Commits(r) ==
  LET o    == req[r].op
      step == Head(req[r].rest)
  IN  /\ effects' = IF step = "commit" \/ o = "logout" THEN effects \cup {r} ELSE effects
      /\ sessions' = IF o = "logout" THEN Revoke(sessions, req[r].session) ELSE sessions
      /\ runs' = IF o = "recalculate_ratings" /\ step \in {"pool", "commit"}
                 THEN [runs EXCEPT ![r] = IF step = "pool" THEN "running" ELSE "succeeded"]
                 ELSE runs
      /\ UNCHANGED <<now, users>>

\* The service ends with an error, after what it still has to write.
Ends(r, status) ==
  LET after == Rescue(req[r].op, req[r].rest) IN
  req' = [req EXCEPT ![r].at = IF after = <<>> THEN "done" ELSE "rescue",
                     ![r].rest = after, ![r].status = status]

\* The errors of the services themselves: before they use the database, after the
\* one look of a read, or among the statements of a transaction.
Refusals(o, rest) ==
  (IF rest # Service(o) THEN {}
   ELSE IF o \in {"create_player", "update_player", "submit_match", "correct_match",
                  "recalculate_ratings", "list_audit_log", "get_leaderboard"} THEN {400}
   ELSE IF o \in {"get_player", "get_match"} THEN {404} ELSE {})
  \cup
  (IF rest = <<>> \/ Head(rest) # "tx" THEN {}
   ELSE CASE o = "create_player" -> {409}
          [] o = "update_player" -> {404, 409}
          [] o = "delete_player" -> {404}
          [] o \in {"void_match", "correct_match"} -> {400, 404, 409}
          [] OTHER -> {400})

Advance(r) ==
  /\ req[r].at = "service" /\ req[r].rest # <<>>
  /\ Commits(r)
  /\ GoesOn(r)

Succeed(r) ==
  /\ req[r].at = "service" /\ req[r].rest = <<>>
  /\ Answers(r, Success(req[r].op))
  /\ Keeps

\* A step fails, or nothing but its answer is lost.
Fail(r) ==
  /\ req[r].at = "service" /\ req[r].rest # <<>>
  /\ Commits(r) \/ Keeps
  /\ Ends(r, DatabaseStatus("connection"))

Refuse(r) ==
  /\ req[r].at = "service"
  /\ \E status \in Refusals(req[r].op, req[r].rest) : Ends(r, status)
  /\ Keeps

\* finish_recalculation_run(Failed), whose own failure is ignored.
MarkFailed(r) ==
  /\ req[r].at = "rescue"
  /\ req' = [req EXCEPT ![r].at = "done"]
  /\ runs' = runs \/ runs' = [runs EXCEPT ![r] = "failed"]
  /\ UNCHANGED <<now, users, sessions, effects>>

-----------------------------------------------------------------------------
(* What goes on meanwhile *)

SetUserActive(n) ==
  /\ n \in DOMAIN users
  /\ users' = [users EXCEPT ![n].active = ~@]
  /\ UNCHANGED <<now, sessions, req, effects, runs>>

SeedAdmin(n, p) ==
  /\ users' = EnsureAdmin(users, n, p)
  /\ UNCHANGED <<now, sessions, req, effects, runs>>

Tick ==
  /\ now < MaxTime
  /\ now' = now + 1
  /\ UNCHANGED <<users, sessions, req, effects, runs>>

Serves(r) ==
  \/ Arrive(r) \/ LookUp(r) \/ LookUpFails(r) \/ Parse(r) \/ Admit(r)
  \/ Advance(r) \/ Succeed(r) \/ Fail(r) \/ Refuse(r) \/ MarkFailed(r)

\* Requests that have written: their changes, or the run of a recalculation.
Written == effects \cup {r \in Request : runs[r] # "none"}

Observes ==
  entitled' = entitled \cup
    {r \in Request \ Written :
       req'[r].at # "idle" /\ Entitles(req[r].session, req[r].op)'}

Next ==
  /\ \/ \E r \in Request : Serves(r)
     \/ \E n \in Name : SetUserActive(n)
     \/ \E n \in Name, p \in Password : SeedAdmin(n, p)
     \/ Tick
  /\ Observes

Spec == Init /\ [][Next]_vars

-----------------------------------------------------------------------------
(* Properties *)

RequestRecord ==
  [at : {"idle", "extract", "service", "rescue", "done"}, op : Operation,
   session : SessionId \cup {NoSession}, wellFormed : BOOLEAN,
   rest : Seq({"user", "admin", "path", "query", "body",
               "pool", "begin", "lock", "tx", "commit"}),
   status : {0, 200, 201, 204, 400, 401, 403, 404, 409, 500}]

TypeOK ==
  /\ now \in Nat
  /\ DOMAIN users \subseteq Name /\ \A n \in DOMAIN users : users[n] \in UserRow
  /\ DOMAIN sessions \subseteq SessionId
  /\ \A s \in DOMAIN sessions : sessions[s] \in SessionRow
  /\ req \in [Request -> RequestRecord]
  /\ effects \subseteq Request /\ entitled \subseteq Request
  /\ runs \in [Request -> {"none", "running", "succeeded", "failed"}]

\* Nothing is written for a caller who was not entitled to it at some moment
\* between the arrival of the request and its first write: although roles, users,
\* sessions and the clock move on while a request is under way, a write later than
\* the end of a session comes from a request that was there before it.
EffectsWereEntitled == Written \subseteq entitled

\* A caller who was never entitled learns nothing but that: no answer depends on
\* the path, the body or the state of players and matches (argument order of the
\* handlers).
RefusalsTellNothing ==
  \A r \in Request \ entitled : req[r].status \in {0, 401, 403, 500}

\* What a caller may conclude from an answer.  After 2xx the changes are committed
\* and a recalculation's run says succeeded.  After 4xx nothing is changed and the
\* request can be corrected and sent again, although a recalculation that is
\* refused in its transaction leaves a run, which does not say succeeded.  Only
\* after 500 the caller has to look: the changes may be there, whatever a run says.
AnswersTellOutcome ==
  \A r \in Request :
    req[r].at = "done" =>
      /\ req[r].status \in 200..299 =>
           /\ Writes(req[r].op) => r \in effects
           /\ req[r].op = "recalculate_ratings" => runs[r] = "succeeded"
      /\ req[r].status \in 400..499 => r \notin effects /\ runs[r] # "succeeded"
=============================================================================
