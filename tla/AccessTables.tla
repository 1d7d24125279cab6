---------------------------- MODULE AccessTables ----------------------------
(***************************************************************************)
(* The tables users and user_sessions, and what a request may do according *)
(* to them: the AuthenticatedUser and AdminUser extractors and the         *)
(* statements behind them (session_repo, user_repo).                       *)
(*                                                                         *)
(* users is a partial function from names to rows, because username is     *)
(* unique and rows are never deleted; sessions is one from session ids.    *)
(***************************************************************************)
EXTENDS Naturals

CONSTANTS
  Name,       \* user names as they are typed
  Password,
  Malformed,  \* a password_hash that argon2 cannot parse
  Ttl         \* SESSION_TTL_HOURS

ASSUME AccessAssumption ==
  /\ Malformed \notin Password
  /\ Ttl \in Nat \ {0}

Role == {"admin", "player"}

\* A hash is known by the one password it verifies.
UserRow == [hash : Password \cup {Malformed}, role : Role, active : BOOLEAN]

\* The row of user_sessions a login leaves, revoked_at being NULL.
NewSession(name, expires) == [user |-> name, expires |-> expires, revoked |-> FALSE]

SessionRow == [user : Name, expires : Nat, revoked : BOOLEAN]

\* Mistake: the session is looked up without a look at revoked_at.
AuthenticatesUnrevoked(sessions, users, s, now) ==
  /\ s \in DOMAIN sessions
  /\ sessions[s].user \in DOMAIN users
  /\ sessions[s].expires > now
  /\ users[sessions[s].user].active

\* The WHERE clause of find_authenticated_user_by_session_id, which also sets
\* last_seen_at, a column nothing reads.
Authenticates(sessions, users, s, now) ==
  /\ s \in DOMAIN sessions
  /\ sessions[s].user \in DOMAIN users
  /\ ~sessions[s].revoked
  /\ sessions[s].expires > now
  /\ users[sessions[s].user].active

\* Mistake: whoever is logged in may do what an admin may.
IsAnybody(user) == TRUE

\* require_admin, of the row as it was when the session was looked up.
IsAdmin(user) == user.role = "admin"

\* verify_password of a well-formed hash.
Verifies(password, hash) == hash = password

Revoke(sessions, s) ==
  [sessions EXCEPT ![s].revoked = TRUE]

\* ensure_admin_user: INSERT ... ON CONFLICT (username) DO UPDATE.
EnsureAdmin(users, name, password) ==
  [n \in DOMAIN users \cup {name} |->
     IF n = name THEN [hash |-> password, role |-> "admin", active |-> TRUE]
     ELSE users[n]]
=============================================================================
