-------------------------- MODULE RequestPrograms ---------------------------
(***************************************************************************)
(* The API operations: who may call them, what their handlers extract from *)
(* a request, and the order in which each of them uses the database.       *)
(*                                                                         *)
(* Steps of a program:                                                     *)
(*   "pool"    one statement on a connection of its own                    *)
(*   "begin"   a connection is taken and kept, BEGIN                       *)
(*   "lock"    pg_advisory_xact_lock on that connection                    *)
(*   "tx"      the statements of the transaction                           *)
(*   "commit"  COMMIT, the connection goes back                            *)
(***************************************************************************)
EXTENDS Sequences

Public == {"login", "list_players", "get_player", "list_matches", "get_match",
           "get_leaderboard", "readyz"}
ForUsers == {"logout", "me"}
ForAdmins == {"create_player", "update_player", "delete_player", "submit_match",
              "void_match", "correct_match", "recalculate_ratings", "list_audit_log"}
Operation == Public \cup ForUsers \cup ForAdmins

\* Operations that write players, and those that change the ledger, under the
\* advisory lock.
PlayerWrites == {"create_player", "update_player", "delete_player"}
LedgerWrites == {"submit_match", "void_match", "correct_match", "recalculate_ratings"}

TakesPath == {"get_player", "update_player", "delete_player", "get_match",
              "void_match", "correct_match"}
TakesQuery == {"list_players", "get_leaderboard", "list_audit_log"}
TakesBody == {"login", "create_player", "update_player", "submit_match",
              "correct_match", "recalculate_ratings"}

Takes(part, ops, o) == IF o \in ops THEN <<part>> ELSE <<>>

\* Mistake: the user is the last argument before the body.
ExtractorsUserLate(o) ==
  Takes("path", TakesPath, o) \o Takes("query", TakesQuery, o)
    \o Takes("user", ForUsers, o) \o Takes("admin", ForAdmins, o)
    \o Takes("body", TakesBody, o)

\* The arguments of the handler of o after State, which axum extracts in turn.
Extractors(o) ==
  Takes("user", ForUsers, o) \o Takes("admin", ForAdmins, o)
    \o Takes("path", TakesPath, o) \o Takes("query", TakesQuery, o)
    \o Takes("body", TakesBody, o)

\* The AuthenticatedUser and AdminUser extractors look up the session.
Session(op) == IF op \in Public THEN <<>> ELSE <<"pool">>

\* Mistake: the audit entry of a transaction is written through the pool.
LedgerTransactionAuditedOutside == <<"begin", "lock", "tx", "pool", "commit">>

LedgerTransaction == <<"begin", "lock", "tx", "commit">>

\* find_user_by_username, insert_session, record_login_audit.
Login == <<"pool", "pool", "pool">>

\* find_match_by_id and list_match_participants.
GetMatch == <<"pool", "pool">>

\* The run is inserted outside the transaction.
Recalculate == <<"pool">> \o LedgerTransaction

Service(op) ==
  CASE op = "login" -> Login
    [] op = "get_match" -> GetMatch
    [] op = "me" -> <<>>
    [] op \in PlayerWrites -> <<"begin", "tx", "commit">>
    [] op = "recalculate_ratings" -> Recalculate
    [] op \in LedgerWrites \ {"recalculate_ratings"} -> LedgerTransaction
    [] OTHER -> <<"pool">>

Program(op) == Session(op) \o Service(op)

\* What follows a failure at todo: a recalculation whose transaction failed, or
\* could not begin, marks its run as failed.
Rescue(op, todo) ==
  IF op = "recalculate_ratings" /\ todo # <<>> /\ Head(todo) # "pool"
  THEN <<"pool">> ELSE <<>>
=============================================================================
