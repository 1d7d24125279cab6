----------------------------- MODULE LoginGate ------------------------------
(***************************************************************************)
(* Login and logout (auth_handlers): the in-memory rate limiter behind a   *)
(* mutex, the user's row, the password, the session row and the audit      *)
(* entry, each of which commits on its own, in this order:                 *)
(*                                                                         *)
(*   idle -> limiter -> lookup -> refuse -> done (401)                     *)
(*              |          |                                               *)
(*              |          +---> grant -> record -> clear -> done (200)    *)
(*              +-> done (429)                                             *)
(*                                                                         *)
(* The limiter lives in one process and is gone after a restart; users,    *)
(* sessions and audit entries stay.  A login request is used once, so that *)
(* its id also names the attempt and the session it opens.                 *)
(***************************************************************************)
EXTENDS AccessTables, FiniteSets

CONSTANTS
  Login,        \* login requests
  Key,          \* name |-> key of the limiter: trimmed, in lower case
  Limit,        \* LOGIN_RATE_LIMIT_ATTEMPTS
  Window,       \* LOGIN_RATE_LIMIT_WINDOW_SECONDS
  InitialUser,  \* users at the beginning: rows are inserted by hand
  Operated,     \* names whose user is activated, deactivated or seeded meanwhile
  LoggingOut,   \* bound: the logins whose sessions log out
  Faults,       \* the faults that may happen: a subset of Fault
  MaxTime       \* bound: the clock stops here

\* "fail": a statement fails or a handler is dropped; "restart": of the process.
Fault == {"fail", "restart"}

ASSUME LoginAssumption ==
  /\ IsFiniteSet(Login) /\ Name # {} /\ Password # {}
  /\ DOMAIN Key = Name
  /\ Limit \in Nat \ {0} /\ Window \in Nat /\ MaxTime \in Nat
  /\ DOMAIN InitialUser \subseteq Name
  /\ \A n \in DOMAIN InitialUser : InitialUser[n] \in UserRow
  /\ Operated \subseteq Name /\ LoggingOut \subseteq Login /\ Faults \subseteq Fault

KeySet == {Key[n] : n \in Name}

Answer == {"none", "ok", "unauthorized", "rate_limited", "error"}
Step == {"idle", "limiter", "lookup", "refuse", "grant", "record", "clear", "done"}

VARIABLES
  now,       \* the clock of application and database
  attempts,  \* LOGIN_ATTEMPTS: the attempts still remembered under a key
  login,     \* the requests
  users, sessions,
  audited,   \* the audit_log entries of logins: <<login, action>>
  logout,    \* sessions being logged out: "none", "asked" or "answered"
  passed     \* observed: attempts let through since a key was last cleared

vars == <<now, attempts, login, users, sessions, audited, logout, passed>>
tables == <<users, sessions, audited>>

Event == {"user.login", "user.login_failed"}

NewLogin == [at |-> "idle", name |-> CHOOSE n \in Name : TRUE,
             password |-> CHOOSE p \in Password : TRUE,
             stamp |-> 0, expires |-> 0, answer |-> "none"]

Init ==
  /\ now = 0
  /\ attempts = [k \in KeySet |-> {}]
  /\ login = [l \in Login |-> NewLogin]
  /\ users = InitialUser
  /\ sessions = [s \in {} |-> 0]
  /\ audited = {}
  /\ logout = [s \in Login |-> "none"]
  /\ passed = [k \in KeySet |-> {}]

KeyOf(l) == Key[login[l].name]

Goes(l, at) == login' = [login EXCEPT ![l].at = at]

Answers(l, answer) ==
  login' = [login EXCEPT ![l].at = "done", ![l].answer = answer]

-----------------------------------------------------------------------------
(* The limiter *)

\* check_login_rate_limit reads the clock ...
StartLogin(l) ==
  /\ login[l].at = "idle"
  /\ \E n \in Name, p \in Password :
       login' = [login EXCEPT ![l].at = "limiter", ![l].name = n,
                              ![l].password = p, ![l].stamp = now]
  /\ UNCHANGED <<now, attempts, tables, logout, passed>>

\* Mistake: attempts are kept whatever their age.
RememberedForEver(l) == attempts[KeyOf(l)]

\* entries.retain, with a cutoff from before the wait for the mutex.
Remembered(l) ==
  {a \in attempts[KeyOf(l)] : login[a].stamp + Window >= login[l].stamp}

\* Mistake: off by one.
IsOneOverLimit(n) == n > Limit

IsOverLimit(n) == n >= Limit

\* ... and then takes the mutex, which no await divides.
CheckLimit(l) ==
  LET k == KeyOf(l) IN
  /\ login[l].at = "limiter"
  /\ IF IsOverLimit(Cardinality(Remembered(l)))
       THEN /\ attempts' = [attempts EXCEPT ![k] = Remembered(l)]
            /\ Answers(l, "rate_limited")
            /\ UNCHANGED passed
       ELSE /\ attempts' = [attempts EXCEPT ![k] = Remembered(l) \cup {l}]
            /\ Goes(l, "lookup")
            /\ passed' = [passed EXCEPT ![k] = @ \cup {l}]
  /\ UNCHANGED <<now, tables, logout>>

\* clear_login_rate_limit removes the whole entry, with the attempts of others.
Forget(k) == [attempts EXCEPT ![k] = {}]

-----------------------------------------------------------------------------
(* The rest of login_handler *)

\* What follows from the row found under the name exactly as typed.
Verdict(l) ==
  LET u == login[l].name IN
  IF u \notin DOMAIN users \/ ~users[u].active THEN "refuse"
  ELSE IF users[u].hash = Malformed THEN "error"
  ELSE IF Verifies(login[l].password, users[u].hash) THEN "grant" ELSE "refuse"

\* find_user_by_username, verify_password and session_expires_at.
FindUser(l) ==
  /\ login[l].at = "lookup"
  /\ \/ Verdict(l) = "error" /\ Answers(l, "error")
     \/ Verdict(l) = "refuse" /\ Goes(l, "refuse")
     \/ /\ Verdict(l) = "grant"
        /\ login' = [login EXCEPT ![l].at = "grant", ![l].expires = now + Ttl]
  /\ UNCHANGED <<now, attempts, tables, logout, passed>>

RecordFailure(l) ==
  /\ login[l].at = "refuse"
  /\ audited' = audited \cup {<<l, "user.login_failed">>}
  /\ Answers(l, "unauthorized")
  /\ UNCHANGED <<now, attempts, users, sessions, logout, passed>>

\* Mistake: the login is put on record before its session is stored.
GrantAudited(l) ==
  /\ login[l].at = "grant"
  /\ audited' = audited \cup {<<l, "user.login">>}
  /\ Goes(l, "record")
  /\ UNCHANGED <<now, attempts, users, sessions, logout, passed>>

\* insert_session, a transaction of its own.
Grant(l) ==
  /\ login[l].at = "grant"
  /\ sessions' = [s \in DOMAIN sessions \cup {l} |->
                    IF s = l THEN NewSession(login[l].name, login[l].expires)
                    ELSE sessions[s]]
  /\ Goes(l, "record")
  /\ UNCHANGED <<now, attempts, users, audited, logout, passed>>

\* record_login_audit, another one.
Record(l) ==
  /\ login[l].at = "record"
  /\ audited' = audited \cup {<<l, "user.login">>}
  /\ Goes(l, "clear")
  /\ UNCHANGED <<now, attempts, users, sessions, logout, passed>>

\* clear_login_rate_limit and the answer with the cookie.
Clear(l) ==
  /\ login[l].at = "clear"
  /\ attempts' = Forget(KeyOf(l))
  /\ passed' = [passed EXCEPT ![KeyOf(l)] = {}]
  /\ Answers(l, "ok")
  /\ UNCHANGED <<now, tables, logout>>

-----------------------------------------------------------------------------
(* Failures, logout, and what others do to users *)

\* A statement fails (500), or the client goes away and the handler is dropped,
\* so that nobody hears the answer.
Fails(l) ==
  /\ "fail" \in Faults
  /\ login[l].at \in {"lookup", "refuse", "grant", "record"}
  /\ Answers(l, "error")
  /\ UNCHANGED <<now, attempts, tables, logout, passed>>

\* The same, although the INSERT took effect.
FailsAfterInsert(l) ==
  /\ "fail" \in Faults
  /\ \/ /\ login[l].at = "grant"
        /\ sessions' = [s \in DOMAIN sessions \cup {l} |->
                          IF s = l THEN NewSession(login[l].name, login[l].expires)
                          ELSE sessions[s]]
        /\ UNCHANGED audited
     \/ /\ login[l].at \in {"refuse", "record"}
        /\ audited' = audited \cup
             {<<l, IF login[l].at = "record" THEN "user.login" ELSE "user.login_failed">>}
        /\ UNCHANGED sessions
  /\ Answers(l, "error")
  /\ UNCHANGED <<now, attempts, users, logout, passed>>

\* logout_handler: the extractor looks the session up ...
AskLogout(s) ==
  /\ logout[s] = "none" /\ s \in LoggingOut
  /\ Authenticates(sessions, users, s, now)
  /\ logout' = [logout EXCEPT ![s] = "asked"]
  /\ UNCHANGED <<now, attempts, login, tables, passed>>

\* ... and revoke_session ends it, whatever has become of it.
AnswerLogout(s) ==
  /\ logout[s] = "asked"
  /\ sessions' = Revoke(sessions, s)
  /\ logout' = [logout EXCEPT ![s] = "answered"]
  /\ UNCHANGED <<now, attempts, login, users, audited, passed>>

\* The statement fails, or took effect and nobody hears of it.
LogoutFails(s) ==
  /\ "fail" \in Faults
  /\ logout[s] = "asked"
  /\ sessions' = sessions \/ sessions' = Revoke(sessions, s)
  /\ logout' = [logout EXCEPT ![s] = "none"]
  /\ UNCHANGED <<now, attempts, login, users, audited, passed>>

\* set_user_active, by hand.
SetUserActive(n) ==
  /\ n \in DOMAIN users \cap Operated
  /\ users' = [users EXCEPT ![n].active = ~@]
  /\ UNCHANGED <<now, attempts, login, sessions, audited, logout, passed>>

\* The seed-admin command, which may run beside the server.
SeedAdmin(n, p) ==
  /\ n \in Operated
  /\ users' = EnsureAdmin(users, n, p)
  /\ UNCHANGED <<now, attempts, login, sessions, audited, logout, passed>>

\* The server process ends and starts again.
Restart ==
  /\ "restart" \in Faults
  /\ attempts' = [k \in KeySet |-> {}]
  /\ passed' = [k \in KeySet |-> {}]
  /\ login' = [l \in Login |->
       IF login[l].at \in {"idle", "done"} THEN login[l]
       ELSE [login[l] EXCEPT !.at = "done", !.answer = "none"]]
  /\ logout' = [s \in Login |-> IF logout[s] = "asked" THEN "none" ELSE logout[s]]
  /\ UNCHANGED <<now, tables>>

Tick ==
  /\ now < MaxTime
  /\ now' = now + 1
  /\ UNCHANGED <<attempts, login, tables, logout, passed>>

Next ==
  \/ \E l \in Login :
       \/ StartLogin(l) \/ CheckLimit(l) \/ FindUser(l) \/ RecordFailure(l)
       \/ Grant(l) \/ Record(l) \/ Clear(l) \/ Fails(l) \/ FailsAfterInsert(l)
       \/ AskLogout(l) \/ AnswerLogout(l) \/ LogoutFails(l)
  \/ \E n \in Name : SetUserActive(n) \/ \E p \in Password : SeedAdmin(n, p)
  \/ Restart \/ Tick

Spec == Init /\ [][Next]_vars

-----------------------------------------------------------------------------
(* Properties *)

LoginRecord ==
  [at : Step, name : Name, password : Password, stamp : Nat, expires : Nat,
   answer : Answer]

TypeOK ==
  /\ now \in Nat
  /\ attempts \in [KeySet -> SUBSET Login]
  /\ login \in [Login -> LoginRecord]
  /\ DOMAIN users \subseteq Name /\ \A n \in DOMAIN users : users[n] \in UserRow
  /\ DOMAIN sessions \subseteq Login
  /\ \A s \in DOMAIN sessions : sessions[s] \in SessionRow
  /\ audited \subseteq Login \X Event
  /\ logout \in [Login -> {"none", "asked", "answered"}]
  /\ passed \in [KeySet -> SUBSET Login]

\* The attempts let through under k that are not older than the window.
Recent(k, time) == {l \in passed[k] : login[l].stamp + Window >= time}

\* Whatever the order in which attempts reach the mutex with clocks read before
\* it, and however many are under way: since a key was last cleared, no more
\* than Limit attempts younger than the window have been let through
\* (check_login_rate_limit).
AttemptsBounded == \A k \in KeySet : Cardinality(Recent(k, now)) <= Limit

\* A login is refused as one too many only when Limit attempts younger than the
\* window, seen from its own clock, were let through since the last login that
\* succeeded: old attempts, and those forgiven, do not count.
RefusalsJustified ==
  [][\A l \in Login :
       login[l].answer # "rate_limited" /\ login'[l].answer = "rate_limited"
         => Cardinality(Recent(KeyOf(l), login[l].stamp)) >= Limit]_vars

\* However statements fail and handlers are dropped, a login on record as
\* successful has its session; one answered 200 is on record; one answered 401
\* is on record as failed, and has no session (login_handler).
LoginsOnRecord ==
  \A l \in Login :
    /\ <<l, "user.login">> \in audited => l \in DOMAIN sessions
    /\ login[l].answer = "ok" => <<l, "user.login">> \in audited
    /\ login[l].answer = "unauthorized" =>
         <<l, "user.login_failed">> \in audited /\ l \notin DOMAIN sessions

\* Once a logout is answered its session opens nothing any more, whatever other
\* logins, restarts, seeding and the user's row do (logout_handler, session.rs).
LogoutIsFinal ==
  \A s \in Login :
    logout[s] = "answered" => ~Authenticates(sessions, users, s, now)
=============================================================================
