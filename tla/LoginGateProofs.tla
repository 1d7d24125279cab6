-------------------------- MODULE LoginGateProofs ---------------------------
(***************************************************************************)
(* Proofs about LoginGate: the bound of the rate limiter, that refusals    *)
(* are justified, that sessions, answers and audit entries fit, and that a *)
(* logout is final, for any number of logins, users, limit and window.     *)
(***************************************************************************)
EXTENDS LoginGate, FiniteSetTheorems, TLAPS

\* The limiter remembers every attempt that counts, and not too many.
LimiterHolds(k) ==
  /\ attempts[k] \subseteq passed[k]
  /\ Cardinality(attempts[k]) <= Limit
  /\ Recent(k, now) \subseteq attempts[k]
  /\ \A l \in passed[k] : login[l].at \notin {"idle", "limiter"}

\* A session exists from Grant on, a record from Record on, and only the last
\* step answers.
RecordHolds(l) ==
  /\ login[l].stamp <= now
  /\ login[l].at \in {"idle", "limiter", "lookup", "refuse", "grant"} =>
       l \notin DOMAIN sessions
  /\ login[l].at \in {"record", "clear"} => l \in DOMAIN sessions
  /\ login[l].at = "clear" => <<l, "user.login">> \in audited
  /\ login[l].at # "done" => login[l].answer = "none"
  /\ <<l, "user.login">> \in audited => l \in DOMAIN sessions
  /\ login[l].answer = "ok" => <<l, "user.login">> \in audited
  /\ login[l].answer = "unauthorized" =>
       <<l, "user.login_failed">> \in audited /\ l \notin DOMAIN sessions

LogoutHolds(s) ==
  /\ logout[s] # "none" => s \in DOMAIN sessions
  /\ logout[s] = "answered" => sessions[s].revoked

LoginInvariant ==
  /\ TypeOK
  /\ \A k \in KeySet : LimiterHolds(k)
  /\ \A l \in Login : RecordHolds(l) /\ LogoutHolds(l)

-----------------------------------------------------------------------------
(* Requests *)

LEMMA Words ==
  /\ {"idle", "limiter", "lookup", "refuse", "grant", "record", "clear", "done"} \subseteq Step
  /\ {"none", "ok", "unauthorized", "rate_limited", "error"} \subseteq Answer
BY DEF Step, Answer

LEMMA GoesTo ==
  ASSUME TypeOK, NEW l \in Login, NEW at \in Step, Goes(l, at)
  PROVE  /\ login' \in [Login -> LoginRecord]
         /\ login'[l].at = at /\ login'[l].answer = login[l].answer
         /\ login'[l].stamp = login[l].stamp /\ login'[l].name = login[l].name
         /\ \A a \in Login \ {l} : login'[a] = login[a]
<1> DEFINE new == [login[l] EXCEPT !.at = at]
<1>1. login \in [Login -> LoginRecord] /\ login[l] \in LoginRecord
  BY DEF TypeOK
<1>2. /\ new \in LoginRecord /\ new.at = at /\ new.answer = login[l].answer
      /\ new.stamp = login[l].stamp /\ new.name = login[l].name
  BY <1>1 DEF LoginRecord
<1>3. login' = [login EXCEPT ![l] = new]
  BY DEF Goes
<1> HIDE DEF new
<1>4. QED
  BY <1>1, <1>2, <1>3

LEMMA AnswersTo ==
  ASSUME TypeOK, NEW l \in Login, NEW answer \in Answer, Answers(l, answer)
  PROVE  /\ login' \in [Login -> LoginRecord]
         /\ login'[l].at = "done" /\ login'[l].answer = answer
         /\ login'[l].stamp = login[l].stamp /\ login'[l].name = login[l].name
         /\ \A a \in Login \ {l} : login'[a] = login[a]
<1> DEFINE new == [login[l] EXCEPT !.at = "done", !.answer = answer]
<1>1. login \in [Login -> LoginRecord] /\ login[l] \in LoginRecord /\ "done" \in Step
  BY Words DEF TypeOK
<1>2. /\ new \in LoginRecord /\ new.at = "done" /\ new.answer = answer
      /\ new.stamp = login[l].stamp /\ new.name = login[l].name
  BY <1>1 DEF LoginRecord
<1>3. login' = [login EXCEPT ![l] = new]
  BY <1>1 DEF Answers, LoginRecord
<1> HIDE DEF new
<1>4. QED
  BY <1>1, <1>2, <1>3

LEMMA StartsTo ==
  ASSUME TypeOK, NEW l \in Login, StartLogin(l)
  PROVE  /\ login' \in [Login -> LoginRecord]
         /\ login'[l].at = "limiter" /\ login'[l].answer = login[l].answer
         /\ login'[l].stamp = now
         /\ \A a \in Login \ {l} : login'[a] = login[a]
<1>1. login \in [Login -> LoginRecord] /\ login[l] \in LoginRecord /\ "limiter" \in Step
      /\ now \in Nat
  BY Words DEF TypeOK
<1>2. PICK n \in Name, p \in Password :
        login' = [login EXCEPT ![l].at = "limiter", ![l].name = n,
                               ![l].password = p, ![l].stamp = now]
  BY DEF StartLogin
<1> DEFINE new == [login[l] EXCEPT !.at = "limiter", !.name = n, !.password = p, !.stamp = now]
<1>3. new \in LoginRecord /\ new.at = "limiter" /\ new.answer = login[l].answer
      /\ new.stamp = now
  BY <1>1 DEF LoginRecord
<1>4. login' = [login EXCEPT ![l] = new]
  BY <1>1, <1>2 DEF LoginRecord
<1> HIDE DEF new
<1>5. QED
  BY <1>1, <1>3, <1>4

\* find_user_by_username refuses, grants, or fails on a hash.
LEMMA FindsTo ==
  ASSUME TypeOK, NEW l \in Login, FindUser(l)
  PROVE  /\ login' \in [Login -> LoginRecord]
         /\ \/ login'[l].at \in {"refuse", "grant"} /\ login'[l].answer = login[l].answer
            \/ login'[l].at = "done" /\ login'[l].answer = "error"
         /\ login'[l].stamp = login[l].stamp
         /\ \A a \in Login \ {l} : login'[a] = login[a]
<1>1. login \in [Login -> LoginRecord] /\ login[l] \in LoginRecord
      /\ "grant" \in Step /\ "refuse" \in Step /\ now + Ttl \in Nat
  BY Words, AccessAssumption DEF TypeOK
<1>2. CASE Answers(l, "error")
  BY <1>2, AnswersTo, Words
<1>3. CASE Goes(l, "refuse")
  BY <1>3, GoesTo, Words
<1>4. CASE login' = [login EXCEPT ![l].at = "grant", ![l].expires = now + Ttl]
  <2> DEFINE new == [login[l] EXCEPT !.at = "grant", !.expires = now + Ttl]
  <2>1. new \in LoginRecord /\ new.at = "grant" /\ new.answer = login[l].answer
        /\ new.stamp = login[l].stamp
    BY <1>1 DEF LoginRecord
  <2>2. login' = [login EXCEPT ![l] = new]
    BY <1>1, <1>4 DEF LoginRecord
  <2> HIDE DEF new
  <2>3. QED
    BY <1>1, <2>1, <2>2
<1>5. QED
  BY <1>2, <1>3, <1>4 DEF FindUser

LEMMA RestartsTo ==
  ASSUME TypeOK, Restart
  PROVE  /\ login' \in [Login -> LoginRecord]
         /\ \A l \in Login : /\ login'[l].stamp = login[l].stamp
                             /\ \/ login'[l] = login[l] /\ login[l].at \in {"idle", "done"}
                                \/ login'[l].at = "done" /\ login'[l].answer = "none"
<1> DEFINE new(l) == [login[l] EXCEPT !.at = "done", !.answer = "none"]
<1>1. ASSUME NEW l \in Login
      PROVE  /\ login[l] \in LoginRecord /\ new(l) \in LoginRecord
             /\ new(l).at = "done" /\ new(l).answer = "none" /\ new(l).stamp = login[l].stamp
  <2>1. login[l] \in LoginRecord /\ "done" \in Step /\ "none" \in Answer
    BY Words DEF TypeOK
  <2>2. QED
    BY <2>1 DEF LoginRecord
<1>2. login' = [l \in Login |-> IF login[l].at \in {"idle", "done"} THEN login[l] ELSE new(l)]
  BY DEF Restart
<1> HIDE DEF new
<1>3. QED
  BY <1>1, <1>2

OwnStep(l) ==
  \/ StartLogin(l) \/ CheckLimit(l) \/ FindUser(l) \/ RecordFailure(l)
  \/ Grant(l) \/ Record(l) \/ Clear(l) \/ Fails(l) \/ FailsAfterInsert(l)

\* A request reads the clock when it starts, and leaves the limiter behind.
LEMMA OwnMoves ==
  ASSUME TypeOK, NEW l \in Login, OwnStep(l)
  PROVE  /\ login' \in [Login -> LoginRecord] /\ now' = now
         /\ \A a \in Login \ {l} : login'[a] = login[a]
         /\ \/ login[l].at = "idle" /\ login'[l].stamp = now
            \/ /\ login[l].at # "idle" /\ login'[l].stamp = login[l].stamp
               /\ login'[l].at \notin {"idle", "limiter"}
<1>1. CASE StartLogin(l)
  BY <1>1, StartsTo DEF StartLogin
<1>2. CASE FindUser(l)
  BY <1>2, FindsTo DEF FindUser
<1>3. ASSUME NEW at \in {"lookup", "record", "clear"}, Goes(l, at),
             login[l].at # "idle", now' = now
      PROVE  /\ login' \in [Login -> LoginRecord] /\ now' = now
             /\ \A a \in Login \ {l} : login'[a] = login[a]
             /\ login[l].at # "idle" /\ login'[l].stamp = login[l].stamp
             /\ login'[l].at \notin {"idle", "limiter"}
  <2>1. at \in Step
    BY Words
  <2>2. QED
    BY <1>3, <2>1, GoesTo
<1>4. ASSUME NEW answer \in {"unauthorized", "rate_limited", "error", "ok"}, Answers(l, answer),
             login[l].at # "idle", now' = now
      PROVE  /\ login' \in [Login -> LoginRecord] /\ now' = now
             /\ \A a \in Login \ {l} : login'[a] = login[a]
             /\ login[l].at # "idle" /\ login'[l].stamp = login[l].stamp
             /\ login'[l].at \notin {"idle", "limiter"}
  <2>1. answer \in Answer
    BY Words
  <2>2. QED
    BY <1>4, <2>1, AnswersTo
<1>5. CASE CheckLimit(l)
  BY <1>3, <1>4, <1>5 DEF CheckLimit
<1>6. CASE RecordFailure(l) \/ Clear(l) \/ Fails(l)
  BY <1>4, <1>6 DEF RecordFailure, Clear, Fails
<1>7. CASE FailsAfterInsert(l)
  BY <1>4, <1>7 DEF FailsAfterInsert
<1>8. CASE Grant(l) \/ Record(l)
  BY <1>3, <1>8 DEF Grant, Record
<1>9. QED
  BY <1>1, <1>2, <1>5, <1>6, <1>7, <1>8 DEF OwnStep

\* Steps of others.
MeanwhileStep ==
  \/ \E s \in Login : AskLogout(s) \/ AnswerLogout(s) \/ LogoutFails(s)
  \/ \E n \in Name : SetUserActive(n) \/ \E p \in Password : SeedAdmin(n, p)
  \/ Tick

LEMMA NextSteps == Next <=> (\E l \in Login : OwnStep(l)) \/ MeanwhileStep \/ Restart
BY DEF Next, OwnStep, MeanwhileStep

\* The clock goes on; a clock once read stays, and no request gets back into
\* the limiter.
LEMMA ClockMoves ==
  ASSUME LoginInvariant, Next
  PROVE  /\ login' \in [Login -> LoginRecord]
         /\ now' \in Nat /\ now' >= now
         /\ \A l \in Login :
              /\ login'[l].stamp <= now'
              /\ login[l].at # "idle" => login'[l].stamp = login[l].stamp
              /\ login[l].at \notin {"idle", "limiter"} => login'[l].at \notin {"idle", "limiter"}
<1>1. /\ TypeOK /\ now \in Nat /\ login \in [Login -> LoginRecord]
      /\ \A l \in Login : login[l].stamp \in Nat /\ login[l].stamp <= now
  BY DEF LoginInvariant, TypeOK, RecordHolds, LoginRecord
<1>2. ASSUME NEW l \in Login, OwnStep(l)
      PROVE  /\ login' \in [Login -> LoginRecord] /\ now' = now
             /\ \A a \in Login :
                  /\ login'[a].stamp <= now
                  /\ login[a].at # "idle" => login'[a].stamp = login[a].stamp
                  /\ login[a].at \notin {"idle", "limiter"} => login'[a].at \notin {"idle", "limiter"}
  BY <1>1, <1>2, OwnMoves
<1>3. CASE MeanwhileStep
  <2>1. login' = login /\ (now' = now \/ now' = now + 1)
    BY <1>3 DEF MeanwhileStep, AskLogout, AnswerLogout, LogoutFails, SetUserActive, SeedAdmin, Tick
  <2>2. QED
    BY <1>1, <2>1
<1>4. CASE Restart
  <2>1. now' = now
    BY <1>4 DEF Restart
  <2>2. QED
    BY <1>1, <1>4, <2>1, RestartsTo
<1>5. QED
  BY <1>1, <1>2, <1>3, <1>4, NextSteps

-----------------------------------------------------------------------------
(* Types *)

LEMMA InsertKeepsType ==
  ASSUME TypeOK, NEW l \in Login,
         sessions' = [s \in DOMAIN sessions \cup {l} |->
                        IF s = l THEN NewSession(login[l].name, login[l].expires)
                        ELSE sessions[s]]
  PROVE  /\ DOMAIN sessions' \subseteq Login
         /\ \A s \in DOMAIN sessions' : sessions'[s] \in SessionRow
<1>1. NewSession(login[l].name, login[l].expires) \in SessionRow
  BY DEF TypeOK, LoginRecord, NewSession, SessionRow
<1>2. QED
  BY <1>1 DEF TypeOK

LEMMA RevokeKeepsType ==
  ASSUME TypeOK, NEW l \in Login, sessions' = Revoke(sessions, l)
  PROVE  /\ DOMAIN sessions' \subseteq Login
         /\ \A s \in DOMAIN sessions' : sessions'[s] \in SessionRow
<1> DEFINE new == [sessions[l] EXCEPT !.revoked = TRUE]
<1>1. sessions' = [sessions EXCEPT ![l] = new]
  BY DEF Revoke
<1>2. l \in DOMAIN sessions => new \in SessionRow
  BY DEF TypeOK, SessionRow
<1> HIDE DEF new
<1>3. QED
  BY <1>1, <1>2 DEF TypeOK

LEMMA UsersKeepType ==
  ASSUME TypeOK, NEW n \in Name,
         SetUserActive(n) \/ \E p \in Password : SeedAdmin(n, p)
  PROVE  DOMAIN users' \subseteq Name /\ \A m \in DOMAIN users' : users'[m] \in UserRow
<1>1. CASE SetUserActive(n)
  <2> DEFINE new == [users[n] EXCEPT !.active = ~@]
  <2>1. users' = [users EXCEPT ![n] = new]
    BY <1>1 DEF SetUserActive
  <2>2. new \in UserRow
    BY <1>1 DEF TypeOK, UserRow, SetUserActive
  <2> HIDE DEF new
  <2>3. QED
    BY <2>1, <2>2 DEF TypeOK
<1>2. ASSUME NEW p \in Password, SeedAdmin(n, p)
      PROVE  DOMAIN users' \subseteq Name /\ \A m \in DOMAIN users' : users'[m] \in UserRow
  <2>1. [hash |-> p, role |-> "admin", active |-> TRUE] \in UserRow
    BY DEF UserRow, Role
  <2>2. QED
    BY <1>2, <2>1 DEF SeedAdmin, EnsureAdmin, TypeOK
<1>3. QED
  BY <1>1, <1>2

LEMMA StepTyped ==
  ASSUME LoginInvariant, Next
  PROVE  TypeOK'
<1>1. TypeOK /\ login' \in [Login -> LoginRecord] /\ now' \in Nat
  BY ClockMoves DEF LoginInvariant
<1>2. ASSUME NEW l \in Login PROVE KeyOf(l) \in KeySet /\ Remembered(l) \subseteq Login
  <2>1. login[l].name \in Name
    BY <1>1 DEF TypeOK, LoginRecord
  <2>2. KeyOf(l) \in KeySet
    BY <2>1 DEF KeyOf, KeySet
  <2>3. QED
    BY <1>1, <2>2 DEF Remembered, TypeOK
<1>3. attempts' \in [KeySet -> SUBSET Login] /\ passed' \in [KeySet -> SUBSET Login]
  <2>1. ASSUME NEW l \in Login, CheckLimit(l) \/ Clear(l)
        PROVE  attempts' \in [KeySet -> SUBSET Login] /\ passed' \in [KeySet -> SUBSET Login]
    BY <1>1, <1>2, <2>1 DEF CheckLimit, Clear, Forget, TypeOK
  <2>2. CASE Restart
    BY <2>2 DEF Restart
  <2>3. CASE UNCHANGED <<attempts, passed>>
    BY <1>1, <2>3 DEF TypeOK
  <2>4. QED
    BY <2>1, <2>2, <2>3 DEF Next, StartLogin, FindUser, RecordFailure, Grant, Record, Fails,
       FailsAfterInsert, AskLogout, AnswerLogout, LogoutFails, SetUserActive, SeedAdmin, Tick
<1>4. /\ DOMAIN sessions' \subseteq Login
      /\ \A s \in DOMAIN sessions' : sessions'[s] \in SessionRow
  <2>1. ASSUME NEW l \in Login,
               Grant(l) \/ FailsAfterInsert(l) \/ AnswerLogout(l) \/ LogoutFails(l)
        PROVE  /\ DOMAIN sessions' \subseteq Login
               /\ \A s \in DOMAIN sessions' : sessions'[s] \in SessionRow
    BY <1>1, <2>1, InsertKeepsType, RevokeKeepsType
       DEF Grant, FailsAfterInsert, AnswerLogout, LogoutFails, TypeOK
  <2>2. CASE UNCHANGED sessions
    BY <1>1, <2>2 DEF TypeOK
  <2>3. QED
    BY <2>1, <2>2 DEF Next, StartLogin, CheckLimit, FindUser, RecordFailure, Record, Clear, Fails,
       AskLogout, SetUserActive, SeedAdmin, Restart, Tick, tables
<1>5. DOMAIN users' \subseteq Name /\ \A n \in DOMAIN users' : users'[n] \in UserRow
  <2>1. CASE UNCHANGED users
    BY <1>1, <2>1 DEF TypeOK
  <2>2. QED
    BY <1>1, <2>1, UsersKeepType DEF Next, StartLogin, CheckLimit, FindUser, RecordFailure, Grant,
       Record, Clear, Fails, FailsAfterInsert, AskLogout, AnswerLogout, LogoutFails, Restart,
       Tick, tables
<1>6. audited' \subseteq Login \X Event
  <2>1. ASSUME NEW l \in Login, RecordFailure(l) \/ Record(l) \/ FailsAfterInsert(l)
        PROVE  audited' \subseteq Login \X Event
    BY <1>1, <2>1 DEF RecordFailure, Record, FailsAfterInsert, TypeOK, Event
  <2>2. CASE UNCHANGED audited
    BY <1>1, <2>2 DEF TypeOK
  <2>3. QED
    BY <2>1, <2>2 DEF Next, StartLogin, CheckLimit, FindUser, Grant, Clear, Fails,
       AskLogout, AnswerLogout, LogoutFails, SetUserActive, SeedAdmin, Restart, Tick, tables
<1>7. logout' \in [Login -> {"none", "asked", "answered"}]
  <2>1. ASSUME NEW s \in Login, AskLogout(s) \/ AnswerLogout(s) \/ LogoutFails(s)
        PROVE  logout' \in [Login -> {"none", "asked", "answered"}]
    BY <1>1, <2>1 DEF AskLogout, AnswerLogout, LogoutFails, TypeOK
  <2>2. CASE Restart
    BY <1>1, <2>2 DEF Restart, TypeOK
  <2>3. CASE UNCHANGED logout
    BY <1>1, <2>3 DEF TypeOK
  <2>4. QED
    BY <2>1, <2>2, <2>3 DEF Next, StartLogin, CheckLimit, FindUser, RecordFailure, Grant, Record,
       Clear, Fails, FailsAfterInsert, SetUserActive, SeedAdmin, Tick
<1>8. QED
  BY <1>1, <1>3, <1>4, <1>5, <1>6, <1>7 DEF TypeOK

-----------------------------------------------------------------------------
(* The limiter *)

LEMMA KeyKnown ==
  ASSUME TypeOK, NEW l \in Login
  PROVE  /\ KeyOf(l) \in KeySet
         /\ Remembered(l) \subseteq attempts[KeyOf(l)]
         /\ attempts[KeyOf(l)] \subseteq Login
<1>1. login[l].name \in Name
  BY DEF TypeOK, LoginRecord
<1>2. KeyOf(l) \in KeySet
  BY <1>1 DEF KeyOf, KeySet
<1>3. QED
  BY <1>2 DEF Remembered, TypeOK

LEMMA Finite ==
  ASSUME NEW S \in SUBSET Login
  PROVE  /\ IsFiniteSet(S) /\ Cardinality(S) \in Nat
         /\ \A T \in SUBSET S : Cardinality(T) <= Cardinality(S)
BY LoginAssumption, FS_Subset, FS_CardinalityType

\* A key that a step leaves alone.
LEMMA KeyStays ==
  ASSUME LoginInvariant, Next, NEW k \in KeySet,
         attempts'[k] = attempts[k], passed'[k] = passed[k]
  PROVE  LimiterHolds(k)'
<1>1. LimiterHolds(k) /\ passed[k] \subseteq Login /\ now \in Nat /\ Window \in Nat
      /\ \A l \in Login : login[l].stamp \in Nat
  BY LoginAssumption DEF LoginInvariant, TypeOK, LoginRecord
<1>2. /\ now' \in Nat /\ now' >= now
      /\ \A l \in passed[k] : /\ login'[l].stamp = login[l].stamp
                              /\ login'[l].at \notin {"idle", "limiter"}
  BY <1>1, ClockMoves DEF LimiterHolds
<1>3. Recent(k, now)' \subseteq Recent(k, now)
  BY <1>1, <1>2 DEF Recent
<1>4. QED
  BY <1>1, <1>2, <1>3 DEF LimiterHolds

LEMMA CheckHolds ==
  ASSUME LoginInvariant, Next, NEW l \in Login, CheckLimit(l),
         NEW k \in KeySet, k = KeyOf(l)
  PROVE  LimiterHolds(k)'
<1> DEFINE R == Remembered(l)
<1>1. /\ TypeOK /\ k \in KeySet /\ R \subseteq attempts[k] /\ attempts[k] \subseteq Login
      /\ LimiterHolds(k) /\ passed[k] \subseteq Login
  BY KeyKnown DEF LoginInvariant, TypeOK
<1>2. /\ now \in Nat /\ Window \in Nat /\ Limit \in Nat
      /\ \A a \in Login : login[a].stamp \in Nat /\ login[a].stamp <= now
  BY LoginAssumption DEF LoginInvariant, TypeOK, LoginRecord, RecordHolds
<1>3. /\ now' = now /\ login'[l].at \notin {"idle", "limiter"}
      /\ \A a \in passed[k] : /\ login'[a].stamp = login[a].stamp
                              /\ login'[a].at \notin {"idle", "limiter"}
  <2>1. OwnStep(l) /\ login[l].at = "limiter"
    BY DEF OwnStep, CheckLimit
  <2>2. QED
    BY <1>1, <2>1, OwnMoves, ClockMoves DEF LimiterHolds
<1>4. \A a \in passed[k] : login[a].stamp + Window >= now => a \in R
  <2>1. ASSUME NEW a \in passed[k], login[a].stamp + Window >= now PROVE a \in R
    <3>1. a \in attempts[k] /\ a \in Login /\ login[a].stamp \in Nat
      BY <1>1, <1>2, <2>1 DEF LimiterHolds, Recent
    <3>2. login[l].stamp \in Nat /\ login[l].stamp <= now
      BY <1>2
    <3>3. login[a].stamp + Window >= login[l].stamp
      BY <1>2, <2>1, <3>1, <3>2
    <3>4. QED
      BY <3>1, <3>3 DEF Remembered
  <2>2. QED
    BY <2>1
<1>5. Cardinality(R) \in Nat /\ IsFiniteSet(R) /\ Cardinality(R) <= Cardinality(attempts[k])
      /\ Cardinality(attempts[k]) \in Nat
  BY <1>1, Finite
<1> HIDE DEF R
<1>6. CASE IsOverLimit(Cardinality(R))
  <2>1. attempts'[k] = R /\ passed'[k] = passed[k]
    BY <1>1, <1>6 DEF CheckLimit, R, TypeOK
  <2>2. Recent(k, now)' \subseteq R
    BY <1>3, <1>4, <2>1 DEF Recent
  <2>3. Cardinality(R) <= Limit
    BY <1>1, <1>2, <1>5 DEF LimiterHolds
  <2>4. QED
    BY <1>1, <1>3, <2>1, <2>2, <2>3 DEF LimiterHolds
<1>7. CASE ~IsOverLimit(Cardinality(R))
  <2>1. attempts'[k] = R \cup {l} /\ passed'[k] = passed[k] \cup {l}
    BY <1>1, <1>7 DEF CheckLimit, R, TypeOK
  <2>2. Recent(k, now)' \subseteq R \cup {l}
    BY <1>3, <1>4, <2>1 DEF Recent
  <2>3. Cardinality(R \cup {l}) <= Limit
    <3>1. Cardinality(R) < Limit
      BY <1>2, <1>5, <1>7 DEF IsOverLimit
    <3>2. Cardinality(R \cup {l}) = Cardinality(R) \/ Cardinality(R \cup {l}) = Cardinality(R) + 1
      BY <1>5, FS_AddElement
    <3>3. QED
      BY <1>2, <1>5, <3>1, <3>2
  <2>4. QED
    BY <1>1, <1>3, <2>1, <2>2, <2>3 DEF LimiterHolds
<1>8. QED
  BY <1>6, <1>7

LEMMA NothingRemembered ==
  ASSUME NEW k, attempts'[k] = {}, passed'[k] = {}
  PROVE  LimiterHolds(k)'
BY FS_EmptySet, LoginAssumption DEF LimiterHolds, Recent

LEMMA StepLimited ==
  ASSUME LoginInvariant, Next, NEW k \in KeySet
  PROVE  LimiterHolds(k)'
<1>1. TypeOK
  BY DEF LoginInvariant
<1>2. ASSUME NEW l \in Login, CheckLimit(l) PROVE LimiterHolds(k)'
  <2>1. CASE k = KeyOf(l)
    BY <1>2, <2>1, CheckHolds
  <2>2. CASE k # KeyOf(l)
    <3>1. attempts'[k] = attempts[k] /\ passed'[k] = passed[k]
      BY <1>1, <1>2, <2>2 DEF CheckLimit, TypeOK
    <3>2. QED
      BY <3>1, KeyStays
  <2>3. QED
    BY <2>1, <2>2
<1>3. ASSUME NEW l \in Login, Clear(l) PROVE LimiterHolds(k)'
  <2>1. CASE k = KeyOf(l)
    <3>1. attempts'[k] = {} /\ passed'[k] = {}
      BY <1>1, <1>3, <2>1 DEF Clear, Forget, TypeOK
    <3>2. QED
      BY <3>1, NothingRemembered
  <2>2. CASE k # KeyOf(l)
    <3>1. attempts'[k] = attempts[k] /\ passed'[k] = passed[k]
      BY <1>1, <1>3, <2>2 DEF Clear, Forget, TypeOK
    <3>2. QED
      BY <3>1, KeyStays
  <2>3. QED
    BY <2>1, <2>2
<1>4. CASE Restart
  <2>1. attempts'[k] = {} /\ passed'[k] = {}
    BY <1>4 DEF Restart
  <2>2. QED
    BY <2>1, NothingRemembered
<1>5. CASE UNCHANGED <<attempts, passed>>
  BY <1>5, KeyStays
<1>6. QED
  BY <1>2, <1>3, <1>4, <1>5 DEF Next, StartLogin, FindUser, RecordFailure, Grant, Record, Fails,
     FailsAfterInsert, AskLogout, AnswerLogout, LogoutFails, SetUserActive, SeedAdmin, Tick

-----------------------------------------------------------------------------
(* Sessions, answers and the audit log *)

\* A request that a step leaves alone.
LEMMA RecordStays ==
  ASSUME LoginInvariant, Next, NEW a \in Login,
         login'[a] = login[a],
         a \in DOMAIN sessions' <=> a \in DOMAIN sessions,
         \A e \in Event : <<a, e>> \in audited' <=> <<a, e>> \in audited
  PROVE  RecordHolds(a)'
<1>1. RecordHolds(a) /\ login'[a].stamp <= now'
  BY ClockMoves DEF LoginInvariant
<1>2. QED
  BY <1>1 DEF RecordHolds, Event

LEMMA OwnRecord ==
  ASSUME LoginInvariant, Next, NEW l \in Login, OwnStep(l), NEW a \in Login
  PROVE  RecordHolds(a)'
<1>1. TypeOK /\ RecordHolds(l) /\ login'[l].stamp <= now'
  BY ClockMoves DEF LoginInvariant
<1>2. CASE a # l
  <2>1. login'[a] = login[a]
    BY <1>1, <1>2, OwnMoves
  <2>2. a \in DOMAIN sessions' <=> a \in DOMAIN sessions
    BY <1>2 DEF OwnStep, StartLogin, CheckLimit, FindUser, RecordFailure, Grant, Record, Clear,
                Fails, FailsAfterInsert, tables
  <2>3. \A e \in Event : <<a, e>> \in audited' <=> <<a, e>> \in audited
    <3>1. ASSUME NEW e \in Event, audited' = audited \cup {<<l, e>>}
          PROVE  \A f \in Event : <<a, f>> \in audited' <=> <<a, f>> \in audited
      BY <1>2, <3>1
    <3>2. CASE RecordFailure(l)
      BY <3>1, <3>2 DEF RecordFailure, Event
    <3>3. CASE Record(l)
      BY <3>1, <3>3 DEF Record, Event
    <3>4. CASE FailsAfterInsert(l)
      BY <3>1, <3>4 DEF FailsAfterInsert, Event
    <3>5. CASE UNCHANGED audited
      BY <3>5
    <3>6. QED
      BY <3>2, <3>3, <3>4, <3>5
         DEF OwnStep, StartLogin, CheckLimit, FindUser, Grant, Clear, Fails, tables
  <2>4. QED
    BY <2>1, <2>2, <2>3, RecordStays
<1>3. RecordHolds(l)'
  <2>1. CASE StartLogin(l)
    <3>1. login'[l].at = "limiter" /\ login'[l].answer = login[l].answer
      BY <1>1, <2>1, StartsTo
    <3>2. QED
      BY <1>1, <2>1, <3>1 DEF RecordHolds, StartLogin, tables
  <2>2. CASE FindUser(l)
    <3>1. \/ login'[l].at \in {"refuse", "grant"} /\ login'[l].answer = login[l].answer
          \/ login'[l].at = "done" /\ login'[l].answer = "error"
      BY <1>1, <2>2, FindsTo
    <3>2. QED
      BY <1>1, <2>2, <3>1 DEF RecordHolds, FindUser, tables
  <2>3. ASSUME NEW at \in {"lookup", "record", "clear"}, Goes(l, at)
        PROVE  login'[l].at = at /\ login'[l].answer = login[l].answer
    BY <1>1, <2>3, GoesTo, Words
  <2>4. ASSUME NEW answer \in {"unauthorized", "rate_limited", "error", "ok"}, Answers(l, answer)
        PROVE  login'[l].at = "done" /\ login'[l].answer = answer
    BY <1>1, <2>4, AnswersTo, Words
  <2>5. CASE CheckLimit(l)
    <3>1. \/ login'[l].at = "lookup" /\ login'[l].answer = login[l].answer
          \/ login'[l].at = "done" /\ login'[l].answer = "rate_limited"
      BY <2>3, <2>4, <2>5 DEF CheckLimit
    <3>2. QED
      BY <1>1, <2>5, <3>1 DEF RecordHolds, CheckLimit, tables
  <2>6. CASE RecordFailure(l)
    BY <1>1, <2>4, <2>6 DEF RecordHolds, RecordFailure
  <2>7. CASE Grant(l)
    BY <1>1, <2>3, <2>7 DEF RecordHolds, Grant
  <2>8. CASE Record(l)
    BY <1>1, <2>3, <2>8 DEF RecordHolds, Record
  <2>9. CASE Clear(l)
    BY <1>1, <2>4, <2>9 DEF RecordHolds, Clear, tables
  <2>10. CASE Fails(l)
    BY <1>1, <2>4, <2>10 DEF RecordHolds, Fails, tables
  <2>11. CASE FailsAfterInsert(l)
    <3>1. login'[l].at = "done" /\ login'[l].answer = "error"
      BY <2>4, <2>11 DEF FailsAfterInsert
    <3>2. CASE login[l].at = "grant"
      BY <1>1, <2>11, <3>1, <3>2 DEF RecordHolds, FailsAfterInsert
    <3>3. CASE login[l].at = "record"
      BY <1>1, <2>11, <3>1, <3>3 DEF RecordHolds, FailsAfterInsert
    <3>4. CASE login[l].at = "refuse"
      BY <1>1, <2>11, <3>1, <3>4 DEF RecordHolds, FailsAfterInsert
    <3>5. QED
      BY <2>11, <3>2, <3>3, <3>4 DEF FailsAfterInsert
  <2>12. QED
    BY <2>1, <2>2, <2>5, <2>6, <2>7, <2>8, <2>9, <2>10, <2>11 DEF OwnStep
<1>4. QED
  BY <1>2, <1>3

LEMMA StepRecorded ==
  ASSUME LoginInvariant, Next, NEW a \in Login
  PROVE  RecordHolds(a)'
<1>1. CASE MeanwhileStep
  <2>1. login' = login /\ audited' = audited /\ DOMAIN sessions' = DOMAIN sessions
    BY <1>1 DEF MeanwhileStep, AskLogout, AnswerLogout, LogoutFails, SetUserActive, SeedAdmin,
                Tick, tables, Revoke
  <2>2. QED
    BY <2>1, RecordStays
<1>2. CASE Restart
  <2>1. UNCHANGED <<audited, sessions>>
    BY <1>2 DEF Restart, tables
  <2>2. \/ login'[a] = login[a]
        \/ login'[a].at = "done" /\ login'[a].answer = "none"
    BY <1>2, RestartsTo DEF LoginInvariant
  <2>3. RecordHolds(a) /\ login'[a].stamp <= now'
    BY ClockMoves DEF LoginInvariant
  <2>4. QED
    BY <2>1, <2>2, <2>3 DEF RecordHolds
<1>3. QED
  BY <1>1, <1>2, OwnRecord, NextSteps

-----------------------------------------------------------------------------
(* Logout *)

LEMMA StepLoggedOut ==
  ASSUME LoginInvariant, Next, NEW s \in Login
  PROVE  LogoutHolds(s)'
<1>1. TypeOK /\ LogoutHolds(s) /\ logout \in [Login -> {"none", "asked", "answered"}]
  BY DEF LoginInvariant, TypeOK
<1>2. ASSUME NEW l \in Login, sessions' = Revoke(sessions, l)
      PROVE  /\ DOMAIN sessions' = DOMAIN sessions
             /\ s \in DOMAIN sessions => sessions'[s].revoked \/ sessions'[s] = sessions[s]
             /\ l \in DOMAIN sessions => sessions'[l].revoked
  <2> DEFINE new == [sessions[l] EXCEPT !.revoked = TRUE]
  <2>1. sessions' = [sessions EXCEPT ![l] = new]
    BY <1>2 DEF Revoke
  <2>2. l \in DOMAIN sessions => new.revoked
    BY <1>1 DEF TypeOK, SessionRow
  <2> HIDE DEF new
  <2>3. QED
    BY <2>1, <2>2
<1>3. s \in DOMAIN sessions =>
        s \in DOMAIN sessions' /\ (sessions[s].revoked => sessions'[s].revoked)
  <2>1. ASSUME NEW l \in Login, Grant(l) \/ (FailsAfterInsert(l) /\ login[l].at = "grant"),
               s \in DOMAIN sessions
        PROVE  s \in DOMAIN sessions' /\ sessions'[s] = sessions[s]
    <3>1. l \notin DOMAIN sessions
      BY <2>1 DEF LoginInvariant, RecordHolds, Grant
    <3>2. QED
      BY <2>1, <3>1 DEF Grant, FailsAfterInsert
  <2>2. ASSUME NEW l \in Login, AnswerLogout(l) \/ LogoutFails(l), s \in DOMAIN sessions
        PROVE  s \in DOMAIN sessions' /\ (sessions[s].revoked => sessions'[s].revoked)
    BY <1>2, <2>2 DEF AnswerLogout, LogoutFails
  <2>3. ASSUME NEW l \in Login, FailsAfterInsert(l), login[l].at # "grant"
        PROVE  UNCHANGED sessions
    BY <2>3 DEF FailsAfterInsert
  <2>4. QED
    BY <2>1, <2>2, <2>3 DEF Next, StartLogin, CheckLimit, FindUser, RecordFailure, Record, Clear,
       Fails, AskLogout, SetUserActive, SeedAdmin, Restart, Tick, tables
<1>4. CASE logout'[s] = logout[s]
  BY <1>1, <1>3, <1>4 DEF LogoutHolds
<1>5. CASE logout'[s] # logout[s]
  <2>1. logout'[s] = "none" \/ AskLogout(s) \/ AnswerLogout(s)
    <3>1. ASSUME NEW l \in Login, AskLogout(l) \/ AnswerLogout(l) \/ LogoutFails(l)
          PROVE  logout'[s] = "none" \/ AskLogout(s) \/ AnswerLogout(s)
      <4>1. CASE l = s
        BY <1>1, <3>1, <4>1 DEF LogoutFails
      <4>2. CASE l # s
        BY <1>1, <1>5, <3>1, <4>2 DEF AskLogout, AnswerLogout, LogoutFails
      <4>3. QED
        BY <4>1, <4>2
    <3>2. CASE Restart
      BY <1>1, <1>5, <3>2 DEF Restart
    <3>3. ~UNCHANGED logout
      BY <1>5
    <3>4. QED
      BY <3>1, <3>2, <3>3 DEF Next, StartLogin, CheckLimit, FindUser, RecordFailure, Grant, Record,
         Clear, Fails, FailsAfterInsert, SetUserActive, SeedAdmin, Tick
  <2>2. CASE logout'[s] = "none"
    BY <2>2 DEF LogoutHolds
  <2>3. CASE AskLogout(s)
    <3>1. logout'[s] = "asked" /\ s \in DOMAIN sessions /\ UNCHANGED sessions
      BY <1>1, <2>3 DEF AskLogout, Authenticates, tables
    <3>2. QED
      BY <3>1 DEF LogoutHolds
  <2>4. CASE AnswerLogout(s)
    <3>1. s \in DOMAIN sessions
      BY <1>1, <2>4 DEF LogoutHolds, AnswerLogout
    <3>2. QED
      BY <1>2, <2>4, <3>1 DEF LogoutHolds, AnswerLogout
  <2>5. QED
    BY <2>1, <2>2, <2>3, <2>4
<1>6. QED
  BY <1>4, <1>5

-----------------------------------------------------------------------------
(* Theorems *)

LEMMA InitHolds == Init => LoginInvariant
<1> SUFFICES ASSUME Init PROVE LoginInvariant
  OBVIOUS
<1>1. NewLogin \in LoginRecord /\ NewLogin.at = "idle" /\ NewLogin.answer = "none"
      /\ NewLogin.stamp = 0
  <2>1. (CHOOSE n \in Name : TRUE) \in Name /\ (CHOOSE p \in Password : TRUE) \in Password
    BY LoginAssumption
  <2>2. "idle" \in Step /\ "none" \in Answer
    BY Words
  <2>3. QED
    BY <2>1, <2>2 DEF NewLogin, LoginRecord
<1>2. \A l \in Login : login[l] = NewLogin
  BY DEF Init
<1>3. TypeOK
  <2>1. login \in [Login -> LoginRecord]
    BY <1>1 DEF Init
  <2>2. QED
    BY <2>1, LoginAssumption DEF Init, TypeOK
<1>4. \A k \in KeySet : LimiterHolds(k)
  BY FS_EmptySet, LoginAssumption DEF Init, LimiterHolds, Recent
<1>5. \A l \in Login : RecordHolds(l) /\ LogoutHolds(l)
  BY <1>1, <1>2 DEF Init, RecordHolds, LogoutHolds
<1>6. QED
  BY <1>3, <1>4, <1>5 DEF LoginInvariant

\* A request in record or clear has its session, one on record keeps it, and
\* the limiter forgets no attempt that still counts: what the properties below
\* rest on, and what every step of login_handler and logout_handler keeps.
THEOREM LoginInvariantHolds == Spec => []LoginInvariant
<1>1. Init => LoginInvariant
  BY InitHolds
<1>2. LoginInvariant /\ [Next]_vars => LoginInvariant'
  <2> SUFFICES ASSUME LoginInvariant, [Next]_vars PROVE LoginInvariant'
    OBVIOUS
  <2>1. CASE Next
    BY <2>1, StepTyped, StepLimited, StepRecorded, StepLoggedOut DEF LoginInvariant
  <2>2. CASE UNCHANGED vars
    BY <2>2 DEF vars, tables, LoginInvariant, TypeOK, LimiterHolds, Recent, RecordHolds,
                LogoutHolds
  <2>3. QED
    BY <2>1, <2>2
<1>3. QED
  BY <1>1, <1>2, PTL DEF Spec

\* The state of the login service is always of its type, also after restarts.
THEOREM TypeCorrect == Spec => []TypeOK
<1>1. LoginInvariant => TypeOK
  BY DEF LoginInvariant
<1>2. QED
  BY <1>1, LoginInvariantHolds, PTL

\* check_login_rate_limit: however many attempts wait for the mutex with clocks
\* read before it, at most Limit of those that still count have passed it.
THEOREM AttemptsStayBounded == Spec => []AttemptsBounded
<1>1. LoginInvariant => AttemptsBounded
  <2> SUFFICES ASSUME LoginInvariant, NEW k \in KeySet
               PROVE  Cardinality(Recent(k, now)) <= Limit
    BY DEF AttemptsBounded
  <2>1. /\ Recent(k, now) \subseteq attempts[k] /\ Cardinality(attempts[k]) <= Limit
        /\ attempts[k] \in SUBSET Login
    BY DEF LoginInvariant, LimiterHolds, TypeOK
  <2>2. /\ Cardinality(attempts[k]) \in Nat /\ Cardinality(Recent(k, now)) \in Nat
        /\ Cardinality(Recent(k, now)) <= Cardinality(attempts[k])
    BY <2>1, Finite
  <2>3. QED
    BY <2>1, <2>2, LoginAssumption
<1>2. QED
  BY <1>1, LoginInvariantHolds, PTL

\* Only check_login_rate_limit answers that there were too many attempts.
LEMMA OnlyLimiterRefuses ==
  ASSUME LoginInvariant, Next, NEW l \in Login,
         login[l].answer # "rate_limited", login'[l].answer = "rate_limited"
  PROVE  CheckLimit(l)
<1>1. TypeOK
  BY DEF LoginInvariant
<1>2. login'[l] # login[l]
  OBVIOUS
<1>3. ~Restart
  BY <1>1, <1>2, RestartsTo
<1>4. ~MeanwhileStep
  BY <1>2 DEF MeanwhileStep, AskLogout, AnswerLogout, LogoutFails, SetUserActive, SeedAdmin, Tick
<1>5. OwnStep(l)
  BY <1>1, <1>2, <1>3, <1>4, NextSteps, OwnMoves
<1>6. ASSUME NEW answer \in {"unauthorized", "error", "ok"} PROVE ~Answers(l, answer)
  BY <1>1, AnswersTo, Words
<1>7. ASSUME NEW at \in {"record", "clear"} PROVE ~Goes(l, at)
  BY <1>1, GoesTo, Words
<1>8. ~StartLogin(l) /\ ~FindUser(l)
  BY <1>1, StartsTo, FindsTo
<1>9. QED
  BY <1>5, <1>6, <1>7, <1>8 DEF OwnStep, RecordFailure, Grant, Record, Clear, Fails,
     FailsAfterInsert

\* check_login_rate_limit turns nobody away for attempts that are too old or
\* that a successful login has forgiven.
THEOREM RefusalsStayJustified == Spec => RefusalsJustified
<1>1. LoginInvariant /\ [Next]_vars =>
        [\A l \in Login :
           login[l].answer # "rate_limited" /\ login'[l].answer = "rate_limited"
             => Cardinality(Recent(KeyOf(l), login[l].stamp)) >= Limit]_vars
  <2> SUFFICES ASSUME LoginInvariant, Next, NEW l \in Login,
                      login[l].answer # "rate_limited", login'[l].answer = "rate_limited"
               PROVE  Cardinality(Recent(KeyOf(l), login[l].stamp)) >= Limit
    OBVIOUS
  <2>1. TypeOK /\ CheckLimit(l)
    BY OnlyLimiterRefuses DEF LoginInvariant
  <2>2. IsOverLimit(Cardinality(Remembered(l)))
    <3>1. CASE Goes(l, "lookup")
      BY <2>1, <3>1, GoesTo, Words
    <3>2. QED
      BY <2>1, <3>1 DEF CheckLimit
  <2>3. /\ KeyOf(l) \in KeySet
        /\ attempts[KeyOf(l)] \subseteq passed[KeyOf(l)]
        /\ passed[KeyOf(l)] \subseteq Login
    BY <2>1, KeyKnown DEF LoginInvariant, LimiterHolds, TypeOK
  <2>4. /\ Remembered(l) \subseteq Recent(KeyOf(l), login[l].stamp)
        /\ Recent(KeyOf(l), login[l].stamp) \in SUBSET Login
    BY <2>3 DEF Remembered, Recent
  <2>5. /\ Cardinality(Remembered(l)) \in Nat
        /\ Cardinality(Recent(KeyOf(l), login[l].stamp)) \in Nat
        /\ Cardinality(Remembered(l)) <= Cardinality(Recent(KeyOf(l), login[l].stamp))
    BY <2>4, Finite
  <2>6. QED
    BY <2>2, <2>5, LoginAssumption DEF IsOverLimit
<1>2. QED
  BY <1>1, LoginInvariantHolds, PTL DEF Spec, RefusalsJustified

\* login_handler: whatever fails on the way, sessions, audit entries and
\* answers of a login fit each other.
THEOREM LoginsFitRecord == Spec => []LoginsOnRecord
<1>1. LoginInvariant => LoginsOnRecord
  BY DEF LoginInvariant, RecordHolds, LoginsOnRecord
<1>2. QED
  BY <1>1, LoginInvariantHolds, PTL

\* logout_handler: a session once revoked is never opened or inserted again.
THEOREM LogoutStaysFinal == Spec => []LogoutIsFinal
<1>1. LoginInvariant => LogoutIsFinal
  BY DEF LoginInvariant, LogoutHolds, LogoutIsFinal, Authenticates
<1>2. QED
  BY <1>1, LoginInvariantHolds, PTL
=============================================================================
