--------------------------- MODULE ApiGateProofs ----------------------------
(***************************************************************************)
(* Proofs about ApiGate: the properties of run api_gate for any number of  *)
(* requests, users and sessions and any tables to begin with.              *)
(***************************************************************************)
EXTENDS ApiGate, SequenceTheorems, TLAPS

Part == {"user", "admin", "path", "query", "body", "pool", "begin", "lock", "tx", "commit"}

\* The extractor that keeps out whoever may not do o.
Keeper(o) == IF o \in ForAdmins THEN "admin" ELSE "user"

\* What may be left of the service of o: its changes are committed by its last step
\* and by no other.
Left(o, rest) ==
  /\ rest \in Seq(Part)
  /\ \A i \in 1..(Len(rest) - 1) : rest[i] # "commit"
  /\ o = "logout" => Len(rest) <= 1
  /\ Writes(o) /\ o # "logout" /\ rest # <<>> => rest[Len(rest)] = "commit"

\* Whoever is past the keeper was entitled at some moment, and only whoever is past
\* it writes.
Gated(r) ==
  /\ req[r].at \in {"idle", "extract"} => r \notin Written
  /\ r \in Written => r \in entitled
  /\ r \notin entitled =>
       /\ req[r].at \notin {"service", "rescue"}
       /\ req[r].at = "extract" => req[r].rest # <<>> /\ Head(req[r].rest) = Keeper(req[r].op)
       /\ req[r].at = "done" => req[r].status \in {401, 403, 500}

Accepted == {200, 201, 204}
Rejected == {400, 401, 403, 404, 409}

\* A request has its changes when nothing is left of its service, and an error
\* after that is not the caller's.
Tells(r) ==
  /\ req[r].at \notin {"rescue", "done"} => req[r].status = 0
  /\ req[r].at = "rescue" => req[r].status \in Rejected \cup {500}
  /\ runs[r] = "succeeded" => r \in effects
  /\ req[r].at = "service" =>
       /\ Left(req[r].op, req[r].rest)
       /\ req[r].rest # <<>> => r \notin effects
       /\ req[r].rest = <<>> /\ Writes(req[r].op) => r \in effects
       /\ req[r].rest = <<>> /\ req[r].op = "recalculate_ratings" => runs[r] = "succeeded"
  /\ req[r].at \in {"rescue", "done"} /\ req[r].status \in Rejected => r \notin effects
  /\ req[r].at = "done" /\ req[r].status \in Accepted =>
       /\ Writes(req[r].op) => r \in effects
       /\ req[r].op = "recalculate_ratings" => runs[r] = "succeeded"

Stage == {"idle", "extract", "service", "rescue", "done"}
Status == {0, 200, 201, 204, 400, 401, 403, 404, 409, 500}
RunStatus == {"none", "running", "succeeded", "failed"}

TypeOfRequests ==
  req \in [Request -> RequestRecord] /\ effects \subseteq Request
    /\ runs \in [Request -> RunStatus]

GateInvariant == TypeOfRequests /\ \A r \in Request : Gated(r) /\ Tells(r)

-----------------------------------------------------------------------------
(* Extractors *)

\* The arguments of every handler are parts of a request, and those of a handler
\* that is not public begin with its keeper.
LEMMA KeeperComesFirst ==
  ASSUME NEW o \in Operation
  PROVE  /\ Extractors(o) \in Seq(Part)
         /\ o \notin Public => Extractors(o) # <<>> /\ Head(Extractors(o)) = Keeper(o)
<1> DEFINE u == Takes("user", ForUsers, o)
           a == Takes("admin", ForAdmins, o)
           p == Takes("path", TakesPath, o)
           q == Takes("query", TakesQuery, o)
           b == Takes("body", TakesBody, o)
<1>1. u \in Seq(Part) /\ a \in Seq(Part) /\ p \in Seq(Part) /\ q \in Seq(Part) /\ b \in Seq(Part)
  <2>1. ASSUME NEW part \in Part, NEW ops PROVE Takes(part, ops, o) \in Seq(Part)
    <3>1. <<part>> \in Seq(Part)
      OBVIOUS
    <3>2. <<>> \in Seq(Part)
      BY EmptySeq
    <3>3. QED
      BY <3>1, <3>2 DEF Takes
  <2>2. QED
    BY <2>1 DEF Part
<1>2. Extractors(o) = u \o a \o p \o q \o b
  BY DEF Extractors
<1>3. o \notin Public => \/ u = <<"user">> /\ a = <<>> /\ Keeper(o) = "user"
                         \/ u = <<>> /\ a = <<"admin">> /\ Keeper(o) = "admin"
  BY DEF Takes, Operation, ForUsers, ForAdmins, Keeper
<1> HIDE DEF u, a, p, q, b
<1>4. Extractors(o) \in Seq(Part)
  BY <1>1, <1>2, ConcatProperties
<1>5. o \notin Public => u \o a = <<Keeper(o)>>
  BY <1>1, <1>3, ConcatEmptySeq
<1>6. ASSUME NEW x \in Seq(Part), NEW y \in Seq(Part), x # <<>>
      PROVE  x \o y \in Seq(Part) /\ x \o y # <<>> /\ Head(x \o y) = Head(x)
  <2>1. Len(x) >= 1
    BY <1>6, EmptySeq
  <2>2. x \o y \in Seq(Part) /\ x \o y # <<>>
    BY <1>6, ConcatProperties, ConcatEqualIffEmpty
  <2>3. (x \o y)[1] = x[1]
    BY <2>1, ConcatProperties, LenProperties
  <2>4. QED
    BY <1>6, <2>2, <2>3
<1>7. Keeper(o) \in Part
  BY DEF Keeper, Part
<1>8. ASSUME o \notin Public
      PROVE  Extractors(o) # <<>> /\ Head(Extractors(o)) = Keeper(o)
  <2>1. <<Keeper(o)>> \in Seq(Part) /\ <<Keeper(o)>> # <<>> /\ Head(<<Keeper(o)>>) = Keeper(o)
    BY <1>7
  <2>2. Extractors(o) = <<Keeper(o)>> \o p \o q \o b
    BY <1>2, <1>5, <1>8
  <2> DEFINE k1 == <<Keeper(o)>> \o p
             k2 == k1 \o q
  <2>3. k1 \in Seq(Part) /\ k1 # <<>> /\ Head(k1) = Keeper(o)
    BY <2>1, <1>1, <1>6
  <2> HIDE DEF k1
  <2>4. k2 \in Seq(Part) /\ k2 # <<>> /\ Head(k2) = Keeper(o)
    BY <2>3, <1>1, <1>6
  <2> HIDE DEF k2
  <2>5. k2 \o b # <<>> /\ Head(k2 \o b) = Keeper(o)
    BY <2>4, <1>1, <1>6
  <2>6. QED
    BY <2>2, <2>5 DEF k1, k2
<1>9. QED
  BY <1>4, <1>8

-----------------------------------------------------------------------------
(* Services *)

Closed(t) ==
  /\ t \in Seq(Part) /\ Len(t) > 0
  /\ \A i \in 1..(Len(t) - 1) : t[i] # "commit"
  /\ t[Len(t)] = "commit"

LEMMA TransactionsClosed ==
  Closed(<<"begin", "tx", "commit">>) /\ Closed(LedgerTransaction) /\ Closed(Recalculate)
<1>1. Closed(<<"begin", "tx", "commit">>)
  <2> DEFINE t == <<"begin", "tx", "commit">>
  <2>1. t \in Seq(Part) /\ Len(t) = 3 /\ t[1] = "begin" /\ t[2] = "tx" /\ t[3] = "commit"
    BY DEF Part
  <2> HIDE DEF t
  <2>2. Closed(t)
    BY <2>1 DEF Closed
  <2>3. QED
    BY <2>2 DEF t
<1>2. Closed(LedgerTransaction)
  <2> DEFINE t == <<"begin", "lock", "tx", "commit">>
  <2>1. /\ t \in Seq(Part) /\ Len(t) = 4
        /\ t[1] = "begin" /\ t[2] = "lock" /\ t[3] = "tx" /\ t[4] = "commit"
    BY DEF Part
  <2> HIDE DEF t
  <2>2. Closed(t)
    BY <2>1 DEF Closed
  <2>3. QED
    BY <2>2 DEF t, LedgerTransaction
<1>3. ASSUME NEW t, Closed(t) PROVE Closed(<<"pool">> \o t)
  <2> DEFINE p == <<"pool">>
  <2>1. p \in Seq(Part) /\ Len(p) = 1 /\ p[1] = "pool"
    BY DEF Part
  <2> HIDE DEF p
  <2>2. t \in Seq(Part) /\ Len(t) \in Nat
    BY <1>3, LenProperties DEF Closed
  <2>3. /\ p \o t \in Seq(Part) /\ Len(p \o t) = Len(t) + 1
        /\ \A i \in 1..(Len(t) + 1) : (p \o t)[i] = IF i <= 1 THEN p[i] ELSE t[i - 1]
    <3>1. /\ p \o t \in Seq(Part) /\ Len(p \o t) = Len(p) + Len(t)
          /\ \A i \in 1..Len(p) + Len(t) :
               (p \o t)[i] = IF i <= Len(p) THEN p[i] ELSE t[i - Len(p)]
      BY <2>1, <2>2, ConcatProperties
    <3>2. QED
      BY <2>1, <2>2, <3>1
  <2>4. Closed(p \o t)
    BY <1>3, <2>1, <2>2, <2>3 DEF Closed
  <2>5. QED
    BY <2>4 DEF p
<1>4. QED
  BY <1>1, <1>2, <1>3 DEF Recalculate

\* What a service begins with.
LEMMA ServiceIsLeft ==
  ASSUME NEW o \in Operation
  PROVE  /\ Left(o, Service(o)) /\ Service(o) \in Seq(Part)
         /\ Writes(o) => Service(o) # <<>>
<1>1. ASSUME NEW s \in Seq({"pool"}), Service(o) = s, ~Writes(o) \/ o = "logout",
             o = "logout" => Len(s) = 1
      PROVE  Left(o, s) /\ s \in Seq(Part) /\ (Writes(o) => s # <<>>)
  <2>1. s \in Seq(Part) /\ \A i \in 1..Len(s) : s[i] = "pool"
    BY DEF Part
  <2>2. Len(s) = 1 => s # <<>>
    BY EmptySeq
  <2>3. QED
    BY <1>1, <2>1, <2>2, LenProperties DEF Left, Writes
<1>2. ASSUME Closed(Service(o)), o # "logout"
      PROVE  Left(o, Service(o)) /\ Service(o) \in Seq(Part) /\ Service(o) # <<>>
  BY <1>2, EmptySeq DEF Closed, Left
<1>3. CASE o \in PlayerWrites \cup LedgerWrites
  <2>1. o # "logout"
    BY <1>3 DEF PlayerWrites, LedgerWrites
  <2>2. Service(o) \in {<<"begin", "tx", "commit">>, LedgerTransaction, Recalculate}
    BY <1>3 DEF Service, PlayerWrites, LedgerWrites
  <2>3. QED
    BY <1>2, <2>1, <2>2, TransactionsClosed
<1>4. CASE o \notin PlayerWrites \cup LedgerWrites
  <2>1. ~Writes(o) \/ o = "logout"
    BY <1>4 DEF Writes, ForAdmins, PlayerWrites, LedgerWrites
  <2>2. Service(o) \in {<<>>, <<"pool">>, GetMatch, Login} /\ (o = "logout" => Service(o) = <<"pool">>)
    BY <1>4 DEF Service, LedgerWrites
  <2>3. {<<>>, <<"pool">>, GetMatch, Login} \subseteq Seq({"pool"}) /\ Len(<<"pool">>) = 1
    BY DEF GetMatch, Login
  <2>4. QED
    BY <1>1, <2>1, <2>2, <2>3
<1>5. QED
  BY <1>3, <1>4

LEMMA LeftGoesOn ==
  ASSUME NEW o \in Operation, NEW rest, Left(o, rest), rest # <<>>
  PROVE  /\ Left(o, Tail(rest))
         /\ Head(rest) = "commit" => Tail(rest) = <<>>
         /\ o = "logout" => Tail(rest) = <<>>
         /\ Tail(rest) = <<>> /\ Writes(o) => Head(rest) = "commit" \/ o = "logout"
<1> DEFINE tail == Tail(rest)
           n == Len(rest)
<1>1. rest \in Seq(Part) /\ n \in Nat \ {0}
  BY EmptySeq, LenProperties DEF Left
<1>2. /\ Head(rest) = rest[1] /\ tail \in Seq(Part) /\ Len(tail) = n - 1
      /\ \A i \in 1..(n - 1) : tail[i] = rest[i + 1]
  BY <1>1, HeadTailProperties
<1>3. tail = <<>> <=> n = 1
  BY <1>1, <1>2, EmptySeq
<1> HIDE DEF tail
<1>4. Left(o, tail)
  BY <1>1, <1>2, <1>3 DEF Left
<1>5. QED
  BY <1>1, <1>2, <1>3, <1>4 DEF Left, tail

\* A service refuses before it uses the database or in its transaction, so there is
\* something left of it.
LEMMA RefusesInTime ==
  ASSUME NEW o, NEW rest, NEW status \in Refusals(o, rest)
  PROVE  status \in {400, 404, 409} /\ rest # <<>>
<1>1. CASE rest # <<>> /\ Head(rest) = "tx"
  BY <1>1 DEF Refusals
<1>2. CASE rest = <<>> \/ Head(rest) # "tx"
  <2>1. rest = Service(o)
    BY <1>2 DEF Refusals
  <2>2. o \in {"create_player", "update_player", "submit_match", "correct_match",
               "recalculate_ratings", "list_audit_log", "get_leaderboard", "get_player", "get_match"}
    BY <1>2, <2>1 DEF Refusals
  <2>3. Service(o) # <<>>
    BY <2>2 DEF Service, PlayerWrites, LedgerWrites, LedgerTransaction, Recalculate, GetMatch
  <2>4. QED
    BY <1>2, <2>1, <2>2, <2>3 DEF Refusals
<1>3. QED
  BY <1>1, <1>2

-----------------------------------------------------------------------------
(* Steps *)

LEMMA InitGated == Init => GateInvariant
<1> SUFFICES ASSUME Init PROVE GateInvariant
  OBVIOUS
<1>1. NewRequest \in RequestRecord
  BY DEF NewRequest, RequestRecord, Operation, ForUsers
<1>2. \A r \in Request : req[r] = NewRequest /\ r \notin Written /\ r \notin effects /\ runs[r] = "none"
  BY DEF Init, Written
<1>3. QED
  BY <1>1, <1>2 DEF Init, GateInvariant, TypeOfRequests, RunStatus, Gated, Tells, NewRequest

\* entitled only grows, and a request that is entitled after the step and has
\* written nothing yet is in it.
LEMMA ObservedStays ==
  ASSUME Observes
  PROVE  /\ entitled \subseteq entitled'
         /\ \A r \in Request \ Written :
              req'[r].at # "idle" /\ Entitles(req[r].session, req[r].op)' => r \in entitled'
BY DEF Observes

\* A request the step leaves alone stays gated.
LEMMA OthersStayGated ==
  ASSUME GateInvariant, Observes, NEW r \in Request,
         req'[r] = req[r], r \in effects' <=> r \in effects, runs'[r] = runs[r]
  PROVE  Gated(r)' /\ Tells(r)'
<1>1. r \in Written' <=> r \in Written
  BY DEF Written
<1>2. QED
  BY <1>1, ObservedStays DEF GateInvariant, Gated, Tells

\* So it is enough to look at the request served.
LEMMA ServedStaysGated ==
  ASSUME GateInvariant, Observes, NEW r \in Request,
         req' \in [Request -> RequestRecord], runs' \in [Request -> RunStatus],
         \A q \in Request \ {r} : req'[q] = req[q] /\ runs'[q] = runs[q],
         effects' = effects \/ effects' = effects \cup {r},
         Gated(r)', Tells(r)'
  PROVE  GateInvariant'
<1>1. TypeOfRequests'
  BY DEF GateInvariant, TypeOfRequests
<1>2. ASSUME NEW q \in Request, q # r PROVE Gated(q)' /\ Tells(q)'
  BY <1>2, OthersStayGated
<1>3. QED
  BY <1>1, <1>2 DEF GateInvariant

\* What the fields of a request are.
LEMMA FieldsOfRequest ==
  /\ RequestRecord = [at : Stage, op : Operation, session : SessionId \cup {NoSession},
                      wellFormed : BOOLEAN, rest : Seq(Part), status : Status]
  /\ "done" \in Stage /\ "service" \in Stage /\ "rescue" \in Stage
BY DEF RequestRecord, Stage, Status, Part

\* Answers ends the request with an answer and leaves the others alone.
LEMMA AnswersAnswers ==
  ASSUME TypeOfRequests, NEW r \in Request,
         NEW status \in Status, Answers(r, status)
  PROVE  /\ req' \in [Request -> RequestRecord]
         /\ req'[r].at = "done" /\ req'[r].status = status /\ req'[r].op = req[r].op
         /\ \A q \in Request \ {r} : req'[q] = req[q]
<1> DEFINE new == [req[r] EXCEPT !.at = "done", !.status = status]
<1>1. req[r] \in RequestRecord /\ req \in [Request -> RequestRecord]
  BY DEF TypeOfRequests
<1>2. new \in RequestRecord /\ new.at = "done" /\ new.status = status /\ new.op = req[r].op
  BY <1>1, FieldsOfRequest
<1>3. req' = [req EXCEPT ![r] = new]
  BY <1>1, FieldsOfRequest DEF Answers
<1> HIDE DEF new
<1>4. QED
  BY <1>1, <1>2, <1>3

\* GoesOn goes on to the next part or step.
LEMMA NextInTurn ==
  ASSUME TypeOfRequests, NEW r \in Request, req[r].rest # <<>>, GoesOn(r)
  PROVE  /\ req' \in [Request -> RequestRecord]
         /\ req'[r].at = req[r].at /\ req'[r].status = req[r].status
         /\ req'[r].op = req[r].op /\ req'[r].session = req[r].session
         /\ req'[r].rest = Tail(req[r].rest)
         /\ \A q \in Request \ {r} : req'[q] = req[q]
<1> DEFINE new == [req[r] EXCEPT !.rest = Tail(@)]
<1>1. req[r] \in RequestRecord /\ req \in [Request -> RequestRecord]
  BY DEF TypeOfRequests
<1>2. Tail(req[r].rest) \in Seq(Part)
  BY <1>1, HeadTailProperties DEF RequestRecord, Part
<1>3. /\ new \in RequestRecord
      /\ new.at = req[r].at /\ new.status = req[r].status
      /\ new.op = req[r].op /\ new.session = req[r].session /\ new.rest = Tail(req[r].rest)
  BY <1>1, <1>2, FieldsOfRequest
<1>4. req' = [req EXCEPT ![r] = new]
  BY <1>1 DEF GoesOn
<1> HIDE DEF new
<1>5. QED
  BY <1>1, <1>3, <1>4

\* Ends answers the request with an error, or leaves it to its rescue.
LEMMA EndsEnds ==
  ASSUME TypeOfRequests, NEW r \in Request, NEW status \in Status, Ends(r, status)
  PROVE  /\ req' \in [Request -> RequestRecord]
         /\ req'[r].at \in {"rescue", "done"} /\ req'[r].status = status
         /\ req'[r].op = req[r].op
         /\ \A q \in Request \ {r} : req'[q] = req[q]
<1> DEFINE after == Rescue(req[r].op, req[r].rest)
           at == IF after = <<>> THEN "done" ELSE "rescue"
           new == [req[r] EXCEPT !.at = at, !.rest = after, !.status = status]
<1>1. req[r] \in RequestRecord /\ req \in [Request -> RequestRecord]
  BY DEF TypeOfRequests
<1>2. after \in Seq(Part)
  <2>1. <<>> \in Seq(Part) /\ <<"pool">> \in Seq(Part)
    BY EmptySeq DEF Part
  <2>2. QED
    BY <2>1 DEF Rescue
<1>3. at \in {"rescue", "done"}
  OBVIOUS
<1>4. req' = [req EXCEPT ![r] = new]
  BY <1>1, FieldsOfRequest DEF Ends
<1> HIDE DEF at, after
<1>5. new \in RequestRecord /\ new.at = at /\ new.status = status /\ new.op = req[r].op
  BY <1>1, <1>2, <1>3, FieldsOfRequest
<1> HIDE DEF new
<1>6. QED
  BY <1>1, <1>3, <1>4, <1>5

\* What a step of the service commits.
LEMMA CommitsOwn ==
  ASSUME GateInvariant, NEW r \in Request, req[r].at = "service", req[r].rest # <<>>,
         Commits(r)
  PROVE  /\ runs' \in [Request -> RunStatus]
         /\ \A q \in Request \ {r} : runs'[q] = runs[q]
         /\ effects' = effects \/ effects' = effects \cup {r}
         /\ r \in effects' <=> Head(req[r].rest) = "commit" \/ req[r].op = "logout"
         /\ runs'[r] = "succeeded" => r \in effects'
         /\ req[r].op = "recalculate_ratings" /\ Head(req[r].rest) = "commit"
              => runs'[r] = "succeeded"
<1>1. /\ r \notin effects /\ runs[r] # "succeeded" /\ effects \subseteq Request
      /\ runs \in [Request -> RunStatus]
  BY DEF GateInvariant, TypeOfRequests, Tells
<1>2. /\ effects' = IF Head(req[r].rest) = "commit" \/ req[r].op = "logout"
                    THEN effects \cup {r} ELSE effects
      /\ \/ runs' = runs
            /\ ~(req[r].op = "recalculate_ratings" /\ Head(req[r].rest) \in {"pool", "commit"})
         \/ runs' = [runs EXCEPT ![r] = "running"] /\ Head(req[r].rest) = "pool"
         \/ runs' = [runs EXCEPT ![r] = "succeeded"] /\ Head(req[r].rest) = "commit"
  BY DEF Commits
<1>3. QED
  BY <1>1, <1>2 DEF RunStatus

LEMMA ArriveGated ==
  ASSUME GateInvariant, Observes, NEW r \in Request, Arrive(r)
  PROVE  GateInvariant'
<1>1. PICK o \in Offered, s \in SessionId \cup {NoSession}, ok \in BOOLEAN :
        req' = [req EXCEPT ![r] = [at |-> "extract", op |-> o, session |-> s,
                                   wellFormed |-> ok, rest |-> Extractors(o), status |-> 0]]
  BY DEF Arrive
<1> DEFINE new == [at |-> "extract", op |-> o, session |-> s,
                   wellFormed |-> ok, rest |-> Extractors(o), status |-> 0]
<1>2. o \in Operation
  BY ApiAssumption
<1>3. new \in RequestRecord
  BY <1>2, KeeperComesFirst DEF RequestRecord, Part
<1>4. /\ req \in [Request -> RequestRecord] /\ r \notin Written /\ effects' = effects
      /\ runs' = runs /\ runs \in [Request -> RunStatus] /\ req[r].at = "idle"
  BY DEF GateInvariant, TypeOfRequests, Gated, Arrive, Keeps
<1> HIDE DEF new
<1>5. /\ req' \in [Request -> RequestRecord] /\ req'[r] = new
      /\ \A q \in Request \ {r} : req'[q] = req[q]
  BY <1>1, <1>3, <1>4 DEF new
<1>6. /\ req'[r].at = "extract" /\ req'[r].op = o /\ req'[r].status = 0
      /\ req'[r].rest = Extractors(o)
  BY <1>5 DEF new
<1>7. o \in Public => r \in entitled'
  BY <1>4, <1>6, ObservedStays DEF Entitles
<1>8. r \notin Written' /\ runs'[r] # "succeeded"
  BY <1>4 DEF Written
<1>9. Gated(r)' /\ Tells(r)'
  BY <1>2, <1>6, <1>7, <1>8, KeeperComesFirst DEF Gated, Tells
<1>10. QED
  BY <1>4, <1>5, <1>9, ServedStaysGated

\* A request that is still extracted, or answered by an extractor.
LEMMA ExtractedGated ==
  ASSUME GateInvariant, Observes, NEW r \in Request, req[r].at = "extract", Keeps,
         req' \in [Request -> RequestRecord],
         \A q \in Request \ {r} : req'[q] = req[q],
         \/ req'[r].at = "extract" /\ req'[r].status = 0 /\ r \in entitled'
         \/ req'[r].at = "done" /\ req'[r].status \in {401, 403, 500}
         \/ req'[r].at = "done" /\ req'[r].status = 400 /\ r \in entitled'
  PROVE  GateInvariant'
<1>1. /\ effects' = effects /\ runs' = runs /\ runs \in [Request -> RunStatus]
      /\ r \notin Written /\ r \notin Written'
  BY DEF GateInvariant, TypeOfRequests, Gated, Written, Keeps
<1>2. r \notin effects' /\ runs'[r] # "succeeded"
  BY <1>1 DEF Written
<1>3. Gated(r)' /\ Tells(r)'
  BY <1>1, <1>2 DEF Gated, Tells, Accepted
<1>4. QED
  BY <1>1, <1>3, ServedStaysGated

LEMMA LookUpGated ==
  ASSUME GateInvariant, Observes, NEW r \in Request, LookUp(r)
  PROVE  GateInvariant'
<1> DEFINE s == req[r].session
<1>1. /\ TypeOfRequests /\ req[r].at = "extract" /\ req[r].rest # <<>> /\ req[r].status = 0
      /\ r \notin Written /\ Gated(r) /\ Keeps
  BY DEF GateInvariant, Gated, Tells, LookUp, Turn
<1>2. \/ Answers(r, 401) \/ Answers(r, 403)
      \/ /\ GoesOn(r)
         /\ Authenticates(sessions, users, s, now)
         /\ Head(req[r].rest) = "admin" => IsAdmin(UserOf(s))
  BY DEF LookUp
<1>3. CASE Answers(r, 401) \/ Answers(r, 403)
  <2>1. PICK status \in {401, 403} : Answers(r, status)
    BY <1>3
  <2>2. /\ req' \in [Request -> RequestRecord]
        /\ req'[r].at = "done" /\ req'[r].status = status
        /\ \A q \in Request \ {r} : req'[q] = req[q]
    BY <1>1, <2>1, AnswersAnswers DEF Status
  <2>3. QED
    BY <1>1, <2>2, ExtractedGated
<1>4. CASE /\ GoesOn(r)
           /\ Authenticates(sessions, users, s, now)
           /\ Head(req[r].rest) = "admin" => IsAdmin(UserOf(s))
  <2>1. /\ req' \in [Request -> RequestRecord]
        /\ req'[r].at = "extract" /\ req'[r].status = 0
        /\ req'[r].op = req[r].op /\ req'[r].session = s
        /\ \A q \in Request \ {r} : req'[q] = req[q]
    BY <1>1, <1>4, NextInTurn
  <2>2. r \in entitled'
    <3>1. CASE r \in entitled
      BY <3>1, ObservedStays
    <3>2. CASE r \notin entitled
      <4>1. Head(req[r].rest) = Keeper(req[r].op)
        BY <1>1, <3>2 DEF Gated
      <4>2. Entitles(s, req[r].op)
        BY <1>4, <4>1 DEF Entitles, IsAdmin, Keeper
      <4>3. Entitles(req[r].session, req[r].op)'
        BY <1>1, <2>1, <4>2 DEF Entitles, UserOf, Keeps
      <4>4. QED
        BY <1>1, <2>1, <4>3, ObservedStays
    <3>3. QED
      BY <3>1, <3>2
  <2>3. QED
    BY <1>1, <2>1, <2>2, ExtractedGated
<1>5. QED
  BY <1>2, <1>3, <1>4

\* The look-up that fails answers 500 before anybody is let in.
LEMMA LookUpFailsGated ==
  ASSUME GateInvariant, Observes, NEW r \in Request, LookUpFails(r)
  PROVE  GateInvariant'
<1>1. TypeOfRequests /\ req[r].at = "extract" /\ Keeps /\ Answers(r, 500)
  BY DEF GateInvariant, LookUpFails, Turn
<1>2. /\ req' \in [Request -> RequestRecord]
      /\ req'[r].at = "done" /\ req'[r].status = 500
      /\ \A q \in Request \ {r} : req'[q] = req[q]
  BY <1>1, AnswersAnswers DEF Status
<1>3. QED
  BY <1>1, <1>2, ExtractedGated

\* Path, query and body are looked at only for callers that are entitled.
LEMMA ParseGated ==
  ASSUME GateInvariant, Observes, NEW r \in Request, Parse(r)
  PROVE  GateInvariant'
<1>1. /\ TypeOfRequests /\ req[r].at = "extract" /\ req[r].status = 0 /\ Keeps
      /\ req[r].rest # <<>> /\ Head(req[r].rest) \in {"path", "query", "body"}
      /\ Gated(r)
  BY DEF GateInvariant, Gated, Tells, Parse, Turn
<1>2. r \in entitled'
  BY <1>1, ObservedStays DEF Gated, Keeper
<1>3. GoesOn(r) \/ Answers(r, 400)
  BY DEF Parse
<1>4. /\ req' \in [Request -> RequestRecord]
      /\ \A q \in Request \ {r} : req'[q] = req[q]
      /\ \/ req'[r].at = "done" /\ req'[r].status = 400
         \/ req'[r].at = "extract" /\ req'[r].status = 0
  BY <1>1, <1>3, AnswersAnswers, NextInTurn DEF Status
<1>5. QED
  BY <1>1, <1>2, <1>4, ExtractedGated

\* So are services run only for them.
LEMMA AdmitGated ==
  ASSUME GateInvariant, Observes, NEW r \in Request, Admit(r)
  PROVE  GateInvariant'
<1> DEFINE in == [req[r] EXCEPT !.at = "service", !.rest = Service(req[r].op)]
<1>1. /\ req \in [Request -> RequestRecord] /\ req[r].at = "extract" /\ req[r].status = 0
      /\ req[r].rest = <<>> /\ r \notin Written /\ effects' = effects /\ Gated(r)
      /\ runs' = runs /\ runs \in [Request -> RunStatus]
  BY DEF GateInvariant, TypeOfRequests, Gated, Tells, Admit, Keeps
<1>2. r \in entitled'
  BY <1>1, ObservedStays DEF Gated
<1>3. /\ Left(req[r].op, Service(req[r].op)) /\ Service(req[r].op) \in Seq(Part)
      /\ Writes(req[r].op) => Service(req[r].op) # <<>>
  BY <1>1, ServiceIsLeft DEF RequestRecord
<1>4. /\ in \in RequestRecord /\ in.at = "service" /\ in.status = 0 /\ in.op = req[r].op
      /\ in.rest = Service(req[r].op)
  BY <1>1, <1>3, FieldsOfRequest
<1>5. req' = [req EXCEPT ![r] = in]
  BY <1>1 DEF Admit
<1> HIDE DEF in
<1>6. /\ req' \in [Request -> RequestRecord] /\ req'[r] = in
      /\ \A q \in Request \ {r} : req'[q] = req[q]
  BY <1>1, <1>4, <1>5
<1>7. r \notin effects' /\ runs'[r] # "succeeded" /\ r \notin Written'
  BY <1>1 DEF Written
<1>8. "recalculate_ratings" # req[r].op \/ Writes(req[r].op)
  BY DEF Writes, ForAdmins
<1>9. Gated(r)' /\ Tells(r)'
  BY <1>2, <1>3, <1>4, <1>6, <1>7, <1>8 DEF Gated, Tells
<1>10. QED
  BY <1>1, <1>6, <1>9, ServedStaysGated

LEMMA AdvanceGated ==
  ASSUME GateInvariant, Observes, NEW r \in Request, Advance(r)
  PROVE  GateInvariant'
<1>1. /\ TypeOfRequests /\ req[r].at = "service" /\ req[r].rest # <<>> /\ req[r].status = 0
      /\ Commits(r) /\ GoesOn(r) /\ r \in entitled /\ r \notin effects
      /\ Left(req[r].op, req[r].rest) /\ req[r].op \in Operation
  BY DEF GateInvariant, TypeOfRequests, RequestRecord, Gated, Tells, Advance
<1>2. /\ req' \in [Request -> RequestRecord]
      /\ req'[r].at = "service" /\ req'[r].status = 0 /\ req'[r].op = req[r].op
      /\ req'[r].rest = Tail(req[r].rest)
      /\ \A q \in Request \ {r} : req'[q] = req[q]
  BY <1>1, NextInTurn
<1>3. r \in entitled'
  BY <1>1, ObservedStays
<1>4. /\ runs' \in [Request -> RunStatus]
      /\ \A q \in Request \ {r} : runs'[q] = runs[q]
      /\ effects' = effects \/ effects' = effects \cup {r}
      /\ r \in effects' <=> Head(req[r].rest) = "commit" \/ req[r].op = "logout"
      /\ runs'[r] = "succeeded" => r \in effects'
      /\ req[r].op = "recalculate_ratings" /\ Head(req[r].rest) = "commit"
           => runs'[r] = "succeeded"
  BY <1>1, CommitsOwn
<1>5. /\ Left(req[r].op, Tail(req[r].rest))
      /\ Head(req[r].rest) = "commit" => Tail(req[r].rest) = <<>>
      /\ req[r].op = "logout" => Tail(req[r].rest) = <<>>
      /\ Tail(req[r].rest) = <<>> /\ Writes(req[r].op)
           => Head(req[r].rest) = "commit" \/ req[r].op = "logout"
  BY <1>1, LeftGoesOn
<1>6. Writes("recalculate_ratings")
  BY DEF Writes, ForAdmins
<1>7. Gated(r)'
  BY <1>2, <1>3 DEF Gated
<1>8. Tells(r)'
  BY <1>2, <1>4, <1>5, <1>6 DEF Tells
<1>9. QED
  BY <1>2, <1>4, <1>7, <1>8, ServedStaysGated

LEMMA SucceedGated ==
  ASSUME GateInvariant, Observes, NEW r \in Request, Succeed(r)
  PROVE  GateInvariant'
<1>1. /\ TypeOfRequests /\ req[r].at = "service" /\ Keeps /\ r \in entitled
      /\ req[r].rest = <<>> /\ (Writes(req[r].op) => r \in effects)
      /\ req[r].op = "recalculate_ratings" => runs[r] = "succeeded"
      /\ runs[r] = "succeeded" => r \in effects
  BY DEF GateInvariant, Gated, Tells, Succeed
<1>2. PICK status \in {200, 201, 204} : Answers(r, status)
  BY DEF Succeed, Success
<1>3. /\ req' \in [Request -> RequestRecord]
      /\ req'[r].at = "done" /\ req'[r].status = status /\ req'[r].op = req[r].op
      /\ \A q \in Request \ {r} : req'[q] = req[q]
  BY <1>1, <1>2, AnswersAnswers DEF Status
<1>4. effects' = effects /\ runs' = runs /\ runs \in [Request -> RunStatus] /\ r \in entitled'
  BY <1>1, ObservedStays DEF Keeps, TypeOfRequests
<1>5. Gated(r)' /\ Tells(r)'
  BY <1>1, <1>3, <1>4 DEF Gated, Tells, Accepted, Rejected
<1>6. QED
  BY <1>3, <1>4, <1>5, ServedStaysGated

\* A step that fails is answered 500 in the end, whether or not it took effect.
LEMMA FailGated ==
  ASSUME GateInvariant, Observes, NEW r \in Request, Fail(r)
  PROVE  GateInvariant'
<1>1. /\ TypeOfRequests /\ req[r].at = "service" /\ req[r].rest # <<>> /\ r \in entitled
      /\ Ends(r, 500) /\ (Commits(r) \/ Keeps) /\ (runs[r] = "succeeded" => r \in effects)
  BY DEF GateInvariant, Gated, Tells, Fail, DatabaseStatus
<1>2. /\ req' \in [Request -> RequestRecord]
      /\ req'[r].at \in {"rescue", "done"} /\ req'[r].status = 500
      /\ \A q \in Request \ {r} : req'[q] = req[q]
  BY <1>1, EndsEnds DEF Status
<1>3. r \in entitled'
  BY <1>1, ObservedStays
<1>4. /\ runs' \in [Request -> RunStatus]
      /\ \A q \in Request \ {r} : runs'[q] = runs[q]
      /\ effects' = effects \/ effects' = effects \cup {r}
      /\ runs'[r] = "succeeded" => r \in effects'
  BY <1>1, CommitsOwn DEF Keeps, TypeOfRequests
<1>5. Gated(r)' /\ Tells(r)'
  BY <1>2, <1>3, <1>4 DEF Gated, Tells, Accepted, Rejected
<1>6. QED
  BY <1>2, <1>4, <1>5, ServedStaysGated

\* Services refuse only while they have something left to do.
LEMMA RefuseGated ==
  ASSUME GateInvariant, Observes, NEW r \in Request, Refuse(r)
  PROVE  GateInvariant'
<1>1. /\ TypeOfRequests /\ req[r].at = "service" /\ Keeps /\ r \in entitled
      /\ req[r].rest # <<>> => r \notin effects
      /\ runs[r] = "succeeded" => r \in effects
  BY DEF GateInvariant, Gated, Tells, Refuse
<1>2. PICK status \in Refusals(req[r].op, req[r].rest) : Ends(r, status)
  BY DEF Refuse
<1>3. status \in {400, 404, 409} /\ req[r].rest # <<>>
  BY <1>2, RefusesInTime
<1>4. /\ req' \in [Request -> RequestRecord]
      /\ req'[r].at \in {"rescue", "done"} /\ req'[r].status = status
      /\ \A q \in Request \ {r} : req'[q] = req[q]
  BY <1>1, <1>2, <1>3, EndsEnds DEF Status
<1>5. effects' = effects /\ runs' = runs /\ runs \in [Request -> RunStatus] /\ r \in entitled'
  BY <1>1, ObservedStays DEF Keeps, TypeOfRequests
<1>6. Gated(r)' /\ Tells(r)'
  BY <1>1, <1>3, <1>4, <1>5 DEF Gated, Tells, Accepted, Rejected
<1>7. QED
  BY <1>4, <1>5, <1>6, ServedStaysGated

LEMMA MarkFailedGated ==
  ASSUME GateInvariant, Observes, NEW r \in Request, MarkFailed(r)
  PROVE  GateInvariant'
<1> DEFINE new == [req[r] EXCEPT !.at = "done"]
<1>1. /\ req \in [Request -> RequestRecord] /\ req[r].at = "rescue" /\ r \in entitled
      /\ req[r].status \in Rejected \cup {500} /\ effects' = effects
      /\ (req[r].status \in Rejected => r \notin effects)
      /\ runs \in [Request -> RunStatus] /\ (runs[r] = "succeeded" => r \in effects)
  BY DEF GateInvariant, TypeOfRequests, Gated, Tells, MarkFailed
<1>2. new \in RequestRecord /\ new.at = "done" /\ new.status = req[r].status
  <2>1. req[r] \in RequestRecord
    BY <1>1
  <2>2. QED
    BY <2>1, FieldsOfRequest
<1>3. req' = [req EXCEPT ![r] = new]
  BY <1>1, FieldsOfRequest DEF MarkFailed
<1> HIDE DEF new
<1>4. /\ req' \in [Request -> RequestRecord] /\ req'[r] = new
      /\ \A q \in Request \ {r} : req'[q] = req[q]
  BY <1>1, <1>2, <1>3
<1>5. /\ runs' \in [Request -> RunStatus]
      /\ (\A q \in Request \ {r} : runs'[q] = runs[q])
      /\ (runs'[r] = "succeeded" => r \in effects)
  <2>1. runs' = runs \/ runs' = [runs EXCEPT ![r] = "failed"]
    BY DEF MarkFailed
  <2>2. QED
    BY <1>1, <2>1 DEF RunStatus
<1>6. r \in entitled'
  BY <1>1, ObservedStays
<1>7. req[r].status \notin Accepted
  BY <1>1 DEF Accepted, Rejected
<1>8. Gated(r)' /\ Tells(r)'
  BY <1>1, <1>2, <1>4, <1>5, <1>6, <1>7 DEF Gated, Tells
<1>9. QED
  BY <1>1, <1>4, <1>5, <1>8, ServedStaysGated

\* Sessions, roles and the clock may move at any time.
LEMMA MeanwhileGated ==
  ASSUME GateInvariant, Observes, UNCHANGED <<req, effects, runs>>
  PROVE  GateInvariant'
<1>1. \A r \in Request : Gated(r)' /\ Tells(r)'
  BY OthersStayGated
<1>2. QED
  BY <1>1 DEF GateInvariant, TypeOfRequests

LEMMA StepsGated == GateInvariant /\ [Next]_vars => GateInvariant'
<1> SUFFICES ASSUME GateInvariant, [Next]_vars PROVE GateInvariant'
  OBVIOUS
<1>1. CASE UNCHANGED vars
  BY <1>1 DEF vars, GateInvariant, TypeOfRequests, Gated, Tells, Written
<1>2. CASE Next
  <2>1. Observes
    BY <1>2 DEF Next
  <2>2. ASSUME NEW r \in Request, Serves(r) PROVE GateInvariant'
    BY <2>1, <2>2, ArriveGated, LookUpGated, LookUpFailsGated, ParseGated, AdmitGated,
       AdvanceGated, SucceedGated, FailGated, RefuseGated, MarkFailedGated DEF Serves
  <2>3. CASE UNCHANGED <<req, effects, runs>>
    BY <2>1, <2>3, MeanwhileGated
  <2>4. QED
    BY <1>2, <2>2, <2>3 DEF Next, SetUserActive, SeedAdmin, Tick
<1>3. QED
  BY <1>1, <1>2

LEMMA AlwaysGated == Spec => []GateInvariant
<1>1. QED
  BY InitGated, StepsGated, PTL DEF Spec

-----------------------------------------------------------------------------
(* Types *)

TypeOfTables ==
  /\ now \in Nat
  /\ DOMAIN users \subseteq Name /\ \A n \in DOMAIN users : users[n] \in UserRow
  /\ DOMAIN sessions \subseteq SessionId
  /\ \A s \in DOMAIN sessions : sessions[s] \in SessionRow
  /\ entitled \subseteq Request

LEMMA RevokeKeepsSessions ==
  ASSUME TypeOfTables, NEW s, sessions' = Revoke(sessions, s)
  PROVE  /\ DOMAIN sessions' \subseteq SessionId
         /\ \A t \in DOMAIN sessions' : sessions'[t] \in SessionRow
<1> DEFINE new == [sessions[s] EXCEPT !.revoked = TRUE]
<1>1. sessions' = [sessions EXCEPT ![s] = new]
  BY DEF Revoke
<1>2. s \in DOMAIN sessions => new \in SessionRow
  BY DEF TypeOfTables, SessionRow
<1> HIDE DEF new
<1>3. QED
  BY <1>1, <1>2 DEF TypeOfTables

LEMMA SetUserActiveKeepsUsers ==
  ASSUME TypeOfTables, NEW n \in Name, SetUserActive(n)
  PROVE  /\ DOMAIN users' \subseteq Name
         /\ \A m \in DOMAIN users' : users'[m] \in UserRow
<1> DEFINE new == [users[n] EXCEPT !.active = ~@]
<1>1. users' = [users EXCEPT ![n] = new]
  BY DEF SetUserActive
<1>2. new \in UserRow
  BY DEF TypeOfTables, UserRow, SetUserActive
<1> HIDE DEF new
<1>3. QED
  BY <1>1, <1>2 DEF TypeOfTables

LEMMA TablesKeepTypes == TypeOfTables /\ [Next]_vars => TypeOfTables'
<1> SUFFICES ASSUME TypeOfTables, [Next]_vars PROVE TypeOfTables'
  OBVIOUS
<1>1. CASE UNCHANGED vars
  BY <1>1 DEF vars, TypeOfTables
<1>2. CASE Next
  <2>1. entitled' \subseteq Request
    BY <1>2 DEF Next, Observes, TypeOfTables
  <2>2. ASSUME NEW r \in Request, Serves(r) PROVE TypeOfTables'
    <3>1. CASE Commits(r)
      <4>1. sessions' = sessions \/ sessions' = Revoke(sessions, req[r].session)
        BY <3>1 DEF Commits
      <4>2. QED
        BY <2>1, <3>1, <4>1, RevokeKeepsSessions DEF Commits, TypeOfTables
    <3>2. CASE UNCHANGED <<now, users, sessions>>
      BY <2>1, <3>2 DEF TypeOfTables
    <3>3. QED
      BY <2>2, <3>1, <3>2
         DEF Serves, Arrive, LookUp, LookUpFails, Parse, Admit, Advance, Succeed, Fail, Refuse,
             MarkFailed, Keeps
  <2>3. ASSUME NEW n \in Name, SetUserActive(n) PROVE TypeOfTables'
    BY <2>1, <2>3, SetUserActiveKeepsUsers DEF SetUserActive, TypeOfTables
  <2>4. ASSUME NEW n \in Name, NEW p \in Password, SeedAdmin(n, p) PROVE TypeOfTables'
    <3>1. [hash |-> p, role |-> "admin", active |-> TRUE] \in UserRow
      BY DEF UserRow, Role
    <3>2. QED
      BY <2>1, <2>4, <3>1 DEF SeedAdmin, EnsureAdmin, TypeOfTables
  <2>5. CASE Tick
    BY <2>1, <2>5 DEF Tick, TypeOfTables
  <2>6. QED
    BY <1>2, <2>2, <2>3, <2>4, <2>5 DEF Next
<1>3. QED
  BY <1>1, <1>2

-----------------------------------------------------------------------------
(* Theorems *)

\* Every variable stays in its type.
THEOREM TypeCorrect == Spec => []TypeOK
<1>1. Init => TypeOfTables
  BY ApiAssumption DEF Init, TypeOfTables
<1>2. GateInvariant /\ TypeOfTables => TypeOK
  BY DEF GateInvariant, TypeOfRequests, TypeOfTables, TypeOK, RunStatus
<1>3. QED
  BY <1>1, <1>2, TablesKeepTypes, AlwaysGated, PTL DEF Spec

\* However many requests are under way and however sessions, roles and the clock
\* move, no handler writes anything for a caller who was not entitled to it at some
\* moment between the arrival of the request and its first write.
THEOREM OnlyEntitledTakeEffect == Spec => []EffectsWereEntitled
<1>1. GateInvariant => EffectsWereEntitled
  BY DEF GateInvariant, TypeOfRequests, Gated, Written, EffectsWereEntitled
<1>2. QED
  BY <1>1, AlwaysGated, PTL

\* The AuthenticatedUser and AdminUser extractors come before all others, so a
\* caller who was never entitled is answered 401, 403 or 500 whatever was asked.
THEOREM StrangersLearnNothing == Spec => []RefusalsTellNothing
<1>1. GateInvariant => RefusalsTellNothing
  BY DEF GateInvariant, TypeOfRequests, RequestRecord, Gated, Tells, RefusalsTellNothing
<1>2. QED
  BY <1>1, AlwaysGated, PTL

\* Whatever fails at whatever step of whichever service, and whether or not the step
\* took effect: 2xx means that the changes are committed, 4xx that they are not,
\* also for a recalculation that leaves its run behind.
THEOREM AnswersTell == Spec => []AnswersTellOutcome
<1>1. GateInvariant => AnswersTellOutcome
  <2> SUFFICES ASSUME GateInvariant, NEW r \in Request, req[r].at = "done"
               PROVE  /\ req[r].status \in 200..299 =>
                           /\ Writes(req[r].op) => r \in effects
                           /\ req[r].op = "recalculate_ratings" => runs[r] = "succeeded"
                      /\ req[r].status \in 400..499 => r \notin effects /\ runs[r] # "succeeded"
    BY DEF AnswersTellOutcome
  <2>1. Tells(r) /\ req[r].status \in Status
    BY DEF GateInvariant, TypeOfRequests, RequestRecord, Status
  <2>2. \A status \in Status :
          /\ status \in 200..299 => status \in Accepted
          /\ status \in 400..499 => status \in Rejected
    BY DEF Status, Accepted, Rejected
  <2> DEFINE status == req[r].status
  <2>3. /\ status \in Accepted =>
             /\ Writes(req[r].op) => r \in effects
             /\ req[r].op = "recalculate_ratings" => runs[r] = "succeeded"
        /\ status \in Rejected => r \notin effects /\ runs[r] # "succeeded"
    BY <2>1 DEF Tells
  <2>4. /\ status \in 200..299 => status \in Accepted
        /\ status \in 400..499 => status \in Rejected
    BY <2>1, <2>2
  <2> HIDE DEF status
  <2>5. /\ status \in 200..299 =>
             /\ Writes(req[r].op) => r \in effects
             /\ req[r].op = "recalculate_ratings" => runs[r] = "succeeded"
        /\ status \in 400..499 => r \notin effects /\ runs[r] # "succeeded"
    BY <2>3, <2>4
  <2>6. QED
    BY <2>5 DEF status
<1>2. QED
  BY <1>1, AlwaysGated, PTL
=============================================================================
