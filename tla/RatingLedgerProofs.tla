------------------------- MODULE RatingLedgerProofs -------------------------
(***************************************************************************)
(* What holds of the rating ledger for any number of players, matches,     *)
(* workers and runs, any bounds and any rating function.                   *)
(***************************************************************************)
EXTENDS RatingLedgerInvariant, SortingProofs

\* The loop of a replay has a next match: any non-empty set of matches has a
\* first one in the order played_at, created_at, id.
LEMMA FirstOfIsFirst ==
  ASSUME NEW ms, NEW S \in SUBSET MatchId, S # {},
         \A m \in S : ms[m].playedAt \in Nat /\ ms[m].createdAt \in Nat
  PROVE  /\ FirstOf(ms, S) \in S
         /\ \A k \in S : k = FirstOf(ms, S) \/ ReplayBefore(ms, FirstOf(ms, S), k)
PROOF
<1> DEFINE Played  == {ms[m].playedAt : m \in S}
<1>1. PICK at \in Played : \A x \in Played : at <= x
  <2>1. Played \in SUBSET Nat /\ Played # {}  OBVIOUS
  <2> QED BY <2>1, LeastNatural
<1> DEFINE A       == {m \in S : ms[m].playedAt = at}
           Created == {ms[m].createdAt : m \in A}
<1>2. PICK ct \in Created : \A x \in Created : ct <= x
  <2>1. Created \in SUBSET Nat /\ Created # {}  OBVIOUS
  <2> QED BY <2>1, LeastNatural
<1> DEFINE B == {m \in A : ms[m].createdAt = ct}
<1>3. PICK id \in B : \A x \in B : id <= x
  <2>1. B \in SUBSET Nat /\ B # {}  BY TablesAssumption DEF TablesAssumption
  <2> QED BY <2>1, LeastNatural
<1>4. \A k \in S : k = id \/ ReplayBefore(ms, id, k)
  <2> SUFFICES ASSUME NEW k \in S, k # id  PROVE ReplayBefore(ms, id, k)
    OBVIOUS
  <2>1. id \in S /\ ms[id].playedAt = at /\ ms[id].createdAt = ct  BY <1>3
  <2>2. at \in Nat /\ ct \in Nat /\ id \in Nat /\ k \in Nat
    BY <1>1, <1>2, <2>1, TablesAssumption DEF TablesAssumption
  <2>3. at <= ms[k].playedAt  BY <1>1
  <2>4. ms[k].playedAt = at => ct <= ms[k].createdAt  BY <1>2
  <2>5. ms[k].playedAt = at /\ ms[k].createdAt = ct => id <= k  BY <1>3
  <2> HIDE DEF Played, A, Created, B
  <2> QED BY <2>1, <2>2, <2>3, <2>4, <2>5 DEF ReplayBefore
<1> QED BY <1>3, <1>4 DEF FirstOf

-----------------------------------------------------------------------------
(* Steps of one request that write nothing outside its transaction *)

Holding(t) == t.pc \in {"locked", "loaded", "writing"}

\* A step that writes neither to the history nor to the request of v, and deletes
\* no player, preserves all that is said of that request and its pending writes.
LEMMA RequestUndisturbed ==
  ASSUME LedgerInvariant, UNCHANGED matches,
         DOMAIN rating \subseteq DOMAIN rating',
         NEW v \in Worker, tx'[v] = tx[v]
  PROVE  PlayersKnown(v)' /\ RequestFormed(v)' /\ WritesFit(v)'
PROOF
<1>1. RequestFits(v)
  BY DEF LedgerInvariant
<1>2. PlayersKnown(v)'
  BY <1>1 DEF RequestFits, PlayersKnown
<1>3. RequestFormed(v)'
  BY <1>1 DEF RequestFits, RequestFormed, TargetConfirmed
<1>4. WritesFit(v)'
  <2>1. MatchesSeen(v)' = MatchesSeen(v) /\ Confirmed(MatchesSeen(v))' = Confirmed(MatchesSeen(v))
    BY DEF MatchesSeen
  <2>2. Rewritten(v)' = Rewritten(v) /\ (VoidsTarget(v)' <=> VoidsTarget(v))
    BY DEF Rewritten, VoidsTarget, TargetConfirmed
  <2>3. \A m, from : Inserts(v, m, from)' <=> Inserts(v, m, from)
    BY DEF Inserts
  <2>4. WritesFitEvent(v)' <=> WritesFitEvent(v)
    BY <2>2, <2>3 DEF WritesFitEvent
  <2> QED BY <1>1, <2>1, <2>4 DEF RequestFits, WritesFit
<1> QED BY <1>2, <1>3, <1>4

\* A step of w that leaves the tables alone and keeps its own request well
\* formed preserves the invariant: no other request depends on it, except
\* through the lock and the ownership of a run.
LEMMA OwnStep ==
  ASSUME LedgerInvariant, NEW w \in Worker,
         UNCHANGED <<clock, tables>>,
         tx' = [tx EXCEPT ![w] = tx'[w]],
         IsTx(tx'[w]),
         lock' \in Worker \cup {Nobody},
         lock' = w <=> Holding(tx'[w]),
         \A v \in Worker \ {w} : lock' = v <=> lock = v,
         PlayersKnown(w)', RequestFormed(w)', WritesFit(w)',
         tx'[w].op = "recalculate" =>
           /\ tx[w].op = "recalculate" /\ tx'[w].run = tx[w].run
           /\ tx[w].pc = "failing" => tx'[w].pc = "failing"
  PROVE  LedgerInvariant'
PROOF
<1> USE DEF tables
<1>1. DOMAIN tx = Worker /\ DOMAIN tx' = Worker
  BY DEF LedgerInvariant, TypeOK
<1>2. \A v \in Worker \ {w} : tx'[v] = tx[v]
  BY <1>1
<1>3. TypeOK'
  BY <1>1, <1>2 DEF LedgerInvariant, TypeOK
<1>4. LockGuardsTransaction'
  BY <1>2 DEF LedgerInvariant, LockGuardsTransaction, Holding
<1>5. ASSUME NEW v \in Worker  PROVE RequestFits(v)'
  <2>1. RequestFits(v) /\ RequestFits(w)
    BY DEF LedgerInvariant
  <2>2. CASE v = w
    <3>1. RunOwned(w)'
      BY <1>2, <2>1 DEF RequestFits, RunOwned
    <3> QED BY <2>2, <3>1 DEF RequestFits
  <2>3. CASE v # w
    <3>1. tx'[v] = tx[v]
      BY <1>2, <2>3
    <3>2. PlayersKnown(v)' /\ RequestFormed(v)' /\ WritesFit(v)'
      BY <3>1, RequestUndisturbed
    <3>3. RunOwned(v)'
      BY <1>2, <2>1, <2>3 DEF RequestFits, RunOwned
    <3> QED BY <3>2, <3>3 DEF RequestFits
  <2> QED BY <2>2, <2>3
<1>6. PlayersExist' /\ AuditMatchesHistory' /\ CorrectionsAreLinear' /\ RunOutcomeAudited'
  BY DEF LedgerInvariant, PlayersExist, AuditMatchesHistory, CorrectionsAreLinear,
     RunOutcomeAudited
<1> QED BY <1>3, <1>4, <1>5, <1>6 DEF LedgerInvariant

\* An idle worker's record, and the one that a rolled back recalculation keeps
\* to mark its run failed, are well typed.
LEMMA IdleIsTx ==
  /\ IsTx(IdleTx)
  /\ \A r \in Run : IsTx([IdleTx EXCEPT !.op = "recalculate", !.pc = "failing", !.run = r])
PROOF
<1>1. IsTable(NoRows, Player, StorableSkill) /\ IsTable(NoRows, Player, RatingRow)
  BY DEF IsTable, NoRows
<1>2. DOMAIN NoRows = {}
  BY DEF NoRows
<1>3. IsTx(IdleTx)
  BY <1>1, <1>2 DEF IdleTx, IsTx
<1>4. ASSUME NEW r \in Run
      PROVE  IsTx([IdleTx EXCEPT !.op = "recalculate", !.pc = "failing", !.run = r])
  <2> DEFINE t == [IdleTx EXCEPT !.op = "recalculate", !.pc = "failing", !.run = r]
  <2>1. /\ t \in [op : {"recalculate"}, pc : {"failing"}, begunAt : {0}, run : {r},
                target : {NoMatch}, playedAt : {0}, place : {NoRows}, event : {<<>>},
                todo : {{}}, old : {t.old}, ratings : {t.ratings}, rows : {t.rows}]
        /\ t.old = NoRows /\ t.ratings = NoRows /\ t.rows = NoRows
    BY DEF IdleTx
  <2> HIDE DEF t
  <2>2. IsTx(t)
    BY <1>1, <1>2, <2>1 DEF IsTx
  <2> QED BY <2>2 DEF t
<1> QED BY <1>3, <1>4

\* BEGIN of a transaction preserves the invariant.
LEMMA BeginStep ==
  ASSUME LedgerInvariant, NEW w \in Worker,
         NEW op \in {"submit", "void", "correct", "recalculate"},
         NEW target \in MatchId \cup {NoMatch}, NEW run \in Run \cup {NoRun},
         Begin(w, op, target, run),
         tx[w].pc \in {"idle", "started"},
         op = "recalculate" => tx[w].op = "recalculate" /\ run = tx[w].run
  PROVE  LedgerInvariant'
PROOF
<1>1. DOMAIN tx = Worker /\ clock \in Nat /\ lock \in Worker \cup {Nobody}
  BY LedgerAssumption DEF LedgerInvariant, TypeOK, LedgerAssumption
<1> DEFINE t == [IdleTx EXCEPT !.op = op, !.pc = "waiting", !.begunAt = clock,
                               !.target = target, !.run = run]
<1>2. tx' = [tx EXCEPT ![w] = t] /\ tx'[w] = t
  BY <1>1 DEF Begin
<1>3. t.op = op /\ t.pc = "waiting" /\ t.run = run /\ t.rows = NoRows /\ t.todo = {}
      /\ t.place = NoRows /\ t.ratings = NoRows
  BY DEF IdleTx
<1>4. IsTx(t)
  <2>1. IsTx(IdleTx)
    BY IdleIsTx
  <2>2. /\ t \in [op : {t.op}, pc : {t.pc}, begunAt : {clock}, run : {run}, target : {target},
                playedAt : {IdleTx.playedAt}, place : {IdleTx.place}, old : {IdleTx.old},
                ratings : {IdleTx.ratings}, rows : {IdleTx.rows}, event : {IdleTx.event},
                todo : {IdleTx.todo}]
        /\ t.old = IdleTx.old /\ t.ratings = IdleTx.ratings /\ t.rows = IdleTx.rows
    BY <1>3 DEF IdleTx
  <2> HIDE DEF t
  <2> QED BY <1>1, <1>3, <2>1, <2>2 DEF IsTx
<1> HIDE DEF t
<1>5. UNCHANGED <<clock, tables, lock>>
  BY DEF Begin
<1>6. lock # w
  BY DEF LedgerInvariant, LockGuardsTransaction
<1>7. DOMAIN NoRows = {}
  BY DEF NoRows
<1>8. PlayersKnown(w)' /\ RequestFormed(w)' /\ WritesFit(w)'
  BY <1>2, <1>3, <1>7 DEF PlayersKnown, RequestFormed, WritesFit
<1>9. ~Holding(tx'[w])
  BY <1>2, <1>3 DEF Holding
<1> QED BY <1>1, <1>2, <1>3, <1>4, <1>5, <1>6, <1>8, <1>9, OwnStep

\* The end of a transaction that publishes nothing preserves the invariant.
LEMMA EndStep ==
  ASSUME LedgerInvariant, NEW w \in Worker, NEW next \in {IdleTx, AbortedTx(w)},
         Ends(w, next), UNCHANGED <<clock, tables>>
  PROVE  LedgerInvariant'
PROOF
<1>1. DOMAIN tx = Worker /\ lock \in Worker \cup {Nobody} /\ Nobody \notin Worker
  BY LedgerAssumption DEF LedgerInvariant, TypeOK, LedgerAssumption
<1>2. tx' = [tx EXCEPT ![w] = next] /\ tx'[w] = next
  BY <1>1 DEF Ends
<1>3. tx[w].op = "recalculate" => tx[w].run \in Run
  BY DEF LedgerInvariant, RequestFits, RunOwned, TypeOK, IsTable
<1>4. /\ IsTx(next)
      /\ next.pc \in {"idle", "failing"} /\ next.rows = NoRows /\ next.todo = {}
      /\ next.place = NoRows /\ next.ratings = NoRows
      /\ next.pc = "failing" => next.op = "recalculate"
      /\ next.op = "recalculate" =>
           tx[w].op = "recalculate" /\ next.run = tx[w].run /\ next.pc = "failing"
  <2>1. CASE next = IdleTx
    BY <2>1, IdleIsTx DEF IdleTx
  <2>2. CASE next # IdleTx
    <3>1. /\ tx[w].op = "recalculate"
          /\ next = [IdleTx EXCEPT !.op = "recalculate", !.pc = "failing", !.run = tx[w].run]
      BY <2>2 DEF AbortedTx
    <3>2. IsTx(next)
      BY <3>1, <1>3, IdleIsTx
    <3> QED BY <3>1, <3>2 DEF IdleTx
  <2> QED BY <2>1, <2>2
<1>5. /\ lock' \in Worker \cup {Nobody} /\ lock' # w
      /\ \A v \in Worker \ {w} : lock' = v <=> lock = v
  BY <1>1 DEF Ends
<1>6. DOMAIN NoRows = {}
  BY DEF NoRows
<1>7. PlayersKnown(w)' /\ RequestFormed(w)' /\ WritesFit(w)'
  BY <1>2, <1>4, <1>6 DEF PlayersKnown, RequestFormed, WritesFit
<1>8. ~Holding(tx'[w])
  BY <1>2, <1>4 DEF Holding
<1> QED BY <1>2, <1>4, <1>5, <1>7, <1>8, OwnStep

\* The lock is granted to a transaction that has read nothing yet.
LEMMA AcquireLockStep ==
  ASSUME LedgerInvariant, NEW w \in Worker, AcquireLock(w)
  PROVE  LedgerInvariant'
PROOF
<1>1. DOMAIN tx = Worker /\ IsTx(tx[w]) /\ lock = Nobody /\ Nobody \notin Worker
  BY LedgerAssumption DEF LedgerInvariant, TypeOK, LedgerAssumption, AcquireLock
<1> DEFINE t == [tx[w] EXCEPT !.pc = "locked"]
<1>2. tx' = [tx EXCEPT ![w] = t] /\ tx'[w] = t /\ lock' = w /\ tx[w].pc = "waiting"
  BY <1>1 DEF AcquireLock
<1>3. IsTx(t)
  BY <1>1 DEF IsTx
<1>4. /\ t.pc = "locked" /\ t.op = tx[w].op /\ t.run = tx[w].run /\ t.place = tx[w].place
      /\ t.ratings = tx[w].ratings /\ t.rows = tx[w].rows /\ t.todo = tx[w].todo
  BY <1>1 DEF IsTx
<1> HIDE DEF t
<1>5. UNCHANGED <<clock, tables>>
  BY DEF AcquireLock
<1>6. PlayersKnown(w) /\ RequestFormed(w)
  BY DEF LedgerInvariant, RequestFits
<1>7. PlayersKnown(w)' /\ RequestFormed(w)' /\ WritesFit(w)'
  BY <1>2, <1>4, <1>5, <1>6 DEF PlayersKnown, RequestFormed, WritesFit, tables
<1>8. Holding(tx'[w]) /\ \A v \in Worker \ {w} : lock' = v <=> lock = v
  BY <1>1, <1>2, <1>4 DEF Holding
<1> QED BY <1>2, <1>3, <1>4, <1>5, <1>7, <1>8, OwnStep

\* The players of accepted placements are players.
LEMMA PlacedArePlayers ==
  ASSUME NEW place \in ValidPlacements
  PROVE  DOMAIN place \subseteq Player
BY DEF ValidPlacements, Placements

\* What holding the lock says of w.
LEMMA HolderKeepsLock ==
  ASSUME LedgerInvariant, NEW w \in Worker, Holding(tx[w]), UNCHANGED lock,
         Holding(tx'[w])
  PROVE  /\ lock' \in Worker \cup {Nobody}
         /\ lock' = w <=> Holding(tx'[w])
         /\ \A v \in Worker \ {w} : lock' = v <=> lock = v
BY DEF LedgerInvariant, LockGuardsTransaction, Holding

\* Validation reads the ratings of active players, who all have one.
LEMMA LoadAndValidateStep ==
  ASSUME LedgerInvariant, NEW w \in Worker, LoadAndValidate(w)
  PROVE  LedgerInvariant'
PROOF
<1>1. /\ DOMAIN tx = Worker /\ IsTx(tx[w]) /\ active \subseteq DOMAIN rating
      /\ IsTable(rating, Player, RatingRow)
  BY DEF LedgerInvariant, TypeOK
<1>2. PICK place \in ValidPlacements, playedAt \in PlayedAt :
        /\ NewMatchAccepted(w, playedAt, place)
        /\ tx' = [tx EXCEPT ![w].pc = "loaded", ![w].playedAt = playedAt,
                            ![w].place = place,
                            ![w].old = [p \in DOMAIN place |-> rating[p].skill]]
  BY DEF LoadAndValidate
<1>3. /\ tx[w].pc = "locked" /\ tx[w].op \in {"submit", "correct"}
      /\ UNCHANGED <<clock, tables, lock>>
  BY DEF LoadAndValidate
<1> DEFINE old == [p \in DOMAIN place |-> rating[p].skill]
           t   == [tx[w] EXCEPT !.pc = "loaded", !.playedAt = playedAt,
                                !.place = place, !.old = old]
<1>4. tx' = [tx EXCEPT ![w] = t] /\ tx'[w] = t
  BY <1>1, <1>2
<1>5. DOMAIN place \subseteq DOMAIN rating /\ DOMAIN place \subseteq Player
  BY <1>1, <1>2, PlacedArePlayers DEF NewMatchAccepted
<1>6. IsTable(old, Player, StorableSkill)
  BY <1>1, <1>5 DEF IsTable, RatingRow
<1>7. DOMAIN old = DOMAIN place  OBVIOUS
<1> HIDE DEF old
<1>8. IsTx(t)
  BY <1>1, <1>2, <1>6 DEF IsTx
<1>9. /\ t.pc = "loaded" /\ t.op = tx[w].op /\ t.run = tx[w].run /\ t.place = place
      /\ t.playedAt = playedAt /\ t.old = old /\ t.target = tx[w].target
      /\ t.ratings = tx[w].ratings /\ t.rows = tx[w].rows /\ t.todo = tx[w].todo
  BY <1>1 DEF IsTx
<1> HIDE DEF t
<1>10. PlayersKnown(w) /\ RequestFormed(w)
  BY DEF LedgerInvariant, RequestFits
<1>11. PlayersKnown(w)'
  BY <1>3, <1>4, <1>5, <1>9, <1>10 DEF PlayersKnown, tables
<1>12. RequestFormed(w)'
  BY <1>2, <1>3, <1>4, <1>7, <1>9, <1>10
  DEF RequestFormed, NewMatchAccepted, TargetConfirmed, tables
<1>13. WritesFit(w)'
  BY <1>4, <1>9 DEF WritesFit
<1>14. Holding(tx[w]) /\ Holding(tx'[w])
  BY <1>3, <1>4, <1>9 DEF Holding
<1> QED BY <1>3, <1>4, <1>8, <1>9, <1>11, <1>12, <1>13, <1>14, HolderKeepsLock, OwnStep

\* The overlay of two tables is one.
LEMMA OverlayIsTable ==
  ASSUME NEW Key, NEW Row, NEW base, NEW writes,
         IsTable(base, Key, Row), IsTable(writes, Key, Row)
  PROVE  IsTable(Overlay(base, writes), Key, Row)
BY DEF Overlay, IsTable

\* New ratings that the database accepts make rows and snapshots it accepts.
LEMMA StorableRatings ==
  ASSUME NEW rt, NEW place \in ValidPlacements, NEW playedAt,
         NEW old \in [DOMAIN place -> StorableSkill],
         Storable(RatingsAfterMatch(rt, place, Rate(old, place), playedAt))
  PROVE  /\ IsTable(RatingsAfterMatch(rt, place, Rate(old, place), playedAt), Player, RatingRow)
         /\ DOMAIN RatingsAfterMatch(rt, place, Rate(old, place), playedAt) = DOMAIN place
         /\ Rate(old, place) \in [DOMAIN place -> StorableSkill]
PROOF
<1> DEFINE new     == Rate(old, place)
           ratings == RatingsAfterMatch(rt, place, new, playedAt)
<1>1. new \in [DOMAIN place -> Skill]
  BY RateAssumption DEF RateAssumption
<1>2. DOMAIN place \subseteq Player
  BY PlacedArePlayers
<1> HIDE DEF new
<1>3. /\ DOMAIN ratings = DOMAIN place
      /\ \A p \in DOMAIN place : ratings[p].skill = new[p]
      /\ ratings = [p \in DOMAIN place |-> ratings[p]]
  BY DEF RatingsAfterMatch, RatingAfterMatch
<1>4. \A p \in DOMAIN place : ratings[p] \in RatingRow
  BY <1>3 DEF Storable, new
<1> HIDE DEF ratings
<1>5. \A p \in DOMAIN place : new[p] \in StorableSkill
  BY <1>3, <1>4 DEF RatingRow
<1>6. new \in [DOMAIN place -> StorableSkill]
  BY <1>1, <1>5
<1>7. IsTable(ratings, Player, RatingRow)
  BY <1>2, <1>3, <1>4 DEF IsTable
<1> QED BY <1>3, <1>6, <1>7 DEF ratings, new

\* A submission's match is new, and so is its audit entry.
LEMMA SubmitWriteStep ==
  ASSUME LedgerInvariant, NEW w \in Worker, SubmitWrite(w)
  PROVE  LedgerInvariant'
PROOF
<1>1. DOMAIN tx = Worker /\ IsTx(tx[w])
  BY DEF LedgerInvariant, TypeOK
<1>2. PlayersKnown(w) /\ RequestFormed(w)
  BY DEF LedgerInvariant, RequestFits
<1> DEFINE place    == tx[w].place
           old      == tx[w].old
           playedAt == tx[w].playedAt
           new      == Rate(old, place)
           ratings  == SubmitWrites(w).ratings
           row      == SubmitWrites(w).row
<1>3. /\ ratings = RatingsAfterMatch(rating, place, new, playedAt)
      /\ row = NewRow(playedAt, tx[w].begunAt, NoMatch, place, old, new)
  BY DEF SubmitWrites
<1>4. PICK m \in MatchId \ DOMAIN matches :
        tx' = [tx EXCEPT ![w].pc = "writing", ![w].ratings = ratings,
                         ![w].rows = [x \in {m} |-> row],
                         ![w].event = <<"match.created", m>>]
  BY DEF SubmitWrite
<1>5. /\ tx[w].pc = "loaded" /\ tx[w].op = "submit" /\ Storable(ratings)
      /\ UNCHANGED <<clock, tables, lock>>
  BY DEF SubmitWrite
<1> HIDE DEF ratings, row
<1>6. /\ place \in ValidPlacements /\ playedAt \in PlayedAt /\ tx[w].begunAt \in Nat
      /\ old \in [DOMAIN place -> StorableSkill]
      /\ DOMAIN place \subseteq DOMAIN rating
  BY <1>1, <1>2, <1>5 DEF RequestFormed, PlayersKnown, IsTx, IsTable
<1> HIDE DEF place, old, playedAt
<1>7. /\ IsTable(ratings, Player, RatingRow) /\ DOMAIN ratings = DOMAIN place
      /\ new \in [DOMAIN place -> StorableSkill]
  <2>1. Storable(RatingsAfterMatch(rating, place, Rate(old, place), playedAt))
    BY <1>3, <1>5
  <2> HIDE DEF new
  <2>2. /\ IsTable(RatingsAfterMatch(rating, place, Rate(old, place), playedAt), Player, RatingRow)
        /\ DOMAIN RatingsAfterMatch(rating, place, Rate(old, place), playedAt) = DOMAIN place
        /\ Rate(old, place) \in [DOMAIN place -> StorableSkill]
    BY <1>6, <2>1, StorableRatings
  <2> QED BY <1>3, <2>2 DEF new
<1>8. /\ IsMatchRow(row) /\ row.status = "confirmed" /\ row.correctedFrom = NoMatch
      /\ row.place = place
  BY <1>3, <1>6, <1>7 DEF IsMatchRow, NewRow
<1> HIDE DEF new
<1> DEFINE rows  == [x \in {m} |-> row]
           event == <<"match.created", m>>
           t     == [tx[w] EXCEPT !.pc = "writing", !.ratings = ratings,
                                  !.rows = rows, !.event = event]
<1>9. tx' = [tx EXCEPT ![w] = t] /\ tx'[w] = t
  BY <1>1, <1>4
<1>10. /\ DOMAIN rows = {m} /\ rows[m] = row
       /\ event \in AuditEvent
  BY DEF AuditEvent
<1> HIDE DEF rows
<1>11. IsTx(t)
  <2> HIDE DEF event, ratings
  <2>1. /\ DOMAIN rows \subseteq MatchId
        /\ \A k \in DOMAIN rows : IsMatchRow(rows[k])
    BY <1>8, <1>10
  <2> QED BY <1>1, <1>7, <1>10, <2>1 DEF IsTx
<1>12. /\ t.pc = "writing" /\ t.op = "submit" /\ t.run = tx[w].run /\ t.place = place
       /\ t.ratings = ratings /\ t.rows = rows /\ t.todo = {} /\ t.event = event
  BY <1>1, <1>2, <1>5 DEF IsTx, RequestFormed, place
<1> HIDE DEF t
<1>13. PlayersKnown(w)'
  BY <1>5, <1>6, <1>7, <1>8, <1>9, <1>10, <1>12 DEF PlayersKnown, tables
<1>14. RequestFormed(w)'
  BY <1>9, <1>12 DEF RequestFormed
<1>15. WritesFit(w)'
  <2>1. Inserts(w, m, NoMatch)'
    BY <1>5, <1>8, <1>9, <1>10, <1>12 DEF Inserts, tables
  <2>2. WritesFitEvent(w)'
    BY <1>9, <1>10, <1>12, <2>1 DEF WritesFitEvent
  <2> QED BY <1>9, <1>12, <2>2 DEF WritesFit
<1>16. Holding(tx[w]) /\ Holding(tx'[w])
  BY <1>5, <1>9, <1>12 DEF Holding
<1> QED BY <1>5, <1>9, <1>11, <1>12, <1>13, <1>14, <1>15, <1>16, HolderKeepsLock, OwnStep

\* The reset and the query of a replay preserve the invariant, provided the rows
\* written before them fit the audit entry.
LEMMA StartReplayStep ==
  ASSUME LedgerInvariant, NEW w \in Worker, NEW rows, NEW event \in AuditEvent,
         StartReplay(w, rows, event),
         tx[w].pc \in {"locked", "loaded"},
         DOMAIN rows \subseteq MatchId,
         \A m \in DOMAIN rows : IsMatchRow(rows[m]) /\ DOMAIN rows[m].place \subseteq DOMAIN rating,
         WritesFitEvent(w)'
  PROVE  LedgerInvariant'
PROOF
<1>1. /\ DOMAIN tx = Worker /\ IsTx(tx[w]) /\ IsTable(rating, Player, RatingRow)
      /\ DOMAIN matches \subseteq MatchId
  BY DEF LedgerInvariant, TypeOK
<1> DEFINE ratings == [p \in DOMAIN rating |-> FreshRating(DefaultSkill)]
           todo    == Confirmed(Overlay(matches, rows))
           t       == [tx[w] EXCEPT !.pc = "writing", !.rows = rows, !.ratings = ratings,
                                    !.todo = todo, !.event = event]
<1>2. tx' = [tx EXCEPT ![w] = t] /\ tx'[w] = t /\ UNCHANGED <<clock, tables, lock>>
  BY <1>1 DEF StartReplay
<1>3. IsTable(ratings, Player, RatingRow) /\ DOMAIN ratings = DOMAIN rating
  BY <1>1, TablesAssumption DEF IsTable, RatingRow, FreshRating, TablesAssumption
<1>4. todo \subseteq MatchId
  <2>1. DOMAIN Overlay(matches, rows) \subseteq MatchId
    BY <1>1 DEF Overlay
  <2> QED BY <2>1 DEF Confirmed
<1> HIDE DEF ratings
<1>5. IsTx(t)
  <2> HIDE DEF todo
  <2> QED BY <1>1, <1>3, <1>4 DEF IsTx
<1>6. /\ t.pc = "writing" /\ t.op = tx[w].op /\ t.run = tx[w].run /\ t.place = tx[w].place
      /\ t.ratings = ratings /\ t.rows = rows /\ t.todo = todo
  BY <1>1 DEF IsTx
<1>7. PlayersKnown(w) /\ RequestFormed(w)
  BY DEF LedgerInvariant, RequestFits
<1>8. MatchesSeen(w)' = Overlay(matches, rows)
  <2> HIDE DEF t
  <2> QED BY <1>2, <1>6 DEF MatchesSeen, tables
<1>9. WritesFit(w)'
  <2>1. tx'[w].todo \subseteq Confirmed(MatchesSeen(w)')
    BY <1>2, <1>6, <1>8
  <2>2. Confirmed(MatchesSeen(w)') = Confirmed(MatchesSeen(w))'
    BY DEF Confirmed
  <2> QED BY <2>1, <2>2 DEF WritesFit
<1> HIDE DEF t, todo
<1>10. PlayersKnown(w)'
  BY <1>2, <1>3, <1>6, <1>7 DEF PlayersKnown, tables
<1>11. RequestFormed(w)'
  BY <1>2, <1>6, <1>7 DEF RequestFormed
<1>12. Holding(tx[w]) /\ Holding(tx'[w])
  BY <1>2, <1>6 DEF Holding
<1> QED BY <1>2, <1>5, <1>6, <1>9, <1>10, <1>11, <1>12, HolderKeepsLock, OwnStep

\* What StartReplay leaves of the request.
LEMMA StartReplayWrites ==
  ASSUME LedgerInvariant, NEW w \in Worker, NEW rows, NEW event,
         StartReplay(w, rows, event)
  PROVE  /\ tx'[w].rows = rows /\ tx'[w].event = event
         /\ tx'[w].op = tx[w].op /\ tx'[w].target = tx[w].target /\ tx'[w].run = tx[w].run
         /\ matches' = matches
PROOF
<1>1. DOMAIN tx = Worker /\ IsTx(tx[w])
  BY DEF LedgerInvariant, TypeOK
<1> QED BY <1>1 DEF StartReplay, tables, IsTx

\* A confirmed match, voided, is a row of the same match.
LEMMA VoidedRow ==
  ASSUME LedgerInvariant, NEW m \in Confirmed(matches)
  PROVE  /\ IsMatchRow(Voided(m)) /\ Voided(m).status = "voided"
         /\ SameMatch(Voided(m), matches[m])
         /\ DOMAIN Voided(m).place \subseteq DOMAIN rating
         /\ m \in DOMAIN matches /\ m \in MatchId
PROOF
<1>1. m \in DOMAIN matches /\ m \in MatchId /\ IsMatchRow(matches[m])
  BY DEF LedgerInvariant, TypeOK, Confirmed
<1>2. DOMAIN matches[m].place \subseteq DOMAIN rating
  BY <1>1 DEF LedgerInvariant, PlayersExist
<1> QED BY <1>1, <1>2 DEF Voided, IsMatchRow, SameMatch

LEMMA VoidWriteStep ==
  ASSUME LedgerInvariant, NEW w \in Worker, VoidWrite(w)
  PROVE  LedgerInvariant'
PROOF
<1> DEFINE m     == tx[w].target
           rows  == [x \in {m} |-> Voided(m)]
           event == <<"match.voided", m>>
<1>1. /\ tx[w].pc = "locked" /\ tx[w].op = "void" /\ m \in Confirmed(matches)
      /\ StartReplay(w, rows, event)
  BY DEF VoidWrite, TargetConfirmed
<1>2. /\ IsMatchRow(Voided(m)) /\ Voided(m).status = "voided"
      /\ SameMatch(Voided(m), matches[m])
      /\ DOMAIN Voided(m).place \subseteq DOMAIN rating
      /\ m \in DOMAIN matches /\ m \in MatchId
  BY <1>1, VoidedRow
<1>3. DOMAIN rows = {m} /\ rows[m] = Voided(m)  OBVIOUS
<1>4. event \in AuditEvent
  BY <1>2 DEF AuditEvent
<1> HIDE DEF rows
<1>5. /\ tx'[w].rows = rows /\ tx'[w].event = event /\ tx'[w].op = "void"
      /\ tx'[w].target = m /\ matches' = matches
  BY <1>1, StartReplayWrites
<1>6. WritesFitEvent(w)'
  <2>1. VoidsTarget(w)'
    BY <1>1, <1>2, <1>3, <1>5 DEF VoidsTarget, TargetConfirmed
  <2> QED BY <1>3, <1>5, <2>1 DEF WritesFitEvent
<1>7. /\ DOMAIN rows \subseteq MatchId
      /\ \A k \in DOMAIN rows : IsMatchRow(rows[k]) /\ DOMAIN rows[k].place \subseteq DOMAIN rating
  BY <1>2, <1>3
<1> QED BY <1>1, <1>4, <1>6, <1>7, StartReplayStep

LEMMA RecalculateWriteStep ==
  ASSUME LedgerInvariant, NEW w \in Worker, RecalculateWrite(w)
  PROVE  LedgerInvariant'
PROOF
<1> DEFINE event == <<"ratings.recalculated", tx[w].run>>
<1>1. /\ tx[w].pc = "locked" /\ tx[w].op = "recalculate"
      /\ StartReplay(w, NoRows, event)
  BY DEF RecalculateWrite
<1>2. tx[w].run \in Run
  BY <1>1 DEF LedgerInvariant, RequestFits, RunOwned, TypeOK, IsTable
<1>3. event \in AuditEvent
  BY <1>2 DEF AuditEvent
<1>4. DOMAIN NoRows = {}
  BY DEF NoRows
<1>5. /\ tx'[w].rows = NoRows /\ tx'[w].event = event /\ tx'[w].op = "recalculate"
      /\ tx'[w].run = tx[w].run
  BY <1>1, StartReplayWrites
<1>6. WritesFitEvent(w)'
  BY <1>4, <1>5 DEF WritesFitEvent
<1> HIDE DEF event
<1> QED BY <1>1, <1>3, <1>4, <1>6, StartReplayStep

\* A correction voids its target and inserts its match in one transaction.
LEMMA CorrectWriteStep ==
  ASSUME LedgerInvariant, NEW w \in Worker, CorrectWrite(w)
  PROVE  LedgerInvariant'
PROOF
<1> DEFINE place   == tx[w].place
           target  == tx[w].target
           default == [p \in DOMAIN place |-> DefaultSkill]
           row     == NewRow(tx[w].playedAt, tx[w].begunAt, target, place, default, default)
<1>1. PICK m \in MatchId \ DOMAIN matches :
        StartReplay(w, [x \in {m, target} |-> IF x = m THEN row ELSE Voided(x)],
                    <<"match.corrected", m>>)
  BY DEF CorrectWrite
<1>2. tx[w].pc = "loaded" /\ tx[w].op = "correct"
  BY DEF CorrectWrite
<1> DEFINE rows  == [x \in {m, target} |-> IF x = m THEN row ELSE Voided(x)]
           event == <<"match.corrected", m>>
<1>3. RequestFormed(w) /\ PlayersKnown(w) /\ IsTx(tx[w])
  BY DEF LedgerInvariant, RequestFits, TypeOK
<1>4. /\ place \in ValidPlacements /\ tx[w].playedAt \in PlayedAt /\ tx[w].begunAt \in Nat
      /\ target \in Confirmed(matches) /\ DOMAIN place \subseteq DOMAIN rating
  BY <1>2, <1>3 DEF RequestFormed, PlayersKnown, IsTx, TargetConfirmed
<1>5. /\ IsMatchRow(Voided(target)) /\ Voided(target).status = "voided"
      /\ SameMatch(Voided(target), matches[target])
      /\ DOMAIN Voided(target).place \subseteq DOMAIN rating
      /\ target \in DOMAIN matches /\ target \in MatchId
  BY <1>4, VoidedRow
<1> HIDE DEF place, target
<1>6. /\ IsMatchRow(row) /\ row.status = "confirmed" /\ row.correctedFrom = target
      /\ row.place = place
  BY <1>4, <1>5, TablesAssumption DEF IsMatchRow, NewRow, TablesAssumption
<1> HIDE DEF row
<1>7. DOMAIN rows = {m, target} /\ rows[m] = row /\ rows[target] = Voided(target) /\ m # target
  BY <1>5
<1>8. event \in AuditEvent
  BY DEF AuditEvent
<1> HIDE DEF rows
<1>9. StartReplay(w, rows, event)
  BY <1>1 DEF rows
<1>10. /\ tx'[w].rows = rows /\ tx'[w].event = event /\ tx'[w].op = "correct"
       /\ tx'[w].target = target /\ matches' = matches
  BY <1>2, <1>9, StartReplayWrites DEF target
<1>11. WritesFitEvent(w)'
  <2>1. VoidsTarget(w)'
    BY <1>4, <1>5, <1>7, <1>10 DEF VoidsTarget, TargetConfirmed
  <2>2. Inserts(w, m, tx[w].target)'
    BY <1>6, <1>7, <1>10 DEF Inserts
  <2> QED BY <1>7, <1>10, <2>1, <2>2 DEF WritesFitEvent
<1>12. /\ DOMAIN rows \subseteq MatchId
       /\ \A k \in DOMAIN rows : IsMatchRow(rows[k]) /\ DOMAIN rows[k].place \subseteq DOMAIN rating
  BY <1>4, <1>5, <1>6, <1>7
<1> QED BY <1>2, <1>8, <1>9, <1>11, <1>12, StartReplayStep

\* What a transaction that replays sees: rows of the right type, of players who
\* have a rating.
LEMMA RowsSeen ==
  ASSUME LedgerInvariant, NEW w \in Worker
  PROVE  /\ DOMAIN MatchesSeen(w) \subseteq MatchId
         /\ \A m \in DOMAIN MatchesSeen(w) :
              /\ IsMatchRow(MatchesSeen(w)[m])
              /\ DOMAIN MatchesSeen(w)[m].place \subseteq DOMAIN rating
         /\ IsTable(RatingsSeen(w), Player, RatingRow)
         /\ DOMAIN RatingsSeen(w) = DOMAIN rating
PROOF
<1>1. /\ IsTable(rating, Player, RatingRow) /\ IsTx(tx[w])
      /\ DOMAIN matches \subseteq MatchId /\ \A m \in DOMAIN matches : IsMatchRow(matches[m])
  BY DEF LedgerInvariant, TypeOK
<1>2. PlayersExist /\ PlayersKnown(w)
  BY DEF LedgerInvariant, RequestFits
<1>3. /\ DOMAIN tx[w].rows \subseteq MatchId
      /\ \A m \in DOMAIN tx[w].rows : IsMatchRow(tx[w].rows[m])
      /\ IsTable(tx[w].ratings, Player, RatingRow)
  BY <1>1 DEF IsTx
<1>4. IsTable(RatingsSeen(w), Player, RatingRow)
  BY <1>1, <1>3, OverlayIsTable DEF RatingsSeen
<1>5. DOMAIN RatingsSeen(w) = DOMAIN rating
  BY <1>2 DEF RatingsSeen, Overlay, PlayersKnown
<1>6. DOMAIN MatchesSeen(w) \subseteq MatchId
  BY <1>1, <1>3 DEF MatchesSeen, Overlay
<1>7. ASSUME NEW m \in DOMAIN MatchesSeen(w)
      PROVE  /\ IsMatchRow(MatchesSeen(w)[m])
             /\ DOMAIN MatchesSeen(w)[m].place \subseteq DOMAIN rating
  <2>1. CASE m \in DOMAIN tx[w].rows
    <3>1. MatchesSeen(w)[m] = tx[w].rows[m]
      BY <2>1 DEF MatchesSeen, Overlay
    <3> QED BY <2>1, <3>1, <1>2, <1>3 DEF PlayersKnown
  <2>2. CASE m \notin DOMAIN tx[w].rows
    <3>1. m \in DOMAIN matches /\ MatchesSeen(w)[m] = matches[m]
      BY <2>2 DEF MatchesSeen, Overlay
    <3> QED BY <3>1, <1>1, <1>2 DEF PlayersExist
  <2> QED BY <2>1, <2>2
<1> QED BY <1>4, <1>5, <1>6, <1>7

\* The match a replay turns to is one it still has to replay, confirmed as far
\* as its transaction can see.
LEMMA NextIsConfirmed ==
  ASSUME LedgerInvariant, NEW w \in Worker, tx[w].pc = "writing", tx[w].todo # {}
  PROVE  /\ ReplayWrites(w).match \in tx[w].todo
         /\ ReplayWrites(w).match \in Confirmed(MatchesSeen(w))
PROOF
<1> DEFINE ms   == MatchesSeen(w)
           todo == tx[w].todo
<1>1. ReplayWrites(w).match = FirstOf(ms, todo)
  BY DEF ReplayWrites
<1>2. todo \subseteq Confirmed(ms)
  BY DEF LedgerInvariant, RequestFits, WritesFit
<1>3. Confirmed(ms) \subseteq DOMAIN ms
  BY DEF Confirmed
<1>4. DOMAIN ms \subseteq MatchId /\ \A m \in DOMAIN ms : IsMatchRow(ms[m])
  BY RowsSeen
<1> HIDE DEF ms, todo
<1>5. \A m \in DOMAIN ms : ms[m].playedAt \in Nat /\ ms[m].createdAt \in Nat
  BY <1>4, TablesAssumption DEF IsMatchRow, TablesAssumption
<1>6. todo \in SUBSET MatchId /\ todo # {}
  BY <1>2, <1>3, <1>4 DEF todo
<1>7. FirstOf(ms, todo) \in todo
  BY <1>2, <1>3, <1>5, <1>6, FirstOfIsFirst
<1> QED BY <1>1, <1>2, <1>7 DEF ms, todo

\* One turn of a replay's loop rewrites the snapshots of one confirmed match, and
\* nothing else of it.
LEMMA ReplayMatchStep ==
  ASSUME LedgerInvariant, NEW w \in Worker, ReplayMatch(w)
  PROVE  LedgerInvariant'
PROOF
<1> DEFINE m   == ReplayWrites(w).match
           seen == MatchesSeen(w)[m]
           old == [p \in DOMAIN seen.place |-> RatingsSeen(w)[p].skill]
           new == Rate(old, seen.place)
           ratings == ReplayWrites(w).ratings
           row == ReplayWrites(w).row
<1>1. /\ ratings = RatingsAfterMatch(RatingsSeen(w), seen.place, new, seen.playedAt)
      /\ row = [seen EXCEPT !.old = old, !.new = new]
  BY DEF ReplayWrites
<1>2. /\ tx[w].pc = "writing" /\ tx[w].todo # {} /\ Storable(ratings)
      /\ tx' = [tx EXCEPT ![w].ratings = Overlay(@, ratings),
                          ![w].rows = Overlay(@, [x \in {m} |-> row]),
                          ![w].todo = @ \ {m}]
      /\ UNCHANGED <<clock, tables, lock>>
  BY DEF ReplayMatch
<1> HIDE DEF ratings, row
<1>3. m \in tx[w].todo /\ m \in Confirmed(MatchesSeen(w))
  BY <1>2, NextIsConfirmed
<1> HIDE DEF m
<1>4. m \in DOMAIN MatchesSeen(w) /\ seen.status = "confirmed"
  BY <1>3 DEF Confirmed
<1>5. /\ m \in MatchId /\ IsMatchRow(seen) /\ DOMAIN seen.place \subseteq DOMAIN rating
      /\ IsTable(RatingsSeen(w), Player, RatingRow)
      /\ DOMAIN RatingsSeen(w) = DOMAIN rating
  BY <1>4, RowsSeen
<1> HIDE DEF seen
<1>6. seen.place \in ValidPlacements /\ old \in [DOMAIN seen.place -> StorableSkill]
  BY <1>5 DEF IsMatchRow, IsTable, RatingRow
<1> HIDE DEF old
<1>7. /\ IsTable(ratings, Player, RatingRow) /\ DOMAIN ratings = DOMAIN seen.place
      /\ new \in [DOMAIN seen.place -> StorableSkill]
  <2>1. Storable(RatingsAfterMatch(RatingsSeen(w), seen.place, Rate(old, seen.place), seen.playedAt))
    BY <1>1, <1>2
  <2> DEFINE rated == RatingsAfterMatch(RatingsSeen(w), seen.place, Rate(old, seen.place), seen.playedAt)
  <2> HIDE DEF new
  <2>2. /\ IsTable(rated, Player, RatingRow)
        /\ DOMAIN rated = DOMAIN seen.place
        /\ Rate(old, seen.place) \in [DOMAIN seen.place -> StorableSkill]
    BY <1>6, <2>1, StorableRatings
  <2> QED BY <1>1, <2>2 DEF new
<1> HIDE DEF new
<1>8. IsMatchRow(row) /\ row.status = "confirmed" /\ SameMatch(row, seen)
  BY <1>1, <1>4, <1>5, <1>6, <1>7 DEF IsMatchRow, SameMatch
<1>9. DOMAIN tx = Worker /\ IsTx(tx[w])
  BY DEF LedgerInvariant, TypeOK
<1> DEFINE written == [x \in {m} |-> row]
           rows    == Overlay(tx[w].rows, written)
           t       == [tx[w] EXCEPT !.ratings = Overlay(tx[w].ratings, ratings),
                                    !.rows = rows, !.todo = tx[w].todo \ {m}]
<1>10. tx' = [tx EXCEPT ![w] = t] /\ tx'[w] = t
  BY <1>2, <1>9
<1>11. /\ DOMAIN rows = DOMAIN tx[w].rows \cup {m} /\ rows[m] = row
       /\ \A k \in DOMAIN tx[w].rows \ {m} : rows[k] = tx[w].rows[k]
  BY DEF Overlay
<1> HIDE DEF rows
<1>12. IsTable(Overlay(tx[w].ratings, ratings), Player, RatingRow)
  BY <1>7, <1>9, OverlayIsTable DEF IsTx
<1>13. IsTx(t)
  BY <1>5, <1>8, <1>9, <1>11, <1>12 DEF IsTx
<1>14. /\ t.pc = "writing" /\ t.op = tx[w].op /\ t.run = tx[w].run /\ t.place = tx[w].place
       /\ t.ratings = Overlay(tx[w].ratings, ratings) /\ t.rows = rows
       /\ t.todo = tx[w].todo \ {m} /\ t.event = tx[w].event /\ t.target = tx[w].target
  BY <1>2, <1>9 DEF IsTx
<1> HIDE DEF t
<1>15. PlayersKnown(w) /\ RequestFormed(w) /\ WritesFit(w)
  BY DEF LedgerInvariant, RequestFits
<1>16. PlayersKnown(w)'
  <2>1. DOMAIN Overlay(tx[w].ratings, ratings) = DOMAIN tx[w].ratings \cup DOMAIN ratings
    BY DEF Overlay
  <2>2. rating' = rating
    BY <1>2 DEF tables
  <2>3. DOMAIN tx'[w].place \subseteq DOMAIN rating'
    BY <1>10, <1>14, <1>15, <2>2 DEF PlayersKnown
  <2>4. DOMAIN tx'[w].ratings \subseteq DOMAIN rating'
    BY <1>5, <1>7, <1>10, <1>14, <1>15, <2>1, <2>2 DEF PlayersKnown
  <2>5. \A k \in DOMAIN tx[w].rows : DOMAIN tx[w].rows[k].place \subseteq DOMAIN rating
    BY <1>15 DEF PlayersKnown
  <2>6. \A k \in DOMAIN rows : DOMAIN rows[k].place \subseteq DOMAIN rating
    BY <1>5, <1>8, <1>11, <2>5 DEF SameMatch
  <2> QED BY <1>10, <1>14, <2>2, <2>3, <2>4, <2>6 DEF PlayersKnown
<1>17. RequestFormed(w)'
  BY <1>2, <1>10, <1>14, <1>15 DEF RequestFormed
<1>18. /\ m \in DOMAIN tx[w].rows => seen = tx[w].rows[m]
       /\ m \notin DOMAIN tx[w].rows => m \in DOMAIN matches /\ seen = matches[m]
  BY <1>4 DEF MatchesSeen, Overlay, seen
<1>19. \A k \in DOMAIN tx[w].rows : /\ k \in DOMAIN rows
                                   /\ rows[k].status = tx[w].rows[k].status
                                   /\ SameMatch(rows[k], tx[w].rows[k])
  BY <1>4, <1>8, <1>11, <1>18 DEF SameMatch
<1>20. WritesFit(w)'
  <2>1. matches' = matches
    BY <1>2 DEF tables
  <2>2. tx[w].op # "submit" /\ WritesFitEvent(w)
    BY <1>2, <1>15 DEF WritesFit, WritesFitEvent
  <2>3. VoidsTarget(w) => tx[w].target # m /\ VoidsTarget(w)'
    BY <1>4, <1>10, <1>14, <1>18, <1>19, <2>1 DEF VoidsTarget, TargetConfirmed, SameMatch
  <2>5. Rewritten(w) \subseteq Rewritten(w)'
    BY <1>10, <1>14, <1>19, <2>1 DEF Rewritten, SameMatch
  <2>6. m \notin DOMAIN tx[w].rows => m \in Rewritten(w)'
    BY <1>4, <1>8, <1>10, <1>11, <1>14, <1>18, <2>1 DEF Rewritten, Confirmed
  <2>7. WritesFitEvent(w)'
    <3>1. CASE tx[w].op = "void"
      <4>1. VoidsTarget(w) /\ tx[w].event = <<"match.voided", tx[w].target>>
            /\ DOMAIN tx[w].rows \subseteq Rewritten(w) \cup {tx[w].target}
        BY <2>2, <3>1 DEF WritesFitEvent
      <4>2. DOMAIN rows \subseteq Rewritten(w)' \cup {tx[w].target}
        BY <1>11, <2>5, <2>6, <4>1
      <4> QED BY <1>10, <1>14, <2>3, <3>1, <4>1, <4>2 DEF WritesFitEvent
    <3>2. CASE tx[w].op = "correct"
      <4>1. VoidsTarget(w)
        BY <2>2, <3>2 DEF WritesFitEvent
      <4>2. PICK n \in MatchId :
              /\ tx[w].event = <<"match.corrected", n>>
              /\ Inserts(w, n, tx[w].target)
              /\ DOMAIN tx[w].rows \subseteq Rewritten(w) \cup {tx[w].target, n}
        BY <2>2, <3>2 DEF WritesFitEvent
      <4>3. DOMAIN rows \subseteq Rewritten(w)' \cup {tx[w].target, n}
        BY <1>11, <2>5, <2>6, <4>2
      <4>4. Inserts(w, n, tx[w].target)'
        BY <1>10, <1>14, <1>19, <2>1, <4>2 DEF Inserts, SameMatch
      <4> QED BY <1>10, <1>14, <2>3, <3>2, <4>1, <4>2, <4>3, <4>4 DEF WritesFitEvent
    <3>3. CASE tx[w].op = "recalculate"
      <4>1. tx[w].event = <<"ratings.recalculated", tx[w].run>>
            /\ DOMAIN tx[w].rows \subseteq Rewritten(w)
        BY <2>2, <3>3 DEF WritesFitEvent
      <4>2. DOMAIN rows \subseteq Rewritten(w)'
        BY <1>11, <2>5, <2>6, <4>1
      <4> QED BY <1>10, <1>14, <3>3, <4>1, <4>2 DEF WritesFitEvent
    <3> QED BY <2>2, <3>1, <3>2, <3>3 DEF WritesFitEvent
  <2>8. (tx'[w].todo \subseteq Confirmed(MatchesSeen(w))')
    <3>1. SUFFICES ASSUME NEW k \in tx[w].todo \ {m}
                   PROVE  k \in DOMAIN MatchesSeen(w)' /\ MatchesSeen(w)'[k].status = "confirmed"
      BY <1>10, <1>14 DEF Confirmed
    <3>2. k \in DOMAIN MatchesSeen(w) /\ MatchesSeen(w)[k].status = "confirmed"
      BY <1>2, <1>15 DEF WritesFit, Confirmed
    <3>3. MatchesSeen(w)' = Overlay(matches, rows)
      BY <1>10, <1>14, <2>1 DEF MatchesSeen
    <3>4. CASE k \in DOMAIN tx[w].rows
      BY <1>11, <3>2, <3>3, <3>4 DEF MatchesSeen, Overlay
    <3>5. CASE k \notin DOMAIN tx[w].rows
      BY <1>11, <3>2, <3>3, <3>5 DEF MatchesSeen, Overlay
    <3> QED BY <3>4, <3>5
  <2> QED BY <2>7, <2>8 DEF WritesFit
<1>21. Holding(tx[w]) /\ Holding(tx'[w])
  BY <1>2, <1>10, <1>14 DEF Holding
<1> QED BY <1>2, <1>10, <1>13, <1>14, <1>16, <1>17, <1>20, <1>21, HolderKeepsLock, OwnStep

-----------------------------------------------------------------------------
(* Steps that write to the tables *)

LEMMA CreatePlayerStep ==
  ASSUME LedgerInvariant, NEW p \in Player, CreatePlayer(p)
  PROVE  LedgerInvariant'
PROOF
<1> DEFINE row == FreshRating(InsertSkill)
           new == [x \in {p} |-> row]
<1>1. /\ rating' = Overlay(rating, new) /\ active' = active \cup {p}
      /\ UNCHANGED <<clock, matches, audit, runs, lock, tx>>
  BY DEF CreatePlayer
<1>2. row \in RatingRow
  BY TablesAssumption DEF RatingRow, FreshRating, TablesAssumption
<1> HIDE DEF row
<1>3. IsTable(new, Player, RatingRow) /\ DOMAIN new = {p}
  BY <1>2 DEF IsTable
<1> HIDE DEF new
<1>4. IsTable(rating', Player, RatingRow)
  BY <1>1, <1>3, OverlayIsTable DEF LedgerInvariant, TypeOK
<1>5. DOMAIN rating' = DOMAIN rating \cup {p}
  BY <1>1, <1>3 DEF Overlay
<1>6. TypeOK'
  BY <1>1, <1>4, <1>5 DEF LedgerInvariant, TypeOK
<1>7. LockGuardsTransaction' /\ RunOutcomeAudited'
  BY <1>1 DEF LedgerInvariant, LockGuardsTransaction, RunOutcomeAudited
<1>8. ASSUME NEW v \in Worker  PROVE RequestFits(v)'
  <2>1. RunOwned(v)'
    BY <1>1 DEF LedgerInvariant, RequestFits, RunOwned
  <2> QED BY <1>1, <1>5, <2>1, RequestUndisturbed DEF RequestFits
<1>9. PlayersExist' /\ AuditMatchesHistory' /\ CorrectionsAreLinear'
  BY <1>1, <1>5
  DEF LedgerInvariant, PlayersExist, AuditMatchesHistory, CorrectionsAreLinear
<1> QED BY <1>6, <1>7, <1>8, <1>9 DEF LedgerInvariant

LEMMA SetActiveStep ==
  ASSUME LedgerInvariant, NEW p \in Player, SetActive(p)
  PROVE  LedgerInvariant'
PROOF
<1>1. /\ UNCHANGED <<clock, rating, matches, audit, runs, lock, tx>>
      /\ active' \subseteq active \cup {p} /\ p \in DOMAIN rating
  BY DEF SetActive
<1>2. TypeOK'
  BY <1>1 DEF LedgerInvariant, TypeOK
<1>3. LockGuardsTransaction' /\ RunOutcomeAudited'
  BY <1>1 DEF LedgerInvariant, LockGuardsTransaction, RunOutcomeAudited
<1>4. ASSUME NEW v \in Worker  PROVE RequestFits(v)'
  <2>1. RunOwned(v)'
    BY <1>1 DEF LedgerInvariant, RequestFits, RunOwned
  <2> QED BY <1>1, <2>1, RequestUndisturbed DEF RequestFits
<1>5. PlayersExist' /\ AuditMatchesHistory' /\ CorrectionsAreLinear'
  BY <1>1 DEF LedgerInvariant, PlayersExist, AuditMatchesHistory, CorrectionsAreLinear
<1> QED BY <1>2, <1>3, <1>4, <1>5 DEF LedgerInvariant

LEMMA TickStep ==
  ASSUME LedgerInvariant, Tick
  PROVE  LedgerInvariant'
PROOF
<1>1. UNCHANGED <<rating, active, matches, audit, runs, lock, tx>> /\ clock' \in 1..MaxClock
  BY LedgerAssumption DEF LedgerInvariant, TypeOK, Tick, tables, LedgerAssumption
<1>2. TypeOK'
  BY <1>1 DEF LedgerInvariant, TypeOK
<1>3. LockGuardsTransaction' /\ RunOutcomeAudited'
  BY <1>1 DEF LedgerInvariant, LockGuardsTransaction, RunOutcomeAudited
<1>4. ASSUME NEW v \in Worker  PROVE RequestFits(v)'
  <2>1. RunOwned(v)'
    BY <1>1 DEF LedgerInvariant, RequestFits, RunOwned
  <2> QED BY <1>1, <2>1, RequestUndisturbed DEF RequestFits
<1>5. PlayersExist' /\ AuditMatchesHistory' /\ CorrectionsAreLinear'
  BY <1>1 DEF LedgerInvariant, PlayersExist, AuditMatchesHistory, CorrectionsAreLinear
<1> QED BY <1>2, <1>3, <1>4, <1>5 DEF LedgerInvariant

\* A new run is nobody else's, and has no audit entry yet.
LEMMA StartRecalculationStep ==
  ASSUME LedgerInvariant, NEW w \in Worker, StartRecalculation(w)
  PROVE  LedgerInvariant'
PROOF
<1>1. PICK r \in Run \ DOMAIN runs :
        /\ runs' = Overlay(runs, [x \in {r} |-> "running"])
        /\ tx' = [tx EXCEPT ![w] = [IdleTx EXCEPT !.op = "recalculate",
                                    !.pc = "started", !.run = r]]
  BY DEF StartRecalculation
<1>2. /\ tx[w].pc = "idle" /\ UNCHANGED <<clock, active, rating, matches, audit, lock>>
      /\ DOMAIN tx = Worker
  BY DEF StartRecalculation, LedgerInvariant, TypeOK
<1> DEFINE t == [IdleTx EXCEPT !.op = "recalculate", !.pc = "started", !.run = r]
<1>3. /\ tx'[w] = t /\ DOMAIN tx' = Worker
      /\ \A v \in Worker \ {w} : tx'[v] = tx[v]
  BY <1>1, <1>2
<1>4. /\ t.op = "recalculate" /\ t.pc = "started" /\ t.run = r
      /\ t.rows = NoRows /\ t.todo = {} /\ t.place = NoRows /\ t.ratings = NoRows
      /\ DOMAIN NoRows = {}
  BY DEF IdleTx, NoRows
<1>5. IsTx(t)
  <2>1. IsTable(NoRows, Player, StorableSkill) /\ IsTable(NoRows, Player, RatingRow)
    BY DEF IsTable, NoRows
  <2> QED BY <1>4, <2>1 DEF IsTx, IdleTx
<1> HIDE DEF t
<1>6. /\ DOMAIN runs' = DOMAIN runs \cup {r} /\ runs'[r] = "running"
      /\ \A x \in DOMAIN runs : runs'[x] = runs[x]
  BY <1>1 DEF Overlay
<1>7. IsTable(runs', Run, {"running", "succeeded", "failed"})
  <2> DEFINE new == [x \in {r} |-> "running"]
             Status == {"running", "succeeded", "failed"}
  <2>1. IsTable(new, Run, Status)
    BY DEF IsTable
  <2>2. IsTable(runs, Run, Status)
    BY DEF LedgerInvariant, TypeOK
  <2> HIDE DEF new, Status
  <2>3. IsTable(Overlay(runs, new), Run, Status)
    BY <2>1, <2>2, OverlayIsTable
  <2> QED BY <1>1, <2>3 DEF new, Status
<1>8. TypeOK'
  BY <1>2, <1>3, <1>5, <1>7 DEF LedgerInvariant, TypeOK
<1>9. LockGuardsTransaction'
  BY <1>2, <1>3, <1>4 DEF LedgerInvariant, LockGuardsTransaction
<1>10. audit[<<"ratings.recalculated", r>>] = 0
  <2>1. <<"ratings.recalculated", r>> \in AuditEvent
    BY DEF AuditEvent
  <2>2. audit[<<"ratings.recalculated", r>>] \in Nat
    BY <2>1 DEF LedgerInvariant, TypeOK
  <2> QED BY <1>1, <2>2 DEF LedgerInvariant, RunOutcomeAudited
<1>11. RunOutcomeAudited'
  BY <1>2, <1>6, <1>10 DEF LedgerInvariant, RunOutcomeAudited
<1>12. ASSUME NEW v \in Worker  PROVE RequestFits(v)'
  <2>1. \A u \in Worker : tx[u].op = "recalculate" => tx[u].run \in DOMAIN runs
    BY DEF LedgerInvariant, RequestFits, RunOwned
  <2>2. CASE v = w
    <3>1. PlayersKnown(w)' /\ RequestFormed(w)' /\ WritesFit(w)'
      BY <1>3, <1>4 DEF PlayersKnown, RequestFormed, WritesFit
    <3>2. RunOwned(w)'
      BY <1>2, <1>3, <1>4, <1>6, <1>10, <2>1 DEF RunOwned
    <3> QED BY <2>2, <3>1, <3>2 DEF RequestFits
  <2>3. CASE v # w
    <3>1. RunOwned(v)
      BY DEF LedgerInvariant, RequestFits
    <3>2. RunOwned(v)'
      BY <1>2, <1>3, <1>4, <1>6, <2>1, <2>3, <3>1 DEF RunOwned
    <3>3. PlayersKnown(v)' /\ RequestFormed(v)' /\ WritesFit(v)'
      BY <1>2, <1>3, <2>3, RequestUndisturbed
    <3> QED BY <3>2, <3>3 DEF RequestFits
  <2> QED BY <2>2, <2>3
<1>13. PlayersExist' /\ AuditMatchesHistory' /\ CorrectionsAreLinear'
  BY <1>2 DEF LedgerInvariant, PlayersExist, AuditMatchesHistory, CorrectionsAreLinear
<1> QED BY <1>8, <1>9, <1>11, <1>12, <1>13 DEF LedgerInvariant

\* The failure of a run overwrites its outcome, and releases the run.
LEMMA MarkFailedStep ==
  ASSUME LedgerInvariant, NEW w \in Worker, MarkFailed(w)
  PROVE  LedgerInvariant'
PROOF
<1>1. /\ tx[w].pc = "failing" /\ runs' = [runs EXCEPT ![tx[w].run] = "failed"]
      /\ tx' = [tx EXCEPT ![w] = IdleTx]
      /\ UNCHANGED <<clock, active, rating, matches, audit, lock>>
      /\ DOMAIN tx = Worker
  BY DEF MarkFailed, LedgerInvariant, TypeOK
<1>2. tx'[w] = IdleTx /\ DOMAIN tx' = Worker /\ \A v \in Worker \ {w} : tx'[v] = tx[v]
  BY <1>1
<1>3. /\ IdleTx.op = "none" /\ IdleTx.pc = "idle" /\ IdleTx.rows = NoRows
      /\ IdleTx.todo = {} /\ IdleTx.place = NoRows /\ IdleTx.ratings = NoRows
      /\ DOMAIN NoRows = {}
  BY DEF IdleTx, NoRows
<1>4. tx[w].op = "recalculate" /\ tx[w].run \in DOMAIN runs
  BY <1>1 DEF LedgerInvariant, RequestFits, RequestFormed, RunOwned
<1>5. /\ DOMAIN runs' = DOMAIN runs /\ runs'[tx[w].run] = "failed"
      /\ \A r \in DOMAIN runs \ {tx[w].run} : runs'[r] = runs[r]
  BY <1>1, <1>4
<1>6. IsTable(runs', Run, {"running", "succeeded", "failed"})
  BY <1>1 DEF LedgerInvariant, TypeOK, IsTable
<1>7. TypeOK'
  BY <1>1, <1>2, <1>6, IdleIsTx DEF LedgerInvariant, TypeOK
<1>8. LockGuardsTransaction'
  BY <1>1, <1>2, <1>3 DEF LedgerInvariant, LockGuardsTransaction
<1>9. RunOutcomeAudited'
  BY <1>1, <1>4, <1>5 DEF LedgerInvariant, RunOutcomeAudited
<1>10. ASSUME NEW v \in Worker  PROVE RequestFits(v)'
  <2>1. CASE v = w
    BY <1>2, <1>3, <2>1 DEF RequestFits, PlayersKnown, RequestFormed, WritesFit, RunOwned
  <2>2. CASE v # w
    <3>1. RunOwned(v) /\ RunOwned(w)
      BY DEF LedgerInvariant, RequestFits
    <3>2. RunOwned(v)'
      BY <1>1, <1>2, <1>3, <1>4, <1>5, <2>2, <3>1 DEF RunOwned
    <3>3. PlayersKnown(v)' /\ RequestFormed(v)' /\ WritesFit(v)'
      BY <1>1, <1>2, <2>2, RequestUndisturbed
    <3> QED BY <3>2, <3>3 DEF RequestFits
  <2> QED BY <2>1, <2>2
<1>11. PlayersExist' /\ AuditMatchesHistory' /\ CorrectionsAreLinear'
  BY <1>1 DEF LedgerInvariant, PlayersExist, AuditMatchesHistory, CorrectionsAreLinear
<1> QED BY <1>7, <1>8, <1>9, <1>10, <1>11 DEF LedgerInvariant

-----------------------------------------------------------------------------
(* Commit *)

\* A row of the table keeps its place in the history over a step.
SameRow(k) ==
  /\ k \in DOMAIN matches'
  /\ matches'[k].status = matches[k].status
  /\ matches'[k].correctedFrom = matches[k].correctedFrom

NewConfirmed(m, from) ==
  /\ m \in MatchId \ DOMAIN matches
  /\ m \in DOMAIN matches'
  /\ matches'[m].status = "confirmed"
  /\ matches'[m].correctedFrom = from

NowVoided(m) ==
  /\ m \in Confirmed(matches)
  /\ m \in DOMAIN matches'
  /\ matches'[m].status = "voided"
  /\ matches'[m].correctedFrom = matches[m].correctedFrom

\* The four ways in which a commit changes the history, with the audit entry it
\* adds: a match appears, a match is voided, both, or neither.
Appears(event) ==
  \E m \in MatchId :
    /\ event = <<"match.created", m>> /\ NewConfirmed(m, NoMatch)
    /\ DOMAIN matches' = DOMAIN matches \cup {m}
    /\ \A k \in DOMAIN matches : SameRow(k)

IsVoided(event) ==
  \E t \in MatchId :
    /\ event = <<"match.voided", t>> /\ NowVoided(t)
    /\ DOMAIN matches' = DOMAIN matches
    /\ \A k \in DOMAIN matches \ {t} : SameRow(k)

IsCorrected(event) ==
  \E m, t \in MatchId :
    /\ event = <<"match.corrected", m>> /\ NewConfirmed(m, t) /\ NowVoided(t)
    /\ DOMAIN matches' = DOMAIN matches \cup {m}
    /\ \A k \in DOMAIN matches \ {t} : SameRow(k)

IsRated(event) ==
  /\ event \in {"ratings.recalculated"} \X Run
  /\ DOMAIN matches' = DOMAIN matches
  /\ \A k \in DOMAIN matches : SameRow(k)

\* What a commit makes of the tables.
LEMMA PublishedTables ==
  ASSUME LedgerInvariant, NEW w \in Worker, Publish(w)
  PROVE  /\ IsTable(rating', Player, RatingRow) /\ DOMAIN rating' = DOMAIN rating
         /\ DOMAIN matches' \subseteq MatchId
         /\ \A m \in DOMAIN matches' : IsMatchRow(matches'[m])
         /\ PlayersExist'
         /\ tx[w].event \in AuditEvent
         /\ audit' = [audit EXCEPT ![tx[w].event] = @ + 1]
         /\ \/ tx[w].op # "recalculate" /\ Appears(tx[w].event)
            \/ tx[w].op # "recalculate" /\ IsVoided(tx[w].event)
            \/ tx[w].op # "recalculate" /\ IsCorrected(tx[w].event)
            \/ /\ tx[w].op = "recalculate" /\ IsRated(tx[w].event)
               /\ tx[w].event = <<"ratings.recalculated", tx[w].run>>
PROOF
<1> DEFINE rows  == tx[w].rows
           event == tx[w].event
<1>1. /\ matches' = MatchesSeen(w) /\ rating' = RatingsSeen(w)
      /\ audit' = [audit EXCEPT ![event] = @ + 1] /\ tx[w].pc = "writing"
  BY DEF Publish, MatchesSeen, RatingsSeen
<1>2. /\ IsTable(rating', Player, RatingRow) /\ DOMAIN rating' = DOMAIN rating
      /\ DOMAIN matches' \subseteq MatchId
      /\ \A m \in DOMAIN matches' : IsMatchRow(matches'[m])
  BY <1>1, RowsSeen
<1>3. PlayersExist'
  BY <1>1, <1>2, RowsSeen DEF PlayersExist
<1>4. /\ DOMAIN matches' = DOMAIN matches \cup DOMAIN rows
      /\ \A k \in DOMAIN rows : matches'[k] = rows[k]
      /\ \A k \in DOMAIN matches \ DOMAIN rows : SameRow(k)
  BY <1>1 DEF MatchesSeen, Overlay, SameRow
<1>5. WritesFitEvent(w)
  BY <1>1 DEF LedgerInvariant, RequestFits, WritesFit
<1>6. \A k \in Rewritten(w) : SameRow(k)
  BY <1>4 DEF Rewritten, SameRow, SameMatch, Confirmed
<1>7. \A m, from : Inserts(w, m, from) => NewConfirmed(m, from)
  BY <1>4 DEF Inserts, NewConfirmed
<1>8. VoidsTarget(w) => NowVoided(tx[w].target) /\ tx[w].target \in MatchId
  BY <1>2, <1>4 DEF VoidsTarget, NowVoided, TargetConfirmed, Confirmed, SameMatch
<1>9. CASE tx[w].op = "submit"
  <2>1. PICK m \in MatchId : /\ event = <<"match.created", m>> /\ Inserts(w, m, NoMatch)
                             /\ DOMAIN rows = {m}
    BY <1>5, <1>9 DEF WritesFitEvent
  <2>2. \A k \in DOMAIN matches : SameRow(k)
    BY <1>4, <2>1 DEF Inserts
  <2>3. event \in AuditEvent
    BY <2>1 DEF AuditEvent
  <2>4. Appears(event)
    BY <1>4, <1>7, <2>1, <2>2 DEF Appears
  <2> QED BY <1>1, <1>2, <1>3, <1>9, <2>3, <2>4
<1>10. CASE tx[w].op = "void"
  <2>1. /\ event = <<"match.voided", tx[w].target>> /\ VoidsTarget(w)
        /\ DOMAIN rows \subseteq Rewritten(w) \cup {tx[w].target}
    BY <1>5, <1>10 DEF WritesFitEvent
  <2>2. Rewritten(w) \subseteq DOMAIN matches /\ tx[w].target \in DOMAIN matches
    BY <2>1 DEF Rewritten, VoidsTarget, TargetConfirmed, Confirmed
  <2>3. DOMAIN matches' = DOMAIN matches /\ \A k \in DOMAIN matches \ {tx[w].target} : SameRow(k)
    BY <1>4, <1>6, <2>1, <2>2
  <2>4. event \in AuditEvent
    BY <1>8, <2>1 DEF AuditEvent
  <2>5. IsVoided(event)
    BY <1>8, <2>1, <2>3 DEF IsVoided
  <2> QED BY <1>1, <1>2, <1>3, <1>10, <2>4, <2>5
<1>11. CASE tx[w].op = "correct"
  <2>1. VoidsTarget(w)
    BY <1>5, <1>11 DEF WritesFitEvent
  <2>2. PICK m \in MatchId :
          /\ event = <<"match.corrected", m>> /\ Inserts(w, m, tx[w].target)
          /\ DOMAIN rows \subseteq Rewritten(w) \cup {tx[w].target, m}
    BY <1>5, <1>11 DEF WritesFitEvent
  <2>3. /\ Rewritten(w) \subseteq DOMAIN matches /\ tx[w].target \in DOMAIN matches
        /\ m \in DOMAIN rows \ DOMAIN matches
    BY <2>1, <2>2 DEF Rewritten, VoidsTarget, TargetConfirmed, Confirmed, Inserts
  <2>4. DOMAIN matches' = DOMAIN matches \cup {m}
    BY <1>4, <2>2, <2>3
  <2>5. \A k \in DOMAIN matches \ {tx[w].target} : SameRow(k)
    BY <1>4, <1>6, <2>2, <2>3
  <2>6. event \in AuditEvent
    BY <2>2 DEF AuditEvent
  <2>7. IsCorrected(event)
    BY <1>7, <1>8, <2>1, <2>2, <2>4, <2>5 DEF IsCorrected
  <2> QED BY <1>1, <1>2, <1>3, <1>11, <2>6, <2>7
<1>12. CASE tx[w].op = "recalculate"
  <2>1. event = <<"ratings.recalculated", tx[w].run>> /\ DOMAIN rows \subseteq Rewritten(w)
    BY <1>5, <1>12 DEF WritesFitEvent
  <2>2. tx[w].run \in Run
    BY <1>12 DEF LedgerInvariant, RequestFits, RunOwned, TypeOK, IsTable
  <2>3. event \in AuditEvent /\ event \in {"ratings.recalculated"} \X Run
    BY <2>1, <2>2 DEF AuditEvent
  <2>4. DOMAIN matches' = DOMAIN matches /\ \A k \in DOMAIN matches : SameRow(k)
    BY <1>4, <1>6, <2>1 DEF Rewritten, Confirmed
  <2>5. IsRated(event)
    BY <2>3, <2>4 DEF IsRated
  <2> QED BY <1>1, <1>2, <1>3, <1>12, <2>1, <2>3, <2>5
<1> QED BY <1>5, <1>9, <1>10, <1>11, <1>12 DEF WritesFitEvent

\* An audit entry is one more of its event, and changes the count of no other.
LEMMA AuditEntry ==
  ASSUME LedgerInvariant, NEW event \in AuditEvent,
         audit' = [audit EXCEPT ![event] = @ + 1]
  PROVE  /\ audit' \in [AuditEvent -> Nat]
         /\ audit'[event] = audit[event] + 1
         /\ \A e \in AuditEvent \ {event} : audit'[e] = audit[e]
         /\ \A e \in AuditEvent : audit[e] \in Nat
BY DEF LedgerInvariant, TypeOK

\* The entry that a commit writes is the one that its change of the history calls
\* for.
LEMMA CommitKeepsAudit ==
  ASSUME LedgerInvariant, NEW w \in Worker, Publish(w)
  PROVE  AuditMatchesHistory'
PROOF
<1> DEFINE event == tx[w].event
           Created(m)   == <<"match.created", m>>
           Corrected(m) == <<"match.corrected", m>>
           VoidedEv(m)  == <<"match.voided", m>>
<1>1. /\ event \in AuditEvent /\ audit' = [audit EXCEPT ![event] = @ + 1]
      /\ Appears(event) \/ IsVoided(event) \/ IsCorrected(event) \/ IsRated(event)
      /\ DOMAIN matches' \subseteq MatchId
  BY PublishedTables
<1> HIDE DEF event
<1>2. /\ audit'[event] = audit[event] + 1
      /\ \A e \in AuditEvent \ {event} : audit'[e] = audit[e]
      /\ \A e \in AuditEvent : audit[e] \in Nat
  BY <1>1, AuditEntry
<1>3. AuditMatchesHistory /\ CorrectionsAreLinear /\ NoMatch \notin MatchId
      /\ DOMAIN matches \subseteq MatchId
  BY TablesAssumption DEF LedgerInvariant, TypeOK, TablesAssumption
<1>4. \A m \in MatchId : {Created(m), Corrected(m), VoidedEv(m)} \subseteq AuditEvent
  BY DEF AuditEvent
<1>5. \A m, n : /\ Created(m) = Created(n) => m = n
                /\ Corrected(m) = Corrected(n) => m = n
                /\ VoidedEv(m) = VoidedEv(n) => m = n
                /\ Created(m) # Corrected(n) /\ Created(m) # VoidedEv(n)
                /\ Corrected(m) # VoidedEv(n)
  OBVIOUS
<1>6. \A m \in MatchId :
        /\ audit[Created(m)] + audit[Corrected(m)] = IF m \in DOMAIN matches THEN 1 ELSE 0
        /\ m \in DOMAIN matches =>
             /\ audit[Corrected(m)] = 1 <=> matches[m].correctedFrom # NoMatch
             /\ audit[VoidedEv(m)]
                  = IF \/ matches[m].status = "confirmed"
                       \/ \E k \in DOMAIN matches : matches[k].correctedFrom = m
                    THEN 0 ELSE 1
        /\ m \notin DOMAIN matches => audit[VoidedEv(m)] = 0
  BY <1>3 DEF AuditMatchesHistory
<1> SUFFICES ASSUME NEW x \in MatchId
    PROVE /\ audit'[Created(x)] + audit'[Corrected(x)] = IF x \in DOMAIN matches' THEN 1 ELSE 0
          /\ x \in DOMAIN matches' =>
               /\ audit'[Corrected(x)] = 1 <=> matches'[x].correctedFrom # NoMatch
               /\ audit'[VoidedEv(x)]
                    = IF \/ matches'[x].status = "confirmed"
                         \/ \E k \in DOMAIN matches' : matches'[k].correctedFrom = x
                      THEN 0 ELSE 1
          /\ x \notin DOMAIN matches' => audit'[VoidedEv(x)] = 0
  BY DEF AuditMatchesHistory
<1>7. audit[Created(x)] \in Nat /\ audit[Corrected(x)] \in Nat /\ audit[VoidedEv(x)] \in Nat
  BY <1>2, <1>4
<1>8. CASE Appears(event)
  <2>1. PICK m \in MatchId :
          /\ event = Created(m) /\ NewConfirmed(m, NoMatch)
          /\ DOMAIN matches' = DOMAIN matches \cup {m}
          /\ \A k \in DOMAIN matches : SameRow(k)
    BY <1>8 DEF Appears
  <2> HIDE DEF Created, Corrected, VoidedEv
  <2>2. /\ audit'[Corrected(x)] = audit[Corrected(x)] /\ audit'[VoidedEv(x)] = audit[VoidedEv(x)]
        /\ audit'[Created(x)] = IF x = m THEN audit[Created(x)] + 1 ELSE audit[Created(x)]
    BY <1>2, <1>4, <1>5, <2>1
  <2>3. CASE x = m
    BY <1>6, <1>7, <2>1, <2>2, <2>3 DEF NewConfirmed
  <2>4. CASE x # m
    BY <1>3, <1>6, <1>7, <2>1, <2>2, <2>4 DEF NewConfirmed, SameRow
  <2> QED BY <2>3, <2>4
<1>9. CASE IsVoided(event)
  <2>1. PICK t \in MatchId :
          /\ event = VoidedEv(t) /\ NowVoided(t)
          /\ DOMAIN matches' = DOMAIN matches
          /\ \A k \in DOMAIN matches \ {t} : SameRow(k)
    BY <1>9 DEF IsVoided
  <2> HIDE DEF Created, Corrected, VoidedEv
  <2>2. /\ audit'[Corrected(x)] = audit[Corrected(x)] /\ audit'[Created(x)] = audit[Created(x)]
        /\ audit'[VoidedEv(x)] = IF x = t THEN audit[VoidedEv(x)] + 1 ELSE audit[VoidedEv(x)]
    BY <1>2, <1>4, <1>5, <2>1
  <2>3. \A k \in DOMAIN matches : matches'[k].correctedFrom = matches[k].correctedFrom
    BY <2>1 DEF NowVoided, SameRow
  <2>4. t \in DOMAIN matches /\ matches[t].status = "confirmed"
        /\ ~\E k \in DOMAIN matches : matches[k].correctedFrom = t
    BY <1>3, <2>1 DEF NowVoided, Confirmed, CorrectionsAreLinear
  <2>5. CASE x = t
    BY <1>6, <1>7, <2>1, <2>2, <2>3, <2>4, <2>5 DEF NowVoided
  <2>6. CASE x # t
    BY <1>6, <1>7, <2>1, <2>2, <2>3, <2>6 DEF SameRow
  <2> QED BY <2>5, <2>6
<1>10. CASE IsCorrected(event)
  <2>1. PICK m \in MatchId, t \in MatchId :
          /\ event = Corrected(m) /\ NewConfirmed(m, t) /\ NowVoided(t)
          /\ DOMAIN matches' = DOMAIN matches \cup {m}
          /\ \A k \in DOMAIN matches \ {t} : SameRow(k)
    BY <1>10 DEF IsCorrected
  <2> HIDE DEF Created, Corrected, VoidedEv
  <2>2. /\ audit'[Created(x)] = audit[Created(x)] /\ audit'[VoidedEv(x)] = audit[VoidedEv(x)]
        /\ audit'[Corrected(x)] = IF x = m THEN audit[Corrected(x)] + 1 ELSE audit[Corrected(x)]
    BY <1>2, <1>4, <1>5, <2>1
  <2>3. \A k \in DOMAIN matches : matches'[k].correctedFrom = matches[k].correctedFrom
    BY <2>1 DEF NowVoided, SameRow
  <2>4. t \in DOMAIN matches /\ matches[t].status = "confirmed" /\ matches'[t].status = "voided"
        /\ m # t /\ matches'[m].correctedFrom = t /\ m \in DOMAIN matches'
    BY <2>1 DEF NowVoided, NewConfirmed, Confirmed
  <2>5. CASE x = m
    BY <1>3, <1>6, <1>7, <2>1, <2>2, <2>5 DEF NewConfirmed
  <2>6. CASE x = t
    BY <1>6, <1>7, <2>1, <2>2, <2>3, <2>4, <2>6
  <2>7. CASE x # m /\ x # t
    BY <1>6, <1>7, <2>1, <2>2, <2>3, <2>4, <2>7 DEF SameRow
  <2> QED BY <2>5, <2>6, <2>7
<1>11. CASE IsRated(event)
  <2>1. event \notin {Created(x), Corrected(x), VoidedEv(x)}
    BY <1>11 DEF IsRated
  <2> HIDE DEF Created, Corrected, VoidedEv
  <2>2. /\ audit'[Created(x)] = audit[Created(x)] /\ audit'[Corrected(x)] = audit[Corrected(x)]
        /\ audit'[VoidedEv(x)] = audit[VoidedEv(x)]
    BY <1>2, <1>4, <2>1
  <2> QED BY <1>6, <1>11, <2>2 DEF IsRated, SameRow
<1> QED BY <1>1, <1>8, <1>9, <1>10, <1>11

\* A commit keeps corrections linear: what it corrects was confirmed until now, so
\* nothing else had corrected it.
LEMMA CommitKeepsCorrections ==
  ASSUME LedgerInvariant, NEW w \in Worker, Publish(w)
  PROVE  CorrectionsAreLinear'
PROOF
<1>1. CorrectionsAreLinear /\ NoMatch \notin MatchId
  BY TablesAssumption DEF LedgerInvariant, TablesAssumption
<1>2. \E e : Appears(e) \/ IsVoided(e) \/ IsCorrected(e) \/ IsRated(e)
  BY PublishedTables
<1>3. ASSUME NEW e, Appears(e)  PROVE CorrectionsAreLinear'
  BY <1>1, <1>3 DEF Appears, NewConfirmed, SameRow, CorrectionsAreLinear
<1>4. ASSUME NEW e, IsVoided(e)  PROVE CorrectionsAreLinear'
  BY <1>1, <1>4 DEF IsVoided, NowVoided, SameRow, CorrectionsAreLinear, Confirmed
<1>5. ASSUME NEW e, IsCorrected(e)  PROVE CorrectionsAreLinear'
  BY <1>1, <1>5 DEF IsCorrected, NewConfirmed, NowVoided, SameRow, CorrectionsAreLinear, Confirmed
<1>6. ASSUME NEW e, IsRated(e)  PROVE CorrectionsAreLinear'
  BY <1>1, <1>6 DEF IsRated, SameRow, CorrectionsAreLinear
<1> QED BY <1>2, <1>3, <1>4, <1>5, <1>6

\* The outcome of a run and its audit entry are committed together.
LEMMA CommitKeepsRuns ==
  ASSUME LedgerInvariant, NEW w \in Worker, Publish(w)
  PROVE  /\ RunOutcomeAudited'
         /\ IsTable(runs', Run, {"running", "succeeded", "failed"})
         /\ DOMAIN runs' = DOMAIN runs
         /\ \A v \in Worker \ {w} : tx[v].op = "recalculate" =>
              /\ runs'[tx[v].run] = runs[tx[v].run]
              /\ audit'[<<"ratings.recalculated", tx[v].run>>]
                   = audit[<<"ratings.recalculated", tx[v].run>>]
PROOF
<1> DEFINE event    == tx[w].event
           Entry(r) == <<"ratings.recalculated", r>>
<1>1. /\ event \in AuditEvent /\ audit' = [audit EXCEPT ![event] = @ + 1]
      /\ \/ /\ tx[w].op # "recalculate"
            /\ (Appears(event) \/ IsVoided(event) \/ IsCorrected(event))
         \/ tx[w].op = "recalculate" /\ event = Entry(tx[w].run)
  BY PublishedTables
<1>2. /\ runs' = IF tx[w].op = "recalculate"
                 THEN [runs EXCEPT ![tx[w].run] = "succeeded"] ELSE runs
      /\ tx[w].pc = "writing"
  BY DEF Publish
<1> HIDE DEF event
<1>3. /\ audit'[event] = audit[event] + 1
      /\ \A e \in AuditEvent \ {event} : audit'[e] = audit[e]
      /\ \A e \in AuditEvent : audit[e] \in Nat
  BY <1>1, AuditEntry
<1>4. \A r \in Run : Entry(r) \in AuditEvent
  BY DEF AuditEvent
<1>5. /\ RunOutcomeAudited /\ \A v \in Worker : RunOwned(v)
      /\ IsTable(runs, Run, {"running", "succeeded", "failed"})
  BY DEF LedgerInvariant, RequestFits, TypeOK
<1>6. CASE tx[w].op # "recalculate"
  <2>1. \A r \in Run : event # Entry(r)
    <3>1. \A m, r : /\ <<"match.created", m>> # Entry(r) /\ <<"match.voided", m>> # Entry(r)
                    /\ <<"match.corrected", m>> # Entry(r)
      OBVIOUS
    <3> HIDE DEF Entry
    <3>2. Appears(event) => \A r \in Run : event # Entry(r)
      BY <3>1 DEF Appears
    <3>3. IsVoided(event) => \A r \in Run : event # Entry(r)
      BY <3>1 DEF IsVoided
    <3>4. IsCorrected(event) => \A r \in Run : event # Entry(r)
      BY <3>1 DEF IsCorrected
    <3> QED BY <1>1, <1>6, <3>2, <3>3, <3>4
  <2>2. runs' = runs /\ \A r \in Run : audit'[Entry(r)] = audit[Entry(r)]
    BY <1>2, <1>3, <1>4, <1>6, <2>1
  <2> QED BY <1>5, <2>2 DEF RunOutcomeAudited, RunOwned, IsTable
<1>7. CASE tx[w].op = "recalculate"
  <2> DEFINE run == tx[w].run
  <2>1. /\ run \in DOMAIN runs /\ run \in Run /\ audit[Entry(run)] = 0
        /\ \A v \in Worker \ {w} : tx[v].op = "recalculate" => tx[v].run # run
    BY <1>2, <1>5, <1>7 DEF RunOwned, IsTable
  <2>2. event = Entry(run) /\ runs' = [runs EXCEPT ![run] = "succeeded"]
    BY <1>1, <1>2, <1>7
  <2> HIDE DEF run
  <2>3. /\ audit'[Entry(run)] = 1
        /\ \A r \in Run \ {run} : audit'[Entry(r)] = audit[Entry(r)]
    BY <1>3, <1>4, <2>1, <2>2
  <2>4. /\ DOMAIN runs' = DOMAIN runs /\ runs'[run] = "succeeded"
        /\ \A r \in DOMAIN runs \ {run} : runs'[r] = runs[r]
    BY <2>1, <2>2
  <2>5. IsTable(runs', Run, {"running", "succeeded", "failed"})
    BY <1>5, <2>1, <2>2 DEF IsTable
  <2>6. RunOutcomeAudited'
    <3>1. SUFFICES ASSUME NEW r \in Run
          PROVE /\ audit'[Entry(r)] <= 1
                /\ audit'[Entry(r)] = 1 => r \in DOMAIN runs' /\ runs'[r] # "running"
                /\ r \in DOMAIN runs' /\ runs'[r] = "succeeded" => audit'[Entry(r)] = 1
      BY DEF RunOutcomeAudited
    <3>2. CASE r = run
      BY <2>1, <2>3, <2>4, <3>2
    <3>3. CASE r # run
      <4>1. /\ audit[Entry(r)] <= 1
            /\ audit[Entry(r)] = 1 => r \in DOMAIN runs /\ runs[r] # "running"
            /\ r \in DOMAIN runs /\ runs[r] = "succeeded" => audit[Entry(r)] = 1
        BY <1>5 DEF RunOutcomeAudited
      <4> HIDE DEF Entry
      <4> QED BY <2>1, <2>3, <2>4, <3>3, <4>1
    <3> QED BY <3>2, <3>3
  <2> QED BY <1>5, <2>1, <2>3, <2>4, <2>5, <2>6 DEF RunOwned, IsTable, run
<1> QED BY <1>6, <1>7

\* A commit preserves the invariant, whether its answer arrives or not.
LEMMA CommitStep ==
  ASSUME LedgerInvariant, NEW w \in Worker, NEW next \in {IdleTx, AbortedTx(w)},
         Publish(w), Ends(w, next)
  PROVE  LedgerInvariant'
PROOF
<1>1. /\ tx[w].pc = "writing" /\ DOMAIN tx = Worker /\ UNCHANGED <<clock, active>>
      /\ lock \in Worker \cup {Nobody} /\ Nobody \notin Worker
  BY LedgerAssumption DEF Publish, LedgerInvariant, TypeOK, LedgerAssumption
<1>2. lock = w /\ lock' = Nobody
  BY <1>1 DEF LedgerInvariant, LockGuardsTransaction, Ends
<1>3. tx'[w] = next /\ DOMAIN tx' = Worker /\ \A v \in Worker \ {w} : tx'[v] = tx[v]
  BY <1>1 DEF Ends
<1>4. /\ IsTable(rating', Player, RatingRow) /\ DOMAIN rating' = DOMAIN rating
      /\ DOMAIN matches' \subseteq MatchId
      /\ \A m \in DOMAIN matches' : IsMatchRow(matches'[m])
      /\ PlayersExist'
      /\ tx[w].event \in AuditEvent /\ audit' = [audit EXCEPT ![tx[w].event] = @ + 1]
  BY PublishedTables
<1>5. audit' \in [AuditEvent -> Nat]
  BY <1>4, AuditEntry
<1>6. /\ RunOutcomeAudited' /\ DOMAIN runs' = DOMAIN runs
      /\ IsTable(runs', Run, {"running", "succeeded", "failed"})
      /\ \A v \in Worker \ {w} : tx[v].op = "recalculate" =>
           /\ runs'[tx[v].run] = runs[tx[v].run]
           /\ audit'[<<"ratings.recalculated", tx[v].run>>]
                = audit[<<"ratings.recalculated", tx[v].run>>]
  BY CommitKeepsRuns
<1>7. /\ IsTx(next) /\ next.pc \in {"idle", "failing"}
      /\ next.rows = NoRows /\ next.todo = {} /\ next.place = NoRows /\ next.ratings = NoRows
      /\ next.pc = "failing" => next.op = "recalculate"
      /\ next.op = "recalculate" =>
           tx[w].op = "recalculate" /\ next.run = tx[w].run /\ next.pc = "failing"
  <2>1. CASE next = IdleTx
    BY <2>1, IdleIsTx DEF IdleTx
  <2>2. CASE next # IdleTx
    <3>1. /\ tx[w].op = "recalculate"
          /\ next = [IdleTx EXCEPT !.op = "recalculate", !.pc = "failing", !.run = tx[w].run]
      BY <2>2 DEF AbortedTx
    <3>2. tx[w].run \in Run
      BY <3>1 DEF LedgerInvariant, RequestFits, RunOwned, TypeOK, IsTable
    <3>3. IsTx(next)
      BY <3>1, <3>2, IdleIsTx
    <3> QED BY <3>1, <3>3 DEF IdleTx
  <2> QED BY <2>1, <2>2
<1>8. TypeOK'
  BY <1>1, <1>2, <1>3, <1>4, <1>5, <1>6, <1>7 DEF LedgerInvariant, TypeOK
<1>9. LockGuardsTransaction'
  BY <1>1, <1>2, <1>3, <1>7 DEF LedgerInvariant, LockGuardsTransaction
<1>10. ASSUME NEW v \in Worker  PROVE RequestFits(v)'
  <2>1. RequestFits(v) /\ RequestFits(w)
    BY DEF LedgerInvariant
  <2>2. CASE v = w
    <3>1. DOMAIN NoRows = {}
      BY DEF NoRows
    <3>2. PlayersKnown(w)' /\ RequestFormed(w)' /\ WritesFit(w)'
      BY <1>3, <1>7, <3>1 DEF PlayersKnown, RequestFormed, WritesFit
    <3>3. RunOwned(w)'
      BY <1>3, <1>6, <1>7, <2>1 DEF RequestFits, RunOwned
    <3> QED BY <2>2, <3>2, <3>3 DEF RequestFits
  <2>3. CASE v # w
    <3>1. tx[v].pc \notin {"locked", "loaded", "writing"} /\ tx'[v] = tx[v]
      BY <1>2, <1>3, <2>3 DEF LedgerInvariant, LockGuardsTransaction
    <3>2. PlayersKnown(v)' /\ RequestFormed(v)' /\ WritesFit(v)'
      BY <1>4, <2>1, <3>1 DEF RequestFits, PlayersKnown, RequestFormed, WritesFit
    <3>3. RunOwned(v)'
      BY <1>3, <1>6, <1>7, <2>1, <2>3, <3>1 DEF RequestFits, RunOwned
    <3> QED BY <3>2, <3>3 DEF RequestFits
  <2> QED BY <2>2, <2>3
<1> QED BY <1>4, <1>6, <1>8, <1>9, <1>10, CommitKeepsAudit, CommitKeepsCorrections
    DEF LedgerInvariant

\* A commit leaves voided rows alone, and of the others changes only status and
\* snapshots.
LEMMA CommitKeepsRows ==
  ASSUME LedgerInvariant, NEW w \in Worker, Publish(w), NEW m \in DOMAIN matches
  PROVE  /\ m \in DOMAIN matches'
         /\ SameMatch(matches'[m], matches[m])
         /\ matches[m].status = "voided" => matches'[m] = matches[m]
PROOF
<1> DEFINE rows == tx[w].rows
<1>1. /\ matches' = Overlay(matches, rows) /\ tx[w].pc = "writing"
  BY DEF Publish
<1>2. m \in DOMAIN rows => m \in Rewritten(w) \/ (VoidsTarget(w) /\ m = tx[w].target)
  <2>1. WritesFitEvent(w)
    BY <1>1 DEF LedgerInvariant, RequestFits, WritesFit
  <2>2. \A k, from : Inserts(w, k, from) => k # m
    BY DEF Inserts
  <2> QED BY <2>1, <2>2 DEF WritesFitEvent
<1>3. CASE m \notin DOMAIN rows
  BY <1>1, <1>3 DEF Overlay, SameMatch
<1>4. CASE m \in DOMAIN rows
  <2>1. m \in DOMAIN matches' /\ matches'[m] = rows[m]
    BY <1>1, <1>4 DEF Overlay
  <2>2. m \in Confirmed(matches) /\ SameMatch(rows[m], matches[m])
    BY <1>2, <1>4 DEF Rewritten, VoidsTarget, TargetConfirmed
  <2> QED BY <2>1, <2>2 DEF Confirmed
<1> QED BY <1>3, <1>4

-----------------------------------------------------------------------------
(* The theorems *)

LEMMA InitHolds ==
  ASSUME Init  PROVE LedgerInvariant
PROOF
<1>1. /\ IdleTx.op = "none" /\ IdleTx.pc = "idle" /\ IdleTx.rows = NoRows
      /\ IdleTx.todo = {} /\ IdleTx.place = NoRows /\ IdleTx.ratings = NoRows
      /\ DOMAIN NoRows = {}
  BY DEF IdleTx, NoRows
<1>2. \A w \in Worker : tx[w] = IdleTx
  BY DEF Init
<1>3. /\ IsTable(NoRows, Player, RatingRow)
      /\ IsTable(NoRows, Run, {"running", "succeeded", "failed"})
  BY DEF IsTable, NoRows
<1>4. TypeOK
  <2>1. clock \in 1..MaxClock /\ lock \in Worker \cup {Nobody}
    BY LedgerAssumption DEF Init, LedgerAssumption
  <2>2. /\ IsTable(rating, Player, RatingRow) /\ active \subseteq DOMAIN rating
        /\ IsTable(runs, Run, {"running", "succeeded", "failed"})
    BY <1>3 DEF Init
  <2>3. DOMAIN matches \subseteq MatchId /\ \A m \in DOMAIN matches : IsMatchRow(matches[m])
    BY <1>1 DEF Init
  <2>4. audit \in [AuditEvent -> Nat]
    BY DEF Init
  <2>5. DOMAIN tx = Worker /\ \A w \in Worker : IsTx(tx[w])
    BY <1>2, IdleIsTx DEF Init
  <2> QED BY <2>1, <2>2, <2>3, <2>4, <2>5 DEF TypeOK
<1>5. LockGuardsTransaction
  BY <1>1, <1>2, LedgerAssumption DEF Init, LockGuardsTransaction, LedgerAssumption
<1>6. \A w \in Worker : RequestFits(w)
  BY <1>1, <1>2
  DEF RequestFits, PlayersKnown, RequestFormed, WritesFit, RunOwned
<1>7. DOMAIN matches = {} /\ \A e \in AuditEvent : audit[e] = 0
  BY <1>1 DEF Init
<1>8. AuditMatchesHistory
  <2>1. \A m \in MatchId : /\ <<"match.created", m>> \in AuditEvent
                           /\ <<"match.corrected", m>> \in AuditEvent
                           /\ <<"match.voided", m>> \in AuditEvent
    BY DEF AuditEvent
  <2>2. \A m \in MatchId : /\ audit[<<"match.created", m>>] = 0
                           /\ audit[<<"match.corrected", m>>] = 0
                           /\ audit[<<"match.voided", m>>] = 0
    BY <1>7, <2>1
  <2>3. \A m \in MatchId : m \notin DOMAIN matches
    BY <1>7
  <2>4. ASSUME NEW m \in MatchId
        PROVE  /\ audit[<<"match.created", m>>] + audit[<<"match.corrected", m>>] = 0
               /\ m \notin DOMAIN matches /\ audit[<<"match.voided", m>>] = 0
    <3>1. audit[<<"match.created", m>>] = 0 /\ audit[<<"match.corrected", m>>] = 0
          /\ audit[<<"match.voided", m>>] = 0 /\ m \notin DOMAIN matches
      BY <2>2, <2>3
    <3> QED BY <3>1
  <2> QED BY <2>4 DEF AuditMatchesHistory
<1>9. RunOutcomeAudited
  <2>1. \A r \in Run : <<"ratings.recalculated", r>> \in AuditEvent
    BY DEF AuditEvent
  <2>2. DOMAIN runs = {}
    BY <1>1 DEF Init
  <2>3. \A r \in Run : audit[<<"ratings.recalculated", r>>] = 0
    BY <1>7, <2>1
  <2>4. \A r \in Run : r \notin DOMAIN runs
    BY <2>2
  <2>5. ASSUME NEW r \in Run
        PROVE  LET entries == audit[<<"ratings.recalculated", r>>]
               IN  /\ entries <= 1
                   /\ entries = 1 => r \in DOMAIN runs /\ runs[r] # "running"
                   /\ r \in DOMAIN runs /\ runs[r] = "succeeded" => entries = 1
    <3>1. audit[<<"ratings.recalculated", r>>] = 0 /\ r \notin DOMAIN runs
      BY <2>3, <2>4
    <3> QED BY <3>1
  <2> QED BY <2>5 DEF RunOutcomeAudited
<1>10. PlayersExist /\ CorrectionsAreLinear
  BY <1>7 DEF PlayersExist, CorrectionsAreLinear
<1> QED BY <1>4, <1>5, <1>6, <1>8, <1>9, <1>10 DEF LedgerInvariant

LEMMA RequestStep ==
  ASSUME LedgerInvariant, NEW w \in Worker, Request(w)
  PROVE  LedgerInvariant'
PROOF
<1>1. CASE BeginSubmit(w)
  BY <1>1, BeginStep DEF BeginSubmit
<1>2. CASE BeginVoid(w)
  <2>1. DOMAIN matches \subseteq MatchId
    BY DEF LedgerInvariant, TypeOK
  <2> QED BY <1>2, <2>1, BeginStep DEF BeginVoid
<1>3. CASE BeginCorrect(w)
  <2>1. DOMAIN matches \subseteq MatchId
    BY DEF LedgerInvariant, TypeOK
  <2> QED BY <1>3, <2>1, BeginStep DEF BeginCorrect
<1>4. CASE StartRecalculation(w)
  BY <1>4, StartRecalculationStep
<1> QED BY <1>1, <1>2, <1>3, <1>4 DEF Request

LEMMA AbortStep ==
  ASSUME LedgerInvariant, NEW w \in Worker, Abort(w)
  PROVE  LedgerInvariant'
BY EndStep DEF Abort

LEMMA AdvanceStep ==
  ASSUME LedgerInvariant, NEW w \in Worker, Advance(w)
  PROVE  LedgerInvariant'
PROOF
<1>1. CASE BeginRecalculation(w)
  <2>1. tx[w].pc = "started" /\ Begin(w, "recalculate", NoMatch, tx[w].run)
    BY <1>1 DEF BeginRecalculation
  <2>2. tx[w].op = "recalculate" /\ tx[w].run \in Run
    BY <2>1
    DEF LedgerInvariant, RequestFits, RequestFormed, RunOwned, TypeOK, IsTable
  <2> QED BY <2>1, <2>2, BeginStep
<1>2. CASE LoadAndValidate(w)
  BY <1>2, LoadAndValidateStep
<1>3. CASE RejectNewMatch(w)
  BY <1>3, AbortStep DEF RejectNewMatch
<1>4. CASE SubmitWrite(w)
  BY <1>4, SubmitWriteStep
<1>5. CASE SubmitRefused(w)
  BY <1>5, AbortStep DEF SubmitRefused
<1>6. CASE VoidWrite(w)
  BY <1>6, VoidWriteStep
<1>7. CASE RejectVoid(w)
  BY <1>7, AbortStep DEF RejectVoid
<1>8. CASE CorrectWrite(w)
  BY <1>8, CorrectWriteStep
<1>9. CASE RecalculateWrite(w)
  BY <1>9, RecalculateWriteStep
<1>10. CASE ReplayMatch(w)
  BY <1>10, ReplayMatchStep
<1>11. CASE ReplayRefused(w)
  BY <1>11, AbortStep DEF ReplayRefused
<1>12. CASE Commit(w)
  BY <1>12, CommitStep DEF Commit
<1>13. CASE MarkFailed(w)
  BY <1>13, MarkFailedStep
<1> QED BY <1>1, <1>2, <1>3, <1>4, <1>5, <1>6, <1>7, <1>8, <1>9, <1>10, <1>11, <1>12, <1>13
        DEF Advance

LEMMA FailsStep ==
  ASSUME LedgerInvariant, NEW w \in Worker, Fails(w)
  PROVE  LedgerInvariant'
PROOF
<1>1. CASE CommitUnacknowledged(w)
  BY <1>1, CommitStep DEF CommitUnacknowledged
<1>2. CASE StatementFails(w)
  BY <1>2, AbortStep DEF StatementFails
<1>3. CASE MarkFailedLost(w)
  <2>1. tx[w].pc = "failing" /\ tx' = [tx EXCEPT ![w] = IdleTx] /\ UNCHANGED <<clock, tables, lock>>
    BY <1>3 DEF MarkFailedLost
  <2>2. lock # w
    BY <2>1 DEF LedgerInvariant, LockGuardsTransaction
  <2>3. Ends(w, IdleTx)
    BY <2>1, <2>2 DEF Ends
  <2> QED BY <2>1, <2>3, EndStep
<1>4. CASE Drop(w)
  BY <1>4, EndStep DEF Drop
<1> QED BY <1>1, <1>2, <1>3, <1>4 DEF Fails

\* Every step of the ledger, and a stutter, preserves the invariant.
LEMMA NextPreserves ==
  ASSUME LedgerInvariant, [Next]_vars  PROVE LedgerInvariant'
PROOF
<1>1. ASSUME NEW w \in Worker, Request(w)  PROVE LedgerInvariant'
  BY <1>1, RequestStep
<1>2. ASSUME NEW w \in Worker, AcquireLock(w)  PROVE LedgerInvariant'
  BY <1>2, AcquireLockStep
<1>3. ASSUME NEW w \in Worker, Advance(w)  PROVE LedgerInvariant'
  BY <1>3, AdvanceStep
<1>4. ASSUME NEW w \in Worker, Fails(w)  PROVE LedgerInvariant'
  BY <1>4, FailsStep
<1>5. ASSUME NEW p \in Player, CreatePlayer(p)  PROVE LedgerInvariant'
  BY <1>5, CreatePlayerStep
<1>6. ASSUME NEW p \in Player, SetActive(p)  PROVE LedgerInvariant'
  BY <1>6, SetActiveStep
<1>7. CASE Tick
  BY <1>7, TickStep
<1>8. CASE UNCHANGED vars
  <2>1. UNCHANGED <<clock, active, rating, matches, audit, runs, lock, tx>>
    BY <1>8 DEF vars
  <2>2. ASSUME NEW v \in Worker  PROVE RequestFits(v)'
    <3>1. RunOwned(v)'
      BY <2>1 DEF LedgerInvariant, RequestFits, RunOwned
    <3> QED BY <2>1, <3>1, RequestUndisturbed DEF RequestFits
  <2>3. TypeOK' /\ LockGuardsTransaction' /\ PlayersExist'
    BY <2>1 DEF LedgerInvariant, TypeOK, LockGuardsTransaction, PlayersExist
  <2>4. AuditMatchesHistory' /\ CorrectionsAreLinear' /\ RunOutcomeAudited'
    BY <2>1 DEF LedgerInvariant, AuditMatchesHistory, CorrectionsAreLinear, RunOutcomeAudited
  <2> QED BY <2>2, <2>3, <2>4 DEF LedgerInvariant
<1> QED BY <1>1, <1>2, <1>3, <1>4, <1>5, <1>6, <1>7, <1>8 DEF Next

\* The inductive invariant holds of every reachable state: every table is well
\* typed, and every request under way is one whose commit keeps the properties
\* below.
THEOREM LedgerInvariantHolds == Spec => []LedgerInvariant
PROOF
<1>1. Init => LedgerInvariant
  BY InitHolds
<1>2. LedgerInvariant /\ [Next]_vars => LedgerInvariant'
  BY NextPreserves
<1> QED BY <1>1, <1>2, PTL DEF Spec

\* Every table holds rows that its columns accept, and every request is well
\* formed (the whole of match_service, replay_service and player_service).
THEOREM TypeCorrect == Spec => []TypeOK
PROOF
<1>1. LedgerInvariant => TypeOK
  BY DEF LedgerInvariant
<1> QED BY <1>1, LedgerInvariantHolds, PTL

\* The advisory lock is held by exactly the transaction that is past it
\* (acquire_rating_mutation_lock in rating_repo).
THEOREM LockIsGuarded == Spec => []LockGuardsTransaction
PROOF
<1>1. LedgerInvariant => LockGuardsTransaction
  BY DEF LedgerInvariant
<1> QED BY <1>1, LedgerInvariantHolds, PTL

\* The audit log of match_service tells the history of the matches, row by row.
THEOREM AuditIsFaithful == Spec => []AuditMatchesHistory
PROOF
<1>1. LedgerInvariant => AuditMatchesHistory
  BY DEF LedgerInvariant
<1> QED BY <1>1, LedgerInvariantHolds, PTL

\* No match is corrected twice, and none that is still confirmed (correct_match).
THEOREM CorrectionsLinear == Spec => []CorrectionsAreLinear
PROOF
<1>1. LedgerInvariant => CorrectionsAreLinear
  BY DEF LedgerInvariant
<1> QED BY <1>1, LedgerInvariantHolds, PTL

\* A run has succeeded only if its replay was committed (recalculate_ratings).
THEOREM RunOutcomes == Spec => []RunOutcomeAudited
PROOF
<1>1. LedgerInvariant => RunOutcomeAudited
  BY DEF LedgerInvariant
<1> QED BY <1>1, LedgerInvariantHolds, PTL

\* Only a commit changes the matches.
LEMMA OnlyCommitWritesMatches ==
  ASSUME [Next]_vars
  PROVE  UNCHANGED matches \/ \E w \in Worker : Publish(w)
PROOF
<1> USE DEF tables
<1>1. ASSUME NEW w \in Worker, Request(w)  PROVE UNCHANGED matches
  BY <1>1 DEF Request, BeginSubmit, BeginVoid, BeginCorrect, StartRecalculation, Begin
<1>2. ASSUME NEW w \in Worker, AcquireLock(w)  PROVE UNCHANGED matches
  BY <1>2 DEF AcquireLock
<1>3. ASSUME NEW w \in Worker, Advance(w)  PROVE UNCHANGED matches \/ Publish(w)
  <2>1. CASE \/ RejectNewMatch(w) \/ SubmitRefused(w) \/ RejectVoid(w) \/ ReplayRefused(w)
    BY <2>1 DEF RejectNewMatch, SubmitRefused, RejectVoid, ReplayRefused, Abort
  <2>2. CASE \/ VoidWrite(w) \/ CorrectWrite(w) \/ RecalculateWrite(w)
    BY <2>2 DEF VoidWrite, CorrectWrite, RecalculateWrite, StartReplay
  <2>3. CASE \/ BeginRecalculation(w) \/ LoadAndValidate(w) \/ SubmitWrite(w) \/ ReplayMatch(w)
    BY <2>3 DEF BeginRecalculation, Begin, LoadAndValidate, SubmitWrite, ReplayMatch
  <2>4. CASE Commit(w) \/ MarkFailed(w)
    BY <2>4 DEF Commit, MarkFailed
  <2> QED BY <1>3, <2>1, <2>2, <2>3, <2>4 DEF Advance
<1>4. ASSUME NEW w \in Worker, Fails(w)  PROVE UNCHANGED matches \/ Publish(w)
  BY <1>4 DEF Fails, CommitUnacknowledged, StatementFails, Abort, MarkFailedLost, Drop
<1>5. ASSUME NEW p \in Player, CreatePlayer(p) \/ SetActive(p)  PROVE UNCHANGED matches
  BY <1>5 DEF CreatePlayer, SetActive
<1>6. Tick \/ UNCHANGED vars => UNCHANGED matches
  BY DEF Tick, vars
<1> QED BY <1>1, <1>2, <1>3, <1>4, <1>5, <1>6 DEF Next

\* No step rewrites history: rows stay, voided ones as they are, and of a
\* confirmed one only status and snapshots may change (set_match_status and
\* update_match_player_snapshot are the only updates of match_repo).
THEOREM HistoryKept == Spec => HistoryIsPermanent
PROOF
<1> DEFINE Keeps(m) ==
      /\ m \in DOMAIN matches'
      /\ LET before == matches[m]
             after  == matches'[m]
         IN  /\ [before EXCEPT !.status = after.status, !.old = after.old,
                               !.new = after.new] = after
             /\ before.status = "voided" => after = before
<1>1. ASSUME LedgerInvariant, LedgerInvariant', [Next]_vars  PROVE \A m \in DOMAIN matches : Keeps(m)
  <2> SUFFICES ASSUME NEW m \in DOMAIN matches  PROVE Keeps(m)
    OBVIOUS
  <2>1. IsMatchRow(matches[m])
    BY <1>1 DEF LedgerInvariant, TypeOK
  <2>2. CASE UNCHANGED matches
    BY <2>1, <2>2 DEF IsMatchRow
  <2>3. ASSUME NEW w \in Worker, Publish(w)  PROVE Keeps(m)
    <3>1. /\ m \in DOMAIN matches' /\ SameMatch(matches'[m], matches[m])
          /\ matches[m].status = "voided" => matches'[m] = matches[m]
      BY <1>1, <2>3, CommitKeepsRows
    <3>2. IsMatchRow(matches'[m])
      BY <1>1, <3>1 DEF LedgerInvariant, TypeOK
    <3> QED BY <2>1, <3>1, <3>2 DEF IsMatchRow, SameMatch
  <2> QED BY <1>1, <2>2, <2>3, OnlyCommitWritesMatches
<1> QED BY <1>1, LedgerInvariantHolds, PTL DEF Spec, HistoryIsPermanent
-----------------------------------------------------------------------------
(* The players that the registry shares *)

\* The steps of one request: only a commit writes player_ratings, and none changes
\* which players there are or which of them are active.
LEMMA RequestKeepsPlayers ==
  ASSUME LedgerInvariant, NEW w \in Worker,
         Request(w) \/ AcquireLock(w) \/ Advance(w) \/ Fails(w)
  PROVE  active' = active /\ DOMAIN rating' = DOMAIN rating
PROOF
<1> USE DEF tables
<1>1. Publish(w) => active' = active /\ DOMAIN rating' = DOMAIN rating
  <2>1. DOMAIN tx[w].ratings \subseteq DOMAIN rating
    BY DEF LedgerInvariant, RequestFits, PlayersKnown
  <2> QED BY <2>1 DEF Publish, Overlay
<1>2. CASE Request(w)
  BY <1>2 DEF Request, BeginSubmit, BeginVoid, BeginCorrect, StartRecalculation, Begin
<1>3. CASE AcquireLock(w)
  BY <1>3 DEF AcquireLock
<1>4. CASE Advance(w)
  <2>1. CASE \/ RejectNewMatch(w) \/ SubmitRefused(w) \/ RejectVoid(w) \/ ReplayRefused(w)
    BY <2>1 DEF RejectNewMatch, SubmitRefused, RejectVoid, ReplayRefused, Abort
  <2>2. CASE \/ VoidWrite(w) \/ CorrectWrite(w) \/ RecalculateWrite(w)
    BY <2>2 DEF VoidWrite, CorrectWrite, RecalculateWrite, StartReplay
  <2>3. CASE \/ BeginRecalculation(w) \/ LoadAndValidate(w) \/ SubmitWrite(w) \/ ReplayMatch(w)
    BY <2>3 DEF BeginRecalculation, Begin, LoadAndValidate, SubmitWrite, ReplayMatch
  <2>4. CASE Commit(w) \/ MarkFailed(w)
    BY <1>1, <2>4 DEF Commit, MarkFailed
  <2> QED BY <1>4, <2>1, <2>2, <2>3, <2>4 DEF Advance
<1>5. CASE Fails(w)
  BY <1>1, <1>5 DEF Fails, CommitUnacknowledged, StatementFails, Abort, MarkFailedLost, Drop
<1> QED BY <1>2, <1>3, <1>4, <1>5

ReferencedHaveRows == UNION {PlayersReferenced(w) : w \in Worker} \subseteq DOMAIN rating

\* The players of a match being inserted have rows.
LEMMA ReferencedAreKnown == Spec => []ReferencedHaveRows
PROOF
<1>1. LedgerInvariant => ReferencedHaveRows
  <2> SUFFICES ASSUME LedgerInvariant, NEW w \in Worker
               PROVE  PlayersReferenced(w) \subseteq DOMAIN rating
    BY DEF ReferencedHaveRows
  <2> QED BY DEF LedgerInvariant, RequestFits, PlayersKnown, PlayersReferenced
<1> QED BY <1>1, LedgerInvariantHolds, PTL

\* Nothing a player write does touches what matches refer to.
LEMMA PlayerWriteIsShared ==
  ASSUME NEW p \in Player, CreatePlayer(p) \/ SetActive(p)
  PROVE  Shared!Next
PROOF
<1> DEFINE referred == UNION {PlayersReferenced(w) : w \in Worker}
<1>1. tx' = tx /\ matches' = matches
  BY DEF CreatePlayer, SetActive
<1>2. referred' = referred
  BY <1>1 DEF PlayersReferenced
<1>3. CASE CreatePlayer(p)
  <2>1. DOMAIN rating' = DOMAIN rating \cup {p}
    BY <1>3 DEF CreatePlayer, Overlay
  <2>2. Shared!Create(p)
    BY <1>2, <1>3, <2>1 DEF CreatePlayer, Shared!Create
  <2> QED BY <2>2 DEF Shared!Next
<1>4. CASE SetActive(p)
  <2>1. p \in DOMAIN rating /\ p \notin referred
    BY <1>4 DEF SetActive
  <2>2. active' \in {active \ {p}, active \cup {p}} /\ rating' = rating
    BY <1>4 DEF SetActive
  <2>3. Shared!SetActive(p)
    BY <1>2, <2>1, <2>2 DEF Shared!SetActive
  <2> QED BY <2>3 DEF Shared!Next
<1> QED BY <1>3, <1>4

\* What the registry assumes of matches holds of the requests that record them: they
\* refer to players with a row, and otherwise leave players alone; and the ledger's
\* own player writes are the registry's.
THEOREM LedgerSharesPlayers == Spec => ImplementsSharedPlayers
PROOF
<1>1. Init => Shared!Init
  <2> SUFFICES ASSUME Init  PROVE Shared!Init
    OBVIOUS
  <2>1. DOMAIN NoRows = {}
    BY DEF NoRows
  <2>2. ASSUME NEW w \in Worker  PROVE PlayersReferenced(w) = {}
    BY <2>1 DEF Init, IdleTx, PlayersReferenced
  <2> QED BY <2>1, <2>2 DEF Init, Shared!Init
<1>2. LedgerInvariant /\ ReferencedHaveRows' /\ [Next]_vars => [Shared!Next]_(Shared!vars)
  <2> SUFFICES ASSUME LedgerInvariant, ReferencedHaveRows', [Next]_vars
               PROVE  Shared!Next \/ UNCHANGED Shared!vars
    OBVIOUS
  <2>1. ASSUME active' = active, DOMAIN rating' = DOMAIN rating  PROVE Shared!Next
    BY <2>1 DEF ReferencedHaveRows, Shared!Refer, Shared!Next
  <2>2. CASE Tick \/ UNCHANGED vars
    BY <2>1, <2>2 DEF Tick, tables, vars
  <2> QED BY <2>1, <2>2, RequestKeepsPlayers, PlayerWriteIsShared DEF Next
<1> QED BY <1>1, <1>2, LedgerInvariantHolds, ReferencedAreKnown, PTL
        DEF Spec, ImplementsSharedPlayers, Shared!Spec

-----------------------------------------------------------------------------
(* Progress *)

\* How far a request is.
Phase == [started |-> 1, waiting |-> 2, locked |-> 3, loaded |-> 4, writing |-> 5,
          failing |-> 6, idle |-> 7]

Nearer(next, t) ==
  \/ Phase[next.pc] > Phase[t.pc]
  \/ next.pc = "writing" /\ t.pc = "writing" /\ next.todo \subseteq t.todo /\ next.todo # t.todo

\* Whatever a request does, and whatever happens to it, brings it nearer its end:
\* nothing is tried twice, and a replay has one match less to go.
StepsLeadToEnd ==
  [][\A w \in Worker : tx[w].pc # "idle" /\ tx'[w] # tx[w] => Nearer(tx'[w], tx[w])]_vars

LEMMA OwnStepIsNearer ==
  ASSUME LedgerInvariant, NEW w \in Worker, AcquireLock(w) \/ Advance(w) \/ Fails(w)
  PROVE  Nearer(tx'[w], tx[w])
PROOF
<1> USE DEF tables
<1>1. DOMAIN tx = Worker
  BY DEF LedgerInvariant, TypeOK
<1>2. tx[w].pc \in {"idle", "started", "waiting", "locked", "loaded", "writing", "failing"}
  BY DEF LedgerInvariant, TypeOK, IsTx
<1>3. AbortedTx(w).pc \in {"failing", "idle"}
  BY DEF AbortedTx, IdleTx
<1>4. ASSUME tx'[w] = AbortedTx(w), tx[w].pc \notin {"failing", "idle"}
      PROVE  Nearer(tx'[w], tx[w])
  BY <1>2, <1>3, <1>4 DEF Nearer, Phase
<1>5. ASSUME tx'[w] = IdleTx, tx[w].pc # "idle"  PROVE Nearer(tx'[w], tx[w])
  BY <1>2, <1>5 DEF Nearer, Phase, IdleTx
<1>6. CASE AcquireLock(w)
  <2>1. tx[w].pc = "waiting" /\ tx'[w].pc = "locked"
    BY <1>1, <1>6 DEF AcquireLock
  <2> QED BY <2>1 DEF Nearer, Phase
<1>7. CASE Advance(w)
  <2>1. CASE RejectNewMatch(w) \/ SubmitRefused(w) \/ RejectVoid(w) \/ ReplayRefused(w)
    BY <1>1, <1>4, <2>1 DEF RejectNewMatch, SubmitRefused, RejectVoid, ReplayRefused, Abort, Ends
  <2>2. CASE VoidWrite(w) \/ CorrectWrite(w) \/ RecalculateWrite(w) \/ SubmitWrite(w)
    <3>1. tx'[w].pc = "writing" /\ tx[w].pc \in {"locked", "loaded"}
      <4>1. \A rows, event : StartReplay(w, rows, event) => tx'[w].pc = "writing"
        BY <1>1 DEF StartReplay
      <4>2. CASE VoidWrite(w) \/ CorrectWrite(w) \/ RecalculateWrite(w)
        BY <4>1, <4>2 DEF VoidWrite, CorrectWrite, RecalculateWrite
      <4>3. SubmitWrite(w) => tx'[w].pc = "writing" /\ tx[w].pc = "loaded"
        BY <1>1 DEF SubmitWrite
      <4> QED BY <2>2, <4>2, <4>3
    <3> QED BY <3>1 DEF Nearer, Phase
  <2>3. CASE BeginRecalculation(w)
    <3>1. tx[w].pc = "started" /\ tx'[w].pc = "waiting"
      BY <1>1, <2>3 DEF BeginRecalculation, Begin, IdleTx
    <3> QED BY <3>1 DEF Nearer, Phase
  <2>4. CASE LoadAndValidate(w)
    <3>1. tx[w].pc = "locked" /\ tx'[w].pc = "loaded"
      BY <1>1, <2>4 DEF LoadAndValidate
    <3> QED BY <3>1 DEF Nearer, Phase
  <2>5. CASE ReplayMatch(w)
    <3>1. tx'[w].pc = "writing" /\ tx[w].pc = "writing"
          /\ tx'[w].todo = tx[w].todo \ {ReplayWrites(w).match}
      BY <1>1, <2>5 DEF ReplayMatch
    <3>2. ReplayWrites(w).match \in tx[w].todo
      BY <2>5, NextIsConfirmed DEF ReplayMatch
    <3> QED BY <3>1, <3>2 DEF Nearer
  <2>6. CASE Commit(w) \/ MarkFailed(w)
    BY <1>1, <1>5, <2>6 DEF Commit, Publish, Ends, MarkFailed
  <2> QED BY <1>7, <2>1, <2>2, <2>3, <2>4, <2>5, <2>6 DEF Advance
<1>8. CASE Fails(w)
  <2>1. CASE CommitUnacknowledged(w) \/ StatementFails(w)
    BY <1>1, <1>4, <2>1 DEF CommitUnacknowledged, Publish, StatementFails, InTransaction, Abort,
       Ends
  <2>2. CASE MarkFailedLost(w) \/ Drop(w)
    BY <1>1, <1>5, <2>2 DEF MarkFailedLost, Drop, Ends
  <2> QED BY <1>8, <2>1, <2>2 DEF Fails
<1> QED BY <1>6, <1>7, <1>8

\* A request takes at most one step for each phase and each match that it replays:
\* what is left to fairness is only the order in which requests get the lock.
THEOREM RequestsOnlyGoForward == Spec => StepsLeadToEnd
PROOF
<1>1. ASSUME LedgerInvariant, Next, NEW w \in Worker, tx[w].pc # "idle", tx'[w] # tx[w]
      PROVE  Nearer(tx'[w], tx[w])
  <2>1. PICK v \in Worker : Request(v) \/ AcquireLock(v) \/ Advance(v) \/ Fails(v)
    BY <1>1 DEF Next, CreatePlayer, SetActive, Tick
  <2>2. \E t : tx' = [tx EXCEPT ![v] = t]
    <3> USE DEF tables
    <3>1. CASE Request(v)
      BY <3>1 DEF Request, BeginSubmit, BeginVoid, BeginCorrect, StartRecalculation, Begin
    <3>2. CASE AcquireLock(v)
      BY <3>2 DEF AcquireLock
    <3>3. CASE Advance(v)
      BY <3>3 DEF Advance, BeginRecalculation, Begin, LoadAndValidate, RejectNewMatch, SubmitWrite,
         SubmitRefused, VoidWrite, RejectVoid, CorrectWrite, RecalculateWrite, StartReplay,
         ReplayMatch, ReplayRefused, Commit, MarkFailed, Abort, Ends
    <3>4. CASE Fails(v)
      BY <3>4 DEF Fails, CommitUnacknowledged, StatementFails, Abort, MarkFailedLost, Drop, Ends
    <3> QED BY <2>1, <3>1, <3>2, <3>3, <3>4
  <2>3. v = w
    BY <1>1, <2>2
  <2>4. ~Request(w)
    BY <1>1 DEF Request, BeginSubmit, BeginVoid, BeginCorrect, StartRecalculation
  <2> QED BY <1>1, <2>1, <2>3, <2>4, OwnStepIsNearer
<1>2. LedgerInvariant /\ [Next]_vars =>
        [\A w \in Worker : tx[w].pc # "idle" /\ tx'[w] # tx[w] => Nearer(tx'[w], tx[w])]_vars
  BY <1>1
<1> QED BY <1>2, LedgerInvariantHolds, PTL DEF Spec, StepsLeadToEnd
=============================================================================
