------------------------ MODULE RatingHistoryProofs ------------------------
(***************************************************************************)
(* The ledger's tables and the match history, for any players and matches, *)
(* any rating function and any interleaving and failures: replays, voids   *)
(* and corrections keep the ratings derived from the history, and a        *)
(* submission does unless it is out of order; the counters of every player *)
(* are those of the history; the ledger implements the atomic one; and     *)
(* what the read requests beside it answer.                                *)
(***************************************************************************)
EXTENDS RatingLedgerProofs, MatchReads

-----------------------------------------------------------------------------
(* The order of a history *)

Timed(ms, S) == \A m \in S : ms[m].playedAt \in Nat /\ ms[m].createdAt \in Nat

\* Two tables that tell the same of the matches S.
SameGames(a, b, S) ==
  \A m \in S :
    /\ a[m].playedAt = b[m].playedAt /\ a[m].createdAt = b[m].createdAt
    /\ a[m].place = b[m].place /\ a[m].old = b[m].old /\ a[m].new = b[m].new

IsLatest(ms, T, m) == m \in T /\ \A k \in T : k = m \/ ReplayBefore(ms, k, m)

LEMMA BeforeIsOrder ==
  ASSUME NEW ms, NEW S \in SUBSET MatchId, Timed(ms, S)
  PROVE  /\ \A a \in S : ~ReplayBefore(ms, a, a)
         /\ \A a, b \in S : ReplayBefore(ms, a, b) => ~ReplayBefore(ms, b, a)
         /\ \A a, b \in S : a = b \/ ReplayBefore(ms, a, b) \/ ReplayBefore(ms, b, a)
         /\ \A a, b, c \in S :
              ReplayBefore(ms, a, b) /\ ReplayBefore(ms, b, c) => ReplayBefore(ms, a, c)
<1>1. \A a \in S : a \in Nat /\ ms[a].playedAt \in Nat /\ ms[a].createdAt \in Nat
  BY TablesAssumption DEF Timed
<1>2. \A a \in S : ~ReplayBefore(ms, a, a)
  BY <1>1 DEF ReplayBefore
<1>3. \A a, b \in S : ReplayBefore(ms, a, b) => ~ReplayBefore(ms, b, a)
  BY <1>1 DEF ReplayBefore
<1>4. \A a, b \in S : a = b \/ ReplayBefore(ms, a, b) \/ ReplayBefore(ms, b, a)
  BY <1>1 DEF ReplayBefore
<1>5. ASSUME NEW a \in S, NEW b \in S, NEW c \in S,
             ReplayBefore(ms, a, b), ReplayBefore(ms, b, c)
      PROVE  ReplayBefore(ms, a, c)
  BY <1>1, <1>5 DEF ReplayBefore
<1>6. QED
  BY <1>2, <1>3, <1>4, <1>5

\* A set of matches has a latest one: a smallest set without one would have one
\* when some match is taken out of it, and then one of the two is the latest.
LEMMA LatestExists ==
  ASSUME NEW ms, NEW S \in SUBSET MatchId, Timed(ms, S), S # {}
  PROVE  IsLatest(ms, S, LatestOf(ms, S))
<1> DEFINE Bad == {T \in SUBSET S : T # {} /\ ~\E m \in T : IsLatest(ms, T, m)}
<1>1. Bad = {}
  <2> SUFFICES ASSUME Bad # {} PROVE FALSE
    OBVIOUS
  <2>1. \A T \in SUBSET S : IsFiniteSet(T) /\ Cardinality(T) \in Nat
    BY TablesAssumption, FS_Subset, FS_CardinalityType
  <2>2. PICK n \in {Cardinality(T) : T \in Bad} : \A k \in {Cardinality(T) : T \in Bad} : n <= k
    <3>1. {Cardinality(T) : T \in Bad} \in SUBSET Nat /\ {Cardinality(T) : T \in Bad} # {}
      BY <2>1
    <3>2. QED
      BY <3>1, LeastNatural
  <2>3. PICK T \in Bad : n = Cardinality(T)
    BY <2>2
  <2>4. PICK x \in T : TRUE
    BY <2>3
  <2>5. Cardinality(T \ {x}) = Cardinality(T) - 1 /\ Cardinality(T) \in Nat
        /\ Cardinality(T \ {x}) \in Nat
    BY <2>1, <2>3, <2>4, FS_RemoveElement
  <2>6. T \ {x} \notin Bad
    BY <2>2, <2>3, <2>5
  <2>7. CASE T \ {x} = {}
    BY <2>3, <2>4, <2>7 DEF IsLatest
  <2>8. CASE T \ {x} # {}
    <3>1. PICK y \in T \ {x} : IsLatest(ms, T \ {x}, y)
      BY <2>3, <2>6, <2>8
    <3>2. x \in S /\ y \in S /\ T \subseteq S
      BY <2>3, <2>4, <3>1
    <3>3. CASE ReplayBefore(ms, x, y)
      BY <2>3, <3>1, <3>3 DEF IsLatest
    <3>4. CASE ReplayBefore(ms, y, x)
      <4>1. \A k \in T : k = x \/ ReplayBefore(ms, k, x)
        BY <3>1, <3>2, <3>4, BeforeIsOrder DEF IsLatest
      <4>2. QED
        BY <2>3, <2>4, <4>1 DEF IsLatest
    <3>5. QED
      BY <3>1, <3>2, <3>3, <3>4, BeforeIsOrder
  <2>9. QED
    BY <2>7, <2>8
<1>2. \E m \in S : IsLatest(ms, S, m)
  BY <1>1
<1>3. QED
  BY <1>2 DEF IsLatest, LatestOf

\* The latest match of a set is the latest in any table with the same times.
LEMMA SameLatest ==
  ASSUME NEW a, NEW b, NEW S,
         \A m \in S : a[m].playedAt = b[m].playedAt /\ a[m].createdAt = b[m].createdAt
  PROVE  LatestOf(a, S) = LatestOf(b, S)
<1> DEFINE P(m) == m \in S /\ \A k \in S : k = m \/ ReplayBefore(a, k, m)
           Q(m) == m \in S /\ \A k \in S : k = m \/ ReplayBefore(b, k, m)
<1>1. \A m : P(m) <=> Q(m)
  BY DEF ReplayBefore
<1>2. (CHOOSE m : P(m)) = CHOOSE m : Q(m)
  <2> HIDE DEF P, Q
  <2>1. QED
    BY <1>1
<1>3. LatestOf(a, S) = (CHOOSE m : P(m)) /\ LatestOf(b, S) = CHOOSE m : Q(m)
  BY DEF LatestOf
<1>4. QED
  BY <1>2, <1>3

LEMMA SameSkill ==
  ASSUME NEW a, NEW b, NEW S \in SUBSET MatchId, Timed(a, S), SameGames(a, b, S)
  PROVE  \A p, start : SkillAfter(a, S, p, start) = SkillAfter(b, S, p, start)
<1>1. CASE S = {}
  BY <1>1 DEF SkillAfter
<1>2. CASE S # {}
  <2>1. LatestOf(a, S) = LatestOf(b, S)
    BY SameLatest DEF SameGames
  <2>2. LatestOf(a, S) \in S
    BY <1>2, LatestExists DEF IsLatest
  <2>3. QED
    BY <1>2, <2>1, <2>2 DEF SkillAfter, SameGames
<1>3. QED
  BY <1>1, <1>2

\* The latest match is the one that comes after all others.
LEMMA LastIsLatest ==
  ASSUME NEW ms, NEW S \in SUBSET MatchId, Timed(ms, S), NEW m, IsLatest(ms, S, m)
  PROVE  LatestOf(ms, S) = m
<1>1. IsLatest(ms, S, LatestOf(ms, S))
  BY LatestExists DEF IsLatest
<1>2. QED
  BY <1>1, BeforeIsOrder DEF IsLatest

-----------------------------------------------------------------------------
(* A match on top of a history *)

\* In b, m is played on top of the matches S of a: after every one that its
\* players took part in, and rated from what those have left them with.
PlayedOnTop(a, b, S, m, start) ==
  /\ Timed(b, S \cup {m}) /\ SameGames(a, b, S)
  /\ \A k \in S : DOMAIN b[k].place \cap DOMAIN b[m].place # {} => ReplayBefore(b, k, m)
  /\ SnapshotsChain(a, S, start)
  /\ \A p \in DOMAIN b[m].place : b[m].old[p] = SkillAfter(a, Of(a, S, p), p, start[p])
  /\ b[m].new = Rate(b[m].old, b[m].place)

\* It extends the chain of snapshots, has the last word on its players, and says
\* nothing of the others.
HasLastWord(a, b, S, m, start) ==
  /\ SnapshotsChain(b, S \cup {m}, start)
  /\ \A p \in DOMAIN b[m].place : \A x :
       SkillAfter(b, Of(b, S \cup {m}, p), p, x) = b[m].new[p]
  /\ \A p : p \notin DOMAIN b[m].place => \A x :
       SkillAfter(b, Of(b, S \cup {m}, p), p, x) = SkillAfter(a, Of(a, S, p), p, x)

LEMMA PlayedLast ==
  ASSUME NEW a, NEW b, NEW S \in SUBSET MatchId, NEW m \in MatchId \ S, NEW start,
         PlayedOnTop(a, b, S, m, start)
  PROVE  HasLastWord(a, b, S, m, start)
<1> DEFINE T == S \cup {m}
<1> USE DEF PlayedOnTop
<1>1. T \in SUBSET MatchId /\ Timed(b, S) /\ Timed(a, S)
  BY DEF Timed, SameGames
<1>2. ASSUME NEW p PROVE Of(a, S, p) = Of(b, S, p) /\ Of(b, S, p) \subseteq S
  BY DEF Of, SameGames
<1>3. ASSUME NEW U \in SUBSET S, NEW p, NEW x
      PROVE  SkillAfter(a, U, p, x) = SkillAfter(b, U, p, x)
  <2>1. U \in SUBSET MatchId /\ Timed(a, U) /\ SameGames(a, b, U)
    BY <1>1 DEF Timed, SameGames
  <2>2. QED
    BY <2>1, SameSkill
<1>4. \A k, j \in S : ReplayBefore(a, k, j) <=> ReplayBefore(b, k, j)
  BY DEF ReplayBefore, SameGames
<1>5. ASSUME NEW p PROVE Of(b, T, p) = IF p \in DOMAIN b[m].place THEN Of(b, S, p) \cup {m}
                                                                 ELSE Of(b, S, p)
  BY DEF Of
<1>6. \A k \in S : DOMAIN b[k].place \cap DOMAIN b[m].place # {} => ~ReplayBefore(b, m, k)
  BY <1>1, BeforeIsOrder
<1>7. ~ReplayBefore(b, m, m)
  BY <1>1, BeforeIsOrder
<1>8. SnapshotsChain(b, T, start)
  <2> DEFINE Earlier(k, p) == {j \in Of(b, T, p) : ReplayBefore(b, j, k)}
  <2>1. ASSUME NEW k \in T, NEW p \in DOMAIN b[k].place
        PROVE  b[k].old[p] = SkillAfter(b, Earlier(k, p), p, start[p])
    <3>1. CASE k = m
      <4>1. Earlier(m, p) = Of(b, S, p)
        BY <1>5, <1>7, <3>1 DEF Of
      <4>2. SkillAfter(a, Of(a, S, p), p, start[p]) = SkillAfter(b, Of(b, S, p), p, start[p])
        BY <1>2, <1>3
      <4>3. QED
        BY <3>1, <4>1, <4>2
    <3>2. CASE k \in S
      <4> DEFINE E == {j \in Of(a, S, p) : ReplayBefore(a, j, k)}
      <4>1. Earlier(k, p) = E
        <5>1. p \in DOMAIN b[m].place => ~ReplayBefore(b, m, k)
          BY <1>6, <3>2
        <5>2. Earlier(k, p) = {j \in Of(b, S, p) : ReplayBefore(b, j, k)}
          BY <1>5, <5>1
        <5>3. QED
          BY <1>2, <1>4, <3>2, <5>2
      <4>2. p \in DOMAIN a[k].place /\ a[k].old = b[k].old
        BY <3>2 DEF SameGames
      <4>3. a[k].old[p] = SkillAfter(a, E, p, start[p])
        BY <3>2, <4>2 DEF SnapshotsChain
      <4>4. SkillAfter(a, E, p, start[p]) = SkillAfter(b, E, p, start[p])
        <5>1. E \in SUBSET S
          BY <1>2
        <5>2. QED
          BY <1>3, <5>1
      <4>5. QED
        BY <4>1, <4>2, <4>3, <4>4
    <3>3. QED
      BY <3>1, <3>2
  <2>2. ASSUME NEW k \in T PROVE b[k].new = Rate(b[k].old, b[k].place)
    BY <2>2 DEF SnapshotsChain, SameGames
  <2>3. QED
    BY <2>1, <2>2 DEF SnapshotsChain
<1>9. ASSUME NEW p \in DOMAIN b[m].place, NEW x
      PROVE  SkillAfter(b, Of(b, T, p), p, x) = b[m].new[p]
  <2> DEFINE U == Of(b, T, p)
  <2>1. U \in SUBSET MatchId /\ Timed(b, U) /\ U # {}
    BY <1>1, <1>5 DEF Of, Timed
  <2>2. IsLatest(b, U, m)
    BY <1>5 DEF Of, IsLatest
  <2>3. LatestOf(b, U) = m
    BY <2>1, <2>2, LastIsLatest
  <2>4. QED
    BY <2>1, <2>3 DEF SkillAfter
<1>10. ASSUME NEW p, p \notin DOMAIN b[m].place, NEW x
       PROVE  SkillAfter(b, Of(b, T, p), p, x) = SkillAfter(a, Of(a, S, p), p, x)
  <2>1. Of(b, T, p) = Of(a, S, p) /\ Of(a, S, p) \in SUBSET S
    BY <1>2, <1>5, <1>10
  <2>2. QED
    BY <1>3, <2>1
<1>11. QED
  BY <1>8, <1>9, <1>10 DEF HasLastWord

-----------------------------------------------------------------------------
(* Transactions under way *)

\* A submission has read the ratings as they are ...
Loaded(t, rt) == \A p \in DOMAIN t.place : t.old[p] = rt[p].skill

\* ... and computed the new ones from them.
Submitted(t, rt) ==
  \A m \in DOMAIN t.rows :
    /\ \A p \in DOMAIN t.rows[m].place : t.rows[m].old[p] = rt[p].skill
    /\ t.rows[m].new = Rate(t.rows[m].old, t.rows[m].place)
    /\ DOMAIN t.ratings = DOMAIN t.rows[m].place
    /\ \A p \in DOMAIN t.rows[m].place : t.ratings[p].skill = t.rows[m].new[p]

Defaults == [p \in Player |-> DefaultSkill]

\* The matches that a replay has done come before those it has still to do; its
\* ratings and snapshots are what they define.
Replayed(t, ms) ==
  LET done == Confirmed(ms) \ t.todo
  IN  /\ \A m \in done, k \in t.todo : ReplayBefore(ms, m, k)
      /\ \A m \in DOMAIN ms : DOMAIN ms[m].place \subseteq DOMAIN t.ratings
      /\ SnapshotsChain(ms, done, Defaults)
      /\ \A p \in DOMAIN t.ratings :
           t.ratings[p].skill = SkillAfter(ms, Of(ms, done, p), p, DefaultSkill)

Fits(t, rt, mt) ==
  /\ t.pc = "loaded" => Loaded(t, rt)
  /\ t.pc = "writing" /\ t.op = "submit" => Submitted(t, rt)
  /\ t.pc = "writing" /\ t.op # "submit" => Replayed(t, Overlay(mt, t.rows))

DerivationInvariant ==
  LedgerInvariant /\ \A w \in Worker : Fits(tx[w], rating, matches)

\* The steps that bring a transaction nearer to its commit.
Works(w) ==
  \/ LoadAndValidate(w) \/ SubmitWrite(w)
  \/ VoidWrite(w) \/ CorrectWrite(w) \/ RecalculateWrite(w)
  \/ ReplayMatch(w)

\* The end of a transaction leaves nothing pending.
LEMMA EndRests ==
  ASSUME LedgerInvariant, NEW w \in Worker, NEW next \in {IdleTx, AbortedTx(w)}, Ends(w, next)
  PROVE  /\ tx'[w].pc \notin {"loaded", "writing"}
         /\ \A v \in Worker \ {w} : tx'[v] = tx[v]
<1>1. DOMAIN tx = Worker
  BY DEF LedgerInvariant, TypeOK
<1>2. next.pc \in {"idle", "failing"}
  <2>1. IdleTx.pc = "idle"
    BY DEF IdleTx
  <2>2. [IdleTx EXCEPT !.op = "recalculate", !.pc = "failing", !.run = tx[w].run].pc = "failing"
    BY DEF IdleTx
  <2>3. QED
    BY <2>1, <2>2 DEF AbortedTx
<1>3. tx'[w] = next /\ \A v \in Worker \ {w} : tx'[v] = tx[v]
  BY <1>1 DEF Ends
<1>4. QED
  BY <1>2, <1>3

LEMMA WorksAlone ==
  ASSUME LedgerInvariant, NEW w \in Worker, Works(w)
  PROVE  /\ UNCHANGED <<matches, rating>>
         /\ \A v \in Worker \ {w} : tx'[v] = tx[v]
<1>1. DOMAIN tx = Worker
  BY DEF LedgerInvariant, TypeOK
<1>2. CASE LoadAndValidate(w)
  BY <1>1, <1>2 DEF LoadAndValidate, tables
<1>3. CASE SubmitWrite(w)
  BY <1>1, <1>3 DEF SubmitWrite, tables
<1>4. CASE VoidWrite(w) \/ CorrectWrite(w) \/ RecalculateWrite(w)
  BY <1>1, <1>4 DEF VoidWrite, CorrectWrite, RecalculateWrite, StartReplay, tables
<1>5. CASE ReplayMatch(w)
  BY <1>1, <1>5 DEF ReplayMatch, tables
<1>6. QED
  BY <1>2, <1>3, <1>4, <1>5 DEF Works

\* Every other step of a request leaves nothing pending, and only its commit
\* writes what was.
LEMMA OtherSteps ==
  ASSUME LedgerInvariant, NEW w \in Worker,
         Request(w) \/ AcquireLock(w) \/ Advance(w) \/ Fails(w), ~Works(w)
  PROVE  /\ tx'[w].pc \notin {"loaded", "writing"}
         /\ \A v \in Worker \ {w} : tx'[v] = tx[v]
         /\ UNCHANGED <<matches, rating>> \/ Publish(w)
<1>1. DOMAIN tx = Worker /\ IsTx(tx[w])
  BY DEF LedgerInvariant, TypeOK
<1>2. ASSUME NEW op, NEW target, NEW run, Begin(w, op, target, run)
      PROVE  /\ tx'[w].pc = "waiting"
             /\ \A v \in Worker \ {w} : tx'[v] = tx[v]
             /\ UNCHANGED <<matches, rating>>
  BY <1>1, <1>2 DEF Begin, IdleTx, tables
<1>3. CASE BeginSubmit(w) \/ BeginVoid(w) \/ BeginCorrect(w) \/ BeginRecalculation(w)
  <2>1. \E op, target, run : Begin(w, op, target, run)
    BY <1>3 DEF BeginSubmit, BeginVoid, BeginCorrect, BeginRecalculation
  <2>2. QED
    BY <1>2, <2>1
<1>4. CASE StartRecalculation(w)
  BY <1>1, <1>4 DEF StartRecalculation, IdleTx
<1>5. CASE AcquireLock(w)
  <2>1. tx' = [tx EXCEPT ![w].pc = "locked"] /\ UNCHANGED tables
    BY <1>5 DEF AcquireLock
  <2>2. tx'[w].pc = "locked"
    BY <1>1, <2>1 DEF IsTx
  <2>3. QED
    BY <1>1, <2>1, <2>2 DEF tables
<1>6. ASSUME Abort(w)
      PROVE  /\ tx'[w].pc \notin {"loaded", "writing"}
             /\ \A v \in Worker \ {w} : tx'[v] = tx[v]
             /\ UNCHANGED <<matches, rating>>
  BY <1>6, EndRests DEF Abort, tables
<1>7. CASE \/ RejectNewMatch(w) \/ SubmitRefused(w) \/ RejectVoid(w) \/ ReplayRefused(w)
           \/ StatementFails(w)
  BY <1>6, <1>7 DEF RejectNewMatch, SubmitRefused, RejectVoid, ReplayRefused, StatementFails
<1>8. CASE Commit(w) \/ CommitUnacknowledged(w) \/ Drop(w)
  BY <1>8, EndRests DEF Commit, CommitUnacknowledged, Drop, tables
<1>9. CASE MarkFailed(w) \/ MarkFailedLost(w)
  BY <1>1, <1>9 DEF MarkFailed, MarkFailedLost, IdleTx, tables
<1>10. QED
  BY <1>3, <1>4, <1>5, <1>7, <1>8, <1>9 DEF Request, Advance, Fails, Works

-----------------------------------------------------------------------------
(* Each step *)

\* Nobody but w writes what w has pending, and new players change nothing.
LEMMA StaysFit ==
  ASSUME LedgerInvariant, NEW v \in Worker, Fits(tx[v], rating, matches),
         tx'[v] = tx[v], UNCHANGED matches, \A p \in DOMAIN rating : rating'[p] = rating[p]
  PROVE  Fits(tx'[v], rating', matches')
<1>1. /\ DOMAIN tx[v].place \subseteq DOMAIN rating
      /\ \A m \in DOMAIN tx[v].rows : DOMAIN tx[v].rows[m].place \subseteq DOMAIN rating
  BY DEF LedgerInvariant, RequestFits, PlayersKnown
<1>2. Loaded(tx[v], rating) => Loaded(tx[v], rating')
  BY <1>1 DEF Loaded
<1>3. Submitted(tx[v], rating) => Submitted(tx[v], rating')
  BY <1>1 DEF Submitted
<1>4. QED
  BY <1>2, <1>3 DEF Fits

LEMMA LoadFits ==
  ASSUME LedgerInvariant, NEW w \in Worker, LoadAndValidate(w)
  PROVE  Fits(tx'[w], rating', matches')
<1>1. DOMAIN tx = Worker /\ IsTx(tx[w])
  BY DEF LedgerInvariant, TypeOK
<1>2. PICK place \in ValidPlacements, playedAt \in PlayedAt :
        tx' = [tx EXCEPT ![w].pc = "loaded", ![w].playedAt = playedAt, ![w].place = place,
                         ![w].old = [p \in DOMAIN place |-> rating[p].skill]]
  BY DEF LoadAndValidate
<1>3. /\ tx'[w].pc = "loaded" /\ tx'[w].place = place
      /\ tx'[w].old = [p \in DOMAIN place |-> rating[p].skill]
  BY <1>1, <1>2 DEF IsTx
<1>4. rating' = rating
  BY DEF LoadAndValidate, tables
<1>5. QED
  BY <1>3, <1>4 DEF Fits, Loaded

LEMMA SubmitFits ==
  ASSUME LedgerInvariant, NEW w \in Worker, Fits(tx[w], rating, matches), SubmitWrite(w)
  PROVE  Fits(tx'[w], rating', matches')
<1> DEFINE place == tx[w].place
           old   == tx[w].old
           new   == Rate(old, place)
           ratings == SubmitWrites(w).ratings
           row     == SubmitWrites(w).row
<1>1. DOMAIN tx = Worker /\ IsTx(tx[w]) /\ tx[w].pc = "loaded" /\ tx[w].op = "submit"
  BY DEF LedgerInvariant, TypeOK, SubmitWrite
<1>2. PICK m \in MatchId :
        tx' = [tx EXCEPT ![w].pc = "writing", ![w].ratings = ratings,
                         ![w].rows = [x \in {m} |-> row],
                         ![w].event = <<"match.created", m>>]
  BY DEF SubmitWrite
<1>3. /\ row.old = old /\ row.new = new /\ row.place = place
      /\ DOMAIN ratings = DOMAIN place
      /\ \A p \in DOMAIN place : ratings[p].skill = new[p]
  BY DEF SubmitWrites, NewRow, RatingsAfterMatch, RatingAfterMatch
<1>4. \A p \in DOMAIN place : old[p] = rating[p].skill
  BY <1>1 DEF Fits, Loaded
<1>5. rating' = rating
  BY DEF SubmitWrite, tables
<1> HIDE DEF ratings, row
<1>6. /\ tx'[w].pc = "writing" /\ tx'[w].op = "submit" /\ tx'[w].ratings = ratings
      /\ tx'[w].rows = [x \in {m} |-> row]
  BY <1>1, <1>2 DEF IsTx
<1>7. Submitted(tx'[w], rating')
  BY <1>3, <1>4, <1>5, <1>6 DEF Submitted
<1>8. QED
  BY <1>6, <1>7 DEF Fits

\* A replay begins with nothing done and everybody at the default.
LEMMA StartFits ==
  ASSUME LedgerInvariant, LedgerInvariant', NEW w \in Worker, NEW rows, NEW event,
         StartReplay(w, rows, event), tx[w].op # "submit"
  PROVE  Fits(tx'[w], rating', matches')
<1> DEFINE ms == Overlay(matches, rows)
<1>1. DOMAIN tx = Worker /\ IsTx(tx[w])
  BY DEF LedgerInvariant, TypeOK
<1>2. /\ tx'[w].pc = "writing" /\ tx'[w].op # "submit" /\ tx'[w].rows = rows
      /\ tx'[w].ratings = [p \in DOMAIN rating |-> FreshRating(DefaultSkill)]
      /\ tx'[w].todo = Confirmed(ms)
  BY <1>1 DEF StartReplay, IsTx
<1>3. matches' = matches /\ rating' = rating
  BY DEF StartReplay, tables
<1>4. \A m \in DOMAIN ms : DOMAIN ms[m].place \subseteq DOMAIN rating
  <2>1. \A m \in DOMAIN matches : DOMAIN matches[m].place \subseteq DOMAIN rating
    BY DEF LedgerInvariant, PlayersExist
  <2>2. \A m \in DOMAIN rows : DOMAIN rows[m].place \subseteq DOMAIN rating
    BY <1>2, <1>3 DEF LedgerInvariant, RequestFits, PlayersKnown
  <2>3. QED
    BY <2>1, <2>2 DEF Overlay
<1> HIDE DEF ms
<1>5. \A p : Of(ms, {}, p) = {}
  BY DEF Of
<1>6. \A p \in DOMAIN rating : FreshRating(DefaultSkill).skill = SkillAfter(ms, Of(ms, {}, p), p, DefaultSkill)
  BY <1>5 DEF FreshRating, SkillAfter
<1>7. SnapshotsChain(ms, {}, Defaults)
  BY DEF SnapshotsChain
<1>8. Confirmed(ms) \ tx'[w].todo = {}
  BY <1>2
<1>9. Replayed(tx'[w], ms)
  BY <1>2, <1>4, <1>6, <1>7, <1>8 DEF Replayed
<1>10. QED
  BY <1>2, <1>3, <1>9 DEF Fits, ms

LEMMA OverlayTwice ==
  ASSUME NEW f, NEW g, NEW h
  PROVE  Overlay(f, Overlay(g, h)) = Overlay(Overlay(f, g), h)
BY DEF Overlay

\* Times of rows are numbers.
LEMMA RowsTimed ==
  ASSUME LedgerInvariant, NEW w \in Worker
  PROVE  Timed(MatchesSeen(w), DOMAIN MatchesSeen(w))
<1>1. \A m \in DOMAIN MatchesSeen(w) : IsMatchRow(MatchesSeen(w)[m])
  BY RowsSeen
<1>2. QED
  BY <1>1, TablesAssumption DEF Timed, IsMatchRow

\* One turn of the loop takes the transaction from t to u: it rates m, the first
\* match left, from the ratings seen, and adds it to the matches done.
Turn(t, u, mt, seen, m) ==
  LET a    == Overlay(mt, t.rows)
      b    == Overlay(mt, u.rows)
      done == Confirmed(a) \ t.todo
  IN  /\ m \in t.todo /\ u.todo = t.todo \ {m} /\ t.todo \subseteq Confirmed(a)
      /\ \A k \in t.todo : k = m \/ ReplayBefore(a, m, k)
      /\ t.op # "submit" /\ u.pc = "writing" /\ u.op = t.op /\ u.target = t.target
      /\ \A k \in DOMAIN t.rows \ {m} : k \in DOMAIN u.rows /\ u.rows[k] = t.rows[k]
      /\ DOMAIN b = DOMAIN a /\ \A k \in DOMAIN a : b[k].place = a[k].place
      /\ \A k, j \in DOMAIN a : ReplayBefore(b, k, j) <=> ReplayBefore(a, k, j)
      /\ b[m].old = [p \in DOMAIN b[m].place |-> seen[p].skill]
      /\ b[m].new = Rate(b[m].old, b[m].place)
      /\ u.ratings = Overlay(t.ratings,
                       RatingsAfterMatch(seen, b[m].place, b[m].new, b[m].playedAt))
      /\ done \in SUBSET MatchId /\ m \in MatchId \ done
      /\ Confirmed(b) \ u.todo = done \cup {m}
      /\ Timed(b, done \cup {m}) /\ SameGames(a, b, done)

LEMMA ReplayTurns ==
  ASSUME LedgerInvariant, NEW w \in Worker, ReplayMatch(w)
  PROVE  /\ tx[w].pc = "writing" /\ UNCHANGED <<matches, rating>>
         /\ \E m : Turn(tx[w], tx'[w], matches, RatingsSeen(w), m)
<1> DEFINE a       == MatchesSeen(w)
           m       == ReplayWrites(w).match
           row     == ReplayWrites(w).row
           ratings == ReplayWrites(w).ratings
           todo    == tx[w].todo
           done    == Confirmed(a) \ todo
           b       == Overlay(a, [x \in {m} |-> row])
<1>1. /\ DOMAIN tx = Worker /\ IsTx(tx[w]) /\ tx[w].pc = "writing" /\ todo # {}
      /\ tx' = [tx EXCEPT ![w].ratings = Overlay(@, ratings),
                          ![w].rows = Overlay(@, [x \in {m} |-> row]),
                          ![w].todo = @ \ {m}]
      /\ matches' = matches /\ rating' = rating
  BY DEF LedgerInvariant, TypeOK, ReplayMatch, tables
<1>2. tx[w].op # "submit"
  BY <1>1 DEF LedgerInvariant, RequestFits, WritesFit, WritesFitEvent
<1>4. m \in todo /\ m \in Confirmed(a)
  BY <1>1, NextIsConfirmed
<1>5. /\ DOMAIN a \subseteq MatchId /\ Timed(a, DOMAIN a)
      /\ \A k \in DOMAIN a : IsMatchRow(a[k])
      /\ todo \subseteq Confirmed(a) /\ Confirmed(a) \subseteq DOMAIN a
  BY <1>1, RowsSeen, RowsTimed DEF Confirmed, LedgerInvariant, RequestFits, WritesFit
<1>6. \A k \in todo : k = m \/ ReplayBefore(a, m, k)
  <2>1. m = FirstOf(a, todo)
    BY DEF ReplayWrites
  <2>2. todo \in SUBSET MatchId /\ \A k \in todo : a[k].playedAt \in Nat /\ a[k].createdAt \in Nat
    BY <1>5 DEF Timed
  <2> HIDE DEF m, a, todo
  <2>3. QED
    BY <1>1, <2>1, <2>2, FirstOfIsFirst
<1>7. /\ row.status = a[m].status /\ row.playedAt = a[m].playedAt
      /\ row.createdAt = a[m].createdAt /\ row.place = a[m].place
      /\ row.old = [p \in DOMAIN row.place |-> RatingsSeen(w)[p].skill]
      /\ row.new = Rate(row.old, row.place)
      /\ ratings = RatingsAfterMatch(RatingsSeen(w), row.place, row.new, row.playedAt)
  <2>1. IsMatchRow(a[m])
    BY <1>4, <1>5
  <2> DEFINE old == [p \in DOMAIN a[m].place |-> RatingsSeen(w)[p].skill]
             new == Rate(old, a[m].place)
  <2>2. /\ ratings = RatingsAfterMatch(RatingsSeen(w), a[m].place, new, a[m].playedAt)
        /\ row = [a[m] EXCEPT !.old = old, !.new = new]
    BY DEF ReplayWrites
  <2> HIDE DEF m, a, row, ratings
  <2>3. /\ row.status = a[m].status /\ row.playedAt = a[m].playedAt
        /\ row.createdAt = a[m].createdAt /\ row.place = a[m].place
        /\ row.old = old /\ row.new = new
    <3> HIDE DEF old, new
    <3>1. QED
      BY <2>1, <2>2 DEF IsMatchRow
  <2>4. QED
    BY <2>2, <2>3
<1> HIDE DEF a, m, row, ratings
<1>8. /\ tx'[w].pc = "writing" /\ tx'[w].op = tx[w].op /\ tx'[w].todo = todo \ {m}
      /\ tx'[w].target = tx[w].target
      /\ tx'[w].ratings = Overlay(tx[w].ratings, ratings)
      /\ tx'[w].rows = Overlay(tx[w].rows, [x \in {m} |-> row])
  BY <1>1 DEF IsTx
<1>9. Overlay(matches, tx'[w].rows) = b /\ a = Overlay(matches, tx[w].rows)
  BY <1>8, OverlayTwice DEF a, MatchesSeen
<1>10. /\ DOMAIN b = DOMAIN a /\ b[m] = row
       /\ \A k \in DOMAIN a \ {m} : b[k] = a[k]
  BY <1>4, <1>5 DEF Overlay
<1> HIDE DEF b
<1>11. /\ Timed(b, DOMAIN a) /\ Confirmed(b) = Confirmed(a)
       /\ \A k, j \in DOMAIN a : ReplayBefore(b, k, j) <=> ReplayBefore(a, k, j)
       /\ \A k \in DOMAIN a : b[k].place = a[k].place
  <2>1. \A k \in DOMAIN a : /\ b[k].playedAt = a[k].playedAt /\ b[k].createdAt = a[k].createdAt
                            /\ b[k].status = a[k].status /\ b[k].place = a[k].place
    BY <1>7, <1>10
  <2>2. Timed(b, DOMAIN a)
    BY <1>5, <2>1 DEF Timed
  <2>3. Confirmed(b) = Confirmed(a)
    BY <1>10, <2>1 DEF Confirmed
  <2>4. \A k, j \in DOMAIN a : ReplayBefore(b, k, j) <=> ReplayBefore(a, k, j)
    BY <2>1 DEF ReplayBefore
  <2>5. QED
    BY <2>1, <2>2, <2>3, <2>4
<1>12. /\ done \in SUBSET MatchId /\ m \in MatchId \ done
       /\ Confirmed(b) \ (todo \ {m}) = done \cup {m}
  BY <1>4, <1>5, <1>11
<1>13. Timed(b, done \cup {m}) /\ SameGames(a, b, done)
  <2>1. done \subseteq DOMAIN a /\ m \in DOMAIN a /\ m \notin done
    BY <1>4, <1>5
  <2>2. QED
    BY <1>10, <1>11, <2>1 DEF Timed, SameGames
<1>14. \A k \in DOMAIN tx[w].rows \ {m} : k \in DOMAIN tx'[w].rows /\ tx'[w].rows[k] = tx[w].rows[k]
  BY <1>8 DEF Overlay
<1>15. Turn(tx[w], tx'[w], matches, RatingsSeen(w), m)
  <2> HIDE DEF done
  <2>1. QED
    BY <1>2, <1>4, <1>5, <1>6, <1>7, <1>8, <1>9, <1>10, <1>11, <1>12, <1>13, <1>14
    DEF Turn, done
<1>16. QED
  BY <1>1, <1>15

\* The first match of those left comes after all done.
LEMMA ReplayFits ==
  ASSUME LedgerInvariant, NEW w \in Worker, Fits(tx[w], rating, matches), ReplayMatch(w)
  PROVE  Fits(tx'[w], rating', matches')
<1>1. PICK m : Turn(tx[w], tx'[w], matches, RatingsSeen(w), m)
  BY ReplayTurns
<1> DEFINE a       == Overlay(matches, tx[w].rows)
           b       == Overlay(matches, tx'[w].rows)
           todo    == tx[w].todo
           done    == Confirmed(a) \ todo
           players == DOMAIN tx[w].ratings
           row     == b[m]
           ratings == RatingsAfterMatch(RatingsSeen(w), row.place, row.new, row.playedAt)
<1>2. /\ tx[w].pc = "writing" /\ tx[w].op # "submit" /\ IsTx(tx[w])
      /\ tx'[w].pc = "writing" /\ tx'[w].op # "submit"
      /\ UNCHANGED <<matches, rating>>
  BY <1>1, ReplayTurns DEF Turn, LedgerInvariant, TypeOK
<1>3. Replayed(tx[w], a)
  BY <1>2 DEF Fits
<1>4. /\ m \in todo /\ todo \subseteq Confirmed(a) /\ tx'[w].todo = todo \ {m}
      /\ \A k \in todo : k = m \/ ReplayBefore(a, m, k)
      /\ DOMAIN b = DOMAIN a /\ \A k \in DOMAIN a : b[k].place = a[k].place
      /\ \A k, j \in DOMAIN a : ReplayBefore(b, k, j) <=> ReplayBefore(a, k, j)
      /\ tx'[w].ratings = Overlay(tx[w].ratings, ratings)
      /\ Confirmed(b) \ tx'[w].todo = done \cup {m}
  BY <1>1 DEF Turn
<1>5. /\ row.old = [p \in DOMAIN row.place |-> RatingsSeen(w)[p].skill]
      /\ row.new = Rate(row.old, row.place)
  BY <1>1 DEF Turn
<1>6. /\ done \in SUBSET MatchId /\ m \in MatchId \ done
      /\ Timed(b, done \cup {m}) /\ SameGames(a, b, done)
  BY <1>1 DEF Turn
<1>7. done \subseteq DOMAIN a /\ todo \subseteq DOMAIN a /\ m \in DOMAIN a
  BY <1>4 DEF Confirmed
<1>8. /\ DOMAIN ratings = DOMAIN row.place
      /\ \A p \in DOMAIN row.place : ratings[p].skill = row.new[p]
  BY DEF RatingsAfterMatch, RatingAfterMatch
<1> HIDE DEF a, b, ratings
<1>9. /\ SnapshotsChain(a, done, Defaults)
      /\ \A p \in players : tx[w].ratings[p].skill = SkillAfter(a, Of(a, done, p), p, DefaultSkill)
      /\ \A k \in DOMAIN a : DOMAIN a[k].place \subseteq players
      /\ \A k \in done, j \in todo : ReplayBefore(a, k, j)
      /\ players \subseteq Player
  BY <1>2, <1>3 DEF Replayed, IsTx, IsTable
<1>10. DOMAIN row.place \subseteq players
  BY <1>4, <1>7, <1>9
<1>11. \A p \in DOMAIN row.place : row.old[p] = SkillAfter(a, Of(a, done, p), p, Defaults[p])
  <2>1. ASSUME NEW p \in DOMAIN row.place
        PROVE  row.old[p] = SkillAfter(a, Of(a, done, p), p, Defaults[p])
    <3>1. row.old[p] = RatingsSeen(w)[p].skill
      BY <1>5
    <3>2. RatingsSeen(w)[p] = tx[w].ratings[p] /\ Defaults[p] = DefaultSkill
      BY <1>9, <1>10 DEF RatingsSeen, Overlay, Defaults
    <3>3. tx[w].ratings[p].skill = SkillAfter(a, Of(a, done, p), p, DefaultSkill)
      BY <1>9, <1>10
    <3>4. QED
      BY <3>1, <3>2, <3>3
  <2>2. QED
    BY <2>1
<1>12. \A k \in done : ReplayBefore(b, k, m)
  BY <1>4, <1>7, <1>9
<1> HIDE DEF done
<1>13. HasLastWord(a, b, done, m, Defaults)
  <2>1. PlayedOnTop(a, b, done, m, Defaults)
    BY <1>5, <1>6, <1>9, <1>11, <1>12 DEF PlayedOnTop
  <2>2. QED
    BY <1>6, <2>1, PlayedLast
<1>14. Replayed(tx'[w], b)
  <2>1. /\ DOMAIN tx'[w].ratings = players
        /\ \A p \in DOMAIN row.place : tx'[w].ratings[p] = ratings[p]
        /\ \A p \in players \ DOMAIN row.place : tx'[w].ratings[p] = tx[w].ratings[p]
    BY <1>4, <1>8, <1>10 DEF Overlay
  <2>2. ASSUME NEW p \in players
        PROVE  tx'[w].ratings[p].skill = SkillAfter(b, Of(b, done \cup {m}, p), p, DefaultSkill)
    <3>1. CASE p \in DOMAIN row.place
      <4>1. SkillAfter(b, Of(b, done \cup {m}, p), p, DefaultSkill) = row.new[p]
        BY <1>13, <3>1 DEF HasLastWord
      <4>2. QED
        BY <1>8, <2>1, <3>1, <4>1
    <3>2. CASE p \notin DOMAIN row.place
      <4>1. SkillAfter(b, Of(b, done \cup {m}, p), p, DefaultSkill)
              = SkillAfter(a, Of(a, done, p), p, DefaultSkill)
        BY <1>13, <3>2 DEF HasLastWord
      <4>2. QED
        BY <1>9, <2>1, <3>2, <4>1
    <3>3. QED
      BY <3>1, <3>2
  <2>3. \A k \in DOMAIN b : DOMAIN b[k].place \subseteq DOMAIN tx'[w].ratings
    BY <1>4, <1>9, <2>1
  <2>4. \A k \in done \cup {m}, j \in todo \ {m} : ReplayBefore(b, k, j)
    BY <1>4, <1>7, <1>9
  <2>5. QED
    BY <1>4, <1>13, <2>1, <2>2, <2>3, <2>4 DEF Replayed, HasLastWord
<1>15. QED
  BY <1>2, <1>14 DEF Fits, b

-----------------------------------------------------------------------------
(* The invariant *)

LEMMA WorksFit ==
  ASSUME LedgerInvariant, LedgerInvariant', NEW w \in Worker, Fits(tx[w], rating, matches),
         Works(w)
  PROVE  Fits(tx'[w], rating', matches')
<1>1. CASE LoadAndValidate(w)
  BY <1>1, LoadFits
<1>2. CASE SubmitWrite(w)
  BY <1>2, SubmitFits
<1>3. ASSUME VoidWrite(w) \/ CorrectWrite(w) \/ RecalculateWrite(w)
      PROVE  tx[w].op # "submit" /\ \E rows, event : StartReplay(w, rows, event)
  BY <1>3 DEF VoidWrite, CorrectWrite, RecalculateWrite
<1>4. CASE VoidWrite(w) \/ CorrectWrite(w) \/ RecalculateWrite(w)
  BY <1>3, <1>4, StartFits
<1>5. CASE ReplayMatch(w)
  BY <1>5, ReplayFits
<1>6. QED
  BY <1>1, <1>2, <1>4, <1>5 DEF Works

\* Whoever is not past the lock has nothing pending.
LEMMA OnlyHolderPending ==
  ASSUME LedgerInvariant, NEW w \in Worker, Publish(w), NEW v \in Worker \ {w}
  PROVE  tx[v].pc \notin {"loaded", "writing"}
BY DEF LedgerInvariant, LockGuardsTransaction, Publish

LEMMA DerivationStep == DerivationInvariant /\ [Next]_vars => DerivationInvariant'
<1> SUFFICES ASSUME DerivationInvariant, [Next]_vars PROVE DerivationInvariant'
  OBVIOUS
<1>1. LedgerInvariant /\ LedgerInvariant' /\ \A v \in Worker : Fits(tx[v], rating, matches)
  BY NextPreserves DEF DerivationInvariant
<1> SUFFICES ASSUME NEW v \in Worker PROVE Fits(tx'[v], rating', matches')
  BY <1>1 DEF DerivationInvariant
<1>2. ASSUME tx'[v].pc \notin {"loaded", "writing"} PROVE Fits(tx'[v], rating', matches')
  BY <1>2 DEF Fits
<1>3. ASSUME NEW w \in Worker, Works(w) PROVE Fits(tx'[v], rating', matches')
  <2>1. CASE w = v
    BY <1>1, <1>3, <2>1, WorksFit
  <2>2. CASE w # v
    <3>1. UNCHANGED <<matches, rating>> /\ tx'[v] = tx[v]
      BY <1>1, <1>3, <2>2, WorksAlone
    <3>2. QED
      BY <1>1, <3>1, StaysFit
  <2>3. QED
    BY <2>1, <2>2
<1>4. ASSUME NEW w \in Worker, Request(w) \/ AcquireLock(w) \/ Advance(w) \/ Fails(w), ~Works(w)
      PROVE  Fits(tx'[v], rating', matches')
  <2>1. /\ tx'[w].pc \notin {"loaded", "writing"}
        /\ \A u \in Worker \ {w} : tx'[u] = tx[u]
        /\ UNCHANGED <<matches, rating>> \/ Publish(w)
    BY <1>1, <1>4, OtherSteps
  <2>2. CASE w = v
    BY <1>2, <2>1, <2>2
  <2>3. CASE w # v /\ Publish(w)
    <3>1. tx'[v].pc \notin {"loaded", "writing"}
      BY <1>1, <2>1, <2>3, OnlyHolderPending
    <3>2. QED
      BY <1>2, <3>1
  <2>4. CASE w # v /\ UNCHANGED <<matches, rating>>
    BY <1>1, <2>1, <2>4, StaysFit
  <2>5. QED
    BY <2>1, <2>2, <2>3, <2>4
<1>5. ASSUME NEW p \in Player, CreatePlayer(p) PROVE Fits(tx'[v], rating', matches')
  <2>1. UNCHANGED <<matches, tx>> /\ \A q \in DOMAIN rating : rating'[q] = rating[q]
    BY <1>5 DEF CreatePlayer, Overlay
  <2>2. QED
    BY <1>1, <2>1, StaysFit
<1>6. CASE (\E p \in Player : SetActive(p)) \/ Tick \/ UNCHANGED vars
  <2>1. UNCHANGED <<matches, rating, tx>>
    BY <1>6 DEF SetActive, Tick, vars, tables
  <2>2. QED
    BY <1>1, <2>1, StaysFit
<1>7. QED
  BY <1>3, <1>4, <1>5, <1>6 DEF Next

LEMMA DerivationHolds == Spec => []DerivationInvariant
<1>1. Init => DerivationInvariant
  BY InitHolds DEF Init, DerivationInvariant, Fits, IdleTx
<1>2. QED
  BY <1>1, DerivationStep, PTL DEF Spec

-----------------------------------------------------------------------------
(* What becomes of derived ratings *)

\* A new player starts from the column defaults.
LEMMA CreationKeepsDerived ==
  ASSUME LedgerInvariant, NEW p \in Player, CreatePlayer(p), Derived(matches, rating)
  PROVE  Derived(matches', rating')
<1>1. PICK start \in [DOMAIN rating -> {InsertSkill, DefaultSkill}] :
        DerivedFrom(matches, rating, start)
  BY DEF Derived
<1> DEFINE next == [q \in DOMAIN rating' |-> IF q = p THEN InsertSkill ELSE start[q]]
<1>2. /\ matches' = matches /\ p \notin DOMAIN rating
      /\ DOMAIN rating' = DOMAIN rating \cup {p}
      /\ rating'[p] = FreshRating(InsertSkill)
      /\ \A q \in DOMAIN rating : rating'[q] = rating[q]
  BY DEF CreatePlayer, Overlay
<1>3. /\ next \in [DOMAIN rating' -> {InsertSkill, DefaultSkill}]
      /\ next[p] = InsertSkill /\ \A q \in DOMAIN rating : next[q] = start[q]
  BY <1>2
<1> HIDE DEF next
<1>4. \A m \in Confirmed(matches) : DOMAIN matches[m].place \subseteq DOMAIN rating
  BY DEF LedgerInvariant, PlayersExist, Confirmed
<1>5. SnapshotsChain(matches, Confirmed(matches), start)
      /\ \A q \in DOMAIN rating :
           rating[q].skill = SkillAfter(matches, Of(matches, Confirmed(matches), q), q, start[q])
  BY <1>1 DEF DerivedFrom
<1>6. SnapshotsChain(matches, Confirmed(matches), next)
  BY <1>3, <1>4, <1>5 DEF SnapshotsChain
<1>7. Of(matches, Confirmed(matches), p) = {}
  BY <1>2, <1>4 DEF Of
<1>8. \A q \in DOMAIN rating' :
        rating'[q].skill = SkillAfter(matches, Of(matches, Confirmed(matches), q), q, next[q])
  <2>1. rating'[p].skill = SkillAfter(matches, Of(matches, Confirmed(matches), p), p, next[p])
    BY <1>2, <1>3, <1>7 DEF FreshRating, SkillAfter
  <2>2. QED
    BY <1>2, <1>3, <1>5, <2>1
<1>9. DerivedFrom(matches', rating', next)
  BY <1>2, <1>6, <1>8 DEF DerivedFrom
<1>10. QED
  BY <1>3, <1>9 DEF Derived

\* The commit of a submission t takes the tables from ms and rt to ms1 and rt1: it
\* adds the match m, and changes the ratings of those who played it.
Submits(t, m, ms, ms1, rt, rt1) ==
  LET S == Confirmed(ms)
  IN  /\ m \notin DOMAIN ms /\ DOMAIN t.rows = {m} /\ ms1[m] = t.rows[m]
      /\ ms1[m].status = "confirmed" /\ ms1[m].correctedFrom = NoMatch
      /\ DOMAIN ms1 = DOMAIN ms \cup {m} /\ \A k \in DOMAIN ms : ms1[k] = ms[k]
      /\ DOMAIN rt1 = DOMAIN rt /\ DOMAIN ms1[m].place \subseteq DOMAIN rt
      /\ \A p \in DOMAIN ms1[m].place : rt1[p] = t.ratings[p]
      /\ \A p \in DOMAIN rt \ DOMAIN ms1[m].place : rt1[p] = rt[p]
      /\ S \in SUBSET MatchId /\ m \in MatchId \ S /\ Confirmed(ms1) = S \cup {m}
      /\ Timed(ms1, S \cup {m}) /\ SameGames(ms, ms1, S)

LEMMA SubmissionCommits ==
  ASSUME LedgerInvariant, LedgerInvariant', NEW w \in Worker, Fits(tx[w], rating, matches),
         Publish(w), tx[w].op = "submit"
  PROVE  \E m : Submits(tx[w], m, matches, matches', rating, rating')
<1>1. PICK m \in MatchId :
        /\ m \notin DOMAIN matches /\ DOMAIN tx[w].rows = {m}
        /\ tx[w].rows[m].status = "confirmed" /\ tx[w].rows[m].correctedFrom = NoMatch
  BY DEF LedgerInvariant, RequestFits, WritesFit, WritesFitEvent, Inserts, Publish
<1> DEFINE row     == tx[w].rows[m]
           S       == Confirmed(matches)
           players == DOMAIN row.place
<1>2. DOMAIN tx[w].ratings = players /\ players \subseteq DOMAIN rating
  BY <1>1 DEF Publish, Fits, Submitted, LedgerInvariant, RequestFits, PlayersKnown
<1>3. /\ DOMAIN matches' = DOMAIN matches \cup {m} /\ matches'[m] = row
      /\ \A k \in DOMAIN matches : matches'[k] = matches[k]
      /\ DOMAIN rating' = DOMAIN rating
      /\ \A p \in players : rating'[p] = tx[w].ratings[p]
      /\ \A p \in DOMAIN rating \ players : rating'[p] = rating[p]
  BY <1>1, <1>2 DEF Publish, Overlay
<1>4. Confirmed(matches') = S \cup {m} /\ m \notin S /\ S \subseteq DOMAIN matches
  BY <1>1, <1>3 DEF Confirmed
<1>5. /\ S \in SUBSET MatchId /\ m \in MatchId \ S /\ Timed(matches', S \cup {m})
      /\ SameGames(matches, matches', S)
  <2>1. /\ DOMAIN matches' \subseteq MatchId
        /\ \A k \in DOMAIN matches' : IsMatchRow(matches'[k])
    BY DEF LedgerInvariant, TypeOK
  <2>2. Timed(matches', DOMAIN matches')
    BY <2>1, TablesAssumption DEF Timed, IsMatchRow
  <2>3. QED
    BY <1>3, <1>4, <2>1, <2>2 DEF Timed, SameGames
<1> HIDE DEF S
<1>6. Submits(tx[w], m, matches, matches', rating, rating')
  BY <1>1, <1>2, <1>3, <1>4, <1>5 DEF Submits, S
<1>7. QED
  BY <1>6

\* The commit of a submission in order: its match is the last of its players.
LEMMA SubmissionKeepsDerived ==
  ASSUME LedgerInvariant, LedgerInvariant', NEW w \in Worker, Fits(tx[w], rating, matches),
         Publish(w), tx[w].op = "submit", Derived(matches, rating), ~OutOfOrderSubmit
  PROVE  Derived(matches', rating')
<1>1. PICK start \in [DOMAIN rating -> {InsertSkill, DefaultSkill}] :
        DerivedFrom(matches, rating, start)
  BY DEF Derived
<1>2. PICK m : Submits(tx[w], m, matches, matches', rating, rating')
  BY SubmissionCommits
<1> DEFINE row     == tx[w].rows[m]
           S       == Confirmed(matches)
           players == DOMAIN row.place
<1>3. m \in DOMAIN tx[w].rows
  BY <1>2 DEF Submits
<1>4. /\ \A p \in players : row.old[p] = rating[p].skill
      /\ row.new = Rate(row.old, row.place)
      /\ \A p \in players : tx[w].ratings[p].skill = row.new[p]
  BY <1>3 DEF Publish, Fits, Submitted
<1>5. /\ m \notin DOMAIN matches /\ m \in DOMAIN matches'
      /\ matches'[m] = row /\ row.correctedFrom = NoMatch
      /\ S \subseteq DOMAIN matches /\ \A k \in DOMAIN matches : matches'[k] = matches[k]
      /\ DOMAIN rating' = DOMAIN rating /\ players \subseteq DOMAIN rating
      /\ \A p \in players : rating'[p] = tx[w].ratings[p]
      /\ \A p \in DOMAIN rating \ players : rating'[p] = rating[p]
  BY <1>2 DEF Submits, Confirmed
<1>6. /\ S \in SUBSET MatchId /\ m \in MatchId \ S /\ Timed(matches', S \cup {m})
      /\ SameGames(matches, matches', S) /\ Confirmed(matches') = S \cup {m}
  BY <1>2 DEF Submits
<1>7. ASSUME NEW k \in S, DOMAIN matches'[k].place \cap DOMAIN matches'[m].place # {}
      PROVE  ReplayBefore(matches', k, m)
  <2>1. m \in DOMAIN matches' \ DOMAIN matches /\ matches'[m].correctedFrom = NoMatch
    BY <1>5
  <2>2. DOMAIN matches'[m].place \cap DOMAIN matches[k].place # {}
    BY <1>5, <1>7
  <2>3. ~ReplayBefore(matches', m, k)
    BY <2>1, <2>2 DEF OutOfOrderSubmit
  <2>4. k # m /\ k \in S \cup {m} /\ m \in S \cup {m} /\ S \cup {m} \in SUBSET MatchId
    BY <1>6
  <2>5. QED
    BY <1>6, <2>3, <2>4, BeforeIsOrder
<1>8. /\ SnapshotsChain(matches, S, start)
      /\ \A p \in DOMAIN rating : rating[p].skill = SkillAfter(matches, Of(matches, S, p), p, start[p])
  BY <1>1 DEF DerivedFrom
<1>9. \A p \in DOMAIN matches'[m].place :
        matches'[m].old[p] = SkillAfter(matches, Of(matches, S, p), p, start[p])
  BY <1>4, <1>5, <1>8
<1>10. matches'[m].new = Rate(matches'[m].old, matches'[m].place)
  BY <1>4, <1>5
<1> HIDE DEF S, row
<1>11. HasLastWord(matches, matches', S, m, start)
  <2>1. PlayedOnTop(matches, matches', S, m, start)
    BY <1>6, <1>7, <1>8, <1>9, <1>10 DEF PlayedOnTop
  <2>2. QED
    BY <1>6, <2>1, PlayedLast
<1>12. \A p \in DOMAIN rating' :
         rating'[p].skill = SkillAfter(matches', Of(matches', Confirmed(matches'), p), p, start[p])
  <2>1. ASSUME NEW p \in players
        PROVE  rating'[p].skill = SkillAfter(matches', Of(matches', S \cup {m}, p), p, start[p])
    <3>1. p \in DOMAIN matches'[m].place /\ row.new[p] = matches'[m].new[p]
      BY <1>5
    <3>2. SkillAfter(matches', Of(matches', S \cup {m}, p), p, start[p]) = matches'[m].new[p]
      BY <1>11, <3>1 DEF HasLastWord
    <3>3. QED
      BY <1>4, <1>5, <3>1, <3>2
  <2>2. ASSUME NEW p \in DOMAIN rating \ players
        PROVE  rating'[p].skill = SkillAfter(matches', Of(matches', S \cup {m}, p), p, start[p])
    <3>1. SkillAfter(matches', Of(matches', S \cup {m}, p), p, start[p])
            = SkillAfter(matches, Of(matches, S, p), p, start[p])
      BY <1>5, <1>11 DEF HasLastWord
    <3>2. QED
      BY <1>5, <1>8, <3>1
  <2>3. QED
    BY <1>5, <1>6, <2>1, <2>2
<1>13. DerivedFrom(matches', rating', start)
  BY <1>6, <1>11, <1>12 DEF DerivedFrom, HasLastWord
<1>14. QED
  BY <1>1, <1>5, <1>13 DEF Derived

\* The commit of a replay: everybody it has reset starts from the default, and
\* who was created meanwhile has played nothing.
LEMMA ReplayKeepsDerived ==
  ASSUME LedgerInvariant, LedgerInvariant', NEW w \in Worker, Fits(tx[w], rating, matches),
         Publish(w), tx[w].op # "submit", Derived(matches, rating)
  PROVE  Derived(matches', rating')
<1>1. PICK start \in [DOMAIN rating -> {InsertSkill, DefaultSkill}] :
        DerivedFrom(matches, rating, start)
  BY DEF Derived
<1> DEFINE S       == Confirmed(matches')
           players == DOMAIN tx[w].ratings
           next == [q \in DOMAIN rating' |-> IF q \in players THEN DefaultSkill ELSE start[q]]
<1>2. /\ tx[w].pc = "writing" /\ tx[w].todo = {}
      /\ matches' = Overlay(matches, tx[w].rows) /\ rating' = Overlay(rating, tx[w].ratings)
  BY DEF Publish
<1>3. players \subseteq DOMAIN rating /\ players \subseteq Player
  BY DEF LedgerInvariant, TypeOK, IsTx, IsTable, RequestFits, PlayersKnown
<1>4. /\ DOMAIN rating' = DOMAIN rating
      /\ \A p \in players : rating'[p] = tx[w].ratings[p]
      /\ \A p \in DOMAIN rating \ players : rating'[p] = rating[p]
  BY <1>2, <1>3 DEF Overlay
<1>5. Replayed(tx[w], matches') /\ S \ tx[w].todo = S
  BY <1>2 DEF Fits
<1>6. /\ SnapshotsChain(matches', S, Defaults)
      /\ \A m \in DOMAIN matches' : DOMAIN matches'[m].place \subseteq players
      /\ \A p \in players : tx[w].ratings[p].skill = SkillAfter(matches', Of(matches', S, p), p, DefaultSkill)
  BY <1>5 DEF Replayed
<1>7. /\ next \in [DOMAIN rating' -> {InsertSkill, DefaultSkill}]
      /\ \A p \in players : next[p] = DefaultSkill /\ Defaults[p] = DefaultSkill
      /\ \A p \in DOMAIN rating \ players : next[p] = start[p]
  BY <1>3, <1>4 DEF Defaults
<1> HIDE DEF next
<1>8. SnapshotsChain(matches', S, next)
  <2>1. S \subseteq DOMAIN matches'
    BY DEF Confirmed
  <2>2. QED
    BY <1>6, <1>7, <2>1 DEF SnapshotsChain
<1>9. ASSUME NEW p \in DOMAIN rating \ players
      PROVE  rating'[p].skill = SkillAfter(matches', Of(matches', S, p), p, next[p])
  <2>1. Of(matches', S, p) = {}
    BY <1>6 DEF Of, Confirmed
  <2>2. Of(matches, Confirmed(matches), p) = {}
    <3>1. ASSUME NEW m \in DOMAIN matches PROVE p \notin DOMAIN matches[m].place
      <4>1. m \in DOMAIN matches' /\ SameMatch(matches'[m], matches[m])
        BY CommitKeepsRows
      <4>2. QED
        BY <1>6, <4>1 DEF SameMatch
    <3>2. QED
      BY <3>1 DEF Of, Confirmed
  <2>3. rating[p].skill = SkillAfter(matches, Of(matches, Confirmed(matches), p), p, start[p])
    BY <1>1 DEF DerivedFrom
  <2>4. QED
    BY <1>4, <1>7, <2>1, <2>2, <2>3 DEF SkillAfter
<1>10. \A p \in DOMAIN rating' :
         rating'[p].skill = SkillAfter(matches', Of(matches', S, p), p, next[p])
  BY <1>4, <1>6, <1>7, <1>9
<1>11. DerivedFrom(matches', rating', next)
  BY <1>8, <1>10 DEF DerivedFrom
<1>12. QED
  BY <1>7, <1>11 DEF Derived

\* Which steps change what derivation is about.
LEMMA TableSteps ==
  ASSUME LedgerInvariant, [Next]_vars
  PROVE  \/ UNCHANGED <<matches, rating>>
         \/ \E p \in Player : CreatePlayer(p)
         \/ \E w \in Worker : Publish(w)
<1>1. ASSUME NEW w \in Worker, Request(w) \/ AcquireLock(w) \/ Advance(w) \/ Fails(w)
      PROVE  UNCHANGED <<matches, rating>> \/ Publish(w)
  BY <1>1, WorksAlone, OtherSteps
<1>2. (\E p \in Player : SetActive(p)) \/ Tick \/ UNCHANGED vars => UNCHANGED <<matches, rating>>
  BY DEF SetActive, Tick, vars, tables
<1>3. QED
  BY <1>1, <1>2 DEF Next

\* Ratings and snapshots that are what a replay of the confirmed matches gives
\* stay so, whatever is voided, corrected, recalculated, created or fails, unless
\* submit_match records a match that comes before one of the same players.
THEOREM OnlyOutOfOrderBreaks == Spec => OnlyOutOfOrderSubmitBreaksDerivation
<1>1. ASSUME DerivationInvariant, [Next]_vars, <<matches, rating>>' # <<matches, rating>>,
             Derived(matches, rating)
      PROVE  Derived(matches', rating') \/ OutOfOrderSubmit
  <2>1. LedgerInvariant /\ LedgerInvariant' /\ \A w \in Worker : Fits(tx[w], rating, matches)
    BY <1>1, NextPreserves DEF DerivationInvariant
  <2>2. CASE \E p \in Player : CreatePlayer(p)
    BY <1>1, <2>1, <2>2, CreationKeepsDerived
  <2>3. CASE \E w \in Worker : Publish(w)
    BY <1>1, <2>1, <2>3, SubmissionKeepsDerived, ReplayKeepsDerived
  <2>4. QED
    BY <1>1, <2>1, <2>2, <2>3, TableSteps
<1>2. QED
  BY <1>1, DerivationHolds, PTL DEF Spec, OnlyOutOfOrderSubmitBreaksDerivation

-----------------------------------------------------------------------------
(* The sum of the places of a player *)

Pick(s) == CHOOSE x \in s : TRUE

\* it maps every subset of S to the sum of p's places in it.
IsSum(it, ms, S, p) ==
  it = [s \in SUBSET S |-> IF s = {} THEN 0 ELSE ms[Pick(s)].place[p] + it[s \ {Pick(s)}]]

PlaceSum(ms, S, p) == (CHOOSE it : IsSum(it, ms, S, p))[S]

LEMMA TotalIsPlaceSum ==
  ASSUME NEW ms, NEW S, NEW p
  PROVE  MapThenSumSet(LAMBDA m : ms[m].place[p], S) = PlaceSum(ms, S, p)
BY DEF MapThenSumSet, MapThenFoldSet, PlaceSum, IsSum, Pick

LEMMA OneLess ==
  ASSUME NEW S \in SUBSET MatchId, NEW x \in S
  PROVE  Cardinality(S \ {x}) = Cardinality(S) - 1
BY TablesAssumption, FS_Subset, FS_RemoveElement

\* Induction over the subsets of S: if each counterexample becomes another one
\* when some match is taken out of it, there is none.
LEMMA NoSmallest ==
  ASSUME NEW S \in SUBSET MatchId, NEW Bad \in SUBSET (SUBSET S),
         \A T \in Bad : \E x \in T : T \ {x} \in Bad
  PROVE  Bad = {}
<1> SUFFICES ASSUME Bad # {} PROVE FALSE
  OBVIOUS
<1>1. \A T \in SUBSET S : IsFiniteSet(T) /\ Cardinality(T) \in Nat
  BY TablesAssumption, FS_Subset, FS_CardinalityType
<1>2. PICK n \in {Cardinality(T) : T \in Bad} : \A k \in {Cardinality(T) : T \in Bad} : n <= k
  <2>1. {Cardinality(T) : T \in Bad} \in SUBSET Nat /\ {Cardinality(T) : T \in Bad} # {}
    BY <1>1
  <2>2. QED
    BY <2>1, LeastNatural
<1>3. PICK T \in Bad : n = Cardinality(T)
  BY <1>2
<1>4. PICK U \in Bad : Cardinality(U) = Cardinality(T) - 1
  <2>1. PICK x \in T : T \ {x} \in Bad
    BY <1>3
  <2>2. QED
    BY <2>1, OneLess
<1>5. Cardinality(U) \in Nat /\ Cardinality(T) \in Nat /\ n <= Cardinality(U)
  BY <1>1, <1>2
<1>6. QED
  BY <1>3, <1>4, <1>5

LEMMA PickIsIn == \A s : s # {} => Pick(s) \in s
BY DEF Pick

\* Two sums agree where both are defined.
LEMMA SumsAgree ==
  ASSUME NEW ms, NEW p, NEW S \in SUBSET MatchId, NEW T \in SUBSET MatchId,
         NEW f, NEW g, IsSum(f, ms, S, p), IsSum(g, ms, T, p), NEW U \in SUBSET (S \cap T)
  PROVE  f[U] = g[U]
<1> DEFINE Bad == {V \in SUBSET (S \cap T) : f[V] # g[V]}
<1>1. ASSUME NEW V \in SUBSET (S \cap T), V # {}
      PROVE  /\ f[V] = ms[Pick(V)].place[p] + f[V \ {Pick(V)}]
             /\ g[V] = ms[Pick(V)].place[p] + g[V \ {Pick(V)}]
  <2>1. V \in SUBSET S /\ V \in SUBSET T
    OBVIOUS
  <2>2. QED
    BY <1>1, <2>1 DEF IsSum
<1>2. ASSUME NEW V \in Bad
      PROVE  V # {} /\ V \ {Pick(V)} \in Bad
  <2>1. V # {}
    <3>1. f[{}] = 0 /\ g[{}] = 0
      BY DEF IsSum
    <3>2. QED
      BY <3>1
  <2>2. f[V \ {Pick(V)}] # g[V \ {Pick(V)}]
    BY <1>1, <2>1
  <2>3. QED
    BY <2>1, <2>2
<1>3. \A V \in Bad : \E x \in V : V \ {x} \in Bad
  BY <1>2, PickIsIn
<1> HIDE DEF Bad
<1>4. Bad = {}
  <2>1. Bad \in SUBSET (SUBSET (S \cap T)) /\ S \cap T \in SUBSET MatchId
    BY DEF Bad
  <2>2. QED
    BY <1>3, <2>1, NoSmallest
<1>5. QED
  BY <1>4 DEF Bad

\* A sum of a set holds the sums of its subsets.
LEMMA SumRestricts ==
  ASSUME NEW ms, NEW p, NEW S, NEW T \in SUBSET S, NEW f, IsSum(f, ms, S, p)
  PROVE  \E g : IsSum(g, ms, T, p)
<1> DEFINE g == [s \in SUBSET T |-> f[s]]
<1>1. ASSUME NEW s \in SUBSET T
      PROVE  g[s] = IF s = {} THEN 0 ELSE ms[Pick(s)].place[p] + g[s \ {Pick(s)}]
  <2>1. s \in SUBSET S /\ s \ {Pick(s)} \in SUBSET T
    OBVIOUS
  <2>2. f[s] = IF s = {} THEN 0 ELSE ms[Pick(s)].place[p] + f[s \ {Pick(s)}]
    BY <2>1 DEF IsSum
  <2>3. QED
    BY <2>1, <2>2
<1>2. g = [s \in SUBSET T |-> g[s]]
  OBVIOUS
<1> HIDE DEF g
<1>3. IsSum(g, ms, T, p)
  BY <1>1, <1>2 DEF IsSum
<1>4. QED
  BY <1>3

\* What the recursion of a sum says, given that the sums are there.
LEMMA SumUnfolds ==
  ASSUME NEW ms, NEW p, NEW S \in SUBSET MatchId,
         \A T \in SUBSET S : \E f : IsSum(f, ms, T, p)
  PROVE  PlaceSum(ms, S, p)
           = IF S = {} THEN 0 ELSE ms[Pick(S)].place[p] + PlaceSum(ms, S \ {Pick(S)}, p)
<1> DEFINE f == CHOOSE it : IsSum(it, ms, S, p)
           U == S \ {Pick(S)}
           g == CHOOSE it : IsSum(it, ms, U, p)
<1>1. IsSum(f, ms, S, p)
  OBVIOUS
<1>2. IsSum(g, ms, U, p)
  OBVIOUS
<1>3. PlaceSum(ms, S, p) = f[S] /\ PlaceSum(ms, U, p) = g[U]
  BY DEF PlaceSum
<1> HIDE DEF f, g
<1>4. f[S] = IF S = {} THEN 0 ELSE ms[Pick(S)].place[p] + f[U]
  BY <1>1 DEF IsSum
<1>5. f[U] = g[U]
  <2>1. U \in SUBSET MatchId /\ U \in SUBSET (S \cap U)
    OBVIOUS
  <2> HIDE DEF U
  <2>2. QED
    BY <1>1, <1>2, <2>1, SumsAgree
<1>6. QED
  BY <1>3, <1>4, <1>5

\* Every set of matches has its sums.
LEMMA SumExists ==
  ASSUME NEW ms, NEW p, NEW S \in SUBSET MatchId
  PROVE  \E f : IsSum(f, ms, S, p)
<1> DEFINE Bad == {T \in SUBSET S : ~\E f : IsSum(f, ms, T, p)}
<1>1. ASSUME NEW T \in SUBSET S, \A x \in T : T \ {x} \notin Bad
      PROVE  \E f : IsSum(f, ms, T, p)
  <2> DEFINE f == [s \in SUBSET T |->
                     IF s = {} THEN 0
                     ELSE ms[Pick(s)].place[p] + PlaceSum(ms, s \ {Pick(s)}, p)]
  <2>1. ASSUME NEW U \in SUBSET T, U # T PROVE \E g : IsSum(g, ms, U, p)
    <3>1. PICK x \in T : x \notin U
      BY <2>1
    <3>2. \E g : IsSum(g, ms, T \ {x}, p)
      BY <1>1
    <3>3. U \in SUBSET (T \ {x})
      BY <3>1
    <3>4. QED
      BY <3>2, <3>3, SumRestricts
  <2>2. ASSUME NEW U \in SUBSET T, U # T PROVE PlaceSum(ms, U, p) = f[U]
    <3>1. U \in SUBSET MatchId /\ \A V \in SUBSET U : \E g : IsSum(g, ms, V, p)
      BY <2>1, <2>2
    <3>2. QED
      BY <3>1, SumUnfolds
  <2>3. ASSUME NEW s \in SUBSET T
        PROVE  f[s] = IF s = {} THEN 0 ELSE ms[Pick(s)].place[p] + f[s \ {Pick(s)}]
    <3>1. CASE s = {}
      BY <3>1
    <3>2. CASE s # {}
      <4>1. s \ {Pick(s)} \in SUBSET T /\ s \ {Pick(s)} # T
        BY <3>2, PickIsIn
      <4>2. PlaceSum(ms, s \ {Pick(s)}, p) = f[s \ {Pick(s)}]
        BY <2>2, <4>1
      <4>3. QED
        BY <3>2, <4>2
    <3>3. QED
      BY <3>1, <3>2
  <2>4. f = [s \in SUBSET T |-> f[s]]
    OBVIOUS
  <2> HIDE DEF f
  <2>5. IsSum(f, ms, T, p)
    BY <2>3, <2>4 DEF IsSum
  <2>6. QED
    BY <2>5
<1>2. \A T \in Bad : \E x \in T : T \ {x} \in Bad
  BY <1>1
<1> HIDE DEF Bad
<1>3. Bad = {}
  <2>1. Bad \in SUBSET (SUBSET S)
    BY DEF Bad
  <2>2. QED
    BY <1>2, <2>1, NoSmallest
<1>4. QED
  BY <1>3 DEF Bad

\* p has a place in each of the matches S.
Placed(ms, S, p) == \A m \in S : ms[m].place[p] \in Nat

LEMMA SumOfPick ==
  ASSUME NEW ms, NEW p, NEW S \in SUBSET MatchId
  PROVE  PlaceSum(ms, S, p)
           = IF S = {} THEN 0 ELSE ms[Pick(S)].place[p] + PlaceSum(ms, S \ {Pick(S)}, p)
<1>1. \A T \in SUBSET S : \E f : IsSum(f, ms, T, p)
  BY SumExists
<1>2. QED
  BY <1>1, SumUnfolds

LEMMA SumIsNat ==
  ASSUME NEW ms, NEW p, NEW S \in SUBSET MatchId, Placed(ms, S, p)
  PROVE  PlaceSum(ms, S, p) \in Nat
<1> DEFINE Bad == {T \in SUBSET S : PlaceSum(ms, T, p) \notin Nat}
<1>1. ASSUME NEW T \in Bad PROVE \E x \in T : T \ {x} \in Bad
  <2>1. PlaceSum(ms, T, p)
          = IF T = {} THEN 0 ELSE ms[Pick(T)].place[p] + PlaceSum(ms, T \ {Pick(T)}, p)
    BY SumOfPick
  <2>2. T # {} /\ Pick(T) \in T
    BY <2>1, PickIsIn
  <2>3. ms[Pick(T)].place[p] \in Nat
    BY <2>2 DEF Placed
  <2>4. T \ {Pick(T)} \in Bad
    <3>1. ASSUME PlaceSum(ms, T \ {Pick(T)}, p) \in Nat PROVE FALSE
      BY <2>1, <2>2, <2>3, <3>1
    <3>2. QED
      BY <3>1
  <2>5. QED
    BY <2>2, <2>4
<1>2. Bad = {}
  <2>1. Bad \in SUBSET (SUBSET S)
    OBVIOUS
  <2> HIDE DEF Bad
  <2>2. QED
    BY <1>1, <2>1, NoSmallest
<1>3. QED
  BY <1>2

\* Any match may be taken out of a sum first.
LEMMA SumOfAny ==
  ASSUME NEW ms, NEW p, NEW S \in SUBSET MatchId, Placed(ms, S, p), NEW x \in S
  PROVE  PlaceSum(ms, S, p) = ms[x].place[p] + PlaceSum(ms, S \ {x}, p)
<1> DEFINE Splits(T, y) == PlaceSum(ms, T, p) = ms[y].place[p] + PlaceSum(ms, T \ {y}, p)
           Bad == {T \in SUBSET S : \E y \in T : ~Splits(T, y)}
<1>1. ASSUME NEW T \in Bad PROVE \E y \in T : T \ {y} \in Bad
  <2>1. PICK y \in T : ~Splits(T, y)
    OBVIOUS
  <2> DEFINE z == Pick(T)
  <2>2. Splits(T, z) /\ z \in T /\ z # y
    BY <2>1, SumOfPick, PickIsIn
  <2>3. /\ ms[y].place[p] \in Nat /\ ms[z].place[p] \in Nat
        /\ PlaceSum(ms, (T \ {y}) \ {z}, p) \in Nat
    <3>1. (T \ {y}) \ {z} \in SUBSET MatchId /\ Placed(ms, (T \ {y}) \ {z}, p)
      BY DEF Placed
    <3>2. QED
      BY <2>1, <2>2, <3>1, SumIsNat DEF Placed
  <2>4. (T \ {y}) \ {z} = (T \ {z}) \ {y}
    OBVIOUS
  <2>5. ~(Splits(T \ {z}, y) /\ Splits(T \ {y}, z))
    <3> DEFINE rest == PlaceSum(ms, (T \ {y}) \ {z}, p)
               vy == ms[y].place[p]
               vz == ms[z].place[p]
    <3>1. ASSUME Splits(T \ {z}, y), Splits(T \ {y}, z) PROVE Splits(T, y)
      <4>1. PlaceSum(ms, T, p) = vz + PlaceSum(ms, T \ {z}, p)
        BY <2>2
      <4>2. PlaceSum(ms, T \ {z}, p) = vy + rest
        BY <2>4, <3>1
      <4>3. PlaceSum(ms, T \ {y}, p) = vz + rest
        BY <3>1
      <4>4. vz + (vy + rest) = vy + (vz + rest)
        BY <2>3
      <4>5. QED
        BY <4>1, <4>2, <4>3, <4>4
    <3>2. QED
      BY <2>1, <3>1
  <2>6. y \in T \ {z} /\ z \in T \ {y}
    BY <2>1, <2>2
  <2> HIDE DEF z, Splits
  <2>7. QED
    BY <2>1, <2>2, <2>5, <2>6
<1>2. Bad = {}
  <2>1. Bad \in SUBSET (SUBSET S)
    OBVIOUS
  <2> HIDE DEF Bad
  <2>2. QED
    BY <1>1, <2>1, NoSmallest
<1>3. QED
  BY <1>2

LEMMA SumOfSame ==
  ASSUME NEW a, NEW b, NEW p, NEW S \in SUBSET MatchId, \A m \in S : a[m].place = b[m].place
  PROVE  PlaceSum(a, S, p) = PlaceSum(b, S, p)
<1> DEFINE Bad == {T \in SUBSET S : PlaceSum(a, T, p) # PlaceSum(b, T, p)}
<1>1. ASSUME NEW T \in Bad PROVE \E x \in T : T \ {x} \in Bad
  <2>1. /\ PlaceSum(a, T, p)
             = IF T = {} THEN 0 ELSE a[Pick(T)].place[p] + PlaceSum(a, T \ {Pick(T)}, p)
        /\ PlaceSum(b, T, p)
             = IF T = {} THEN 0 ELSE b[Pick(T)].place[p] + PlaceSum(b, T \ {Pick(T)}, p)
    BY SumOfPick
  <2>2. T # {} /\ Pick(T) \in T
    BY <2>1, PickIsIn
  <2>3. QED
    BY <2>1, <2>2
<1>2. Bad = {}
  <2>1. Bad \in SUBSET (SUBSET S)
    OBVIOUS
  <2> HIDE DEF Bad
  <2>2. QED
    BY <1>1, <2>1, NoSmallest
<1>3. QED
  BY <1>2

-----------------------------------------------------------------------------
(* Counters *)

\* CountersAgree, with the sum as a recursion the lemmas above speak of.
Counted(ms, S, p, row) ==
  /\ row.games  = Cardinality(S)
  /\ row.wins   = Cardinality({m \in S : ms[m].place[p] = 1})
  /\ row.losses = Cardinality({m \in S : ms[m].place[p] # 1})
  /\ row.total  = PlaceSum(ms, S, p)
  /\ \A m \in S : ms[m].playedAt <= row.last
  /\ row.last = 0 \/ \E m \in S : ms[m].playedAt = row.last

LEMMA CountersAreCounted ==
  ASSUME NEW ms, NEW S, NEW p, NEW row
  PROVE  CountersAgree(ms, S, p, row) <=> Counted(ms, S, p, row)
BY TotalIsPlaceSum DEF CountersAgree, Counted

LEMMA OneMore ==
  ASSUME NEW S \in SUBSET MatchId, NEW m \in MatchId \ S
  PROVE  Cardinality(S \cup {m}) = Cardinality(S) + 1
BY TablesAssumption, FS_Subset, FS_AddElement

\* What tells the same of the matches counts the same.
LEMMA CountedSame ==
  ASSUME NEW a, NEW b, NEW S \in SUBSET MatchId, NEW p, NEW row,
         SameGames(a, b, S), Counted(a, S, p, row)
  PROVE  Counted(b, S, p, row)
<1>1. \A m \in S : a[m].place = b[m].place /\ a[m].playedAt = b[m].playedAt
  BY DEF SameGames
<1>2. PlaceSum(a, S, p) = PlaceSum(b, S, p)
  BY <1>1, SumOfSame
<1>3. /\ {m \in S : a[m].place[p] = 1} = {m \in S : b[m].place[p] = 1}
      /\ {m \in S : a[m].place[p] # 1} = {m \in S : b[m].place[p] # 1}
  BY <1>1
<1>4. QED
  BY <1>1, <1>2, <1>3 DEF Counted

\* update_player_rating_after_match counts one match more.
LEMMA CountedOnce ==
  ASSUME NEW ms, NEW S \in SUBSET MatchId, NEW m \in MatchId \ S, NEW p, NEW skill,
         NEW row \in RatingRow, Counted(ms, S, p, row),
         Timed(ms, S \cup {m}), Placed(ms, S \cup {m}, p)
  PROVE  Counted(ms, S \cup {m}, p,
                 RatingAfterMatch(row, skill, ms[m].place[p], ms[m].playedAt))
<1> DEFINE T == S \cup {m}
           place == ms[m].place[p]
           after == RatingAfterMatch(row, skill, place, ms[m].playedAt)
           Won(U)  == {k \in U : ms[k].place[p] = 1}
           Lost(U) == {k \in U : ms[k].place[p] # 1}
<1>1. /\ row.games \in Nat /\ row.wins \in Nat /\ row.losses \in Nat /\ row.total \in Nat
      /\ row.last \in Nat /\ place \in Nat /\ \A k \in T : ms[k].playedAt \in Nat
  <2>1. IntMax \in Nat /\ PlayedAt \subseteq Nat
    BY TablesAssumption
  <2>2. /\ row.games \in Nat /\ row.wins \in Nat /\ row.losses \in Nat
        /\ row.total \in Nat /\ row.last \in Nat
    <3>1. /\ row.games \in 0..IntMax /\ row.wins \in 0..IntMax /\ row.losses \in 0..IntMax
          /\ row.total \in 0..IntMax /\ row.last \in PlayedAt \cup {0}
      BY DEF RatingRow
    <3>2. \A n \in 0..IntMax : n \in Nat
      BY <2>1
    <3>3. \A n \in PlayedAt \cup {0} : n \in Nat
      BY <2>1
    <3>4. row.last \in Nat
      BY <3>1, <3>3
    <3>5. QED
      BY <3>1, <3>2, <3>4
  <2>3. place \in Nat
    BY DEF Placed
  <2>4. QED
    BY <2>2, <2>3 DEF Timed
<1>2. /\ after.games = row.games + 1 /\ after.total = row.total + place
      /\ after.wins = row.wins + (IF place = 1 THEN 1 ELSE 0)
      /\ after.losses = row.losses + (IF place = 1 THEN 0 ELSE 1)
      /\ after.last = IF row.last > ms[m].playedAt THEN row.last ELSE ms[m].playedAt
  BY DEF RatingAfterMatch
<1> HIDE DEF after
<1>3. after.games = Cardinality(T) /\ row.wins = Cardinality(Won(S))
                                   /\ row.losses = Cardinality(Lost(S))
  BY <1>2, OneMore DEF Counted
<1>4. after.wins = Cardinality(Won(T))
  <2>1. CASE place = 1
    <3>1. Won(T) = Won(S) \cup {m} /\ Won(S) \in SUBSET MatchId /\ m \in MatchId \ Won(S)
      BY <2>1
    <3>2. QED
      BY <1>2, <1>3, <2>1, <3>1, OneMore
  <2>2. CASE place # 1
    <3>1. Won(T) = Won(S)
      BY <2>2
    <3>2. after.wins = row.wins
      BY <1>1, <1>2, <2>2
    <3>3. QED
      BY <1>3, <3>1, <3>2
  <2>3. QED
    BY <2>1, <2>2
<1>5. after.losses = Cardinality(Lost(T))
  <2>1. CASE place # 1
    <3>1. Lost(T) = Lost(S) \cup {m} /\ Lost(S) \in SUBSET MatchId /\ m \in MatchId \ Lost(S)
      BY <2>1
    <3>2. QED
      BY <1>2, <1>3, <2>1, <3>1, OneMore
  <2>2. CASE place = 1
    <3>1. Lost(T) = Lost(S)
      BY <2>2
    <3>2. after.losses = row.losses
      BY <1>1, <1>2, <2>2
    <3>3. QED
      BY <1>3, <3>1, <3>2
  <2>3. QED
    BY <2>1, <2>2
<1>6. after.total = PlaceSum(ms, T, p)
  <2>1. T \in SUBSET MatchId /\ m \in T /\ T \ {m} = S
    OBVIOUS
  <2>2. PlaceSum(ms, T, p) = place + PlaceSum(ms, S, p)
    BY <2>1, SumOfAny
  <2>3. row.total = PlaceSum(ms, S, p)
    BY DEF Counted
  <2>4. QED
    BY <1>1, <1>2, <2>2, <2>3
<1>7. \A k \in T : ms[k].playedAt <= after.last
  BY <1>1, <1>2 DEF Counted
<1>8. after.last = 0 \/ \E k \in T : ms[k].playedAt = after.last
  BY <1>1, <1>2 DEF Counted
<1>9. Counted(ms, T, p, after)
  BY <1>3, <1>4, <1>5, <1>6, <1>7, <1>8 DEF Counted
<1>10. QED
  BY <1>9 DEF after

\* A row no match has touched agrees with no matches.
LEMMA FreshIsCounted ==
  ASSUME NEW ms, NEW p, NEW skill
  PROVE  Counted(ms, {}, p, FreshRating(skill))
<1>1. Cardinality({}) = 0
  BY FS_EmptySet
<1>2. PlaceSum(ms, {}, p) = 0
  BY SumOfPick
<1>3. QED
  BY <1>1, <1>2 DEF Counted, FreshRating

\* A match m on top of the matches S, told of by a: of its players it counts one
\* match more, of the others none.
LEMMA PlayedIsCounted ==
  ASSUME NEW a, NEW b, NEW S \in SUBSET MatchId, NEW m \in MatchId \ S,
         SameGames(a, b, S), Timed(b, S \cup {m}),
         NEW p, Placed(b, Of(b, S \cup {m}, p), p),
         NEW row \in RatingRow, Counted(a, Of(a, S, p), p, row)
  PROVE  IF p \in DOMAIN b[m].place
         THEN \A skill :
                Counted(b, Of(b, S \cup {m}, p), p,
                        RatingAfterMatch(row, skill, b[m].place[p], b[m].playedAt))
         ELSE Counted(b, Of(b, S \cup {m}, p), p, row)
<1> DEFINE U == Of(a, S, p)
<1>1. U \in SUBSET S /\ U = Of(b, S, p) /\ SameGames(a, b, U)
  BY DEF Of, SameGames
<1>2. Of(b, S \cup {m}, p) = IF p \in DOMAIN b[m].place THEN U \cup {m} ELSE U
  BY <1>1 DEF Of
<1> HIDE DEF U
<1>3. Counted(b, U, p, row)
  BY <1>1, CountedSame DEF U
<1>4. CASE p \in DOMAIN b[m].place
  <2>1. U \in SUBSET MatchId /\ m \in MatchId \ U /\ Timed(b, U \cup {m}) /\ Placed(b, U \cup {m}, p)
    BY <1>1, <1>2, <1>4 DEF Timed
  <2>2. QED
    BY <1>2, <1>3, <1>4, <2>1, CountedOnce
<1>5. CASE p \notin DOMAIN b[m].place
  BY <1>2, <1>3, <1>5
<1>6. QED
  BY <1>4, <1>5

-----------------------------------------------------------------------------
(* What transactions under way count *)

\* A submission adds its match to the counters of the table.
Added(t, rt) ==
  \A m \in DOMAIN t.rows : \A p \in DOMAIN t.rows[m].place :
    t.ratings[p] = RatingAfterMatch(rt[p], t.rows[m].new[p], t.rows[m].place[p],
                                    t.rows[m].playedAt)

\* A replay has counted the matches done, and whom it has not reset is new.
Recounted(t, ms) ==
  \A p \in DOMAIN t.ratings : Counted(ms, Of(ms, Confirmed(ms) \ t.todo, p), p, t.ratings[p])

NewcomersFresh(t, rt) ==
  \A p \in DOMAIN rt \ DOMAIN t.ratings : rt[p] = FreshRating(InsertSkill)

\* A void or a correction leaves what its target says as it is.
TargetVoided(t, mt) == t.rows[t.target] = [mt[t.target] EXCEPT !.status = "voided"]

Counts(t, rt, mt) ==
  /\ t.pc = "writing" /\ t.op = "submit" => Added(t, rt)
  /\ t.pc = "writing" /\ t.op # "submit" =>
       Recounted(t, Overlay(mt, t.rows)) /\ NewcomersFresh(t, rt)
  /\ t.pc = "writing" /\ t.op \in {"void", "correct"} => TargetVoided(t, mt)

CountersHold(rt, mt) ==
  \A p \in DOMAIN rt : Counted(mt, Of(mt, Confirmed(mt), p), p, rt[p])

CountingInvariant ==
  /\ DerivationInvariant
  /\ CountersHold(rating, matches)
  /\ \A w \in Worker : Counts(tx[w], rating, matches)

LEMMA StaysCounted ==
  ASSUME LedgerInvariant, NEW v \in Worker, Counts(tx[v], rating, matches),
         tx'[v] = tx[v], UNCHANGED matches, \A p \in DOMAIN rating : rating'[p] = rating[p],
         \A p \in DOMAIN rating' \ DOMAIN rating : rating'[p] = FreshRating(InsertSkill)
  PROVE  Counts(tx'[v], rating', matches')
<1>1. \A m \in DOMAIN tx[v].rows : DOMAIN tx[v].rows[m].place \subseteq DOMAIN rating
  BY DEF LedgerInvariant, RequestFits, PlayersKnown
<1>2. Added(tx[v], rating) => Added(tx[v], rating')
  BY <1>1 DEF Added
<1>3. NewcomersFresh(tx[v], rating) => NewcomersFresh(tx[v], rating')
  BY DEF NewcomersFresh
<1>4. QED
  BY <1>2, <1>3 DEF Counts

LEMMA SubmitCounts ==
  ASSUME LedgerInvariant, NEW w \in Worker, SubmitWrite(w)
  PROVE  Counts(tx'[w], rating', matches')
<1> DEFINE writes == SubmitWrites(w)
<1>1. DOMAIN tx = Worker /\ IsTx(tx[w]) /\ tx[w].op = "submit" /\ rating' = rating
  BY DEF LedgerInvariant, TypeOK, SubmitWrite, tables
<1>2. PICK m \in MatchId :
        tx' = [tx EXCEPT ![w].pc = "writing", ![w].ratings = writes.ratings,
                         ![w].rows = [x \in {m} |-> writes.row],
                         ![w].event = <<"match.created", m>>]
  BY DEF SubmitWrite
<1>3. \A p \in DOMAIN writes.row.place :
        writes.ratings[p] = RatingAfterMatch(rating[p], writes.row.new[p],
                                             writes.row.place[p], writes.row.playedAt)
  BY DEF SubmitWrites, RatingsAfterMatch, NewRow
<1> HIDE DEF writes
<1>4. /\ tx'[w].op = "submit" /\ tx'[w].ratings = writes.ratings
      /\ tx'[w].rows = [x \in {m} |-> writes.row]
  BY <1>1, <1>2 DEF IsTx
<1>5. Added(tx'[w], rating')
  BY <1>1, <1>3, <1>4 DEF Added
<1>6. QED
  BY <1>4, <1>5 DEF Counts

LEMMA StartCounts ==
  ASSUME LedgerInvariant, NEW w \in Worker, NEW rows, NEW event,
         StartReplay(w, rows, event), tx[w].op # "submit",
         tx[w].op \in {"void", "correct"} =>
           rows[tx[w].target] = [matches[tx[w].target] EXCEPT !.status = "voided"]
  PROVE  Counts(tx'[w], rating', matches')
<1> DEFINE ms == Overlay(matches, rows)
<1>1. DOMAIN tx = Worker /\ IsTx(tx[w])
  BY DEF LedgerInvariant, TypeOK
<1>2. /\ tx'[w].op = tx[w].op /\ tx'[w].rows = rows /\ tx'[w].target = tx[w].target
      /\ tx'[w].ratings = [p \in DOMAIN rating |-> FreshRating(DefaultSkill)]
      /\ tx'[w].todo = Confirmed(ms)
  BY <1>1 DEF StartReplay, IsTx
<1>3. matches' = matches /\ rating' = rating
  BY DEF StartReplay, tables
<1> HIDE DEF ms
<1>4. \A p : Of(ms, Confirmed(ms) \ tx'[w].todo, p) = {}
  BY <1>2 DEF Of
<1>5. Recounted(tx'[w], ms)
  BY <1>2, <1>4, FreshIsCounted DEF Recounted
<1>6. NewcomersFresh(tx'[w], rating')
  BY <1>2, <1>3 DEF NewcomersFresh
<1>7. tx'[w].op \in {"void", "correct"} => TargetVoided(tx'[w], matches')
  BY <1>2, <1>3 DEF TargetVoided
<1>8. QED
  BY <1>2, <1>3, <1>5, <1>6, <1>7 DEF Counts, ms

\* Participants of a row have places.
LEMMA RowsPlaced ==
  ASSUME NEW ms, NEW S, \A m \in S : IsMatchRow(ms[m]), NEW p
  PROVE  Placed(ms, Of(ms, S, p), p)
<1>1. ASSUME NEW m \in S, p \in DOMAIN ms[m].place PROVE ms[m].place[p] \in Nat
  <2>1. ms[m].place \in ValidPlacements
    BY DEF IsMatchRow
  <2>2. PICK T \in SUBSET Player : ms[m].place \in Placements(T)
    BY <2>1 DEF ValidPlacements
  <2>3. Cardinality(T) \in Nat
    BY TablesAssumption, FS_Subset, FS_CardinalityType
  <2>4. QED
    BY <1>1, <2>2, <2>3 DEF Placements
<1>2. QED
  BY <1>1 DEF Placed, Of

LEMMA ReplayCounts ==
  ASSUME LedgerInvariant, LedgerInvariant', NEW w \in Worker, Fits(tx[w], rating, matches),
         Counts(tx[w], rating, matches), ReplayMatch(w)
  PROVE  Counts(tx'[w], rating', matches')
<1>1. PICK m : Turn(tx[w], tx'[w], matches, RatingsSeen(w), m)
  BY ReplayTurns
<1> DEFINE a       == Overlay(matches, tx[w].rows)
           b       == Overlay(matches, tx'[w].rows)
           done    == Confirmed(a) \ tx[w].todo
           players == DOMAIN tx[w].ratings
           row     == b[m]
           ratings == RatingsAfterMatch(RatingsSeen(w), row.place, row.new, row.playedAt)
<1>2. /\ tx[w].pc = "writing" /\ tx[w].op # "submit" /\ IsTx(tx[w])
      /\ tx'[w].op = tx[w].op /\ tx'[w].target = tx[w].target
      /\ UNCHANGED <<matches, rating>>
  BY <1>1, ReplayTurns DEF Turn, LedgerInvariant, TypeOK
<1>3. /\ m \in tx[w].todo /\ tx[w].todo \subseteq Confirmed(a)
      /\ DOMAIN b = DOMAIN a /\ \A k \in DOMAIN a : b[k].place = a[k].place
      /\ tx'[w].ratings = Overlay(tx[w].ratings, ratings)
      /\ Confirmed(b) \ tx'[w].todo = done \cup {m}
      /\ \A k \in DOMAIN tx[w].rows \ {m} :
           k \in DOMAIN tx'[w].rows /\ tx'[w].rows[k] = tx[w].rows[k]
  BY <1>1 DEF Turn
<1>4. /\ done \in SUBSET MatchId /\ m \in MatchId \ done
      /\ Timed(b, done \cup {m}) /\ SameGames(a, b, done)
  BY <1>1 DEF Turn
<1>5. Recounted(tx[w], a) /\ NewcomersFresh(tx[w], rating) /\ Replayed(tx[w], a)
  BY <1>2 DEF Counts, Fits
<1>6. done \cup {m} \subseteq DOMAIN b /\ \A k \in DOMAIN b : IsMatchRow(b[k])
  <2>1. \A k \in DOMAIN b : IsMatchRow(b[k])
    BY <1>2 DEF LedgerInvariant, TypeOK, IsTx, Overlay
  <2>2. QED
    BY <1>3, <2>1 DEF Confirmed
<1>7. /\ players \subseteq DOMAIN rating /\ DOMAIN row.place \subseteq players
      /\ \A p \in players : tx[w].ratings[p] \in RatingRow /\ RatingsSeen(w)[p] = tx[w].ratings[p]
  <2>1. players \subseteq DOMAIN rating /\ \A p \in players : tx[w].ratings[p] \in RatingRow
    BY <1>2 DEF LedgerInvariant, RequestFits, PlayersKnown, IsTx, IsTable
  <2>2. DOMAIN row.place \subseteq players
    BY <1>3, <1>5 DEF Replayed, Confirmed
  <2>3. QED
    BY <2>1, <2>2 DEF RatingsSeen, Overlay
<1>8. DOMAIN ratings = DOMAIN row.place
  BY DEF RatingsAfterMatch
<1>9. /\ DOMAIN tx'[w].ratings = players
      /\ \A p \in DOMAIN row.place : tx'[w].ratings[p] =
           RatingAfterMatch(tx[w].ratings[p], row.new[p], row.place[p], row.playedAt)
      /\ \A p \in players \ DOMAIN row.place : tx'[w].ratings[p] = tx[w].ratings[p]
  <2>1. \A p \in DOMAIN row.place : ratings[p] =
          RatingAfterMatch(RatingsSeen(w)[p], row.new[p], row.place[p], row.playedAt)
    BY DEF RatingsAfterMatch
  <2> HIDE DEF ratings, b
  <2>2. /\ DOMAIN tx'[w].ratings = players
        /\ \A p \in DOMAIN row.place : tx'[w].ratings[p] = ratings[p]
        /\ \A p \in players \ DOMAIN row.place : tx'[w].ratings[p] = tx[w].ratings[p]
    BY <1>3, <1>7, <1>8 DEF Overlay
  <2>3. \A p \in DOMAIN row.place : RatingsSeen(w)[p] = tx[w].ratings[p]
    BY <1>7
  <2>4. QED
    BY <2>1, <2>2, <2>3
<1> HIDE DEF a, b, ratings
<1>10. ASSUME NEW p \in players
       PROVE  Counted(b, Of(b, done \cup {m}, p), p, tx'[w].ratings[p])
  <2>1. Counted(a, Of(a, done, p), p, tx[w].ratings[p]) /\ tx[w].ratings[p] \in RatingRow
    BY <1>5, <1>7 DEF Recounted
  <2>2. Placed(b, Of(b, done \cup {m}, p), p)
    BY <1>6, RowsPlaced
  <2> HIDE DEF done
  <2>3. IF p \in DOMAIN b[m].place
        THEN \A skill : Counted(b, Of(b, done \cup {m}, p), p,
               RatingAfterMatch(tx[w].ratings[p], skill, b[m].place[p], b[m].playedAt))
        ELSE Counted(b, Of(b, done \cup {m}, p), p, tx[w].ratings[p])
    BY <1>4, <2>1, <2>2, PlayedIsCounted
  <2>4. QED
    BY <1>9, <2>3
<1>11. Recounted(tx'[w], b)
  BY <1>3, <1>9, <1>10 DEF Recounted
<1>12. NewcomersFresh(tx'[w], rating')
  BY <1>2, <1>5, <1>9 DEF NewcomersFresh
<1>13. tx[w].op \in {"void", "correct"} => TargetVoided(tx'[w], matches')
  <2>1. ASSUME tx[w].op \in {"void", "correct"} PROVE TargetVoided(tx'[w], matches')
    <3>1. TargetVoided(tx[w], matches)
      BY <1>2, <2>1 DEF Counts
    <3>2. tx[w].target \in DOMAIN tx[w].rows /\ tx[w].rows[tx[w].target].status = "voided"
      BY <1>2, <2>1 DEF LedgerInvariant, RequestFits, WritesFit, WritesFitEvent, VoidsTarget
    <3>3. tx[w].target # m
      BY <1>3, <3>2 DEF Confirmed, Overlay, a
    <3>4. QED
      BY <1>2, <1>3, <3>1, <3>2, <3>3 DEF TargetVoided
  <2>2. QED
    BY <2>1
<1>14. QED
  BY <1>2, <1>11, <1>12, <1>13 DEF Counts, b

-----------------------------------------------------------------------------
(* The invariant *)

LEMMA SubmissionKeepsCounters ==
  ASSUME LedgerInvariant, LedgerInvariant', NEW w \in Worker, Fits(tx[w], rating, matches),
         Counts(tx[w], rating, matches), Publish(w), tx[w].op = "submit",
         CountersHold(rating, matches)
  PROVE  CountersHold(rating', matches')
<1>1. PICK m : Submits(tx[w], m, matches, matches', rating, rating')
  BY SubmissionCommits
<1> DEFINE S   == Confirmed(matches)
           row == matches'[m]
<1>2. /\ S \in SUBSET MatchId /\ m \in MatchId \ S /\ Confirmed(matches') = S \cup {m}
      /\ Timed(matches', S \cup {m}) /\ SameGames(matches, matches', S)
      /\ DOMAIN rating' = DOMAIN rating
      /\ m \in DOMAIN tx[w].rows /\ row = tx[w].rows[m]
      /\ \A p \in DOMAIN row.place : rating'[p] = tx[w].ratings[p]
      /\ \A p \in DOMAIN rating \ DOMAIN row.place : rating'[p] = rating[p]
  BY <1>1 DEF Submits
<1>3. \A p \in DOMAIN row.place :
        rating'[p] = RatingAfterMatch(rating[p], row.new[p], row.place[p], row.playedAt)
  BY <1>2 DEF Publish, Counts, Added
<1> SUFFICES ASSUME NEW p \in DOMAIN rating
             PROVE  Counted(matches', Of(matches', S \cup {m}, p), p, rating'[p])
  BY <1>2 DEF CountersHold
<1>4. rating[p] \in RatingRow /\ Counted(matches, Of(matches, S, p), p, rating[p])
  BY DEF LedgerInvariant, TypeOK, IsTable, CountersHold
<1>5. Placed(matches', Of(matches', S \cup {m}, p), p)
  <2>1. \A k \in S \cup {m} : IsMatchRow(matches'[k])
    BY <1>2 DEF LedgerInvariant, TypeOK, Confirmed
  <2>2. QED
    BY <2>1, RowsPlaced
<1> HIDE DEF S
<1>6. IF p \in DOMAIN matches'[m].place
      THEN \A skill : Counted(matches', Of(matches', S \cup {m}, p), p,
             RatingAfterMatch(rating[p], skill, matches'[m].place[p], matches'[m].playedAt))
      ELSE Counted(matches', Of(matches', S \cup {m}, p), p, rating[p])
  BY <1>2, <1>4, <1>5, PlayedIsCounted
<1>7. QED
  BY <1>2, <1>3, <1>6

\* A player the replay has not reset is new and has played nothing.
LEMMA ReplayKeepsCounters ==
  ASSUME LedgerInvariant, NEW w \in Worker, Fits(tx[w], rating, matches),
         Counts(tx[w], rating, matches), Publish(w), tx[w].op # "submit"
  PROVE  /\ CountersHold(rating', matches')
         /\ DOMAIN rating' = DOMAIN rating
         /\ \A p \in DOMAIN tx[w].ratings : rating'[p] = tx[w].ratings[p]
         /\ \A p \in DOMAIN rating \ DOMAIN tx[w].ratings :
              /\ rating'[p] = rating[p] /\ rating[p] = FreshRating(InsertSkill)
              /\ Of(matches', Confirmed(matches'), p) = {}
<1> DEFINE players == DOMAIN tx[w].ratings
           S       == Confirmed(matches')
<1>1. /\ tx[w].pc = "writing" /\ tx[w].todo = {} /\ matches' = Overlay(matches, tx[w].rows)
      /\ rating' = Overlay(rating, tx[w].ratings)
  BY DEF Publish
<1>2. /\ Recounted(tx[w], matches') /\ NewcomersFresh(tx[w], rating)
      /\ Replayed(tx[w], matches') /\ S \ tx[w].todo = S
  BY <1>1 DEF Counts, Fits
<1>3. players \subseteq DOMAIN rating
  BY DEF LedgerInvariant, RequestFits, PlayersKnown
<1>4. /\ DOMAIN rating' = DOMAIN rating
      /\ \A p \in players : rating'[p] = tx[w].ratings[p]
      /\ \A p \in DOMAIN rating \ players : rating'[p] = rating[p]
  BY <1>1, <1>3 DEF Overlay
<1>5. \A p \in players : Counted(matches', Of(matches', S, p), p, rating'[p])
  BY <1>2, <1>4 DEF Recounted
<1>6. ASSUME NEW p \in DOMAIN rating \ players
      PROVE  /\ rating[p] = FreshRating(InsertSkill) /\ Of(matches', S, p) = {}
             /\ Counted(matches', Of(matches', S, p), p, rating'[p])
  <2>1. Of(matches', S, p) = {}
    BY <1>2 DEF Replayed, Of, Confirmed
  <2>2. rating[p] = FreshRating(InsertSkill)
    BY <1>2 DEF NewcomersFresh
  <2>3. QED
    BY <1>4, <2>1, <2>2, FreshIsCounted
<1>7. QED
  BY <1>4, <1>5, <1>6 DEF CountersHold

LEMMA CreationKeepsCounters ==
  ASSUME LedgerInvariant, NEW p \in Player, CreatePlayer(p), CountersHold(rating, matches)
  PROVE  /\ CountersHold(rating', matches')
         /\ UNCHANGED <<matches, tx>>
         /\ \A q \in DOMAIN rating : rating'[q] = rating[q]
         /\ \A q \in DOMAIN rating' \ DOMAIN rating : rating'[q] = FreshRating(InsertSkill)
<1>1. /\ UNCHANGED <<matches, tx>> /\ DOMAIN rating' = DOMAIN rating \cup {p}
      /\ p \notin DOMAIN rating /\ rating'[p] = FreshRating(InsertSkill)
      /\ \A q \in DOMAIN rating : rating'[q] = rating[q]
  BY DEF CreatePlayer, Overlay
<1>2. Of(matches, Confirmed(matches), p) = {}
  BY <1>1 DEF LedgerInvariant, PlayersExist, Of, Confirmed
<1>3. CountersHold(rating', matches')
  BY <1>1, <1>2, FreshIsCounted DEF CountersHold
<1>4. QED
  BY <1>1, <1>3

LEMMA WorksCount ==
  ASSUME LedgerInvariant, LedgerInvariant', NEW w \in Worker, Fits(tx[w], rating, matches),
         Counts(tx[w], rating, matches), Works(w)
  PROVE  Counts(tx'[w], rating', matches')
<1>1. CASE LoadAndValidate(w)
  <2>1. DOMAIN tx = Worker /\ IsTx(tx[w])
    BY DEF LedgerInvariant, TypeOK
  <2>2. tx'[w].pc = "loaded"
    BY <1>1, <2>1 DEF LoadAndValidate, IsTx
  <2>3. QED
    BY <2>2 DEF Counts
<1>2. CASE SubmitWrite(w)
  BY <1>2, SubmitCounts
<1>3. CASE VoidWrite(w)
  <2> DEFINE m == tx[w].target
             rows == [x \in {m} |-> Voided(m)]
  <2>1. StartReplay(w, rows, <<"match.voided", m>>) /\ tx[w].op = "void"
    BY <1>3 DEF VoidWrite
  <2>2. rows[m] = [matches[m] EXCEPT !.status = "voided"]
    BY DEF Voided
  <2> HIDE DEF rows
  <2>3. QED
    BY <2>1, <2>2, StartCounts
<1>4. CASE CorrectWrite(w)
  <2> DEFINE t       == tx[w]
             default == [p \in DOMAIN t.place |-> DefaultSkill]
             row     == NewRow(t.playedAt, t.begunAt, t.target, t.place, default, default)
  <2>1. PICK m \in MatchId \ DOMAIN matches :
          StartReplay(w, [x \in {m, t.target} |-> IF x = m THEN row ELSE Voided(x)],
                      <<"match.corrected", m>>)
    BY <1>4 DEF CorrectWrite
  <2> HIDE DEF row
  <2> DEFINE rows == [x \in {m, t.target} |-> IF x = m THEN row ELSE Voided(x)]
  <2>2. t.op = "correct" /\ t.target \in DOMAIN matches
    BY <1>4 DEF CorrectWrite, LedgerInvariant, RequestFits, RequestFormed, TargetConfirmed, Confirmed
  <2>3. rows[t.target] = [matches[t.target] EXCEPT !.status = "voided"]
    BY <2>2 DEF Voided
  <2>4. StartReplay(w, rows, <<"match.corrected", m>>)
    BY <2>1
  <2> HIDE DEF rows
  <2>5. QED
    BY <2>2, <2>3, <2>4, StartCounts
<1>5. CASE RecalculateWrite(w)
  <2>1. /\ StartReplay(w, NoRows, <<"ratings.recalculated", tx[w].run>>)
        /\ tx[w].op = "recalculate"
    BY <1>5 DEF RecalculateWrite
  <2>2. QED
    BY <2>1, StartCounts
<1>6. CASE ReplayMatch(w)
  BY <1>6, ReplayCounts
<1>7. QED
  BY <1>1, <1>2, <1>3, <1>4, <1>5, <1>6 DEF Works

LEMMA CountingStep == CountingInvariant /\ [Next]_vars => CountingInvariant'
<1> SUFFICES ASSUME CountingInvariant, [Next]_vars PROVE CountingInvariant'
  OBVIOUS
<1>1. /\ DerivationInvariant /\ DerivationInvariant' /\ LedgerInvariant /\ LedgerInvariant'
      /\ CountersHold(rating, matches)
      /\ \A v \in Worker : Fits(tx[v], rating, matches) /\ Counts(tx[v], rating, matches)
  BY DerivationStep DEF CountingInvariant, DerivationInvariant
<1> SUFFICES /\ CountersHold(rating', matches')
             /\ \A v \in Worker : Counts(tx'[v], rating', matches')
  BY <1>1 DEF CountingInvariant
<1>2. ASSUME NEW v \in Worker, tx'[v].pc \notin {"loaded", "writing"}
      PROVE  Counts(tx'[v], rating', matches')
  BY <1>2 DEF Counts
<1>3. ASSUME NEW v \in Worker, tx'[v] = tx[v], UNCHANGED <<matches, rating>>
      PROVE  Counts(tx'[v], rating', matches')
  BY <1>1, <1>3
<1>4. ASSUME UNCHANGED <<matches, rating>> PROVE CountersHold(rating', matches')
  BY <1>1, <1>4
<1>5. CASE \E w \in Worker : Works(w)
  <2>1. PICK w \in Worker : Works(w)
    BY <1>5
  <2>2. UNCHANGED <<matches, rating>> /\ \A v \in Worker \ {w} : tx'[v] = tx[v]
    BY <1>1, <2>1, WorksAlone
  <2>3. Counts(tx'[w], rating', matches')
    BY <1>1, <2>1, WorksCount
  <2>4. QED
    BY <1>3, <1>4, <2>2, <2>3
<1>6. ASSUME NEW w \in Worker, Request(w) \/ AcquireLock(w) \/ Advance(w) \/ Fails(w), ~Works(w)
      PROVE  /\ CountersHold(rating', matches')
             /\ \A v \in Worker : Counts(tx'[v], rating', matches')
  <2>1. /\ tx'[w].pc \notin {"loaded", "writing"}
        /\ \A v \in Worker \ {w} : tx'[v] = tx[v]
        /\ UNCHANGED <<matches, rating>> \/ Publish(w)
    BY <1>1, <1>6, OtherSteps
  <2>2. Counts(tx'[w], rating', matches')
    BY <1>2, <2>1
  <2>3. CASE UNCHANGED <<matches, rating>>
    BY <1>3, <1>4, <2>1, <2>2, <2>3
  <2>4. CASE Publish(w)
    <3>1. CountersHold(rating', matches')
      BY <1>1, <2>4, SubmissionKeepsCounters, ReplayKeepsCounters
    <3>2. ASSUME NEW v \in Worker \ {w} PROVE Counts(tx'[v], rating', matches')
      BY <1>1, <1>2, <2>1, <2>4, OnlyHolderPending
    <3>3. QED
      BY <2>2, <3>1, <3>2
  <2>5. QED
    BY <2>1, <2>3, <2>4
<1>7. ASSUME NEW p \in Player, CreatePlayer(p)
      PROVE  /\ CountersHold(rating', matches')
             /\ \A v \in Worker : Counts(tx'[v], rating', matches')
  <2>1. /\ CountersHold(rating', matches') /\ UNCHANGED <<matches, tx>>
        /\ \A q \in DOMAIN rating : rating'[q] = rating[q]
        /\ \A q \in DOMAIN rating' \ DOMAIN rating : rating'[q] = FreshRating(InsertSkill)
    BY <1>1, <1>7, CreationKeepsCounters
  <2>2. ASSUME NEW v \in Worker PROVE Counts(tx'[v], rating', matches')
    BY <1>1, <2>1, StaysCounted
  <2>3. QED
    BY <2>1, <2>2
<1>8. CASE (\E p \in Player : SetActive(p)) \/ Tick \/ UNCHANGED vars
  <2>1. UNCHANGED <<matches, rating, tx>>
    BY <1>8 DEF SetActive, Tick, vars, tables
  <2>2. QED
    BY <1>3, <1>4, <2>1
<1>9. QED
  BY <1>5, <1>6, <1>7, <1>8 DEF Next

LEMMA CountingHolds == Spec => []CountingInvariant
<1>1. Init => CountingInvariant
  <2> SUFFICES ASSUME Init PROVE CountingInvariant
    OBVIOUS
  <2>1. DerivationInvariant
    BY InitHolds DEF Init, DerivationInvariant, Fits, IdleTx
  <2>2. CountersHold(rating, matches)
    BY DEF Init, CountersHold, NoRows
  <2>3. \A w \in Worker : Counts(tx[w], rating, matches)
    BY DEF Init, Counts, IdleTx
  <2>4. QED
    BY <2>1, <2>2, <2>3 DEF CountingInvariant
<1>2. QED
  BY <1>1, CountingStep, PTL DEF Spec

\* The games, wins, losses, places and last game of every player are those of the
\* confirmed matches, whatever is submitted, voided, corrected or recalculated, in
\* whatever order, and whatever fails.
THEOREM CountersAlwaysMatch == Spec => []CountersMatchHistory
<1>1. CountingInvariant => CountersMatchHistory
  BY CountersAreCounted DEF CountingInvariant, CountersHold, CountersMatchHistory
<1>2. QED
  BY <1>1, CountingHolds, PTL

-----------------------------------------------------------------------------
(* The atomic ledger *)

\* The operators of MatchTables mean in AtomicLedger what they mean here.
LEMMA SameOverlay == \A f, g : Atomic!Overlay(f, g) = Overlay(f, g)
BY DEF Atomic!Overlay, Overlay

LEMMA SameHistory ==
  \A ms, S, p : /\ Atomic!Of(ms, S, p) = Of(ms, S, p)
                /\ Atomic!Confirmed(ms) = Confirmed(ms)
BY DEF Atomic!Of, Of, Atomic!Confirmed, Confirmed

LEMMA SameLatestOf == \A ms, S : Atomic!LatestOf(ms, S) = LatestOf(ms, S)
BY DEF Atomic!LatestOf, LatestOf, Atomic!ReplayBefore, ReplayBefore

LEMMA SameSkills ==
  \A ms, S, p, start : Atomic!SkillAfter(ms, S, p, start) = SkillAfter(ms, S, p, start)
BY SameLatestOf DEF Atomic!SkillAfter, SkillAfter

LEMMA SameSnapshots ==
  ASSUME NEW ms, NEW S, NEW start
  PROVE  Atomic!SnapshotsChain(ms, S, start) <=> SnapshotsChain(ms, S, start)
BY SameHistory, SameSkills
DEF Atomic!SnapshotsChain, SnapshotsChain, Atomic!ReplayBefore, ReplayBefore

LEMMA SameCounters ==
  ASSUME NEW ms, NEW S, NEW p, NEW row
  PROVE  Atomic!CountersAgree(ms, S, p, row) <=> CountersAgree(ms, S, p, row)
<1>1. \A T : Atomic!Cardinality(T) = Cardinality(T)
  BY DEF Atomic!Cardinality, Cardinality
<1>2. Atomic!MapThenSumSet(LAMBDA m : ms[m].place[p], S) = MapThenSumSet(LAMBDA m : ms[m].place[p], S)
  BY DEF Atomic!MapThenSumSet, MapThenSumSet, Atomic!MapThenFoldSet, MapThenFoldSet
<1>3. QED
  BY <1>1, <1>2 DEF Atomic!CountersAgree, CountersAgree

LEMMA SameRows ==
  /\ \A row : Atomic!IsMatchRow(row) <=> IsMatchRow(row)
  /\ \A skill : Atomic!FreshRating(skill) = FreshRating(skill)
  /\ \A row, skill, place, playedAt :
       Atomic!RatingAfterMatch(row, skill, place, playedAt)
         = RatingAfterMatch(row, skill, place, playedAt)
  /\ Atomic!ValidPlacements = ValidPlacements
  /\ Atomic!NoRows = NoRows
<1>1. \A T : Atomic!Cardinality(T) = Cardinality(T)
  BY DEF Atomic!Cardinality, Cardinality
<1>2. Atomic!ValidPlacements = ValidPlacements
  BY <1>1 DEF Atomic!ValidPlacements, ValidPlacements, Atomic!Placements, Placements
<1>3. \A row : Atomic!IsMatchRow(row) <=> IsMatchRow(row)
  BY <1>2 DEF Atomic!IsMatchRow, IsMatchRow
<1>4. \A skill : Atomic!FreshRating(skill) = FreshRating(skill)
  BY DEF Atomic!FreshRating, FreshRating
<1>5. \A row, skill, place, playedAt :
        Atomic!RatingAfterMatch(row, skill, place, playedAt)
          = RatingAfterMatch(row, skill, place, playedAt)
  BY DEF Atomic!RatingAfterMatch, RatingAfterMatch
<1>6. Atomic!NoRows = NoRows
  BY DEF Atomic!NoRows, NoRows
<1>7. QED
  BY <1>2, <1>3, <1>4, <1>5, <1>6

LEMMA SubmissionIsAtomic ==
  ASSUME LedgerInvariant, LedgerInvariant', NEW w \in Worker, Fits(tx[w], rating, matches),
         Counts(tx[w], rating, matches), Publish(w), tx[w].op = "submit"
  PROVE  \E m \in MatchId : Atomic!Submit(m)
<1>1. PICK m : Submits(tx[w], m, matches, matches', rating, rating')
  BY SubmissionCommits
<1> DEFINE row == matches'[m]
<1>2. /\ m \in MatchId /\ m \notin DOMAIN matches /\ m \in DOMAIN matches'
      /\ m \in DOMAIN tx[w].rows /\ row = tx[w].rows[m]
      /\ row.status = "confirmed" /\ row.correctedFrom = NoMatch
      /\ DOMAIN matches' = DOMAIN matches \cup {m}
      /\ \A k \in DOMAIN matches : matches'[k] = matches[k]
      /\ DOMAIN rating' = DOMAIN rating /\ DOMAIN row.place \subseteq DOMAIN rating
      /\ \A p \in DOMAIN row.place : rating'[p] = tx[w].ratings[p]
      /\ \A p \in DOMAIN rating \ DOMAIN row.place : rating'[p] = rating[p]
  BY <1>1 DEF Submits
<1>3. /\ \A p \in DOMAIN row.place : row.old[p] = rating[p].skill
      /\ row.new = Rate(row.old, row.place)
      /\ \A p \in DOMAIN row.place : rating'[p]
           = RatingAfterMatch(rating[p], row.new[p], row.place[p], row.playedAt)
  BY <1>2 DEF Publish, Fits, Submitted, Counts, Added
<1>4. IsMatchRow(row)
  BY <1>2 DEF LedgerInvariant, TypeOK
<1> HIDE DEF row
<1>5. Atomic!Records(row, NoMatch)
  <2>1. row.place \in ValidPlacements
    BY <1>4 DEF IsMatchRow
  <2>2. QED
    BY <1>2, <1>4, <2>1, SameRows DEF Atomic!Records, Atomic!Playable
<1>6. row.old = [p \in DOMAIN row.place |-> rating[p].skill]
  <2>1. row.old \in [DOMAIN row.place -> StorableSkill]
    BY <1>4 DEF IsMatchRow
  <2>2. QED
    BY <1>3, <2>1
<1>7. matches' = Overlay(matches, [x \in {m} |-> row])
  <2>1. matches' = [x \in DOMAIN matches' |-> matches'[x]]
    BY DEF Publish, Overlay
  <2>2. QED
    BY <1>2, <2>1 DEF Overlay, row
<1>8. rating' = [p \in DOMAIN rating |->
        IF p \in DOMAIN row.place
        THEN RatingAfterMatch(rating[p], row.new[p], row.place[p], row.playedAt)
        ELSE rating[p]]
  <2>1. rating' = [p \in DOMAIN rating' |-> rating'[p]]
    BY DEF Publish, Overlay
  <2>2. QED
    BY <1>2, <1>3, <2>1
<1>9. active' = active
  BY DEF Publish
<1>10. Atomic!Submit(m)
  BY <1>2, <1>3, <1>5, <1>6, <1>7, <1>8, <1>9, SameOverlay, SameRows DEF Atomic!Submit, row
<1>11. QED
  BY <1>2, <1>10

\* after says of a match what before says, up to the snapshots of a confirmed one.
Redone(after, before) ==
  /\ SameMatch(after, before) /\ after.status = before.status
  /\ before.status = "voided" => after = before

LEMMA SnapshotsReplaced ==
  ASSUME NEW after, NEW before, IsMatchRow(after), IsMatchRow(before), Redone(after, before)
  PROVE  [after EXCEPT !.old = before.old, !.new = before.new] = before
BY DEF IsMatchRow, Redone, SameMatch

\* The commit of a replay rebuilds any history that its rows tell of.
LEMMA ReplayIsRebuild ==
  ASSUME LedgerInvariant, LedgerInvariant', NEW w \in Worker, Fits(tx[w], rating, matches),
         Counts(tx[w], rating, matches), Publish(w), tx[w].op # "submit",
         NEW history, DOMAIN matches' = DOMAIN history,
         \A m \in DOMAIN history : IsMatchRow(history[m]) /\ Redone(matches'[m], history[m])
  PROVE  Atomic!Rebuild(history)
<1> DEFINE done == Confirmed(history)
<1>1. \A m \in DOMAIN history :
        /\ m \notin done => matches'[m] = history[m]
        /\ [matches'[m] EXCEPT !.old = history[m].old, !.new = history[m].new] = history[m]
  <2>1. \A m \in DOMAIN history : IsMatchRow(matches'[m])
    BY DEF LedgerInvariant, TypeOK
  <2>2. ASSUME NEW m \in DOMAIN history
        PROVE  [matches'[m] EXCEPT !.old = history[m].old, !.new = history[m].new] = history[m]
    BY <2>1, SnapshotsReplaced
  <2>3. ASSUME NEW m \in DOMAIN history, m \notin done PROVE matches'[m] = history[m]
    BY <2>3 DEF Confirmed, IsMatchRow, Redone
  <2>4. QED
    BY <2>2, <2>3
<1>2. Confirmed(matches') = done
  BY DEF Confirmed, Redone
<1>3. \A p : Of(history, done, p) = Of(matches', done, p)
  BY DEF Of, Redone, SameMatch, Confirmed
<1>4. /\ CountersHold(rating', matches') /\ DOMAIN rating' = DOMAIN rating
      /\ \A p \in DOMAIN tx[w].ratings : rating'[p] = tx[w].ratings[p]
      /\ \A p \in DOMAIN rating \ DOMAIN tx[w].ratings :
           /\ rating'[p] = rating[p] /\ rating[p] = FreshRating(InsertSkill)
           /\ Of(matches', done, p) = {}
  BY <1>2, ReplayKeepsCounters
<1>5. /\ SnapshotsChain(matches', done, Defaults)
      /\ \A p \in DOMAIN tx[w].ratings :
           tx[w].ratings[p].skill = SkillAfter(matches', Of(matches', done, p), p, DefaultSkill)
  <2>1. /\ tx[w].pc = "writing" /\ tx[w].todo = {}
        /\ matches' = Overlay(matches, tx[w].rows)
    BY DEF Publish
  <2>2. Replayed(tx[w], matches') /\ Confirmed(matches') \ tx[w].todo = done
    BY <1>2, <2>1 DEF Fits
  <2>3. QED
    BY <2>2 DEF Replayed
<1> HIDE DEF done
<1>6. Atomic!SnapshotsChain(matches', done, [p \in Player |-> DefaultSkill])
  BY <1>5, SameSnapshots DEF Defaults
<1>7. ASSUME NEW p \in DOMAIN rating
      PROVE  \/ /\ rating'[p].skill
                     = Atomic!SkillAfter(matches', Atomic!Of(history, done, p), p, DefaultSkill)
                /\ Atomic!CountersAgree(matches', Atomic!Of(history, done, p), p, rating'[p])
             \/ /\ Atomic!Of(history, done, p) = {}
                /\ rating'[p] = rating[p] /\ rating[p] = Atomic!FreshRating(InsertSkill)
  <2>1. Atomic!Of(history, done, p) = Of(matches', done, p)
    BY <1>3, SameHistory
  <2>2. CASE p \in DOMAIN tx[w].ratings
    <3>1. rating'[p].skill = SkillAfter(matches', Of(matches', done, p), p, DefaultSkill)
      BY <1>4, <1>5, <2>2
    <3>2. CountersAgree(matches', Of(matches', done, p), p, rating'[p])
      BY <1>2, <1>4, CountersAreCounted DEF CountersHold
    <3>3. Atomic!CountersAgree(matches', Of(matches', done, p), p, rating'[p])
      BY <3>2, SameCounters
    <3>4. QED
      BY <2>1, <3>1, <3>3, SameSkills
  <2>3. CASE p \notin DOMAIN tx[w].ratings
    BY <1>4, <2>1, <2>3, SameRows
  <2>4. QED
    BY <2>2, <2>3
<1>8. active' = active
  BY DEF Publish
<1>9. Atomic!Confirmed(history) = done
  BY SameHistory DEF done
<1>10. QED
  BY <1>1, <1>4, <1>6, <1>7, <1>8, <1>9 DEF Atomic!Rebuild

\* A match that the request neither voids nor adds is as it was, or rated anew.
LEMMA OthersRedone ==
  ASSUME LedgerInvariant, NEW w \in Worker, matches' = Overlay(matches, tx[w].rows),
         NEW k \in DOMAIN matches,
         k \in DOMAIN tx[w].rows => k \in Rewritten(w)
  PROVE  IsMatchRow(matches[k]) /\ Redone(matches'[k], matches[k])
<1>1. IsMatchRow(matches[k])
  BY DEF LedgerInvariant, TypeOK
<1>2. CASE k \in DOMAIN tx[w].rows
  <2>1. matches'[k] = tx[w].rows[k]
    BY <1>2 DEF Overlay
  <2>2. QED
    BY <1>1, <1>2, <2>1 DEF Rewritten, Redone, Confirmed
<1>3. CASE k \notin DOMAIN tx[w].rows
  <2>1. matches'[k] = matches[k]
    BY <1>3 DEF Overlay
  <2>2. QED
    BY <1>1, <2>1 DEF Redone, SameMatch
<1>4. QED
  BY <1>2, <1>3

LEMMA RecalculationIsAtomic ==
  ASSUME LedgerInvariant, LedgerInvariant', NEW w \in Worker, Fits(tx[w], rating, matches),
         Counts(tx[w], rating, matches), Publish(w), tx[w].op = "recalculate"
  PROVE  Atomic!Recalculate
<1>1. matches' = Overlay(matches, tx[w].rows) /\ DOMAIN tx[w].rows \subseteq Rewritten(w)
  BY DEF Publish, LedgerInvariant, RequestFits, WritesFit, WritesFitEvent
<1>2. DOMAIN matches' = DOMAIN matches
  BY <1>1 DEF Overlay, Rewritten, Confirmed
<1>3. \A k \in DOMAIN matches : IsMatchRow(matches[k]) /\ Redone(matches'[k], matches[k])
  BY <1>1, OthersRedone
<1>4. Atomic!Rebuild(matches)
  BY <1>2, <1>3, ReplayIsRebuild
<1>5. QED
  BY <1>4 DEF Atomic!Recalculate

\* The target of a void or a correction is in the history as it was, but voided.
LEMMA TargetRedone ==
  ASSUME LedgerInvariant, LedgerInvariant', NEW w \in Worker,
         Counts(tx[w], rating, matches), Publish(w), tx[w].op \in {"void", "correct"}
  PROVE  LET m == tx[w].target
         IN  /\ m \in Confirmed(matches) /\ m \in MatchId /\ m \in DOMAIN tx[w].rows
             /\ matches'[m] = [matches[m] EXCEPT !.status = "voided"]
             /\ IsMatchRow(matches'[m]) /\ Redone(matches'[m], matches'[m])
<1> DEFINE m == tx[w].target
<1>1. m \in Confirmed(matches) /\ m \in DOMAIN tx[w].rows
  BY DEF Publish, LedgerInvariant, RequestFits, WritesFit, WritesFitEvent, VoidsTarget,
         TargetConfirmed
<1>2. tx[w].rows[m] = [matches[m] EXCEPT !.status = "voided"]
  BY DEF Publish, Counts, TargetVoided
<1>3. m \in DOMAIN matches' /\ matches'[m] = tx[w].rows[m]
  BY <1>1 DEF Publish, Overlay
<1>4. IsMatchRow(matches'[m]) /\ m \in MatchId
  BY <1>3 DEF LedgerInvariant, TypeOK
<1>5. Redone(matches'[m], matches'[m])
  BY DEF Redone, SameMatch
<1>6. QED
  BY <1>1, <1>2, <1>3, <1>4, <1>5

LEMMA VoidIsAtomic ==
  ASSUME LedgerInvariant, LedgerInvariant', NEW w \in Worker, Fits(tx[w], rating, matches),
         Counts(tx[w], rating, matches), Publish(w), tx[w].op = "void"
  PROVE  \E m \in MatchId : Atomic!Void(m)
<1> DEFINE m == tx[w].target
           voided == [x \in {m} |-> [matches[m] EXCEPT !.status = "voided"]]
           history == Overlay(matches, voided)
<1>1. /\ m \in Confirmed(matches) /\ m \in MatchId /\ m \in DOMAIN tx[w].rows
      /\ matches'[m] = voided[m] /\ IsMatchRow(matches'[m])
      /\ Redone(matches'[m], matches'[m])
  BY TargetRedone
<1>2. /\ matches' = Overlay(matches, tx[w].rows)
      /\ DOMAIN tx[w].rows \subseteq Rewritten(w) \cup {m}
  BY DEF Publish, LedgerInvariant, RequestFits, WritesFit, WritesFitEvent
<1>3. DOMAIN history = DOMAIN matches /\ DOMAIN matches' = DOMAIN matches
  BY <1>1, <1>2 DEF Overlay, Rewritten, Confirmed
<1>4. ASSUME NEW k \in DOMAIN history
      PROVE  IsMatchRow(history[k]) /\ Redone(matches'[k], history[k])
  <2>1. CASE k = m
    BY <1>1, <1>3, <2>1 DEF Overlay
  <2>2. CASE k # m
    <3>1. history[k] = matches[k] /\ k \in DOMAIN matches
      BY <1>3, <2>2 DEF Overlay
    <3>2. QED
      BY <1>2, <2>2, <3>1, OthersRedone
  <2>3. QED
    BY <2>1, <2>2
<1> HIDE DEF history
<1>5. Atomic!Rebuild(history)
  BY <1>3, <1>4, ReplayIsRebuild
<1>6. Atomic!Void(m)
  BY <1>1, <1>5, SameOverlay, SameHistory DEF Atomic!Void, Atomic!Voided, history
<1>7. QED
  BY <1>1, <1>6

LEMMA CorrectionIsAtomic ==
  ASSUME LedgerInvariant, LedgerInvariant', NEW w \in Worker, Fits(tx[w], rating, matches),
         Counts(tx[w], rating, matches), Publish(w), tx[w].op = "correct"
  PROVE  \E m, k \in MatchId : Atomic!Correct(m, k)
<1> DEFINE m == tx[w].target
           voided == [x \in {m} |-> [matches[m] EXCEPT !.status = "voided"]]
<1>1. /\ m \in Confirmed(matches) /\ m \in MatchId /\ m \in DOMAIN tx[w].rows
      /\ matches'[m] = voided[m] /\ IsMatchRow(matches'[m])
      /\ Redone(matches'[m], matches'[m])
  BY TargetRedone
<1>2. PICK k \in MatchId \ DOMAIN matches :
        /\ k \in DOMAIN tx[w].rows /\ tx[w].rows[k].status = "confirmed"
        /\ tx[w].rows[k].correctedFrom = m
        /\ DOMAIN tx[w].rows \subseteq Rewritten(w) \cup {m, k}
  BY DEF Publish, LedgerInvariant, RequestFits, WritesFit, WritesFitEvent, Inserts
<1> DEFINE added == [x \in {k} |-> matches'[k]]
           history == Overlay(matches, Overlay(voided, added))
<1>3. matches' = Overlay(matches, tx[w].rows)
  BY DEF Publish
<1>4. /\ k \in DOMAIN matches' /\ matches'[k] = tx[w].rows[k] /\ IsMatchRow(matches'[k])
      /\ k # m
  BY <1>1, <1>2, <1>3 DEF Overlay, Confirmed, LedgerInvariant, TypeOK
<1>5. DOMAIN history = DOMAIN matches \cup {k} /\ DOMAIN matches' = DOMAIN matches \cup {k}
  BY <1>1, <1>2, <1>3 DEF Overlay, Rewritten, Confirmed
<1>6. history[k] = matches'[k] /\ history[m] = voided[m]
      /\ \A j \in DOMAIN matches \ {m} : history[j] = matches[j]
  BY <1>1, <1>2, <1>4 DEF Overlay, Confirmed
<1> HIDE DEF history, voided
<1>7. ASSUME NEW j \in DOMAIN history
      PROVE  IsMatchRow(history[j]) /\ Redone(matches'[j], history[j])
  <2>1. CASE j = m
    BY <1>1, <1>6, <2>1
  <2>2. CASE j = k
    BY <1>4, <1>6, <2>2 DEF Redone, SameMatch
  <2>3. CASE j # m /\ j # k
    <3>1. history[j] = matches[j] /\ j \in DOMAIN matches
      BY <1>5, <1>6, <2>3
    <3>2. QED
      BY <1>2, <1>3, <2>3, <3>1, OthersRedone
  <2>4. QED
    BY <2>1, <2>2, <2>3
<1>8. Atomic!Rebuild(history)
  BY <1>5, <1>7, ReplayIsRebuild
<1>9. Atomic!Records(matches'[k], m)
  <2>1. matches'[k].place \in ValidPlacements
    BY <1>4 DEF IsMatchRow
  <2>2. DOMAIN matches'[k].place \subseteq DOMAIN rating
    BY <1>2, <1>4 DEF LedgerInvariant, RequestFits, PlayersKnown
  <2>3. QED
    BY <1>2, <1>4, <2>1, <2>2, SameRows DEF Atomic!Records, Atomic!Playable
<1>10. Atomic!Correct(m, k)
  BY <1>1, <1>2, <1>4, <1>8, <1>9, SameOverlay, SameHistory
  DEF Atomic!Correct, Atomic!Voided, history, voided
<1>11. QED
  BY <1>1, <1>2, <1>10

\* Every step of the ledger is one of the atomic ledger, or changes nothing there.
LEMMA StepsAreAtomic ==
  CountingInvariant /\ [Next]_vars => [Atomic!Next]_(Atomic!vars)
<1> SUFFICES ASSUME CountingInvariant, [Next]_vars PROVE [Atomic!Next]_(Atomic!vars)
  OBVIOUS
<1>1. /\ LedgerInvariant /\ LedgerInvariant'
      /\ \A v \in Worker : Fits(tx[v], rating, matches) /\ Counts(tx[v], rating, matches)
  BY DerivationStep DEF CountingInvariant, DerivationInvariant
<1>2. ASSUME UNCHANGED <<active, rating, matches>> PROVE UNCHANGED Atomic!vars
  BY <1>2 DEF Atomic!vars
<1>3. ASSUME NEW w \in Worker, Publish(w) PROVE Atomic!Next
  <2>1. tx[w].op \in {"submit", "void", "correct", "recalculate"}
    BY <1>1, <1>3 DEF LedgerInvariant, RequestFits, WritesFit, WritesFitEvent, Publish
  <2>2. QED
    BY <1>1, <1>3, <2>1, SubmissionIsAtomic, VoidIsAtomic, CorrectionIsAtomic,
       RecalculationIsAtomic DEF Atomic!Next
<1>4. ASSUME NEW p \in Player, CreatePlayer(p) PROVE Atomic!CreatePlayer(p)
  BY <1>4, SameOverlay, SameRows DEF CreatePlayer, Atomic!CreatePlayer
<1>5. ASSUME NEW p \in Player, SetActive(p) PROVE Atomic!SetActive(p)
  BY <1>5 DEF SetActive, Atomic!SetActive
<1>6. ASSUME NEW w \in Worker, Request(w) \/ AcquireLock(w) \/ Advance(w) \/ Fails(w)
      PROVE  UNCHANGED <<active, rating, matches>> \/ Publish(w)
  BY <1>6 DEF Request, BeginSubmit, BeginVoid, BeginCorrect, StartRecalculation, Begin,
     AcquireLock, Advance, BeginRecalculation, LoadAndValidate, RejectNewMatch, SubmitWrite,
     SubmitRefused, VoidWrite, RejectVoid, CorrectWrite, RecalculateWrite, StartReplay,
     ReplayMatch, ReplayRefused, Commit, MarkFailed, Fails, CommitUnacknowledged,
     StatementFails, MarkFailedLost, Drop, Abort, tables
<1>7. CASE Tick \/ UNCHANGED vars
  BY <1>2, <1>7 DEF Tick, vars, tables
<1>8. QED
  BY <1>2, <1>3, <1>4, <1>5, <1>6, <1>7 DEF Next, Atomic!Next

\* The ledger implements the atomic one: through its committed tables every request
\* is seen to take effect in one step or not at all, and every void, correction and
\* recalculation ends in the ratings and snapshots that the history defines.
THEOREM LedgerIsAtomic == Spec => ImplementsAtomicLedger
<1>1. Init => Atomic!Init
  BY SameRows DEF Init, Atomic!Init
<1>2. QED
  BY <1>1, StepsAreAtomic, CountingHolds, PTL DEF Spec, ImplementsAtomicLedger, Atomic!Spec

-----------------------------------------------------------------------------
(* The read requests *)

\* The columns of match_players.
SameSheet(a, b) == a.place = b.place /\ a.old = b.old /\ a.new = b.new

\* What get_match has found of its match: the row as it is now, or as it was
\* before it was voided, which left match_players alone.
FoundFits ==
  LET now == matches[get.match]
  IN  \/ MatchResult(now) = get.header
      \/ /\ now.status = "voided"
         /\ \E row \in get.seen : MatchResult(row) = get.header /\ SameSheet(row, now)

GetInvariant ==
  /\ get \in [at : {"idle", "asked", "found", "done"}, match : {get.match},
              header : {get.header}, answer : {get.answer}, seen : {get.seen}]
  /\ get.at \in {"asked", "found"} => Versions(matches, get.match) \subseteq get.seen /\ get.answer = <<>>
  /\ get.at = "found" => get.match \in DOMAIN matches /\ FoundFits
  /\ AnswersAreSnapshots

LEMMA SameParticipants ==
  ASSUME NEW a, NEW b, SameSheet(a, b)
  PROVE  MatchParticipants(a) = MatchParticipants(b)
BY DEF SameSheet, MatchParticipants

\* A commit leaves a row's status as it is, or voids it and leaves its snapshots.
LEMMA CommitTurnsRow ==
  ASSUME LedgerInvariant, LedgerInvariant', NEW w \in Worker,
         Counts(tx[w], rating, matches), Publish(w), NEW m \in DOMAIN matches
  PROVE  \/ MatchResult(matches'[m]) = MatchResult(matches[m])
         \/ matches'[m].status = "voided" /\ SameSheet(matches[m], matches'[m])
<1>1. matches' = Overlay(matches, tx[w].rows) /\ WritesFitEvent(w)
  BY DEF Publish, LedgerInvariant, RequestFits, WritesFit
<1>2. SameMatch(matches'[m], matches[m]) /\ IsMatchRow(matches[m])
  BY CommitKeepsRows DEF LedgerInvariant, TypeOK
<1>3. CASE m \notin DOMAIN tx[w].rows
  BY <1>1, <1>3 DEF Overlay
<1>4. CASE m \in Rewritten(w)
  <2>1. matches'[m].status = matches[m].status
    BY <1>1, <1>4 DEF Overlay, Rewritten, Confirmed
  <2>2. QED
    BY <1>2, <2>1 DEF MatchResult, SameMatch
<1>5. CASE m = tx[w].target /\ tx[w].op \in {"void", "correct"}
  <2>1. matches'[m] = [matches[m] EXCEPT !.status = "voided"]
    BY <1>5, TargetRedone
  <2>2. QED
    BY <1>2, <2>1 DEF IsMatchRow, SameSheet
<1>6. QED
  BY <1>1, <1>3, <1>4, <1>5 DEF WritesFitEvent, Inserts

\* What a step of the ledger does to the match asked for is told by seen, and by
\* whether it was voided.
LEMMA LedgerKeepsGet ==
  ASSUME CountingInvariant, GetInvariant, LedgerMoves
  PROVE  GetInvariant'
<1>1. /\ LedgerInvariant /\ LedgerInvariant'
      /\ \A w \in Worker : Counts(tx[w], rating, matches)
  BY DerivationStep DEF CountingInvariant, DerivationInvariant, LedgerMoves
<1>2. CASE get.at \notin {"asked", "found"}
  <2>1. get' = get
    BY <1>2 DEF LedgerMoves
  <2>2. QED
    BY <1>2, <2>1 DEF GetInvariant, AnswersAreSnapshots
<1>3. CASE get.at \in {"asked", "found"}
  <2> DEFINE m == get.match
             more == get.seen \cup Versions(matches', m)
  <2>1. get' = [get EXCEPT !.seen = more]
    BY <1>3 DEF LedgerMoves
  <2>2. /\ get'.at = get.at /\ get'.match = m /\ get'.header = get.header
        /\ get'.answer = get.answer /\ get'.seen = more
        /\ get' \in [at : {"idle", "asked", "found", "done"}, match : {get'.match},
                     header : {get'.header}, answer : {get'.answer}, seen : {get'.seen}]
    BY <2>1 DEF GetInvariant
  <2>3. AnswersAreSnapshots'
    BY <1>3, <2>2 DEF AnswersAreSnapshots
  <2>4. ASSUME get.at = "found"
        PROVE  m \in DOMAIN matches' /\ FoundFits'
    <3>1. m \in DOMAIN matches /\ FoundFits /\ matches[m] \in get.seen
      BY <2>4 DEF GetInvariant, Versions
    <3>2. CASE UNCHANGED matches
      BY <2>2, <3>1, <3>2 DEF FoundFits
    <3>3. ASSUME NEW w \in Worker, Publish(w)
          PROVE  m \in DOMAIN matches' /\ FoundFits'
      <4>1. /\ m \in DOMAIN matches'
            /\ matches[m].status = "voided" => matches'[m] = matches[m]
        BY <1>1, <3>1, <3>3, CommitKeepsRows
      <4>2. \/ MatchResult(matches'[m]) = MatchResult(matches[m])
            \/ matches'[m].status = "voided" /\ SameSheet(matches[m], matches'[m])
        BY <1>1, <3>1, <3>3, CommitTurnsRow
      <4>3. CASE MatchResult(matches[m]) = get.header
        BY <2>2, <3>1, <4>1, <4>2, <4>3 DEF FoundFits
      <4>4. CASE matches[m].status = "voided"
        BY <2>2, <3>1, <4>1, <4>4 DEF FoundFits
      <4>5. QED
        BY <3>1, <4>1, <4>3, <4>4 DEF FoundFits
    <3>4. QED
      BY <3>2, <3>3, OnlyCommitWritesMatches DEF LedgerMoves
  <2>5. QED
    BY <2>2, <2>3, <2>4 DEF GetInvariant
<1>4. QED
  BY <1>2, <1>3

LEMMA GetStep ==
  ASSUME CountingInvariant, GetInvariant, [ReadNext]_readVars
  PROVE  GetInvariant'
<1>1. CASE AskMatch
  <2>1. PICK m \in Asked : get' = [IdleGet EXCEPT !.at = "asked", !.match = m,
                                                  !.seen = Versions(matches, m)]
    BY <1>1 DEF AskMatch
  <2>2. matches' = matches
    BY <1>1 DEF AskMatch, vars
  <2>3. QED
    BY <2>1, <2>2 DEF IdleGet, GetInvariant, AnswersAreSnapshots
<1>2. CASE FindMatch
  <2>1. /\ get.at = "asked" /\ get.match \in DOMAIN matches /\ matches' = matches
        /\ get' = [get EXCEPT !.at = "found", !.header = MatchResult(matches[get.match])]
    BY <1>2 DEF FindMatch, vars
  <2>2. /\ get'.at = "found" /\ get'.match = get.match /\ get'.seen = get.seen
        /\ get'.header = MatchResult(matches[get.match])
        /\ get' \in [at : {"idle", "asked", "found", "done"}, match : {get'.match},
                     header : {get'.header}, answer : {get'.answer}, seen : {get'.seen}]
    BY <2>1 DEF GetInvariant
  <2>3. QED
    BY <2>1, <2>2 DEF GetInvariant, FoundFits, AnswersAreSnapshots
<1>3. CASE MatchNotFound
  <2>1. get.at = "asked" /\ get' = [get EXCEPT !.at = "done"]
    BY <1>3 DEF MatchNotFound
  <2>2. /\ get'.at = "done" /\ get'.answer = <<>>
        /\ get' \in [at : {"idle", "asked", "found", "done"}, match : {get'.match},
                     header : {get'.header}, answer : {get'.answer}, seen : {get'.seen}]
    BY <2>1 DEF GetInvariant
  <2>3. QED
    BY <2>2 DEF GetInvariant, AnswersAreSnapshots
<1>4. CASE ListParticipants
  <2> DEFINE m == get.match
             answer == MatchDetail(get.header, MatchParticipants(matches[m]))
  <2>1. get.at = "found" /\ get' = [get EXCEPT !.at = "done", !.answer = answer]
    BY <1>4 DEF ListParticipants
  <2> HIDE DEF answer
  <2>2. /\ get'.at = "done" /\ get'.seen = get.seen /\ get'.answer = answer
        /\ get' \in [at : {"idle", "asked", "found", "done"}, match : {get'.match},
                     header : {get'.header}, answer : {get'.answer}, seen : {get'.seen}]
    BY <2>1 DEF GetInvariant
  <2>3. m \in DOMAIN matches /\ FoundFits /\ matches[m] \in get.seen
    BY <2>1 DEF GetInvariant, Versions
  <2>4. \E row \in get.seen : MatchResult(row) = get.header /\ SameSheet(row, matches[m])
    BY <2>3 DEF FoundFits, SameSheet
  <2>5. \E row \in get.seen : answer = MatchDetail(MatchResult(row), MatchParticipants(row))
    BY <2>4, SameParticipants DEF answer
  <2>6. QED
    BY <2>2, <2>5 DEF GetInvariant, AnswersAreSnapshots
<1>5. CASE UNCHANGED readVars
  BY <1>5 DEF readVars, vars, GetInvariant, FoundFits, AnswersAreSnapshots
<1>6. QED
  BY <1>1, <1>2, <1>3, <1>4, <1>5, LedgerKeepsGet DEF ReadNext

\* The reads leave the ledger alone: all that is proved of it holds beside them.
LEMMA ReadsAreBeside == ReadSpec => Spec
<1>1. ReadInit => Init
  BY DEF ReadInit
<1>2. [ReadNext]_readVars => [Next]_vars
  BY DEF ReadNext, AskMatch, FindMatch, MatchNotFound, ListParticipants, LedgerMoves, readVars
<1>3. QED
  BY <1>1, <1>2, PTL DEF ReadSpec, Spec

\* What get_match answers is the match as it was at one moment of the request,
\* although its two queries read at different moments.
THEOREM AnswersStayWhole == ReadSpec => []AnswersAreSnapshots
<1>1. ReadInit => GetInvariant
  BY DEF ReadInit, IdleGet, GetInvariant, AnswersAreSnapshots
<1>2. ReadSpec => []CountingInvariant
  BY ReadsAreBeside, CountingHolds, PTL
<1>3. GetInvariant => AnswersAreSnapshots
  BY DEF GetInvariant
<1>4. QED
  BY <1>1, <1>2, <1>3, GetStep, PTL DEF ReadSpec

LEMMA HistoryTimed ==
  ASSUME LedgerInvariant, NEW S \in SUBSET DOMAIN matches
  PROVE  S \in SUBSET MatchId /\ Timed(matches, S)
BY TablesAssumption DEF LedgerInvariant, TypeOK, IsMatchRow, Timed

\* list_matches sorts by what ReplayBefore compares, the other way round.
LEMMA ListIsSorted ==
  ASSUME LedgerInvariant
  PROVE  LET list == MatchList(matches)
             n == Cardinality(DOMAIN matches)
         IN  /\ list \in [1..n -> DOMAIN matches] /\ n \in Nat
             /\ \A m \in DOMAIN matches : \E i \in 1..n : list[i] = m
             /\ \A i, j \in 1..n : i < j <=> ReplayBefore(matches, list[j], list[i])
<1> DEFINE S == DOMAIN matches
           ahead == [m \in S |-> {k \in S : ReplayBefore(matches, m, k)}]
           n == Cardinality(S)
           list == InOrder(ahead)
<1>1. S \in SUBSET MatchId /\ Timed(matches, S)
  BY HistoryTimed
<1>2. IsFiniteSet(S) /\ n \in Nat
  BY <1>1, TablesAssumption, FS_Subset, FS_CardinalityType
<1>3. IsOrder(ahead)
  <2>1. \A a \in S : ~ReplayBefore(matches, a, a)
    BY <1>1, BeforeIsOrder
  <2>2. \A a, b \in S : a = b \/ ReplayBefore(matches, a, b) \/ ReplayBefore(matches, b, a)
    BY <1>1, BeforeIsOrder
  <2>3. \A a, b, c \in S :
          ReplayBefore(matches, a, b) /\ ReplayBefore(matches, b, c) => ReplayBefore(matches, a, c)
    BY <1>1, BeforeIsOrder
  <2>4. DOMAIN ahead = S
    OBVIOUS
  <2>5. \A x, y \in S : x \in ahead[y] <=> ReplayBefore(matches, y, x)
    OBVIOUS
  <2>6. \A x \in S : ahead[x] \subseteq S
    OBVIOUS
  <2> HIDE DEF S, ahead
  <2>7. \A x \in S : ahead[x] \subseteq S \ {x}
    BY <2>1, <2>5, <2>6
  <2>8. \A x, y \in S : x \in ahead[y] => ahead[x] \subseteq ahead[y]
    BY <2>3, <2>5, <2>6
  <2>9. QED
    BY <1>2, <2>2, <2>4, <2>5, <2>7, <2>8 DEF IsOrder
<1>4. DOMAIN ahead = S
  OBVIOUS
<1>5. /\ list \in [1..n -> S]
      /\ \A m \in S : Cardinality(ahead[m]) + 1 \in 1..n /\ list[Cardinality(ahead[m]) + 1] = m
      /\ \A i, j \in 1..n : i < j <=> list[i] \in ahead[list[j]]
  <2> HIDE DEF ahead
  <2>1. QED
    BY <1>3, <1>4, InOrderSorts
<1>6. ASSUME NEW i \in 1..n, NEW j \in 1..n
      PROVE  i < j <=> ReplayBefore(matches, list[j], list[i])
  <2>1. list[i] \in S /\ list[j] \in S
    BY <1>5
  <2>2. list[i] \in ahead[list[j]] <=> ReplayBefore(matches, list[j], list[i])
    BY <2>1
  <2>3. QED
    BY <1>5, <2>2
<1>7. MatchList(matches) = list
  BY DEF MatchList
<1> HIDE DEF ahead, list
<1>8. QED
  BY <1>2, <1>5, <1>6, <1>7

\* As many places of the list are taken by matches of T as T has.
LEMMA PlacesOfMatches ==
  ASSUME LedgerInvariant, NEW T \in SUBSET DOMAIN matches
  PROVE  LET list == MatchList(matches)
         IN  Cardinality({i \in DOMAIN list : list[i] \in T}) = Cardinality(T)
<1> DEFINE list == MatchList(matches)
           n == Cardinality(DOMAIN matches)
           mine == {i \in 1..n : list[i] \in T}
           f == [i \in mine |-> list[i]]
<1>1. /\ list \in [1..n -> DOMAIN matches] /\ n \in Nat
      /\ \A m \in DOMAIN matches : \E i \in 1..n : list[i] = m
      /\ \A i, j \in 1..n : i < j <=> ReplayBefore(matches, list[j], list[i])
  BY ListIsSorted
<1>2. \A m \in DOMAIN matches : ~ReplayBefore(matches, m, m)
  BY HistoryTimed, BeforeIsOrder
<1> HIDE DEF list
<1>3. \A i, j \in 1..n : list[i] = list[j] => i = j
  BY <1>1, <1>2
<1>4. f \in Bijection(mine, T)
  <2>1. f \in [mine -> T]
    OBVIOUS
  <2>2. \A i, j \in mine : f[i] = f[j] => i = j
    BY <1>3
  <2>3. \A m \in T : \E i \in mine : f[i] = m
    BY <1>1
  <2> HIDE DEF f, mine
  <2>4. QED
    BY <2>1, <2>2, <2>3 DEF Bijection, Injection, Surjection, IsInjective
<1>5. ExistsBijection(mine, T)
  BY <1>4 DEF ExistsBijection
<1>6. IsFiniteSet(mine)
  <2>1. IsFiniteSet(1..n) /\ mine \subseteq 1..n
    BY <1>1, FS_Interval
  <2> HIDE DEF mine
  <2>2. QED
    BY <2>1, FS_Subset
<1>7. Cardinality(T) = Cardinality(mine)
  BY <1>5, <1>6, FS_Bijection
<1>8. mine = {i \in DOMAIN list : list[i] \in T}
  BY <1>1
<1>9. QED
  BY <1>7, <1>8 DEF list

LEMMA NewestShowsSkill ==
  ASSUME CountingInvariant, Derived(matches, rating), NEW p \in DOMAIN rating
  PROVE  LET list == MatchList(matches)
             mine == {i \in DOMAIN list : list[i] \in Of(matches, Confirmed(matches), p)}
         IN  /\ \A i \in mine : (\A j \in mine : i <= j) =>
                  matches[list[i]].new[p] = rating[p].skill
             /\ rating[p].games = Cardinality(mine)
<1> DEFINE list == MatchList(matches)
           T == Of(matches, Confirmed(matches), p)
           mine == {i \in DOMAIN list : list[i] \in T}
           n == Cardinality(DOMAIN matches)
<1>1. LedgerInvariant /\ CountersHold(rating, matches)
  BY DEF CountingInvariant, DerivationInvariant
<1>2. T \in SUBSET DOMAIN matches /\ T \in SUBSET MatchId
  BY <1>1 DEF Of, Confirmed, LedgerInvariant, TypeOK
<1>3. rating[p].games = Cardinality(mine)
  <2>1. rating[p].games = Cardinality(T)
    BY <1>1 DEF CountersHold, Counted
  <2>2. QED
    BY <1>1, <1>2, <2>1, PlacesOfMatches
<1>4. /\ list \in [1..n -> DOMAIN matches] /\ n \in Nat
      /\ \A m \in DOMAIN matches : \E i \in 1..n : list[i] = m
      /\ \A i, j \in 1..n : i < j <=> ReplayBefore(matches, list[j], list[i])
  BY <1>1, ListIsSorted
<1>5. PICK start \in [DOMAIN rating -> {InsertSkill, DefaultSkill}] :
        rating[p].skill = SkillAfter(matches, T, p, start[p])
  BY DEF Derived, DerivedFrom
<1> HIDE DEF list, T
<1>6. ASSUME NEW i \in mine, \A j \in mine : i <= j
      PROVE  matches[list[i]].new[p] = rating[p].skill
  <2>1. i \in 1..n /\ list[i] \in T
    BY <1>4
  <2>2. IsLatest(matches, T, list[i])
    <3> SUFFICES ASSUME NEW k \in T, k # list[i] PROVE ReplayBefore(matches, k, list[i])
      BY <2>1 DEF IsLatest
    <3>1. PICK j \in 1..n : list[j] = k
      BY <1>2, <1>4
    <3>2. i <= j /\ i # j
      BY <1>4, <1>6, <3>1
    <3>3. i < j
      BY <1>4, <2>1, <3>2
    <3>4. QED
      BY <1>4, <2>1, <3>1, <3>3
  <2>3. LatestOf(matches, T) = list[i]
    <3>1. Timed(matches, T)
      BY <1>1, <1>2, HistoryTimed
    <3>2. IsLatest(matches, T, LatestOf(matches, T))
      BY <1>2, <2>1, <3>1, LatestExists
    <3>3. QED
      BY <1>2, <2>2, <3>1, <3>2, BeforeIsOrder DEF IsLatest
  <2>4. QED
    BY <1>5, <2>1, <2>3 DEF SkillAfter
<1>7. QED
  BY <1>3, <1>6 DEF list, T

\* While ratings are derived from the history, the first confirmed match of a
\* player in list_matches ends in the rating that the player is shown with, and
\* the list has as many of them as the player has games.
THEOREM NewestStaysShown == ReadSpec => []NewestListedShowsRatings
<1>1. ASSUME CountingInvariant, Derived(matches, rating) PROVE NewestListedShowsRatings
  <2> SUFFICES ASSUME NEW shown \in ListPlayers(TRUE) \cup UNION {GetPlayer(p) : p \in Player}
               PROVE  LET list == MatchList(matches)
                          mine == {i \in DOMAIN list :
                                     list[i] \in Of(matches, Confirmed(matches), shown.player)}
                      IN  /\ \A i \in mine : (\A j \in mine : i <= j) =>
                               matches[list[i]].new[shown.player] = shown.skill
                          /\ shown.games = Cardinality(mine)
    BY <1>1 DEF NewestListedShowsRatings
  <2>1. \E p \in DOMAIN rating : shown = PlayerResponse(p)
    BY DEF ListPlayers, GetPlayer
  <2>2. PICK p \in DOMAIN rating : shown.player = p /\ shown.skill = rating[p].skill
                                   /\ shown.games = rating[p].games
    BY <2>1 DEF PlayerResponse
  <2>3. QED
    BY <1>1, <2>2, NewestShowsSkill
<1>2. CountingInvariant => NewestListedShowsRatings
  <2>1. CASE ~Derived(matches, rating)
    BY <2>1 DEF NewestListedShowsRatings
  <2>2. QED
    BY <1>1, <2>1
<1>3. QED
  BY <1>2, ReadsAreBeside, CountingHolds, PTL
=============================================================================
