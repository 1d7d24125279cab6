------------------------ MODULE ConnectionPoolProofs -------------------------
(***************************************************************************)
(* Proofs about ConnectionPool: somebody can always go on, and an          *)
(* exhausted pool always has a user who can, for any number of requests    *)
(* and connections and any mishaps.                                        *)
(***************************************************************************)
EXTENDS ConnectionPool, FiniteSetTheorems, SequenceTheorems, TLAPS

\* Steps of a transaction, from i on, up to its COMMIT.
ClosedFrom(s, i) ==
  \E n \in i..Len(s) :
    s[n] = "commit" /\ \A j \in i..(n - 1) : s[j] \in {"tx", "lock"}

\* Every transaction of a program commits before anything else asks the pool.
WellFormed(s) ==
  /\ s \in Seq(Step)
  /\ \A i \in DOMAIN s : s[i] = "begin" => ClosedFrom(s, i + 1)

Distinct(s) == \A i, j \in DOMAIN s : s[i] = s[j] => i = j

Waiting(s) == {s[i] : i \in DOMAIN s}

QueuesHold ==
  /\ todo \in [Request -> Seq(Step)]
  /\ kept \subseteq Request /\ borrowed \subseteq Request
  /\ queue \in Seq(Request) /\ Distinct(queue)
  /\ lockQueue \in Seq(Request) /\ Distinct(lockQueue)

\* What r has and waits for fits the rest of its program.
RequestHolds(r) ==
  /\ WellFormed(todo[r])
  /\ r \in kept => ClosedFrom(todo[r], 1)
  /\ r \in borrowed => NextIs(r, "pool")
  /\ r \in Waiting(queue) => NeedsConnection(r)
  /\ r \in Waiting(lockQueue) => r \in kept

PoolInvariant == QueuesHold /\ \A r \in Request : RequestHolds(r)

-----------------------------------------------------------------------------
(* Sequences *)

LEMMA TailCloses ==
  ASSUME NEW s \in Seq(Step), s # <<>>, NEW i \in Nat \ {0}, ClosedFrom(s, i + 1)
  PROVE  ClosedFrom(Tail(s), i)
<1>1. PICK n \in (i + 1)..Len(s) :
        s[n] = "commit" /\ \A j \in (i + 1)..(n - 1) : s[j] \in {"tx", "lock"}
  BY DEF ClosedFrom
<1>2. /\ Len(s) \in Nat /\ Len(Tail(s)) = Len(s) - 1
      /\ \A j \in 1..(Len(s) - 1) : Tail(s)[j] = s[j + 1]
  OBVIOUS
<1>3. n - 1 \in i..Len(Tail(s)) /\ Tail(s)[n - 1] = s[n]
  BY <1>1, <1>2
<1>4. ASSUME NEW j \in i..(n - 2) PROVE Tail(s)[j] \in {"tx", "lock"}
  <2>1. j + 1 \in (i + 1)..(n - 1) /\ j \in 1..(Len(s) - 1)
    BY <1>1, <1>2
  <2>2. QED
    BY <1>1, <1>2, <2>1
<1>5. QED
  BY <1>1, <1>2, <1>3, <1>4 DEF ClosedFrom

\* What is left of a program after its next step.
LEMMA TailWellFormed ==
  ASSUME NEW s, WellFormed(s), s # <<>>
  PROVE  /\ WellFormed(Tail(s))
         /\ Head(s) = "begin" => ClosedFrom(Tail(s), 1)
<1>1. s \in Seq(Step) /\ Len(s) \in Nat \ {0} /\ Head(s) = s[1]
  BY DEF WellFormed
<1>2. /\ Tail(s) \in Seq(Step) /\ DOMAIN Tail(s) = 1..(Len(s) - 1)
      /\ \A j \in 1..(Len(s) - 1) : Tail(s)[j] = s[j + 1]
  BY <1>1
<1>3. ASSUME NEW i \in DOMAIN Tail(s), Tail(s)[i] = "begin" PROVE ClosedFrom(Tail(s), i + 1)
  <2>1. i \in Nat \ {0} /\ i + 1 \in DOMAIN s /\ s[i + 1] = "begin"
    BY <1>1, <1>2, <1>3
  <2>2. ClosedFrom(s, (i + 1) + 1) /\ i + 1 \in Nat \ {0}
    BY <2>1 DEF WellFormed
  <2>3. QED
    BY <1>1, <2>2, TailCloses
<1>4. ASSUME Head(s) = "begin" PROVE ClosedFrom(Tail(s), 1)
  <2>1. 1 \in DOMAIN s /\ 1 \in Nat \ {0}
    BY <1>1
  <2>2. ClosedFrom(s, 1 + 1)
    BY <1>1, <1>4, <2>1 DEF WellFormed
  <2>3. QED
    BY <1>1, <2>1, <2>2, TailCloses
<1>5. QED
  BY <1>2, <1>3, <1>4 DEF WellFormed

\* A transaction has a next step, and ends with its COMMIT only.
LEMMA InTransaction ==
  ASSUME NEW s \in Seq(Step), ClosedFrom(s, 1)
  PROVE  /\ s # <<>> /\ Head(s) \in {"tx", "lock", "commit"}
         /\ Head(s) # "commit" => ClosedFrom(Tail(s), 1)
<1>1. PICK n \in 1..Len(s) : s[n] = "commit" /\ \A j \in 1..(n - 1) : s[j] \in {"tx", "lock"}
  BY DEF ClosedFrom
<1>2. Len(s) \in Nat /\ s # <<>> /\ Head(s) = s[1]
  BY <1>1
<1>3. CASE n = 1
  BY <1>1, <1>2, <1>3
<1>4. CASE n # 1
  <2>1. s[1] \in {"tx", "lock"} /\ n \in 2..Len(s)
    BY <1>1, <1>2, <1>4
  <2>2. ClosedFrom(s, 1 + 1)
    BY <1>1, <2>1 DEF ClosedFrom
  <2>3. ClosedFrom(Tail(s), 1)
    BY <1>2, <2>2, TailCloses
  <2>4. QED
    BY <1>2, <2>1, <2>3
<1>5. QED
  BY <1>3, <1>4

LEMMA Appended ==
  ASSUME NEW S, NEW s \in Seq(S), NEW r \in S, Distinct(s), r \notin Waiting(s)
  PROVE  /\ Append(s, r) \in Seq(S) /\ Distinct(Append(s, r))
         /\ Waiting(Append(s, r)) = Waiting(s) \cup {r}
BY DEF Distinct, Waiting

LEMMA FirstLeaves ==
  ASSUME NEW S, NEW s \in Seq(S), s # <<>>, Distinct(s)
  PROVE  /\ Tail(s) \in Seq(S) /\ Distinct(Tail(s)) /\ Head(s) \in S
         /\ Waiting(Tail(s)) = Waiting(s) \ {Head(s)} /\ Head(s) \in Waiting(s)
<1>1. Len(s) \in Nat \ {0} /\ Head(s) = s[1]
  OBVIOUS
<1>2. /\ Tail(s) \in Seq(S) /\ DOMAIN Tail(s) = 1..(Len(s) - 1)
      /\ \A j \in 1..(Len(s) - 1) : Tail(s)[j] = s[j + 1]
  BY <1>1
<1>3. Distinct(Tail(s))
  BY <1>1, <1>2 DEF Distinct
<1>4. Waiting(Tail(s)) = Waiting(s) \ {Head(s)}
  <2>1. ASSUME NEW j \in DOMAIN Tail(s) PROVE Tail(s)[j] \in Waiting(s) \ {Head(s)}
    BY <1>1, <1>2 DEF Distinct, Waiting
  <2>2. ASSUME NEW i \in DOMAIN s, s[i] # Head(s) PROVE s[i] \in Waiting(Tail(s))
    <3>1. i - 1 \in 1..(Len(s) - 1) /\ s[i] = s[(i - 1) + 1]
      BY <1>1, <2>2
    <3>2. QED
      BY <1>2, <3>1 DEF Waiting
  <2>3. QED
    BY <2>1, <2>2 DEF Waiting
<1>5. QED
  BY <1>1, <1>2, <1>3, <1>4 DEF Waiting

LEMMA Removed ==
  ASSUME NEW S, NEW s \in Seq(S), NEW r, Distinct(s)
  PROVE  /\ RemoveFirst(s, r) \in Seq(S) /\ Distinct(RemoveFirst(s, r))
         /\ Waiting(RemoveFirst(s, r)) \subseteq Waiting(s) \ {r}
<1>1. CASE ~\E i \in 1..Len(s) : s[i] = r
  BY <1>1 DEF RemoveFirst, Waiting
<1>2. ASSUME NEW k \in 1..Len(s), s[k] = r
      PROVE  /\ RemoveFirst(s, r) \in Seq(S) /\ Distinct(RemoveFirst(s, r))
             /\ Waiting(RemoveFirst(s, r)) \subseteq Waiting(s) \ {r}
  <2> DEFINE t == SubSeq(s, 1, k - 1) \o SubSeq(s, k + 1, Len(s))
  <2>1. {i \in 1..Len(s) : s[i] = r} = {k}
    BY <1>2 DEF Distinct
  <2>2. Min({k}) = k
    BY DEF Min
  <2>3. RemoveFirst(s, r) = t
    BY <1>2, <2>1, <2>2 DEF RemoveFirst, RemoveAt, SelectInSeq
  <2>4. /\ t \in Seq(S) /\ Len(t) = Len(s) - 1
        /\ \A i \in 1..(Len(s) - 1) : t[i] = IF i < k THEN s[i] ELSE s[i + 1]
    <3>1. Len(s) \in Nat /\ k \in Nat /\ k >= 1 /\ k <= Len(s)
      BY <1>2
    <3> DEFINE a == SubSeq(s, 1, k - 1)
               b == SubSeq(s, k + 1, Len(s))
    <3>2. a \in Seq(S) /\ Len(a) = k - 1 /\ \A i \in 1..(k - 1) : a[i] = s[i]
      BY <3>1
    <3>3. b \in Seq(S) /\ Len(b) = Len(s) - k /\ \A i \in 1..(Len(s) - k) : b[i] = s[k + i]
      BY <3>1
    <3> HIDE DEF a, b
    <3>4. a \o b \in Seq(S) /\ Len(a \o b) = Len(s) - 1
      <4>1. a \o b \in Seq(S) /\ Len(a \o b) = Len(a) + Len(b)
        BY <3>2, <3>3, ConcatProperties
      <4>2. QED
        BY <3>1, <3>2, <3>3, <4>1
    <3>5. ASSUME NEW i \in 1..(Len(s) - 1)
          PROVE  (a \o b)[i] = IF i < k THEN s[i] ELSE s[i + 1]
      BY <3>1, <3>2, <3>3
    <3>6. QED
      BY <3>4, <3>5 DEF a, b
  <2> HIDE DEF t
  <2>5. Distinct(t)
    <3>1. ASSUME NEW i \in 1..(Len(s) - 1), NEW j \in 1..(Len(s) - 1), t[i] = t[j]
          PROVE  i = j
      <4> DEFINE At(x) == IF x < k THEN x ELSE x + 1
      <4>1. At(i) \in DOMAIN s /\ At(j) \in DOMAIN s
        OBVIOUS
      <4>2. s[At(i)] = s[At(j)]
        BY <2>4, <3>1
      <4>3. At(i) = At(j)
        BY <4>1, <4>2 DEF Distinct
      <4>4. QED
        BY <4>3
    <3>2. DOMAIN t = 1..(Len(s) - 1)
      BY <2>4
    <3>3. QED
      BY <3>1, <3>2 DEF Distinct
  <2>6. Waiting(t) \subseteq Waiting(s) \ {r}
    BY <1>2, <2>4 DEF Distinct, Waiting
  <2>7. QED
    BY <2>3, <2>4, <2>5, <2>6
<1>3. QED
  BY <1>1, <1>2

-----------------------------------------------------------------------------
(* Programs *)

LEMMA ConcatWellFormed ==
  ASSUME NEW s, NEW t, WellFormed(s), WellFormed(t)
  PROVE  WellFormed(s \o t)
<1>1. s \in Seq(Step) /\ t \in Seq(Step) /\ Len(s) \in Nat /\ Len(t) \in Nat
  BY DEF WellFormed
<1>2. /\ s \o t \in Seq(Step) /\ Len(s \o t) = Len(s) + Len(t)
      /\ \A i \in 1..Len(s) : (s \o t)[i] = s[i]
      /\ \A i \in 1..Len(t) : (s \o t)[Len(s) + i] = t[i]
  BY <1>1, ConcatProperties
<1>3. ASSUME NEW i \in 1..Len(s), s[i] = "begin" PROVE ClosedFrom(s \o t, i + 1)
  <2>1. PICK n \in (i + 1)..Len(s) :
          s[n] = "commit" /\ \A j \in (i + 1)..(n - 1) : s[j] \in {"tx", "lock"}
    BY <1>1, <1>3 DEF WellFormed, ClosedFrom
  <2>2. /\ n \in (i + 1)..Len(s \o t) /\ (s \o t)[n] = "commit"
        /\ \A j \in (i + 1)..(n - 1) : (s \o t)[j] \in {"tx", "lock"}
    BY <1>1, <1>2, <2>1
  <2>3. QED
    BY <2>2 DEF ClosedFrom
<1>4. ASSUME NEW i \in 1..Len(t), t[i] = "begin" PROVE ClosedFrom(s \o t, Len(s) + i + 1)
  <2>1. PICK n \in (i + 1)..Len(t) :
          t[n] = "commit" /\ \A j \in (i + 1)..(n - 1) : t[j] \in {"tx", "lock"}
    BY <1>1, <1>4 DEF WellFormed, ClosedFrom
  <2>2. Len(s) + n \in (Len(s) + i + 1)..Len(s \o t) /\ (s \o t)[Len(s) + n] = "commit"
    BY <1>1, <1>2, <2>1
  <2>3. ASSUME NEW j \in (Len(s) + i + 1)..(Len(s) + n - 1)
        PROVE  (s \o t)[j] \in {"tx", "lock"}
    <3>1. j - Len(s) \in (i + 1)..(n - 1) /\ j - Len(s) \in 1..Len(t) /\ j = Len(s) + (j - Len(s))
      BY <1>1, <2>1, <2>3
    <3>2. QED
      BY <1>2, <2>1, <3>1
  <2>4. QED
    BY <2>2, <2>3 DEF ClosedFrom
<1>5. ASSUME NEW i \in DOMAIN (s \o t), (s \o t)[i] = "begin" PROVE ClosedFrom(s \o t, i + 1)
  <2>1. CASE i <= Len(s)
    BY <1>1, <1>2, <1>3, <1>5, <2>1
  <2>2. CASE i > Len(s)
    <3>1. i - Len(s) \in 1..Len(t) /\ i = Len(s) + (i - Len(s))
      BY <1>1, <1>2, <2>2
    <3>2. t[i - Len(s)] = "begin"
      BY <1>2, <1>5, <3>1
    <3>3. ClosedFrom(s \o t, Len(s) + (i - Len(s)) + 1)
      BY <1>4, <3>1, <3>2
    <3>4. QED
      BY <1>1, <3>1, <3>3
  <2>3. QED
    BY <1>1, <1>2, <2>1, <2>2
<1>6. QED
  BY <1>2, <1>5 DEF WellFormed

LEMMA PiecesWellFormed ==
  /\ WellFormed(<<>>) /\ WellFormed(<<"pool">>)
  /\ WellFormed(GetMatch) /\ WellFormed(Login)
  /\ WellFormed(LedgerTransaction) /\ WellFormed(<<"begin", "tx", "commit">>)
<1>1. WellFormed(<<>>) /\ WellFormed(<<"pool">>) /\ WellFormed(GetMatch) /\ WellFormed(Login)
  BY DEF WellFormed, Step, GetMatch, Login
<1>2. WellFormed(LedgerTransaction)
  <2> DEFINE s == <<"begin", "lock", "tx", "commit">>
  <2>1. s \in Seq(Step) /\ DOMAIN s = 1..4 /\ Len(s) = 4
    BY DEF Step
  <2>2. s[1] = "begin" /\ s[2] = "lock" /\ s[3] = "tx" /\ s[4] = "commit"
    OBVIOUS
  <2> HIDE DEF s
  <2>3. ClosedFrom(s, 1 + 1)
    BY <2>1, <2>2 DEF ClosedFrom
  <2>4. \A i \in DOMAIN s : s[i] = "begin" => i = 1
    BY <2>1, <2>2
  <2>5. WellFormed(s)
    BY <2>1, <2>3, <2>4 DEF WellFormed
  <2>6. QED
    BY <2>5 DEF s, LedgerTransaction
<1>3. WellFormed(<<"begin", "tx", "commit">>)
  <2> DEFINE s == <<"begin", "tx", "commit">>
  <2>1. s \in Seq(Step) /\ DOMAIN s = 1..3 /\ Len(s) = 3
    BY DEF Step
  <2>2. s[1] = "begin" /\ s[2] = "tx" /\ s[3] = "commit"
    OBVIOUS
  <2> HIDE DEF s
  <2>3. ClosedFrom(s, 1 + 1)
    BY <2>1, <2>2 DEF ClosedFrom
  <2>4. \A i \in DOMAIN s : s[i] = "begin" => i = 1
    BY <2>1, <2>2
  <2>5. WellFormed(s)
    BY <2>1, <2>3, <2>4 DEF WellFormed
  <2>6. QED
    BY <2>5 DEF s
<1>4. QED
  BY <1>1, <1>2, <1>3

\* No service asks the pool for anything between BEGIN and COMMIT.
LEMMA ProgramsWellFormed == \A o : WellFormed(Program(o))
<1> SUFFICES ASSUME NEW o PROVE WellFormed(Program(o))
  OBVIOUS
<1>1. WellFormed(Session(o))
  BY PiecesWellFormed DEF Session
<1>2. WellFormed(Recalculate)
  BY PiecesWellFormed, ConcatWellFormed DEF Recalculate
<1>3. \/ Service(o) \in {Login, GetMatch, LedgerTransaction, Recalculate}
      \/ Service(o) \in {<<>>, <<"pool">>, <<"begin", "tx", "commit">>}
  BY DEF Service, PlayerWrites, LedgerWrites
<1>4. WellFormed(Service(o))
  BY <1>2, <1>3, PiecesWellFormed
<1>5. QED
  BY <1>1, <1>4, ConcatWellFormed DEF Program

LEMMA RescueWellFormed == \A o, s : WellFormed(Rescue(o, s))
BY PiecesWellFormed DEF Rescue

-----------------------------------------------------------------------------
(* Steps *)

\* A request whose program and possessions a step leaves alone.
LEMMA RequestStays ==
  ASSUME NEW r \in Request, RequestHolds(r), todo'[r] = todo[r],
         r \in kept' <=> r \in kept, r \in borrowed' <=> r \in borrowed,
         r \in Waiting(queue)' => r \in Waiting(queue),
         r \in Waiting(lockQueue)' => r \in Waiting(lockQueue)
  PROVE  RequestHolds(r)'
BY DEF RequestHolds, NeedsConnection, NextIs

LEMMA DoneTo ==
  ASSUME PoolInvariant, NEW r \in Request, todo[r] # <<>>, Done(r)
  PROVE  /\ todo' \in [Request -> Seq(Step)]
         /\ todo'[r] = Tail(todo[r]) /\ WellFormed(todo'[r])
         /\ \A q \in Request \ {r} : todo'[q] = todo[q]
<1>1. WellFormed(todo[r]) /\ todo \in [Request -> Seq(Step)]
  BY DEF PoolInvariant, RequestHolds, QueuesHold
<1>2. WellFormed(Tail(todo[r])) /\ Tail(todo[r]) \in Seq(Step)
  BY <1>1, TailWellFormed DEF WellFormed
<1>3. QED
  BY <1>1, <1>2 DEF Done

LEMMA ArriveKeeps ==
  ASSUME PoolInvariant, NEW r \in Request, NEW o, Arrive(r, o)
  PROVE  PoolInvariant'
<1>1. QueuesHold /\ (\A q \in Request : RequestHolds(q)) /\ todo \in [Request -> Seq(Step)]
  BY DEF PoolInvariant, QueuesHold
<1>2. WellFormed(Program(o)) /\ Program(o) \in Seq(Step)
  BY ProgramsWellFormed DEF WellFormed
<1>3. todo' = [todo EXCEPT ![r] = Program(o)] /\ UNCHANGED <<kept, borrowed, queue, lockQueue>>
  BY DEF Arrive
<1>4. QueuesHold'
  BY <1>1, <1>2, <1>3 DEF QueuesHold, Distinct
<1>5. ASSUME NEW q \in Request PROVE RequestHolds(q)'
  <2>1. CASE q = r
    BY <1>1, <1>2, <1>3, <2>1 DEF RequestHolds, Arrive, NextIs, NeedsConnection, Waiting
  <2>2. CASE q # r
    BY <1>1, <1>3, <2>2, RequestStays DEF Waiting
  <2>3. QED
    BY <2>1, <2>2
<1>6. QED
  BY <1>4, <1>5 DEF PoolInvariant

LEMMA AskKeeps ==
  ASSUME PoolInvariant, NEW r \in Request, Ask(r)
  PROVE  PoolInvariant'
<1>1. QueuesHold /\ (\A q \in Request : RequestHolds(q)) /\ queue \in Seq(Request)
      /\ Distinct(queue)
  BY DEF PoolInvariant, QueuesHold
<1>2. r \notin Waiting(queue)
  BY DEF Ask, Queued, Waiting
<1>3. /\ queue' \in Seq(Request) /\ Distinct(queue')
      /\ Waiting(queue') = Waiting(queue) \cup {r}
  BY <1>1, <1>2, Appended DEF Ask
<1>4. QueuesHold'
  BY <1>1, <1>3 DEF Ask, QueuesHold, Distinct
<1>5. ASSUME NEW q \in Request PROVE RequestHolds(q)'
  BY <1>1, <1>3 DEF Ask, RequestHolds, NeedsConnection, NextIs, Waiting
<1>6. QED
  BY <1>4, <1>5 DEF PoolInvariant

LEMMA ConnectKeeps ==
  ASSUME PoolInvariant, Connect
  PROVE  PoolInvariant'
<1>0. Head(queue) \in Request
  BY DEF PoolInvariant, QueuesHold, Connect
<1> PICK r \in Request : r = Head(queue)
  BY <1>0
<1>1. /\ QueuesHold /\ (\A q \in Request : RequestHolds(q))
      /\ queue \in Seq(Request) /\ Distinct(queue) /\ queue # <<>>
  BY DEF PoolInvariant, QueuesHold, Connect
<1>2. /\ queue' \in Seq(Request) /\ Distinct(queue') /\ r = Head(queue)
      /\ Waiting(queue') = Waiting(queue) \ {r} /\ r \in Waiting(queue)
  BY <1>1, FirstLeaves DEF Connect
<1>3. /\ NeedsConnection(r) /\ WellFormed(todo[r]) /\ todo[r] # <<>>
      /\ r \notin kept
  <2>1. RequestHolds(r)
    BY <1>1, <1>2
  <2>2. NeedsConnection(r) /\ todo[r] \in Seq(Step)
    BY <1>2, <2>1 DEF RequestHolds, WellFormed
  <2>3. r \notin kept
    BY <2>1, <2>2, InTransaction DEF RequestHolds, NeedsConnection, NextIs
  <2>4. QED
    BY <2>1, <2>2, <2>3 DEF RequestHolds, NeedsConnection, NextIs
<1>4. CASE NextIs(r, "begin")
  <2>1. kept' = kept \cup {r} /\ Done(r) /\ UNCHANGED <<borrowed, lockQueue>>
    BY <1>4 DEF Connect
  <2>2. /\ todo' \in [Request -> Seq(Step)]
        /\ todo'[r] = Tail(todo[r]) /\ WellFormed(todo'[r])
        /\ \A q \in Request \ {r} : todo'[q] = todo[q]
    BY <1>2, <1>3, <2>1, DoneTo
  <2>3. ClosedFrom(todo'[r], 1)
    BY <1>3, <1>4, <2>2, TailWellFormed DEF NextIs
  <2>4. QueuesHold'
    BY <1>1, <1>2, <2>1, <2>2 DEF QueuesHold, Distinct
  <2>5. RequestHolds(r)'
    BY <1>1, <1>2, <1>4, <2>1, <2>2, <2>3 DEF RequestHolds, NextIs, Waiting
  <2>6. ASSUME NEW q \in Request, q # r PROVE RequestHolds(q)'
    BY <1>1, <1>2, <2>1, <2>2, <2>6, RequestStays DEF Waiting
  <2>7. QED
    BY <2>4, <2>5, <2>6 DEF PoolInvariant
<1>5. CASE ~NextIs(r, "begin")
  <2>1. borrowed' = borrowed \cup {r} /\ UNCHANGED <<kept, todo, lockQueue>>
    BY <1>5 DEF Connect
  <2>2. NextIs(r, "pool")
    BY <1>3, <1>5 DEF NeedsConnection
  <2>3. QueuesHold'
    BY <1>1, <1>2, <2>1 DEF QueuesHold, Distinct
  <2>4. RequestHolds(r)'
    BY <1>1, <1>2, <2>1, <2>2 DEF RequestHolds, NextIs, Waiting
  <2>5. ASSUME NEW q \in Request, q # r PROVE RequestHolds(q)'
    BY <1>1, <1>2, <2>1, <2>5, RequestStays DEF Waiting
  <2>6. QED
    BY <2>3, <2>4, <2>5 DEF PoolInvariant
<1>6. QED
  BY <1>4, <1>5

LEMMA StatementKeeps ==
  ASSUME PoolInvariant, NEW r \in Request, Statement(r)
  PROVE  PoolInvariant'
<1>1. QueuesHold /\ (\A q \in Request : RequestHolds(q)) /\ todo[r] \in Seq(Step)
  BY DEF PoolInvariant, QueuesHold
<1>2. NextIs(r, "pool") /\ todo[r] # <<>>
  BY <1>1 DEF RequestHolds, Statement, NextIs
<1>3. r \notin kept /\ r \notin Waiting(queue) /\ r \notin Waiting(lockQueue)
  BY <1>1, <1>2, InTransaction DEF RequestHolds, NextIs, NeedsConnection, Statement
<1>4. /\ todo' \in [Request -> Seq(Step)] /\ WellFormed(todo'[r])
      /\ \A q \in Request \ {r} : todo'[q] = todo[q]
  BY <1>2, DoneTo DEF Statement
<1>5. borrowed' = borrowed \ {r} /\ UNCHANGED <<kept, queue, lockQueue>>
  BY DEF Statement
<1>6. QueuesHold'
  BY <1>1, <1>4, <1>5 DEF QueuesHold, Distinct
<1>7. RequestHolds(r)'
  BY <1>3, <1>4, <1>5 DEF RequestHolds, Waiting
<1>8. ASSUME NEW q \in Request, q # r PROVE RequestHolds(q)'
  BY <1>1, <1>4, <1>5, <1>8, RequestStays DEF Waiting
<1>9. QED
  BY <1>6, <1>7, <1>8 DEF PoolInvariant

LEMMA AskLockKeeps ==
  ASSUME PoolInvariant, NEW r \in Request, AskLock(r)
  PROVE  PoolInvariant'
<1>1. QueuesHold /\ (\A q \in Request : RequestHolds(q)) /\ lockQueue \in Seq(Request)
      /\ Distinct(lockQueue)
  BY DEF PoolInvariant, QueuesHold
<1>2. r \notin Waiting(lockQueue) /\ r \in kept
  BY DEF AskLock, WaitsForLock, Waiting
<1>3. /\ lockQueue' \in Seq(Request) /\ Distinct(lockQueue')
      /\ Waiting(lockQueue') = Waiting(lockQueue) \cup {r}
  BY <1>1, <1>2, Appended DEF AskLock
<1>4. QueuesHold'
  BY <1>1, <1>3 DEF AskLock, QueuesHold, Distinct
<1>5. ASSUME NEW q \in Request PROVE RequestHolds(q)'
  BY <1>1, <1>2, <1>3 DEF AskLock, RequestHolds, NeedsConnection, NextIs, Waiting
<1>6. QED
  BY <1>4, <1>5 DEF PoolInvariant

\* The lock is taken, or a statement of the transaction is answered.
LEMMA TransactKeeps ==
  ASSUME PoolInvariant, NEW r \in Request, TakeLock(r) \/ Transact(r)
  PROVE  PoolInvariant'
<1>1. QueuesHold /\ (\A q \in Request : RequestHolds(q)) /\ todo[r] \in Seq(Step)
  BY DEF PoolInvariant, QueuesHold
<1>2. r \in kept /\ todo[r] # <<>> /\ Head(todo[r]) \in {"lock", "tx"} /\ Done(r)
      /\ UNCHANGED <<kept, borrowed, queue, lockQueue>>
  BY DEF TakeLock, Transact, WaitsForLock, NextIs
<1>3. r \notin borrowed /\ r \notin Waiting(queue) /\ ClosedFrom(Tail(todo[r]), 1)
  BY <1>1, <1>2, InTransaction DEF RequestHolds, NextIs, NeedsConnection
<1>4. /\ todo' \in [Request -> Seq(Step)] /\ WellFormed(todo'[r])
      /\ todo'[r] = Tail(todo[r]) /\ \A q \in Request \ {r} : todo'[q] = todo[q]
  BY <1>2, DoneTo
<1>5. QueuesHold'
  BY <1>1, <1>2, <1>4 DEF QueuesHold, Distinct
<1>6. RequestHolds(r)'
  BY <1>2, <1>3, <1>4 DEF RequestHolds, Waiting
<1>7. ASSUME NEW q \in Request, q # r PROVE RequestHolds(q)'
  BY <1>1, <1>2, <1>4, <1>7, RequestStays DEF Waiting
<1>8. QED
  BY <1>5, <1>6, <1>7 DEF PoolInvariant

\* Every way to give back what r has: COMMIT, an error, a timeout, a drop.
LEMMA LeavesKeeps ==
  ASSUME PoolInvariant, NEW r \in Request, kept' = kept \ {r}, Releases(r),
         todo' \in [Request -> Seq(Step)], WellFormed(todo'[r]),
         \A q \in Request \ {r} : todo'[q] = todo[q],
         borrowed' = borrowed \ {r} \/ (UNCHANGED borrowed /\ r \notin borrowed),
         \/ queue' = RemoveFirst(queue, r)
         \/ UNCHANGED queue /\ r \notin Waiting(queue)
  PROVE  PoolInvariant'
<1>1. /\ QueuesHold /\ (\A q \in Request : RequestHolds(q))
      /\ queue \in Seq(Request) /\ Distinct(queue)
      /\ lockQueue \in Seq(Request) /\ Distinct(lockQueue)
  BY DEF PoolInvariant, QueuesHold
<1>2. /\ lockQueue' \in Seq(Request) /\ Distinct(lockQueue')
      /\ Waiting(lockQueue') \subseteq Waiting(lockQueue) \ {r}
  BY <1>1, Removed DEF Releases
<1>3. /\ queue' \in Seq(Request) /\ Distinct(queue')
      /\ Waiting(queue') \subseteq Waiting(queue) \ {r}
  BY <1>1, Removed
<1>4. QueuesHold'
  BY <1>1, <1>2, <1>3 DEF QueuesHold, Distinct
<1>5. RequestHolds(r)'
  BY <1>2, <1>3 DEF RequestHolds, Waiting
<1>6. ASSUME NEW q \in Request, q # r PROVE RequestHolds(q)'
  BY <1>1, <1>2, <1>3, <1>6, RequestStays DEF Waiting
<1>7. QED
  BY <1>4, <1>5, <1>6 DEF PoolInvariant

LEMMA CommitKeeps ==
  ASSUME PoolInvariant, NEW r \in Request, Commit(r)
  PROVE  PoolInvariant'
<1>1. RequestHolds(r) /\ todo[r] # <<>> /\ Head(todo[r]) = "commit"
  BY DEF PoolInvariant, Commit, NextIs
<1>2. r \notin borrowed /\ r \notin Waiting(queue)
  BY <1>1 DEF RequestHolds, NextIs, NeedsConnection
<1>3. /\ todo' \in [Request -> Seq(Step)] /\ WellFormed(todo'[r])
      /\ \A q \in Request \ {r} : todo'[q] = todo[q]
  BY <1>1, DoneTo DEF Commit
<1>4. kept' = kept \ {r} /\ Releases(r) /\ UNCHANGED <<borrowed, queue>>
  BY DEF Commit
<1>5. QED
  BY <1>2, <1>3, <1>4, LeavesKeeps

LEMMA MishapKeeps ==
  ASSUME PoolInvariant, NEW r \in Request, Fail(r) \/ TimeOut(r)
  PROVE  PoolInvariant'
<1>1. RequestHolds(r) /\ todo \in [Request -> Seq(Step)]
  BY DEF PoolInvariant, QueuesHold
<1>2. /\ todo' \in [Request -> Seq(Step)] /\ WellFormed(todo'[r])
      /\ \A q \in Request \ {r} : todo'[q] = todo[q]
  <2>1. todo' = [todo EXCEPT ![r] = Rescue(op[r], todo[r])]
    BY DEF Fail, TimeOut
  <2>2. WellFormed(Rescue(op[r], todo[r])) /\ Rescue(op[r], todo[r]) \in Seq(Step)
    BY RescueWellFormed DEF WellFormed
  <2>3. QED
    BY <1>1, <2>1, <2>2
<1>3. CASE Fail(r)
  <2>1. r \notin Waiting(queue)
    BY <1>1, <1>3 DEF Fail, RequestHolds, NeedsConnection, NextIs, Queued, Waiting
  <2>2. kept' = kept \ {r} /\ Releases(r) /\ borrowed' = borrowed \ {r} /\ UNCHANGED queue
    BY <1>3 DEF Fail
  <2>3. QED
    BY <1>2, <2>1, <2>2, LeavesKeeps
<1>4. CASE TimeOut(r)
  <2>1. r \notin borrowed
    BY <1>1, <1>4 DEF TimeOut, RequestHolds, NeedsConnection, NextIs, Queued, Waiting
  <2>2. kept' = kept \ {r} /\ Releases(r) /\ UNCHANGED borrowed /\ queue' = RemoveFirst(queue, r)
    BY <1>4 DEF TimeOut
  <2>3. QED
    BY <1>2, <2>1, <2>2, LeavesKeeps
<1>5. QED
  BY <1>3, <1>4

LEMMA DropKeeps ==
  ASSUME PoolInvariant, NEW r \in Request, Drop(r)
  PROVE  PoolInvariant'
<1>1. /\ QueuesHold /\ (\A q \in Request : RequestHolds(q))
      /\ queue \in Seq(Request) /\ Distinct(queue) /\ todo \in [Request -> Seq(Step)]
  BY DEF PoolInvariant, QueuesHold
<1>2. queue' = RemoveFirst(queue, r) /\ borrowed' = borrowed \ {r}
  BY DEF Drop
<1>3. CASE WaitsForLock(r)
  <2> DEFINE s == <<"lock", "commit">>
  <2>1. /\ s \in Seq(Step) /\ WellFormed(s)
    BY DEF WellFormed, Step
  <2>2. Len(s) = 2 /\ s[1] = "lock" /\ s[2] = "commit"
    OBVIOUS
  <2>3. todo' = [todo EXCEPT ![r] = s] /\ UNCHANGED <<kept, lockQueue>> /\ r \in kept
    BY <1>3 DEF Drop, WaitsForLock
  <2> HIDE DEF s
  <2>4. ClosedFrom(s, 1)
    BY <2>2 DEF ClosedFrom
  <2>5. /\ queue' \in Seq(Request) /\ Distinct(queue')
        /\ Waiting(queue') \subseteq Waiting(queue) \ {r}
    BY <1>1, <1>2, Removed
  <2>6. QueuesHold'
    BY <1>1, <1>2, <2>1, <2>3, <2>5 DEF QueuesHold, Distinct
  <2>7. RequestHolds(r)'
    BY <1>1, <1>2, <2>1, <2>3, <2>4, <2>5 DEF RequestHolds, Waiting
  <2>8. ASSUME NEW q \in Request, q # r PROVE RequestHolds(q)'
    BY <1>1, <1>2, <2>3, <2>5, <2>8, RequestStays DEF Waiting
  <2>9. QED
    BY <2>6, <2>7, <2>8 DEF PoolInvariant
<1>4. CASE ~WaitsForLock(r)
  <2>1. todo' = [todo EXCEPT ![r] = <<>>] /\ kept' = kept \ {r} /\ Releases(r)
    BY <1>4 DEF Drop
  <2>2. WellFormed(<<>>) /\ <<>> \in Seq(Step)
    BY PiecesWellFormed
  <2>3. QED
    BY <1>1, <1>2, <2>1, <2>2, LeavesKeeps
<1>5. QED
  BY <1>3, <1>4

LEMMA PoolInvariantHolds == Spec => []PoolInvariant
<1>1. Init => PoolInvariant
  BY PiecesWellFormed DEF Init, PoolInvariant, QueuesHold, RequestHolds, Distinct, Waiting
<1>2. PoolInvariant /\ [Next]_vars => PoolInvariant'
  <2> SUFFICES ASSUME PoolInvariant, [Next]_vars PROVE PoolInvariant'
    OBVIOUS
  <2>1. ASSUME UNCHANGED <<todo, kept, borrowed, queue, lockQueue>> PROVE PoolInvariant'
    BY <2>1 DEF PoolInvariant, QueuesHold, RequestHolds, Distinct, Waiting, NextIs,
                NeedsConnection
  <2>2. CASE UNCHANGED vars
    BY <2>1, <2>2 DEF vars
  <2>3. ASSUME NEW r \in Request, Proceed(r) PROVE PoolInvariant'
    BY <2>1, <2>3, AskKeeps, StatementKeeps, AskLockKeeps, TransactKeeps, CommitKeeps
       DEF Proceed, Return
  <2>4. QED
    BY <2>2, <2>3, ConnectKeeps, ArriveKeeps, MishapKeeps, DropKeeps DEF Next
<1>3. QED
  BY <1>1, <1>2, PTL DEF Spec

\* Who has the advisory lock, or is the first to get it, can go on.
LEMMA LockIsServed ==
  ASSUME PoolInvariant, NEW r \in kept
  PROVE  \E q \in Request : CanGoOn(q)
<1>1. QueuesHold /\ \A q \in Request : RequestHolds(q)
  BY DEF PoolInvariant
<1>2. ASSUME NEW q \in kept
      PROVE  q \in Request /\ (NextIs(q, "tx") \/ NextIs(q, "commit") \/ NextIs(q, "lock"))
  <2>1. q \in Request /\ todo[q] \in Seq(Step) /\ ClosedFrom(todo[q], 1)
    BY <1>1 DEF QueuesHold, RequestHolds
  <2>2. QED
    BY <2>1, InTransaction DEF NextIs
<1>3. CASE lockQueue = <<>>
  BY <1>2, <1>3 DEF CanGoOn
<1>4. CASE lockQueue # <<>>
  <2>1. Head(lockQueue) \in Waiting(lockQueue) /\ Head(lockQueue) \in Request
    BY <1>1, <1>4 DEF QueuesHold, Waiting
  <2>2. Head(lockQueue) \in kept
    BY <1>1, <2>1 DEF RequestHolds
  <2>3. QED
    BY <1>2, <2>1, <2>2 DEF CanGoOn
<1>5. QED
  BY <1>3, <1>4

LEMMA SomebodyCanGoOn ==
  ASSUME PoolInvariant, Used = MaxConnections
  PROVE  \E r \in Request : CanGoOn(r)
<1>1. CASE borrowed # {}
  BY <1>1 DEF PoolInvariant, QueuesHold, CanGoOn
<1>2. CASE borrowed = {}
  <2>1. kept # {}
    BY <1>2, FS_EmptySet, PoolAssumption DEF Used, PoolAssumption
  <2>2. QED
    BY <2>1, LockIsServed
<1>3. QED
  BY <1>1, <1>2

\* The services of the backend cannot exhaust the pool for good, whatever its
\* size: inside a transaction all their statements use its connection, and they
\* take one advisory lock at most (the executor is &mut *tx everywhere).
THEOREM PoolStaysServed == Spec => []PoolIsServed
<1>1. PoolInvariant => PoolIsServed
  BY SomebodyCanGoOn DEF PoolIsServed
<1>2. QED
  BY <1>1, PoolInvariantHolds, PTL
\* A step that gives nobody a connection keeps within the pool's size.
LEMMA NobodyConnects ==
  ASSUME PoolInvariant, Used <= MaxConnections, kept' \subseteq kept, borrowed' \subseteq borrowed
  PROVE  Used' <= MaxConnections
<1>1. IsFiniteSet(kept) /\ IsFiniteSet(borrowed)
  BY FS_Subset, PoolAssumption DEF PoolInvariant, QueuesHold
<1>2. /\ IsFiniteSet(kept') /\ Cardinality(kept') <= Cardinality(kept)
      /\ IsFiniteSet(borrowed') /\ Cardinality(borrowed') <= Cardinality(borrowed)
  BY <1>1, FS_Subset
<1>3. /\ Cardinality(kept) \in Nat /\ Cardinality(kept') \in Nat
      /\ Cardinality(borrowed) \in Nat /\ Cardinality(borrowed') \in Nat
  BY <1>1, <1>2, FS_CardinalityType
<1>4. QED
  BY <1>2, <1>3, PoolAssumption DEF Used, PoolAssumption

\* One connection more, while there is room for it.
LEMMA OneConnects ==
  ASSUME PoolInvariant, Connect
  PROVE  Used' <= MaxConnections
<1>1. /\ IsFiniteSet(kept) /\ IsFiniteSet(borrowed)
      /\ Cardinality(kept) \in Nat /\ Cardinality(borrowed) \in Nat
  BY FS_Subset, FS_CardinalityType, PoolAssumption DEF PoolInvariant, QueuesHold
<1>2. ASSUME NEW S, NEW r, IsFiniteSet(S), Cardinality(S) \in Nat
      PROVE  /\ Cardinality(S \cup {r}) \in Nat
             /\ Cardinality(S \cup {r}) <= Cardinality(S) + 1
  <2>1. Cardinality(S \cup {r}) = IF r \in S THEN Cardinality(S) ELSE Cardinality(S) + 1
    BY <1>2, FS_AddElement
  <2>2. QED
    BY <1>2, <2>1
<1>3. PICK r : \/ kept' = kept \cup {r} /\ borrowed' = borrowed
               \/ borrowed' = borrowed \cup {r} /\ kept' = kept
  BY DEF Connect
<1>4. Used' \in Nat /\ Used' <= Used + 1
  <2>1. CASE kept' = kept \cup {r} /\ borrowed' = borrowed
    <3>1. Cardinality(kept') \in Nat /\ Cardinality(kept') <= Cardinality(kept) + 1
      BY <1>1, <1>2, <2>1
    <3>2. QED
      BY <1>1, <2>1, <3>1 DEF Used
  <2>2. CASE borrowed' = borrowed \cup {r} /\ kept' = kept
    <3>1. Cardinality(borrowed') \in Nat /\ Cardinality(borrowed') <= Cardinality(borrowed) + 1
      BY <1>1, <1>2, <2>2
    <3>2. QED
      BY <1>1, <2>2, <3>1 DEF Used
  <2>3. QED
    BY <1>3, <2>1, <2>2
<1>5. Used < MaxConnections /\ Used \in Nat
  BY <1>1 DEF Connect, HasRoom, Used
<1>6. QED
  BY <1>4, <1>5, PoolAssumption DEF PoolAssumption

\* Every request asks for an operation of the backend, waits in order, and the pool
\* never opens more connections than max_connections (PoolOptions).
THEOREM TypeCorrect == Spec => []TypeOK
<1> DEFINE OpTyped == op \in [Request -> Operation \cup {"none"}]
<1>1. Init => OpTyped /\ Used <= MaxConnections
  BY FS_EmptySet, PoolAssumption DEF Init, Used, PoolAssumption
<1>2. OpTyped /\ [Next]_vars => OpTyped'
  <2> SUFFICES ASSUME OpTyped, [Next]_vars PROVE OpTyped'
    OBVIOUS
  <2>1. CASE UNCHANGED op
    BY <2>1
  <2>2. ASSUME NEW r \in Request, NEW o \in Offered, Arrive(r, o) PROVE OpTyped'
    BY <2>2, PoolAssumption DEF Arrive, PoolAssumption
  <2>3. ASSUME NEW r \in Request, Return(r) \/ Drop(r) PROVE OpTyped'
    BY <2>3 DEF Return, Drop
  <2>4. ASSUME NEW r \in Request, Proceed(r), ~Return(r) PROVE UNCHANGED op
    BY <2>4 DEF Proceed, Ask, Statement, AskLock, TakeLock, Transact, Commit
  <2>5. ASSUME NEW r \in Request, Fail(r) \/ TimeOut(r) PROVE UNCHANGED op
    BY <2>5 DEF Fail, TimeOut
  <2>6. Connect \/ UNCHANGED vars => UNCHANGED op
    BY DEF Connect, vars
  <2> HIDE DEF OpTyped
  <2>7. QED
    BY <2>1, <2>2, <2>3, <2>4, <2>5, <2>6 DEF Next
<1>3. PoolInvariant /\ Used <= MaxConnections /\ [Next]_vars => (Used <= MaxConnections)'
  <2> SUFFICES ASSUME PoolInvariant, Used <= MaxConnections, [Next]_vars
               PROVE  Used' <= MaxConnections
    OBVIOUS
  <2>1. ASSUME NEW r \in Request, Proceed(r) \/ Fail(r) \/ TimeOut(r) \/ Drop(r)
        PROVE  kept' \subseteq kept /\ borrowed' \subseteq borrowed
    BY <2>1 DEF Proceed, Ask, Statement, AskLock, TakeLock, Transact, Commit, Return, Fail,
       TimeOut, Drop
  <2>2. ASSUME NEW r \in Request, NEW o \in Offered, Arrive(r, o)
        PROVE  kept' \subseteq kept /\ borrowed' \subseteq borrowed
    BY <2>2 DEF Arrive
  <2>3. UNCHANGED vars => kept' \subseteq kept /\ borrowed' \subseteq borrowed
    BY DEF vars
  <2>4. QED
    BY <2>1, <2>2, <2>3, NobodyConnects, OneConnects DEF Next
<1>4. PoolInvariant /\ OpTyped /\ Used <= MaxConnections => TypeOK
  BY DEF PoolInvariant, QueuesHold, TypeOK
<1> HIDE DEF OpTyped
<1>5. QED
  BY <1>1, <1>2, <1>3, <1>4, PoolInvariantHolds, PTL DEF Spec
-----------------------------------------------------------------------------
(* Progress *)

InTx == {"tx", "lock", "commit"}

\* What belongs in a transaction comes after its BEGIN and before its COMMIT.
Sequenced(s) ==
  /\ s \in Seq(Step)
  /\ \A i \in DOMAIN s : i > 1 /\ s[i] \in InTx => s[i - 1] \in {"begin", "tx", "lock"}

StartsOutside(s) == s # <<>> => Head(s) \in {"begin", "pool"}

\* A request without a transaction has not gone past a BEGIN.
OrderHolds(r) ==
  /\ Sequenced(todo[r])
  /\ r \notin kept => StartsOutside(todo[r])

\* A step of r that waits for nobody is at hand: the guards of Statement, Transact,
\* Commit, AskLock or TakeLock; of Return; of Ask.
GoesOn(r) ==
  \/ CanGoOn(r)
  \/ op[r] # "none" /\ todo[r] = <<>>
  \/ NeedsConnection(r) /\ ~Queued(r)

\* While a request is under way, or what a dropped one left behind, somebody can go
\* on, or the pool has a connection for the first who waits for one.
SomebodyGetsOn ==
  (\E r \in Request : op[r] # "none" \/ todo[r] # <<>>) =>
    (queue # <<>> /\ HasRoom) \/ \E r \in Request : GoesOn(r)

LEMMA RestIsSequenced ==
  ASSUME NEW s, Sequenced(s), s # <<>>
  PROVE  /\ Sequenced(Tail(s))
         /\ Head(s) \in {"pool", "commit"} => StartsOutside(Tail(s))
<1>1. /\ s \in Seq(Step) /\ Len(s) \in Nat \ {0} /\ Head(s) = s[1]
      /\ Tail(s) \in Seq(Step) /\ DOMAIN Tail(s) = 1..(Len(s) - 1)
      /\ \A j \in 1..(Len(s) - 1) : Tail(s)[j] = s[j + 1]
  BY DEF Sequenced
<1>2. ASSUME NEW i \in DOMAIN Tail(s), i > 1, Tail(s)[i] \in InTx
      PROVE  Tail(s)[i - 1] \in {"begin", "tx", "lock"}
  <2>1. i + 1 \in DOMAIN s /\ i - 1 \in DOMAIN Tail(s) /\ s[i + 1] \in InTx
    BY <1>1, <1>2
  <2>2. s[(i + 1) - 1] \in {"begin", "tx", "lock"}
    BY <1>1, <2>1 DEF Sequenced
  <2>3. QED
    BY <1>1, <2>1, <2>2
<1>3. ASSUME Head(s) \in {"pool", "commit"}, Tail(s) # <<>>
      PROVE  Head(Tail(s)) \in {"begin", "pool"}
  <2>1. 2 \in DOMAIN s /\ Head(Tail(s)) = s[2] /\ s[2] \in Step
    BY <1>1, <1>3
  <2>2. s[2] \notin InTx
    <3>1. s[2 - 1] \notin {"begin", "tx", "lock"}
      BY <1>1, <1>3
    <3>2. QED
      BY <2>1, <3>1 DEF Sequenced
  <2>3. QED
    BY <2>1, <2>2 DEF Step, InTx
<1>4. QED
  BY <1>1, <1>2, <1>3 DEF Sequenced, StartsOutside

LEMMA ConcatSequenced ==
  ASSUME NEW s, NEW t, Sequenced(s), Sequenced(t), StartsOutside(s), StartsOutside(t)
  PROVE  Sequenced(s \o t) /\ StartsOutside(s \o t)
<1>1. s \in Seq(Step) /\ t \in Seq(Step) /\ Len(s) \in Nat /\ Len(t) \in Nat
  BY DEF Sequenced
<1>2. /\ s \o t \in Seq(Step) /\ Len(s \o t) = Len(s) + Len(t)
      /\ \A i \in 1..Len(s) : (s \o t)[i] = s[i]
      /\ \A i \in 1..Len(t) : (s \o t)[Len(s) + i] = t[i]
  BY <1>1, ConcatProperties
<1>3. ASSUME NEW i \in DOMAIN (s \o t), i > 1, (s \o t)[i] \in InTx
      PROVE  (s \o t)[i - 1] \in {"begin", "tx", "lock"}
  <2>0. i \in Nat
    BY <1>2
  <2>1. CASE i <= Len(s)
    <3>1. i \in DOMAIN s /\ i - 1 \in 1..Len(s) /\ s[i] \in InTx
      BY <1>1, <1>2, <1>3, <2>1
    <3>2. QED
      BY <1>2, <1>3, <3>1 DEF Sequenced
  <2>2. CASE i > Len(s)
    <3>1. i - Len(s) \in DOMAIN t /\ i = Len(s) + (i - Len(s))
      BY <1>1, <1>2, <2>2
    <3>2. t[i - Len(s)] \in InTx
      BY <1>1, <1>2, <1>3, <3>1
    <3>3. i - Len(s) > 1
      <4>1. t[1] \notin InTx
        <5>1. t # <<>> /\ Head(t) = t[1]
          BY <1>1, <3>1
        <5>2. QED
          BY <5>1 DEF StartsOutside, InTx
      <4>2. QED
        BY <1>1, <3>1, <3>2, <4>1
    <3>4. t[(i - Len(s)) - 1] \in {"begin", "tx", "lock"}
      BY <3>1, <3>2, <3>3 DEF Sequenced
    <3>5. (i - Len(s)) - 1 \in 1..Len(t) /\ i - 1 = Len(s) + ((i - Len(s)) - 1)
      BY <1>1, <1>2, <3>1, <3>3
    <3>6. QED
      BY <1>2, <3>4, <3>5
  <2>3. i <= Len(s) \/ i > Len(s)
    BY <1>1, <2>0
  <2>4. QED
    BY <2>1, <2>2, <2>3, Zenon
<1>4. ASSUME s \o t # <<>>  PROVE Head(s \o t) \in {"begin", "pool"}
  <2>1. Head(s \o t) = (s \o t)[1] /\ Len(s \o t) > 0
    BY <1>2, <1>4
  <2>2. CASE Len(s) = 0
    <3>1. t # <<>> /\ (s \o t)[1] = t[1] /\ Head(t) = t[1]
      BY <1>1, <1>2, <2>1, <2>2
    <3>2. QED
      BY <2>1, <3>1 DEF StartsOutside
  <2>3. CASE Len(s) # 0
    <3>1. s # <<>> /\ (s \o t)[1] = s[1] /\ Head(s) = s[1]
      BY <1>1, <1>2, <2>3
    <3>2. QED
      BY <2>1, <3>1 DEF StartsOutside
  <2>4. QED
    BY <2>2, <2>3
<1>5. QED
  BY <1>2, <1>3, <1>4 DEF Sequenced, StartsOutside

LEMMA PiecesSequenced ==
  \A s \in {<<>>, <<"pool">>, GetMatch, Login, LedgerTransaction, <<"begin", "tx", "commit">>} :
    Sequenced(s) /\ StartsOutside(s)
<1>1. ASSUME NEW s \in Seq({"pool"})  PROVE Sequenced(s) /\ StartsOutside(s)
  <2>1. s \in Seq(Step) /\ \A i \in DOMAIN s : s[i] = "pool"
    BY DEF Step
  <2>2. s # <<>> => Head(s) = "pool"
    OBVIOUS
  <2>3. QED
    BY <2>1, <2>2 DEF Sequenced, StartsOutside, InTx
<1>2. ASSUME NEW s \in {<<"begin", "tx", "commit">>, <<"begin", "lock", "tx", "commit">>}
      PROVE  Sequenced(s) /\ StartsOutside(s)
  <2>1. s \in Seq(Step) /\ Head(s) = "begin"
    <3>1. CASE s = <<"begin", "tx", "commit">>
      BY <3>1 DEF Step
    <3>2. CASE s = <<"begin", "lock", "tx", "commit">>
      BY <3>2 DEF Step
    <3>3. QED
      BY <1>2, <3>1, <3>2
  <2>2. ASSUME NEW i \in DOMAIN s, i > 1  PROVE s[i - 1] \in {"begin", "tx", "lock"}
    <3>1. CASE s = <<"begin", "tx", "commit">>
      <4>1. i \in {2, 3} /\ s[1] = "begin" /\ s[2] = "tx"
        BY <2>2, <3>1
      <4>2. QED
        BY <4>1
    <3>2. CASE s = <<"begin", "lock", "tx", "commit">>
      <4>1. i \in {2, 3, 4} /\ s[1] = "begin" /\ s[2] = "lock" /\ s[3] = "tx"
        BY <2>2, <3>2
      <4>2. QED
        BY <4>1
    <3>3. QED
      BY <1>2, <3>1, <3>2
  <2>3. QED
    BY <2>1, <2>2 DEF Sequenced, StartsOutside
<1>3. {<<>>, <<"pool">>, <<"pool", "pool">>, <<"pool", "pool", "pool">>} \subseteq Seq({"pool"})
  OBVIOUS
<1>4. QED
  BY <1>1, <1>2, <1>3 DEF GetMatch, Login, LedgerTransaction

LEMMA ProgramsSequenced ==
  \A o : Sequenced(Program(o)) /\ StartsOutside(Program(o))
<1> SUFFICES ASSUME NEW o PROVE Sequenced(Program(o)) /\ StartsOutside(Program(o))
  OBVIOUS
<1>1. Sequenced(Session(o)) /\ StartsOutside(Session(o))
  BY PiecesSequenced DEF Session
<1>2. Sequenced(Recalculate) /\ StartsOutside(Recalculate)
  BY PiecesSequenced, ConcatSequenced DEF Recalculate
<1>3. \/ Service(o) \in {Login, GetMatch, LedgerTransaction, Recalculate}
      \/ Service(o) \in {<<>>, <<"pool">>, <<"begin", "tx", "commit">>}
  BY DEF Service, PlayerWrites, LedgerWrites
<1>4. Sequenced(Service(o)) /\ StartsOutside(Service(o))
  BY <1>2, <1>3, PiecesSequenced
<1>5. QED
  BY <1>1, <1>4, ConcatSequenced DEF Program

\* A step of r that goes on in its program.
LEMMA NextInOrder ==
  ASSUME PoolInvariant, NEW r \in Request, todo[r] # <<>>, Done(r), OrderHolds(r),
         r \in kept' \/ Head(todo[r]) \in {"pool", "commit"}
  PROVE  OrderHolds(r)'
<1>1. todo'[r] = Tail(todo[r])
  BY DoneTo
<1>2. QED
  BY <1>1, RestIsSequenced DEF OrderHolds

\* A step of r that gives up the rest of its program.
LEMMA GivenUpInOrder ==
  ASSUME PoolInvariant, NEW r \in Request, NEW s, todo' = [todo EXCEPT ![r] = s],
         Sequenced(s), r \in kept' \/ StartsOutside(s)
  PROVE  OrderHolds(r)'
<1>1. todo'[r] = s
  BY DEF PoolInvariant, QueuesHold
<1>2. QED
  BY <1>1 DEF OrderHolds

LEMMA ConnectInOrder ==
  ASSUME PoolInvariant, \A r \in Request : OrderHolds(r), Connect
  PROVE  \A r \in Request : OrderHolds(r)'
<1>1. PICK r \in Request : r = Head(queue)
  BY DEF PoolInvariant, QueuesHold, Connect
<1>2. CASE NextIs(r, "begin")
  <2>1. kept' = kept \cup {r} /\ Done(r) /\ todo[r] # <<>>
    BY <1>1, <1>2 DEF Connect, NextIs
  <2>2. OrderHolds(r)'
    BY <2>1, NextInOrder
  <2>3. ASSUME NEW q \in Request, q # r PROVE OrderHolds(q)'
    <3>1. todo'[q] = todo[q] /\ (q \in kept' <=> q \in kept)
      BY <2>1, <2>3, DoneTo
    <3>2. QED
      BY <3>1 DEF OrderHolds
  <2>4. QED
    BY <2>2, <2>3
<1>3. CASE ~NextIs(r, "begin")
  BY <1>1, <1>3 DEF Connect, OrderHolds
<1>4. QED
  BY <1>2, <1>3

LEMMA StepInOrder ==
  ASSUME PoolInvariant, \A q \in Request : OrderHolds(q), NEW r \in Request,
         \/ \E o \in Offered : Arrive(r, o)
         \/ Proceed(r) \/ Fail(r) \/ TimeOut(r) \/ Drop(r)
  PROVE  \A q \in Request : OrderHolds(q)'
<1>1. RequestHolds(r) /\ QueuesHold
  BY DEF PoolInvariant
<1>2. ASSUME NEW q \in Request, q # r PROVE todo'[q] = todo[q] /\ (q \in kept' <=> q \in kept)
  BY <1>1, <1>2 DEF QueuesHold, Arrive, Proceed, Ask, Statement, AskLock, TakeLock, Transact,
     Commit, Return, Fail, TimeOut, Drop, Done
<1>3. ASSUME \E o \in Offered : Arrive(r, o)  PROVE OrderHolds(r)'
  BY <1>3, ProgramsSequenced, GivenUpInOrder DEF Arrive
<1>4. ASSUME Ask(r) \/ AskLock(r) \/ Return(r)  PROVE OrderHolds(r)'
  BY <1>4 DEF Ask, AskLock, Return, OrderHolds
<1>5. ASSUME Statement(r)  PROVE OrderHolds(r)'
  <2>1. todo[r] # <<>> /\ Head(todo[r]) = "pool"
    BY <1>1, <1>5 DEF Statement, RequestHolds, NextIs
  <2>2. QED
    BY <1>5, <2>1, NextInOrder DEF Statement
<1>6. ASSUME TakeLock(r) \/ Transact(r)  PROVE OrderHolds(r)'
  BY <1>6, NextInOrder DEF TakeLock, WaitsForLock, Transact, NextIs
<1>7. ASSUME Commit(r)  PROVE OrderHolds(r)'
  BY <1>7, NextInOrder DEF Commit, NextIs
<1>8. ASSUME Fail(r) \/ TimeOut(r)  PROVE OrderHolds(r)'
  <2>1. todo' = [todo EXCEPT ![r] = Rescue(op[r], todo[r])]
    BY <1>8 DEF Fail, TimeOut
  <2>2. Sequenced(Rescue(op[r], todo[r])) /\ StartsOutside(Rescue(op[r], todo[r]))
    BY PiecesSequenced DEF Rescue
  <2>3. QED
    BY <2>1, <2>2, GivenUpInOrder
<1>9. ASSUME Drop(r)  PROVE OrderHolds(r)'
  <2>1. CASE WaitsForLock(r)
    <3>1. Sequenced(<<"lock", "commit">>)
      BY DEF Sequenced, Step, InTx
    <3>2. todo' = [todo EXCEPT ![r] = <<"lock", "commit">>] /\ r \in kept'
      BY <1>9, <2>1 DEF Drop, WaitsForLock
    <3>3. QED
      BY <3>1, <3>2, GivenUpInOrder
  <2>2. CASE ~WaitsForLock(r)
    BY <1>9, <2>2, PiecesSequenced, GivenUpInOrder DEF Drop
  <2>3. QED
    BY <2>1, <2>2
<1>10. OrderHolds(r)'
  BY <1>3, <1>4, <1>5, <1>6, <1>7, <1>8, <1>9 DEF Proceed
<1>11. QED
  BY <1>2, <1>10 DEF OrderHolds

LEMMA OrderAlwaysHolds == Spec => [](\A r \in Request : OrderHolds(r))
<1> DEFINE AllInOrder == \A r \in Request : OrderHolds(r)
<1>1. Init => AllInOrder
  BY PiecesSequenced DEF Init, OrderHolds
<1>2. PoolInvariant /\ AllInOrder /\ [Next]_vars => AllInOrder'
  <2> SUFFICES ASSUME PoolInvariant, AllInOrder, [Next]_vars PROVE AllInOrder'
    OBVIOUS
  <2>1. CASE UNCHANGED vars
    BY <2>1 DEF vars, OrderHolds
  <2>2. QED
    BY <2>1, ConnectInOrder, StepInOrder DEF Next
<1> HIDE DEF AllInOrder
<1>3. Spec => []AllInOrder
  BY <1>1, <1>2, PoolInvariantHolds, PTL DEF Spec
<1>4. QED
  BY <1>3 DEF AllInOrder

\* Requests never wait for each other in a circle through the pool and the advisory
\* lock, whatever fails, times out or is dropped: no state is the end of all of them.
THEOREM SomebodyAlwaysGetsOn == Spec => []SomebodyGetsOn
<1> DEFINE AllInOrder == \A r \in Request : OrderHolds(r)
<1>1. ASSUME PoolInvariant, AllInOrder, TypeOK, NEW r \in Request,
             op[r] # "none" \/ todo[r] # <<>>
      PROVE  (queue # <<>> /\ HasRoom) \/ \E q \in Request : GoesOn(q)
  <2>1. OrderHolds(r) /\ todo[r] \in Seq(Step)
    BY <1>1 DEF Sequenced, OrderHolds
  <2>2. CASE todo[r] = <<>>
    BY <1>1, <2>2 DEF GoesOn
  <2>3. CASE NeedsConnection(r)
    <3>1. CASE ~Queued(r)
      BY <2>3, <3>1 DEF GoesOn
    <3>2. CASE Queued(r)
      <4>1. queue # <<>>
        BY <3>2 DEF Queued
      <4>2. CASE ~HasRoom
        <5>1. Used = MaxConnections
          <6>1. IsFiniteSet(kept) /\ IsFiniteSet(borrowed)
            BY <1>1, FS_Subset, PoolAssumption DEF TypeOK
          <6>2. Used \in Nat
            BY <6>1, FS_CardinalityType DEF Used
          <6>3. QED
            BY <1>1, <4>2, <6>2, PoolAssumption DEF TypeOK, HasRoom, PoolAssumption
        <5>2. QED
          BY <1>1, <5>1, SomebodyCanGoOn DEF GoesOn
      <4>3. QED
        BY <4>1, <4>2
    <3>3. QED
      BY <3>1, <3>2
  <2>4. CASE r \in kept
    BY <1>1, <2>4, LockIsServed DEF GoesOn
  <2>5. CASE todo[r] # <<>> /\ ~NeedsConnection(r) /\ r \notin kept
    <3>1. r \in borrowed
      BY <2>1, <2>5 DEF OrderHolds, StartsOutside, NeedsConnection, NextIs
    <3>2. QED
      BY <3>1 DEF GoesOn, CanGoOn
  <2>6. QED
    BY <2>2, <2>3, <2>4, <2>5
<1>2. PoolInvariant /\ AllInOrder /\ TypeOK => SomebodyGetsOn
  BY <1>1 DEF SomebodyGetsOn
<1>3. Spec => []AllInOrder
  BY OrderAlwaysHolds
<1> HIDE DEF AllInOrder
<1>4. QED
  BY <1>2, <1>3, PoolInvariantHolds, TypeCorrect, PTL
=============================================================================
