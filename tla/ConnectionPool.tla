--------------------------- MODULE ConnectionPool ---------------------------
(***************************************************************************)
(* Requests compete for the few connections of one pool (PgPoolOptions     *)
(* with max_connections, five by default) and for one advisory lock, on    *)
(* which a request waits while it keeps its connection.  Every operation   *)
(* is the program of its database calls (RequestPrograms).                 *)
(*                                                                         *)
(* The pool and the lock serve their waiters in the order of arrival.  A   *)
(* dropped handler that is waiting for the lock leaves its connection and  *)
(* its place in the lock's queue behind: the server answers the statement  *)
(* first, and only then is the connection rolled back and returned.        *)
(***************************************************************************)
EXTENDS RequestPrograms, Naturals, FiniteSets, SequencesExt

CONSTANTS
  Request,
  Offered,         \* the operations requests ask for: a subset of Operation
  MaxConnections,
  Mishaps          \* a subset of Mishap

\* "fail": a statement fails or the service returns an error; "timeout": of
\* PoolOptions::acquire_timeout; "drop": of the handler.
Mishap == {"fail", "timeout", "drop"}

ASSUME PoolAssumption ==
  /\ Offered \subseteq Operation
  /\ MaxConnections \in Nat \ {0}
  /\ Mishaps \subseteq Mishap
  /\ IsFiniteSet(Request)

VARIABLES
  op,         \* what each request asks for, or "none"
  todo,       \* the rest of its program
  kept,       \* requests that keep the connection of a transaction
  borrowed,   \* requests that have a connection for one statement
  queue,      \* requests waiting for a connection
  lockQueue   \* the holder of the advisory lock, and those waiting for it

vars == <<op, todo, kept, borrowed, queue, lockQueue>>

Init ==
  /\ op = [r \in Request |-> "none"] /\ todo = [r \in Request |-> <<>>]
  /\ kept = {} /\ borrowed = {} /\ queue = <<>> /\ lockQueue = <<>>

\* A request may have both, so this is not the cardinality of the union.
Used == Cardinality(kept) + Cardinality(borrowed)

HasRoom == Used < MaxConnections

Queued(r) == \E i \in DOMAIN queue : queue[i] = r
WaitsForLock(r) == r \in kept /\ todo[r] # <<>> /\ Head(todo[r]) = "lock"
NextIs(r, step) == todo[r] # <<>> /\ Head(todo[r]) = step
Done(r) == todo' = [todo EXCEPT ![r] = Tail(@)]

\* r's next step needs a connection r does not have.
NeedsConnection(r) ==
  NextIs(r, "begin") \/ (NextIs(r, "pool") /\ r \notin borrowed)

-----------------------------------------------------------------------------
(* The steps of a program *)

Arrive(r, o) ==
  /\ op[r] = "none" /\ todo[r] = <<>> /\ r \notin kept
  /\ op' = [op EXCEPT ![r] = o] /\ todo' = [todo EXCEPT ![r] = Program(o)]
  /\ UNCHANGED <<kept, borrowed, queue, lockQueue>>

\* pool.acquire
Ask(r) ==
  /\ NeedsConnection(r) /\ ~Queued(r)
  /\ queue' = Append(queue, r)
  /\ UNCHANGED <<op, todo, kept, borrowed, lockQueue>>

Connect ==
  /\ queue # <<>> /\ HasRoom
  /\ LET r == Head(queue) IN
       IF NextIs(r, "begin") THEN kept' = kept \cup {r} /\ Done(r) /\ UNCHANGED borrowed
                             ELSE borrowed' = borrowed \cup {r} /\ UNCHANGED <<kept, todo>>
  /\ queue' = Tail(queue)
  /\ UNCHANGED <<op, lockQueue>>

Statement(r) ==
  /\ r \in borrowed
  /\ borrowed' = borrowed \ {r} /\ Done(r)
  /\ UNCHANGED <<op, kept, queue, lockQueue>>

AskLock(r) ==
  /\ WaitsForLock(r) /\ \A i \in DOMAIN lockQueue : lockQueue[i] # r
  /\ lockQueue' = Append(lockQueue, r)
  /\ UNCHANGED <<op, todo, kept, borrowed, queue>>

TakeLock(r) ==
  /\ WaitsForLock(r) /\ lockQueue # <<>> /\ Head(lockQueue) = r
  /\ Done(r)
  /\ UNCHANGED <<op, kept, borrowed, queue, lockQueue>>

Transact(r) ==
  /\ r \in kept /\ NextIs(r, "tx")
  /\ Done(r)
  /\ UNCHANGED <<op, kept, borrowed, queue, lockQueue>>

\* Mistake: a lock of the session (pg_advisory_lock) stays with the connection.
ReleasesNothing(r) == UNCHANGED lockQueue

\* COMMIT and ROLLBACK release the lock.
Releases(r) == lockQueue' = RemoveFirst(lockQueue, r)

Commit(r) ==
  /\ r \in kept /\ NextIs(r, "commit")
  /\ kept' = kept \ {r} /\ Done(r) /\ Releases(r)
  /\ UNCHANGED <<op, borrowed, queue>>

Return(r) ==
  /\ op[r] # "none" /\ todo[r] = <<>>
  /\ op' = [op EXCEPT ![r] = "none"]
  /\ UNCHANGED <<todo, kept, borrowed, queue, lockQueue>>

-----------------------------------------------------------------------------
(* Errors, timeouts, dropped handlers *)

\* A statement fails, or the service returns early: all connections go back.
Fail(r) ==
  /\ "fail" \in Mishaps
  /\ r \in borrowed \/ (r \in kept /\ ~Queued(r))
  /\ op[r] # "none"
  /\ kept' = kept \ {r} /\ borrowed' = borrowed \ {r} /\ Releases(r)
  /\ todo' = [todo EXCEPT ![r] = Rescue(op[r], @)]
  /\ UNCHANGED <<op, queue>>

\* PoolTimedOut, which is answered with 500 like any other database error.
TimeOut(r) ==
  /\ "timeout" \in Mishaps /\ Queued(r)
  /\ kept' = kept \ {r} /\ Releases(r)
  /\ queue' = RemoveFirst(queue, r)
  /\ todo' = [todo EXCEPT ![r] = Rescue(op[r], @)]
  /\ UNCHANGED <<op, borrowed>>

\* The client is gone.  Behind a wait for the lock stays what the server still
\* has to answer, before the rollback.
Drop(r) ==
  /\ "drop" \in Mishaps /\ op[r] # "none"
  /\ op' = [op EXCEPT ![r] = "none"]
  /\ queue' = RemoveFirst(queue, r)
  /\ borrowed' = borrowed \ {r}
  /\ IF WaitsForLock(r)
       THEN /\ todo' = [todo EXCEPT ![r] = <<"lock", "commit">>]
            /\ UNCHANGED <<kept, lockQueue>>
       ELSE /\ todo' = [todo EXCEPT ![r] = <<>>]
            /\ kept' = kept \ {r} /\ Releases(r)

Proceed(r) ==
  \/ Ask(r) \/ Statement(r) \/ AskLock(r) \/ TakeLock(r) \/ Transact(r)
  \/ Commit(r) \/ Return(r)

Next ==
  \/ Connect
  \/ \E r \in Request :
       \/ \E o \in Offered : Arrive(r, o)
       \/ Proceed(r) \/ Fail(r) \/ TimeOut(r) \/ Drop(r)

Spec == Init /\ [][Next]_vars

\* Statements are answered and free connections handed out.  No timeout is
\* needed for progress, so none is assumed to fire.
Fairness == WF_vars(Connect) /\ \A r \in Request : WF_vars(Proceed(r))

FairSpec == Spec /\ Fairness

-----------------------------------------------------------------------------
(* Properties *)

Step == {"pool", "begin", "lock", "tx", "commit"}

TypeOK ==
  /\ op \in [Request -> Operation \cup {"none"}]
  /\ todo \in [Request -> Seq(Step)]
  /\ kept \subseteq Request /\ borrowed \subseteq Request
  /\ queue \in Seq(Request) /\ lockQueue \in Seq(Request)
  /\ Used <= MaxConnections

\* r has a connection and needs no other one, nor a lock somebody else has.
CanGoOn(r) ==
  \/ r \in borrowed
  \/ /\ r \in kept
     /\ \/ NextIs(r, "tx") \/ NextIs(r, "commit")
        \/ NextIs(r, "lock") /\ (lockQueue = <<>> \/ Head(lockQueue) = r)

\* The pool never runs dry for good: while it has no connection left, one of
\* those who have them can go on without waiting for a connection or the lock.
\* It holds because no service asks for a second connection inside its
\* transaction (the executor of all its statements is &mut *tx).
PoolIsServed == Used = MaxConnections => \E r \in Request : CanGoOn(r)

\* Every request returns or was dropped, although waiters on the advisory lock
\* fill the pool and dropped handlers leave theirs behind, and without a timeout.
RequestsReturn == \A r \in Request : op[r] # "none" ~> op[r] = "none"
=============================================================================
