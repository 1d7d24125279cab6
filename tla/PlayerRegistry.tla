--------------------------- MODULE PlayerRegistry ---------------------------
(***************************************************************************)
(* Creation, update and deactivation of players (player_service and        *)
(* player_repo) as concurrent Postgres transactions at READ COMMITTED,     *)
(* with the ledger's match inserts beside them.                            *)
(*                                                                         *)
(* Three kinds of lock decide what happens, none of them explicit in the   *)
(* code: SELECT ... FOR UPDATE of a player's row; the KEY SHARE lock that  *)
(* the foreign key of match_players takes on it; and the unique index of   *)
(* display_name, where a writer waits for the end of a transaction whose   *)
(* outcome decides whether the name is taken.  An UPDATE first writes the  *)
(* row, then checks the index.                                             *)
(*                                                                         *)
(*   begun -> locked -> updating -> written -> (commit)   update_player    *)
(*   updating -> written -> (commit)                      create_player    *)
(*   loading -> begun -> ... -> written -> (commit)       submit_match     *)
(***************************************************************************)
EXTENDS Naturals, Sequences, FiniteSets, FiniteSetsExt

CONSTANTS
  Player, Worker, Name,
  NoName,      \* the request does not change the name
  NoPlayer,    \* an id no player has
  MaxEntries,  \* bound: the audit entries about players
  MatchSize    \* bound: the players of a match are at most this many

ASSUME RegistryAssumption ==
  /\ NoName \notin Name /\ NoPlayer \notin Player
  /\ "" \notin Name  \* a display name is not blank after trimming
  /\ IsFiniteSet(Worker)  \* a transaction has a connection of the pool
  /\ MaxEntries \in Nat /\ MatchSize \in Nat

VARIABLES
  players,  \* committed rows: player |-> [name, active]
  entries,  \* committed audit_log entries: player |-> sequence of entries
  tx        \* the transaction of each worker

vars == <<players, entries, tx>>

Atomic == INSTANCE AtomicRegistry WITH
  players <- players, entries <- entries, Player <- Player, Name <- Name

Shared == INSTANCE SharedPlayers WITH
  known <- DOMAIN players,
  active <- {p \in DOMAIN players : players[p].active},
  referenced <- UNION {tx[w].share : w \in Worker}

PlayerRow == Atomic!PlayerRow
NoRow == Atomic!NoRow

IdleTx == [at |-> "idle", action |-> "none", player |-> NoPlayer, name |-> NoName,
           active |-> {}, before |-> NoRow, share |-> {}, rest |-> {}]

Init ==
  /\ players = [p \in {} |-> NoRow]
  /\ entries = [p \in Player |-> <<>>]
  /\ tx = [w \in Worker |-> IdleTx]

-----------------------------------------------------------------------------
(* Transactions and the locks they hold *)

IsUpdate(w) == tx[w].action \in {"player.updated", "player.deactivated"}

\* The row of w's player as w leaves it: COALESCE($2, ...), COALESCE($3, ...).
After(w) ==
  [name |-> IF tx[w].name = NoName THEN tx[w].before.name ELSE tx[w].name,
   active |-> IF tx[w].active = {} THEN tx[w].before.active ELSE tx[w].active = {TRUE}]

\* Mistake: FOR UPDATE without OF p.
ForUpdateOfBoth == {"players", "player_ratings"}

\* The tables whose rows find_player_with_rating_for_update locks.
ForUpdateOf == {"players"}

\* The players of the match of w, and those whose player_ratings rows it locked.
Place(w) == tx[w].share \cup {tx[w].player} \cup tx[w].rest
HoldsRating(w, p) == tx[w].action = "match" /\ tx[w].at # "loading" /\ p \in Place(w)

\* w has the row of p FOR UPDATE.
HoldsRow(w, p) ==
  tx[w].player = p /\ IsUpdate(w) /\ tx[w].at \in {"locked", "updating", "written"}

\* w's own version of the row of p is in the heap, not yet committed.
HasUpdated(w, p) == HoldsRow(w, p) /\ tx[w].at # "locked"

\* A new index entry is made only for a name that changes.
ChangesName(w) == After(w).name # tx[w].before.name

\* w's entry for name n is in the index, not yet committed.
HasEntered(w, n) == tx[w].at = "written" /\ ChangesName(w) /\ After(w).name = n

\* Players whose committed rows have the name n.
Named(n) == {p \in DOMAIN players : players[p].name = n}

\* n is taken by a committed row, and nobody is about to change that row.
NameTaken(w, n) ==
  \E p \in Named(n) \ {tx[w].player} : \A v \in Worker \ {w} : ~HasUpdated(v, p)

\* Whether n is taken depends on how these transactions end.
NameDecidedBy(w, n) ==
  {v \in Worker \ {w} : HasEntered(v, n) \/ \E p \in Named(n) : HasUpdated(v, p)}

\* The transactions w waits for.
WaitsFor(w) ==
  CASE tx[w].at = "loading" /\ "player_ratings" \in ForUpdateOf ->
         {v \in Worker \ {w} : \E p \in Place(w) : HasUpdated(v, p)}
    [] tx[w].at = "locked" /\ "player_ratings" \in ForUpdateOf ->
         {v \in Worker \ {w} : HoldsRating(v, tx[w].player)}
    [] tx[w].at = "begun" /\ IsUpdate(w) ->
         {v \in Worker \ {w} : HoldsRow(v, tx[w].player) \/ tx[w].player \in tx[v].share}
    [] tx[w].at = "begun" /\ ~IsUpdate(w) ->
         {v \in Worker \ {w} : HoldsRow(v, tx[w].player)}
    [] tx[w].at = "updating" /\ ChangesName(w) -> NameDecidedBy(w, After(w).name)
    [] OTHER -> {}

\* w is on a cycle of waits: in a set each part of which waits for the rest.
Deadlocked(w) ==
  \E S \in SUBSET Worker :
    /\ w \in S /\ S # {w}
    /\ \A T \in (SUBSET S) \ {{}, S} : \E v \in T : WaitsFor(v) \cap (S \ T) # {}

-----------------------------------------------------------------------------
(* Requests *)

Sets(w, fields) == tx' = [tx EXCEPT ![w] = fields]
Aborts(w) == Sets(w, IdleTx) /\ UNCHANGED <<players, entries>>

Entries == MapThenSumSet(LAMBDA p : Len(entries[p]), Player)

\* Bound: room is left for the entries of all transactions under way.
RoomLeft == Entries + Cardinality({w \in Worker : tx[w].at # "idle"}) < MaxEntries

\* create_player: a fresh id, a name that is not blank after trimming.  The row
\* is in the heap; its id is new, so only the name can be in the way.
BeginCreate(w, p, n) ==
  /\ tx[w].at = "idle" /\ RoomLeft
  /\ p \notin DOMAIN players /\ \A v \in Worker : tx[v].player # p
  /\ Sets(w, [IdleTx EXCEPT !.at = "updating", !.action = "player.created",
                            !.player = p, !.name = n, !.active = {TRUE}])
  /\ UNCHANGED <<players, entries>>

\* update_player: both fields may be missing from the request.
BeginUpdate(w, p, n, active) ==
  /\ tx[w].at = "idle" /\ RoomLeft
  /\ Sets(w, [IdleTx EXCEPT !.at = "begun", !.action = "player.updated",
                            !.player = p, !.name = n, !.active = active])
  /\ UNCHANGED <<players, entries>>

BeginDeactivate(w, p) ==
  /\ tx[w].at = "idle" /\ RoomLeft
  /\ Sets(w, [IdleTx EXCEPT !.at = "begun", !.action = "player.deactivated",
                            !.player = p, !.active = {FALSE}])
  /\ UNCHANGED <<players, entries>>

\* 404, rolled back.
NotFound(w) ==
  /\ tx[w].at = "begun" /\ IsUpdate(w) /\ tx[w].player \notin DOMAIN players
  /\ Aborts(w)

\* Mistake: the row is read without FOR UPDATE.
LockRowUnlocked(w) ==
  /\ tx[w].at = "begun" /\ IsUpdate(w) /\ tx[w].player \in DOMAIN players
  /\ Sets(w, [tx[w] EXCEPT !.at = "locked", !.before = players[tx[w].player]])
  /\ UNCHANGED <<players, entries>>

\* find_player_with_rating_for_update: after a wait the latest row is read.
LockRow(w) ==
  /\ tx[w].at = "begun" /\ IsUpdate(w) /\ tx[w].player \in DOMAIN players
  /\ WaitsFor(w) = {}
  /\ Sets(w, [tx[w] EXCEPT !.at = "locked", !.before = players[tx[w].player]])
  /\ UNCHANGED <<players, entries>>

\* update_player, the statement, up to the unique index.
WriteRow(w) ==
  /\ tx[w].at = "locked" /\ WaitsFor(w) = {}
  /\ Sets(w, [tx[w] EXCEPT !.at = "updating"])
  /\ UNCHANGED <<players, entries>>

\* Mistake: an index that is not unique, with a check by the application.
EnterNameUnchecked(w) ==
  /\ tx[w].at = "updating"
  /\ ~NameTaken(w, After(w).name)
  /\ Sets(w, [tx[w] EXCEPT !.at = "written"])
  /\ UNCHANGED <<players, entries>>

EnterName(w) ==
  /\ tx[w].at = "updating"
  /\ WaitsFor(w) = {}
  /\ ChangesName(w) => ~NameTaken(w, After(w).name)
  /\ Sets(w, [tx[w] EXCEPT !.at = "written"])
  /\ UNCHANGED <<players, entries>>

\* Mistake: after 23505 the statement is tried again, in the same transaction.
DuplicateNameRetried(w) ==
  /\ tx[w].at = "updating" /\ ChangesName(w) /\ NameTaken(w, After(w).name)
  /\ UNCHANGED vars

\* 23505 becomes 409.
DuplicateName(w) ==
  /\ tx[w].at = "updating" /\ ChangesName(w) /\ NameTaken(w, After(w).name)
  /\ Aborts(w)

\* Mistake: old_value is read after the UPDATE, in the same transaction.
EntryOfNewRow(w) ==
  [action |-> tx[w].action, old |-> After(w), new |-> After(w)]

EntryOf(w) == [action |-> tx[w].action, old |-> tx[w].before, new |-> After(w)]

\* insert_audit_log_entry, for a creation insert_default_rating, and COMMIT.
Commit(w) ==
  LET p == tx[w].player IN
  /\ tx[w].at = "written" /\ tx[w].action # "match"
  /\ players' = [q \in DOMAIN players \cup {p} |-> IF q = p THEN After(w) ELSE players[q]]
  /\ entries' = [entries EXCEPT ![p] = Append(@, EntryOf(w))]
  /\ Sets(w, IdleTx)

-----------------------------------------------------------------------------
(* Match inserts, failures *)

\* A transaction of the ledger inserts match_players rows one after another.
\* The advisory lock lets only one do so at a time.
BeginMatch(w, place, p) ==
  /\ tx[w].at = "idle" /\ \A v \in Worker : tx[v].action # "match"
  /\ Sets(w, [IdleTx EXCEPT !.at = "loading", !.action = "match",
                            !.player = p, !.rest = place \ {p}])
  /\ UNCHANGED <<players, entries>>

\* load_active_player_ratings_for_update: FOR UPDATE OF pr.
LockRatings(w) ==
  /\ tx[w].at = "loading" /\ WaitsFor(w) = {}
  /\ Sets(w, [tx[w] EXCEPT !.at = "begun"])
  /\ UNCHANGED <<players, entries>>

\* insert_match_player: the foreign key is checked under KEY SHARE.
Reference(w) ==
  /\ tx[w].at = "begun" /\ tx[w].action = "match" /\ WaitsFor(w) = {}
  /\ IF tx[w].rest = {}
       THEN Sets(w, [tx[w] EXCEPT !.at = "written", !.share = @ \cup {tx[w].player}])
       ELSE \E p \in tx[w].rest :
              Sets(w, [tx[w] EXCEPT !.share = @ \cup {tx[w].player},
                                    !.player = p, !.rest = @ \ {p}])
  /\ UNCHANGED <<players, entries>>

CommitMatch(w) ==
  /\ tx[w].at = "written" /\ tx[w].action = "match"
  /\ Aborts(w)

\* A statement fails, the client is gone, or the process ends: rolled back.
Fails(w) == tx[w].at # "idle" /\ Aborts(w)

\* After deadlock_timeout Postgres aborts a transaction on the cycle (500).
BreakDeadlock(w) == Deadlocked(w) /\ Aborts(w)

Begins(w) ==
  \/ \E p \in Player, n \in Name : BeginCreate(w, p, n)
  \/ \E p \in DOMAIN players \cup {NoPlayer}, n \in Name \cup {NoName} :
       \E active \in {{}, {TRUE}, {FALSE}} : BeginUpdate(w, p, n, active)
  \/ \E p \in DOMAIN players : BeginDeactivate(w, p)
  \/ \E place \in SUBSET DOMAIN players : \E p \in place :
       Cardinality(place) <= MatchSize /\ BeginMatch(w, place, p)

Proceeds(w) ==
  \/ NotFound(w) \/ LockRow(w) \/ WriteRow(w) \/ EnterName(w) \/ DuplicateName(w)
  \/ Commit(w) \/ LockRatings(w) \/ Reference(w) \/ CommitMatch(w)

Next == \E w \in Worker : Begins(w) \/ Proceeds(w) \/ Fails(w) \/ BreakDeadlock(w)

Spec == Init /\ [][Next]_vars

\* Statements finish, deadlocks are detected, and the queues of Postgres's locks
\* are fair: a transaction that again and again could go on does.
Fairness == \A w \in Worker : SF_vars(Proceeds(w)) /\ WF_vars(BreakDeadlock(w))

FairSpec == Spec /\ Fairness

-----------------------------------------------------------------------------
(* Properties *)

Tx == [at : {"idle", "loading", "begun", "locked", "updating", "written"},
       action : {"none", "match", "player.created", "player.updated", "player.deactivated"},
       player : Player \cup {NoPlayer}, name : Name \cup {NoName},
       active : SUBSET BOOLEAN, before : PlayerRow \cup {NoRow},
       share : SUBSET Player, rest : SUBSET Player]

TypeOK ==
  /\ DOMAIN players \subseteq Player
  /\ \A p \in DOMAIN players : players[p] \in PlayerRow
  /\ entries \in [Player -> Seq(Atomic!Entry)]
  /\ tx \in [Worker -> Tx]

\* However creations and renames race, swap names or fail, no two players have
\* the same display name (create_player, update_player).
NamesUnique ==
  \A p, q \in DOMAIN players : players[p].name = players[q].name => p = q

\* The audit log is a gapless history of every player: it begins with the
\* creation, each entry starts from the row the one before it left, and the last
\* one ends in the current row.  A lost update or a stale old_value breaks it.
AuditIsHistory ==
  \A p \in Player :
    LET log == entries[p] IN
    /\ p \in DOMAIN players <=> log # <<>>
    /\ log # <<>> => /\ log[1].old = NoRow
                     /\ log[Len(log)].new = players[p]
    /\ \A i \in 2..Len(log) : log[i].old = log[i - 1].new

\* Only renames deadlock with each other: no cycle of waits has a creation, a
\* (de)activation or a match in it, so nothing but a rename fails that way.
OnlyRenamesDeadlock ==
  \A w \in Worker :
    Deadlocked(w) => tx[w].at = "updating" /\ tx[w].action = "player.updated" /\ ChangesName(w)

\* Committed rows and entries behave like AtomicRegistry.
ImplementsAtomicRegistry == Atomic!Spec

\* To the matches of the ledger the players are what it takes them for: rows stay,
\* and nobody is (de)activated while a match being inserted refers to them.
ImplementsSharedPlayers == Shared!Spec

\* Every request ends, although it waits for rows and names of others.
RequestsReturn == \A w \in Worker : tx[w].at # "idle" ~> tx[w].at = "idle"
=============================================================================
