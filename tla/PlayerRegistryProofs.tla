------------------------ MODULE PlayerRegistryProofs ------------------------
(***************************************************************************)
(* Proofs about PlayerRegistry: names stay unique, the audit log tells the *)
(* history of every player, only renames deadlock, and the registry        *)
(* implements AtomicRegistry, for any number of players and transactions.  *)
(***************************************************************************)
EXTENDS PlayerRegistry, SequenceTheorems, FiniteSetTheorems, WellFoundedInduction, TLAPS

At == {"idle", "loading", "begun", "locked", "updating", "written"}
Action == {"none", "match", "player.created", "player.updated", "player.deactivated"}
Holding == {"locked", "updating", "written"}

Creates(w) == tx[w].action = "player.created"

\* w's entry is in the index of names.
Entered(w) == tx[w].at = "written" /\ ChangesName(w)

\* What a transaction knows, by its kind.
IdleShape(w) ==
  tx[w].at = "idle" \/ tx[w].action = "none" =>
    /\ tx[w].at = "idle" /\ tx[w].action = "none" /\ tx[w].player = NoPlayer
    /\ tx[w].share = {} /\ tx[w].rest = {}

CreateShape(w) ==
  Creates(w) =>
    /\ tx[w].at \in {"updating", "written"} /\ tx[w].player \in Player \ DOMAIN players
    /\ tx[w].before = NoRow /\ tx[w].name \in Name /\ tx[w].active = {TRUE}
    /\ tx[w].share = {}
    /\ \A v \in Worker \ {w} : tx[v].player # tx[w].player

UpdateShape(w) ==
  IsUpdate(w) =>
    /\ tx[w].at \in {"begun", "locked", "updating", "written"} /\ tx[w].share = {}
    /\ tx[w].at \in Holding =>
         tx[w].player \in DOMAIN players /\ tx[w].before = players[tx[w].player]
    /\ tx[w].action = "player.deactivated" => tx[w].name = NoName /\ tx[w].active = {FALSE}

MatchShape(w) ==
  tx[w].action = "match" =>
    /\ tx[w].at \in {"loading", "begun", "written"}
    /\ tx[w].name = NoName
    /\ tx[w].player \in DOMAIN players /\ tx[w].rest \subseteq DOMAIN players

Shape(w) == IdleShape(w) /\ CreateShape(w) /\ UpdateShape(w) /\ MatchShape(w)

\* FOR UPDATE: a row is held by one transaction.
RowsAreExclusive ==
  \A w, v \in Worker : \A p \in Player : HoldsRow(w, p) /\ HoldsRow(v, p) => w = v

\* The unique index: a name entered is nobody's and entered once.
EnteredNamesAreFree == \A w \in Worker : Entered(w) => Named(After(w).name) = {}
EnteredNamesAreUnique ==
  \A w, v \in Worker : Entered(w) /\ Entered(v) /\ After(w).name = After(v).name => w = v

RegistryInvariant ==
  /\ TypeOK
  /\ \A w \in Worker : Shape(w)
  /\ RowsAreExclusive
  /\ EnteredNamesAreFree /\ EnteredNamesAreUnique
  /\ NamesUnique
  /\ AuditIsHistory

-----------------------------------------------------------------------------
(* Fields and locks *)

LEMMA Fields ==
  /\ Tx = [at : At, action : Action, player : Player \cup {NoPlayer},
           name : Name \cup {NoName}, active : SUBSET BOOLEAN,
           before : PlayerRow \cup {NoRow}, share : SUBSET Player, rest : SUBSET Player]
  /\ IdleTx \in Tx
<1>1. Tx = [at : At, action : Action, player : Player \cup {NoPlayer},
            name : Name \cup {NoName}, active : SUBSET BOOLEAN,
            before : PlayerRow \cup {NoRow}, share : SUBSET Player, rest : SUBSET Player]
  BY DEF Tx, At, Action
<1>2. "idle" \in At /\ "none" \in Action
  BY DEF At, Action
<1>3. QED
  BY <1>1, <1>2 DEF IdleTx

\* Who waits for whom, by the step before the wait.
LEMMA Waits ==
  ASSUME NEW w \in Worker
  PROVE  /\ tx[w].at = "begun" /\ IsUpdate(w) => WaitsFor(w) =
              {v \in Worker \ {w} : HoldsRow(v, tx[w].player) \/ tx[w].player \in tx[v].share}
         /\ tx[w].at = "begun" /\ ~IsUpdate(w) => WaitsFor(w) =
              {v \in Worker \ {w} : HoldsRow(v, tx[w].player)}
         /\ tx[w].at = "updating" /\ ChangesName(w) =>
              WaitsFor(w) = NameDecidedBy(w, After(w).name)
         /\ tx[w].at \notin {"begun", "updating"} => WaitsFor(w) = {}
         /\ tx[w].at = "updating" /\ ~ChangesName(w) => WaitsFor(w) = {}
BY DEF WaitsFor, ForUpdateOf

\* Nobody else knows of a player that is being created.
LEMMA CreatedIsNew ==
  ASSUME RegistryInvariant, NEW v \in Worker, Creates(v)
  PROVE  /\ tx[v].player \in Player \ DOMAIN players
         /\ \A w \in Worker \ {v} : tx[w].player # tx[v].player
<1>1. Shape(v)
  BY DEF RegistryInvariant
<1>2. QED
  BY <1>1 DEF Shape, CreateShape

\* The row a transaction leaves behind.
LEMMA AfterIsRow ==
  ASSUME RegistryInvariant, NEW w \in Worker, Creates(w) \/ IsUpdate(w),
         tx[w].at \in Holding
  PROVE  /\ After(w) \in PlayerRow
         /\ Creates(w) => After(w) = [name |-> tx[w].name, active |-> TRUE]
         /\ tx[w].action = "player.deactivated" =>
              After(w) = [tx[w].before EXCEPT !.active = FALSE]
<1>1. tx[w] \in Tx /\ Shape(w)
  BY DEF RegistryInvariant, TypeOK
<1>2. tx[w].name \in Name \cup {NoName} /\ tx[w].active \in SUBSET BOOLEAN
  BY <1>1, Fields
<1>3. IsUpdate(w) => tx[w].before \in PlayerRow
  BY <1>1 DEF Shape, UpdateShape, RegistryInvariant, TypeOK
<1>4. CASE Creates(w)
  <2>1. tx[w].name \in Name /\ tx[w].name # NoName /\ tx[w].active = {TRUE} /\ {TRUE} # {}
    BY <1>1, <1>4, RegistryAssumption DEF Shape, CreateShape
  <2>2. After(w) = [name |-> tx[w].name, active |-> TRUE]
    BY <2>1 DEF After
  <2>3. After(w) \in PlayerRow
    BY <2>1, <2>2 DEF PlayerRow, Atomic!PlayerRow
  <2>4. QED
    BY <1>4, <2>2, <2>3 DEF Creates
<1>5. CASE IsUpdate(w)
  <2>1. tx[w].before.name \in Name /\ tx[w].before.active \in BOOLEAN
    BY <1>3, <1>5 DEF PlayerRow, Atomic!PlayerRow
  <2>2. After(w) \in PlayerRow
    BY <1>2, <2>1 DEF After, PlayerRow, Atomic!PlayerRow
  <2>3. ASSUME tx[w].action = "player.deactivated"
        PROVE  After(w) = [tx[w].before EXCEPT !.active = FALSE]
    <3>1. tx[w].name = NoName /\ tx[w].active = {FALSE} /\ {FALSE} # {} /\ {FALSE} # {TRUE}
      BY <1>1, <1>5, <2>3 DEF Shape, UpdateShape
    <3>2. After(w) = [name |-> tx[w].before.name, active |-> FALSE]
      BY <3>1 DEF After
    <3>3. ASSUME NEW X, NEW row \in [name : Name, active : X], NEW x
          PROVE  [row EXCEPT !.active = x] = [name |-> row.name, active |-> x]
      OBVIOUS
    <3>4. QED
      BY <1>3, <1>5, <3>2, <3>3 DEF PlayerRow, Atomic!PlayerRow
  <2>4. QED
    BY <1>5, <2>2, <2>3 DEF Creates, IsUpdate
<1>6. QED
  BY <1>4, <1>5

-----------------------------------------------------------------------------
(* Steps that leave the tables alone *)

LEMMA QuietStep ==
  ASSUME RegistryInvariant, NEW w \in Worker, NEW t \in Tx,
         tx' = [tx EXCEPT ![w] = t], UNCHANGED <<players, entries>>,
         Shape(w)',
         \A v \in Worker \ {w} : Creates(v) => t.player # tx[v].player,
         \A v \in Worker \ {w}, p \in Player : HoldsRow(w, p)' => ~HoldsRow(v, p),
         Entered(w)' =>
           /\ Named(After(w).name)' = {}
           /\ \A v \in Worker \ {w} : Entered(v) => After(v).name # After(w).name'
  PROVE  RegistryInvariant'
<1>1. tx \in [Worker -> Tx] /\ tx' \in [Worker -> Tx] /\ tx'[w] = t
  BY DEF RegistryInvariant, TypeOK
<1>2. \A v \in Worker \ {w} : tx'[v] = tx[v]
  BY <1>1
<1>3. TypeOK'
  BY <1>1 DEF RegistryInvariant, TypeOK
<1>4. ASSUME NEW v \in Worker \ {w} PROVE Shape(v)'
  <2>1. tx'[v] = tx[v] /\ Shape(v)
    BY <1>2 DEF RegistryInvariant
  <2>2. Creates(v) => \A u \in Worker \ {v} : tx'[u].player # tx'[v].player
    BY <1>1, <1>2, <2>1 DEF Shape, CreateShape
  <2>3. QED
    BY <2>1, <2>2 DEF Shape, IdleShape, CreateShape, UpdateShape, MatchShape, Creates, IsUpdate
<1>5. ASSUME NEW v \in Worker \ {w}
      PROVE  /\ \A p \in Player : HoldsRow(v, p)' <=> HoldsRow(v, p)
             /\ Entered(v)' <=> Entered(v)
             /\ After(v)' = After(v)
  BY <1>2 DEF HoldsRow, IsUpdate, Entered, ChangesName, After
<1>6. RowsAreExclusive'
  BY <1>5 DEF RegistryInvariant, RowsAreExclusive
<1>7. \A n : Named(n)' = Named(n)
  BY DEF Named
<1>8. EnteredNamesAreFree'
  <2>1. ASSUME NEW v \in Worker, Entered(v)' PROVE Named(After(v).name)' = {}
    <3>1. CASE v = w
      BY <2>1, <3>1
    <3>2. CASE v # w
      <4>1. Named(After(v).name) = {} /\ After(v)' = After(v)
        BY <1>5, <2>1, <3>2 DEF RegistryInvariant, EnteredNamesAreFree
      <4>2. QED
        BY <4>1, <1>7
    <3>3. QED
      BY <3>1, <3>2
  <2>2. QED
    BY <2>1 DEF EnteredNamesAreFree
<1>9. EnteredNamesAreUnique'
  BY <1>5 DEF RegistryInvariant, EnteredNamesAreUnique
<1>10. NamesUnique' /\ AuditIsHistory'
  BY DEF RegistryInvariant, NamesUnique, AuditIsHistory
<1>11. QED
  BY <1>3, <1>4, <1>6, <1>8, <1>9, <1>10 DEF RegistryInvariant

\* A transaction that ends without a trace.
LEMMA AbortStep ==
  ASSUME RegistryInvariant, NEW w \in Worker, Aborts(w)
  PROVE  RegistryInvariant'
<1>1. tx' = [tx EXCEPT ![w] = IdleTx] /\ tx'[w] = IdleTx /\ UNCHANGED <<players, entries>>
  BY DEF Aborts, Sets, RegistryInvariant, TypeOK
<1>2. IdleTx.at = "idle" /\ IdleTx.action = "none" /\ IdleTx.player = NoPlayer
      /\ IdleTx.share = {} /\ IdleTx.rest = {}
  BY DEF IdleTx
<1>3. Shape(w)'
  BY <1>1, <1>2 DEF Shape, IdleShape, CreateShape, UpdateShape, MatchShape, Creates, IsUpdate
<1>4. \A v \in Worker : Creates(v) => IdleTx.player # tx[v].player
  BY <1>2, RegistryAssumption DEF RegistryInvariant, Shape, CreateShape
<1>5. ~Entered(w)' /\ \A p \in Player : ~HoldsRow(w, p)'
  BY <1>1, <1>2 DEF Entered, HoldsRow, IsUpdate
<1>6. QED
  BY <1>1, <1>3, <1>4, <1>5, Fields, QuietStep

\* A request that comes.
LEMMA BeginStep ==
  ASSUME RegistryInvariant, NEW w \in Worker, Begins(w)
  PROVE  RegistryInvariant'
<1>1. /\ tx \in [Worker -> Tx] /\ DOMAIN players \subseteq Player
      /\ NoPlayer \notin Player /\ NoName \notin Name
  BY RegistryAssumption DEF RegistryInvariant, TypeOK
<1>2. ASSUME NEW v \in Worker, Creates(v), NEW p \in DOMAIN players \cup {NoPlayer}
      PROVE  p # tx[v].player
  BY <1>1, <1>2 DEF RegistryInvariant, Shape, CreateShape
<1>3. ASSUME NEW p \in Player, NEW n \in Name, BeginCreate(w, p, n)
      PROVE  RegistryInvariant'
  <2> DEFINE t == [IdleTx EXCEPT !.at = "updating", !.action = "player.created",
                                 !.player = p, !.name = n, !.active = {TRUE}]
  <2>1. /\ t.at = "updating" /\ t.action = "player.created" /\ t.player = p /\ t.name = n
        /\ t.active = {TRUE} /\ t.before = NoRow /\ t.share = {} /\ t.rest = {}
    BY DEF IdleTx
  <2>2. t \in Tx
    BY Fields DEF IdleTx, At, Action
  <2>3. tx' = [tx EXCEPT ![w] = t] /\ UNCHANGED <<players, entries>>
    BY <1>3 DEF BeginCreate, Sets
  <2> HIDE DEF t
  <2>4. tx'[w] = t /\ \A v \in Worker \ {w} : tx'[v] = tx[v]
    BY <1>1, <2>3
  <2>5. p \notin DOMAIN players /\ \A v \in Worker : tx[v].player # p
    BY <1>3 DEF BeginCreate
  <2>6. Shape(w)'
    BY <2>1, <2>3, <2>4, <2>5
       DEF Shape, IdleShape, CreateShape, UpdateShape, MatchShape, Creates, IsUpdate
  <2>7. ~Entered(w)' /\ \A q \in Player : ~HoldsRow(w, q)'
    BY <2>1, <2>4 DEF Entered, HoldsRow, IsUpdate
  <2>8. QED
    BY <2>1, <2>2, <2>3, <2>5, <2>6, <2>7, QuietStep
<1>4. ASSUME NEW t \in Tx, tx' = [tx EXCEPT ![w] = t], UNCHANGED <<players, entries>>,
             t.at = "begun", t.action \in {"player.updated", "player.deactivated"},
             t.player \in DOMAIN players \cup {NoPlayer}, t.share = {},
             t.action = "player.deactivated" => t.name = NoName /\ t.active = {FALSE}
      PROVE  RegistryInvariant'
  <2>1. tx'[w] = t
    BY <1>1, <1>4
  <2>2. Shape(w)'
    BY <1>4, <2>1 DEF Shape, IdleShape, CreateShape, UpdateShape, MatchShape, Creates,
                      IsUpdate, Holding
  <2>3. ~Entered(w)' /\ \A q \in Player : ~HoldsRow(w, q)'
    BY <1>4, <2>1 DEF Entered, HoldsRow
  <2>4. \A v \in Worker \ {w} : Creates(v) => t.player # tx[v].player
    BY <1>2, <1>4
  <2>5. QED
    BY <1>4, <2>2, <2>3, <2>4, QuietStep
<1>5. ASSUME NEW p \in DOMAIN players \cup {NoPlayer}, NEW n \in Name \cup {NoName},
             NEW active \in {{}, {TRUE}, {FALSE}}, BeginUpdate(w, p, n, active)
      PROVE  RegistryInvariant'
  <2> DEFINE t == [IdleTx EXCEPT !.at = "begun", !.action = "player.updated",
                                 !.player = p, !.name = n, !.active = active]
  <2>1. t.at = "begun" /\ t.action = "player.updated" /\ t.player = p /\ t.share = {}
    BY DEF IdleTx
  <2>2. t \in Tx
    BY <1>1, Fields DEF IdleTx, At, Action
  <2>3. tx' = [tx EXCEPT ![w] = t] /\ UNCHANGED <<players, entries>>
    BY <1>5 DEF BeginUpdate, Sets
  <2> HIDE DEF t
  <2>4. QED
    BY <1>4, <2>1, <2>2, <2>3
<1>6. ASSUME NEW p \in DOMAIN players, BeginDeactivate(w, p)
      PROVE  RegistryInvariant'
  <2> DEFINE t == [IdleTx EXCEPT !.at = "begun", !.action = "player.deactivated",
                                 !.player = p, !.active = {FALSE}]
  <2>1. /\ t.at = "begun" /\ t.action = "player.deactivated" /\ t.player = p
        /\ t.share = {} /\ t.name = NoName /\ t.active = {FALSE}
    BY DEF IdleTx
  <2>2. t \in Tx
    BY <1>1, Fields DEF IdleTx, At, Action
  <2>3. tx' = [tx EXCEPT ![w] = t] /\ UNCHANGED <<players, entries>>
    BY <1>6 DEF BeginDeactivate, Sets
  <2> HIDE DEF t
  <2>4. QED
    BY <1>4, <2>1, <2>2, <2>3
<1>7. ASSUME NEW place \in SUBSET DOMAIN players, NEW p \in place, BeginMatch(w, place, p)
      PROVE  RegistryInvariant'
  <2> DEFINE t == [IdleTx EXCEPT !.at = "loading", !.action = "match",
                                 !.player = p, !.rest = place \ {p}]
  <2>1. /\ t.at = "loading" /\ t.action = "match" /\ t.player = p /\ t.name = NoName
        /\ t.share = {} /\ t.rest \subseteq DOMAIN players
    BY DEF IdleTx
  <2>2. t \in Tx
    BY <1>1, Fields DEF IdleTx, At, Action
  <2>3. tx' = [tx EXCEPT ![w] = t] /\ UNCHANGED <<players, entries>>
    BY <1>7 DEF BeginMatch, Sets
  <2> HIDE DEF t
  <2>4. tx'[w] = t
    BY <1>1, <2>3
  <2>5. Shape(w)'
    BY <2>1, <2>3, <2>4
       DEF Shape, IdleShape, CreateShape, UpdateShape, MatchShape, Creates, IsUpdate
  <2>6. ~Entered(w)' /\ \A q \in Player : ~HoldsRow(w, q)'
    BY <2>1, <2>4 DEF Entered, HoldsRow, IsUpdate
  <2>7. \A v \in Worker \ {w} : Creates(v) => t.player # tx[v].player
    BY <1>2, <2>1
  <2>8. QED
    BY <2>2, <2>3, <2>5, <2>6, <2>7, QuietStep
<1>8. QED
  BY <1>3, <1>5, <1>6, <1>7 DEF Begins

\* What kind of transaction is where.
LEMMA Kinds ==
  ASSUME RegistryInvariant, NEW w \in Worker
  PROVE  /\ tx[w] \in Tx /\ Shape(w)
         /\ tx[w].at = "loading" => tx[w].action = "match"
         /\ tx[w].at = "locked" => IsUpdate(w)
         /\ tx[w].at = "begun" => IsUpdate(w) \/ tx[w].action = "match"
         /\ tx[w].at = "updating" => IsUpdate(w) \/ Creates(w)
         /\ tx[w].at = "written" => IsUpdate(w) \/ Creates(w) \/ tx[w].action = "match"
         /\ tx[w].action = "match" => ~ChangesName(w) /\ ~IsUpdate(w) /\ ~Creates(w)
<1>1. tx[w] \in Tx /\ Shape(w)
  BY DEF RegistryInvariant, TypeOK
<1>2. tx[w].action \in {"none", "match", "player.created", "player.updated",
                        "player.deactivated"}
  BY <1>1, Fields DEF Action
<1>3. tx[w].action = "match" => ~ChangesName(w)
  BY <1>1 DEF Shape, MatchShape, ChangesName, After
<1>4. QED
  BY <1>1, <1>2, <1>3
     DEF Shape, IdleShape, CreateShape, UpdateShape, MatchShape, IsUpdate, Creates

LEMMA LockRowStep ==
  ASSUME RegistryInvariant, NEW w \in Worker, LockRow(w)
  PROVE  RegistryInvariant'
<1> DEFINE t == [tx[w] EXCEPT !.at = "locked", !.before = players[tx[w].player]]
<1>1. /\ tx \in [Worker -> Tx] /\ tx[w] \in Tx /\ Shape(w) /\ IsUpdate(w)
      /\ tx[w].at = "begun" /\ tx[w].player \in DOMAIN players /\ WaitsFor(w) = {}
  BY DEF LockRow, RegistryInvariant, TypeOK
<1>2. players[tx[w].player] \in PlayerRow /\ tx[w].player \in Player
  BY <1>1 DEF RegistryInvariant, TypeOK
<1>3. "locked" \in At
  BY DEF At
<1>4. /\ t \in Tx /\ t.at = "locked" /\ t.before = players[tx[w].player]
      /\ t.action = tx[w].action /\ t.player = tx[w].player /\ t.name = tx[w].name
      /\ t.active = tx[w].active /\ t.share = tx[w].share /\ t.rest = tx[w].rest
  BY <1>1, <1>2, <1>3, Fields
<1>5. tx' = [tx EXCEPT ![w] = t] /\ UNCHANGED <<players, entries>>
  BY DEF LockRow, Sets
<1> HIDE DEF t
<1>6. tx'[w] = t
  BY <1>1, <1>5
<1>7. Shape(w)'
  <2>1. IsUpdate(w)' /\ ~Creates(w)' /\ tx'[w].action \notin {"match", "none"}
    BY <1>1, <1>4, <1>6 DEF IsUpdate, Creates
  <2>2. IdleShape(w)' /\ CreateShape(w)' /\ MatchShape(w)'
    BY <1>4, <1>6, <2>1 DEF IdleShape, CreateShape, MatchShape
  <2>3. UpdateShape(w)'
    BY <1>1, <1>4, <1>5, <1>6 DEF Shape, UpdateShape, IsUpdate
  <2>4. QED
    BY <2>2, <2>3 DEF Shape
<1>8. \A v \in Worker \ {w} : Creates(v) => t.player # tx[v].player
  BY <1>4, CreatedIsNew
<1>9. ~Entered(w)'
  BY <1>4, <1>6 DEF Entered
<1>10. \A v \in Worker \ {w}, p \in Player : HoldsRow(w, p)' => ~HoldsRow(v, p)
  <2>1. \A v \in Worker \ {w} : ~HoldsRow(v, tx[w].player)
    BY <1>1, Waits
  <2>2. \A p \in Player : HoldsRow(w, p)' => p = tx[w].player
    BY <1>4, <1>6 DEF HoldsRow
  <2>3. QED
    BY <2>1, <2>2
<1>11. QED
  BY <1>4, <1>5, <1>7, <1>8, <1>9, <1>10, QuietStep

\* The steps of a transaction that has its row, or needs none, up to COMMIT.
LEMMA WriteStep ==
  ASSUME RegistryInvariant, NEW w \in Worker, WriteRow(w) \/ EnterName(w)
  PROVE  RegistryInvariant'
<1> DEFINE at == IF tx[w].at = "locked" THEN "updating" ELSE "written"
           t == [tx[w] EXCEPT !.at = at]
<1>1. /\ tx \in [Worker -> Tx] /\ tx[w] \in Tx /\ Shape(w) /\ WaitsFor(w) = {}
      /\ \/ tx[w].at = "locked" /\ IsUpdate(w)
         \/ tx[w].at = "updating" /\ (IsUpdate(w) \/ Creates(w))
  BY Kinds DEF WriteRow, EnterName, RegistryInvariant, TypeOK
<1>2. at \in At
  BY DEF At
<1>3. /\ t \in Tx /\ t.at = at /\ t.before = tx[w].before
      /\ t.action = tx[w].action /\ t.player = tx[w].player /\ t.name = tx[w].name
      /\ t.active = tx[w].active /\ t.share = tx[w].share /\ t.rest = tx[w].rest
  <2> HIDE DEF at
  <2>1. QED
    BY <1>1, <1>2, Fields
<1>4. tx' = [tx EXCEPT ![w] = t] /\ UNCHANGED <<players, entries>>
  BY DEF WriteRow, EnterName, Sets
<1> HIDE DEF t
<1>5. tx'[w] = t /\ \A v \in Worker \ {w} : tx'[v] = tx[v]
  BY <1>1, <1>4
<1>6. Shape(w)'
  <2>1. /\ IsUpdate(w)' <=> IsUpdate(w)
        /\ Creates(w)' <=> Creates(w)
        /\ tx'[w].action \notin {"match", "none"}
        /\ tx'[w].at \in {"updating", "written"}
    BY <1>1, <1>3, <1>5 DEF IsUpdate, Creates
  <2>2. IdleShape(w)' /\ MatchShape(w)'
    BY <2>1 DEF IdleShape, MatchShape
  <2>3. CreateShape(w)'
    BY <1>1, <1>3, <1>4, <1>5, <2>1 DEF Shape, CreateShape
  <2>4. UpdateShape(w)'
    <3>1. IsUpdate(w) => tx[w].at \in Holding
      BY <1>1 DEF Holding
    <3>2. QED
      BY <1>1, <1>3, <1>4, <1>5, <2>1, <3>1 DEF Shape, UpdateShape
  <2>5. QED
    BY <2>2, <2>3, <2>4 DEF Shape
<1>7. \A v \in Worker \ {w} : Creates(v) => t.player # tx[v].player
  BY <1>3, CreatedIsNew
<1>8. \A p \in Player : HoldsRow(w, p)' => HoldsRow(w, p)
  BY <1>1, <1>3, <1>5 DEF HoldsRow, IsUpdate, Creates
<1>9. \A v \in Worker \ {w}, p \in Player : HoldsRow(w, p)' => ~HoldsRow(v, p)
  BY <1>8 DEF RegistryInvariant, RowsAreExclusive
<1>10. After(w)' = After(w) /\ (ChangesName(w)' <=> ChangesName(w))
  BY <1>3, <1>5 DEF After, ChangesName
<1>11. ASSUME Entered(w)'
       PROVE  /\ Named(After(w).name)' = {}
              /\ \A v \in Worker \ {w} : Entered(v) => After(v).name # After(w).name'
  <2>1. /\ tx[w].at = "updating" /\ ChangesName(w) /\ ~NameTaken(w, After(w).name)
        /\ NameDecidedBy(w, After(w).name) = {}
    BY <1>1, <1>3, <1>5, <1>10, <1>11, Waits DEF Entered, WriteRow, EnterName
  <2>2. \A v \in Worker \ {w} : ~HasEntered(v, After(w).name)
    BY <2>1 DEF NameDecidedBy
  <2>3. ASSUME NEW p \in Named(After(w).name) PROVE FALSE
    <3>1. p = tx[w].player
      BY <2>1, <2>3 DEF NameTaken, NameDecidedBy
    <3>2. p \in DOMAIN players /\ players[p].name = After(w).name
      BY <2>3 DEF Named
    <3>3. IsUpdate(w) /\ tx[w].before = players[p]
      BY <1>1, <2>1, <3>1, <3>2 DEF Shape, CreateShape, UpdateShape, Holding
    <3>4. QED
      BY <2>1, <3>2, <3>3 DEF ChangesName
  <2>4. Named(After(w).name)' = Named(After(w).name)
    BY <1>4, <1>10 DEF Named
  <2>5. QED
    BY <1>10, <2>2, <2>3, <2>4 DEF Entered, HasEntered
<1>12. QED
  BY <1>3, <1>4, <1>6, <1>7, <1>9, <1>11, QuietStep

\* A match on its way through its players.
LEMMA MatchStep ==
  ASSUME RegistryInvariant, NEW w \in Worker, LockRatings(w) \/ Reference(w)
  PROVE  RegistryInvariant'
<1>1. /\ tx \in [Worker -> Tx] /\ tx[w] \in Tx /\ Shape(w) /\ tx[w].action = "match"
      /\ DOMAIN players \subseteq Player /\ tx[w].rest \subseteq DOMAIN players
      /\ UNCHANGED <<players, entries>>
  BY Kinds DEF LockRatings, Reference, RegistryInvariant, TypeOK, Shape, MatchShape
<1>2. ASSUME NEW t \in Tx, tx' = [tx EXCEPT ![w] = t], t.action = "match",
             t.at \in {"begun", "written"}, t.name = NoName,
             t.rest \subseteq DOMAIN players, t.player \in DOMAIN players
      PROVE  RegistryInvariant'
  <2>1. tx'[w] = t
    BY <1>1, <1>2
  <2>2. Shape(w)'
    BY <1>1, <1>2, <2>1
       DEF Shape, IdleShape, CreateShape, UpdateShape, MatchShape, Creates, IsUpdate
  <2>3. ~Entered(w)' /\ \A p \in Player : ~HoldsRow(w, p)'
    BY <1>2, <2>1 DEF Entered, ChangesName, After, HoldsRow, IsUpdate
  <2>4. \A v \in Worker \ {w} : Creates(v) => t.player # tx[v].player
    BY <1>2 DEF RegistryInvariant, Shape, CreateShape
  <2>5. QED
    BY <1>1, <1>2, <2>2, <2>3, <2>4, QuietStep
<1>3. tx[w].name = NoName /\ tx[w].share \subseteq Player /\ tx[w].player \in DOMAIN players
  BY <1>1, Fields DEF Shape, MatchShape
<1>4. "begun" \in At /\ "written" \in At
  BY DEF At
<1>5. CASE LockRatings(w)
  <2> DEFINE t == [tx[w] EXCEPT !.at = "begun"]
  <2>1. /\ t \in Tx /\ t.at = "begun" /\ t.action = "match" /\ t.name = NoName
        /\ t.rest = tx[w].rest /\ t.player = tx[w].player
    BY <1>1, <1>3, <1>4, Fields
  <2>2. tx' = [tx EXCEPT ![w] = t]
    BY <1>5 DEF LockRatings, Sets
  <2> HIDE DEF t
  <2>3. QED
    BY <1>1, <1>2, <1>3, <2>1, <2>2
<1>6. CASE Reference(w)
  <2> DEFINE share == tx[w].share \cup {tx[w].player}
             last == [tx[w] EXCEPT !.at = "written", !.share = share]
             next(p) == [tx[w] EXCEPT !.share = share, !.player = p, !.rest = @ \ {p}]
  <2>1. tx[w].at = "begun" /\ share \in SUBSET Player
    BY <1>1, <1>3, <1>6 DEF Reference
  <2>2. last \in Tx /\ last.at = "written" /\ last.action = "match" /\ last.name = NoName
        /\ last.rest = tx[w].rest /\ last.player = tx[w].player
    <3> HIDE DEF share
    <3>1. QED
      BY <1>1, <1>3, <1>4, <2>1, Fields
  <2>3. ASSUME NEW p \in tx[w].rest
        PROVE  /\ next(p) \in Tx /\ next(p).at = "begun" /\ next(p).action = "match"
               /\ next(p).name = NoName /\ next(p).rest \subseteq DOMAIN players
               /\ next(p).player \in DOMAIN players
    <3>1. p \in Player /\ p \in DOMAIN players /\ tx[w].rest \ {p} \in SUBSET Player
      BY <1>1, <2>3
    <3> HIDE DEF share
    <3>2. QED
      BY <1>1, <1>3, <2>1, <3>1, Fields
  <2>4. \/ tx' = [tx EXCEPT ![w] = last]
        \/ \E p \in tx[w].rest : tx' = [tx EXCEPT ![w] = next(p)]
    BY <1>6 DEF Reference, Sets
  <2> HIDE DEF last, next
  <2>5. QED
    BY <1>1, <1>2, <1>3, <2>2, <2>3, <2>4
<1>7. QED
  BY <1>5, <1>6

-----------------------------------------------------------------------------
(* COMMIT *)

\* What a commit of w does: the player it is about has the row w left, a new
\* player's or the one w had locked, under a name w entered or did not change.
Commits(w) ==
  LET p == tx[w].player IN
  /\ tx' = [tx EXCEPT ![w] = IdleTx] /\ tx'[w] = IdleTx
  /\ \A v \in Worker \ {w} : tx'[v] = tx[v]
  /\ p \in Player /\ After(w) \in PlayerRow
  /\ DOMAIN players' = DOMAIN players \cup {p} /\ players'[p] = After(w)
  /\ \A q \in DOMAIN players \ {p} : players'[q] = players[q]
  /\ \/ Creates(w) /\ p \notin DOMAIN players /\ tx[w].before = NoRow /\ Entered(w)
     \/ /\ IsUpdate(w) /\ p \in DOMAIN players /\ tx[w].before = players[p]
        /\ Entered(w) \/ After(w).name = players[p].name

LEMMA AtCommit ==
  ASSUME RegistryInvariant, NEW w \in Worker, Commit(w)
  PROVE  Commits(w)
<1>1. tx \in [Worker -> Tx] /\ tx[w] \in Tx /\ Shape(w) /\ DOMAIN players \subseteq Player
  BY DEF RegistryInvariant, TypeOK
<1>2. tx[w].at = "written" /\ (IsUpdate(w) \/ Creates(w))
  BY Kinds DEF Commit
<1>3. After(w) \in PlayerRow
  BY <1>2, AfterIsRow DEF Holding
<1>4. ASSUME Creates(w)
      PROVE  /\ tx[w].player \in Player /\ tx[w].player \notin DOMAIN players
             /\ tx[w].before = NoRow /\ Entered(w)
  <2>1. After(w).name \in Name /\ NoRow.name = ""
    BY <1>3 DEF PlayerRow, Atomic!PlayerRow, NoRow, Atomic!NoRow
  <2>2. tx[w].before = NoRow /\ tx[w].player \in Player \ DOMAIN players
    BY <1>1, <1>4 DEF Shape, CreateShape
  <2>3. ChangesName(w)
    BY <2>1, <2>2, RegistryAssumption DEF ChangesName
  <2>4. QED
    BY <1>2, <2>2, <2>3 DEF Entered
<1>5. ASSUME IsUpdate(w)
      PROVE  /\ tx[w].player \in DOMAIN players /\ tx[w].before = players[tx[w].player]
             /\ Entered(w) \/ After(w).name = players[tx[w].player].name
  <2>1. tx[w].player \in DOMAIN players /\ tx[w].before = players[tx[w].player]
    BY <1>1, <1>2, <1>5 DEF Shape, UpdateShape, Holding
  <2>2. QED
    BY <1>2, <2>1 DEF Entered, ChangesName
<1>6. /\ tx' = [tx EXCEPT ![w] = IdleTx]
      /\ players' = [q \in DOMAIN players \cup {tx[w].player} |->
                       IF q = tx[w].player THEN After(w) ELSE players[q]]
  BY DEF Commit, Sets
<1>7. QED
  BY <1>1, <1>2, <1>3, <1>4, <1>5, <1>6 DEF Commits

\* The name a transaction leaves behind is nobody else's.
LEMMA CommitKeepsNames ==
  ASSUME RegistryInvariant, NEW w \in Worker, Commit(w)
  PROVE  /\ \A q \in DOMAIN players \ {tx[w].player} : players[q].name # After(w).name
         /\ NamesUnique'
<1> DEFINE p == tx[w].player
<1>0. Commits(w)
  BY AtCommit
<1>1. ASSUME NEW q \in DOMAIN players \ {p}, players[q].name = After(w).name PROVE FALSE
  <2>1. CASE Entered(w)
    BY <1>1, <2>1 DEF RegistryInvariant, EnteredNamesAreFree, Named
  <2>2. CASE p \in DOMAIN players /\ After(w).name = players[p].name
    BY <1>1, <2>2 DEF RegistryInvariant, NamesUnique
  <2>3. QED
    BY <2>1, <2>2, <1>0 DEF Commits
<1>2. NamesUnique'
  BY <1>1, <1>0 DEF RegistryInvariant, NamesUnique, Commits
<1>3. QED
  BY <1>1, <1>2

LEMMA CommitKeepsEntries ==
  ASSUME RegistryInvariant, NEW w \in Worker, Commit(w)
  PROVE  entries' \in [Player -> Seq(Atomic!Entry)] /\ AuditIsHistory'
<1> DEFINE p == tx[w].player
           e == EntryOf(w)
           log == entries[p]
<1>0. Commits(w)
  BY AtCommit
<1>1. /\ entries \in [Player -> Seq(Atomic!Entry)] /\ p \in Player
      /\ entries' = [entries EXCEPT ![p] = Append(log, e)]
  BY <1>0 DEF RegistryInvariant, TypeOK, Commit, Commits
<1>2. e \in Atomic!Entry
  <2>1. tx[w].action \in {"player.created", "player.updated", "player.deactivated"}
    BY <1>0 DEF Creates, IsUpdate, Commits
  <2>2. tx[w].before \in PlayerRow \cup {NoRow} /\ After(w) \in PlayerRow
    BY <1>0 DEF RegistryInvariant, TypeOK, Commits
  <2>3. QED
    BY <2>1, <2>2 DEF EntryOf, Atomic!Entry, PlayerRow, NoRow
<1>3. e.old = tx[w].before /\ e.new = After(w)
  BY DEF EntryOf
<1> HIDE DEF e
<1>4. entries' \in [Player -> Seq(Atomic!Entry)]
  BY <1>1, <1>2
<1>5. /\ entries'[p] = Append(log, e) /\ log \in Seq(Atomic!Entry)
      /\ \A q \in Player \ {p} : entries'[q] = entries[q]
  BY <1>1
<1>6. /\ Append(log, e) # <<>> /\ Len(Append(log, e)) = Len(log) + 1
      /\ Append(log, e)[Len(log) + 1] = e /\ Len(log) \in Nat
      /\ \A i \in 1..Len(log) : Append(log, e)[i] = log[i]
  BY <1>2, <1>5, AppendProperties, LenProperties
<1>7. ASSUME NEW q \in Player, q # p
      PROVE  /\ q \in DOMAIN players' <=> entries'[q] # <<>>
             /\ entries'[q] # <<>> => /\ entries'[q][1].old = NoRow
                                      /\ entries'[q][Len(entries'[q])].new = players'[q]
             /\ \A i \in 2..Len(entries'[q]) : entries'[q][i].old = entries'[q][i - 1].new
  BY <1>5, <1>7, <1>0 DEF RegistryInvariant, AuditIsHistory, Commits
<1>8. p \in DOMAIN players' /\ entries'[p] # <<>> /\ entries'[p][Len(entries'[p])].new = players'[p]
  BY <1>3, <1>5, <1>6, <1>0 DEF Commits
<1>9. /\ p \in DOMAIN players <=> log # <<>>
      /\ log # <<>> => log[1].old = NoRow /\ log[Len(log)].new = players[p]
      /\ \A i \in 2..Len(log) : log[i].old = log[i - 1].new
  BY <1>1 DEF RegistryInvariant, AuditIsHistory
<1>10. CASE p \notin DOMAIN players
  <2>1. Len(log) = 0 /\ e.old = NoRow
    BY <1>3, <1>9, <1>10, <1>0, EmptySeq DEF Commits
  <2>2. entries'[p][1].old = NoRow /\ Len(entries'[p]) = 1
    BY <1>5, <1>6, <2>1
  <2>3. \A i \in 2..Len(entries'[p]) : entries'[p][i].old = entries'[p][i - 1].new
    BY <2>2
  <2>4. QED
    BY <1>4, <1>7, <1>8, <2>2, <2>3 DEF AuditIsHistory
<1>11. CASE p \in DOMAIN players
  <2>1. Len(log) >= 1 /\ e.old = players[p]
    BY <1>3, <1>5, <1>6, <1>9, <1>11, <1>0, EmptySeq DEF Commits
  <2>2. entries'[p][1].old = NoRow
    BY <1>5, <1>6, <1>9, <1>11, <2>1
  <2>3. ASSUME NEW i \in 2..Len(entries'[p])
        PROVE  entries'[p][i].old = entries'[p][i - 1].new
    <3>1. CASE i <= Len(log)
      <4>1. i \in 1..Len(log) /\ i - 1 \in 1..Len(log) /\ i \in 2..Len(log)
        BY <1>6, <3>1
      <4>2. QED
        BY <1>5, <1>6, <1>9, <4>1
    <3>2. CASE i = Len(log) + 1
      <4>1. i - 1 = Len(log) /\ Len(log) \in 1..Len(log)
        BY <1>6, <2>1, <3>2
      <4>2. QED
        BY <1>5, <1>6, <1>9, <1>11, <2>1, <3>2, <4>1
    <3>3. QED
      BY <1>5, <1>6, <3>1, <3>2
  <2>4. QED
    BY <1>4, <1>7, <1>8, <2>2, <2>3 DEF AuditIsHistory
<1>12. QED
  BY <1>10, <1>11

LEMMA CommitStep ==
  ASSUME RegistryInvariant, NEW w \in Worker, Commit(w)
  PROVE  RegistryInvariant'
<1> DEFINE p == tx[w].player
<1>0. Commits(w)
  BY AtCommit
<1>1. TypeOK'
  <2>1. tx' \in [Worker -> Tx]
    BY <1>0, Fields DEF RegistryInvariant, TypeOK, Commits
  <2>2. DOMAIN players' \subseteq Player /\ \A q \in DOMAIN players' : players'[q] \in PlayerRow
    BY <1>0 DEF RegistryInvariant, TypeOK, Commits
  <2>3. QED
    BY <2>1, <2>2, CommitKeepsEntries DEF TypeOK
<1>2. /\ IdleTx.at = "idle" /\ IdleTx.action = "none" /\ IdleTx.player = NoPlayer
      /\ IdleTx.share = {} /\ IdleTx.rest = {}
  BY DEF IdleTx
<1>3. ASSUME NEW v \in Worker \ {w}
      PROVE  /\ tx'[v] = tx[v] /\ Shape(v)
             /\ After(v)' = After(v) /\ (Entered(v)' <=> Entered(v))
             /\ IsUpdate(v)' <=> IsUpdate(v)
             /\ \A q \in Player : HoldsRow(v, q)' <=> HoldsRow(v, q)
  BY <1>0 DEF RegistryInvariant, After, Entered, ChangesName, IsUpdate, HoldsRow, Commits
<1>4. Shape(w)'
  BY <1>2, <1>0 DEF Shape, IdleShape, CreateShape, UpdateShape, MatchShape, Creates, IsUpdate, Commits
<1>5. ASSUME NEW v \in Worker \ {w} PROVE Shape(v)'
  <2>1. IdleShape(v)' /\ MatchShape(v)'
    BY <1>3, <1>0 DEF Shape, IdleShape, MatchShape, Commits
  <2>2. CreateShape(v)'
    <3>1. ASSUME Creates(v) PROVE tx[v].player # p /\ tx[v].player # NoPlayer
      BY <3>1, CreatedIsNew, RegistryAssumption
    <3>2. ASSUME Creates(v)
          PROVE  /\ tx[v].player \in Player \ DOMAIN players'
                 /\ \A u \in Worker \ {v} : tx'[u].player # tx[v].player
      BY <1>2, <1>0, <3>1, <3>2, CreatedIsNew DEF Commits
    <3>3. Creates(v) => CreateShape(v)'
      BY <1>3, <3>2 DEF Shape, CreateShape
    <3>4. Creates(v)' <=> Creates(v)
      BY <1>3 DEF Creates
    <3>5. QED
      BY <3>3, <3>4 DEF CreateShape
  <2>3. UpdateShape(v)'
    <3>1. ASSUME IsUpdate(v), tx[v].at \in Holding
          PROVE  tx[v].player # p /\ tx[v].player \in DOMAIN players
      <4>1. tx[v].player \in DOMAIN players
        BY <1>3, <3>1 DEF Shape, UpdateShape
      <4>2. CASE IsUpdate(w)
        <5>1. HoldsRow(v, tx[v].player)
          BY <3>1 DEF HoldsRow, Holding
        <5>2. HoldsRow(w, p)
          BY <4>2 DEF HoldsRow, Commit
        <5>3. QED
          BY <4>1, <5>1, <5>2, <1>0 DEF RegistryInvariant, RowsAreExclusive, Commits
      <4>3. CASE ~IsUpdate(w)
        BY <4>1, <4>3, <1>0 DEF Commits
      <4>4. QED
        BY <4>2, <4>3
    <3>2. ASSUME IsUpdate(v), tx[v].at \in Holding
          PROVE  /\ tx[v].player \in DOMAIN players'
                 /\ tx[v].before = players'[tx[v].player]
      BY <1>0, <1>3, <3>1, <3>2 DEF Shape, UpdateShape, Commits
    <3>3. IsUpdate(v) => UpdateShape(v)'
      BY <1>3, <3>2 DEF Shape, UpdateShape
    <3>4. QED
      BY <1>3, <3>3 DEF UpdateShape
  <2>4. QED
    BY <2>1, <2>2, <2>3 DEF Shape
<1>6. ~Entered(w)' /\ \A q \in Player : ~HoldsRow(w, q)'
  BY <1>2, <1>0 DEF Entered, HoldsRow, IsUpdate, Commits
<1>7. RowsAreExclusive' /\ EnteredNamesAreUnique'
  BY <1>3, <1>6 DEF RegistryInvariant, RowsAreExclusive, EnteredNamesAreUnique
<1>8. EnteredNamesAreFree'
  <2>1. ASSUME NEW v \in Worker \ {w}, Entered(v), NEW q \in Named(After(v).name)'
        PROVE  FALSE
    <3>1. q \in DOMAIN players' /\ players'[q].name = After(v).name
      BY <1>3, <2>1 DEF Named
    <3>2. \A r \in DOMAIN players : players[r].name # After(v).name
      BY <2>1 DEF RegistryInvariant, EnteredNamesAreFree, Named
    <3>3. q = p /\ After(w).name = After(v).name
      BY <3>1, <3>2, <1>0 DEF Commits
    <3>4. Entered(w)
      BY <3>2, <3>3, <1>0 DEF Commits
    <3>5. QED
      BY <2>1, <3>3, <3>4 DEF RegistryInvariant, EnteredNamesAreUnique
  <2>2. QED
    BY <1>3, <1>6, <2>1 DEF EnteredNamesAreFree
<1>9. QED
  BY <1>1, <1>4, <1>5, <1>7, <1>8, CommitKeepsNames, CommitKeepsEntries DEF RegistryInvariant

-----------------------------------------------------------------------------
(* Every step *)

LEMMA InitInvariant == Init => RegistryInvariant
<1> SUFFICES ASSUME Init PROVE RegistryInvariant
  OBVIOUS
<1>1. /\ IdleTx.at = "idle" /\ IdleTx.action = "none" /\ IdleTx.player = NoPlayer
      /\ IdleTx.share = {} /\ IdleTx.rest = {}
  BY DEF IdleTx
<1>2. \A w \in Worker : tx[w] = IdleTx
  BY DEF Init
<1>3. DOMAIN players = {}
  BY DEF Init
<1>4. TypeOK
  BY <1>3, Fields, EmptySeq DEF Init, TypeOK
<1>5. ASSUME NEW w \in Worker PROVE Shape(w)
  BY <1>1, <1>2 DEF Shape, IdleShape, CreateShape, UpdateShape, MatchShape, Creates, IsUpdate
<1>6. ASSUME NEW w \in Worker PROVE ~Entered(w) /\ \A p \in Player : ~HoldsRow(w, p)
  BY <1>1, <1>2 DEF Entered, HoldsRow, IsUpdate
<1>7. RowsAreExclusive /\ EnteredNamesAreFree /\ EnteredNamesAreUnique
  BY <1>6 DEF RowsAreExclusive, EnteredNamesAreFree, EnteredNamesAreUnique
<1>8. NamesUnique
  BY <1>3 DEF NamesUnique
<1>9. AuditIsHistory
  BY <1>3, EmptySeq DEF Init, AuditIsHistory
<1>10. QED
  BY <1>4, <1>5, <1>7, <1>8, <1>9 DEF RegistryInvariant

\* A step of one transaction: it commits, or leaves the tables alone.
LEMMA StepByStep ==
  ASSUME NEW w \in Worker, Begins(w) \/ Proceeds(w) \/ Fails(w) \/ BreakDeadlock(w)
  PROVE  \/ Begins(w) \/ LockRow(w) \/ WriteRow(w) \/ EnterName(w)
         \/ LockRatings(w) \/ Reference(w) \/ Aborts(w) \/ Commit(w)
BY DEF Proceeds, NotFound, DuplicateName, CommitMatch, Fails, BreakDeadlock

LEMMA StepInvariant == RegistryInvariant /\ [Next]_vars => RegistryInvariant'
<1> SUFFICES ASSUME RegistryInvariant, [Next]_vars PROVE RegistryInvariant'
  OBVIOUS
<1>1. CASE UNCHANGED vars
  <2>1. UNCHANGED <<players, entries, tx>>
    BY <1>1 DEF vars
  <2>2. TypeOK' /\ NamesUnique' /\ AuditIsHistory'
    BY <2>1 DEF RegistryInvariant, TypeOK, NamesUnique, AuditIsHistory
  <2>3. ASSUME NEW w \in Worker
        PROVE  /\ Shape(w)' /\ After(w)' = After(w) /\ (Entered(w)' <=> Entered(w))
               /\ \A p \in Player : HoldsRow(w, p)' <=> HoldsRow(w, p)
               /\ Named(After(w).name)' = Named(After(w).name)
    BY <2>1 DEF RegistryInvariant, Shape, IdleShape, CreateShape, UpdateShape, MatchShape,
                Creates, IsUpdate, After, Entered, ChangesName, HoldsRow, Named
  <2>4. RowsAreExclusive' /\ EnteredNamesAreFree' /\ EnteredNamesAreUnique'
    BY <2>3 DEF RegistryInvariant, RowsAreExclusive, EnteredNamesAreFree, EnteredNamesAreUnique
  <2>5. QED
    BY <2>2, <2>3, <2>4 DEF RegistryInvariant
<1>2. CASE Next
  BY <1>2, StepByStep, BeginStep, LockRowStep, WriteStep, MatchStep, AbortStep, CommitStep
     DEF Next
<1>3. QED
  BY <1>1, <1>2

\* The inductive invariant holds in every behaviour.
THEOREM RegistryInvariantHolds == Spec => []RegistryInvariant
<1>1. QED
  BY InitInvariant, StepInvariant, PTL DEF Spec

\* Every variable stays in its type, update_player's COALESCE of missing fields
\* included.
THEOREM TypeCorrect == Spec => []TypeOK
<1>1. RegistryInvariant => TypeOK
  BY DEF RegistryInvariant
<1>2. QED
  BY <1>1, RegistryInvariantHolds, PTL

\* However many creations and renames race, the unique index and its waits let no
\* two players have the same display name (create_player, update_player).
THEOREM NamesStayUnique == Spec => []NamesUnique
<1>1. RegistryInvariant => NamesUnique
  BY DEF RegistryInvariant
<1>2. QED
  BY <1>1, RegistryInvariantHolds, PTL

\* Because old_value is read under FOR UPDATE, the audit log is a history of each
\* player without gaps (update_player, deactivate_player).
THEOREM AuditTellsHistory == Spec => []AuditIsHistory
<1>1. RegistryInvariant => AuditIsHistory
  BY DEF RegistryInvariant
<1>2. QED
  BY <1>1, RegistryInvariantHolds, PTL

-----------------------------------------------------------------------------
(* Deadlocks *)

\* On a cycle everybody waits for somebody on it and is waited for.
LEMMA OnCycle ==
  ASSUME NEW S \in SUBSET Worker, NEW w \in S, S # {w},
         \A T \in (SUBSET S) \ {{}, S} : \E v \in T : WaitsFor(v) \cap (S \ T) # {}
  PROVE  \A v \in S : /\ WaitsFor(v) \cap S # {}
                      /\ \E u \in S : v \in WaitsFor(u)
<1>1. ASSUME NEW v \in S PROVE WaitsFor(v) \cap S # {} /\ \E u \in S : v \in WaitsFor(u)
  <2>1. {v} \in (SUBSET S) \ {{}, S}
    OBVIOUS
  <2>2. WaitsFor(v) \cap (S \ {v}) # {}
    BY <2>1
  <2>3. S \ {v} \in (SUBSET S) \ {{}, S}
    BY <2>1
  <2>4. PICK u \in S \ {v} : WaitsFor(u) \cap (S \ (S \ {v})) # {}
    BY <2>3
  <2>5. QED
    BY <2>2, <2>4
<1>2. QED
  BY <1>1

LEMMA CyclesAreOfRenames == RegistryInvariant => OnlyRenamesDeadlock
<1> SUFFICES ASSUME RegistryInvariant, NEW w \in Worker, Deadlocked(w)
             PROVE  tx[w].at = "updating" /\ tx[w].action = "player.updated" /\ ChangesName(w)
  BY DEF OnlyRenamesDeadlock
<1>1. PICK S \in SUBSET Worker :
        /\ w \in S /\ S # {w}
        /\ \A T \in (SUBSET S) \ {{}, S} : \E v \in T : WaitsFor(v) \cap (S \ T) # {}
  BY DEF Deadlocked
<1>2. \A v \in S : WaitsFor(v) \cap S # {} /\ \E u \in S : v \in WaitsFor(u)
  BY <1>1, OnCycle
<1>3. ASSUME NEW v \in S
      PROVE  tx[v].at = "begun" \/ (tx[v].at = "updating" /\ ChangesName(v))
  <2>1. v \in Worker /\ WaitsFor(v) # {}
    BY <1>2
  <2>2. /\ tx[v].at \notin {"begun", "updating"} => WaitsFor(v) = {}
        /\ tx[v].at = "updating" /\ ~ChangesName(v) => WaitsFor(v) = {}
    BY <2>1, Waits
  <2>3. QED
    BY <2>1, <2>2
<1>4. ASSUME NEW v \in S, tx[v].at = "begun" PROVE ~IsUpdate(v)
  <2>1. ASSUME IsUpdate(v) PROVE FALSE
    <3>1. PICK u \in S : v \in WaitsFor(u)
      BY <1>2
    <3>2. /\ \A p : ~HoldsRow(v, p) /\ ~HasUpdated(v, p)
          /\ \A n : ~HasEntered(v, n)
      BY <1>4 DEF HoldsRow, HasUpdated, HasEntered
    <3>3. tx[v].share = {}
      BY <2>1, Kinds DEF Shape, UpdateShape
    <3>4. QED
      BY <1>3, <3>1, <3>2, <3>3, Waits DEF NameDecidedBy
  <2>2. QED
    BY <2>1
<1>5. ASSUME NEW v \in S PROVE IsUpdate(v) /\ tx[v].at = "updating" /\ ChangesName(v)
  <2>1. PICK u \in S : v \in WaitsFor(u)
    BY <1>2
  <2>2. u \in Worker /\ v \in Worker
    OBVIOUS
  <2>3. CASE tx[u].at = "begun"
    <3>1. HoldsRow(v, tx[u].player)
      BY <1>4, <2>1, <2>2, <2>3, Waits
    <3>2. QED
      BY <1>3, <3>1 DEF HoldsRow
  <2>4. CASE tx[u].at = "updating" /\ ChangesName(u)
    <3>1. v \in NameDecidedBy(u, After(u).name)
      BY <2>1, <2>2, <2>4, Waits
    <3>2. ~HasEntered(v, After(u).name)
      BY <1>3 DEF HasEntered
    <3>3. PICK p \in Named(After(u).name) : HasUpdated(v, p)
      BY <3>1, <3>2 DEF NameDecidedBy
    <3>4. QED
      BY <1>3, <3>3 DEF HasUpdated, HoldsRow
  <2>5. QED
    BY <1>3, <2>3, <2>4
<1>6. IsUpdate(w) /\ tx[w].at = "updating" /\ ChangesName(w) /\ Shape(w)
  BY <1>1, <1>5 DEF RegistryInvariant
<1>7. tx[w].action # "player.deactivated"
  BY <1>6 DEF Shape, UpdateShape, ChangesName, After
<1>8. QED
  BY <1>6, <1>7 DEF IsUpdate

\* Among any number of transactions that create, update and deactivate players
\* and insert matches, only renames ever wait for each other in a circle: the
\* ledger's KEY SHARE locks and its FOR UPDATE OF pr never close one.
THEOREM OnlyRenamesWaitInCircles == Spec => []OnlyRenamesDeadlock
<1>1. QED
  BY CyclesAreOfRenames, RegistryInvariantHolds, PTL

-----------------------------------------------------------------------------
(* Progress *)

\* A step of w's request that waits for nobody is at hand: the guards of NotFound
\* and LockRow; WriteRow; EnterName and DuplicateName; Commit and CommitMatch;
\* LockRatings; Reference.
CanGoOn(w) ==
  \/ tx[w].at = "begun" /\ IsUpdate(w) /\ tx[w].player \notin DOMAIN players
  \/ tx[w].at = "begun" /\ IsUpdate(w) /\ tx[w].player \in DOMAIN players /\ WaitsFor(w) = {}
  \/ tx[w].at = "locked" /\ WaitsFor(w) = {}
  \/ tx[w].at = "updating" /\ WaitsFor(w) = {} /\ ~(ChangesName(w) /\ NameTaken(w, After(w).name))
  \/ tx[w].at = "updating" /\ ChangesName(w) /\ NameTaken(w, After(w).name)
  \/ tx[w].at = "written"
  \/ tx[w].at = "loading" /\ WaitsFor(w) = {}
  \/ tx[w].at = "begun" /\ tx[w].action = "match" /\ WaitsFor(w) = {}

Busy == {w \in Worker : tx[w].at # "idle"}

\* Not everybody waits on everybody: while there are requests, one of them can go
\* on, or stands on a cycle of waits that Postgres breaks.
SomebodyGetsOn == Busy # {} => \E w \in Busy : CanGoOn(w) \/ Deadlocked(w)

\* How far a request is; a match has as many rows to insert as players.
Stage == [loading |-> 1, begun |-> 2, locked |-> 3, updating |-> 4, written |-> 5, idle |-> 6]

Nearer(next, t) ==
  \/ Stage[next.at] > Stage[t.at]
  \/ next.at = "begun" /\ t.at = "begun" /\ next.rest \subseteq t.rest /\ next.rest # t.rest

\* Whatever a request does brings it nearer its end: nothing is tried twice.
StepsLeadToEnd ==
  [][\A w \in Worker : tx[w].at # "idle" /\ tx'[w] # tx[w] => Nearer(tx'[w], tx[w])]_vars

LEMMA UnblockedGoesOn ==
  ASSUME RegistryInvariant, NEW w \in Busy, WaitsFor(w) = {}
  PROVE  CanGoOn(w)
<1>1. w \in Worker /\ tx[w] \in Tx /\ Shape(w) /\ tx[w].at \in At \ {"idle"}
      /\ tx[w].action \in Action
  BY Fields DEF RegistryInvariant, TypeOK, Busy
<1>2. CASE tx[w].at = "begun"
  <2>1. IsUpdate(w) \/ tx[w].action = "match"
    BY <1>1, <1>2 DEF Shape, IdleShape, CreateShape, Creates, IsUpdate, Action
  <2>2. QED
    BY <1>2, <2>1 DEF CanGoOn
<1>3. CASE tx[w].at # "begun"
  BY <1>1, <1>3 DEF CanGoOn, At
<1>4. QED
  BY <1>2, <1>3

\* Whoever is waited for is busy.
LEMMA WaitsForBusy ==
  ASSUME RegistryInvariant, NEW w \in Worker
  PROVE  WaitsFor(w) \subseteq Busy \ {w}
<1> SUFFICES ASSUME NEW v \in WaitsFor(w) PROVE v \in Busy \ {w}
  OBVIOUS
<1>1. tx[w].at \in {"begun", "updating"} /\ (tx[w].at = "updating" => ChangesName(w))
  BY Waits
<1>2. v \in Worker \ {w}
        /\ \/ HoldsRow(v, tx[w].player)
           \/ tx[w].player \in tx[v].share
           \/ v \in NameDecidedBy(w, After(w).name)
  BY <1>1, Waits DEF NameDecidedBy
<1>3. IdleShape(v)
  BY <1>2 DEF RegistryInvariant, Shape
<1>4. QED
  BY <1>2, <1>3 DEF IdleShape, HoldsRow, NameDecidedBy, HasEntered, HasUpdated, Busy

\* If everybody waits, a smallest set that waits only for itself is a cycle.
LEMMA AllWaitingDeadlock ==
  ASSUME RegistryInvariant, Busy # {}, \A w \in Busy : WaitsFor(w) # {}
  PROVE  \E w \in Busy : Deadlocked(w)
<1> DEFINE Closed == {S \in SUBSET Busy : S # {} /\ \A v \in S : WaitsFor(v) \subseteq S}
<1>1. \A v \in Busy : WaitsFor(v) \subseteq Busy \ {v}
  BY WaitsForBusy DEF Busy
<1>2. IsFiniteSet(Busy) /\ Busy \in Closed
  <2>1. Busy \subseteq Worker
    BY DEF Busy
  <2>2. QED
    BY <1>1, <2>1, FS_Subset, RegistryAssumption
<1>3. PICK S \in Closed : \A T \in Closed : ~(T \subseteq S /\ T # S)
  <2>1. Closed \subseteq FiniteSubsetsOf(Busy) /\ Closed # {}
    BY <1>2, FS_Subset DEF FiniteSubsetsOf
  <2>2. IsWellFoundedOn(StrictSubsetOrdering(Busy), FiniteSubsetsOf(Busy))
    BY FS_StrictSubsetOrderingWellFounded
  <2>3. PICK S \in Closed : \A T \in Closed : <<T, S>> \notin StrictSubsetOrdering(Busy)
    <3> HIDE DEF Closed
    <3>1. QED BY <2>1, <2>2, WFMin, Zenon
  <2>4. \A T \in Closed : T \subseteq S /\ T # S => <<T, S>> \in StrictSubsetOrdering(Busy)
    BY DEF StrictSubsetOrdering
  <2>5. QED
    BY <2>3, <2>4
<1>4. PICK w \in S : w \in Busy
  OBVIOUS
<1>5. S \in SUBSET Worker /\ S # {w}
  BY <1>1, <1>4 DEF Busy
<1>6. ASSUME NEW T \in SUBSET S, T # {}, T # S PROVE \E v \in T : WaitsFor(v) \cap (S \ T) # {}
  <2>1. T \subseteq S /\ T # S /\ T # {} /\ T \in SUBSET Busy
    BY <1>6
  <2>2. PICK v \in T : ~(WaitsFor(v) \subseteq T)
    BY <1>3, <2>1
  <2>3. WaitsFor(v) \subseteq S
    BY <2>1
  <2>4. QED
    BY <2>2, <2>3
<1>7. \A T \in (SUBSET S) \ {{}, S} : \E v \in T : WaitsFor(v) \cap (S \ T) # {}
  <2> HIDE DEF Closed
  <2>1. QED BY <1>6
<1>8. QED
  BY <1>4, <1>5, <1>7 DEF Deadlocked

\* However creations, renames, deactivations and matches wait for rows and names,
\* some request can always go on or is freed by the deadlock detector.
THEOREM SomebodyAlwaysGetsOn == Spec => []SomebodyGetsOn
<1>1. RegistryInvariant => SomebodyGetsOn
  BY UnblockedGoesOn, AllWaitingDeadlock DEF SomebodyGetsOn
<1>2. QED
  BY <1>1, RegistryInvariantHolds, PTL

LEMMA StepIsNearer ==
  ASSUME RegistryInvariant, NEW w \in Worker, Proceeds(w) \/ Fails(w) \/ BreakDeadlock(w)
  PROVE  tx[w].at # "idle" => Nearer(tx'[w], tx[w])
<1>1. tx \in [Worker -> Tx] /\ tx[w].at \in At
  BY Fields DEF RegistryInvariant, TypeOK
<1>2. CASE Aborts(w) \/ Commit(w)
  BY <1>1, <1>2 DEF Aborts, Commit, Sets, IdleTx, Nearer, Stage, At
<1>3. CASE LockRow(w) \/ WriteRow(w) \/ EnterName(w) \/ LockRatings(w)
  <2>1. /\ LockRow(w) => tx[w].at = "begun" /\ tx'[w].at = "locked"
        /\ WriteRow(w) => tx[w].at = "locked" /\ tx'[w].at = "updating"
        /\ EnterName(w) => tx[w].at = "updating" /\ tx'[w].at = "written"
        /\ LockRatings(w) => tx[w].at = "loading" /\ tx'[w].at = "begun"
    BY <1>1 DEF LockRow, WriteRow, EnterName, LockRatings, Sets, Tx
  <2>2. QED
    BY <1>3, <2>1 DEF Nearer, Stage
<1>4. CASE Reference(w)
  <2>1. CASE tx[w].rest = {}
    <3>1. tx[w].at = "begun" /\ tx'[w].at = "written"
      BY <1>1, <1>4, <2>1 DEF Reference, Sets, Tx
    <3>2. QED
      BY <3>1 DEF Nearer, Stage
  <2>2. CASE tx[w].rest # {}
    <3>1. PICK p \in tx[w].rest : tx'[w] = [tx[w] EXCEPT !.share = @ \cup {tx[w].player},
                                                          !.player = p, !.rest = @ \ {p}]
      BY <1>1, <1>4, <2>2 DEF Reference, Sets
    <3>2. tx'[w].at = tx[w].at /\ tx'[w].rest = tx[w].rest \ {p}
      BY <1>1, <3>1 DEF Tx
    <3>3. QED
      BY <1>4, <3>2 DEF Reference, Nearer
  <2>3. QED
    BY <2>1, <2>2
<1>5. QED
  BY <1>2, <1>3, <1>4 DEF Proceeds, NotFound, DuplicateName, CommitMatch, Fails, BreakDeadlock

\* A request has at most one step for each stage and each player of its match: with
\* SomebodyAlwaysGetsOn, what is left to fairness is only who comes first.
THEOREM RequestsOnlyGoForward == Spec => StepsLeadToEnd
<1>1. ASSUME RegistryInvariant, Next, NEW w \in Worker, tx[w].at # "idle", tx'[w] # tx[w]
      PROVE  Nearer(tx'[w], tx[w])
  <2>1. PICK v \in Worker : Begins(v) \/ Proceeds(v) \/ Fails(v) \/ BreakDeadlock(v)
    BY <1>1 DEF Next
  <2>2. \E t : tx' = [tx EXCEPT ![v] = t]
    BY <2>1, StepByStep DEF Begins, BeginCreate, BeginUpdate, BeginDeactivate, BeginMatch,
       LockRow, WriteRow, EnterName, LockRatings, Reference, Aborts, Commit, Sets
  <2>3. v = w
    BY <1>1, <2>2
  <2>4. ~Begins(w)
    BY <1>1 DEF Begins, BeginCreate, BeginUpdate, BeginDeactivate, BeginMatch
  <2>5. QED
    BY <1>1, <2>1, <2>3, <2>4, StepIsNearer
<1>2. RegistryInvariant /\ [Next]_vars =>
        [\A w \in Worker : tx[w].at # "idle" /\ tx'[w] # tx[w] => Nearer(tx'[w], tx[w])]_vars
  BY <1>1
<1>3. QED
  BY <1>2, RegistryInvariantHolds, PTL DEF Spec, StepsLeadToEnd

-----------------------------------------------------------------------------
(* Refinement *)

LEMMA CommitIsAtomic ==
  ASSUME RegistryInvariant, NEW w \in Worker, Commit(w)
  PROVE  Atomic!Next
<1> DEFINE p == tx[w].player
<1>1. /\ p \in Player /\ After(w) \in PlayerRow
      /\ \/ Creates(w) /\ p \notin DOMAIN players /\ tx[w].before = NoRow
         \/ IsUpdate(w) /\ p \in DOMAIN players /\ tx[w].before = players[p]
  BY AtCommit DEF Commits
<1>2. Atomic!NameFree(After(w).name, p)
  BY CommitKeepsNames DEF Atomic!NameFree
<1>3. Atomic!Writes(p, tx[w].action, tx[w].before, After(w))
  BY DEF Commit, EntryOf, Atomic!Writes
<1>4. /\ Creates(w) => After(w) = [name |-> tx[w].name, active |-> TRUE]
      /\ tx[w].action = "player.deactivated" =>
           After(w) = [tx[w].before EXCEPT !.active = FALSE]
  BY <1>1, AfterIsRow DEF Commit, Holding
<1>5. After(w).name \in Name /\ After(w).active \in BOOLEAN
      /\ After(w) = [name |-> After(w).name, active |-> After(w).active]
  BY <1>1 DEF PlayerRow, Atomic!PlayerRow
<1>6. CASE Creates(w)
  <2>1. After(w) = [name |-> After(w).name, active |-> TRUE]
    BY <1>4, <1>6
  <2>2. Atomic!Create(p, After(w).name)
    BY <1>1, <1>2, <1>3, <1>6, <2>1 DEF Atomic!Create, Creates, IsUpdate, NoRow
  <2>3. QED
    BY <1>1, <1>5, <2>2 DEF Atomic!Next
<1>7. CASE tx[w].action = "player.updated"
  <2>1. Atomic!Update(p, After(w).name, After(w).active)
    BY <1>1, <1>2, <1>3, <1>5, <1>7 DEF Atomic!Update, Creates
  <2>2. QED
    BY <1>1, <1>5, <2>1 DEF Atomic!Next
<1>8. CASE tx[w].action = "player.deactivated"
  <2>1. Atomic!Deactivate(p)
    BY <1>1, <1>3, <1>4, <1>8 DEF Atomic!Deactivate, Creates
  <2>2. QED
    BY <1>1, <2>1 DEF Atomic!Next
<1>9. QED
  BY <1>1, <1>6, <1>7, <1>8 DEF IsUpdate

\* The transactions of the registry, with their locks, waits, failures and
\* deadlocks, implement requests that take effect in one step.
THEOREM RegistryIsAtomic == Spec => ImplementsAtomicRegistry
<1>1. Init => Atomic!Init
  BY DEF Init, Atomic!Init
<1>2. RegistryInvariant /\ [Next]_vars => [Atomic!Next]_(Atomic!vars)
  <2> SUFFICES ASSUME RegistryInvariant, [Next]_vars PROVE Atomic!Next \/ UNCHANGED Atomic!vars
    OBVIOUS
  <2>1. CASE UNCHANGED vars
    BY <2>1 DEF vars, Atomic!vars
  <2>2. ASSUME NEW w \in Worker, ~Commit(w),
               Begins(w) \/ Proceeds(w) \/ Fails(w) \/ BreakDeadlock(w)
        PROVE  UNCHANGED Atomic!vars
    BY <2>2, StepByStep DEF Begins, BeginCreate, BeginUpdate, BeginDeactivate, BeginMatch,
       LockRow, WriteRow, EnterName, LockRatings, Reference, Aborts, Atomic!vars
  <2>3. QED
    BY <2>1, <2>2, CommitIsAtomic DEF Next
<1>3. QED
  BY <1>1, <1>2, RegistryInvariantHolds, PTL DEF Spec, ImplementsAtomicRegistry, Atomic!Spec
-----------------------------------------------------------------------------
(* The players that the ledger shares *)

\* A row that is held FOR UPDATE is referred to by no match being inserted.
HeldAreUnshared ==
  \A w, v \in Worker : \A p \in Player : HoldsRow(w, p) => p \notin tx[v].share

\* Players that matches refer to have rows.
SharedAreKnown == \A w \in Worker : tx[w].share \subseteq DOMAIN players

SharingInvariant == HeldAreUnshared /\ SharedAreKnown

\* A request begins without a row and without a reference.
LEMMA BeginsEmpty ==
  ASSUME NEW w \in Worker, tx \in [Worker -> Tx], Begins(w)
  PROVE  /\ tx'[w].share = {}
         /\ tx'[w].at \in {"begun", "loading"} \/ tx'[w].action = "player.created"
<1>1. ASSUME NEW p, NEW n, BeginCreate(w, p, n)
      PROVE  tx'[w].share = {} /\ tx'[w].action = "player.created"
  BY <1>1 DEF BeginCreate, Sets, IdleTx
<1>2. ASSUME NEW p, NEW n, NEW active, BeginUpdate(w, p, n, active)
      PROVE  tx'[w].share = {} /\ tx'[w].at = "begun"
  BY <1>2 DEF BeginUpdate, Sets, IdleTx
<1>3. ASSUME NEW p, BeginDeactivate(w, p)
      PROVE  tx'[w].share = {} /\ tx'[w].at = "begun"
  BY <1>3 DEF BeginDeactivate, Sets, IdleTx
<1>4. ASSUME NEW place, NEW p, BeginMatch(w, place, p)
      PROVE  tx'[w].share = {} /\ tx'[w].at = "loading"
  BY <1>4 DEF BeginMatch, Sets, IdleTx
<1>5. QED
  BY <1>1, <1>2, <1>3, <1>4 DEF Begins

LEMMA SharingStep ==
  ASSUME RegistryInvariant, SharingInvariant, NEW w \in Worker,
         Begins(w) \/ Proceeds(w) \/ Fails(w) \/ BreakDeadlock(w)
  PROVE  SharingInvariant'
<1>1. tx \in [Worker -> Tx] /\ \A v \in Worker : Shape(v)
  BY DEF RegistryInvariant, TypeOK
<1>2. tx' \in [Worker -> Tx]
  BY StepInvariant DEF Next, RegistryInvariant, TypeOK
<1>3. DOMAIN players \subseteq DOMAIN players'
  BY StepByStep DEF Begins, BeginCreate, BeginUpdate, BeginDeactivate, BeginMatch,
     LockRow, WriteRow, EnterName, LockRatings, Reference, Aborts, Commit
<1>4. \A v \in Worker \ {w} : tx'[v] = tx[v]
  BY <1>1, StepByStep DEF Begins, BeginCreate, BeginUpdate, BeginDeactivate, BeginMatch,
     LockRow, WriteRow, EnterName, LockRatings, Reference, Aborts, Commit, Sets
<1>5. \A v \in Worker \ {w}, p \in Player : HoldsRow(v, p)' <=> HoldsRow(v, p)
  BY <1>4 DEF HoldsRow, IsUpdate
\* What w comes to hold or to refer to, nobody refers to or holds.
<1>6. ASSUME NEW p \in Player, HoldsRow(w, p)'
      PROVE  \A v \in Worker : p \notin tx'[v].share
  <2>1. CASE HoldsRow(w, p) /\ tx'[w].share = tx[w].share
    BY <1>4, <2>1 DEF SharingInvariant, HeldAreUnshared
  <2>2. CASE LockRow(w)
    <3>1. tx[w].player = p /\ tx'[w].share = tx[w].share /\ tx[w].share = {}
      BY <1>1, <1>6, <2>2 DEF LockRow, Sets, Tx, HoldsRow, Shape, UpdateShape
    <3>2. \A v \in Worker \ {w} : p \notin tx[v].share
      BY <2>2, <3>1, Waits DEF LockRow
    <3>3. QED
      BY <1>4, <3>1, <3>2
  <2>3. CASE WriteRow(w) \/ EnterName(w)
    <3>1. HoldsRow(w, p) /\ tx'[w].share = tx[w].share
      BY <1>1, <1>6, <2>3 DEF WriteRow, EnterName, Sets, Tx, HoldsRow, IsUpdate
    <3>2. QED
      BY <2>1, <3>1
  <2>4. CASE Begins(w) \/ LockRatings(w) \/ Reference(w) \/ Aborts(w) \/ Commit(w)
    <3>1. tx'[w].action \notin {"player.updated", "player.deactivated"}
            \/ tx'[w].at \notin {"locked", "updating", "written"}
      <4>1. Aborts(w) \/ Commit(w) => tx'[w].at = "idle"
        BY <1>1 DEF Aborts, Commit, Sets, IdleTx
      <4>2. Reference(w) => tx'[w].action = "match"
        BY <1>1 DEF Reference, Sets, Tx
      <4>3. LockRatings(w) => tx'[w].at = "begun"
        BY <1>1 DEF LockRatings, Sets, Tx
      <4>4. QED
        BY <1>1, <2>4, <4>1, <4>2, <4>3, BeginsEmpty
    <3>2. QED
      BY <1>6, <3>1 DEF HoldsRow, IsUpdate
  <2>5. QED
    BY <2>2, <2>3, <2>4, StepByStep
<1>7. /\ tx'[w].share \subseteq DOMAIN players
      /\ \A v \in Worker \ {w}, p \in Player : HoldsRow(v, p) => p \notin tx'[w].share
  <2>1. CASE Reference(w)
    <3>1. /\ tx[w].at = "begun" /\ tx[w].action = "match" /\ WaitsFor(w) = {}
          /\ tx'[w].share = tx[w].share \cup {tx[w].player}
      BY <1>1, <2>1 DEF Reference, Sets, Tx
    <3>2. tx[w].player \in DOMAIN players
      BY <1>1, <3>1 DEF Shape, MatchShape
    <3>3. \A v \in Worker \ {w} : ~HoldsRow(v, tx[w].player)
      BY <3>1, Waits DEF IsUpdate
    <3>4. QED
      BY <3>1, <3>2, <3>3 DEF SharingInvariant, HeldAreUnshared, SharedAreKnown
  <2>2. CASE ~Reference(w)
    <3>1. tx'[w].share = tx[w].share \/ tx'[w].share = {}
      <4>1. Aborts(w) \/ Commit(w) => tx'[w].share = {}
        BY <1>1 DEF Aborts, Commit, Sets, IdleTx
      <4>2. LockRow(w) \/ WriteRow(w) \/ EnterName(w) \/ LockRatings(w)
              => tx'[w].share = tx[w].share
        BY <1>1 DEF LockRow, WriteRow, EnterName, LockRatings, Sets, Tx
      <4>3. QED
        BY <1>1, <2>2, <4>1, <4>2, StepByStep, BeginsEmpty
    <3>2. QED
      BY <3>1 DEF SharingInvariant, HeldAreUnshared, SharedAreKnown
  <2>3. QED
    BY <2>1, <2>2
<1>8. SharedAreKnown'
  BY <1>3, <1>4, <1>7 DEF SharingInvariant, SharedAreKnown
<1>9. HeldAreUnshared'
  BY <1>4, <1>5, <1>6, <1>7 DEF SharingInvariant, HeldAreUnshared
<1>10. QED
  BY <1>8, <1>9 DEF SharingInvariant

LEMMA SharingHolds == Spec => []SharingInvariant
<1>1. Init => SharingInvariant
  BY DEF Init, IdleTx, SharingInvariant, HeldAreUnshared, SharedAreKnown, HoldsRow, IsUpdate
<1>2. RegistryInvariant /\ SharingInvariant /\ [Next]_vars => SharingInvariant'
  <2> SUFFICES ASSUME RegistryInvariant, SharingInvariant, [Next]_vars PROVE SharingInvariant'
    OBVIOUS
  <2>1. CASE UNCHANGED vars
    BY <2>1 DEF vars, SharingInvariant, HeldAreUnshared, SharedAreKnown, HoldsRow, IsUpdate
  <2>2. QED
    BY <2>1, SharingStep DEF Next
<1>3. QED
  BY <1>1, <1>2, RegistryInvariantHolds, PTL DEF Spec

LEMMA CommitIsShared ==
  ASSUME RegistryInvariant, SharingInvariant, NEW w \in Worker, Commit(w)
  PROVE  Shared!Next
<1> DEFINE on == {q \in DOMAIN players : players[q].active}
           referred == UNION {tx[v].share : v \in Worker}
<1>1. PICK p \in Player : p = tx[w].player
  BY AtCommit DEF Commits
<1>2. /\ After(w) \in PlayerRow
      /\ \/ Creates(w) /\ p \notin DOMAIN players /\ tx[w].before = NoRow
         \/ IsUpdate(w) /\ p \in DOMAIN players /\ tx[w].before = players[p]
  BY <1>1, AtCommit DEF Commits
<1>3. /\ players' = [q \in DOMAIN players \cup {p} |-> IF q = p THEN After(w) ELSE players[q]]
      /\ tx' = [tx EXCEPT ![w] = IdleTx] /\ tx[w].at = "written"
  BY <1>1 DEF Commit, Sets
<1>4. referred' = referred
  <2>1. tx[w].share = {} /\ tx \in [Worker -> Tx]
    BY <1>2 DEF RegistryInvariant, TypeOK, Shape, CreateShape, UpdateShape
  <2>2. \A v \in Worker : tx'[v].share = tx[v].share
    BY <1>3, <2>1 DEF IdleTx
  <2>3. QED
    BY <2>2
<1>5. After(w).active \in BOOLEAN
  BY <1>2 DEF PlayerRow, Atomic!PlayerRow
<1>6. DOMAIN players' = DOMAIN players \cup {p}
  BY <1>3
<1>7. on' = IF After(w).active THEN on \cup {p} ELSE on \ {p}
  BY <1>3, <1>5
<1>8. CASE Creates(w)
  <2>1. After(w).active
    BY <1>3, <1>8, AfterIsRow DEF Holding
  <2>2. p \notin DOMAIN players
    BY <1>2, <1>8 DEF Creates, IsUpdate
  <2>3. on' = on \cup {p}
    BY <1>7, <2>1
  <2>4. Shared!Create(p)
    BY <1>4, <1>6, <2>2, <2>3 DEF Shared!Create
  <2>5. QED
    BY <2>4 DEF Shared!Next
<1>9. CASE IsUpdate(w)
  <2>1. p \notin referred
    <3>1. HoldsRow(w, p)
      BY <1>1, <1>3, <1>9 DEF HoldsRow
    <3>2. QED
      BY <3>1 DEF SharingInvariant, HeldAreUnshared
  <2>2. p \in DOMAIN players
    BY <1>2, <1>9 DEF Creates, IsUpdate
  <2>3. DOMAIN players' = DOMAIN players
    BY <1>6, <2>2
  <2>4. on' \in {on \ {p}, on \cup {p}}
    <3> HIDE DEF on
    <3>1. QED BY <1>7
  <2>5. Shared!SetActive(p)
    BY <1>4, <2>1, <2>2, <2>3, <2>4 DEF Shared!SetActive
  <2>6. QED
    BY <2>5 DEF Shared!Next
<1>10. QED
  BY <1>2, <1>8, <1>9

\* What the ledger assumes of players holds of the transactions that change them: a
\* player's row stays, and its active flag rests while a match refers to it.
THEOREM RegistrySharesPlayers == Spec => ImplementsSharedPlayers
<1>1. Init => Shared!Init
  BY DEF Init, IdleTx, Shared!Init
<1>2. RegistryInvariant /\ SharingInvariant /\ SharingInvariant' /\ [Next]_vars
        => [Shared!Next]_(Shared!vars)
  <2> SUFFICES ASSUME RegistryInvariant, SharingInvariant, SharingInvariant', [Next]_vars
               PROVE  Shared!Next \/ UNCHANGED Shared!vars
    OBVIOUS
  <2>1. CASE UNCHANGED vars
    BY <2>1 DEF vars, Shared!vars
  <2>2. ASSUME NEW w \in Worker, ~Commit(w),
               Begins(w) \/ Proceeds(w) \/ Fails(w) \/ BreakDeadlock(w)
        PROVE  Shared!Next
    <3>1. players' = players
      BY <2>2, StepByStep DEF Begins, BeginCreate, BeginUpdate, BeginDeactivate, BeginMatch,
         LockRow, WriteRow, EnterName, LockRatings, Reference, Aborts
    <3>2. UNION {tx'[v].share : v \in Worker} \subseteq DOMAIN players
      BY <3>1 DEF SharingInvariant, SharedAreKnown
    <3>3. QED
      BY <3>1, <3>2 DEF Shared!Refer, Shared!Next
  <2>3. QED
    BY <2>1, <2>2, CommitIsShared DEF Next
<1>3. QED
  BY <1>1, <1>2, RegistryInvariantHolds, SharingHolds, PTL
     DEF Spec, ImplementsSharedPlayers, Shared!Spec
=============================================================================
