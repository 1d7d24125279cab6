------------------------ MODULE RatingLedgerInvariant ------------------------
(***************************************************************************)
(* The inductive invariant of the rating ledger: what must hold of every   *)
(* transaction under way for the safety properties to survive its commit.  *)
(***************************************************************************)
EXTENDS RatingLedger

\* Nobody plays who has no row: the players of every recorded match have a
\* rating ...
PlayersExist ==
  \A m \in DOMAIN matches : DOMAIN matches[m].place \subseteq DOMAIN rating

\* ... and so do those of the request of w and of the rows it has written.
PlayersKnown(w) ==
  /\ DOMAIN tx[w].place \subseteq DOMAIN rating
  /\ DOMAIN tx[w].ratings \subseteq DOMAIN rating
  /\ \A m \in DOMAIN tx[w].rows : DOMAIN tx[w].rows[m].place \subseteq DOMAIN rating

\* The request of w carries what its next step needs.
RequestFormed(w) ==
  /\ tx[w].pc \in {"started", "failing"} => tx[w].op = "recalculate"
  /\ tx[w].pc # "idle" => tx[w].op # "none"
  /\ tx[w].pc # "writing" => tx[w].rows = NoRows /\ tx[w].todo = {}
  /\ tx[w].pc = "loaded" =>
       /\ tx[w].op \in {"submit", "correct"}
       /\ tx[w].place \in ValidPlacements /\ tx[w].playedAt \in PlayedAt
       /\ DOMAIN tx[w].old = DOMAIN tx[w].place
       /\ tx[w].op = "correct" => TargetConfirmed(w)

\* Two rows of one match: only status and snapshots may differ.
SameMatch(a, b) ==
  /\ a.playedAt = b.playedAt /\ a.createdAt = b.createdAt
  /\ a.correctedFrom = b.correctedFrom /\ a.place = b.place

\* A pending row that the replay rewrote: the match is in the table, confirmed,
\* and only the snapshots differ.
Rewritten(w) ==
  {m \in DOMAIN tx[w].rows \cap Confirmed(matches) :
     tx[w].rows[m].status = "confirmed" /\ SameMatch(tx[w].rows[m], matches[m])}

VoidsTarget(w) ==
  LET m == tx[w].target
  IN  /\ TargetConfirmed(w)
      /\ m \in DOMAIN tx[w].rows
      /\ tx[w].rows[m].status = "voided" /\ SameMatch(tx[w].rows[m], matches[m])

Inserts(w, m, from) ==
  /\ m \in MatchId \ DOMAIN matches
  /\ m \in DOMAIN tx[w].rows
  /\ tx[w].rows[m].status = "confirmed"
  /\ tx[w].rows[m].correctedFrom = from

\* What a transaction that is writing has done to the history so far, and what
\* its audit entry will say of it.
WritesFitEvent(w) ==
  \/ /\ tx[w].op = "submit"
     /\ \E m \in MatchId :
          /\ tx[w].event = <<"match.created", m>>
          /\ Inserts(w, m, NoMatch)
          /\ DOMAIN tx[w].rows = {m}
     /\ tx[w].todo = {}
  \/ /\ tx[w].op = "void"
     /\ tx[w].event = <<"match.voided", tx[w].target>>
     /\ VoidsTarget(w)
     /\ DOMAIN tx[w].rows \subseteq Rewritten(w) \cup {tx[w].target}
  \/ /\ tx[w].op = "correct"
     /\ \E m \in MatchId :
          /\ tx[w].event = <<"match.corrected", m>>
          /\ Inserts(w, m, tx[w].target)
          /\ DOMAIN tx[w].rows \subseteq Rewritten(w) \cup {tx[w].target, m}
     /\ VoidsTarget(w)
  \/ /\ tx[w].op = "recalculate"
     /\ tx[w].event = <<"ratings.recalculated", tx[w].run>>
     /\ DOMAIN tx[w].rows \subseteq Rewritten(w)

WritesFit(w) ==
  tx[w].pc = "writing" =>
    WritesFitEvent(w) /\ tx[w].todo \subseteq Confirmed(MatchesSeen(w))

\* A recalculation under way owns its run, which has no outcome yet.
RunOwned(w) ==
  tx[w].op = "recalculate" =>
    /\ tx[w].run \in DOMAIN runs
    /\ \A v \in Worker \ {w} : tx[v].op = "recalculate" => tx[v].run # tx[w].run
    /\ tx[w].pc # "failing" =>
         /\ runs[tx[w].run] = "running"
         /\ audit[<<"ratings.recalculated", tx[w].run>>] = 0

RequestFits(w) ==
  PlayersKnown(w) /\ RequestFormed(w) /\ WritesFit(w) /\ RunOwned(w)

\* The inductive invariant: types, the lock, every request under way, and the
\* properties of the committed tables that rest on them.
LedgerInvariant ==
  /\ TypeOK
  /\ LockGuardsTransaction
  /\ PlayersExist
  /\ \A w \in Worker : RequestFits(w)
  /\ AuditMatchesHistory
  /\ CorrectionsAreLinear
  /\ RunOutcomeAudited
=============================================================================
