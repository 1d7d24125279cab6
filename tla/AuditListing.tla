----------------------------- MODULE AuditListing -----------------------------
(***************************************************************************)
(* Writing and listing the audit log.  An entry is inserted in the         *)
(* transaction of the request it tells of and gets created_at = now(), the *)
(* time that transaction began; it can be listed once the transaction has  *)
(* committed.  A page is the first entries ORDER BY created_at DESC, id    *)
(* DESC.  What an entry says is left out here (AuditRedaction).            *)
(***************************************************************************)
EXTENDS Sorting, SequencesExt

CONSTANTS
  Worker,     \* transactions that may be open at once
  EntryId,    \* UUIDs of entries, as numbers: the last key of the listing
  MaxLimit,   \* MAX_AUDIT_LOG_LIMIT
  Default,    \* DEFAULT_AUDIT_LOG_LIMIT
  Limits,     \* the values of ?limit that are asked for
  NoLimit     \* no ?limit

ASSUME ListingAssumption ==
  /\ EntryId \subseteq Nat /\ IsFiniteSet(EntryId)
  /\ MaxLimit \in Nat /\ Default \in 1..MaxLimit
  /\ Limits \subseteq Int /\ NoLimit \notin Int

VARIABLES
  clock,   \* the database's clock
  log,     \* audit_log: the committed entries
  open,    \* each worker's transaction, or <<>>
  page     \* what the last GET /api/admin/audit-log answered

listingVars == <<clock, log, open, page>>

\* AuditLogEntry; known is not a column: the entries one could read when the
\* transaction began.
Entry == [id : EntryId, createdAt : Nat, known : SUBSET EntryId]

ListingInit == clock = 1 /\ log = {} /\ open = [w \in Worker |-> <<>>] /\ page = <<>>

Ids(entries) == {e.id : e \in entries}
Pending == UNION {Range(open[w]) : w \in Worker}

\* BEGIN, and the entry the transaction will insert.
BeginEntry(w) ==
  /\ open[w] = <<>>
  /\ \E i \in EntryId \ Ids(log \cup Pending) :
       open' = [open EXCEPT ![w] =
                  <<[id |-> i, createdAt |-> clock, known |-> Ids(log)]>>]
  /\ UNCHANGED <<clock, log, page>>

\* insert_audit_log_entry and COMMIT.  A commit takes longer than the clock's
\* microsecond, so a transaction that begins after it has a later now().
CommitEntry(w) ==
  /\ open[w] # <<>>
  /\ log' = log \cup Range(open[w])
  /\ open' = [open EXCEPT ![w] = <<>>]
  /\ clock' = clock + 1
  /\ UNCHANGED page

RollbackEntry(w) ==
  /\ open[w] # <<>>
  /\ open' = [open EXCEPT ![w] = <<>>]
  /\ UNCHANGED <<clock, log, page>>

\* ORDER BY created_at DESC, id DESC
Newer(a, b) ==
  \/ a.createdAt > b.createdAt
  \/ a.createdAt = b.createdAt /\ a.id > b.id

\* Mistake: the entries are sorted by id alone.
SortedById(entries) ==
  InOrder([e \in entries |-> {f \in entries : f.id > e.id}])

SortedEntries(entries) ==
  InOrder([e \in entries |-> {f \in entries : Newer(f, e)}])

\* Mistake: the limit is applied to the rows before they are sorted.
FirstEntriesUnsorted(limit) ==
  LET rows == SortedById(log)
  IN  SortedEntries(Range(SubSeq(rows, 1, IF limit < Len(rows) THEN limit ELSE Len(rows))))

\* list_audit_log_entries
FirstEntries(limit) ==
  LET listed == SortedEntries(log)
  IN  SubSeq(listed, 1, IF limit < Len(listed) THEN limit ELSE Len(listed))

LimitOf(query) == IF query = NoLimit THEN Default ELSE query

\* list_audit_log; a limit out of range is answered 400.
ListAuditLog(query) ==
  /\ page' = IF LimitOf(query) \in 1..MaxLimit THEN FirstEntries(LimitOf(query)) ELSE <<>>
  /\ UNCHANGED <<clock, log, open>>

ListingNext ==
  \/ \E w \in Worker : BeginEntry(w) \/ CommitEntry(w) \/ RollbackEntry(w)
  \/ \E query \in Limits \cup {NoLimit} : ListAuditLog(query)

ListingSpec == ListingInit /\ [][ListingNext]_listingVars

-----------------------------------------------------------------------------
(* Properties *)

\* A page tells causes below their effects: an entry that could already be read
\* when another's transaction began is listed below it, although created_at is
\* the time of BEGIN and commits come in another order.
CausesAreListedBelow ==
  \A i, j \in DOMAIN page : i < j => page[i].id \notin page[j].known

\* A page leaves out only what is older than all it shows, or what has been
\* committed since: an entry that could be read when the newest listed entry
\* was written, and that is missing, is older than every entry listed.
PagesHaveNoGaps ==
  page # <<>> =>
    \A e \in log :
      e.id \in page[1].known \ Ids(Range(page)) =>
        \A i \in DOMAIN page : e.createdAt <= page[i].createdAt
=============================================================================
