---------------------------- MODULE ItmoIngestion ----------------------------
(* Refreshes of the ITMO lists (apps/worker/itmo_ingestion.py) that persist    *)
(* every page of a batch in one database transaction                           *)
(* (packages/parsers/ingestion.py, packages/persistence/uow.py).  Refreshes    *)
(* overlap: the hourly cron job and "python -m apps.worker.itmo_ingestion"     *)
(* are separate processes.  PostgreSQL runs them READ COMMITTED: a statement   *)
(* sees the committed rows and the transaction's own, an INSERT waits for an   *)
(* uncommitted row with its unique key and fails if that row commits, an       *)
(* UPDATE waits for an uncommitted update of its row.                          *)
EXTENDS AdmissionRows

CONSTANTS
    Rejected,         \* a page for which parse() returns no snapshot
    Unlisted,         \* a group the discovery API does not list
    ImmutableTrigger  \* TRUE: the schema of infra/migrations, which has the
                      \* trigger list_snapshots_immutable; FALSE: without it

ASSUME PagesAssumption == Rejected \notin Contents /\ Unlisted \notin Contents
                          /\ Rejected # Unlisted
ASSUME TriggerAssumption == ImmutableTrigger \in BOOLEAN

VARIABLES
    rows,       \* committed rows
    stamp,      \* committed batch stamp of each list snapshot
    pc,         \* where each run is
    pages,      \* what each run has fetched, group by group
    pending,    \* groups whose page the run has still to persist
    table,      \* table persist_snapshot is at for the run's current group
    inserted,   \* uncommitted rows of each run
    restamped   \* list snapshots each run has updated and not committed

vars == <<rows, stamp, pc, pages, pending, table, inserted, restamped>>

InSession == {"read", "insert", "restamp"}
Failures == {"unavailable", "conflict", "refused", "crashed"}

Listed(r) == {g \in Groups : pages[r][g] # Unlisted}
Parsed(r) == {g \in Groups : pages[r][g] \in Contents}
PageLists(r) == {List(g, pages[r][g]) : g \in Parsed(r)}

\* Mutant: expected_group_count is the number of accepted pages.
StampParsed(r) == [id |-> r, expected |-> Cardinality(Parsed(r))]

BatchStamp(r) == [id |-> r, expected |-> Cardinality(Listed(r))]

\* Mutant: the pages of a batch in any order.
IsPending(r, g) == g \in pending[r]

\* sorted(): a batch is persisted in the order of its group ids
IsCurrent(r, g) == g \in pending[r] /\ \A h \in pending[r] : g <= h

Key(r, g) == CASE table[r] = "university" -> University
               [] table[r] = "group" -> Group(g)
               [] table[r] = "list" -> List(g, pages[r][g])

Init ==
    /\ rows = {}
    /\ stamp = [l \in Lists |-> NoBatch]
    /\ pc = [r \in Runs |-> "idle"]
    /\ pages = [r \in Runs |-> [g \in Groups |-> Unlisted]]
    /\ pending = [r \in Runs |-> {}]
    /\ table = [r \in Runs |-> "university"]
    /\ inserted = [r \in Runs |-> {}]
    /\ restamped = [r \in Runs |-> {}]

-----------------------------------------------------------------------------
\* Mutant: a rejected page is persisted like the others.
FetchBatchUnfiltered(r) ==
    /\ pc[r] = "idle"
    /\ \E p \in [Groups -> Contents \cup {Rejected, Unlisted}] :
          /\ \E g \in Groups : p[g] # Unlisted
          /\ pages' = [pages EXCEPT ![r] = p]
          /\ pending' = [pending EXCEPT ![r] = {g \in Groups : p[g] # Unlisted}]
    /\ pc' = [pc EXCEPT ![r] = "read"]
    /\ UNCHANGED <<rows, stamp, table, inserted, restamped>>

\* Every page answered 200.  The site changes at will between two requests, so
\* any mix of pages may come back; a rejected page yields an outcome without a
\* snapshot and the batch goes on.
FetchBatch(r) ==
    /\ pc[r] = "idle"
    /\ \E p \in [Groups -> Contents \cup {Rejected, Unlisted}] :
          /\ \E g \in Groups : p[g] # Unlisted
          /\ pages' = [pages EXCEPT ![r] = p]
          /\ pending' = [pending EXCEPT ![r] = {g \in Groups : p[g] \in Contents}]
    /\ pc' = [pc EXCEPT ![r] = "read"]
    /\ UNCHANGED <<rows, stamp, table, inserted, restamped>>

\* An empty or unreachable index, or a page that did not answer 200.
FetchFails(r) ==
    /\ pc[r] = "idle"
    /\ pc' = [pc EXCEPT ![r] = "unavailable"]
    /\ UNCHANGED <<rows, stamp, pages, pending, table, inserted, restamped>>

\* On to the next table of persist_snapshot, or to the next page of the batch.
Advance(r, g) ==
    /\ pc' = [pc EXCEPT ![r] = "read"]
    /\ table' = [table EXCEPT ![r] = CASE @ = "university" -> "group"
                                       [] @ = "group" -> "list"
                                       [] @ = "list" -> "university"]
    /\ pending' = [pending EXCEPT ![r] = IF table[r] = "list" THEN @ \ {g} ELSE @]

\* get_by_code, get_by_external_key, get_by_content
Lookup(r) ==
    /\ pc[r] = "read"
    /\ \E g \in pending[r] :
          /\ IsCurrent(r, g)
          /\ \/ /\ Key(r, g) \notin rows \cup inserted[r]
                /\ pc' = [pc EXCEPT ![r] = "insert"]
                /\ UNCHANGED <<table, pending>>
             \/ /\ Key(r, g) \in rows \cup inserted[r]
                /\ table[r] # "list"
                /\ Advance(r, g)
             \/ /\ Key(r, g) \in rows \cup inserted[r]
                /\ table[r] = "list"
                /\ pc' = [pc EXCEPT ![r] = "restamp"]
                /\ UNCHANGED <<table, pending>>
    /\ UNCHANGED <<rows, stamp, pages, inserted, restamped>>

\* Mutant: __aexit__ commits whether or not there was an exception.
RollbackKeepsRows(r, why) ==
    /\ pc' = [pc EXCEPT ![r] = why]
    /\ rows' = rows \cup inserted[r]
    /\ stamp' = [l \in Lists |-> IF l \in inserted[r] \cup restamped[r]
                                 THEN BatchStamp(r) ELSE stamp[l]]
    /\ inserted' = [inserted EXCEPT ![r] = {}]
    /\ restamped' = [restamped EXCEPT ![r] = {}]
    /\ pending' = [pending EXCEPT ![r] = {}]
    /\ table' = [table EXCEPT ![r] = "university"]
    /\ UNCHANGED pages

\* __aexit__ with an exception, or a connection that is gone: rollback.
Rollback(r, why) ==
    /\ pc' = [pc EXCEPT ![r] = why]
    /\ inserted' = [inserted EXCEPT ![r] = {}]
    /\ restamped' = [restamped EXCEPT ![r] = {}]
    /\ pending' = [pending EXCEPT ![r] = {}]
    /\ table' = [table EXCEPT ![r] = "university"]
    /\ UNCHANGED <<rows, stamp, pages>>

\* The INSERT has the unique key to itself, and the row is new.
Insert(r) ==
    /\ pc[r] = "insert"
    /\ \E g \in pending[r] :
          /\ IsCurrent(r, g)
          /\ \A q \in Runs \ {r} : Key(r, g) \notin inserted[q]
          /\ Key(r, g) \notin rows
          /\ inserted' = [inserted EXCEPT ![r] = @ \cup {Key(r, g)}]
          /\ Advance(r, g)
    /\ UNCHANGED <<rows, stamp, pages, restamped>>

\* Mutant: an INSERT fails at once when another run holds the key.
InsertConflictNoWait(r) ==
    /\ pc[r] = "insert"
    /\ \E g \in pending[r] :
          /\ IsCurrent(r, g)
          /\ Key(r, g) \in rows \cup UNION {inserted[q] : q \in Runs \ {r}}
    /\ Rollback(r, "conflict")

\* IntegrityError: another run committed the row after this one looked it up.
InsertConflict(r) ==
    /\ pc[r] = "insert"
    /\ \E g \in pending[r] : IsCurrent(r, g) /\ Key(r, g) \in rows
    /\ Rollback(r, "conflict")

\* existing.raw_payload = {**existing.raw_payload, "ingestion_batch": ...}
Restamp(r) ==
    /\ pc[r] = "restamp"
    /\ ~ImmutableTrigger
    /\ \E g \in pending[r] :
          /\ IsCurrent(r, g)
          /\ \A q \in Runs \ {r} : Key(r, g) \notin restamped[q]
          /\ restamped' = [restamped EXCEPT ![r] = @ \cup {Key(r, g)}]
          /\ Advance(r, g)
    /\ UNCHANGED <<rows, stamp, pages, inserted>>

\* Mutant: the trigger is gone and the re-stamp goes through.
RestampAllowed(r) ==
    /\ pc[r] = "restamp"
    /\ ImmutableTrigger
    /\ \E g \in pending[r] :
          /\ IsCurrent(r, g)
          /\ restamped' = [restamped EXCEPT ![r] = @ \cup {Key(r, g)}]
          /\ Advance(r, g)
    /\ UNCHANGED <<rows, stamp, pages, inserted>>

\* RAISE EXCEPTION 'list_snapshots are immutable'
RestampRefused(r) ==
    /\ pc[r] = "restamp"
    /\ ImmutableTrigger
    /\ Rollback(r, "refused")

\* Mutant: only the branch for an existing snapshot sets the batch.
CommitUnstamped(r) ==
    /\ pc[r] = "read"
    /\ pending[r] = {}
    /\ rows' = rows \cup inserted[r]
    /\ stamp' = [l \in Lists |-> IF l \in restamped[r]
                                 THEN BatchStamp(r) ELSE stamp[l]]
    /\ pc' = [pc EXCEPT ![r] = "done"]
    /\ inserted' = [inserted EXCEPT ![r] = {}]
    /\ restamped' = [restamped EXCEPT ![r] = {}]
    /\ UNCHANGED <<pages, pending, table>>

\* __aexit__ without an exception
Commit(r) ==
    /\ pc[r] = "read"
    /\ pending[r] = {}
    /\ rows' = rows \cup inserted[r]
    /\ stamp' = [l \in Lists |-> IF l \in inserted[r] \cup restamped[r]
                                 THEN BatchStamp(r) ELSE stamp[l]]
    /\ pc' = [pc EXCEPT ![r] = "done"]
    /\ inserted' = [inserted EXCEPT ![r] = {}]
    /\ restamped' = [restamped EXCEPT ![r] = {}]
    /\ UNCHANGED <<pages, pending, table>>

\* The process dies, its job times out, or the connection is lost.
Crash(r) ==
    /\ pc[r] \in InSession
    /\ Rollback(r, "crashed")

Step(r) ==
    \/ FetchBatch(r) \/ FetchFails(r)
    \/ Lookup(r) \/ Insert(r) \/ InsertConflict(r)
    \/ Restamp(r) \/ RestampRefused(r) \/ Commit(r)

Next == \E r \in Runs : Step(r) \/ Crash(r)

Spec == Init /\ [][Next]_vars

\* A run that has a session is a coroutine the event loop keeps resuming, and
\* PostgreSQL wakes a statement whose lock is free.
Fairness == \A r \in Runs : WF_vars(Step(r) /\ pc[r] \in InSession)
FairSpec == Spec /\ Fairness
-----------------------------------------------------------------------------
\* The values the variables can take.
TypeOK ==
    /\ rows \subseteq Rows
    /\ stamp \in [Lists -> Stamps \cup {NoBatch}]
    /\ pc \in [Runs -> {"idle", "done"} \cup InSession \cup Failures]
    /\ pages \in [Runs -> [Groups -> Contents \cup {Rejected, Unlisted}]]
    /\ pending \in [Runs -> SUBSET Groups]
    /\ table \in [Runs -> {"university", "group", "list"}]
    /\ inserted \in [Runs -> SUBSET Rows]
    /\ restamped \in [Runs -> SUBSET Lists]

\* A batch is all or nothing: once a run is done every page it parsed is a
\* snapshot that carries a batch stamp, and while it is not done, or has
\* failed, no committed snapshot carries its stamp (the one UnitOfWork around
\* the loop of ingest_itmo_batch).
AllOrNothing ==
    \A r \in Runs :
        IF pc[r] = "done"
        THEN /\ PageLists(r) \subseteq rows
             /\ \A l \in PageLists(r) : stamp[l] # NoBatch
        ELSE \A l \in Lists : stamp[l] = NoBatch \/ stamp[l].id # r

\* A stamp tells the truth: the batch a snapshot names fetched exactly this
\* content for this group, in a run that committed, and expected_group_count
\* is the number of groups that run found in the index - whatever other runs
\* inserted or re-stamped the same snapshot meanwhile.
StampsHonest ==
    \A r \in Runs, l \in Lists :
        stamp[l] # NoBatch /\ stamp[l].id = r =>
            /\ pc[r] = "done"
            /\ l \in rows
            /\ l \in PageLists(r)
            /\ stamp[l].expected = Cardinality(Listed(r))

\* Refreshes that collide on a unique key cannot all lose: the INSERT waits for
\* the other transaction, so a run fails with IntegrityError only if another
\* run committed its batch.
ConflictHasWinner ==
    (\E r \in Runs : pc[r] = "conflict") => \E q \in Runs : pc[q] = "done"

\* Raw snapshots are immutable (docs/data_feasibility_audit.md:218): once a
\* snapshot is committed no later run changes its batch stamp or removes it.
SnapshotsImmutable ==
    [][\A l \in Lists : l \in rows => l \in rows' /\ stamp'[l] = stamp[l]]_vars

\* Overlapping refreshes never wait for each other in a circle: each run with a
\* session ends, because every run takes the rows it locks in sorted order.
RefreshEnds ==
    \A r \in Runs : pc[r] \in InSession ~> pc[r] \notin InSession

\* "Refresh every public ITMO bachelor budget group as one timestamped batch"
\* (README.md:148): a page that is the same as in an earlier batch joins the
\* new one, it does not make the refresh fail.
UnchangedPageJoinsBatch == \A r \in Runs : pc[r] # "refused"

-----------------------------------------------------------------------------
\* A run publishes its batch when its transaction commits.
Published == {r \in Runs : pc[r] = "done"}

Store == INSTANCE BatchStore WITH published <- Published,
                                  AppendOnly <- ImmutableTrigger

\* Whatever refreshes overlap, fail or crash, readers of the database see whole
\* batches appear one at a time: the row-by-row transactions implement the
\* atomic BatchStore.
StoreSpec == Store!Spec
=============================================================================
