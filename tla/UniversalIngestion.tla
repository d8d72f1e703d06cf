--------------------------- MODULE UniversalIngestion ---------------------------
(* The hourly pass over the registered universities                            *)
(* (apps/worker/universal_ingestion.py) inside ingest_universities_job, with   *)
(* the HSE pilot that is started by hand and the bot's choice of the snapshot  *)
(* it shows.  A university is one transaction; the snapshots that the pass     *)
(* found are enqueued for their diff jobs when every university had its turn.  *)
EXTENDS ListFetchers

CONSTANTS
    Settings,    \* possible values of active_universities, as sequences of codes
    Sites,       \* Sites[c]: the sequence of what university c may publish
    HseAnswers,  \* what the HSE API may answer to the pilot
    MaxChanges,  \* bound: times a university changes what it publishes
    MaxFaults    \* bound: failed visits and interrupted passes

VARIABLES
    configured,  \* active_universities
    site,        \* which of its Sites each university publishes
    store,       \* committed snapshots, by fetched_at
    left,        \* codes the pass still has to visit, the visited one first
    docs, done,  \* parsed documents of the visit, and how many are dealt with
    pending,     \* snapshots of the open transaction
    found,       \* snapshot ids of the visit's outcomes
    results,     \* snapshot ids of the pass that are still to be enqueued
    outcome,     \* "loaded", "failed" or "none" for each university of the pass
    handed,      \* snapshots whose diff job was enqueued
    changes, faults,
    pc

visit == <<docs, done, pending, found>>
pass == <<left, results, outcome>>
vars == <<configured, site, store, visit, pass, handed, changes, faults, pc>>

\* active_university_codes, _new_university_codes and the test of SOURCES
Plan(codes) ==
    SelectSeq(codes, LAMBDA c : c \notin {"itmo", "hse", "mipt"} /\ c \in Enabled)

ASSUME SettingsAssumption ==
    /\ DOMAIN Sites \subseteq Enabled
    /\ \A codes \in Settings : IsInjective(codes) /\ Plan(codes) \in Seq(DOMAIN Sites)

\* What parsing one document gives: its snapshot, or the status alone.
Snapshot(code, doc, list) ==
    [status |-> "valid", key |-> <<code, list.group, doc.url, doc.content>>, apps |-> list.apps]
Result(code, doc) ==
    LET list == Parsed(code, doc)
    IN  IF list.status = "valid" THEN Snapshot(code, doc, list) ELSE list
\* What a visit may give, by university and by what the university publishes.
Visits ==
    [c \in DOMAIN Sites |-> [v \in DOMAIN Sites[c] |->
        {[i \in DOMAIN ds |-> Result(c, ds[i])] : ds \in Arrivals(c, Sites[c][v])}]]

\* Fetchers return lists of documents.
ASSUME VisitsAssumption ==
    \A c \in DOMAIN Sites : \A v \in DOMAIN Sites[c] :
        \A ds \in Visits[c][v] : ds \in Seq(ToSet(ds))

Keys(rows) == {s.key : s \in ToSet(rows)}

\* Mutant: the order of fetched_at is ascending.
ViewOldest(rows, k) ==
    rows[Min({i \in DOMAIN rows : SubSeq(rows[i].key, 1, 2) = SubSeq(k, 1, 2)})].key

\* _view_for_target: the newest snapshot of the group of key k
View(rows, k) ==
    LET OfGroup == {i \in DOMAIN rows : SubSeq(rows[i].key, 1, 2) = SubSeq(k, 1, 2)}
    IN  rows[Max(OfGroup)].key

NoOutcome == [c \in DOMAIN site |-> "none"]

Init ==
    /\ configured \in Settings
    /\ site \in {s \in [ToSet(Plan(configured)) -> 1..Max({Len(Sites[c]) : c \in DOMAIN Sites})] :
                    \A c \in DOMAIN s : s[c] \in DOMAIN Sites[c]}
    /\ store = << >> /\ handed = {}
    /\ docs = << >> /\ done = 0 /\ pending = << >> /\ found = << >>
    /\ left = << >> /\ results = << >> /\ outcome = NoOutcome
    /\ changes = 0 /\ faults = 0
    /\ pc = "idle"

-----------------------------------------------------------------------------
\* A university changes what it publishes.
Publish(c) ==
    /\ changes < MaxChanges
    /\ \E v \in DOMAIN Sites[c] : v # site[c] /\ site' = [site EXCEPT ![c] = v]
    /\ changes' = changes + 1
    /\ UNCHANGED <<configured, store, visit, pass, handed, faults, pc>>

CloseVisit == docs' = << >> /\ done' = 0 /\ pending' = << >> /\ found' = << >>

\* on to the next university
Proceed ==
    /\ CloseVisit
    /\ left' = Tail(left)
    /\ pc' = IF Tail(left) = << >> THEN "handover" ELSE "fetch"

\* Mutant: the outcomes are kept, although their rows are gone.
AbandonKeepsOutcomes ==
    /\ outcome' = [outcome EXCEPT ![Head(left)] = "failed"]
    /\ results' = results \o found
    /\ Proceed
    /\ UNCHANGED store

\* Mutant: the exception leaves the loop.
AbandonPass ==
    /\ outcome' = [outcome EXCEPT ![Head(left)] = "failed"]
    /\ UNCHANGED <<results, store>>
    /\ CloseVisit
    /\ left' = << >> /\ pc' = "handover"

\* The transaction is rolled back and the outcomes of the visit are replaced by
\* one that has no snapshot.
Abandon ==
    /\ outcome' = [outcome EXCEPT ![Head(left)] = "failed"]
    /\ UNCHANGED <<results, store>>
    /\ Proceed

StartPass ==
    /\ pc = "idle"
    /\ left' = Plan(configured)
    /\ results' = << >> /\ outcome' = NoOutcome
    /\ pc' = IF left' = << >> THEN "handover" ELSE "fetch"
    /\ UNCHANGED <<configured, site, store, visit, handed, changes, faults>>

FetchSource ==
    /\ pc = "fetch"
    /\ docs' \in Visits[Head(left)][site[Head(left)]]
    /\ pc' = "parse"
    /\ UNCHANGED <<configured, site, store, done, pending, found, pass, handed, changes, faults>>

\* A request, a statement or the commit fails.
VisitFails ==
    /\ pc \in {"fetch", "parse"}
    /\ faults < MaxFaults
    /\ faults' = faults + 1
    /\ Abandon
    /\ UNCHANGED <<configured, site, handed, changes>>

\* Mutant: nobody looks.
NeverKnown(row) == FALSE

\* get_by_content, which sees the rows of its own transaction
Known(row) == row.key \in Keys(store \o pending)

\* Mutant: only a new snapshot has an id in its outcome.
NewIds(row) == IF row.status = "valid" /\ ~Known(row) THEN <<row.key>> ELSE << >>

\* the snapshot id of an outcome, also of a snapshot that was there already
Ids(row) == IF row.status = "valid" THEN <<row.key>> ELSE << >>

\* One document: parse and persist_snapshot.  A refused document leaves an
\* outcome without a snapshot; what raises ends the visit.
PersistDocument ==
    /\ pc = "parse" /\ done < Len(docs)
    /\ LET row == docs[done + 1]
           new == row.status = "valid" /\ ~Known(row)
       IN  IF row.status = "raises" \/ (new /\ ~Storable(row.apps))
           THEN Abandon
           ELSE /\ done' = done + 1
                /\ found' = found \o Ids(row)
                /\ pending' = IF new THEN Append(pending, row) ELSE pending
                /\ UNCHANGED <<store, pass, docs, pc>>
    /\ UNCHANGED <<configured, site, handed, changes, faults>>

\* Mutant: every document is committed on its own.
CommitEarly ==
    /\ pc = "parse" /\ pending # << >>
    /\ store' = store \o pending
    /\ IF done = Len(docs)
       THEN /\ outcome' = [outcome EXCEPT ![Head(left)] = "loaded"]
            /\ results' = results \o found
            /\ Proceed
       ELSE pending' = << >> /\ UNCHANGED <<pass, docs, done, found, pc>>
    /\ UNCHANGED <<configured, site, handed, changes, faults>>

CommitUniversity ==
    /\ pc = "parse" /\ done = Len(docs)
    /\ store' = store \o pending
    /\ outcome' = [outcome EXCEPT ![Head(left)] = "loaded"]
    /\ results' = results \o found
    /\ Proceed
    /\ UNCHANGED <<configured, site, handed, changes, faults>>

\* _enqueue of one outcome's diff job; its id makes a second one a no-op
HandOver ==
    /\ pc = "handover" /\ results # << >>
    /\ handed' = handed \cup {Head(results)}
    /\ results' = Tail(results)
    /\ UNCHANGED <<configured, site, store, visit, left, outcome, changes, faults, pc>>

FinishPass ==
    /\ pc = "handover" /\ results = << >>
    /\ pc' = "idle"
    /\ UNCHANGED <<configured, site, store, visit, pass, handed, changes, faults>>

\* The process ends, the worker is stopped, or the job passes arq's limit of 300
\* seconds: CancelledError is no Exception, so nothing of the pass is handed
\* over, but the universities before it stay committed.
Stop ==
    /\ pc # "idle"
    /\ faults < MaxFaults
    /\ faults' = faults + 1
    /\ CloseVisit
    /\ left' = << >> /\ results' = << >> /\ outcome' = NoOutcome
    /\ pc' = "idle"
    /\ UNCHANGED <<configured, site, store, handed, changes>>

\* ingest_hse_pilot: the first page of one group, handed over to nobody.
IngestHse ==
    /\ \E answer \in HseAnswers :
        LET group == HseSelection(answer.discovery)
            list == HseList(answer.page, group)
            row == Snapshot("hse", [url |-> "applicant", content |-> answer.page], list)
        IN  /\ group # None /\ list.status = "valid"
            /\ row.key \notin Keys(store) /\ Storable(row.apps)
            /\ store' = Append(store, row)
    /\ UNCHANGED <<configured, site, visit, pass, handed, changes, faults, pc>>

Worker == StartPass \/ PersistDocument \/ CommitUniversity \/ HandOver \/ FinishPass

Next ==
    \/ Worker \/ FetchSource
    \/ \E c \in DOMAIN site : Publish(c)
    \/ VisitFails \/ Stop \/ IngestHse

Spec == Init /\ [][Next]_vars
\* The cron job comes again every hour, the worker takes its steps, and every
\* request ends, with an answer or by the timeout of the client.
FairSpec == Spec /\ WF_vars(Worker) /\ []<>(pc # "fetch")
-----------------------------------------------------------------------------
\* A snapshot is stored once, and a transaction is open only during a visit.
TypeOK ==
    /\ \A i, j \in DOMAIN store : i # j => store[i].key # store[j].key
    /\ \A i \in DOMAIN store : Storable(store[i].apps)
    /\ pc \in {"idle", "fetch", "parse", "handover"}
    /\ pc # "parse" => docs = << >> /\ pending = << >> /\ found = << >>
    /\ pc \in {"fetch", "parse"} <=> left # << >>

\* Ids that are handed over, or will be, are of committed snapshots: outcomes
\* are noted inside the transaction, before it is known whether it commits.
HandedOverIsStored == ToSet(results) \cup handed \subseteq Keys(store)

\* Readers see all lists of a visit or none of the new ones.
VisitsAreAtomic ==
    [][pc = "parse" /\ (\E s \in ToSet(store') \ ToSet(store) : s.key[1] = Head(left)) =>
        \A i \in DOMAIN docs : docs[i].status = "valid" => docs[i].key \in Keys(store')]_vars

\* When ids are handed over every planned university had its turn: one that
\* cannot be loaded takes nothing from the others.
EveryUniversityHasItsTurn ==
    pc = "handover" => \A c \in ToSet(Plan(configured)) : outcome[c] # "none"

\* After a visit the bot shows a list of that visit for each group for which the
\* visit brought a new one; it lags behind only when a list came back that was
\* stored before.
ViewLagsOnlyForReturnedLists ==
    [][pc = "parse" /\ outcome' # outcome /\ outcome'[Head(left)] = "loaded" =>
        \A k \in ToSet(found) : k \notin Keys(store) => View(store', k) \in ToSet(found)]_vars

\* The snapshots of what a university publishes, if all of them can be stored.
Loadable ==
    [c \in DOMAIN Sites |-> [v \in DOMAIN Sites[c] |->
        LET rows == UNION {ToSet(ds) : ds \in Visits[c][v]}
            valid == {row \in rows : row.status = "valid"}
        IN  IF \A row \in rows : row.status # "raises" /\ (row \in valid => Storable(row.apps))
            THEN {row.key : row \in valid} ELSE {}]]
\* Whatever fails on the way, in the end each university whose lists can all be
\* stored has them stored and handed over; also those whose first pass was cut
\* off between the commit and the hand-over.
LoadableIsHandedOver ==
    <>[](\A c \in DOMAIN site : Loadable[c][site[c]] \subseteq Keys(store) \cap handed)

\* The condition of an application of the Financial University is the one that
\* the column of the contest names.
FaConditionsAsPublished ==
    \A s \in ToSet(store) : s.key[1] = "fa" =>
        LET rows == Longest(s.key[4])
            columns == {j \in DOMAIN rows[1] : rows[1][j] \in DOMAIN Words
                                                /\ "vid konkursa" \in Words[rows[1][j]]}
        IN  {a.condition : a \in ToSet(s.apps)} \subseteq
                {MapCondition(rows[i][j]) : i \in 2..Len(rows), j \in columns}
=============================================================================
