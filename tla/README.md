# Postupi AI in TLA+

Postupi AI collects public admission lists of Russian universities, computes
admission forecasts for tracked applicants and reports them through a Telegram
bot. This directory holds a TLA+ development of its core: what the lists,
forecasts and notifications in the database can look like while several
processes work on them, fail and start again.

## The system

| Component | Code | State it keeps | Operations |
|---|---|---|---|
| ITMO batch refresh | `apps/worker/itmo_ingestion.py` | none between runs | discover groups, fetch every page, persist all in one transaction |
| Snapshot persistence | `packages/parsers/ingestion.py`, `packages/persistence/` | universities, groups, list snapshots, applications | look up or insert each row, re-stamp an unchanged snapshot |
| Schema | `infra/migrations/` | unique keys, cascades, the trigger `list_snapshots_immutable` | refuses UPDATE and DELETE of a snapshot |
| Worker and queue | `apps/worker/jobs.py`, `apps/worker/main.py` | arq jobs in Redis, by job id | refresh → diff → forecast → notify, each enqueued by the one before |
| Forecast recomputation | `packages/forecasting/recompute.py`, `persistence.py` | `forecast_runs` | coverage check, history, calibration, store |
| Forecast engines | `packages/forecasting/engine.py` | none | heuristic and Monte Carlo probability |
| Notification queue and policy | `packages/notifications/` | `notifications` | decide, queue once per delivery key |
| Delivery loop | `apps/bot/delivery.py`, `apps/bot/main.py` | delivery status and attempts | list, send, mark; one transaction per pass |
| Adding a target | `apps/bot/handlers/system.py`, `apps/bot/target_api.py`, `apps/api/routes/internal.py` | dialog state in memory, `tracked_users`, `user_targets` | choose a group, send the code, create the target |
| Bot views | `apps/bot/service.py`, `presenters.py` | none | newest snapshot and its forecast |
| Universal and HSE ingestion | `apps/worker/universal_ingestion.py`, `hse_ingestion.py` | none between runs | one transaction per university |
| Snapshot diff | `packages/diff.py`, `event_repository.py` | `application_events` | events between two snapshots, idempotent |
| Parsers | `packages/parsers/` | none | extraction and validation of lists |
| Source registry, fetchers | `packages/parsers/sources.py`, `universal_fetchers.py` | none | the documents of a visit |
| Health, web, tools | `apps/*/healthcheck.py`, `apps/web`, `apps/tools` | a Redis key | lease renewal, read-only pages, exports |

The processes (API, worker, bot, and refreshes started by hand) meet only in
PostgreSQL and Redis, and over HTTP between bot and API. What is hard:

* several transactions under READ COMMITTED insert the same unique keys;
* one batch is many rows, and a reader combines several statements;
* effects outside the transaction: a Telegram message, an arq job, an HTTP
  response that the client no longer waits for;
* jobs that arq runs again, drops as duplicates, or gives up;
* asyncio tasks that read state, await, and act on what they read.

What makes the components correct: a batch is visible as a whole or not at all
and says truthfully what it is; a forecast is made from one whole batch, once
per target and snapshot, and a list the parser accepts never makes the forecast
of its group fail; every message is accounted for and a settled notification
stays settled; a user exists only with a target, and replies are true; one
university's trouble takes nothing from another, and what is stored is in the
end handed over. `PROJECT.json` lists under `hazards` each place where this can go wrong.

## Modules

| Module | Models | Correspondence |
|---|---|---|
| `AdmissionRows` | unique keys of universities, groups, snapshots | a row is named by its key; a list is a group and the hash of its content |
| `ApplicationRows` | what the table `applications` takes of a list | `Storable` |
| `BatchStore` | the abstract store: whole batches appear in one step | `Publish` |
| `ItmoIngestion` | refreshes over `persist_snapshot` and `UnitOfWork` | see below |
| `UniversityCoverage` | `_university_coverage` | `Complete` is `UniversityCoverage.complete` |
| `ForecastPipeline` | the worker's jobs and `recompute_probabilistic_forecasts` | composes with `ItmoIngestion`: every step of a refresh is a step of the pipeline |
| `NotificationDelivery` | the delivery loop, `queue()`, deletions | one action per await of `_deliver_once` |
| `AddTarget` | the dialog and `create_user_target` | one action per statement of the API transaction |
| `ItmoList` | `ItmoParser`: which pages it accepts, what it reads of them | operators |
| `ForecastEngine` | both engines of `engine.py`, in ten-thousandths | operators; a simulation is a choice |
| `TargetForecasts` | the loop over the targets of a group in `recompute.py` | one action per target; from page to row |
| `ListParsers` | the parsers of nine universities and of HSE | operators, one per parser |
| `ListFetchers` | `sources.py` and `universal_fetchers.py` | operators, one per fetcher |
| `UniversalIngestion` | the hourly pass, the HSE pilot, the bot's choice of a snapshot | one action per document, commit and hand-over |
| `ListDiff` | the events between two lists | operators; `Replay` is the definition they are held against |
| `SnapshotDiff` | runs of `diff_snapshots` with `add_ignore_duplicate` | one action per statement |
| `MC*` | instances for TLC | constants and symmetry only |
| `*_proofs` | TLAPS proofs about the module of that name | `ItmoIngestion_proofs` also about `UniversityCoverage`, `SnapshotDiff_proofs` about `ListDiff`, `TargetForecasts_proofs` about `ForecastEngine` |
| `Folds_proofs` | lemmas | induction over numbers and finite sets, sums, maxima, folds |

Definitions introduced by a comment starting "Mutant" are faulty variants of
the definition they precede. They are not part of the specification; each run
was repeated with one of them in place of the original, to see that the run's
property depends on the code being as it is.

**ItmoIngestion.** A run is one execution of `ingest_itmo_batch`. `FetchBatch`
picks what the site answers for each group: a page body the parser accepts, a
page it rejects, or no listing at all. Then the run goes through its pages in
`sorted()` order and through the three tables of `persist_snapshot`: `Lookup` is
the SELECT, `Insert` the INSERT and flush, `InsertConflict` its IntegrityError,
`Restamp` the update of an existing snapshot's `ingestion_batch`,
`RestampRefused` the trigger. Uncommitted rows are in `inserted` and
`restamped`; a statement that meets another run's uncommitted row waits, which
is a guard. `Commit` and `Rollback` are `__aexit__`. The applications of a page
go into the same flush as its snapshot and are abstracted to it; titles and
priorities of an existing group are overwritten by equal keys and left out. The
row locks such an update takes are ordered like the group's other locks.

**ForecastPipeline.** `outcomes[r]` is what a worker refresh returned and has
not enqueued; `job` is the state of every arq job id. `Refresh` is a step of
`ItmoIngestion` together with what it means for `history`, the order of a
group's snapshots by `fetched_at`. A forecast job goes through `LoadSnapshot`, `CountGroups`,
`CollectBatch`, `StoreForecasts`, one per query, and `QueueNotify` enqueues the
next job; `view` is what it has read. `Interrupt` is a cancellation, after which
arq queues the job again; `Fail` is any other exception, after which it does
not; both are arq's behaviour, modelled from its use here. Targets have their
applicant in every list and a known seat count, and the group's priority
semantics are verified; a target without them is skipped by the code and has no
forecast to speak of. The two engines' rows are written in one transaction and
are one forecast here, with a ghost field: the `attempt` of the job that stored
it.

**ItmoList, ForecastEngine, TargetForecasts.** A page is the JSON in it: the
group it says it is about, the seat fields, the records of each condition;
`Accepted` has every check of `ItmoParser.parse`. `TargetForecasts` starts when
the lists of a whole batch have been read, which is `ForecastPipeline`'s
subject, and does with real lists what is one step there: `Calibration`,
`TargetApplications`, `Cohorts` and `Input` are the helpers of `recompute.py`,
`Skip` and `ForecastTarget` the two ways through the loop. The engines compute
in ten-thousandths, to which the code rounds; halves round up here, and to even
in Python, which no property tells apart. The chance of each candidate lies
between 0.02 and 0.995, so any number of them may stay in a run: the 4000 runs
are three arbitrary sorted sequences (`Simulations`) of which the output is
computed as in the code. Between rows of equal rank in two quota conditions the
order of the database decides, a choice here.

**NotificationDelivery.** `marks` are the flushed marks of the pass under way,
`linked` what the listing read of `user_target_id`, `loaded` the one user the
session's identity map keeps alive, `late` the messages sent to a user who was
already deleted, recorded for a property. `SendMessage` has three outcomes: accepted,
refused, accepted with the answer lost. A mark of a deleted row is
`MarkLostRow`: StaleDataError rolls the pass back and ends the loop. A
notification is identified with its delivery key; `Queue` is `queue()` for a
meaningful decision. Only tests call `queue()` and `UserRepository.delete` at
present; both are repository operations the loop has to live with.

**AddTarget.** `Normal` is `normalize_uid`, a function on the texts in play;
HMAC is taken as injective. `made` are the rows a call has inserted. The
constraints are not deferred, so an IntegrityError comes from a flush, never
from the commit, and `InsertRaises` answers 500. `GiveUp` is the client's
timeout and `Restart` a restart of the bot, which forgets the dialogs and the
calls it waits for; the API goes on after both. `told` is what the user
has heard of a call. `Fail` is a failure of the database or of the connection to
it, before the commit or after a COMMIT that took effect and was not
acknowledged; `broken` remembers such calls for the properties, since the
client cannot tell this 500 from that of `InsertRaises`.

**ListParsers, ListFetchers.** A text is a string or a model value, and the
constants say what the regular expressions find in it (`Words`, `CodeIn` for a
cell that is a code, `CodeWithin` for a code anywhere in it, `Digits`). A parser gives a list, a refusal (`Failed`) or an exception
(`Raises`); the difference matters, since an exception ends the visit of its
university. Kept are: which table and which columns are read, which rows make
an application, its rank and its condition, and the group. A fetcher gives the
documents of one visit with the metadata its parser is passed, in their order;
those of Gubkin arrive in any order (`asyncio.gather`).

**UniversalIngestion.** `store` is the committed snapshots in the order of
`fetched_at`, the time at which a document is parsed: one pass runs at a time,
and the pilot's snapshots are of a university of its own. `FetchSource` reads a site in one step. `PersistDocument` is the body of
the loop over the documents, `pending` the rows of the open transaction, `found`
the ids noted in the outcomes before the commit. `Abandon` is the `except` of
the loop over the universities. `HandOver` enqueues the diff job of one outcome.
`Stop` is everything that ends the job between two steps: arq's limit of 300 s,
a shutdown, a crash. `IngestHse` may happen at any time and hands over nothing.
`View` is `_view_for_target`. Configured codes do not repeat
(`SettingsAssumption`); a visit gives a list of documents (`VisitsAssumption`).

**ListDiff, SnapshotDiff.** A list is a function from keys (applicant and
admission condition) to `_state`. `Fields` holds the fields of `_STATE_FIELDS`,
`Tracked` those with an event type, named by it. Runs of the diff for one pair
overlap; `todo` are the events a run has still to save, in the order of the
loops (`Place`), `added` what it has inserted. `SelectDuplicate` is the SELECT
of `add_ignore_duplicate`, `Insert` its INSERT, which waits for an uncommitted
row with the same key (`Held`). `Crash` stands for every exception, those of
`_validate_payload` included. Only tests call `diff_snapshots` at present:
`diff_snapshot_job` enqueues the forecast without it.

## Runs

| Run | Question | Bounds |
|---|---|---|
| `ItmoIngestion_shipped` | what refreshes do on the migrated schema | 3 runs, 2 groups, 2 bodies per page |
| `ItmoIngestion_restamp` | the same without the trigger; can refreshes block each other for ever | 3 runs, 2 groups, 1 body |
| `ItmoIngestion_unchanged` | does an unchanged page join the new batch | 2 runs, 2 groups, 1 body; violated |
| `ForecastPipeline_restamp` | are forecasts made from one whole batch, also while snapshots change batch between the statements of a job | 2 runs, one by the worker, 2 groups, 2 bodies, no faults, no trigger |
| `ForecastPipeline_live` | is what a refresh hands over forecast, once, or visibly given up | 2 worker runs, 1 group, 2 bodies, `MinHistory` 2, 1 fault, 2 tries |
| `NotificationDelivery_faults` | are messages accounted for, and is each notification settled | 3 notifications, limit 2, 2 attempts, 1 rolled back pass |
| `SnapshotDiff_pair` | does the table get every event once and tell the new list; can diffs block each other for ever | all pairs of lists of 1 applicant, 3 conditions, 1 field; 2 runs, 1 failure |
| `AddTarget_calls` | are replies true and rows unique, with timeouts and restarts; does every request end | 2 calls, 2 users, 4 texts |
| `AddTarget_duplicate` | is a duplicate answered 409 | same; violated |
| `TargetForecasts_loop` | does a list the parser accepts and the tables take always get forecasts, and are these in the order of the places | 2 targets, 3 applicants, histories of 2 and 3 pages, 2 simulated runs |
| `UniversalIngestion_pass` | are visits atomic and isolated, is only stored data handed over, and in the end all of it; what does the bot show | passes over one or two universities, all nine in turn, 2 changes of a site, 1 fault, 2 links of RUDN followed, rows of MSU of 3 cells |
| `UniversalIngestion_contest` | does the condition stored for the Financial University agree with the page | its site alone; violated |

*Why the bounds are enough.* Three runs let one batch be committed while two
collide; two groups give batches that are partial, that overlap, and that can be
locked in either order; two bodies give pages that stay and pages that change.
`MinHistory` and `MaxTries` stand for 3 and are reached with fewer runs; where
the number of snapshots is compared with 3 itself, in `TargetForecasts`,
histories have 2 and 3 of them. Three notifications behind a limit of two are a
queue whose head fails. Runs, page bodies, calls and users are symmetric where
nothing orders them; groups and notifications are ordered by number and are not
permuted. Runs with a liveness property use no symmetry.

Stamps and coverage are checked without the trigger (`ItmoIngestion_restamp`),
atomicity with it (`ItmoIngestion_shipped`); the theorems cover both values for
all of them. `HandedOverIsProcessed` and `WholeBatchGetsForecasts` are checked
with the trigger only. Without it a snapshot that moves to a later batch is handed
over again under the job id of its earlier hand-over, and arq drops that if the
earlier job is still queued or running: the later batch is then not forecast. On
the migrated schema no snapshot moves, and no refresh hands over what another did.

The 4000 simulated runs are 2: an output is a count of runs and two quantiles of
a sorted sequence, so two runs give shares other than none and all, and
quantiles that differ; `EveryDrawIsAdmissible` is proved for any number. Two
changes let a list change and come back, which is the case in which the bot's
view lags; one fault is a failed visit or an interrupted pass. Every site has
pages that its parser accepts, refuses or raises on, lists with a repeated
applicant or a place of 0, and repeated links, as far as its parser can meet
them. Universities meet in a pass only through the order of the loop, so two at
a time are enough. The pages of `TargetForecasts` have gaps, shared and swapped
places, repeated applicants, unknown and zero seats, and an applicant with the
same place in two quotas.

Three conditions of one applicant are the fewest with which an applicant keeps
one condition while others change, and lose or gain two at a time. Events of
different applicants or fields interact only through the order of the inserts,
which the events of several conditions have as well. Without the trigger one
body is enough for a snapshot to move from batch to batch.

*The schema without the trigger* (`ImmutableTrigger = FALSE`) is the persistence
layer on its own: the SQLAlchemy models in `models.py` have no trigger, and
`persist_snapshot` is written for a database that accepts its update. Those runs
show what the code does there; the migrated schema is the other value.

*Deadlock* is checked in the runs of `UniversalIngestion`, whose cron job never
ends. It is not in the others: all runs of a refresh, all diffs, all calls, the
loop over the targets and a stopped bot really may be over.

### Disagreements with the documentation

* `ItmoIngestion_unchanged`: README.md:148 of the repository promises to
  refresh every group as one batch. A page with known content makes
  `persist_snapshot` update the old snapshot (`ingestion.py:73`), the trigger
  raises, and the whole batch is rolled back. Two refreshes are enough.
* `AddTarget_duplicate`: the bot and its tests expect 409 for a duplicate.
  The exception is raised by the flush in `UserTargetRepository.add`
  (`internal.py:113`), before the `try` around `session.commit()`, and becomes
  a 500; the user is told to try again.

* `UniversalIngestion_contest`: docs/universities.md:132 names the conditions
  of the applicants as what a university is included for. `header_map` takes the
  first synonym that occurs in a heading (`html_tables.py:103`), and "вид
  конкурса" contains "ид", a synonym of an earlier column (line 77), so the
  column of the contest is never found and every application of the Financial
  University is stored as general competition. An applicant who stands in two
  contests then repeats a key of `applications`, and the visit is rolled back.

Other things met while modelling, that are not runs:

* `notify_users_job` queues nothing and no other code calls `queue()`, so the
  notifications announced in `presenters.py:40` are never produced.
* A call whose commit is not acknowledged answers 500 like any failure: the bot
  says to try again, the target is there, and every further try is the duplicate
  of `AddTarget_duplicate`. `RepliesHonest` excepts that one case and asks for
  the user and the target together.
* The identity map of a delivery pass never answers for a deleted user
  (`CacheIsNotStale`): the mark of the user's earlier notification holds the
  deletion back. A message goes to a deleted user only if the deletion comes
  between the lookup and the send.
* A user deleted between the listing and the mark of a notification stops the
  delivery loop until the bot is restarted (`PendingIsSettled` has to except it).
* A group that leaves ITMO's index stays in `competition_groups`, and no later
  batch has the expected number of groups (`recompute.py:172`).
* ITMO's payload has no "bvi", so the heuristic never adds its bonus; it also
  treats a score or a priority of 0 as unknown.
* The comment at `universal_fetchers.py:315` announces the quotas of Gubkin as
  snapshots of their own; only the main type, or else the first, is fetched, and
  its condition is not passed on. Neither is the one that the docstring of
  `rudn.py` (line 31) expects. Both parsers store general competition. RUDN's
  visit follows the same 60 links every time.
* docs/integration-plan.md:101 has each parser fill `seat_counts`; those of
  STANKIN, MPEI, MISIS and the Financial University leave them empty.
* One program of RNIMU is one group, so its lists of several types replace each
  other in the bot's view.
* The HSE pilot hands its snapshot over to nobody, and a pass that always takes
  longer than 300 s hands nothing over either.

## Fairness

* Refreshes: weak fairness of each run's steps while it has a session. The
  coroutine is resumed by the event loop, and PostgreSQL wakes a statement whose
  lock is free. Starting a refresh and the answers of the site are not fair.
* Pipeline: weak fairness of enqueuing, of starting and finishing every job and
  of its steps: a running worker polls its queue. Refreshes are not fair.
* Delivery: weak fairness of the loop as a whole. It sleeps, or awaits a
  database or a request that aiogram bounds. `Restart` is not fair:
  `docker-compose.yml` sets no restart policy.
* Diffs: weak fairness of the steps of a run that has begun; beginning one is
  not fair.
* `AddTarget`: weak fairness of the steps of each call, which the API takes on
  its own; nothing is assumed of the users or of the bot, which may restart.
* `TargetForecasts` has safety properties only: it is one call that ends.
* `UniversalIngestion`: weak fairness of the pass, which the cron job starts
  every hour, and that a request ends (`[]<>(pc # "fetch")`), with an answer or
  by the timeout of the HTTP client. Sites change and steps fail finitely often;
  a pass that is cut off every time hands over nothing.

## Proofs

`ItmoIngestion_proofs` proves for every set of groups (finite), pages and runs,
and both values of `ImmutableTrigger`: `TypeCorrectness`, `BatchesAreAtomic`,
`StampsAreHonest`, `CollisionsHaveWinner`, `CoverageIsSound`,
`CoverageIsExact`, `ImmutableSnapshots` (assuming the trigger) and
`Refinement`, that the transactions implement `BatchStore`.

The argument. `AllOrNothing` and `StampsHonest` speak of finished runs and
committed rows; they are not inductive, because a commit publishes what the
transaction has collected. The inductive invariant `IInv` adds what a
transaction holds at each point: a run without a session holds nothing
(`NothingHeld`), uncommitted rows belong to its own pages (`InsertedBelong`,
`RestampedBelong`), a unique key is held by one run and is not committed
(`InsertedOnce`), the page at hand stands where `table` says (`Standing`), and
every page no longer pending is either in the run's transaction or re-stamped by
it (`Persisted`). With `pending` empty, `Persisted` says that what the commit
publishes is the batch (`CommitContents`). There is one lemma per action;
`AdvanceIInv` is shared by the three actions that leave a row behind.

`CoverageIsSound` combines `IInv` with a counting argument: covered groups are
a subset of the accepted groups, these of the listed ones, and the numbers of
registered, covered and listed groups agree, so by finiteness the sets do.
`CoverageIsExact` and `CollisionsHaveWinner` need one more invariant each.
`Refinement` maps every commit to `Publish` and every other step to a stutter.

*No deadlock.* Overlapping transactions wait for each other's unique keys and
updated rows, and what keeps them from waiting in a circle is the order in which
each goes through its rows. `NoDeadlock` in `ItmoIngestion_proofs`,
`SnapshotDiff_proofs` and `AddTarget_proofs` says, for any number of runs, that
there is no circle of waits (`NoCircularWait`), and that of the runs with a
transaction one has its next statement or its commit before it and waits for
nobody. This is the safety half of `RefreshEnds`, `DiffEnds` and `RequestsEnd`:
every transaction that is not blocked gets on, and never are all of them
blocked. ENABLED is out of reach, so `CanGoOn` spells out the guards of the
actions. For the refreshes the invariant is `InOrder`: the groups a run is done
with come before those it has still to persist, and the row of a group is in its
transaction only once it is at the group's list. Then a run that waits for a
waiting one is at an earlier group, or at the same group's row while the other
is at its list, so the one furthest on waits for nobody. `InOrder` is itself
inductive relative to `IInv` (`LocksInOrder`). For the diffs the order is that
of the loops: `LoopsOrderEvents` proves that the places of a pair's events are
totally ordered whatever the lists are, `InLoopOrder` (`RowsInLoopOrder`) that
what a run has inserted comes before what it has left. A call of `AddTarget`
inserts a user before a target, and waits for a user's row only while it has
none of its own.

*No endless run.* The other half of why transactions end: `RefreshIsBounded`,
`DiffIsBounded` and `PassEnds` give the work a refresh, a diff or a delivery pass
has left as a number (`Work`) that is bounded by its groups, events or the limit
of the listing, falls with each of its own steps, and never rises with a step of
anyone else (`StepsLessenWork`). With `NoDeadlock`, all that
`RefreshEnds` and `DiffEnds` need beyond these theorems is the fairness of the
steps; that last inference is left to TLC. `PassEnds` also has
`ListedWithinLimit`, that counting the deliverable rows below a row keeps a
listing within its limit, and that a pass always has its next step before it
(`LoopGoesOn`).

`SnapshotDiff_proofs` proves, for any lists and any number of runs, first the
diff as an algorithm: `ReplayIsFaithful`, by one lemma on what an event can be
(`EventShape`) and one per kind of key (new, left, with an event, without), and
`IdentitiesDiffer`, that the unique key never makes two events of a pair one.
Then the runs: `EventsComplete` and `CountedOnce` speak of committed runs, so the
inductive invariant `DiffInv` adds that an event a run has behind it is in the
table or in its transaction (`Settled`), that a transaction's rows are not yet
in the table (`Holds`) and that a row has one writer (`OneWriter`). A duplicate
found by key is the event itself by `IdentitiesDiffer`, which is what `Settled`
needs. `TableTellsTheNewList` joins the two parts, and `DiffIsAtomic` says what a
reader of the table sees: none of the pair's events or all of them, for good.

`ForecastPipeline_proofs` builds on the first: every step of the pipeline is a
step of `ItmoIngestion` or leaves its variables alone, so its invariant holds of
the pipeline too. The new part is the reading job. `PInv` says that what a job
has read is still true of a batch that was published (`ViewTrue`): the groups it
counted were there, the snapshots it collected carry the batch. By the counting
argument (`CountedIsWhole`) a job that found as many as it counted has the whole
batch, which is `OneWholeBatch` for both values of the trigger. `Idempotence`:
the store looks for the identity before it inserts, and nothing removes a row.
`PipelineTypes` is inductive with what a running job has behind it: it has been
started (`QueueType`), its view is held only between its statements
(`ViewHeld`), and the stored snapshots of a group are ordered by `fetched_at`
(`HistoryOrdered`), which needs that a refresh adds one snapshot at a time
(`OneRowAtATime`). `PipelineKeepsIngestion` is the composition: the pipeline
implements `ItmoIngestion`, so through it `BatchStore`, and its refreshes do not
block each other.

`NotificationDelivery_proofs`: the accounts of messages speak of attempts that
are committed and attempts of the pass under way. The inductive invariant ties
the pass to the rows: what a pass has listed was deliverable and only a deletion
has touched it since, what it has marked is locked (`ListedDeliverable`,
`MarkedDeliverable`), the result about to be marked is that of the message just
sent (`ResultTold`), and a pass is open only between its listing and its end
(`PassOpen`). `OneMessageAfterDeletion` needs
that a pass that has sent to a deleted user, and has anything of that user left,
stands at the mark of that very message (`LateIsLast`), which ends it. `CacheIsNotStale` adds that
the user in the identity map is the one of a marked notification or of the one
at hand (`LoadedIsHandled`).
`MessageLimit` draws the conclusion a user cares about: no more than
`MaxAttempts` messages, and one for each pass that was rolled back.

`AddTarget_proofs`: a call that is past a check has what it checked
(`CheckedRequest`), its uncommitted rows are its own and no committed row has
their keys (`TransactionHolds`), and an answer on its way agrees with the tables
(`AnswerTrue`): a 201 with a committed target, any other with nothing or, after a
lost acknowledgement, with a committed target too. From this the reply is true
when it arrives.

`TargetForecasts_proofs` has the arithmetic first: rounding and clamping keep
the order, so of two applicants who differ only in their place the better one
never gets less (`PlaceCounts`); the heuristic's output is always one that
`forecast_runs` takes (`HeuristicIsProbability`); and so is the simulation's,
whatever is drawn, with a rank among the places ahead, and certainty when fewer
are ahead than there are seats (`EveryDrawIsAdmissible`). Then the loop. Two
invariants carry it: `Lists`, that the history ends with the new page's list and
holds nothing but lists the site published, and `Forecasts`, that nothing failed
and each forecast was made of an application of that list. The engines ask for a
place of at least 1, cohorts that add up to the candidates ahead and enough
history; that every list the parser accepts gives such an input
(`EveryListIsForecastable`) rests on the sums over pages, seats and cohorts.
`CertainAhead` and `RanksAreInReach` follow from the same description of the
input.

`Folds_proofs` is what these sums need. The induction theorems of the library
take an operator as a parameter and cannot be used here; `WFMin`, a least element
of a set in a well-founded order, can. `NumbersByInduction` and
`SubsetsByInduction` are proved from it with a set in place of the operator, and
from them what `SumFunction` gives on every finite set (`SumsByElement`,
`SumMonotone`, `SumOfNaturals`, `SumOfParts`), that a finite set has a maximal
element in every strict order (`MaximalElement`, `ExtremeElements`), and that
flattening a sequence of sequences gives one (`FlattenSeqType`).

`UniversalIngestion_proofs`, for any universities, sites and answers: the
inductive invariant `UInv` adds to the properties that the documents of a visit
are its university's (`DocsOfVisit`), that a noted id is stored or in the open
transaction and the ids dealt with are noted (`Noted`), that the transaction
adds only what is new and storable (`PendingNew`), and that a university without
an outcome is still to come (`Turns`). The pilot's rows are told from a visit's
by their university. `NewListsAreShown` needs in addition that a set of indices
has a last one, from the well-foundedness of the natural numbers.

Assumptions: the named ones of the modules - group ids are integers and finitely
many, `NoBatch` is no stamp, the two special pages are no contents and differ;
applicants and conditions are ordered, those of a pair and its runs finitely many
(`FiniteAssumption`), `None` is no condition, a field with an event type is a
field of the state; limits are positive numbers, and forecasts start with at
least the three snapshots the engine asks for (`MinHistory`); what `ItmoParser`
reads as a number is one (`NumbersAssumption`) and the records of a page are
lists (`RecordsAssumption`); configured codes do
not repeat and are sources that are enabled, and fetchers return lists. TLC
evaluates all of them on the instances.

With these, every invariant and every action property that a run checks is a
theorem, and so is the refinement. Only model-checked: liveness, which with
ENABLED is out of the prover's reach; for refreshes, diffs and calls its safety
half is proved (*No deadlock*, *No endless run*). The parsers and fetchers enter the proofs as
arbitrary answers of the sites, and what each of them computes is checked by the
runs of `UniversalIngestion` alone.

## Plan

1. `AdmissionRows`, `BatchStore`, `ItmoIngestion`, `UniversityCoverage` - done.
2. `ForecastPipeline` on top of them - done.
3. `NotificationDelivery`, `AddTarget`, with restarts of the bot - done.
4. `ListDiff`, `SnapshotDiff` - done.
5. `ItmoList`, `ForecastEngine`, `TargetForecasts`: from a page to a row of
   `forecast_runs` - done.
6. `ListParsers`, `ListFetchers`, `UniversalIngestion`: the other universities
   and what the bot shows of them - done.
7. Proofs of the safety properties of all of these, absence of deadlock,
   composition - done.
8. Left: the event signals of the heuristic and `policy.decide`, once other code
   than tests calls them; two bots at once, should the delivery loop come to
   lock its rows.

## Not modelled

* Regular expressions and markup: what they find in a text is a constant of
  `ListParsers`. Scores, consents, priorities and statuses of the universal
  parsers are data no property tells apart; nothing forecasts from them.
* A visit reads a site in one step. A site that changes between two requests of
  a visit gives documents of two states, each of which is a list by itself.
* Event signals, `features.py` and `policy.py`: only tests call them, the
  recomputation passes empty signals. The retention rate itself, a floating
  point number, decides only how probable a draw is.
* `ingest_snapshot_job` enters the chain of jobs at the diff job; nothing
  enqueues it.
* The lease of the worker's health key: it lives 60 s and is renewed every 60 s,
  so any delay makes a healthy worker look dead for a moment. A model of it would
  compare two clocks and show no more than this sentence.
* Menus, texts and keyboards of the bot, web pages, exports and the API shell
  keep no state. Titles and priorities of an existing group change data no
  property refers to.
* Two bots at once: Telegram's long polling admits one, and the delivery loop
  takes no lock on the rows it lists.
* `html_tables.yes_no` holds an invalid pattern; nothing calls it.
