-------------------------- MODULE ForecastPipeline ---------------------------
(* From a committed refresh to stored forecasts: the worker's arq jobs         *)
(* (apps/worker/jobs.py) and the recomputation they run                        *)
(* (packages/forecasting/recompute.py, persistence.py), on top of              *)
(* ItmoIngestion.  A refresh by the worker enqueues one diff job per snapshot  *)
(* after its commit, a diff job enqueues the forecast job, a forecast job      *)
(* recomputes and enqueues the notify job.  Jobs carry ids: arq drops an       *)
(* enqueue while a job with the same id is queued or running.                  *)
EXTENDS UniversityCoverage

CONSTANTS
    WorkerRuns,  \* runs of ingest_itmo_batch_job; the others are started by hand
    Targets,     \* user targets whose applicant is in every list of their group,
                 \* with a known seat count
    TargetGroup, \* the competition group of each target
    MinHistory,  \* valid snapshots a forecast needs (3 in the code)
    MaxTries,    \* WorkerSettings.max_tries (3 in the code)
    MaxFaults    \* bound on crashes, interruptions and failures explored

ASSUME PipelineAssumption ==
    /\ WorkerRuns \subseteq Runs
    /\ TargetGroup \in [Targets -> Groups]
    /\ MinHistory \in Nat
    /\ MaxTries \in Nat \ {0}
    /\ MaxFaults \in Nat

VARIABLES
    history,    \* pairs of snapshots of a group, uncommitted ones too, the first
                \* of which has the earlier fetched_at
    outcomes,   \* snapshots a worker run has committed and not yet enqueued
    job,        \* state of every job id
    tries,      \* how often arq has started the job
    view,       \* what a running forecast job has read
    forecasts,  \* forecast_runs; both engines' rows are written together; attempt
                \* tells the rows of repeated tries apart, as their ids do
    dropped,    \* jobs and outcomes that arq or the worker has given up
    faults      \* faults so far

ingestVars == <<rows, stamp, pc, pages, pending, table, inserted, restamped>>
queueVars == <<outcomes, job, tries, dropped>>
allVars == <<ingestVars, history, queueVars, view, forecasts, faults>>

Diff(l) == <<"diff", l>>
Forecast(l) == <<"forecast", l>>
Notify(l) == <<"notify", l>>
Jobs == {Diff(l) : l \in Lists} \cup {Forecast(l) : l \in Lists}
            \cup {Notify(l) : l \in Lists}

\* A forecast job: loading the snapshot, then counting groups, then collecting
\* the batch, then storing; "ended" is a job whose key arq has yet to delete.
Running == {"started", "counting", "collecting", "storing", "queueing", "ended"}
NoView == [batch |-> NoBatch, groups |-> {}, basis |-> {}]

PipelineInit ==
    /\ Init
    /\ history = {}
    /\ outcomes = [r \in Runs |-> {}]
    /\ job = [j \in Jobs |-> "absent"]
    /\ tries = [j \in Jobs |-> 0]
    /\ view = [l \in Lists |-> NoView]
    /\ forecasts = {}
    /\ dropped = {}
    /\ faults = 0

\* Something goes wrong, for the bounded number of times explored.
Fault == faults < MaxFaults /\ faults' = faults + 1

-----------------------------------------------------------------------------
\* fetched_at is taken just before a page is persisted, so the snapshots of a
\* group are ordered as they were inserted; a rollback takes its own away.
Stored == Lists \cap (rows \cup UNION {inserted[r] : r \in Runs})
RecordHistory ==
    history' = {p \in history : p[1] \in Stored' /\ p[2] \in Stored'}
        \cup {p \in (Stored \cap Stored') \X (Stored' \ Stored) : p[1][2] = p[2][2]}

\* A refresh takes a step; when it commits, ingest_itmo_batch returns and the
\* job that awaits it has outcomes to enqueue.
Refresh(r) ==
    /\ \/ Step(r) /\ UNCHANGED faults
       \/ Crash(r) /\ Fault
    /\ RecordHistory
    /\ outcomes' = IF r \in WorkerRuns /\ pc[r] # "done" /\ pc'[r] = "done"
                   THEN [outcomes EXCEPT ![r] = PageLists(r)] ELSE outcomes
    /\ UNCHANGED <<job, tries, dropped, view, forecasts>>

\* redis.enqueue_job(..., _job_id=j): nothing happens while j exists.
Enqueued(j) == IF job[j] = "absent" THEN [job EXCEPT ![j] = "queued"] ELSE job

\* The loop of ingest_itmo_batch_job, one outcome at a time in group order.
EnqueueDiff(r) ==
    \E l \in outcomes[r] :
        /\ \A m \in outcomes[r] : l[2] <= m[2]
        /\ outcomes' = [outcomes EXCEPT ![r] = @ \ {l}]
        /\ job' = Enqueued(Diff(l))
        /\ UNCHANGED <<ingestVars, history, tries, dropped, view, forecasts, faults>>

\* The job dies in that loop, or Redis does; a later attempt is another batch.
EnqueueFails(r) ==
    /\ outcomes[r] # {}
    /\ Fault
    /\ dropped' = dropped \cup outcomes[r]
    /\ outcomes' = [outcomes EXCEPT ![r] = {}]
    /\ UNCHANGED <<ingestVars, history, job, tries, view, forecasts>>

-----------------------------------------------------------------------------
\* arq picks a queued job; one that has had all its tries is given up.
Start(j) ==
    /\ job[j] = "queued"
    /\ IF tries[j] < MaxTries
       THEN /\ job' = [job EXCEPT ![j] = "started"]
            /\ tries' = [tries EXCEPT ![j] = @ + 1]
            /\ UNCHANGED dropped
       ELSE /\ job' = [job EXCEPT ![j] = "absent"]
            /\ tries' = [tries EXCEPT ![j] = 0]
            /\ dropped' = dropped \cup {j}
    /\ UNCHANGED <<ingestVars, history, outcomes, view, forecasts, faults>>

\* arq deletes the job key; keep_result = 0 keeps nothing else.
Finish(j) ==
    /\ job[j] = "ended"
    /\ job' = [job EXCEPT ![j] = "absent"]
    /\ tries' = [tries EXCEPT ![j] = 0]
    /\ UNCHANGED <<ingestVars, history, outcomes, dropped, view, forecasts, faults>>

\* Mutant: what the interrupted job has read is kept.
InterruptKeepsView(j) ==
    /\ job[j] \in Running
    /\ Fault
    /\ job' = [job EXCEPT ![j] = "queued"]
    /\ UNCHANGED <<ingestVars, history, outcomes, tries, dropped, view, forecasts>>

\* The worker is shut down or restarted: the transaction of a forecast job is
\* rolled back and the job is queued again.
Interrupt(j) ==
    /\ job[j] \in Running
    /\ Fault
    /\ job' = [job EXCEPT ![j] = "queued"]
    /\ view' = IF j[1] = "forecast" THEN [view EXCEPT ![j[2]] = NoView] ELSE view
    /\ UNCHANGED <<ingestVars, history, outcomes, tries, dropped, forecasts>>

\* Any exception but a cancellation, from the database or from Redis: arq
\* gives the job up at once.
Fail(j) ==
    /\ job[j] \in Running \ {"ended"}
    /\ Fault
    /\ job' = [job EXCEPT ![j] = "absent"]
    /\ tries' = [tries EXCEPT ![j] = 0]
    /\ dropped' = dropped \cup {j}
    /\ view' = IF j[1] = "forecast" THEN [view EXCEPT ![j[2]] = NoView] ELSE view
    /\ UNCHANGED <<ingestVars, history, outcomes, forecasts>>

\* Mutant: the diff job enqueues the next job only if it is the first try.
DiffJobOnce(l) ==
    /\ job[Diff(l)] = "started"
    /\ job' = [IF tries[Diff(l)] = 1 THEN Enqueued(Forecast(l)) ELSE job
                  EXCEPT ![Diff(l)] = "ended"]
    /\ UNCHANGED <<ingestVars, history, outcomes, tries, dropped, view, forecasts, faults>>

\* diff_snapshot_job
DiffJob(l) ==
    /\ job[Diff(l)] = "started"
    /\ job' = [Enqueued(Forecast(l)) EXCEPT ![Diff(l)] = "ended"]
    /\ UNCHANGED <<ingestVars, history, outcomes, tries, dropped, view, forecasts, faults>>

\* notify_users_job leaves everything to the bot.
NotifyJob(l) ==
    /\ job[Notify(l)] = "started"
    /\ job' = [job EXCEPT ![Notify(l)] = "ended"]
    /\ UNCHANGED <<ingestVars, history, outcomes, tries, dropped, view, forecasts, faults>>

-----------------------------------------------------------------------------
\* The job goes on to step s having read v.
Goes(l, s, v) ==
    /\ job' = [job EXCEPT ![Forecast(l)] = s]
    /\ view' = [view EXCEPT ![l] = v]
    /\ UNCHANGED <<ingestVars, history, outcomes, tries, dropped, faults>>

\* session.get: the snapshot and the batch in its raw_payload, or none
LoadSnapshot(l) ==
    /\ job[Forecast(l)] = "started"
    /\ IF l \in rows /\ stamp[l] # NoBatch
       THEN Goes(l, "counting", [NoView EXCEPT !.batch = stamp[l]])
       ELSE Goes(l, "queueing", NoView)
    /\ UNCHANGED forecasts

\* The university's groups; expected_group_count must be their number.
CountGroups(l) ==
    /\ job[Forecast(l)] = "counting"
    /\ IF view[l].batch.expected = Cardinality(RegisteredGroups)
       THEN Goes(l, "collecting", [view[l] EXCEPT !.groups = RegisteredGroups])
       ELSE Goes(l, "queueing", NoView)
    /\ UNCHANGED forecasts

\* Mutant: the covered groups are not counted.
CollectBatchUncounted(l) ==
    /\ job[Forecast(l)] = "collecting"
    /\ LET basis == {m \in rows \cap Lists :
                        /\ m[2] \in view[l].groups
                        /\ m = l \/ InBatch(m, view[l].batch.id)}
       IN Goes(l, "storing", [view[l] EXCEPT !.basis = basis])
    /\ UNCHANGED forecasts

\* The snapshots of the batch.  The session keeps the snapshot it has loaded,
\* whatever batch the database gives it by now.
CollectBatch(l) ==
    /\ job[Forecast(l)] = "collecting"
    /\ LET batch == view[l].batch
           basis == {m \in rows \cap Lists :
                        /\ m[2] \in view[l].groups
                        /\ m = l \/ InBatch(m, batch.id)}
       IN IF view[l].groups # {}
             /\ Cardinality({m[2] : m \in basis}) = Cardinality(view[l].groups)
          THEN Goes(l, "storing", [view[l] EXCEPT !.basis = basis])
          ELSE Goes(l, "queueing", NoView)
    /\ UNCHANGED forecasts

\* Snapshots of l's group up to l in fetched_at order
HistoryTo(l) == {m \in rows \cap Lists : m = l \/ <<m, l>> \in history}

\* Mutant: existing forecasts are not looked up.
StoreForecastsAgain(l) ==
    /\ job[Forecast(l)] = "storing"
    /\ forecasts' =
          IF Cardinality(HistoryTo(l)) < MinHistory THEN forecasts
          ELSE forecasts \cup
               {[target |-> t, list |-> l, batch |-> view[l].batch.id,
                 basis |-> view[l].basis, attempt |-> tries[Forecast(l)]] :
                    t \in {u \in Targets : TargetGroup[u] = l[2]}}
    /\ Goes(l, "queueing", NoView)

\* Mutant: one snapshot more than the minimum is asked for.
StoreForecastsLate(l) ==
    /\ job[Forecast(l)] = "storing"
    /\ forecasts' =
          IF Cardinality(HistoryTo(l)) <= MinHistory THEN forecasts
          ELSE forecasts \cup
               {[target |-> t, list |-> l, batch |-> view[l].batch.id,
                 basis |-> view[l].basis, attempt |-> tries[Forecast(l)]] :
                    t \in {u \in Targets :
                              /\ TargetGroup[u] = l[2]
                              /\ \A f \in forecasts : f.target # u \/ f.list # l}}
    /\ Goes(l, "queueing", NoView)

\* persist_forecast for every target of the group that has no row for this
\* snapshot yet, and the commit
StoreForecasts(l) ==
    /\ job[Forecast(l)] = "storing"
    /\ forecasts' =
          IF Cardinality(HistoryTo(l)) < MinHistory THEN forecasts
          ELSE forecasts \cup
               {[target |-> t, list |-> l, batch |-> view[l].batch.id,
                 basis |-> view[l].basis, attempt |-> tries[Forecast(l)]] :
                    t \in {u \in Targets :
                              /\ TargetGroup[u] = l[2]
                              /\ \A f \in forecasts : f.target # u \/ f.list # l}}
    /\ Goes(l, "queueing", NoView)

\* The last step of forecast_recompute_job
QueueNotify(l) ==
    /\ job[Forecast(l)] = "queueing"
    /\ job' = [Enqueued(Notify(l)) EXCEPT ![Forecast(l)] = "ended"]
    /\ UNCHANGED <<ingestVars, history, outcomes, tries, dropped, view, forecasts, faults>>

JobStep(l) ==
    \/ DiffJob(l) \/ NotifyJob(l)
    \/ LoadSnapshot(l) \/ CountGroups(l) \/ CollectBatch(l) \/ StoreForecasts(l)
    \/ QueueNotify(l)

PipelineNext ==
    \/ \E r \in Runs : Refresh(r) \/ EnqueueDiff(r) \/ EnqueueFails(r)
    \/ \E j \in Jobs : Start(j) \/ Finish(j) \/ Interrupt(j) \/ Fail(j)
    \/ \E l \in Lists : JobStep(l)

PipelineSpec == PipelineInit /\ [][PipelineNext]_allVars

\* The worker keeps resuming its jobs and polling its queue.
PipelineFairness ==
    /\ \A r \in Runs : WF_allVars(EnqueueDiff(r))
    /\ \A j \in Jobs : WF_allVars(Start(j)) /\ WF_allVars(Finish(j))
    /\ \A l \in Lists : WF_allVars(JobStep(l))
FairPipelineSpec == PipelineSpec /\ PipelineFairness

-----------------------------------------------------------------------------
\* The values the pipeline's own variables can take: the snapshots of a group
\* are in order, and what a forecast job has read lasts no longer than its
\* transaction.
PipelineTypeOK ==
    /\ history \subseteq Stored \X Stored
    /\ \A l, m \in Stored : l[2] = m[2] /\ l # m =>
          (<<l, m>> \in history <=> <<m, l>> \notin history)
    /\ outcomes \in [Runs -> SUBSET Lists]
    /\ job \in [Jobs -> {"absent", "queued"} \cup Running]
    /\ tries \in [Jobs -> 0..MaxTries]
    /\ \A l \in Lists : /\ view[l].batch \in Stamps \cup {NoBatch}
                       /\ view[l].groups \subseteq Groups
                       /\ view[l].basis \subseteq Lists
                       /\ view[l] # NoView =>
                             job[Forecast(l)] \in {"counting", "collecting", "storing"}
    /\ \A f \in forecasts : /\ f.target \in Targets /\ f.list \in Lists
                           /\ f.batch \in Runs /\ f.basis \subseteq Lists
                           /\ f.attempt \in 1..MaxTries
    /\ dropped \subseteq Lists \cup Jobs
    /\ faults \in 0..MaxFaults

\* A forecast is computed from one batch and from all of it, although the job
\* reads groups, snapshots and applications in separate statements while other
\* refreshes commit: its basis is the page of every group the batch listed, all
\* accepted, and nothing else (README.md:55).
ForecastsUseOneWholeBatch ==
    \A f \in forecasts :
        /\ f.batch \in Published
        /\ Parsed(f.batch) = Listed(f.batch)
        /\ f.basis = PageLists(f.batch)
        /\ f.list \in f.basis

\* Jobs run again after an interruption, also one that came after their commit,
\* but a target has one forecast per snapshot
\* (uq_forecast_runs_target_snapshot_engine; "persistence is idempotent",
\* tests/integration/test_forecasting.py:25).
OneForecastPerIdentity ==
    \A f, g \in forecasts : f.target = g.target /\ f.list = g.list => f = g

\* What arq or the worker gave up on the way of snapshot l.
GivenUp(l) == dropped \cap {l, Diff(l), Forecast(l)} # {}

HasForecasts(l) ==
    \A t \in Targets : TargetGroup[t] = l[2] =>
        \E f \in forecasts : f.target = t /\ f.list = l

\* "The worker calculates a forecast after a new snapshot is processed"
\* (README.md:47): every target in a snapshot of a complete batch with enough
\* history gets its forecast, unless a job is given up, a later batch makes the
\* set of groups larger, or the snapshot moves to a later batch.
WholeBatchGetsForecasts ==
    \A r \in WorkerRuns, l \in Lists :
        (l \in outcomes[r] /\ Complete(l) /\ Cardinality(HistoryTo(l)) >= MinHistory)
        ~> \/ HasForecasts(l)
           \/ GivenUp(l)
           \/ RegisteredGroups # Listed(r)
           \/ ~InBatch(l, r)

\* No snapshot is lost between the queues: one that a refresh has handed over
\* reaches the end of its forecast job, or a job of its chain was given up.
HandedOverIsProcessed ==
    \A r \in WorkerRuns, l \in Lists :
        l \in outcomes[r] ~> job[Notify(l)] # "absent" \/ GivenUp(l)
=============================================================================
