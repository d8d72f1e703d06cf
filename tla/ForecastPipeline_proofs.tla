----------------------- MODULE ForecastPipeline_proofs ------------------------
(* Proofs about ForecastPipeline, for any groups, page contents, refreshes,    *)
(* targets and bounds, with and without the trigger.  What the refreshes do    *)
(* is known from ItmoIngestion_proofs: every step of the pipeline is a step of *)
(* ItmoIngestion or leaves it alone.                                           *)
EXTENDS ForecastPipeline, ItmoIngestion_proofs

\* The statements of a forecast job between which it holds what it has read.
Reading == {"counting", "collecting", "storing"}

\* The domains of the pipeline's functions.
Shapes ==
    /\ job \in [Jobs -> {"absent", "queued"} \cup Running]
    /\ view \in [Lists -> [batch : Stamps \cup {NoBatch}, groups : SUBSET Groups,
                           basis : SUBSET Lists]]

\* The batch a job goes by was published with the job's snapshot in it.
OfBatch(l, batch) ==
    /\ batch.id \in Published
    /\ l \in PageLists(batch.id)
    /\ batch.expected = Cardinality(Listed(batch.id))

\* These snapshots are the whole of batch b.
WholeBatch(basis, b) == Parsed(b) = Listed(b) /\ basis = PageLists(b)

\* What a running forecast job has read is true of its batch, whatever is
\* committed after it was read.
ViewTrue(l) ==
    /\ job[Forecast(l)] \in Reading => OfBatch(l, view[l].batch)
    /\ job[Forecast(l)] = "collecting" =>
          Cardinality(view[l].groups) = view[l].batch.expected
    /\ job[Forecast(l)] = "storing" =>
          WholeBatch(view[l].basis, view[l].batch.id)

PInv == Shapes /\ (\A l \in Lists : ViewTrue(l)) /\ ForecastsUseOneWholeBatch

-----------------------------------------------------------------------------
(* The refreshes within the pipeline.                                          *)

\* Every step of the pipeline is one of ItmoIngestion or none.
LEMMA PipelineStep == [PipelineNext]_allVars => [Next]_vars
<1> SUFFICES ASSUME [PipelineNext]_allVars PROVE [Next]_vars
  OBVIOUS
<1>1. CASE \E r \in Runs : Refresh(r)
  BY <1>1 DEF Refresh, Next
<1>2. CASE UNCHANGED ingestVars
  BY <1>2 DEF ingestVars, vars
<1>3. CASE \E r \in Runs : EnqueueDiff(r) \/ EnqueueFails(r)
  BY <1>2, <1>3 DEF EnqueueDiff, EnqueueFails
<1>4. CASE \E j \in Jobs : Start(j) \/ Finish(j) \/ Interrupt(j) \/ Fail(j)
  BY <1>2, <1>4 DEF Start, Finish, Interrupt, Fail
<1>5. CASE \E l \in Lists : JobStep(l)
  BY <1>2, <1>5 DEF JobStep, DiffJob, NotifyJob, LoadSnapshot, CountGroups,
                    CollectBatch, StoreForecasts, QueueNotify, Goes
<1>6. CASE UNCHANGED allVars
  BY <1>2, <1>6 DEF allVars
<1> QED
  BY <1>1, <1>3, <1>4, <1>5, <1>6 DEF PipelineNext

\* The pipeline around it changes nothing about the ingestion: seen by its
\* variables the composed system is ItmoIngestion, and so its refreshes implement
\* the atomic BatchStore and never block each other.
THEOREM PipelineKeepsIngestion ==
    PipelineSpec => Spec /\ StoreSpec /\ []IInv /\ []NoCircularWait
<1>1. PipelineInit => Init
  BY DEF PipelineInit
<1> QED
  BY <1>1, PipelineStep, Refinement, Invariance, NoDeadlock, PTL DEF PipelineSpec, Spec

\* A published batch stays published and stays what it was.
LEMMA BatchKept ==
    ASSUME IInv, [Next]_vars, NEW b \in Published
    PROVE  /\ b \in Published'
           /\ Listed(b)' = Listed(b) /\ Parsed(b)' = Parsed(b)
           /\ PageLists(b)' = PageLists(b)
<1>1. b \in Published' /\ pages'[b] = pages[b]
  <2>1. CASE \E r \in Runs : Commit(r)
    <3>1. PICK r \in Runs : Commit(r)
      BY <2>1
    <3>2. pc' = [pc EXCEPT ![r] = "done"] /\ UNCHANGED pages
      BY <3>1 DEF Commit
    <3> QED
      BY <3>2 DEF Published, IInv, TypeOK
  <2> QED
    BY <2>1, CommitOrNot
<1> QED
  BY <1>1 DEF Listed, Parsed, PageLists

\* Forecasts made from one whole batch stay so.
LEMMA ForecastsKept ==
    ASSUME IInv, [Next]_vars, ForecastsUseOneWholeBatch, UNCHANGED forecasts
    PROVE  ForecastsUseOneWholeBatch'
BY BatchKept DEF ForecastsUseOneWholeBatch

-----------------------------------------------------------------------------
(* The jobs.                                                                   *)

LEMMA JobIds ==
    /\ \A l \in Lists : Diff(l) \in Jobs /\ Forecast(l) \in Jobs /\ Notify(l) \in Jobs
    /\ \A l, m \in Lists : /\ Forecast(l) # Diff(m) /\ Forecast(l) # Notify(m)
                           /\ Forecast(l) = Forecast(m) => l = m
    /\ \A l \in Lists : Forecast(l)[1] = "forecast" /\ Forecast(l)[2] = l
BY DEF Jobs, Diff, Forecast, Notify

\* A step that takes a forecast job out of its transaction, or leaves it and its
\* view alone, keeps the view true.
LEMMA ViewKept ==
    ASSUME IInv, [Next]_vars, NEW l \in Lists, ViewTrue(l),
           \/ job'[Forecast(l)] \notin Reading
           \/ job'[Forecast(l)] = job[Forecast(l)] /\ view'[l] = view[l]
    PROVE  ViewTrue(l)'
<1>1. CASE job'[Forecast(l)] \notin Reading
  BY <1>1 DEF ViewTrue, Reading
<1>2. CASE job'[Forecast(l)] = job[Forecast(l)] /\ view'[l] = view[l]
  <2>1. CASE job[Forecast(l)] \notin Reading
    BY <1>2, <2>1 DEF ViewTrue, Reading
  <2>2. CASE job[Forecast(l)] \in Reading
    <3>1. OfBatch(l, view[l].batch)
      BY <2>2 DEF ViewTrue
    <3>2. /\ view'[l].batch.id \in Published'
          /\ l \in PageLists(view[l].batch.id)'
          /\ view'[l].batch.expected = Cardinality(Listed(view[l].batch.id)')
          /\ WholeBatch(view[l].basis, view[l].batch.id) =>
                /\ Parsed(view[l].batch.id)' = Listed(view[l].batch.id)'
                /\ view[l].basis = PageLists(view[l].batch.id)'
      BY <1>2, <3>1, BatchKept DEF OfBatch, WholeBatch
    <3>3. OfBatch(l, view[l].batch)'
      BY <1>2, <3>2 DEF OfBatch
    <3>4. WholeBatch(view[l].basis, view[l].batch.id) =>
             WholeBatch(view[l].basis, view[l].batch.id)'
      BY <1>2, <3>2 DEF WholeBatch
    <3> QED
      BY <1>2, <3>3, <3>4 DEF ViewTrue
  <2> QED
    BY <2>1, <2>2
<1> QED
  BY <1>1, <1>2

\* An enqueue makes an absent job a queued one, or does nothing.
LEMMA EnqueuedJobs ==
    ASSUME Shapes, NEW j
    PROVE  /\ Enqueued(j) \in [Jobs -> {"absent", "queued"} \cup Running]
           /\ \A k \in Jobs : Enqueued(j)[k] = job[k] \/ Enqueued(j)[k] = "queued"
BY DEF Enqueued, Shapes

\* A forecast job's step from one of its statements to the next.
LEMMA GoesOn ==
    ASSUME Shapes, NEW l \in Lists, NEW s \in Running,
           NEW v \in [batch : Stamps \cup {NoBatch}, groups : SUBSET Groups, basis : SUBSET Lists],
           Goes(l, s, v)
    PROVE  /\ Shapes'
           /\ job'[Forecast(l)] = s /\ view'[l] = v
           /\ \A m \in Lists \ {l} : job'[Forecast(m)] = job[Forecast(m)] /\ view'[m] = view[m]
           /\ UNCHANGED ingestVars
<1>1. Forecast(l) \in Jobs /\ \A m \in Lists \ {l} : Forecast(m) \in Jobs /\ Forecast(m) # Forecast(l)
  BY JobIds
<1>2. /\ job' = [job EXCEPT ![Forecast(l)] = s] /\ view' = [view EXCEPT ![l] = v]
      /\ UNCHANGED ingestVars
  BY DEF Goes
<1> QED
  BY <1>1, <1>2 DEF Shapes

LEMMA NoViewShape ==
    NoView \in [batch : Stamps \cup {NoBatch}, groups : SUBSET Groups, basis : SUBSET Lists]
BY DEF NoView

-----------------------------------------------------------------------------
(* The steps of the pipeline keep what is true, one lemma each for the steps   *)
(* of a forecast job and one for all others.                                   *)

\* The step stores nothing, and no forecast job goes on to another statement.
NoneGoesOn ==
    /\ UNCHANGED forecasts
    /\ Shapes'
    /\ \A l \in Lists : \/ job'[Forecast(l)] \notin Reading
                        \/ job'[Forecast(l)] = job[Forecast(l)] /\ view'[l] = view[l]

LEMMA NoneGoesOnKeeps ==
    ASSUME IInv, PInv, [Next]_vars, NoneGoesOn
    PROVE  PInv'
BY ViewKept, ForecastsKept DEF PInv, NoneGoesOn

\* Jobs move outside their transactions, and the views stay.
LEMMA JobsMove ==
    ASSUME Shapes, UNCHANGED <<view, forecasts>>,
           job' \in [Jobs -> {"absent", "queued"} \cup Running],
           \A k \in Jobs : job'[k] = job[k] \/ job'[k] \notin Reading
    PROVE  NoneGoesOn
BY JobIds DEF NoneGoesOn, Shapes

LEMMA QueueSteps ==
    ASSUME Shapes,
           \/ \E r \in Runs : Refresh(r) \/ EnqueueDiff(r) \/ EnqueueFails(r)
           \/ \E j \in Jobs : Start(j) \/ Finish(j)
           \/ \E l \in Lists : DiffJob(l) \/ NotifyJob(l) \/ QueueNotify(l)
           \/ UNCHANGED allVars
    PROVE  NoneGoesOn
<1> USE DEF Running, Reading
<1>1. CASE UNCHANGED <<job, view, forecasts>>
  BY <1>1 DEF NoneGoesOn, Shapes
<1>2. CASE \E r \in Runs : Refresh(r) \/ EnqueueFails(r)
  BY <1>1, <1>2 DEF Refresh, EnqueueFails
<1>3. ASSUME NEW r \in Runs, EnqueueDiff(r)
      PROVE  NoneGoesOn
  <2>1. PICK l : job' = Enqueued(Diff(l)) /\ UNCHANGED <<view, forecasts>>
    BY <1>3 DEF EnqueueDiff
  <2> QED
    BY <2>1, EnqueuedJobs, JobsMove
<1>4. ASSUME NEW j \in Jobs, Start(j) \/ Finish(j)
      PROVE  NoneGoesOn
  <2>1. PICK s \in {"started", "absent"} :
           job' = [job EXCEPT ![j] = s] /\ UNCHANGED <<view, forecasts>>
    BY <1>4 DEF Start, Finish
  <2>2. /\ job' \in [Jobs -> {"absent", "queued"} \cup Running]
        /\ \A k \in Jobs : job'[k] = job[k] \/ job'[k] \notin Reading
    BY <2>1 DEF Shapes
  <2> QED
    BY <2>1, <2>2, JobsMove
<1>5. ASSUME NEW l \in Lists, DiffJob(l) \/ NotifyJob(l) \/ QueueNotify(l)
      PROVE  NoneGoesOn
  <2>1. PICK before \in {job, Enqueued(Forecast(l)), Enqueued(Notify(l))}, j \in Jobs :
           job' = [before EXCEPT ![j] = "ended"] /\ UNCHANGED <<view, forecasts>>
    BY <1>5, JobIds DEF DiffJob, NotifyJob, QueueNotify
  <2>2. /\ before \in [Jobs -> {"absent", "queued"} \cup Running]
        /\ \A k \in Jobs : before[k] = job[k] \/ before[k] = "queued"
    BY <2>1, EnqueuedJobs DEF Shapes
  <2>3. /\ job' \in [Jobs -> {"absent", "queued"} \cup Running]
        /\ \A k \in Jobs : job'[k] = job[k] \/ job'[k] \notin Reading
    BY <2>1, <2>2
  <2> QED
    BY <2>1, <2>3, JobsMove
<1>6. CASE UNCHANGED allVars
  BY <1>1, <1>6 DEF allVars, queueVars
<1> QED
  BY <1>2, <1>3, <1>4, <1>5, <1>6

\* An interruption or a failure of a forecast job rolls its transaction back.
LEMMA RolledBack ==
    ASSUME Shapes, NEW j \in Jobs, Interrupt(j) \/ Fail(j)
    PROVE  NoneGoesOn
<1>1. PICK s \in {"queued", "absent"} :
         /\ job' = [job EXCEPT ![j] = s]
         /\ view' = IF j[1] = "forecast" THEN [view EXCEPT ![j[2]] = NoView] ELSE view
         /\ UNCHANGED forecasts
  BY DEF Interrupt, Fail
<1>2. Shapes'
  BY <1>1, NoViewShape DEF Shapes
<1>3. ASSUME NEW l \in Lists
      PROVE  \/ job'[Forecast(l)] \notin Reading
             \/ job'[Forecast(l)] = job[Forecast(l)] /\ view'[l] = view[l]
  <2>1. CASE j = Forecast(l)
    BY <1>1, <2>1 DEF Shapes, Reading
  <2>2. CASE j # Forecast(l)
    <3>1. job'[Forecast(l)] = job[Forecast(l)]
      BY <1>1, <2>2, JobIds DEF Shapes
    <3>2. j[1] = "forecast" => j[2] # l
      BY <2>2 DEF Jobs, Diff, Forecast, Notify
    <3> QED
      BY <1>1, <3>1, <3>2 DEF Shapes
  <2> QED
    BY <2>1, <2>2
<1> QED
  BY <1>1, <1>2, <1>3 DEF NoneGoesOn

-----------------------------------------------------------------------------
(* The statements of a forecast job.                                           *)

\* A job that goes on with a view that is true of its batch keeps all truths.
LEMMA GoesOnKeeps ==
    ASSUME IInv, PInv, NEW l \in Lists, NEW s \in Running, NEW v,
           v \in [batch : Stamps \cup {NoBatch}, groups : SUBSET Groups, basis : SUBSET Lists],
           Goes(l, s, v), ForecastsUseOneWholeBatch',
           s \in Reading => OfBatch(l, v.batch),
           s = "collecting" => Cardinality(v.groups) = v.batch.expected,
           s = "storing" => WholeBatch(v.basis, v.batch.id)
    PROVE  PInv'
<1>1. Shapes
  BY DEF PInv
<1>2. /\ Shapes' /\ UNCHANGED ingestVars
      /\ job'[Forecast(l)] = s /\ view'[l] = v
      /\ \A m \in Lists \ {l} : job'[Forecast(m)] = job[Forecast(m)] /\ view'[m] = view[m]
  BY <1>1, GoesOn
<1>3. [Next]_vars /\ UNCHANGED vars
  BY <1>2 DEF ingestVars, vars
<1>4. ASSUME NEW m \in Lists \ {l} PROVE ViewTrue(m)'
  BY <1>2, <1>3, ViewKept DEF PInv
<1>5. ViewTrue(l)'
  <2>1. s \in Reading => OfBatch(l, v.batch)'
    BY <1>3 DEF OfBatch, Published, PageLists, Listed, Parsed, vars
  <2>2. s = "storing" => WholeBatch(v.basis, v.batch.id)'
    BY <1>3 DEF WholeBatch, PageLists, Listed, Parsed, vars
  <2> QED
    BY <1>2, <2>1, <2>2 DEF ViewTrue
<1> QED
  BY <1>2, <1>4, <1>5 DEF PInv

\* session.get: a stamped snapshot belongs to the published batch it names.
LEMMA LoadSnapshotKeeps ==
    ASSUME IInv, PInv, NEW l \in Lists, LoadSnapshot(l)
    PROVE  PInv'
<1>1. ForecastsUseOneWholeBatch'
  <2>1. [Next]_vars /\ UNCHANGED forecasts
    BY DEF LoadSnapshot, Goes, ingestVars, vars
  <2> QED
    BY <2>1, ForecastsKept DEF PInv
<1>2. CASE l \in rows /\ stamp[l] # NoBatch
  <2> DEFINE v == [NoView EXCEPT !.batch = stamp[l]]
  <2>1. Goes(l, "counting", v)
    BY <1>2 DEF LoadSnapshot
  <2>2. stamp[l] \in Stamps
    BY <1>2 DEF IInv, TypeOK
  <2>3. stamp[l].id \in Runs
    BY <2>2 DEF Stamps
  <2>4. OfBatch(l, stamp[l])
    BY <1>2, <2>3 DEF IInv, StampsHonest, OfBatch, Published
  <2>5. v = [batch |-> stamp[l], groups |-> {}, basis |-> {}]
    BY DEF NoView
  <2> HIDE DEF v
  <2>6. v.batch = stamp[l]
        /\ v \in [batch : Stamps \cup {NoBatch}, groups : SUBSET Groups, basis : SUBSET Lists]
    BY <2>2, <2>5
  <2> QED
    BY <1>1, <2>1, <2>4, <2>6, GoesOnKeeps DEF Running
<1>3. CASE ~(l \in rows /\ stamp[l] # NoBatch)
  <2>1. Goes(l, "queueing", NoView)
    BY <1>3 DEF LoadSnapshot
  <2> QED
    BY <1>1, <2>1, GoesOnKeeps, NoViewShape DEF Running, Reading
<1> QED
  BY <1>2, <1>3

LEMMA CountGroupsKeeps ==
    ASSUME IInv, PInv, NEW l \in Lists, CountGroups(l)
    PROVE  PInv'
<1>1. ForecastsUseOneWholeBatch'
  <2>1. [Next]_vars /\ UNCHANGED forecasts
    BY DEF CountGroups, Goes, ingestVars, vars
  <2> QED
    BY <2>1, ForecastsKept DEF PInv
<1>2. CASE view[l].batch.expected = Cardinality(RegisteredGroups)
  <2> DEFINE v == [view[l] EXCEPT !.groups = RegisteredGroups]
  <2>1. Goes(l, "collecting", v)
    BY <1>2 DEF CountGroups
  <2>2. OfBatch(l, view[l].batch)
    BY DEF PInv, ViewTrue, CountGroups, Reading
  <2>3. view[l] \in [batch : Stamps \cup {NoBatch}, groups : SUBSET Groups, basis : SUBSET Lists]
    BY DEF PInv, Shapes
  <2>4. /\ v \in [batch : Stamps \cup {NoBatch}, groups : SUBSET Groups, basis : SUBSET Lists]
        /\ v.batch = view[l].batch /\ v.groups = RegisteredGroups
    BY <2>3 DEF RegisteredGroups
  <2> HIDE DEF v
  <2> QED
    BY <1>1, <1>2, <2>1, <2>2, <2>4, GoesOnKeeps DEF Running
<1>3. CASE view[l].batch.expected # Cardinality(RegisteredGroups)
  <2>1. Goes(l, "queueing", NoView)
    BY <1>3 DEF CountGroups
  <2> QED
    BY <1>1, <2>1, GoesOnKeeps, NoViewShape DEF Running, Reading
<1> QED
  BY <1>2, <1>3

\* The counting argument: as many groups with a page of the batch as there are
\* groups, and as the batch listed, are all of its groups.
LEMMA CountedIsWhole ==
    ASSUME IInv, NEW l \in Lists, NEW batch, OfBatch(l, batch),
           NEW gs \in SUBSET Groups, Cardinality(gs) = batch.expected,
           NEW basis \in SUBSET Lists,
           \A m \in basis : m[2] \in gs /\ (m = l \/ InBatch(m, batch.id)),
           Cardinality({m[2] : m \in basis}) = Cardinality(gs)
    PROVE  WholeBatch(basis, batch.id)
<1> DEFINE b == batch.id
           covered == {m[2] : m \in basis}
<1>1. b \in Runs /\ l \in PageLists(b) /\ batch.expected = Cardinality(Listed(b))
  BY DEF OfBatch, Published
<1>2. basis \subseteq PageLists(b)
  BY <1>1 DEF IInv, StampsHonest, InBatch
<1>3. \A m \in PageLists(b) : m[2] \in Parsed(b) /\ m = List(m[2], pages[b][m[2]])
  BY DEF PageLists, List
<1>4. covered \subseteq Parsed(b) /\ covered \subseteq gs
  BY <1>2, <1>3
<1>5. Parsed(b) \subseteq Listed(b) /\ Listed(b) \subseteq Groups
  BY PagesAssumption DEF Parsed, Listed
<1>6. IsFiniteSet(gs) /\ IsFiniteSet(Listed(b))
  BY <1>5, GroupsAssumption, FS_Subset
<1>7. covered = gs
  BY <1>4, <1>6, FS_Subset
<1>8. covered = Listed(b)
  <2>1. covered \subseteq Listed(b) /\ Cardinality(covered) = Cardinality(Listed(b))
    BY <1>1, <1>4, <1>5
  <2> QED
    BY <1>6, <2>1, FS_Subset
<1>9. Parsed(b) = Listed(b)
  BY <1>4, <1>5, <1>8
<1>10. PageLists(b) \subseteq basis
  <2> SUFFICES ASSUME NEW m \in PageLists(b) PROVE m \in basis
    OBVIOUS
  <2>1. m[2] \in covered
    BY <1>3, <1>5, <1>8, <1>9
  <2>2. PICK n \in basis : n[2] = m[2]
    BY <2>1
  <2>3. n = m
    BY <1>2, <1>3, <2>2
  <2> QED
    BY <2>3
<1> QED
  BY <1>2, <1>9, <1>10 DEF WholeBatch

LEMMA CollectBatchKeeps ==
    ASSUME IInv, PInv, NEW l \in Lists, CollectBatch(l)
    PROVE  PInv'
<1> DEFINE batch == view[l].batch
           basis == {m \in rows \cap Lists : /\ m[2] \in view[l].groups
                                             /\ m = l \/ InBatch(m, batch.id)}
           counted == /\ view[l].groups # {}
                      /\ Cardinality({m[2] : m \in basis}) = Cardinality(view[l].groups)
<1>1. ForecastsUseOneWholeBatch'
  <2>1. [Next]_vars /\ UNCHANGED forecasts
    BY DEF CollectBatch, Goes, ingestVars, vars
  <2> QED
    BY <2>1, ForecastsKept DEF PInv
<1>2. IF counted THEN Goes(l, "storing", [view[l] EXCEPT !.basis = basis])
                 ELSE Goes(l, "queueing", NoView)
  BY DEF CollectBatch
<1>3. basis \in SUBSET Lists /\ \A m \in basis : m[2] \in view[l].groups /\ (m = l \/ InBatch(m, batch.id))
  OBVIOUS
<1>4. CASE counted
  <2> DEFINE v == [view[l] EXCEPT !.basis = basis]
  <2>1. Goes(l, "storing", v)
    BY <1>2, <1>4
  <2>2. OfBatch(l, batch) /\ Cardinality(view[l].groups) = batch.expected
    BY DEF PInv, ViewTrue, CollectBatch, Reading
  <2>3. view[l] \in [batch : Stamps \cup {NoBatch}, groups : SUBSET Groups, basis : SUBSET Lists]
    BY DEF PInv, Shapes
  <2> HIDE DEF basis
  <2>4. WholeBatch(basis, batch.id)
    BY <1>3, <1>4, <2>2, <2>3, CountedIsWhole
  <2>5. /\ v \in [batch : Stamps \cup {NoBatch}, groups : SUBSET Groups, basis : SUBSET Lists]
        /\ v.batch = batch /\ v.basis = basis
    BY <1>3, <2>3
  <2> HIDE DEF v
  <2> QED
    BY <1>1, <2>1, <2>2, <2>4, <2>5, GoesOnKeeps DEF Running
<1>5. CASE ~counted
  <2>1. Goes(l, "queueing", NoView)
    BY <1>2, <1>5
  <2> QED
    BY <1>1, <2>1, GoesOnKeeps, NoViewShape DEF Running, Reading
<1> QED
  BY <1>4, <1>5

LEMMA StoreForecastsKeeps ==
    ASSUME IInv, PInv, NEW l \in Lists, StoreForecasts(l)
    PROVE  PInv'
<1> DEFINE b == view[l].batch.id
<1>1. OfBatch(l, view[l].batch) /\ WholeBatch(view[l].basis, b)
  BY DEF PInv, ViewTrue, StoreForecasts, Reading
<1>2. Goes(l, "queueing", NoView)
  BY DEF StoreForecasts
<1>3. \A f \in forecasts' :
         f \in forecasts \/ (f.batch = b /\ f.basis = view[l].basis /\ f.list = l)
  BY DEF StoreForecasts
<1>4. \A f \in forecasts' :
         /\ f.batch \in Published /\ Parsed(f.batch) = Listed(f.batch)
         /\ f.basis = PageLists(f.batch) /\ f.list \in f.basis
  BY <1>1, <1>3 DEF PInv, ForecastsUseOneWholeBatch, OfBatch, WholeBatch
<1>5. [Next]_vars
  BY <1>2 DEF Goes, ingestVars, vars
<1>6. ForecastsUseOneWholeBatch'
  BY <1>4, <1>5, BatchKept DEF ForecastsUseOneWholeBatch
<1> QED
  BY <1>2, <1>6, GoesOnKeeps, NoViewShape DEF Running, Reading

-----------------------------------------------------------------------------
\* Before anything is queued there is nothing to be true.
LEMMA InitPInv == PipelineInit => PInv
<1> SUFFICES ASSUME PipelineInit PROVE PInv
  OBVIOUS
<1>1. Shapes
  BY NoViewShape DEF PipelineInit, Shapes
<1>2. \A l \in Lists : job[Forecast(l)] = "absent"
  BY JobIds DEF PipelineInit
<1> QED
  BY <1>1, <1>2 DEF PInv, ViewTrue, ForecastsUseOneWholeBatch, PipelineInit, Reading

LEMMA NextPInv == IInv /\ PInv /\ [PipelineNext]_allVars => PInv'
<1> SUFFICES ASSUME IInv, PInv, [PipelineNext]_allVars PROVE PInv'
  OBVIOUS
<1>1. [Next]_vars
  BY PipelineStep
<1>2. Shapes
  BY DEF PInv
<1>3. CASE \E r \in Runs : Refresh(r) \/ EnqueueDiff(r) \/ EnqueueFails(r)
  BY <1>1, <1>2, <1>3, QueueSteps, NoneGoesOnKeeps
<1>4. ASSUME NEW j \in Jobs, Start(j) \/ Finish(j) \/ Interrupt(j) \/ Fail(j)
      PROVE  PInv'
  BY <1>1, <1>2, <1>4, QueueSteps, RolledBack, NoneGoesOnKeeps
<1>5. ASSUME NEW l \in Lists, JobStep(l)
      PROVE  PInv'
  <2>1. CASE DiffJob(l) \/ NotifyJob(l) \/ QueueNotify(l)
    BY <1>1, <1>2, <2>1, QueueSteps, NoneGoesOnKeeps
  <2> QED
    BY <1>5, <2>1, LoadSnapshotKeeps, CountGroupsKeeps, CollectBatchKeeps,
       StoreForecastsKeeps DEF JobStep
<1>6. CASE UNCHANGED allVars
  BY <1>1, <1>2, <1>6, QueueSteps, NoneGoesOnKeeps
<1> QED
  BY <1>3, <1>4, <1>5, <1>6 DEF PipelineNext

\* What forecast jobs have read and stored is true of one whole batch, whatever
\* refreshes commit, jobs overlap, fail or run again.
THEOREM PipelineInvariance == PipelineSpec => [](IInv /\ PInv)
<1>1. PipelineInit => IInv /\ PInv
  BY InitIInv, InitPInv DEF PipelineInit
<1>2. IInv /\ PInv /\ [PipelineNext]_allVars => (IInv /\ PInv)'
  BY PipelineStep, NextIInv, NextPInv
<1> QED
  BY <1>1, <1>2, PTL DEF PipelineSpec

\* Every forecast that recompute_probabilistic_forecasts stores is computed from
\* the pages of every group that one committed batch listed and from nothing
\* else, although it reads them in several statements (README.md:55).
THEOREM OneWholeBatch == PipelineSpec => []ForecastsUseOneWholeBatch
BY PipelineInvariance, PTL DEF PInv

-----------------------------------------------------------------------------
\* A target has one forecast per snapshot, however often jobs run again:
\* persist_forecast looks for the row first, in the statement's own transaction.
THEOREM Idempotence == PipelineSpec => []OneForecastPerIdentity
<1>1. PipelineInit => OneForecastPerIdentity
  BY DEF PipelineInit, OneForecastPerIdentity
<1>2. OneForecastPerIdentity /\ [PipelineNext]_allVars => OneForecastPerIdentity'
  <2> SUFFICES ASSUME OneForecastPerIdentity, [PipelineNext]_allVars
               PROVE  OneForecastPerIdentity'
    OBVIOUS
  <2>1. CASE UNCHANGED forecasts
    BY <2>1 DEF OneForecastPerIdentity
  <2>2. ASSUME NEW l \in Lists, StoreForecasts(l)
        PROVE  OneForecastPerIdentity'
    <3> DEFINE Row(t) == [target |-> t, list |-> l, batch |-> view[l].batch.id,
                          basis |-> view[l].basis, attempt |-> tries[Forecast(l)]]
    <3>1. \A f \in forecasts' :
             f \in forecasts \/ (f = Row(f.target)
                                /\ \A g \in forecasts : g.target # f.target \/ g.list # l)
      BY <2>2 DEF StoreForecasts
    <3>2. \A t : Row(t).list = l
      OBVIOUS
    <3> HIDE DEF Row
    <3> QED
      BY <3>1, <3>2 DEF OneForecastPerIdentity
  <2>3. ASSUME ~ \E l \in Lists : StoreForecasts(l)
        PROVE  UNCHANGED forecasts
    <3>1. CASE UNCHANGED allVars
      BY <3>1 DEF allVars
    <3>2. CASE \E r \in Runs : Refresh(r) \/ EnqueueDiff(r) \/ EnqueueFails(r)
      BY <3>2 DEF Refresh, EnqueueDiff, EnqueueFails
    <3>3. CASE \E j \in Jobs : Start(j) \/ Finish(j) \/ Interrupt(j) \/ Fail(j)
      BY <3>3 DEF Start, Finish, Interrupt, Fail
    <3>4. CASE \E l \in Lists : JobStep(l)
      BY <2>3, <3>4 DEF JobStep, DiffJob, NotifyJob, LoadSnapshot, CountGroups,
                        CollectBatch, QueueNotify
    <3> QED
      BY <3>1, <3>2, <3>3, <3>4 DEF PipelineNext
  <2> QED
    BY <2>1, <2>2, <2>3
<1> QED
  BY <1>1, <1>2, PTL DEF PipelineSpec
-----------------------------------------------------------------------------
(* The pipeline's own variables.  What makes PipelineTypeOK inductive is that  *)
(* a running job has been started at least once.                               *)

HistoryOrdered ==
    /\ history \subseteq Stored \X Stored
    /\ \A l, m \in Stored : l[2] = m[2] /\ l # m =>
          (<<l, m>> \in history <=> <<m, l>> \notin history)

QueueType ==
    /\ outcomes \in [Runs -> SUBSET Lists]
    /\ job \in [Jobs -> {"absent", "queued"} \cup Running]
    /\ tries \in [Jobs -> 0..MaxTries]
    /\ \A j \in Jobs : job[j] \in Running => tries[j] # 0
    /\ dropped \subseteq Lists \cup Jobs
    /\ faults \in 0..MaxFaults

\* A view is held by a job between its statements.
ViewHeld(l) == view[l] # NoView => job[Forecast(l)] \in Reading

RowType(f) ==
    /\ f.target \in Targets /\ f.list \in Lists /\ f.batch \in Runs
    /\ f.basis \subseteq Lists /\ f.attempt \in 1..MaxTries

TInv ==
    /\ HistoryOrdered /\ QueueType
    /\ \A l \in Lists : ViewHeld(l)
    /\ \A f \in forecasts : RowType(f)

\* A refresh adds at most one snapshot at a time.
LEMMA OneRowAtATime ==
    ASSUME IInv, NEW r \in Runs, Step(r) \/ Crash(r)
    PROVE  \E k : Stored' \subseteq Stored \cup {k}
<1>0. inserted \in [Runs -> SUBSET Rows]
  BY DEF IInv, TypeOK
<1>1. ASSUME UNCHANGED <<rows, inserted>> PROVE Stored' = Stored
  BY <1>1 DEF Stored
<1>2. CASE FetchBatch(r) \/ FetchFails(r) \/ Lookup(r) \/ Restamp(r)
  BY <1>1, <1>2 DEF FetchBatch, FetchFails, Lookup, Restamp
<1>3. CASE Insert(r)
  <2>1. PICK g : inserted' = [inserted EXCEPT ![r] = @ \cup {Key(r, g)}] /\ UNCHANGED rows
    BY <1>3 DEF Insert
  <2>2. \A q \in Runs : inserted'[q] \subseteq inserted[q] \cup {Key(r, g)}
    BY <1>0, <2>1
  <2>3. Stored' \subseteq Stored \cup {Key(r, g)}
    BY <2>1, <2>2 DEF Stored
  <2> QED
    BY <2>3
<1>4. CASE InsertConflict(r) \/ RestampRefused(r) \/ Crash(r)
  <2>1. UNCHANGED rows /\ inserted' = [inserted EXCEPT ![r] = {}]
    BY <1>4 DEF InsertConflict, RestampRefused, Crash, Rollback
  <2>2. \A q \in Runs : inserted'[q] \subseteq inserted[q]
    BY <1>0, <2>1
  <2> QED
    BY <2>1, <2>2 DEF Stored
<1>5. CASE Commit(r)
  <2>1. rows' = rows \cup inserted[r] /\ inserted' = [inserted EXCEPT ![r] = {}]
    BY <1>5 DEF Commit
  <2>2. \A q \in Runs : inserted'[q] \subseteq inserted[q]
    BY <1>0, <2>1
  <2> QED
    BY <2>1, <2>2 DEF Stored
<1> QED
  BY <1>2, <1>3, <1>4, <1>5 DEF Step

\* A new snapshot comes after those of its group that are there; one that is
\* rolled back leaves the others as they are.
LEMMA RecordHistoryOrdered ==
    ASSUME HistoryOrdered, RecordHistory, NEW k, Stored' \subseteq Stored \cup {k}
    PROVE  HistoryOrdered'
<1> DEFINE kept == {p \in history : p[1] \in Stored' /\ p[2] \in Stored'}
           new == {p \in (Stored \cap Stored') \X (Stored' \ Stored) : p[1][2] = p[2][2]}
<1>1. history' = kept \cup new
  BY DEF RecordHistory
<1>2. history \subseteq Stored \X Stored
  BY DEF HistoryOrdered
<1>3. history' \subseteq Stored' \X Stored'
  BY <1>1, <1>2
<1>4. ASSUME NEW l \in Stored', NEW m \in Stored', l[2] = m[2], l # m
      PROVE  <<l, m>> \in history' <=> <<m, l>> \notin history'
  <2>1. CASE l \in Stored /\ m \in Stored
    <3>1. /\ <<l, m>> \in history' <=> <<l, m>> \in history
          /\ <<m, l>> \in history' <=> <<m, l>> \in history
      BY <1>1, <2>1
    <3> QED
      BY <1>4, <2>1, <3>1 DEF HistoryOrdered
  <2>2. CASE l \in Stored /\ m \notin Stored
    <3>1. <<l, m>> \in new /\ <<m, l>> \notin new /\ <<m, l>> \notin history
      BY <1>2, <1>4, <2>2
    <3> QED
      BY <1>1, <3>1
  <2>3. CASE l \notin Stored /\ m \in Stored
    <3>1. <<m, l>> \in new /\ <<l, m>> \notin new /\ <<l, m>> \notin history
      BY <1>2, <1>4, <2>3
    <3> QED
      BY <1>1, <3>1
  <2>4. CASE l \notin Stored /\ m \notin Stored
    BY <1>4, <2>4
  <2> QED
    BY <2>1, <2>2, <2>3, <2>4
<1> QED
  BY <1>3, <1>4 DEF HistoryOrdered

LEMMA HistoryStays ==
    ASSUME HistoryOrdered, UNCHANGED <<ingestVars, history>>
    PROVE  HistoryOrdered'
BY DEF HistoryOrdered, Stored, ingestVars

LEMMA PageListsType ==
    ASSUME IInv, NEW r \in Runs
    PROVE  PageLists(r) \subseteq Lists
BY DEF IInv, TypeOK, PageLists, Parsed, Lists

LEMMA RefreshTInv ==
    ASSUME IInv, Shapes, TInv, NEW r \in Runs, Refresh(r)
    PROVE  TInv'
<1>1. HistoryOrdered'
  BY OneRowAtATime, RecordHistoryOrdered DEF Refresh, TInv
<1>2. UNCHANGED <<job, tries, dropped, view, forecasts>>
  BY DEF Refresh
<1>3. outcomes' \in [Runs -> SUBSET Lists]
  BY PageListsType DEF Refresh, TInv, QueueType
<1>4. faults' \in 0..MaxFaults
  BY PipelineAssumption DEF Refresh, Fault, TInv, QueueType
<1> QED
  BY <1>1, <1>2, <1>3, <1>4 DEF TInv, QueueType, ViewHeld, RowType

\* A new job is queued, and queued and absent jobs hold no view.
LEMMA EnqueuedKeeps ==
    ASSUME QueueType, \A l \in Lists : ViewHeld(l), NEW j \in Jobs
    PROVE  /\ Enqueued(j) \in [Jobs -> {"absent", "queued"} \cup Running]
           /\ \A k \in Jobs : Enqueued(j)[k] = job[k] \/ Enqueued(j)[k] = "queued"
           /\ \A k \in Jobs : job[k] \in Reading => Enqueued(j)[k] = job[k]
BY DEF Enqueued, QueueType, Reading

\* Jobs change, and those that hold a view stay as they are.
LEMMA QueueChanges ==
    ASSUME TInv, UNCHANGED <<ingestVars, history, view, forecasts>>,
           \A k \in Jobs : job[k] \in Reading => job'[k] = job[k],
           QueueType'
    PROVE  TInv'
<1>1. \A l \in Lists : ViewHeld(l)'
  BY JobIds DEF TInv, ViewHeld
<1> QED
  BY <1>1, HistoryStays DEF TInv, RowType

LEMMA QueueTInv ==
    ASSUME IInv, Shapes, TInv,
           \/ \E r \in Runs : EnqueueDiff(r) \/ EnqueueFails(r)
           \/ \E j \in Jobs : Start(j) \/ Finish(j)
           \/ \E l \in Lists : DiffJob(l) \/ NotifyJob(l) \/ QueueNotify(l)
    PROVE  TInv'
<1> USE DEF Running, Reading
<1>0. QueueType /\ \A l \in Lists : ViewHeld(l)
  BY DEF TInv
<1>1. ASSUME NEW r \in Runs, EnqueueDiff(r)
      PROVE  TInv'
  <2>1. PICK l \in outcomes[r] :
           /\ outcomes' = [outcomes EXCEPT ![r] = @ \ {l}]
           /\ job' = Enqueued(Diff(l))
           /\ UNCHANGED <<ingestVars, history, tries, dropped, view, forecasts, faults>>
    BY <1>1 DEF EnqueueDiff
  <2>2. l \in Lists /\ Diff(l) \in Jobs
    BY <1>0, JobIds DEF QueueType
  <2>3. QueueType'
    BY <1>0, <2>1, <2>2, EnqueuedKeeps DEF QueueType
  <2> QED
    BY <1>0, <2>1, <2>2, <2>3, EnqueuedKeeps, QueueChanges
<1>2. ASSUME NEW r \in Runs, EnqueueFails(r)
      PROVE  TInv'
  <2>1. QueueType'
    BY <1>0, <1>2, PipelineAssumption DEF EnqueueFails, Fault, QueueType
  <2> QED
    BY <1>2, <2>1, QueueChanges DEF EnqueueFails
<1>3. ASSUME NEW j \in Jobs, Start(j)
      PROVE  TInv'
  <2>1. QueueType'
    BY <1>0, <1>3, PipelineAssumption DEF Start, QueueType
  <2>2. \A k \in Jobs : job[k] \in Reading => job'[k] = job[k]
    BY <1>0, <1>3 DEF Start, QueueType
  <2> QED
    BY <1>3, <2>1, <2>2, QueueChanges DEF Start
<1>4. ASSUME NEW j \in Jobs, Finish(j)
      PROVE  TInv'
  <2>1. QueueType'
    BY <1>0, <1>4, PipelineAssumption DEF Finish, QueueType
  <2>2. \A k \in Jobs : job[k] \in Reading => job'[k] = job[k]
    BY <1>0, <1>4 DEF Finish, QueueType
  <2> QED
    BY <1>4, <2>1, <2>2, QueueChanges DEF Finish
<1>5. ASSUME NEW l \in Lists, DiffJob(l) \/ NotifyJob(l) \/ QueueNotify(l)
      PROVE  TInv'
  <2>1. PICK before \in {job, Enqueued(Forecast(l)), Enqueued(Notify(l))}, j \in Jobs :
           /\ job[j] \in {"started", "queueing"}
           /\ job' = [before EXCEPT ![j] = "ended"]
           /\ UNCHANGED <<ingestVars, history, outcomes, tries, dropped, view, forecasts, faults>>
    BY <1>5, JobIds DEF DiffJob, NotifyJob, QueueNotify
  <2>2. /\ before \in [Jobs -> {"absent", "queued"} \cup Running]
        /\ \A k \in Jobs : before[k] = job[k] \/ before[k] = "queued"
        /\ \A k \in Jobs : job[k] \in Reading => before[k] = job[k]
    BY <1>0, <2>1, EnqueuedKeeps, JobIds DEF QueueType
  <2>3. QueueType'
    BY <1>0, <2>1, <2>2 DEF QueueType
  <2>4. \A k \in Jobs : job[k] \in Reading => job'[k] = job[k]
    BY <2>1, <2>2
  <2> QED
    BY <2>1, <2>3, <2>4, QueueChanges
<1> QED
  BY <1>1, <1>2, <1>3, <1>4, <1>5

LEMMA RolledBackTInv ==
    ASSUME IInv, Shapes, TInv, NEW j \in Jobs, Interrupt(j) \/ Fail(j)
    PROVE  TInv'
<1>0. QueueType
  BY DEF TInv
<1>1. PICK s \in {"queued", "absent"} :
         /\ job' = [job EXCEPT ![j] = s]
         /\ view' = IF j[1] = "forecast" THEN [view EXCEPT ![j[2]] = NoView] ELSE view
         /\ UNCHANGED <<ingestVars, history, outcomes, forecasts>>
  BY DEF Interrupt, Fail
<1>2. QueueType'
  <2>1. CASE Interrupt(j)
    BY <1>0, <2>1, PipelineAssumption DEF Interrupt, Fault, QueueType, Running
  <2>2. CASE Fail(j)
    BY <1>0, <2>2, PipelineAssumption DEF Fail, Fault, QueueType, Running
  <2> QED
    BY <2>1, <2>2
<1>3. ASSUME NEW l \in Lists PROVE ViewHeld(l)'
  <2>1. CASE j = Forecast(l)
    <3>1. view'[l] = NoView
      BY <1>1, <2>1, JobIds DEF Shapes
    <3> QED
      BY <3>1 DEF ViewHeld, NoView
  <2>2. CASE j # Forecast(l)
    <3>1. job'[Forecast(l)] = job[Forecast(l)]
      BY <1>1, <2>2, JobIds DEF Shapes
    <3>2. j[1] = "forecast" => j[2] # l
      BY <2>2 DEF Jobs, Diff, Forecast, Notify
    <3>3. view'[l] = view[l]
      BY <1>1, <3>2 DEF Shapes
    <3> QED
      BY <3>1, <3>3 DEF TInv, ViewHeld, NoView
  <2> QED
    BY <2>1, <2>2
<1> QED
  BY <1>1, <1>2, <1>3, HistoryStays DEF TInv, RowType

\* The rest of a forecast job's statement leaves the queue and the history.
LEMMA GoesTInv ==
    ASSUME IInv, Shapes, TInv, NEW l \in Lists, NEW s \in Running, NEW v,
           v \in [batch : Stamps \cup {NoBatch}, groups : SUBSET Groups, basis : SUBSET Lists],
           Goes(l, s, v), job[Forecast(l)] \in Running,
           v # NoView => s \in Reading,
           \A f \in forecasts' : RowType(f)
    PROVE  TInv'
<1>1. /\ job'[Forecast(l)] = s /\ view'[l] = v
      /\ \A m \in Lists \ {l} : job'[Forecast(m)] = job[Forecast(m)] /\ view'[m] = view[m]
  BY GoesOn
<1>2. \A m \in Lists : ViewHeld(m)'
  BY <1>1 DEF TInv, ViewHeld, NoView
<1>3. UNCHANGED <<ingestVars, history, outcomes, tries, dropped, faults>>
      /\ job' = [job EXCEPT ![Forecast(l)] = s]
  BY DEF Goes
<1>4. QueueType'
  BY <1>3, JobIds DEF TInv, QueueType
<1> QED
  BY <1>2, <1>3, <1>4, HistoryStays DEF TInv, RowType

LEMMA StatementTInv ==
    ASSUME IInv, PInv, TInv, NEW l \in Lists,
           LoadSnapshot(l) \/ CountGroups(l) \/ CollectBatch(l) \/ StoreForecasts(l)
    PROVE  TInv'
<1> DEFINE Views == [batch : Stamps \cup {NoBatch}, groups : SUBSET Groups, basis : SUBSET Lists]
<1>0. Shapes /\ view[l] \in Views /\ NoView \in Views
  BY NoViewShape DEF PInv, Shapes
<1>1. CASE LoadSnapshot(l) \/ CountGroups(l) \/ CollectBatch(l)
  <2>1. UNCHANGED forecasts /\ job[Forecast(l)] \in {"started", "counting", "collecting"}
    BY <1>1 DEF LoadSnapshot, CountGroups, CollectBatch
  <2>2. \A f \in forecasts' : RowType(f)
    BY <2>1 DEF TInv
  <2>3. PICK s \in Reading \cup {"queueing"}, v \in Views :
           Goes(l, s, v) /\ (s = "queueing" => v = NoView)
    <3>1. CASE LoadSnapshot(l)
      <4>1. l \in rows /\ stamp[l] # NoBatch => stamp[l] \in Stamps
        BY DEF IInv, TypeOK
      <4>2. [NoView EXCEPT !.batch = stamp[l]] = [batch |-> stamp[l], groups |-> {}, basis |-> {}]
        BY DEF NoView
      <4> QED
        BY <1>0, <3>1, <4>1, <4>2 DEF LoadSnapshot, Reading
    <3>2. CASE CountGroups(l)
      <4>1. [view[l] EXCEPT !.groups = RegisteredGroups] \in Views
        BY <1>0 DEF RegisteredGroups
      <4> QED
        BY <1>0, <3>2, <4>1 DEF CountGroups, Reading
    <3>3. CASE CollectBatch(l)
      <4>1. PICK basis \in SUBSET Lists :
               \/ Goes(l, "storing", [view[l] EXCEPT !.basis = basis])
               \/ Goes(l, "queueing", NoView)
        BY <3>3 DEF CollectBatch
      <4>2. [view[l] EXCEPT !.basis = basis] \in Views
        BY <1>0
      <4> QED
        BY <1>0, <4>1, <4>2 DEF Reading
    <3> QED
      BY <1>1, <3>1, <3>2, <3>3
  <2> QED
    BY <1>0, <2>1, <2>2, <2>3, GoesTInv DEF Running, Reading
<1>2. CASE StoreForecasts(l)
  <2>1. Goes(l, "queueing", NoView) /\ job[Forecast(l)] = "storing"
    BY <1>2 DEF StoreForecasts
  <2>2. view[l].batch.id \in Runs /\ view[l].basis \subseteq Lists
    BY <1>0, <2>1 DEF PInv, ViewTrue, OfBatch, Published, Reading
  <2>3. tries[Forecast(l)] \in 1..MaxTries
    BY <2>1, JobIds, PipelineAssumption DEF TInv, QueueType, Running
  <2>4. \A f \in forecasts' : f \in forecasts \/ \E t \in Targets :
           f = [target |-> t, list |-> l, batch |-> view[l].batch.id,
                basis |-> view[l].basis, attempt |-> tries[Forecast(l)]]
    BY <1>2 DEF StoreForecasts
  <2>5. \A f \in forecasts' : RowType(f)
    BY <2>2, <2>3, <2>4 DEF TInv, RowType
  <2> QED
    BY <1>0, <2>1, <2>5, GoesTInv DEF Running
<1> QED
  BY <1>1, <1>2

LEMMA NextTInv == IInv /\ PInv /\ TInv /\ [PipelineNext]_allVars => TInv'
<1> SUFFICES ASSUME IInv, PInv, TInv, [PipelineNext]_allVars PROVE TInv'
  OBVIOUS
<1>0. Shapes
  BY DEF PInv
<1>1. CASE \E r \in Runs : Refresh(r)
  BY <1>0, <1>1, RefreshTInv
<1>2. CASE \/ \E r \in Runs : EnqueueDiff(r) \/ EnqueueFails(r)
           \/ \E j \in Jobs : Start(j) \/ Finish(j)
  BY <1>0, <1>2, QueueTInv
<1>3. CASE \E j \in Jobs : Interrupt(j) \/ Fail(j)
  BY <1>0, <1>3, RolledBackTInv
<1>4. ASSUME NEW l \in Lists, JobStep(l) PROVE TInv'
  <2>1. CASE DiffJob(l) \/ NotifyJob(l) \/ QueueNotify(l)
    BY <1>0, <2>1, QueueTInv
  <2>2. CASE LoadSnapshot(l) \/ CountGroups(l) \/ CollectBatch(l) \/ StoreForecasts(l)
    BY <2>2, StatementTInv
  <2> QED
    BY <1>4, <2>1, <2>2 DEF JobStep
<1>5. CASE UNCHANGED allVars
  <2>1. UNCHANGED <<ingestVars, history, view, forecasts>> /\ QueueType' /\ UNCHANGED job
    BY <1>5 DEF allVars, queueVars, TInv, QueueType
  <2> QED
    BY <2>1, QueueChanges
<1> QED
  BY <1>1, <1>2, <1>3, <1>4, <1>5 DEF PipelineNext

LEMMA InitTInv == PipelineInit => TInv
<1> SUFFICES ASSUME PipelineInit PROVE TInv
  OBVIOUS
<1>1. Stored = {}
  BY DEF PipelineInit, Init, Stored
<1>2. HistoryOrdered
  BY <1>1 DEF PipelineInit, HistoryOrdered
<1>3. QueueType
  BY PipelineAssumption DEF PipelineInit, QueueType, Running
<1> QED
  BY <1>2, <1>3 DEF PipelineInit, TInv, ViewHeld

\* Type correctness of the pipeline.  In particular the snapshots of a group
\* that are stored are in one order whatever refreshes overlap and roll back,
\* no forecast job outlives its view, and no job is tried more than MaxTries
\* times.
THEOREM PipelineTypes == PipelineSpec => []PipelineTypeOK
<1>1. PipelineInit => IInv /\ PInv /\ TInv
  BY InitIInv, InitPInv, InitTInv DEF PipelineInit
<1>2. IInv /\ PInv /\ TInv /\ [PipelineNext]_allVars => (IInv /\ PInv /\ TInv)'
  BY PipelineStep, NextIInv, NextPInv, NextTInv
<1>3. PInv /\ TInv => PipelineTypeOK
  <2> SUFFICES ASSUME PInv, TInv PROVE PipelineTypeOK
    OBVIOUS
  <2>1. \A l \in Lists : /\ view[l].batch \in Stamps \cup {NoBatch}
                         /\ view[l].groups \subseteq Groups
                         /\ view[l].basis \subseteq Lists
                         /\ view[l] # NoView =>
                               job[Forecast(l)] \in {"counting", "collecting", "storing"}
    BY DEF PInv, Shapes, TInv, ViewHeld, Reading
  <2> QED
    BY <2>1 DEF TInv, HistoryOrdered, QueueType, RowType, PipelineTypeOK
<1> QED
  BY <1>1, <1>2, <1>3, PTL DEF PipelineSpec
=============================================================================
