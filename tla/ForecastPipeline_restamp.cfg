\* Without list_snapshots_immutable: snapshots move between batches while a job reads.
SPECIFICATION PipelineSpec
CONSTANTS
    Groups = {1, 2}
    Contents = {c1, c2}
    Runs = {r1, r2}
    WorkerRuns = {r1}
    Targets = {t1}
    TargetGroup <- InFirstGroup
    MinHistory = 2
    MaxTries = 2
    MaxFaults = 0
    NoBatch = NoBatch
    Rejected = Rejected
    Unlisted = Unlisted
    ImmutableTrigger = FALSE
SYMMETRY PageBodies
INVARIANTS ForecastsUseOneWholeBatch
CHECK_DEADLOCK FALSE
