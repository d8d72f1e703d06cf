\* What a refresh hands over is forecast once or visibly given up.
SPECIFICATION FairPipelineSpec
CONSTANTS
    Groups = {1}
    Contents = {c1, c2}
    Runs = {r1, r2}
    WorkerRuns = {r1, r2}
    Targets = {t1}
    TargetGroup <- InFirstGroup
    MinHistory = 2
    MaxTries = 2
    MaxFaults = 1
    NoBatch = NoBatch
    Rejected = Rejected
    Unlisted = Unlisted
    ImmutableTrigger = TRUE
INVARIANTS PipelineTypeOK OneForecastPerIdentity
PROPERTIES HandedOverIsProcessed WholeBatchGetsForecasts
CHECK_DEADLOCK FALSE
