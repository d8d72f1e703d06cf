\* Without list_snapshots_immutable: unchanged pages move to the new batch; each refresh ends.
SPECIFICATION FairSpec
CONSTANTS
    Groups = {1, 2}
    Contents = {c1}
    Runs = {r1, r2, r3}
    NoBatch = NoBatch
    Rejected = Rejected
    Unlisted = Unlisted
    ImmutableTrigger = FALSE
INVARIANTS StampsHonest CompleteMeansWholeBatch
PROPERTIES StoreSpec RefreshEnds
CHECK_DEADLOCK FALSE
