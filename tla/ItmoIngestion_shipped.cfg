\* The migrated schema: three overlapping refreshes of two groups.
SPECIFICATION Spec
CONSTANTS
    Groups = {1, 2}
    Contents = {c1, c2}
    Runs = {r1, r2, r3}
    NoBatch = NoBatch
    Rejected = Rejected
    Unlisted = Unlisted
    ImmutableTrigger = TRUE
SYMMETRY Interchangeable
INVARIANTS TypeOK AllOrNothing ConflictHasWinner WholeBatchIsComplete
PROPERTIES SnapshotsImmutable StoreSpec
CHECK_DEADLOCK FALSE
