\* The migrated schema: a later batch meets a page it has seen before.
SPECIFICATION Spec
CONSTANTS
    Groups = {1, 2}
    Contents = {c1}
    Runs = {r1, r2}
    NoBatch = NoBatch
    Rejected = Rejected
    Unlisted = Unlisted
    ImmutableTrigger = TRUE
INVARIANT UnchangedPageJoinsBatch
CHECK_DEADLOCK FALSE
