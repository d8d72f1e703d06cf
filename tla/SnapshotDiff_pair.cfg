\* Every pair of lists of an applicant with three conditions; one run may fail.
CONSTANTS
    Uids = {1}
    Conditions = {1, 2, 3}
    Fields = {"rank_changed"}
    Tracked = {"rank_changed"}
    Values = {v1, v2}
    None = 0
    Diffs = {d1, d2}
    MaxCrashes = 1
SPECIFICATION FairSpec
CHECK_DEADLOCK FALSE
INVARIANTS EventsComplete CountedOnce ReplayGivesCurrent
PROPERTIES DiffEnds
