\* Two targets of a group, a third applicant, histories of two and three pages.
CONSTANTS
    Uids = {1, 2, 3}
    Null = Null
    Group = 1
    Pages <- NewPages
    EarlierPages <- OldPages
    OtherPages <- ElsewherePages
    Tracked = {1, 2}
    Snapshots = {2, 3}
    MinHistory = 3
    SimulationRuns = 2
SPECIFICATION Spec
CHECK_DEADLOCK FALSE
INVARIANTS AcceptedListsAreForecastable CertainWhenNobodyAhead NeverWorseThanRank
    BetterPlacedNotWorse
