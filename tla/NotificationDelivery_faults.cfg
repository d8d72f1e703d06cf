\* Three notifications of two users, deletions, lost answers and one crash; each is settled unless the
\* loop stops.
CONSTANTS
    u1 = u1  u2 = u2  t1 = t1  t2 = t2
    Users = {u1, u2}
    Targets = {t1, t2}
    Notes = {1, 2, 3}
    TargetOf <- TargetOfNote
    OwnerOf <- OwnerOfTarget
    NoUser = NoUser
    Limit = 2
    MaxAttempts = 2
    MaxAborts = 1
SPECIFICATION FairSpec
CHECK_DEADLOCK FALSE
INVARIANTS TypeOK MessagesAccounted SentWasAccepted OneMessageAfterDeletion
PROPERTIES SettledStaysSettled PendingIsSettled
