SPECIFICATION Spec
CONSTANTS
    t1 = t1
    t2 = t2
    Pulls = {1, 2}
    Threads = {t1, t2}
    Reviewers = {rev}
    Author = author
    NoThread = NoThread
    Method <- Methods
    MinApprovals = 0
    RequireCI = FALSE
    MergeQueue = TRUE
    MaxPushes = 0
    MaxRequests = 2
CHECK_DEADLOCK FALSE
INVARIANTS
    QueueNotStalled
