SPECIFICATION Spec
CONSTANTS
    t1 = t1
    t2 = t2
    Pulls = {1, 2}
    Threads = {t1, t2}
    Reviewers = {}
    Author = author
    NoThread = NoThread
    Method <- Methods
    MinApprovals = 0
    RequireCI = TRUE
    MergeQueue = TRUE
    MaxPushes = 0
    MaxRequests = 4
CHECK_DEADLOCK FALSE
PROPERTIES
    QueueOrder
SYMMETRY ThreadSymmetry
