SPECIFICATION Spec
CONSTANTS
    t1 = t1
    t2 = t2
    Pulls = {1, 2}
    Threads = {t1, t2}
    Reviewers = {rev}
    Author = author
    NoThread = NoThread
    Method <- Methods
    MinApprovals = 1
    RequireCI = TRUE
    MergeQueue = FALSE
    MaxPushes = 1
    MaxRequests = 4
CHECK_DEADLOCK FALSE
INVARIANTS
    TypeOK
    AnnouncedOnce
    MergedIsOnTarget
    NotForgotten
SYMMETRY ThreadSymmetry
