SPECIFICATION BackgroundSpec
CONSTANTS
    Threads = {"t1", "t2", "t3"}
    Keys = {"k1", "k2"}
    Entries = {"e1", "e2", "e3"}
    IndexPaths = {"a", "b"}
    IndexTree <- ThreeCommits
    MemoryPaths = {"a"}
    MemoryTree <- MadeAgain
    BlobSize <- Lines
    Indexers = {"w1"}
    Pushers = {"u1"}
    IndexFaults = 1
    RemoteRuns = {"r1"}
    Slots = 2
    MaxTries = 2
    JobChunks = 2
    DataCap = 1
    MaxConns = 2
    MaxJobs = 2
    RemoteFaults = 1
    SlotFaults = 2
    PushTargets = {"t1"}
    PushHead = 2
    SyncTargets = {"t1", "t2"}
    SyncHead = 1
    MaxSyncs = 1
    MirrorCallers = {"c1", "c2"}
    MirrorWorkers = {"w1", "w2"}
    Locks = {"l1", "l2"}
    Buf = 1
    MaxOthers = 1
    MirrorFaults = 1
    Events = {"e1", "e2"}
    Nodes = {"n1", "n2"}
    MaxStarts = 2
    NodeCrashes = 1
    Deliverers = {"w1", "w2"}
    MaxAttempts = 5
    MaxPosts = 6
    MaxOverlaps = 1
    DeliveryRedis = FALSE
    DeliveryFaults = 2
    Instances = {"i1", "i2"}
    Period = 2
    MaxTime = 4
    Dialers = {"i1", "i2", "i3"}
    MaxUrl = 2
    MaxStalls = 1
    ServerCrashes = 1
    StepRuns = {"r1"}
    StepGroups <- GroupThenPlain
    StepFaults = 2
    CacheRuns = {"r1", "r2", "r3"}
    CacheFaults = 1
    CachedPaths = {"p"}
    Contents <- Prefixes
    BlobChunks = {1}
    Uploads = {"s1"}
    Requests = {"q1", "q2"}
    Packages = {"p1"}
    MaxBlob = 2
    BlobFaults = 1
CHECK_DEADLOCK FALSE
INVARIANTS
    BackgroundTypes
    Exclusion
    CurrentIsExact
    NoForeignLine
    ExecutedOnce
    SuccessIsReal
    NotLost
    HandledOnce
    AttemptsBounded
    TwiceOnlyOverlapping
    NoTickSkipped
    OneDialer
    NoContainerLeft
    CacheSurvives
    BlobWhole
PROPERTIES
    Converges
    Completes
    LostJobsEnd
    StatusSettles
    NeverGoesBack
    StatusEnds
    MirrorCatchesUp
    EventHandled
    OutcomeFinal
    RetryEnds
    StaysDialled
