--------------------------- MODULE BackgroundProofs ---------------------------
(***************************************************************************)
(* Background runs what other proofs are about.  A behaviour whose subject *)
(* is the steps of runs, or their cache, is a behaviour of Workspace, so   *)
(* that what is proved of Workspace holds in it; likewise those about the  *)
(* index, with CodeIndexProofs.  The workers of a mirror take the lock     *)
(* that KeyedMutexProofs is about.  Remote execution is that of            *)
(* RemoteRunnerProofs, whichever of the two agents it runs.                *)
(***************************************************************************)
EXTENDS ServiceProofs, TLAPS

\* The proofs about Workspace, for the two instances of it.
SP == INSTANCE WorkspaceProofs WITH
    Runs <- StepRuns, Steps <- StepGroups, Paths <- CachedPaths, MaxFaults <- StepFaults,
    pc <- wPc, at <- step, cancelled <- wCancelled, faults <- wFaults

CP == INSTANCE WorkspaceProofs WITH
    Runs <- CacheRuns, Steps <- << >>, Paths <- CachedPaths, MaxFaults <- CacheFaults,
    pc <- wPc, at <- step, cancelled <- wCancelled, faults <- wFaults

\* The proofs about remote execution, for the two agents.
RP == INSTANCE RemoteRunnerProofs WITH
    Runs <- RemoteRuns, Chunks <- JobChunks, MaxFaults <- RemoteFaults, faults <- rFaults

OP == INSTANCE RemoteRunnerProofs WITH
    Runs <- RemoteRuns, Chunks <- JobChunks, Slots <- 1, MaxConns <- 1, MaxFaults <- SlotFaults,
    faults <- rFaults

\* The proofs about the lock per key, for the one that the mirror pushes take.
MP == INSTANCE KeyedMutexProofs WITH
    Threads <- MirrorWorkers, Keys <- {"repo"}, Entries <- Locks,
    map <- mMap, refs <- mRefs, owner <- mOwner, at <- mAt, want <- mWant, kpc <- mKpc

----------------------------------------------------------------------------
\* The two instances define the same; tlapm compares them definition by definition.
LEMMA StepsSame ==
    /\ StepsOf!WorkspaceAssumption <=> SP!WorkspaceAssumption
    /\ StepsOf!Init => SP!Init
    /\ StepsOf!Next => SP!Next
    /\ SP!NoContainerLeft <=> StepsOf!NoContainerLeft
<1>1. StepsOf!WorkspaceAssumption <=> SP!WorkspaceAssumption
    BY DEF StepsOf!WorkspaceAssumption, SP!WorkspaceAssumption, StepsOf!NoRun, SP!NoRun,
       StepsOf!Subs, SP!Subs
<1>2. StepsOf!Init => SP!Init
    BY DEF StepsOf!Init, SP!Init, StepsOf!NoRun, SP!NoRun,
       StepsOf!Subs, SP!Subs, StepsOf!NoEntry, SP!NoEntry
<1>3. StepsOf!Next => SP!Next
    BY DEF StepsOf!Next, SP!Next, StepsOf!NoRun, SP!NoRun,
       StepsOf!Subs, SP!Subs, StepsOf!NoEntry, SP!NoEntry,
       StepsOf!Execute, SP!Execute, StepsOf!Cancel, SP!Cancel, StepsOf!Crash, SP!Crash,
       StepsOf!Restore, SP!Restore, StepsOf!Skip, SP!Skip, StepsOf!NextStep, SP!NextStep,
       StepsOf!SkipSub, SP!SkipSub, StepsOf!StartClient, SP!StartClient,
       StepsOf!ContainerUp, SP!ContainerUp, StepsOf!ContainerExits, SP!ContainerExits,
       StepsOf!ClientFails, SP!ClientFails, StepsOf!KillClient, SP!KillClient,
       StepsOf!RemoveContainer, SP!RemoveContainer, StepsOf!Ended, SP!Ended,
       StepsOf!StepEnds, SP!StepEnds, StepsOf!StepsDone, SP!StepsDone,
       StepsOf!NothingToSave, SP!NothingToSave, StepsOf!OpenBase, SP!OpenBase,
       StepsOf!RemovePath, SP!RemovePath, StepsOf!RemoveDir, SP!RemoveDir,
       StepsOf!Discard, SP!Discard, StepsOf!Rename, SP!Rename,
       StepsOf!stepVars, SP!stepVars, StepsOf!cacheVars, SP!cacheVars,
       StepsOf!Cardinality, SP!Cardinality
<1>4. SP!NoContainerLeft <=> StepsOf!NoContainerLeft
    BY DEF StepsOf!NoContainerLeft, SP!NoContainerLeft, StepsOf!Subs, SP!Subs
<1> QED
    BY <1>1, <1>2, <1>3, <1>4

LEMMA CacheSame ==
    /\ CacheOf!WorkspaceAssumption <=> CP!WorkspaceAssumption
    /\ CacheOf!Init => CP!Init
    /\ CacheOf!Next => CP!Next
    /\ CP!CacheSurvives <=> CacheOf!CacheSurvives
<1>1. CacheOf!WorkspaceAssumption <=> CP!WorkspaceAssumption
    BY DEF CacheOf!WorkspaceAssumption, CP!WorkspaceAssumption, CacheOf!NoRun, CP!NoRun,
       CacheOf!Subs, CP!Subs
<1>2. CacheOf!Init => CP!Init
    BY DEF CacheOf!Init, CP!Init, CacheOf!NoRun, CP!NoRun,
       CacheOf!Subs, CP!Subs, CacheOf!NoEntry, CP!NoEntry
<1>3. CacheOf!Next => CP!Next
    BY DEF CacheOf!Next, CP!Next, CacheOf!NoRun, CP!NoRun,
       CacheOf!Subs, CP!Subs, CacheOf!NoEntry, CP!NoEntry,
       CacheOf!Execute, CP!Execute, CacheOf!Cancel, CP!Cancel, CacheOf!Crash, CP!Crash,
       CacheOf!Restore, CP!Restore, CacheOf!Skip, CP!Skip, CacheOf!NextStep, CP!NextStep,
       CacheOf!SkipSub, CP!SkipSub, CacheOf!StartClient, CP!StartClient,
       CacheOf!ContainerUp, CP!ContainerUp, CacheOf!ContainerExits, CP!ContainerExits,
       CacheOf!ClientFails, CP!ClientFails, CacheOf!KillClient, CP!KillClient,
       CacheOf!RemoveContainer, CP!RemoveContainer, CacheOf!Ended, CP!Ended,
       CacheOf!StepEnds, CP!StepEnds, CacheOf!StepsDone, CP!StepsDone,
       CacheOf!NothingToSave, CP!NothingToSave, CacheOf!OpenBase, CP!OpenBase,
       CacheOf!RemovePath, CP!RemovePath, CacheOf!RemoveDir, CP!RemoveDir,
       CacheOf!Discard, CP!Discard, CacheOf!Rename, CP!Rename,
       CacheOf!stepVars, CP!stepVars, CacheOf!cacheVars, CP!cacheVars,
       CacheOf!Cardinality, CP!Cardinality
<1>4. CP!CacheSurvives <=> CacheOf!CacheSurvives
    BY DEF CacheOf!CacheSurvives, CP!CacheSurvives
<1> QED
    BY <1>1, <1>2, <1>3, <1>4

LEMMA RemoteSame ==
    /\ Remote!RemoteAssumption <=> RP!RemoteAssumption
    /\ Remote!Init => RP!Init
    /\ Remote!Next => RP!Next
    /\ RP!TypeOK => Remote!TypeOK
    /\ RP!ExecutedOnce => Remote!ExecutedOnce
    /\ RP!SuccessIsReal => Remote!SuccessIsReal
<1>1. Remote!RemoteAssumption <=> RP!RemoteAssumption
    BY DEF Remote!RemoteAssumption, RP!RemoteAssumption
<1>2. Remote!Init => RP!Init
    BY DEF Remote!Init, RP!Init, Remote!Conns, RP!Conns, Remote!NoRun, RP!NoRun
<1>3. Remote!Next => RP!Next
    BY DEF Remote!Next, RP!Next,
       Remote!Start, RP!Start, Remote!Dispatch, RP!Dispatch, Remote!Await, RP!Await,
       Remote!AwaitTimeout, RP!AwaitTimeout, Remote!Stream, RP!Stream, Remote!Wait, RP!Wait,
       Remote!Cancelled, RP!Cancelled, Remote!Deadline, RP!Deadline, Remote!Cancel, RP!Cancel,
       Remote!CancelCast, RP!CancelCast, Remote!Restart, RP!Restart, Remote!Pump, RP!Pump,
       Remote!PumpClosed, RP!PumpClosed, Remote!Crash, RP!Crash, Remote!HubRead, RP!HubRead,
       Remote!Heartbeat, RP!Heartbeat, Remote!Teardown, RP!Teardown, Remote!Connect, RP!Connect,
       Remote!LinkLost, RP!LinkLost, Remote!ReadJob, RP!ReadJob, Remote!TakeSlot, RP!TakeSlot,
       Remote!ReadData, RP!ReadData, Remote!DataBlocks, RP!DataBlocks,
       Remote!HandOver, RP!HandOver, Remote!ReadCancel, RP!ReadCancel,
       Remote!Disconnect, RP!Disconnect, Remote!Complete, RP!Complete,
       Remote!Receive, RP!Receive, Remote!Report, RP!Report, Remote!Finish, RP!Finish,
       Remote!Abandon, RP!Abandon, Remote!Exit, RP!Exit, Remote!Drain, RP!Drain,
       Remote!RunRemote, RP!RunRemote, Remote!HubStep, RP!HubStep, Remote!ReadLoop, RP!ReadLoop,
       Remote!Job, RP!Job, Remote!Drains, RP!Drains, Remote!Publish, RP!Publish,
       Remote!Return, RP!Return, Remote!Send, RP!Send, Remote!Used, RP!Used,
       Remote!Reading, RP!Reading, Remote!Arrived, RP!Arrived, Remote!NextFrame, RP!NextFrame,
       Remote!Room, RP!Room, Remote!Put, RP!Put, Remote!Conns, RP!Conns, Remote!NoRun, RP!NoRun,
       Remote!Frame, RP!Frame, Remote!Fault, RP!Fault, Remote!Subscribed, RP!Subscribed,
       Remote!serverVars, RP!serverVars, Remote!wireVars, RP!wireVars,
       Remote!agentVars, RP!agentVars, Remote!vars, RP!vars, Remote!Cardinality, RP!Cardinality
<1>4. RP!TypeOK => Remote!TypeOK
    BY DEF Remote!TypeOK, RP!TypeOK, Remote!Steps, RP!Steps, Remote!Conns, RP!Conns,
       Remote!NoRun, RP!NoRun
<1>5. /\ RP!ExecutedOnce => Remote!ExecutedOnce
      /\ RP!SuccessIsReal => Remote!SuccessIsReal
    BY DEF RP!ExecutedOnce, RP!SuccessIsReal, Remote!ExecutedOnce, Remote!SuccessIsReal
<1> QED
    BY <1>1, <1>2, <1>3, <1>4, <1>5

LEMMA SlotSame ==
    /\ OneSlot!RemoteAssumption <=> OP!RemoteAssumption
    /\ OneSlot!Init => OP!Init
    /\ OneSlot!Next => OP!Next
    /\ OP!TypeOK => OneSlot!TypeOK
    /\ OP!ExecutedOnce => Remote!ExecutedOnce
    /\ OP!SuccessIsReal => Remote!SuccessIsReal
<1>1. OneSlot!RemoteAssumption <=> OP!RemoteAssumption
    BY DEF OneSlot!RemoteAssumption, OP!RemoteAssumption
<1>2. OneSlot!Init => OP!Init
    BY DEF OneSlot!Init, OP!Init, OneSlot!Conns, OP!Conns, OneSlot!NoRun, OP!NoRun
<1>3. OneSlot!Next => OP!Next
    BY DEF OneSlot!Next, OP!Next,
       OneSlot!Start, OP!Start, OneSlot!Dispatch, OP!Dispatch, OneSlot!Await, OP!Await,
       OneSlot!AwaitTimeout, OP!AwaitTimeout, OneSlot!Stream, OP!Stream, OneSlot!Wait, OP!Wait,
       OneSlot!Cancelled, OP!Cancelled, OneSlot!Deadline, OP!Deadline, OneSlot!Cancel, OP!Cancel,
       OneSlot!CancelCast, OP!CancelCast, OneSlot!Restart, OP!Restart, OneSlot!Pump, OP!Pump,
       OneSlot!PumpClosed, OP!PumpClosed, OneSlot!Crash, OP!Crash, OneSlot!HubRead, OP!HubRead,
       OneSlot!Heartbeat, OP!Heartbeat, OneSlot!Teardown, OP!Teardown,
       OneSlot!Connect, OP!Connect, OneSlot!LinkLost, OP!LinkLost, OneSlot!ReadJob, OP!ReadJob,
       OneSlot!TakeSlot, OP!TakeSlot, OneSlot!ReadData, OP!ReadData,
       OneSlot!DataBlocks, OP!DataBlocks, OneSlot!HandOver, OP!HandOver,
       OneSlot!ReadCancel, OP!ReadCancel, OneSlot!Disconnect, OP!Disconnect,
       OneSlot!Complete, OP!Complete, OneSlot!Receive, OP!Receive, OneSlot!Report, OP!Report,
       OneSlot!Finish, OP!Finish, OneSlot!Abandon, OP!Abandon, OneSlot!Exit, OP!Exit,
       OneSlot!Drain, OP!Drain, OneSlot!RunRemote, OP!RunRemote, OneSlot!HubStep, OP!HubStep,
       OneSlot!ReadLoop, OP!ReadLoop, OneSlot!Job, OP!Job, OneSlot!Drains, OP!Drains,
       OneSlot!Publish, OP!Publish, OneSlot!Return, OP!Return, OneSlot!Send, OP!Send,
       OneSlot!Used, OP!Used, OneSlot!Reading, OP!Reading, OneSlot!Arrived, OP!Arrived,
       OneSlot!NextFrame, OP!NextFrame, OneSlot!Room, OP!Room, OneSlot!Put, OP!Put,
       OneSlot!Conns, OP!Conns, OneSlot!NoRun, OP!NoRun, OneSlot!Frame, OP!Frame,
       OneSlot!Fault, OP!Fault, OneSlot!Subscribed, OP!Subscribed,
       OneSlot!serverVars, OP!serverVars, OneSlot!wireVars, OP!wireVars,
       OneSlot!agentVars, OP!agentVars, OneSlot!vars, OP!vars,
       OneSlot!Cardinality, OP!Cardinality
<1>4. OP!TypeOK => OneSlot!TypeOK
    BY DEF OneSlot!TypeOK, OP!TypeOK, OneSlot!Steps, OP!Steps, OneSlot!Conns, OP!Conns,
       OneSlot!NoRun, OP!NoRun
<1>5. /\ OP!ExecutedOnce => Remote!ExecutedOnce
      /\ OP!SuccessIsReal => Remote!SuccessIsReal
    BY DEF OP!ExecutedOnce, OP!SuccessIsReal, Remote!ExecutedOnce, Remote!SuccessIsReal
<1> QED
    BY <1>1, <1>2, <1>3, <1>4, <1>5

----------------------------------------------------------------------------
(* The behaviours that run one of the two.                                 *)

RunsSteps == subject = "steps"
RunsCache == subject = "cache"

\* Each component's actions are taken for its own subject, and it does not change.
LEMMA SubjectStays ==
    ASSUME [BackgroundNext]_vars
    PROVE  /\ UNCHANGED subject
           /\ RunsSteps => StepsOf!Next \/ UNCHANGED workspaceVars
           /\ RunsCache => CacheOf!Next \/ UNCHANGED workspaceVars
<1>1. CASE BackgroundNext
    BY <1>1 DEF BackgroundNext, Others, RunsSteps, RunsCache
<1>2. CASE UNCHANGED vars
    BY <1>2 DEF vars
<1> QED
    BY <1>1, <1>2

\* A behaviour of Background about the steps of runs is one of Workspace.
LEMMA StepsBehave ==
    BackgroundSpec => ((RunsSteps /\ SP!Spec /\ []RunsSteps) \/ [](~RunsSteps))
<1>1. BackgroundInit /\ RunsSteps => SP!Init
    BY StepsSame DEF BackgroundInit, RunsSteps
<1>2. RunsSteps /\ [BackgroundNext]_vars => RunsSteps' /\ [SP!Next]_(SP!vars)
    BY SubjectStays, StepsSame
    DEF RunsSteps, workspaceVars, SP!vars
<1>3. ~RunsSteps /\ [BackgroundNext]_vars => (~RunsSteps)'
    BY SubjectStays DEF RunsSteps
<1> QED
    BY <1>1, <1>2, <1>3, PTL DEF BackgroundSpec, SP!Spec

\* A behaviour of Background about the cache is one of Workspace.
LEMMA CacheBehaves ==
    BackgroundSpec => ((RunsCache /\ CP!Spec /\ []RunsCache) \/ [](~RunsCache))
<1>1. BackgroundInit /\ RunsCache => CP!Init
    BY CacheSame DEF BackgroundInit, RunsCache
<1>2. RunsCache /\ [BackgroundNext]_vars => RunsCache' /\ [CP!Next]_(CP!vars)
    BY SubjectStays, CacheSame
    DEF RunsCache, workspaceVars, CP!vars
<1>3. ~RunsCache /\ [BackgroundNext]_vars => (~RunsCache)'
    BY SubjectStays DEF RunsCache
<1> QED
    BY <1>1, <1>2, <1>3, PTL DEF BackgroundSpec, CP!Spec

RunsSlot == subject = "slot"

\* A behaviour of Background is one of remote execution, that of the agent with one
\* slot or else that of the other, whose variables stand still unless it is run.
LEMMA RemoteBehaves ==
    BackgroundSpec =>
        ((RunsSlot /\ OP!Behaviour /\ []RunsSlot) \/ (RP!Behaviour /\ [](~RunsSlot)))
<1>1. BackgroundInit /\ RunsSlot => OP!Init
    BY SlotSame DEF BackgroundInit, RunsSlot
<1>2. BackgroundInit /\ ~RunsSlot => RP!Init
    BY RemoteSame DEF BackgroundInit, RunsSlot
<1>3. [BackgroundNext]_vars =>
        /\ RunsSlot' = RunsSlot
        /\ RunsSlot => OneSlot!Next \/ UNCHANGED remoteVars
        /\ ~RunsSlot => Remote!Next \/ UNCHANGED remoteVars
  <2>1. CASE BackgroundNext
      BY <2>1 DEF BackgroundNext, Others, RunsSlot
  <2>2. CASE UNCHANGED vars
      BY <2>2 DEF vars, RunsSlot
  <2> QED
      BY <2>1, <2>2
<1>4. RunsSlot /\ [BackgroundNext]_vars => RunsSlot' /\ [OP!Next]_(OP!vars)
    BY <1>3, SlotSame
    DEF remoteVars, OP!vars, OP!serverVars, OP!wireVars, OP!agentVars
<1>5. ~RunsSlot /\ [BackgroundNext]_vars => (~RunsSlot)' /\ [RP!Next]_(RP!vars)
    BY <1>3, RemoteSame
    DEF remoteVars, RP!vars, RP!serverVars, RP!wireVars, RP!agentVars
<1> QED
    BY <1>1, <1>2, <1>4, <1>5, PTL DEF BackgroundSpec, OP!Behaviour, RP!Behaviour

LEMMA RemoteAssumed == RP!RemoteAssumption /\ OP!RemoteAssumption
    BY BackgroundAssumption, RemoteSame, SlotSame

----------------------------------------------------------------------------
(* The theorems.                                                           *)

\* A run whose job frame was sent more than once is executed at most once: its chunks
\* are streamed once, every connection carries them in order, and no two jobs of the
\* agent collect the same one (RunRemote, remote.go:68-101), for any number of runs,
\* chunks and connections, and whatever is lost, cancelled or restarted.
THEOREM RunsExecuteOnce == BackgroundSpec => []ExecutedOnce
<1>1. (RP!Behaviour => []RP!ExecutedOnce) /\ (OP!Behaviour => []OP!ExecutedOnce)
    BY RemoteAssumed, RP!OneExecution, OP!OneExecution
<1>2. (RP!ExecutedOnce => ExecutedOnce) /\ (OP!ExecutedOnce => ExecutedOnce)
    BY RemoteSame, SlotSame DEF ExecutedOnce
<1> QED
    BY <1>1, <1>2, RemoteBehaves, PTL

\* RunRemote returns success only when a job of the run collected every chunk of the
\* workspace, executed and reported success, although a full send queue drops frames
\* without a word (redisPump, hub.go:351-372; remote.go:103-158).
THEOREM SuccessMeansTheJobRan == BackgroundSpec => []SuccessIsReal
<1>1. (RP!Behaviour => []RP!SuccessIsReal) /\ (OP!Behaviour => []OP!SuccessIsReal)
    BY RemoteAssumed, RP!SuccessOfAJob, OP!SuccessOfAJob
<1>2. (RP!SuccessIsReal => SuccessIsReal) /\ (OP!SuccessIsReal => SuccessIsReal)
    BY RemoteSame, SlotSame DEF SuccessIsReal
<1> QED
    BY <1>1, <1>2, RemoteBehaves, PTL

\* No container of a run outlives the step that started it, however the run goes
\* on: runStep returns only after removeContainer (executor.go:199-201), and a
\* group only when all of its runStep have returned.
THEOREM NoStepLeavesAContainer == BackgroundSpec => []NoContainerLeft
<1>1. SP!WorkspaceAssumption
    BY BackgroundAssumption, StepsSame
<1>2. SP!Spec => []SP!NoContainerLeft
    BY <1>1, SP!ContainersEnd
<1>3. SP!NoContainerLeft => NoContainerLeft
    BY StepsSame DEF NoContainerLeft
<1>4. ~RunsSteps => NoContainerLeft
    BY DEF NoContainerLeft, RunsSteps
<1> QED
    BY <1>2, <1>3, <1>4, StepsBehave, PTL

\* Interleaved saves do not lose the cache: cacheSave's RemoveAll and rename
\* (cache.go:98-99) leave an entry, one run's and whole, whenever nobody is at them.
THEOREM SavesKeepTheCache == BackgroundSpec => []CacheSurvives
<1>1. CP!WorkspaceAssumption
    BY BackgroundAssumption, CacheSame
<1>2. CP!Spec => []CP!CacheSurvives
    BY <1>1, CP!CacheIsNotLost
<1>3. CP!CacheSurvives => CacheSurvives
    BY CacheSame DEF CacheSurvives
<1>4. ~RunsCache => CacheSurvives
    BY DEF CacheSurvives, RunsCache
<1> QED
    BY <1>2, <1>3, <1>4, CacheBehaves, PTL

----------------------------------------------------------------------------
(* The mirror: its inductive invariant.  The two instances differ in their *)
(* targets and in the bounds.                                              *)

Urls == IF subject = "mirror targets" THEN SyncTargets ELSE PushTargets

\* The stages between lock and unlock.
InLock == {"running", "read", "push", "synced", "failed", "unlock"}

\* A worker between lock and unlock holds the lock of the repository.
PushesHoldTheLock == \A w \in MirrorWorkers : mWorker[w].pc \in InLock => mKpc[w] = "held"

\* A push about to land carries at least what any target has.
PushesAreNewest ==
    \A w \in MirrorWorkers : mWorker[w].pc = "push" =>
        \A u \in Urls : mirrored[u] <= mWorker[w].snap

\* What is to be sent to a target names one.
TargetsNamed ==
    \A c \in MirrorCallers :
        caller[c].pc \in {"enqueue", "queued", "send"} => caller[c].url \in Urls

MirrorState ==
    /\ mUrl \in Urls
    /\ status \in {"", "queued", "running", "synced", "failed"}
    /\ mHead \in Nat /\ mSpool \in 0 .. mHead
    /\ mirrored \in [Urls -> 0 .. mHead]
    /\ pending \in BOOLEAN

CallersOK ==
    /\ caller \in [MirrorCallers ->
         [pc : Mirror!Errands, api : BOOLEAN, url : Urls \cup {Mirror!NoTarget}]]
    /\ TargetsNamed

ChanOK == chan \in Seq(Urls \cup {Mirror!Other}) /\ Len(chan) <= Buf

WorkersOK ==
    mWorker \in [MirrorWorkers ->
      [pc : Mirror!Stages, url : Urls \cup {Mirror!NoTarget}, snap : 0 .. mHead]]

MirrorInv ==
    /\ MirrorState /\ CallersOK /\ ChanOK /\ WorkersOK
    /\ MP!IInv
    /\ PushesHoldTheLock /\ PushesAreNewest

----------------------------------------------------------------------------
\* The two instances have the same steps, but for the bounds and the targets.
LEMMA MirrorSame ==
    /\ MirrorTargets!OtherJob <=> Mirror!OtherJob
    /\ MirrorTargets!Restart <=> Mirror!Restart
    /\ \A c \in MirrorCallers : MirrorTargets!Caller(c) <=> Mirror!Caller(c)
    /\ \A w \in MirrorWorkers :
         /\ MirrorTargets!Worker(w) <=> Mirror!Worker(w)
         /\ MirrorTargets!PushFails(w) <=> Mirror!PushFails(w)
<1>1. MirrorTargets!OtherJob <=> Mirror!OtherJob
    BY DEF MirrorTargets!OtherJob, Mirror!OtherJob, MirrorTargets!Other, Mirror!Other,
       MirrorTargets!mutexVars, Mirror!mutexVars
<1>2. MirrorTargets!Restart <=> Mirror!Restart
    BY DEF MirrorTargets!Restart, Mirror!Restart, MirrorTargets!Asleep, Mirror!Asleep,
       MirrorTargets!Idle, Mirror!Idle, MirrorTargets!NoTarget, Mirror!NoTarget,
       MirrorTargets!Repo, Mirror!Repo
<1>3. ASSUME NEW c \in MirrorCallers PROVE MirrorTargets!Caller(c) <=> Mirror!Caller(c)
    BY DEF MirrorTargets!Caller, Mirror!Caller, MirrorTargets!PushEvent, Mirror!PushEvent,
       MirrorTargets!SetQueued, Mirror!SetQueued, MirrorTargets!Enqueue, Mirror!Enqueue,
       MirrorTargets!Send, Mirror!Send, MirrorTargets!Unmark, Mirror!Unmark,
       MirrorTargets!SetFailed, Mirror!SetFailed, MirrorTargets!ResetStatus, Mirror!ResetStatus,
       MirrorTargets!At, Mirror!At, MirrorTargets!Go, Mirror!Go, MirrorTargets!Back, Mirror!Back,
       MirrorTargets!Asleep, Mirror!Asleep, MirrorTargets!NoTarget, Mirror!NoTarget,
       MirrorTargets!mutexVars, Mirror!mutexVars, MirrorTargets!bounds, Mirror!bounds
<1>4. ASSUME NEW w \in MirrorWorkers PROVE MirrorTargets!PushFails(w) <=> Mirror!PushFails(w)
    BY DEF MirrorTargets!PushFails, Mirror!PushFails, MirrorTargets!On, Mirror!On,
       MirrorTargets!Then, Mirror!Then, MirrorTargets!mutexVars, Mirror!mutexVars
<1>5. ASSUME NEW w \in MirrorWorkers PROVE MirrorTargets!Worker(w) <=> Mirror!Worker(w)
    BY DEF MirrorTargets!Worker, Mirror!Worker, MirrorTargets!Take, Mirror!Take,
       MirrorTargets!TakePending, Mirror!TakePending, MirrorTargets!Lock, Mirror!Lock,
       MirrorTargets!Acquire, Mirror!Acquire, MirrorTargets!SetRunning, Mirror!SetRunning,
       MirrorTargets!ReadRefs, Mirror!ReadRefs, MirrorTargets!PushMirror, Mirror!PushMirror,
       MirrorTargets!SetStatus, Mirror!SetStatus, MirrorTargets!Unlock, Mirror!Unlock,
       MirrorTargets!Leave, Mirror!Leave, MirrorTargets!On, Mirror!On, MirrorTargets!Then,
       Mirror!Then, MirrorTargets!Idle, Mirror!Idle, MirrorTargets!NoTarget, Mirror!NoTarget,
       MirrorTargets!Other, Mirror!Other, MirrorTargets!Repo, Mirror!Repo,
       MirrorTargets!mutexVars, Mirror!mutexVars, MirrorTargets!bounds, Mirror!bounds,
       MirrorTargets!Mutex!Enter, Mirror!Mutex!Enter, MirrorTargets!Mutex!Live, Mirror!Mutex!Live,
       MirrorTargets!Mutex!Acquire, Mirror!Mutex!Acquire, MirrorTargets!Mutex!Unlock,
       Mirror!Mutex!Unlock, MirrorTargets!Mutex!Leave, Mirror!Mutex!Leave,
       MirrorTargets!Mutex!None, Mirror!Mutex!None
<1> QED
    BY <1>1, <1>2, <1>3, <1>4, <1>5

\* The lock that the workers take is the one KeyedMutexProofs is about.
LEMMA MirrorLock ==
    ASSUME NEW w \in MirrorWorkers
    PROVE  /\ Mirror!Mutex!Enter(w, "repo") => MP!Enter(w, "repo")
           /\ Mirror!Mutex!Acquire(w) => MP!Acquire(w)
           /\ Mirror!Mutex!Unlock(w) => MP!Unlock(w)
           /\ Mirror!Mutex!Leave(w) => MP!Leave(w)
<1>1. Mirror!Mutex!Enter(w, "repo") => MP!Enter(w, "repo")
    BY DEF Mirror!Mutex!Enter, MP!Enter, Mirror!Repo, Mirror!Mutex!Live, MP!Live,
       Mirror!Mutex!None, MP!None
<1>2. Mirror!Mutex!Acquire(w) => MP!Acquire(w)
    BY DEF Mirror!Mutex!Acquire, MP!Acquire, Mirror!Mutex!None, MP!None
<1>3. Mirror!Mutex!Unlock(w) => MP!Unlock(w)
    BY DEF Mirror!Mutex!Unlock, MP!Unlock, Mirror!Mutex!None, MP!None
<1>4. Mirror!Mutex!Leave(w) => MP!Leave(w)
    BY DEF Mirror!Mutex!Leave, MP!Leave, Mirror!Mutex!None, MP!None
<1> QED
    BY <1>1, <1>2, <1>3, <1>4

LEMMA LockAssumption == MP!KeyedMutexAssumption
    BY BackgroundAssumption
    DEF Mirror!MirrorAssumption, Mirror!NoTarget, Mirror!Repo, MP!KeyedMutexAssumption, MP!None,
        Mirror!IsFiniteSet, MP!IsFiniteSet

----------------------------------------------------------------------------
(* What the steps of the mirror keep.                                      *)

MirrorLockVars == <<mMap, mRefs, mOwner, mAt, mWant, mKpc>>

LEMMA TargetsBehind ==
    ASSUME MirrorInv
    PROVE  /\ mHead \in Nat /\ 0 \in 0 .. mHead /\ mHead \in 0 .. mHead
           /\ \A u \in Urls : mirrored[u] \in Nat /\ mirrored[u] <= mHead
<1>1. mHead \in Nat
    BY DEF MirrorInv, MirrorState
<1>2. ASSUME NEW u \in Urls PROVE mirrored[u] \in Nat /\ mirrored[u] <= mHead
  <2>1. mirrored[u] \in 0 .. mHead
      BY DEF MirrorInv, MirrorState
  <2> QED
      BY <1>1, <2>1
<1> QED
    BY <1>1, <1>2

\* Two workers are never between lock and unlock at a time.
LEMMA OnePush ==
    ASSUME MirrorInv, NEW v \in MirrorWorkers, NEW w \in MirrorWorkers,
           mWorker[v].pc \in InLock, mWorker[w].pc \in InLock
    PROVE  v = w
<1>1. mKpc[v] = "held" /\ mKpc[w] = "held"
    BY DEF MirrorInv, PushesHoldTheLock
<1>2. mWant[v] = "repo" /\ mWant[w] = "repo"
    BY <1>1 DEF MirrorInv, MP!IInv, MP!AtItsKey
<1>3. mAt[v] = mMap["repo"] /\ mAt[w] = mMap["repo"]
    BY <1>1, <1>2 DEF MirrorInv, MP!IInv, MP!AtItsKey
<1> QED
    BY <1>1, <1>3 DEF MirrorInv, MP!IInv, MP!OwnerHolds

\* The lock's own invariant, step by step.
LEMMA LockKept ==
    ASSUME MirrorInv,
           \/ UNCHANGED MirrorLockVars
           \/ \E w \in MirrorWorkers :
                MP!Enter(w, "repo") \/ MP!Acquire(w) \/ MP!Unlock(w) \/ MP!Leave(w)
    PROVE  MP!IInv'
<1>1. MP!IInv
    BY DEF MirrorInv
<1>2. CASE UNCHANGED MirrorLockVars
    BY <1>1, <1>2, LockAssumption, MP!NextIInv DEF MirrorLockVars, MP!kvars
<1>3. ASSUME NEW w \in MirrorWorkers,
             MP!Enter(w, "repo") \/ MP!Acquire(w) \/ MP!Unlock(w) \/ MP!Leave(w)
      PROVE  MP!IInv'
  <2>1. MP!Next
      BY <1>3 DEF MP!Next, MP!Step
  <2> QED
      BY <1>1, <2>1, LockAssumption, MP!NextIInv
<1> QED
    BY <1>2, <1>3

\* A step of the callers leaves the workers and the lock alone.
LEMMA CallersKeep ==
    ASSUME MirrorInv, UNCHANGED <<subject, mirrored, mWorker>>, UNCHANGED MirrorLockVars,
           mHead' = mHead \/ mHead' = mHead + 1
    PROVE  WorkersOK' /\ MP!IInv' /\ PushesHoldTheLock' /\ PushesAreNewest'
<1>1. mHead \in Nat
    BY DEF MirrorInv, MirrorState
<1>2. 0 .. mHead \subseteq 0 .. mHead'
    BY <1>1
<1>3. WorkersOK'
  <2>1. \A w \in MirrorWorkers :
          mWorker[w] \in [pc : Mirror!Stages, url : Urls \cup {Mirror!NoTarget}, snap : 0 .. mHead']
      BY <1>2 DEF MirrorInv, WorkersOK
  <2> QED
      BY <2>1 DEF MirrorInv, WorkersOK, Urls
<1>4. MP!IInv'
    BY LockKept
<1>5. PushesHoldTheLock' /\ PushesAreNewest'
    BY DEF MirrorInv, PushesHoldTheLock, PushesAreNewest, MirrorLockVars, Urls
<1> QED
    BY <1>3, <1>4, <1>5

\* One caller moves on.
LEMMA CallerMoves ==
    ASSUME MirrorInv, UNCHANGED subject, NEW c \in MirrorCallers,
           NEW pc \in Mirror!Errands, NEW api \in BOOLEAN, NEW u \in Urls \cup {Mirror!NoTarget},
           pc \in {"enqueue", "queued", "send"} => u \in Urls,
           \/ caller' = [caller EXCEPT ![c] = [pc |-> pc, api |-> api, url |-> u]]
           \/ caller' = [caller EXCEPT ![c].pc = pc] /\ caller[c].url = u
    PROVE  CallersOK'
<1>1. /\ \A d \in MirrorCallers \ {c} : caller'[d] = caller[d]
      /\ caller'[c].pc = pc /\ caller'[c].url = u
      /\ caller' \in [MirrorCallers ->
           [pc : Mirror!Errands, api : BOOLEAN, url : Urls \cup {Mirror!NoTarget}]]
    BY DEF MirrorInv, CallersOK
<1>2. Urls' = Urls
    BY DEF Urls
<1> QED
    BY <1>1, <1>2 DEF MirrorInv, CallersOK, TargetsNamed

LEMMA PushStep ==
    ASSUME MirrorInv, UNCHANGED subject, Mirror!Push \/ MirrorTargets!Push
    PROVE  MirrorInv'
<1>1. /\ mHead' = mHead + 1 /\ mSpool' = mSpool + 1
      /\ UNCHANGED <<mUrl, status, mirrored, caller, chan, pending, mWorker>>
      /\ UNCHANGED MirrorLockVars
    BY DEF Mirror!Push, MirrorTargets!Push, Mirror!mutexVars, MirrorTargets!mutexVars,
           MirrorLockVars
<1>2. mHead \in Nat /\ mSpool \in 0 .. mHead
    BY DEF MirrorInv, MirrorState
<1>3. mHead' \in Nat /\ mHead <= mHead' /\ mSpool' \in 0 .. mHead'
    BY <1>1, <1>2
<1>4. 0 .. mHead \subseteq 0 .. mHead'
    BY <1>2, <1>3
<1>5. MirrorState'
  <2>1. \A u \in Urls : mirrored[u] \in 0 .. mHead'
      BY <1>4 DEF MirrorInv, MirrorState
  <2> QED
      BY <1>1, <1>3, <2>1 DEF MirrorInv, MirrorState, Urls
<1>6. CallersOK' /\ ChanOK'
    BY <1>1 DEF MirrorInv, CallersOK, TargetsNamed, ChanOK, Urls
<1> QED
    BY <1>1, <1>5, <1>6, CallersKeep DEF MirrorInv

\* Requests: what differs between the instances is the bound, and the new target.
LEMMA RequestStep ==
    ASSUME MirrorInv, UNCHANGED subject, NEW c \in MirrorCallers,
           \/ Mirror!SyncMirror(c) \/ MirrorTargets!SyncMirror(c)
           \/ subject = "mirror" /\ Mirror!SetMirror(c)
           \/ subject = "mirror targets" /\ MirrorTargets!SetMirror(c)
    PROVE  MirrorInv'
<1>1. /\ mUrl' \in Urls
      /\ \/ caller' = [caller EXCEPT ![c] = [pc |-> "queued", api |-> TRUE, url |-> mUrl]]
         \/ caller' = [caller EXCEPT ![c].pc = "reset"]
      /\ UNCHANGED <<status, mHead, mSpool, mirrored, chan, pending, mWorker>>
      /\ UNCHANGED MirrorLockVars
    BY DEF Mirror!SyncMirror, MirrorTargets!SyncMirror, Mirror!SetMirror, MirrorTargets!SetMirror,
           Mirror!Go, MirrorTargets!Go, Mirror!mutexVars, MirrorTargets!mutexVars,
           MirrorLockVars, MirrorInv, MirrorState, Urls
<1>2. MirrorState' /\ ChanOK'
    BY <1>1 DEF MirrorInv, MirrorState, ChanOK, Urls
<1>3. CallersOK'
  <2>1. mUrl \in Urls /\ caller[c].url \in Urls \cup {Mirror!NoTarget}
      BY DEF MirrorInv, MirrorState, CallersOK
  <2>2. "queued" \in Mirror!Errands /\ "reset" \in Mirror!Errands
      BY DEF Mirror!Errands
  <2>3. CASE caller' = [caller EXCEPT ![c] = [pc |-> "queued", api |-> TRUE, url |-> mUrl]]
      BY <2>1, <2>2, <2>3, CallerMoves
  <2>4. CASE caller' = [caller EXCEPT ![c].pc = "reset"]
      BY <2>1, <2>2, <2>4, CallerMoves
  <2> QED
      BY <1>1, <2>3, <2>4
<1>4. WorkersOK' /\ MP!IInv' /\ PushesHoldTheLock' /\ PushesAreNewest'
    BY <1>1, CallersKeep
<1> QED
    BY <1>2, <1>3, <1>4 DEF MirrorInv


\* What a caller does to the row, the mark and the channel.
LEMMA CallerStep ==
    ASSUME MirrorInv, UNCHANGED subject, NEW c \in MirrorCallers, Mirror!Caller(c)
    PROVE  MirrorInv'
<1>1. /\ mUrl \in Urls /\ mHead \in Nat /\ mSpool \in 0 .. mHead /\ pending \in BOOLEAN
      /\ caller[c].pc \in Mirror!Errands /\ caller[c].url \in Urls \cup {Mirror!NoTarget}
      /\ caller[c].pc \in {"enqueue", "queued", "send"} => caller[c].url \in Urls
      /\ chan \in Seq(Urls \cup {Mirror!Other}) /\ Len(chan) <= Buf
      /\ Buf \in Nat
    BY BackgroundAssumption
    DEF MirrorInv, MirrorState, CallersOK, TargetsNamed, ChanOK, Mirror!MirrorAssumption
<1>2. {"idle", "queued", "enqueue", "send", "full", "failed", "reset"} = Mirror!Errands
    BY DEF Mirror!Errands
<1>3. /\ UNCHANGED <<mUrl, mHead, mirrored, mWorker>> /\ UNCHANGED MirrorLockVars
      /\ status' \in {"", "queued", "running", "synced", "failed"}
      /\ mSpool' \in 0 .. mHead /\ pending' \in BOOLEAN
      /\ chan' \in Seq(Urls \cup {Mirror!Other}) /\ Len(chan') <= Buf
      /\ CallersOK'
  <2> USE <1>1, <1>2 DEF Mirror!At, Mirror!Go, Mirror!Back, Mirror!Asleep, Mirror!mutexVars,
                         Mirror!bounds, MirrorLockVars
  <2>1. status \in {"", "queued", "running", "synced", "failed"}
      BY DEF MirrorInv, MirrorState
  <2>2. CASE Mirror!PushEvent(c)
    <3>1. CallersOK'
        BY <2>2, CallerMoves DEF Mirror!PushEvent
    <3>2. mSpool' = mSpool - 1 /\ mSpool > 0
        BY <2>2 DEF Mirror!PushEvent
    <3>3. mSpool' \in 0 .. mHead
        BY <3>2
    <3> QED
        BY <2>1, <2>2, <3>1, <3>3 DEF Mirror!PushEvent
  <2>3. CASE Mirror!SetQueued(c)
    <3>1. CallersOK'
        BY <2>3, CallerMoves DEF Mirror!SetQueued
    <3> QED
        BY <2>3, <3>1 DEF Mirror!SetQueued
  <2>4. CASE Mirror!Enqueue(c)
    <3>1. CallersOK'
        BY <2>4, CallerMoves DEF Mirror!Enqueue
    <3> QED
        BY <2>1, <2>4, <3>1 DEF Mirror!Enqueue
  <2>5. CASE Mirror!Send(c)
    <3>1. CallersOK'
        BY <2>5, CallerMoves DEF Mirror!Send
    <3>2. chan' \in Seq(Urls \cup {Mirror!Other}) /\ Len(chan') <= Buf
      <4>1. CASE Len(chan) < Buf
        <5>1. caller[c].url \in Urls
            BY <2>5 DEF Mirror!Send
        <5>2. chan' = Append(chan, caller[c].url)
            BY <2>5, <4>1 DEF Mirror!Send
        <5> QED
            BY <4>1, <5>1, <5>2
      <4>2. CASE ~(Len(chan) < Buf)
          BY <2>5, <4>2 DEF Mirror!Send
      <4> QED
          BY <4>1, <4>2
    <3> QED
        BY <2>1, <2>5, <3>1, <3>2 DEF Mirror!Send
  <2>6. CASE Mirror!Unmark(c)
    <3>1. CallersOK'
        BY <2>6, CallerMoves DEF Mirror!Unmark
    <3> QED
        BY <2>1, <2>6, <3>1 DEF Mirror!Unmark
  <2>7. CASE Mirror!SetFailed(c)
    <3>1. CallersOK'
        BY <2>7, CallerMoves DEF Mirror!SetFailed
    <3> QED
        BY <2>7, <3>1 DEF Mirror!SetFailed
  <2>8. CASE Mirror!ResetStatus(c)
    <3>1. CallersOK'
        BY <2>8, CallerMoves DEF Mirror!ResetStatus
    <3> QED
        BY <2>8, <3>1 DEF Mirror!ResetStatus
  <2> QED
      BY <2>2, <2>3, <2>4, <2>5, <2>6, <2>7, <2>8 DEF Mirror!Caller
<1>4. MirrorState' /\ ChanOK'
    BY <1>1, <1>3 DEF MirrorInv, MirrorState, ChanOK, Urls
<1>5. WorkersOK' /\ MP!IInv' /\ PushesHoldTheLock' /\ PushesAreNewest'
    BY <1>3, CallersKeep
<1> QED
    BY <1>3, <1>4, <1>5 DEF MirrorInv

LEMMA OtherJobStep ==
    ASSUME MirrorInv, UNCHANGED subject, Mirror!OtherJob
    PROVE  MirrorInv'
<1>1. /\ Len(chan) < Buf /\ chan' = Append(chan, Mirror!Other)
      /\ UNCHANGED <<mUrl, status, mHead, mSpool, mirrored, caller, pending, mWorker>>
      /\ UNCHANGED MirrorLockVars
    BY DEF Mirror!OtherJob, Mirror!mutexVars, MirrorLockVars
<1>2. chan \in Seq(Urls \cup {Mirror!Other}) /\ Buf \in Nat /\ mHead \in Nat
    BY BackgroundAssumption DEF MirrorInv, MirrorState, ChanOK, Mirror!MirrorAssumption
<1>3. chan' \in Seq(Urls \cup {Mirror!Other}) /\ Len(chan') <= Buf
    BY <1>1, <1>2
<1>4. MirrorState' /\ ChanOK' /\ CallersOK'
    BY <1>1, <1>3 DEF MirrorInv, MirrorState, ChanOK, CallersOK, TargetsNamed, Urls
<1>5. WorkersOK' /\ MP!IInv' /\ PushesHoldTheLock' /\ PushesAreNewest'
    BY <1>1, CallersKeep
<1> QED
    BY <1>4, <1>5 DEF MirrorInv

LEMMA LockFree == MP!Init => MP!IInv
    BY LockAssumption, MP!InitIInv

\* The empty lock, as a restart leaves it, is where KeyedMutex begins.
LEMMA RestartStep ==
    ASSUME MirrorInv, UNCHANGED subject, Mirror!Restart
    PROVE  MirrorInv'
<1>1. /\ caller' = [c \in MirrorCallers |-> Mirror!Asleep]
      /\ mWorker' = [w \in MirrorWorkers |-> Mirror!Idle]
      /\ pending' \in BOOLEAN
      /\ chan' = <<mUrl>> \/ chan' = << >>
      /\ UNCHANGED <<mUrl, status, mHead, mSpool, mirrored>>
    BY DEF Mirror!Restart
<1>2. Urls' = Urls
    BY DEF Urls
<1>3. MirrorState'
    BY <1>1, <1>2 DEF MirrorInv, MirrorState
<1>4. CallersOK'
    BY <1>1, <1>2 DEF CallersOK, TargetsNamed, Mirror!Asleep, Mirror!Errands
<1>5. ChanOK'
  <2>1. mUrl \in Urls /\ Buf \in Nat \ {0}
      BY BackgroundAssumption DEF MirrorInv, MirrorState, Mirror!MirrorAssumption
  <2>2. /\ << >> \in Seq(Urls \cup {Mirror!Other}) /\ Len(<< >>) = 0
        /\ <<mUrl>> \in Seq(Urls \cup {Mirror!Other}) /\ Len(<<mUrl>>) = 1
      BY <2>1
  <2>3. 0 <= Buf /\ 1 <= Buf
      BY <2>1
  <2>4. CASE chan' = <<mUrl>>
      BY <1>2, <2>2, <2>3, <2>4 DEF ChanOK
  <2>5. CASE chan' = << >>
      BY <1>2, <2>2, <2>3, <2>5 DEF ChanOK
  <2> QED
      BY <1>1, <2>4, <2>5
<1>6. WorkersOK'
  <2>1. 0 \in 0 .. mHead
      BY TargetsBehind
  <2> QED
      BY <1>1, <1>2, <2>1 DEF WorkersOK, Mirror!Idle, Mirror!Stages
<1>7. MP!IInv'
  <2>1. MP!Init'
      BY DEF Mirror!Restart, MP!Init, MP!None, Mirror!Repo
  <2>2. MP!Init' => MP!IInv'
      BY LockFree, PTL
  <2> QED
      BY <2>1, <2>2
<1>8. PushesHoldTheLock' /\ PushesAreNewest'
    BY <1>1 DEF PushesHoldTheLock, PushesAreNewest, Mirror!Idle, InLock
<1> QED
    BY <1>3, <1>4, <1>5, <1>6, <1>7, <1>8 DEF MirrorInv


----------------------------------------------------------------------------
\* One worker moves on: what the invariant asks of its new place.
LEMMA WorkerMoves ==
    ASSUME MirrorInv, UNCHANGED <<subject, mUrl, mHead, mSpool, caller>>,
           status' \in {"", "queued", "running", "synced", "failed"}, pending' \in BOOLEAN,
           ChanOK',
           NEW w \in MirrorWorkers,
           mWorker' \in [MirrorWorkers ->
             [pc : Mirror!Stages, url : Urls \cup {Mirror!NoTarget}, snap : 0 .. mHead]],
           \A v \in MirrorWorkers \ {w} : mWorker'[v] = mWorker[v] /\ mKpc'[v] = mKpc[v],
           mWorker'[w].pc \in InLock => mKpc'[w] = "held",
           mWorker'[w].pc = "push" => mWorker'[w].snap = mHead, mirrored' = mirrored,
           MP!IInv'
    PROVE  MirrorInv'
<1>1. Urls' = Urls
    BY DEF Urls
<1>2. MirrorState' /\ CallersOK' /\ WorkersOK'
    BY <1>1 DEF MirrorInv, MirrorState, CallersOK, TargetsNamed, WorkersOK
<1>3. PushesHoldTheLock'
    BY DEF MirrorInv, PushesHoldTheLock
<1>4. PushesAreNewest'
  <2>1. \A u \in Urls : mirrored[u] <= mHead
      BY TargetsBehind
  <2>2. ASSUME NEW v \in MirrorWorkers, mWorker'[v].pc = "push", NEW u \in Urls
        PROVE  mirrored[u] <= mWorker'[v].snap
    <3>1. CASE v = w
        BY <2>1, <2>2, <3>1
    <3>2. CASE v # w
        BY <2>2, <3>2 DEF MirrorInv, PushesAreNewest
    <3> QED
        BY <3>1, <3>2
  <2> QED
      BY <1>1, <2>2 DEF PushesAreNewest
<1> QED
    BY <1>2, <1>3, <1>4 DEF MirrorInv

\* The new place of a worker that goes on with what it has.
LEMMA ThenFields ==
    ASSUME MirrorInv, NEW w \in MirrorWorkers, NEW pc \in Mirror!Stages, Mirror!Then(w, pc)
    PROVE  /\ mWorker' \in [MirrorWorkers ->
                [pc : Mirror!Stages, url : Urls \cup {Mirror!NoTarget}, snap : 0 .. mHead]]
           /\ mWorker'[w].pc = pc /\ mWorker'[w].url = mWorker[w].url
           /\ mWorker'[w].snap = mWorker[w].snap /\ mWorker[w].snap \in 0 .. mHead
           /\ mWorker[w].url \in Urls \cup {Mirror!NoTarget}
           /\ \A v \in MirrorWorkers \ {w} : mWorker'[v] = mWorker[v]
    BY DEF Mirror!Then, MirrorInv, WorkersOK

\* What the places of the workers are in the lock.
LEMMA LockMoves ==
    ASSUME MirrorInv, NEW w \in MirrorWorkers,
           MP!Enter(w, "repo") \/ MP!Acquire(w) \/ MP!Unlock(w) \/ MP!Leave(w)
    PROVE  /\ MP!Acquire(w) => mKpc'[w] = "held"
           /\ \A v \in MirrorWorkers \ {w} : mKpc'[v] = mKpc[v]
<1>1. mKpc \in [MirrorWorkers -> {"out", "wait", "held", "leave"}]
    BY DEF MirrorInv, MP!IInv, MP!TypeOK
<1> QED
    BY <1>1 DEF MP!Enter, MP!Acquire, MP!Unlock, MP!Leave

\* Steps that take the lock, release it, or leave it alone.
LEMMA WorkerStep ==
    ASSUME MirrorInv, UNCHANGED subject, NEW w \in MirrorWorkers,
           \/ Mirror!TakePending(w) \/ Mirror!Lock(w) \/ Mirror!Acquire(w)
           \/ Mirror!SetRunning(w) \/ Mirror!SetStatus(w) \/ Mirror!Unlock(w)
           \/ Mirror!PushFails(w)
    PROVE  MirrorInv'
<1> DEFINE Rest == /\ UNCHANGED <<mUrl, mHead, mSpool, mirrored, caller, chan>>
                   /\ status' \in {"", "queued", "running", "synced", "failed"}
                   /\ pending' \in BOOLEAN
<1>1. /\ status \in {"", "queued", "running", "synced", "failed"} /\ pending \in BOOLEAN
      /\ mWorker[w].pc \in InLock => mKpc[w] = "held"
    BY DEF MirrorInv, MirrorState, PushesHoldTheLock
<1>2. Rest => ChanOK'
    BY DEF MirrorInv, ChanOK, Urls
<1>3. /\ {"idle", "taken", "lock", "wait", "running", "read", "push", "synced", "failed",
          "unlock", "leave"} = Mirror!Stages
      /\ InLock = {"running", "read", "push", "synced", "failed", "unlock"}
    BY DEF Mirror!Stages, InLock
<1>4. CASE Mirror!TakePending(w)
  <2>1. /\ Rest /\ Mirror!Then(w, "lock") /\ UNCHANGED MirrorLockVars
      BY <1>1, <1>4 DEF Mirror!TakePending, Mirror!mutexVars, MirrorLockVars
  <2>2. MP!IInv'
      BY <2>1, LockKept
  <2>3. mKpc' = mKpc
      BY <2>1 DEF MirrorLockVars
  <2> QED
      BY <1>2, <1>3, <2>1, <2>2, <2>3, ThenFields, WorkerMoves
<1>5. CASE Mirror!Lock(w)
  <2>1. Rest /\ Mirror!Then(w, "wait") /\ MP!Enter(w, "repo")
      BY <1>1, <1>5, MirrorLock DEF Mirror!Lock, Mirror!Repo
  <2>2. MP!IInv'
      BY <2>1, LockKept
  <2>3. /\ MP!Acquire(w) => mKpc'[w] = "held"
        /\ \A v \in MirrorWorkers \ {w} : mKpc'[v] = mKpc[v]
      BY <2>1, LockMoves
  <2> QED
      BY <1>2, <1>3, <2>1, <2>2, <2>3, ThenFields, WorkerMoves
<1>6. CASE Mirror!Acquire(w)
  <2>1. Rest /\ Mirror!Then(w, "running") /\ MP!Acquire(w)
      BY <1>1, <1>6, MirrorLock DEF Mirror!Acquire
  <2>2. MP!IInv'
      BY <2>1, LockKept
  <2>3. /\ MP!Acquire(w) => mKpc'[w] = "held"
        /\ \A v \in MirrorWorkers \ {w} : mKpc'[v] = mKpc[v]
      BY <2>1, LockMoves
  <2> QED
      BY <1>2, <1>3, <2>1, <2>2, <2>3, ThenFields, WorkerMoves
<1>7. CASE Mirror!SetRunning(w)
  <2>1. Rest /\ Mirror!Then(w, "read") /\ UNCHANGED MirrorLockVars /\ mWorker[w].pc = "running"
      BY <1>1, <1>7 DEF Mirror!SetRunning, Mirror!mutexVars, MirrorLockVars, Mirror!On
  <2>2. MP!IInv'
      BY <2>1, LockKept
  <2>3. mKpc' = mKpc
      BY <2>1 DEF MirrorLockVars
  <2> QED
      BY <1>1, <1>2, <1>3, <2>1, <2>2, <2>3, ThenFields, WorkerMoves
<1>8. CASE Mirror!SetStatus(w)
  <2>1. /\ Rest /\ Mirror!Then(w, "unlock") /\ UNCHANGED MirrorLockVars
        /\ mWorker[w].pc \in {"synced", "failed"}
      BY <1>1, <1>8 DEF Mirror!SetStatus, Mirror!mutexVars, MirrorLockVars
  <2>2. MP!IInv'
      BY <2>1, LockKept
  <2>3. mKpc' = mKpc
      BY <2>1 DEF MirrorLockVars
  <2> QED
      BY <1>1, <1>2, <1>3, <2>1, <2>2, <2>3, ThenFields, WorkerMoves
<1>9. CASE Mirror!Unlock(w)
  <2>1. Rest /\ Mirror!Then(w, "leave") /\ MP!Unlock(w)
      BY <1>1, <1>9, MirrorLock DEF Mirror!Unlock
  <2>2. MP!IInv'
      BY <2>1, LockKept
  <2>3. /\ MP!Acquire(w) => mKpc'[w] = "held"
        /\ \A v \in MirrorWorkers \ {w} : mKpc'[v] = mKpc[v]
      BY <2>1, LockMoves
  <2> QED
      BY <1>2, <1>3, <2>1, <2>2, <2>3, ThenFields, WorkerMoves
<1>10. CASE Mirror!PushFails(w)
  <2>1. Rest /\ Mirror!Then(w, "failed") /\ UNCHANGED MirrorLockVars /\ mWorker[w].pc = "push"
      BY <1>1, <1>10 DEF Mirror!PushFails, Mirror!mutexVars, MirrorLockVars, Mirror!On
  <2>2. MP!IInv'
      BY <2>1, LockKept
  <2>3. mKpc' = mKpc
      BY <2>1 DEF MirrorLockVars
  <2> QED
      BY <1>1, <1>2, <1>3, <2>1, <2>2, <2>3, ThenFields, WorkerMoves
<1> QED
    BY <1>4, <1>5, <1>6, <1>7, <1>8, <1>9, <1>10


\* A worker takes a job, of this repository or of another.
LEMMA TakeStep ==
    ASSUME MirrorInv, UNCHANGED subject, NEW w \in MirrorWorkers, Mirror!Take(w)
    PROVE  MirrorInv'
<1>1. /\ chan # << >> /\ chan' = Tail(chan)
      /\ mWorker' = IF Head(chan) = Mirror!Other THEN mWorker
                    ELSE [mWorker EXCEPT ![w] = [pc |-> "taken", url |-> Head(chan), snap |-> 0]]
      /\ UNCHANGED <<mUrl, status, mHead, mSpool, mirrored, caller, pending>>
      /\ UNCHANGED MirrorLockVars
    BY DEF Mirror!Take, Mirror!mutexVars, MirrorLockVars
<1>2. chan \in Seq(Urls \cup {Mirror!Other}) /\ Len(chan) <= Buf
    BY DEF MirrorInv, ChanOK
<1>3. ChanOK' /\ Head(chan) \in Urls \cup {Mirror!Other}
  <2>1. /\ chan' \in Seq(Urls \cup {Mirror!Other}) /\ Len(chan') = Len(chan) - 1
        /\ Head(chan) \in Urls \cup {Mirror!Other} /\ Len(chan) \in Nat
      BY <1>1, <1>2
  <2>2. Len(chan') <= Buf
      BY <1>2, <2>1, BackgroundAssumption DEF Mirror!MirrorAssumption
  <2> QED
      BY <2>1, <2>2 DEF ChanOK, Urls
<1>4. MP!IInv' /\ mKpc' = mKpc
    BY <1>1, LockKept DEF MirrorLockVars
<1>5. /\ status \in {"", "queued", "running", "synced", "failed"} /\ pending \in BOOLEAN
      /\ mHead \in Nat
    BY DEF MirrorInv, MirrorState
<1>6. CASE Head(chan) = Mirror!Other
  <2>1. mWorker' = mWorker
      BY <1>1, <1>6
  <2> QED
      BY <1>1, <1>3, <1>4, <2>1
      DEF MirrorInv, MirrorState, CallersOK, TargetsNamed, WorkersOK, PushesHoldTheLock,
          PushesAreNewest, Urls
<1>7. CASE Head(chan) # Mirror!Other
  <2>1. /\ mWorker' = [mWorker EXCEPT ![w] = [pc |-> "taken", url |-> Head(chan), snap |-> 0]]
        /\ Head(chan) \in Urls /\ "taken" \in Mirror!Stages
      BY <1>1, <1>3, <1>7 DEF Mirror!Stages
  <2>2. /\ mWorker' \in [MirrorWorkers ->
             [pc : Mirror!Stages, url : Urls \cup {Mirror!NoTarget}, snap : 0 .. mHead]]
        /\ mWorker'[w].pc = "taken"
        /\ \A v \in MirrorWorkers \ {w} : mWorker'[v] = mWorker[v]
      BY <2>1, TargetsBehind DEF MirrorInv, WorkersOK
  <2>3. "taken" \notin InLock /\ "taken" # "push"
      BY DEF InLock
  <2> QED
      BY <1>1, <1>3, <1>4, <1>5, <2>2, <2>3, WorkerMoves
<1> QED
    BY <1>6, <1>7

\* The list of refs that a push sends is as new as the repository.
LEMMA ReadRefsStep ==
    ASSUME MirrorInv, UNCHANGED subject, NEW w \in MirrorWorkers, Mirror!ReadRefs(w)
    PROVE  MirrorInv'
<1>1. /\ mWorker[w].pc = "read"
      /\ mWorker' = [mWorker EXCEPT ![w].pc = "push", ![w].snap = mHead]
      /\ UNCHANGED <<mUrl, status, mHead, mSpool, mirrored, caller, chan, pending>>
      /\ UNCHANGED MirrorLockVars
    BY DEF Mirror!ReadRefs, Mirror!On, Mirror!mutexVars, MirrorLockVars
<1>2. MP!IInv' /\ mKpc' = mKpc
    BY <1>1, LockKept DEF MirrorLockVars
<1>3. mHead \in 0 .. mHead /\ "push" \in Mirror!Stages
    BY TargetsBehind DEF Mirror!Stages
<1>4. /\ mWorker' \in [MirrorWorkers ->
           [pc : Mirror!Stages, url : Urls \cup {Mirror!NoTarget}, snap : 0 .. mHead]]
      /\ mWorker'[w].pc = "push" /\ mWorker'[w].snap = mHead
      /\ \A v \in MirrorWorkers \ {w} : mWorker'[v] = mWorker[v]
    BY <1>1, <1>3 DEF MirrorInv, WorkersOK
<1>5. mKpc'[w] = "held"
    BY <1>1, <1>2 DEF MirrorInv, PushesHoldTheLock, InLock
<1>6. /\ status \in {"", "queued", "running", "synced", "failed"} /\ pending \in BOOLEAN
      /\ ChanOK'
    BY <1>1 DEF MirrorInv, MirrorState, ChanOK, Urls
<1> QED
    BY <1>1, <1>2, <1>4, <1>5, <1>6, WorkerMoves

\* The target gets what the push lists, which is no less than it has; no other push
\* is under way.
LEMMA PushMirrorStep ==
    ASSUME MirrorInv, UNCHANGED subject, NEW w \in MirrorWorkers, Mirror!PushMirror(w)
    PROVE  MirrorInv' /\ \A u \in Urls : mirrored'[u] >= mirrored[u]
<1>1. /\ mWorker[w].pc = "push" /\ Mirror!Then(w, "synced")
      /\ mirrored' = [mirrored EXCEPT ![mWorker[w].url] = mWorker[w].snap]
      /\ UNCHANGED <<mUrl, status, mHead, mSpool, caller, chan, pending>>
      /\ UNCHANGED MirrorLockVars
    BY DEF Mirror!PushMirror, Mirror!On, Mirror!mutexVars, MirrorLockVars
<1>2. MP!IInv' /\ mKpc' = mKpc
    BY <1>1, LockKept DEF MirrorLockVars
<1>3. "synced" \in Mirror!Stages /\ "push" \in InLock
    BY DEF Mirror!Stages, InLock
<1>4. /\ mWorker' \in [MirrorWorkers ->
           [pc : Mirror!Stages, url : Urls \cup {Mirror!NoTarget}, snap : 0 .. mHead]]
      /\ mWorker'[w].pc = "synced" /\ mWorker[w].snap \in 0 .. mHead
      /\ \A v \in MirrorWorkers \ {w} : mWorker'[v] = mWorker[v]
    BY <1>1, <1>3, ThenFields
<1>5. Urls' = Urls
    BY DEF Urls
<1>6. mirrored \in [Urls -> 0 .. mHead] /\ mHead \in Nat
    BY DEF MirrorInv, MirrorState
<1>7. mirrored' \in [Urls -> 0 .. mHead]
    BY <1>1, <1>4, <1>6
<1>8. MirrorState' /\ CallersOK' /\ ChanOK' /\ WorkersOK'
    BY <1>1, <1>4, <1>5, <1>7
    DEF MirrorInv, MirrorState, CallersOK, TargetsNamed, ChanOK, WorkersOK
<1>9. PushesHoldTheLock'
  <2>1. mKpc[w] = "held"
      BY <1>1, <1>3 DEF MirrorInv, PushesHoldTheLock
  <2> QED
      BY <1>2, <1>4, <2>1 DEF MirrorInv, PushesHoldTheLock
<1>10. PushesAreNewest'
  <2>1. ASSUME NEW v \in MirrorWorkers, mWorker'[v].pc = "push" PROVE FALSE
    <3>1. v # w /\ mWorker[v].pc = "push"
        BY <1>4, <2>1
    <3> QED
        BY <1>1, <1>3, <3>1, OnePush
  <2> QED
      BY <2>1 DEF PushesAreNewest
<1>11. ASSUME NEW u \in Urls PROVE mirrored'[u] >= mirrored[u]
  <2>1. mirrored[u] <= mWorker[w].snap
      BY <1>1 DEF MirrorInv, PushesAreNewest
  <2>2. mirrored[u] \in Nat /\ mWorker[w].snap \in Nat
      BY <1>4, <1>6
  <2>3. mirrored'[u] = mWorker[w].snap \/ mirrored'[u] = mirrored[u]
      BY <1>1, <1>6
  <2> QED
      BY <2>1, <2>2, <2>3
<1> QED
    BY <1>2, <1>8, <1>9, <1>10, <1>11 DEF MirrorInv

LEMMA LeaveStep ==
    ASSUME MirrorInv, UNCHANGED subject, NEW w \in MirrorWorkers, Mirror!Leave(w)
    PROVE  MirrorInv'
<1>1. /\ MP!Leave(w) /\ mWorker' = [mWorker EXCEPT ![w] = Mirror!Idle]
      /\ UNCHANGED <<mUrl, status, mHead, mSpool, mirrored, caller, chan, pending>>
    BY MirrorLock DEF Mirror!Leave
<1>2. MP!IInv' /\ \A v \in MirrorWorkers \ {w} : mKpc'[v] = mKpc[v]
    BY <1>1, LockKept, LockMoves
<1>3. 0 \in 0 .. mHead
    BY TargetsBehind
<1>4. /\ mWorker' \in [MirrorWorkers ->
           [pc : Mirror!Stages, url : Urls \cup {Mirror!NoTarget}, snap : 0 .. mHead]]
      /\ mWorker'[w].pc = "idle"
      /\ \A v \in MirrorWorkers \ {w} : mWorker'[v] = mWorker[v]
    BY <1>1, <1>3 DEF MirrorInv, WorkersOK, Mirror!Idle, Mirror!Stages
<1>5. /\ status \in {"", "queued", "running", "synced", "failed"} /\ pending \in BOOLEAN
      /\ ChanOK'
    BY <1>1 DEF MirrorInv, MirrorState, ChanOK, Urls
<1>6. "idle" \notin InLock /\ "idle" # "push"
    BY DEF InLock
<1> QED
    BY <1>1, <1>2, <1>4, <1>5, <1>6, WorkerMoves

----------------------------------------------------------------------------
MirrorRuns == subject \in {"mirror", "mirror targets"}

LEMMA SameNumber == \A i \in Nat : i >= i
    OBVIOUS

LEMMA MirrorNext ==
    ASSUME MirrorInv, UNCHANGED subject,
           \/ subject = "mirror" /\ Mirror!Next
           \/ subject = "mirror targets" /\ MirrorTargets!Next
    PROVE  MirrorInv' /\ \A u \in Urls : mirrored'[u] >= mirrored[u]
<1>1. MirrorInv /\ mirrored' = mirrored => \A u \in Urls : mirrored'[u] >= mirrored[u]
    BY TargetsBehind, SameNumber
<1>2. ASSUME Mirror!Push \/ MirrorTargets!Push \/ Mirror!OtherJob \/ Mirror!Restart
      PROVE  MirrorInv' /\ mirrored' = mirrored
    BY <1>2, PushStep, OtherJobStep, RestartStep
    DEF Mirror!Push, MirrorTargets!Push, Mirror!OtherJob, Mirror!Restart
<1>3. ASSUME NEW c \in MirrorCallers, Mirror!Caller(c)
      PROVE  MirrorInv' /\ mirrored' = mirrored
    BY <1>3, CallerStep
    DEF Mirror!Caller, Mirror!PushEvent, Mirror!SetQueued, Mirror!Enqueue, Mirror!Send,
        Mirror!Unmark, Mirror!SetFailed, Mirror!ResetStatus
<1>4. ASSUME NEW c \in MirrorCallers,
             \/ Mirror!SyncMirror(c) \/ MirrorTargets!SyncMirror(c)
             \/ subject = "mirror" /\ Mirror!SetMirror(c)
             \/ subject = "mirror targets" /\ MirrorTargets!SetMirror(c)
      PROVE  MirrorInv' /\ mirrored' = mirrored
    BY <1>4, RequestStep
    DEF Mirror!SyncMirror, MirrorTargets!SyncMirror, Mirror!SetMirror, MirrorTargets!SetMirror
<1>5. ASSUME NEW w \in MirrorWorkers,
             \/ Mirror!TakePending(w) \/ Mirror!Lock(w) \/ Mirror!Acquire(w)
             \/ Mirror!SetRunning(w) \/ Mirror!SetStatus(w) \/ Mirror!Unlock(w)
             \/ Mirror!PushFails(w)
      PROVE  MirrorInv' /\ mirrored' = mirrored
    BY <1>5, WorkerStep
    DEF Mirror!TakePending, Mirror!Lock, Mirror!Acquire, Mirror!SetRunning, Mirror!SetStatus,
        Mirror!Unlock, Mirror!PushFails
<1>6. ASSUME NEW w \in MirrorWorkers, Mirror!Take(w) \/ Mirror!ReadRefs(w) \/ Mirror!Leave(w)
      PROVE  MirrorInv' /\ mirrored' = mirrored
    BY <1>6, TakeStep, ReadRefsStep, LeaveStep DEF Mirror!Take, Mirror!ReadRefs, Mirror!Leave
<1>7. ASSUME NEW w \in MirrorWorkers, Mirror!Worker(w)
      PROVE  MirrorInv' /\ \A u \in Urls : mirrored'[u] >= mirrored[u]
    BY <1>1, <1>5, <1>6, <1>7, PushMirrorStep DEF Mirror!Worker
<1>8. ASSUME NEW w \in MirrorWorkers, Mirror!PushFails(w)
      PROVE  MirrorInv' /\ \A u \in Urls : mirrored'[u] >= mirrored[u]
    BY <1>1, <1>5, <1>8
<1>9. CASE subject = "mirror" /\ Mirror!Next
    BY <1>1, <1>2, <1>3, <1>4, <1>7, <1>8, <1>9 DEF Mirror!Next
<1>10. CASE subject = "mirror targets" /\ MirrorTargets!Next
    BY <1>1, <1>2, <1>3, <1>4, <1>7, <1>8, <1>10, MirrorSame DEF MirrorTargets!Next
<1> QED
    BY <1>9, <1>10

LEMMA MirrorInit == BackgroundInit => MirrorInv
<1> SUFFICES ASSUME BackgroundInit PROVE MirrorInv
    OBVIOUS
<1>1. /\ mUrl \in Urls /\ status = "" /\ mHead = 0 /\ mSpool = 0
      /\ mirrored = [u \in Urls |-> 0]
      /\ caller = [c \in MirrorCallers |-> Mirror!Asleep]
      /\ chan = << >> /\ pending = FALSE
      /\ mWorker = [w \in MirrorWorkers |-> Mirror!Idle]
      /\ MP!Init
    BY DEF BackgroundInit, Mirror!Init, MirrorTargets!Init, Urls, Mirror!Mutex!Init,
           MirrorTargets!Mutex!Init, MP!Init, MP!None, Mirror!Mutex!None, MirrorTargets!Mutex!None,
           Mirror!Repo, MirrorTargets!Repo, Mirror!Asleep, MirrorTargets!Asleep, Mirror!Idle,
           MirrorTargets!Idle, Mirror!NoTarget, MirrorTargets!NoTarget
<1>2. 0 \in 0 .. 0 /\ 0 \in Nat
    OBVIOUS
<1>3. MirrorState
  <2>1. mirrored \in [Urls -> 0 .. 0]
      BY <1>2, <1>1
  <2> QED
      BY <1>2, <1>1, <2>1 DEF MirrorState
<1>4. CallersOK
    BY <1>1 DEF CallersOK, TargetsNamed, Mirror!Asleep, Mirror!Errands
<1>5. ChanOK
  <2>1. << >> \in Seq(Urls \cup {Mirror!Other}) /\ Len(<< >>) = 0
      OBVIOUS
  <2>2. Buf \in Nat
      BY BackgroundAssumption DEF Mirror!MirrorAssumption
  <2>3. 0 <= Buf
      BY <2>2
  <2> QED
      BY <1>1, <2>1, <2>3 DEF ChanOK
<1>6. WorkersOK
    BY <1>2, <1>1 DEF WorkersOK, Mirror!Idle, Mirror!Stages
<1>7. PushesHoldTheLock /\ PushesAreNewest
    BY <1>1 DEF PushesHoldTheLock, PushesAreNewest, Mirror!Idle, InLock
<1> QED
    BY <1>1, <1>3, <1>4, <1>5, <1>6, <1>7, LockFree DEF MirrorInv

LEMMA MirrorSteps ==
    ASSUME [BackgroundNext]_vars
    PROVE  /\ UNCHANGED subject
           /\ \/ subject = "mirror" /\ Mirror!Next
              \/ subject = "mirror targets" /\ MirrorTargets!Next
              \/ UNCHANGED mirrorVars
<1>1. CASE BackgroundNext
    BY <1>1 DEF BackgroundNext, Others
<1>2. CASE UNCHANGED vars
    BY <1>2 DEF vars
<1> QED
    BY <1>1, <1>2

LEMMA MirrorStill ==
    ASSUME MirrorInv, UNCHANGED subject, UNCHANGED mirrorVars
    PROVE  MirrorInv'
<1>1. /\ UNCHANGED <<subject, mUrl, status, mHead, mSpool, mirrored, caller, chan, pending,
                    mWorker>>
      /\ UNCHANGED MirrorLockVars
    BY DEF mirrorVars, MirrorLockVars
<1>2. WorkersOK' /\ MP!IInv' /\ PushesHoldTheLock' /\ PushesAreNewest'
    BY <1>1, CallersKeep
<1>3. MirrorState' /\ CallersOK' /\ ChanOK'
    BY <1>1 DEF MirrorInv, MirrorState, CallersOK, TargetsNamed, ChanOK, Urls
<1> QED
    BY <1>2, <1>3 DEF MirrorInv

LEMMA MirrorInvariance == BackgroundSpec => []MirrorInv
<1>1. MirrorInv /\ [BackgroundNext]_vars => MirrorInv'
    BY MirrorSteps, MirrorNext, MirrorStill DEF MirrorRuns
<1> QED
    BY MirrorInit, <1>1, PTL DEF BackgroundSpec

\* A target never goes back: a push lands with the list of refs it read under the
\* repository's lock, and every push that landed before had read an older one or the
\* same (mirrorMu, jobs.go:476-480), for any number of workers and targets and
\* across restarts.
THEOREM TargetsGoForward == BackgroundSpec => NeverGoesBack
<1>1. MirrorInv /\ [BackgroundNext]_vars
      => [/\ subject = "mirror" => Mirror!GoesForward
          /\ subject = "mirror targets" => MirrorTargets!GoesForward]_mirrorVars
  <2> SUFFICES ASSUME MirrorInv, [BackgroundNext]_vars, ~UNCHANGED mirrorVars
               PROVE  /\ subject = "mirror" => Mirror!GoesForward
                      /\ subject = "mirror targets" => MirrorTargets!GoesForward
      OBVIOUS
  <2>1. MirrorRuns => \A u \in Urls : mirrored'[u] >= mirrored[u]
      BY MirrorSteps, MirrorNext
  <2> QED
      BY <2>1 DEF MirrorRuns, Urls, Mirror!GoesForward, MirrorTargets!GoesForward
<1> QED
    BY MirrorInvariance, <1>1, PTL DEF BackgroundSpec, NeverGoesBack

----------------------------------------------------------------------------
(* The code index, with asynq and with the in-process queue.               *)

\* The proofs about CodeIndex, for the two instances of it.
IR == INSTANCE CodeIndexProofs WITH
    Paths <- IndexPaths, Size <- BlobSize, Tree <- IndexTree, Redis <- TRUE,
    MaxFaults <- IndexFaults

IM == INSTANCE CodeIndexProofs WITH
    Paths <- MemoryPaths, Size <- BlobSize, Tree <- MemoryTree, Redis <- FALSE,
    MaxFaults <- IndexFaults

LEMMA RedisSame ==
    /\ IndexRedis!CodeIndexAssumption <=> IR!CodeIndexAssumption
    /\ IndexRedis!Init => IR!Init
    /\ IndexRedis!Next => IR!Next
    /\ IR!NoForeignLine <=> IndexRedis!NoForeignLine
    /\ IR!CurrentIsExact <=> IndexRedis!CurrentIsExact
    /\ IR!NeverRecreated <=> IndexRedis!NeverRecreated
    /\ IR!NeverBack <=> IndexRedis!NeverBack
<1>1. IndexRedis!CodeIndexAssumption <=> IR!CodeIndexAssumption
    BY DEF IndexRedis!CodeIndexAssumption, IR!CodeIndexAssumption,
       IndexRedis!Ids, IR!Ids, IndexRedis!Blobs, IR!Blobs, IndexRedis!Trees, IR!Trees
<1>2. IndexRedis!Init => IR!Init
    BY DEF IndexRedis!Init, IR!Init,
       IndexRedis!NoManifest, IR!NoManifest, IndexRedis!NoMeta, IR!NoMeta,
       IndexRedis!NoJob, IR!NoJob, IndexRedis!NoCommit, IR!NoCommit
<1>3. IndexRedis!Next => IR!Next
    BY DEF IndexRedis!Next, IR!Next,
       IndexRedis!Take, IR!Take, IndexRedis!Index, IR!Index, IndexRedis!Resolve, IR!Resolve,
       IndexRedis!ListTree, IR!ListTree, IndexRedis!ReadMeta, IR!ReadMeta,
       IndexRedis!ReadManifest, IR!ReadManifest, IndexRedis!Lock, IR!Lock,
       IndexRedis!Leave, IR!Leave, IndexRedis!DeleteDocs, IR!DeleteDocs,
       IndexRedis!IndexFile, IR!IndexFile, IndexRedis!Fail, IR!Fail,
       IndexRedis!SaveManifest, IR!SaveManifest, IndexRedis!SetMeta, IR!SetMeta,
       IndexRedis!CheckHead, IR!CheckHead, IndexRedis!Unmark, IR!Unmark,
       IndexRedis!Push, IR!Push, IndexRedis!Hook, IR!Hook, IndexRedis!HookSpool, IR!HookSpool,
       IndexRedis!HookMark, IR!HookMark, IndexRedis!PushEvent, IR!PushEvent,
       IndexRedis!Backfill, IR!Backfill, IndexRedis!Enqueue, IR!Enqueue,
       IndexRedis!DeleteRow, IR!DeleteRow, IndexRedis!Deletes, IR!Deletes,
       IndexRedis!DeleteDisk, IR!DeleteDisk, IndexRedis!DeleteForget, IR!DeleteForget,
       IndexRedis!Forget, IR!Forget, IndexRedis!Prunes, IR!Prunes,
       IndexRedis!PruneCheck, IR!PruneCheck, IndexRedis!PruneForget, IR!PruneForget,
       IndexRedis!Recreate, IR!Recreate, IndexRedis!Crash, IR!Crash,
       IndexRedis!NeedsIndex, IR!NeedsIndex, IndexRedis!HeadSHA, IR!HeadSHA,
       IndexRedis!HeadTree, IR!HeadTree, IndexRedis!Changed, IR!Changed,
       IndexRedis!Stale, IR!Stale, IndexRedis!Full, IR!Full, IndexRedis!Files, IR!Files,
       IndexRedis!Overwrite, IR!Overwrite, IndexRedis!Ids, IR!Ids, IndexRedis!NoJob, IR!NoJob,
       IndexRedis!NoManifest, IR!NoManifest, IndexRedis!NoCommit, IR!NoCommit,
       IndexRedis!NoMeta, IR!NoMeta, IndexRedis!repoVars, IR!repoVars,
       IndexRedis!hookVars, IR!hookVars, IndexRedis!queueVars, IR!queueVars,
       IndexRedis!indexVars, IR!indexVars
<1>4. IR!NoForeignLine <=> IndexRedis!NoForeignLine
    BY DEF IndexRedis!NoForeignLine, IR!NoForeignLine,
       IndexRedis!Ready, IR!Ready
<1>5. IR!CurrentIsExact <=> IndexRedis!CurrentIsExact
    BY DEF IndexRedis!CurrentIsExact, IR!CurrentIsExact,
       IndexRedis!Ready, IR!Ready, IndexRedis!HeadSHA, IR!HeadSHA, IndexRedis!Exact, IR!Exact,
       IndexRedis!HeadTree, IR!HeadTree, IndexRedis!NoCommit, IR!NoCommit
<1>6. IR!NeverRecreated <=> IndexRedis!NeverRecreated
    BY DEF IndexRedis!NeverRecreated, IR!NeverRecreated,
       IndexRedis!Ids, IR!Ids
<1>7. IR!NeverBack <=> IndexRedis!NeverBack
    BY DEF IndexRedis!NeverBack, IR!NeverBack,
       IndexRedis!Ids, IR!Ids
<1> QED
    BY <1>1, <1>2, <1>3, <1>4, <1>5, <1>6, <1>7

LEMMA MemorySame ==
    /\ IndexMemory!CodeIndexAssumption <=> IM!CodeIndexAssumption
    /\ IndexMemory!Init => IM!Init
    /\ IndexMemory!Next => IM!Next
    /\ IM!NoForeignLine <=> IndexMemory!NoForeignLine
<1>1. IndexMemory!CodeIndexAssumption <=> IM!CodeIndexAssumption
    BY DEF IndexMemory!CodeIndexAssumption, IM!CodeIndexAssumption,
       IndexMemory!Ids, IM!Ids, IndexMemory!Blobs, IM!Blobs, IndexMemory!Trees, IM!Trees
<1>2. IndexMemory!Init => IM!Init
    BY DEF IndexMemory!Init, IM!Init,
       IndexMemory!NoManifest, IM!NoManifest, IndexMemory!NoMeta, IM!NoMeta,
       IndexMemory!NoJob, IM!NoJob, IndexMemory!NoCommit, IM!NoCommit
<1>3. IndexMemory!Next => IM!Next
    BY DEF IndexMemory!Next, IM!Next,
       IndexMemory!Take, IM!Take, IndexMemory!Index, IM!Index, IndexMemory!Resolve, IM!Resolve,
       IndexMemory!ListTree, IM!ListTree, IndexMemory!ReadMeta, IM!ReadMeta,
       IndexMemory!ReadManifest, IM!ReadManifest, IndexMemory!Lock, IM!Lock,
       IndexMemory!Leave, IM!Leave, IndexMemory!DeleteDocs, IM!DeleteDocs,
       IndexMemory!IndexFile, IM!IndexFile, IndexMemory!Fail, IM!Fail,
       IndexMemory!SaveManifest, IM!SaveManifest, IndexMemory!SetMeta, IM!SetMeta,
       IndexMemory!CheckHead, IM!CheckHead, IndexMemory!Unmark, IM!Unmark,
       IndexMemory!Push, IM!Push, IndexMemory!Hook, IM!Hook,
       IndexMemory!HookSpool, IM!HookSpool, IndexMemory!HookMark, IM!HookMark,
       IndexMemory!PushEvent, IM!PushEvent, IndexMemory!Backfill, IM!Backfill,
       IndexMemory!Enqueue, IM!Enqueue, IndexMemory!DeleteRow, IM!DeleteRow,
       IndexMemory!Deletes, IM!Deletes, IndexMemory!DeleteDisk, IM!DeleteDisk,
       IndexMemory!DeleteForget, IM!DeleteForget, IndexMemory!Forget, IM!Forget,
       IndexMemory!Prunes, IM!Prunes, IndexMemory!PruneCheck, IM!PruneCheck,
       IndexMemory!PruneForget, IM!PruneForget, IndexMemory!Recreate, IM!Recreate,
       IndexMemory!Crash, IM!Crash, IndexMemory!NeedsIndex, IM!NeedsIndex,
       IndexMemory!HeadSHA, IM!HeadSHA, IndexMemory!HeadTree, IM!HeadTree,
       IndexMemory!Changed, IM!Changed, IndexMemory!Stale, IM!Stale, IndexMemory!Full, IM!Full,
       IndexMemory!Files, IM!Files, IndexMemory!Overwrite, IM!Overwrite,
       IndexMemory!Ids, IM!Ids, IndexMemory!NoJob, IM!NoJob,
       IndexMemory!NoManifest, IM!NoManifest, IndexMemory!NoCommit, IM!NoCommit,
       IndexMemory!NoMeta, IM!NoMeta, IndexMemory!repoVars, IM!repoVars,
       IndexMemory!hookVars, IM!hookVars, IndexMemory!queueVars, IM!queueVars,
       IndexMemory!indexVars, IM!indexVars
<1>4. IM!NoForeignLine <=> IndexMemory!NoForeignLine
    BY DEF IndexMemory!NoForeignLine, IM!NoForeignLine,
       IndexMemory!Ready, IM!Ready
<1> QED
    BY <1>1, <1>2, <1>3, <1>4

RunsRedis  == subject = "index redis"
RunsMemory == subject = "index memory"

LEMMA IndexSubjectStays ==
    ASSUME [BackgroundNext]_vars
    PROVE  /\ UNCHANGED subject
           /\ RunsRedis => IndexRedis!Next \/ UNCHANGED indexVars
           /\ RunsMemory => IndexMemory!Next \/ UNCHANGED indexVars
<1>1. CASE BackgroundNext
    BY <1>1 DEF BackgroundNext, Others, RunsRedis, RunsMemory
<1>2. CASE UNCHANGED vars
    BY <1>2 DEF vars
<1> QED
    BY <1>1, <1>2

\* A behaviour of Background about an index is one of CodeIndex.
LEMMA RedisBehaves ==
    BackgroundSpec =>
      ((RunsRedis /\ IR!SafetySpec /\ []RunsRedis) \/ [](~RunsRedis))
<1>1. BackgroundInit /\ RunsRedis => IR!Init
    BY RedisSame DEF BackgroundInit, RunsRedis
<1>2. RunsRedis /\ [BackgroundNext]_vars => RunsRedis' /\ [IR!Next]_(IR!vars)
    BY IndexSubjectStays, RedisSame
    DEF RunsRedis, indexVars, IR!vars, IR!repoVars, IR!hookVars, IR!queueVars, IR!indexVars
<1>3. ~RunsRedis /\ [BackgroundNext]_vars => (~RunsRedis)'
    BY IndexSubjectStays DEF RunsRedis
<1> QED
    BY <1>1, <1>2, <1>3, PTL DEF BackgroundSpec, IR!SafetySpec

LEMMA MemoryBehaves ==
    BackgroundSpec =>
      ((RunsMemory /\ IM!SafetySpec /\ []RunsMemory) \/ [](~RunsMemory))
<1>1. BackgroundInit /\ RunsMemory => IM!Init
    BY MemorySame DEF BackgroundInit, RunsMemory
<1>2. RunsMemory /\ [BackgroundNext]_vars => RunsMemory' /\ [IM!Next]_(IM!vars)
    BY IndexSubjectStays, MemorySame
    DEF RunsMemory, indexVars, IM!vars, IM!repoVars, IM!hookVars, IM!queueVars, IM!indexVars
<1>3. ~RunsMemory /\ [BackgroundNext]_vars => (~RunsMemory)'
    BY IndexSubjectStays DEF RunsMemory
<1> QED
    BY <1>1, <1>2, <1>3, PTL DEF BackgroundSpec, IM!SafetySpec

\* A served index holds no line of an earlier repository of the name, however many
\* deletions, re-creations, late Forgets and stale tasks there were (Ready and
\* Forget, bleve.go:182-199, 494-514): the entry names the repository of the task, and
\* a rebuild keeps documents only of the repository that it found there.
THEOREM NoLineOfAnEarlierRepository == BackgroundSpec => []NoForeignLine
<1>1. IR!CodeIndexAssumption /\ IM!CodeIndexAssumption
    BY BackgroundAssumption, RedisSame, MemorySame
<1>2. IR!SafetySpec => []IR!NoForeignLine
    BY <1>1, IR!ServesNoForeignLine
<1>3. IM!SafetySpec => []IM!NoForeignLine
    BY <1>1, IM!ServesNoForeignLine
<1>4. IR!NoForeignLine /\ ~RunsMemory => NoForeignLine
    BY RedisSame DEF NoForeignLine, RunsMemory
<1>5. IM!NoForeignLine /\ ~RunsRedis => NoForeignLine
    BY MemorySame DEF NoForeignLine, RunsRedis
<1>6. ~RunsRedis /\ ~RunsMemory => NoForeignLine
    BY DEF NoForeignLine, RunsRedis, RunsMemory
<1>7. RunsRedis => ~RunsMemory
    BY DEF RunsRedis, RunsMemory
<1> QED
    BY <1>2, <1>3, <1>4, <1>5, <1>6, <1>7, RedisBehaves, MemoryBehaves, PTL

\* With asynq a served index that names the commit of HEAD holds exactly its lines,
\* for every number of workers, files, commits, concurrent pushes, failed rebuilds
\* and crashes (Index, bleve.go:250-339), provided that the name is not used again
\* and no file returns to a blob it had: the two cases in which the code does not
\* have it.
THEOREM TheServedCommitIsExact ==
    IndexRedis!NeverRecreated /\ IndexRedis!NeverBack => (BackgroundSpec => []CurrentIsExact)
<1> SUFFICES ASSUME IndexRedis!NeverRecreated, IndexRedis!NeverBack
             PROVE  BackgroundSpec => []CurrentIsExact
    OBVIOUS
<1>1. IR!CodeIndexAssumption
    BY BackgroundAssumption, RedisSame
<1>2. IR!NeverRecreated /\ IR!NeverBack /\ IR!OneTask
    BY RedisSame DEF IR!OneTask
<1>3. IR!SafetySpec => []IR!CurrentIsExact
    BY <1>1, <1>2, IR!ServesTheCommit
<1>4. IR!CurrentIsExact => CurrentIsExact
    BY RedisSame DEF CurrentIsExact
<1>5. ~RunsRedis => CurrentIsExact
    BY DEF CurrentIsExact, RunsRedis
<1> QED
    BY <1>3, <1>4, <1>5, RedisBehaves, PTL

----------------------------------------------------------------------------
(* The types of every component.                                           *)

\* The lock per key, on its own.
KM == INSTANCE KeyedMutexProofs

LEMMA KeyedMutexSame ==
    /\ KM!KeyedMutexAssumption /\ (Init => KM!Init) /\ ([Next]_kvars => [KM!Next]_(KM!kvars))
    /\ KM!TypeOK => TypeOK
    /\ KM!Exclusion => Exclusion
    BY KeyedMutexAssumption
    DEF KM!KeyedMutexAssumption, None, KM!None, Init, KM!Init, Next, KM!Next, KM!Step, Step,
        Enter, KM!Enter, Acquire, KM!Acquire, Unlock, KM!Unlock, Leave, KM!Leave, Live, KM!Live,
        TypeOK, KM!TypeOK, kvars, KM!kvars, Exclusion, KM!Exclusion, IsFiniteSet, KM!IsFiniteSet

LEMMA KeyedMutexInvariance == BackgroundSpec => []KM!IInv
<1>1. BackgroundInit => KM!IInv
    BY KeyedMutexSame, KM!InitIInv DEF BackgroundInit
<1>2. [BackgroundNext]_vars => [Next]_kvars
    BY DEF BackgroundNext, Others, vars
<1>3. KM!IInv /\ [BackgroundNext]_vars => KM!IInv'
    BY <1>2, KeyedMutexSame, KM!NextIInv
<1> QED
    BY <1>1, <1>3, PTL DEF BackgroundSpec

\* The index; one that is not the subject is an asynq one that rests.
IndexTypes == IF subject = "index memory" THEN IM!TypeOK ELSE IR!TypeOK

LEMMA IndexTypesInvariance == BackgroundSpec => []IndexTypes
<1>1. IR!CodeIndexAssumption /\ IM!CodeIndexAssumption
    BY BackgroundAssumption, RedisSame, MemorySame
<1>2. BackgroundInit => IndexTypes
    BY <1>1, RedisSame, MemorySame, IR!InitTypeOK, IM!InitTypeOK DEF BackgroundInit, IndexTypes
<1>3. [BackgroundNext]_vars =>
        /\ UNCHANGED subject
        /\ IF subject = "index memory" THEN [IM!Next]_(IM!vars) ELSE [IR!Next]_(IR!vars)
  <2>1. CASE BackgroundNext
      BY <2>1, RedisSame, MemorySame
      DEF BackgroundNext, Others, indexVars, IR!vars, IR!repoVars, IR!hookVars, IR!queueVars,
          IR!indexVars, IM!vars, IM!repoVars, IM!hookVars, IM!queueVars, IM!indexVars
  <2>2. CASE UNCHANGED vars
      BY <2>2
      DEF vars, indexVars, IR!vars, IR!repoVars, IR!hookVars, IR!queueVars,
          IR!indexVars, IM!vars, IM!repoVars, IM!hookVars, IM!queueVars, IM!indexVars
  <2> QED
      BY <2>1, <2>2
<1>4. IndexTypes /\ [BackgroundNext]_vars => IndexTypes'
    BY <1>1, <1>3, IR!NextTypeOK, IM!NextTypeOK DEF IndexTypes
<1> QED
    BY <1>2, <1>4, PTL DEF BackgroundSpec

LEMMA RedisTypesSame == IR!TypeOK => IndexRedis!TypeOK
    BY DEF IR!TypeOK, IndexRedis!TypeOK, IR!Ids, IndexRedis!Ids, IR!Blobs, IndexRedis!Blobs,
       IR!Manifests, IndexRedis!Manifests, IR!Trees, IndexRedis!Trees,
       IR!NoManifest, IndexRedis!NoManifest, IR!Shas, IndexRedis!Shas,
       IR!Jobs, IndexRedis!Jobs, IR!Stages, IndexRedis!Stages

LEMMA MemoryTypesSame == IM!TypeOK => IndexMemory!TypeOK
    BY DEF IM!TypeOK, IndexMemory!TypeOK, IM!Ids, IndexMemory!Ids, IM!Blobs, IndexMemory!Blobs,
       IM!Manifests, IndexMemory!Manifests, IM!Trees, IndexMemory!Trees,
       IM!NoManifest, IndexMemory!NoManifest, IM!Shas, IndexMemory!Shas,
       IM!Jobs, IndexMemory!Jobs, IM!Stages, IndexMemory!Stages

\* The runs' steps and the cache.
WorkspaceTypes ==
    IF subject = "cache" THEN CP!TypeOK /\ CP!AtStep ELSE SP!TypeOK /\ SP!AtStep

LEMMA WorkspaceTypesInvariance == BackgroundSpec => []WorkspaceTypes
<1>1. SP!WorkspaceAssumption /\ CP!WorkspaceAssumption
    BY BackgroundAssumption, StepsSame, CacheSame
<1>2. BackgroundInit => WorkspaceTypes
    BY <1>1, StepsSame, CacheSame, SP!InitInv, CP!InitInv DEF BackgroundInit, WorkspaceTypes
<1>3. [BackgroundNext]_vars =>
        /\ UNCHANGED subject
        /\ IF subject = "cache" THEN [CP!Next]_(CP!vars) ELSE [SP!Next]_(SP!vars)
  <2>1. CASE BackgroundNext
      BY <2>1, StepsSame, CacheSame
      DEF BackgroundNext, Others, workspaceVars, SP!vars, CP!vars
  <2>2. CASE UNCHANGED vars
      BY <2>2 DEF vars, workspaceVars, SP!vars, CP!vars
  <2> QED
      BY <2>1, <2>2
<1>4. WorkspaceTypes /\ [BackgroundNext]_vars => WorkspaceTypes'
    BY <1>1, <1>3, SP!TypeStep, CP!TypeStep DEF WorkspaceTypes
<1> QED
    BY <1>2, <1>4, PTL DEF BackgroundSpec

\* The pushes to the mirrored repository stay within the bound of its instance.
RunsTargets   == subject = "mirror targets"
PushesBounded == (RunsTargets => mHead <= SyncHead) /\ (~RunsTargets => mHead <= PushHead)

\* Only a push moves the head, and not past the bound.
LEMMA MirrorHead ==
    /\ Mirror!Next => mHead' = mHead \/ (mHead < PushHead /\ mHead' = mHead + 1)
    /\ MirrorTargets!Next => mHead' = mHead \/ (mHead < SyncHead /\ mHead' = mHead + 1)
<1>1. Mirror!Next => mHead' = mHead \/ (mHead < PushHead /\ mHead' = mHead + 1)
    BY DEF Mirror!Next, Mirror!Push, Mirror!OtherJob, Mirror!Restart, Mirror!Caller,
        Mirror!PushEvent,
        Mirror!SetQueued, Mirror!Enqueue, Mirror!Send, Mirror!Unmark, Mirror!SetFailed,
        Mirror!ResetStatus, Mirror!SyncMirror, Mirror!SetMirror, Mirror!Worker, Mirror!Take,
        Mirror!TakePending, Mirror!Lock, Mirror!Acquire, Mirror!SetRunning, Mirror!ReadRefs,
        Mirror!PushMirror, Mirror!SetStatus, Mirror!Unlock, Mirror!Leave, Mirror!PushFails
<1>2. MirrorTargets!Next => mHead' = mHead \/ (mHead < SyncHead /\ mHead' = mHead + 1)
    BY DEF MirrorTargets!Next, MirrorTargets!Push, MirrorTargets!OtherJob,
        MirrorTargets!Restart, MirrorTargets!Caller,
        MirrorTargets!PushEvent, MirrorTargets!SetQueued, MirrorTargets!Enqueue,
        MirrorTargets!Send, MirrorTargets!Unmark, MirrorTargets!SetFailed,
        MirrorTargets!ResetStatus, MirrorTargets!SyncMirror, MirrorTargets!SetMirror,
        MirrorTargets!Worker, MirrorTargets!Take, MirrorTargets!TakePending, MirrorTargets!Lock,
        MirrorTargets!Acquire, MirrorTargets!SetRunning, MirrorTargets!ReadRefs,
        MirrorTargets!PushMirror, MirrorTargets!SetStatus, MirrorTargets!Unlock,
        MirrorTargets!Leave, MirrorTargets!PushFails
<1> QED
    BY <1>1, <1>2

LEMMA MirrorBounds == PushHead \in Nat /\ SyncHead \in Nat
    BY BackgroundAssumption DEF Mirror!MirrorAssumption, MirrorTargets!MirrorAssumption

LEMMA PushesBoundedInvariance == BackgroundSpec => []PushesBounded
<1>1. BackgroundInit => PushesBounded
  <2>1. BackgroundInit => mHead = 0
      BY DEF BackgroundInit, Mirror!Init, MirrorTargets!Init
  <2> QED
      BY <2>1, MirrorBounds DEF PushesBounded
<1>2. MirrorInv /\ PushesBounded /\ [BackgroundNext]_vars => PushesBounded'
  <2> SUFFICES ASSUME MirrorInv, PushesBounded, [BackgroundNext]_vars PROVE PushesBounded'
      OBVIOUS
  <2>1. RunsTargets' = RunsTargets
      BY MirrorSteps DEF RunsTargets
  <2>2. \/ mHead' = mHead
        \/ ~RunsTargets /\ mHead < PushHead /\ mHead' = mHead + 1
        \/ RunsTargets /\ mHead < SyncHead /\ mHead' = mHead + 1
      BY MirrorSteps, MirrorHead DEF mirrorVars, RunsTargets
  <2>3. mHead \in Nat
      BY DEF MirrorInv, MirrorState
  <2> QED
      BY <2>1, <2>2, <2>3, MirrorBounds DEF PushesBounded
<1> QED
    BY MirrorInvariance, <1>1, <1>2, PTL DEF BackgroundSpec

\* The invariants above give the types of the mirror.
LEMMA MirrorTypes ==
    ASSUME MirrorInv, PushesBounded
    PROVE  IF subject = "mirror targets" THEN MirrorTargets!TypeOK ELSE Mirror!TypeOK
<1>1. Mirror!Mutex!TypeOK /\ MirrorTargets!Mutex!TypeOK
    BY DEF MirrorInv, MP!IInv, MP!TypeOK, Mirror!Mutex!TypeOK, MirrorTargets!Mutex!TypeOK,
       MP!None, Mirror!Mutex!None, MirrorTargets!Mutex!None, Mirror!Repo, MirrorTargets!Repo
<1>2. (RunsTargets => mHead \in 0 .. SyncHead) /\ (~RunsTargets => mHead \in 0 .. PushHead)
  <2>1. mHead \in Nat
      BY DEF MirrorInv, MirrorState
  <2> QED
      BY <2>1, MirrorBounds DEF PushesBounded
<1>3. (RunsTargets => Urls = SyncTargets) /\ (~RunsTargets => Urls = PushTargets)
    BY DEF Urls, RunsTargets
<1>4. RunsTargets => MirrorTargets!TypeOK
    BY <1>1, <1>2, <1>3
    DEF MirrorInv, MirrorState, CallersOK, ChanOK, WorkersOK, MirrorTargets!TypeOK,
        Mirror!Errands, MirrorTargets!Errands, Mirror!Stages, MirrorTargets!Stages,
        Mirror!NoTarget, MirrorTargets!NoTarget, Mirror!Other, MirrorTargets!Other
<1>5. ~RunsTargets => Mirror!TypeOK
    BY <1>1, <1>2, <1>3
    DEF MirrorInv, MirrorState, CallersOK, ChanOK, WorkersOK, Mirror!TypeOK
<1> QED
    BY <1>4, <1>5 DEF RunsTargets

\* Remote execution keeps its types, whichever agent it runs.
RemoteTypes == IF subject = "slot" THEN OneSlot!TypeOK ELSE Remote!TypeOK

LEMMA RemoteTypesInvariance == BackgroundSpec => []RemoteTypes
<1>1. (RP!Behaviour => []RP!TypeOK) /\ (OP!Behaviour => []OP!TypeOK)
    BY RemoteAssumed, RP!RemoteTypes, OP!RemoteTypes
<1>2. /\ ~RunsSlot /\ RP!TypeOK => RemoteTypes
      /\ RunsSlot /\ OP!TypeOK => RemoteTypes
    BY RemoteSame, SlotSame DEF RunsSlot, RemoteTypes
<1> QED
    BY <1>1, <1>2, RemoteBehaves, PTL

\* Every variable of every component keeps the shape that its declaration gives it,
\* in the behaviours of any of them.
THEOREM TypesAreKept == BackgroundSpec => []BackgroundTypes
<1>1. KM!IInv => TypeOK
    BY KeyedMutexSame DEF KM!IInv
<1>2. IndexTypes =>
        IF subject = "index memory" THEN IndexMemory!TypeOK ELSE IndexRedis!TypeOK
    BY RedisTypesSame, MemoryTypesSame DEF IndexTypes
<1>3. MirrorInv /\ PushesBounded =>
        IF subject = "mirror targets" THEN MirrorTargets!TypeOK ELSE Mirror!TypeOK
    BY MirrorTypes
<1>4. /\ SpoolInv => Spool!TypeOK
      /\ ScheduleInv => Schedule!TypeOK
      /\ ReverseInv => Reverse!TypeOK
      /\ BlobInv => Blobs!TypeOK
    BY DEF SpoolInv, ScheduleInv, ReverseInv, BlobInv
<1>5. WorkspaceTypes => IF subject = "cache" THEN CacheOf!TypeOK ELSE StepsOf!TypeOK
    BY DEF WorkspaceTypes, CP!TypeOK, CacheOf!TypeOK, CP!NoRun, CacheOf!NoRun, CP!Subs,
       CacheOf!Subs, SP!TypeOK, StepsOf!TypeOK, SP!NoRun, StepsOf!NoRun, SP!Subs, StepsOf!Subs
<1> QED
    BY <1>1, <1>2, <1>3, <1>4, <1>5, KeyedMutexInvariance, IndexTypesInvariance,
       RemoteTypesInvariance, MirrorInvariance, PushesBoundedInvariance, SpoolInvariance,
       DeliveryTypesInvariance, ScheduleInvariance, ReverseInvariance, BlobInvariance,
       WorkspaceTypesInvariance, PTL
    DEF BackgroundTypes, RemoteTypes

\* Two threads never hold the lock of a key, in the behaviours that run the locks
\* (keyedMutex.lock, jobs.go:109-133).
THEOREM LockExcludes == BackgroundSpec => []Exclusion
<1>1. KM!IInv => Exclusion
    BY KeyedMutexSame DEF KM!IInv, KM!AtItsKey, KM!OwnerHolds, KM!Exclusion
<1> QED
    BY KeyedMutexInvariance, <1>1, PTL

=============================================================================
