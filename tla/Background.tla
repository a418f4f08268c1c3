----------------------------- MODULE Background -----------------------------
(***************************************************************************)
(* The background services, each on instances of its own, in one           *)
(* specification: the first state picks one of them, the others stand      *)
(* still.  The lock per key comes by EXTENDS, so its properties are the    *)
(* ones proved in KeyedMutexProofs; the other components come by INSTANCE, *)
(* and what their names share is renamed apart.                            *)
(***************************************************************************)
EXTENDS KeyedMutex, Sequences

CONSTANTS
    \* CodeIndex: with asynq, with the in-process queue
    IndexPaths, IndexTree, MemoryPaths, MemoryTree, BlobSize, Indexers, Pushers, IndexFaults,
    \* RemoteRunner: an agent with several slots, one with a single slot
    RemoteRuns, Slots, MaxTries, JobChunks, DataCap, MaxConns, MaxJobs, RemoteFaults, SlotFaults,
    \* MirrorSync: pushes alone, several targets with requests
    PushTargets, PushHead, SyncTargets, SyncHead, MaxSyncs,
    MirrorCallers, MirrorWorkers, Locks, Buf, MaxOthers, MirrorFaults,
    \* WebhookSpool and WebhookDelivery
    Events, Nodes, MaxStarts, NodeCrashes,
    Deliverers, MaxAttempts, MaxPosts, MaxOverlaps, DeliveryRedis, DeliveryFaults,
    \* ScheduleClaim and ReverseDial
    Instances, Period, MaxTime, Dialers, MaxUrl, MaxStalls, ServerCrashes,
    \* Workspace: the steps of runs, the cache that runs share
    StepRuns, StepGroups, StepFaults, CacheRuns, CacheFaults, CachedPaths,
    \* BlobStore
    Contents, BlobChunks, Uploads, Requests, Packages, MaxBlob, BlobFaults

VARIABLES
    subject,
    \* CodeIndex
    row, lastId, disk, head, hook, spool, dirty, task, held, docs, manifest, meta, lock,
    ipc, job, deleter, pruner, faults,
    \* RemoteRunner
    rpc, res, tries, sent, cancelled, sessions, events, cpc, hub, link, pub, out, in, online,
    conn, waiting, handing, entry, jobs, rFaults,
    \* MirrorSync
    mUrl, status, mHead, mSpool, mirrored, caller, chan, pending, mWorker, mMap, mRefs, mOwner,
    mAt, mWant, mKpc, full, syncs, others, mFaults,
    \* WebhookSpool
    file, old, npc, cur, started, handled, stolen, crashes,
    \* WebhookDelivery
    dHook, dRow, tasks, worker, node, posts, overlaps, dFaults,
    \* ScheduleClaim
    clock, last, pass, fired, claims, from, sCrashes,
    \* ReverseDial
    url, current, lpc, key, stalled, stalls, vCrashes,
    \* Workspace
    wPc, step, sub, wCancelled, cont, stray, base, tmp, opened, todo, torn, saved, wFaults,
    \* BlobStore
    content, path, session, named, req, pkg, known, cut, bFaults

----------------------------------------------------------------------------
(* The instances.                                                          *)

IndexRedis == INSTANCE CodeIndex WITH
    Paths <- IndexPaths, Size <- BlobSize, Tree <- IndexTree, Redis <- TRUE,
    MaxFaults <- IndexFaults

IndexMemory == INSTANCE CodeIndex WITH
    Paths <- MemoryPaths, Size <- BlobSize, Tree <- MemoryTree, Redis <- FALSE,
    MaxFaults <- IndexFaults

Remote == INSTANCE RemoteRunner WITH
    Runs <- RemoteRuns, Chunks <- JobChunks, MaxFaults <- RemoteFaults, faults <- rFaults

OneSlot == INSTANCE RemoteRunner WITH
    Runs <- RemoteRuns, Chunks <- JobChunks, Slots <- 1, MaxConns <- 1, MaxFaults <- SlotFaults,
    faults <- rFaults

Mirror == INSTANCE MirrorSync WITH
    Targets <- PushTargets, Callers <- MirrorCallers, Workers <- MirrorWorkers,
    MaxHead <- PushHead, MaxSyncs <- 0, MaxFaults <- MirrorFaults,
    url <- mUrl, head <- mHead, spool <- mSpool, worker <- mWorker, faults <- mFaults,
    map <- mMap, refs <- mRefs, owner <- mOwner, at <- mAt, want <- mWant, kpc <- mKpc

MirrorTargets == INSTANCE MirrorSync WITH
    Targets <- SyncTargets, Callers <- MirrorCallers, Workers <- MirrorWorkers,
    MaxHead <- SyncHead, MaxFaults <- MirrorFaults,
    url <- mUrl, head <- mHead, spool <- mSpool, worker <- mWorker, faults <- mFaults,
    map <- mMap, refs <- mRefs, owner <- mOwner, at <- mAt, want <- mWant, kpc <- mKpc

Spool == INSTANCE WebhookSpool WITH MaxCrashes <- NodeCrashes

Delivery == INSTANCE WebhookDelivery WITH
    Workers <- Deliverers, Redis <- DeliveryRedis, MaxFaults <- DeliveryFaults,
    hook <- dHook, row <- dRow, faults <- dFaults

Schedule == INSTANCE ScheduleClaim WITH MaxCrashes <- ServerCrashes, crashes <- sCrashes

Reverse == INSTANCE ReverseDial WITH
    Instances <- Dialers, MaxCrashes <- ServerCrashes, crashes <- vCrashes

StepsOf == INSTANCE Workspace WITH
    Runs <- StepRuns, Steps <- StepGroups, Paths <- CachedPaths, MaxFaults <- StepFaults,
    pc <- wPc, at <- step, cancelled <- wCancelled, faults <- wFaults

\* No steps: every run goes from the restore of the cache to its save.
CacheOf == INSTANCE Workspace WITH
    Runs <- CacheRuns, Steps <- << >>, Paths <- CachedPaths, MaxFaults <- CacheFaults,
    pc <- wPc, at <- step, cancelled <- wCancelled, faults <- wFaults

Blobs == INSTANCE BlobStore WITH
    Chunks <- BlobChunks, Sessions <- Uploads, MaxFaults <- BlobFaults, faults <- bFaults

ASSUME BackgroundAssumption ==
    /\ IndexRedis!CodeIndexAssumption /\ IndexMemory!CodeIndexAssumption
    /\ Remote!RemoteAssumption /\ OneSlot!RemoteAssumption
    /\ Mirror!MirrorAssumption /\ MirrorTargets!MirrorAssumption
    /\ Spool!SpoolAssumption
    /\ Delivery!DeliveryAssumption
    /\ Schedule!ScheduleAssumption
    /\ Reverse!ReverseAssumption
    /\ StepsOf!WorkspaceAssumption
    /\ CacheOf!WorkspaceAssumption
    /\ Blobs!BlobAssumption

Subjects == {"mutex", "index redis", "index memory", "remote", "slot", "mirror",
             "mirror targets", "spool", "delivery", "schedule", "reverse", "steps", "cache",
             "blobs"}

indexVars == <<row, lastId, disk, head, hook, spool, dirty, task, held, docs, manifest, meta,
               lock, ipc, job, deleter, pruner, faults>>
remoteVars == <<rpc, res, tries, sent, cancelled, sessions, events, cpc, hub, link, pub, out, in,
                online, conn, waiting, handing, entry, jobs, rFaults>>
mirrorVars == <<mUrl, status, mHead, mSpool, mirrored, caller, chan, pending, mWorker, mMap,
                mRefs, mOwner, mAt, mWant, mKpc, full, syncs, others, mFaults>>
spoolVars == <<file, old, npc, cur, started, handled, stolen, crashes>>
deliveryVars == <<dHook, dRow, tasks, worker, node, posts, overlaps, dFaults>>
scheduleVars == <<clock, last, pass, fired, claims, from, sCrashes>>
reverseVars == <<url, current, lpc, key, stalled, stalls, vCrashes>>
workspaceVars == <<wPc, step, sub, wCancelled, cont, stray, base, tmp, opened, todo, torn, saved,
                   wFaults>>
blobVars == <<content, path, session, named, req, pkg, known, cut, bFaults>>
vars == <<subject, kvars, indexVars, remoteVars, mirrorVars, spoolVars, deliveryVars,
          scheduleVars, reverseVars, workspaceVars, blobVars>>

BackgroundInit ==
    /\ subject \in Subjects
    /\ Init
    /\ IF subject = "index memory" THEN IndexMemory!Init ELSE IndexRedis!Init
    /\ IF subject = "slot" THEN OneSlot!Init ELSE Remote!Init
    /\ IF subject = "mirror targets" THEN MirrorTargets!Init ELSE Mirror!Init
    /\ Spool!Init /\ Delivery!Init /\ Schedule!Init /\ Reverse!Init
    /\ IF subject = "cache" THEN CacheOf!Init ELSE StepsOf!Init
    /\ Blobs!Init

----------------------------------------------------------------------------
(* One component at a time.                                                *)

Others(s) ==
    /\ subject = s /\ UNCHANGED subject
    /\ s # "mutex" => UNCHANGED kvars
    /\ s \notin {"index redis", "index memory"} => UNCHANGED indexVars
    /\ s \notin {"remote", "slot"} => UNCHANGED remoteVars
    /\ s \notin {"mirror", "mirror targets"} => UNCHANGED mirrorVars
    /\ s # "spool" => UNCHANGED spoolVars
    /\ s # "delivery" => UNCHANGED deliveryVars
    /\ s # "schedule" => UNCHANGED scheduleVars
    /\ s # "reverse" => UNCHANGED reverseVars
    /\ s \notin {"steps", "cache"} => UNCHANGED workspaceVars
    /\ s # "blobs" => UNCHANGED blobVars

BackgroundNext ==
    \/ Others("mutex") /\ Next
    \/ Others("index redis") /\ IndexRedis!Next
    \/ Others("index memory") /\ IndexMemory!Next
    \/ Others("remote") /\ Remote!Next
    \/ Others("slot") /\ OneSlot!Next
    \/ Others("mirror") /\ Mirror!Next
    \/ Others("mirror targets") /\ MirrorTargets!Next
    \/ Others("spool") /\ Spool!Next
    \/ Others("delivery") /\ Delivery!Next
    \/ Others("schedule") /\ Schedule!Next
    \/ Others("reverse") /\ Reverse!Next
    \/ Others("steps") /\ StepsOf!Next
    \/ Others("cache") /\ CacheOf!Next
    \/ Others("blobs") /\ Blobs!Next

BackgroundSpec == BackgroundInit /\ [][BackgroundNext]_vars

----------------------------------------------------------------------------
(* Each component's own Fairness.  The guards are for TLC: it need not look *)
(* at what one component may do in the states of another.                  *)

IndexRedisFairness ==
    /\ \A u \in Pushers : WF_indexVars(subject = "index redis" /\ IndexRedis!Hook(u))
    /\ WF_indexVars(subject = "index redis" /\ IndexRedis!PushEvent)
    /\ WF_indexVars(subject = "index redis" /\ IndexRedis!Backfill)
    /\ \A w \in Indexers :
         /\ WF_indexVars(subject = "index redis" /\ IndexRedis!Take(w))
         /\ WF_indexVars(subject = "index redis" /\ IndexRedis!Index(w))
    /\ WF_indexVars(subject = "index redis" /\ IndexRedis!Deletes)
    /\ WF_indexVars(subject = "index redis" /\ IndexRedis!Prunes)

RemoteFairness ==
    /\ \A r \in RemoteRuns : WF_remoteVars(subject = "remote" /\ Remote!RunRemote(r))
    /\ \A c \in 1 .. MaxConns :
         /\ WF_remoteVars(subject = "remote" /\ Remote!HubStep(c))
         /\ WF_remoteVars(subject = "remote" /\ Remote!Heartbeat(c))
         /\ WF_remoteVars(subject = "remote" /\ Remote!Connect(c))
    /\ WF_remoteVars(subject = "remote" /\ Remote!ReadLoop)
    /\ \A k \in 1 .. MaxJobs :
         /\ WF_remoteVars(subject = "remote" /\ Remote!Job(k))
         /\ WF_remoteVars(subject = "remote" /\ Remote!Drains(k))

OneSlotFairness ==
    /\ \A r \in RemoteRuns : WF_remoteVars(subject = "slot" /\ OneSlot!RunRemote(r))
    /\ WF_remoteVars(subject = "slot" /\ OneSlot!HubStep(1))
    /\ WF_remoteVars(subject = "slot" /\ OneSlot!Heartbeat(1))
    /\ WF_remoteVars(subject = "slot" /\ OneSlot!Connect(1))
    /\ WF_remoteVars(subject = "slot" /\ OneSlot!ReadLoop)
    /\ \A k \in 1 .. MaxJobs :
         /\ WF_remoteVars(subject = "slot" /\ OneSlot!Job(k))
         /\ WF_remoteVars(subject = "slot" /\ OneSlot!Drains(k))

MirrorFairness ==
    /\ \A c \in MirrorCallers : WF_mirrorVars(subject = "mirror" /\ Mirror!Caller(c))
    /\ \A w \in MirrorWorkers : WF_mirrorVars(subject = "mirror" /\ Mirror!Worker(w))

MirrorTargetsFairness ==
    /\ \A c \in MirrorCallers :
         WF_mirrorVars(subject = "mirror targets" /\ MirrorTargets!Caller(c))
    /\ \A w \in MirrorWorkers :
         WF_mirrorVars(subject = "mirror targets" /\ MirrorTargets!Worker(w))

SpoolFairness ==
    /\ \A e \in Events :
         /\ WF_spoolVars(subject = "spool" /\ Spool!Age(e))
         /\ SF_spoolVars(subject = "spool" /\
              \E n \in Nodes : Spool!ReclaimStale(n, e) \/ Spool!Claim(n, e))
    /\ \A n \in Nodes : WF_spoolVars(subject = "spool" /\ Spool!Drain(n))

DeliveryFairness ==
    /\ WF_deliveryVars(subject = "delivery" /\ Delivery!Due)
    /\ \A w \in Deliverers : WF_deliveryVars(subject = "delivery" /\ Delivery!Worker(w))
    /\ \A n \in Nodes : WF_deliveryVars(subject = "delivery" /\ Delivery!Pass(n))

ReverseFairness ==
    /\ WF_reverseVars(subject = "reverse" /\ Reverse!Expire)
    /\ \A i \in Dialers :
         /\ WF_reverseVars(subject = "reverse" /\ Reverse!Reconcile(i))
         /\ WF_reverseVars(subject = "reverse" /\ Reverse!Wake(i))
         /\ \A u \in 1 .. MaxUrl : WF_reverseVars(subject = "reverse" /\ Reverse!Loop(<<i, u>>))

----------------------------------------------------------------------------
(* The properties of the components.  A liveness property is that of the   *)
(* component under the component's own fairness, in the behaviours that    *)
(* run it.                                                                 *)

\* Every component's type invariant; Exclusion comes from KeyedMutex.
BackgroundTypes ==
    /\ TypeOK
    /\ IF subject = "index memory" THEN IndexMemory!TypeOK ELSE IndexRedis!TypeOK
    /\ IF subject = "slot" THEN OneSlot!TypeOK ELSE Remote!TypeOK
    /\ IF subject = "mirror targets" THEN MirrorTargets!TypeOK ELSE Mirror!TypeOK
    /\ Spool!TypeOK /\ Delivery!TypeOK /\ Schedule!TypeOK /\ Reverse!TypeOK
    /\ Blobs!TypeOK
    /\ IF subject = "cache" THEN CacheOf!TypeOK ELSE StepsOf!TypeOK

\* CodeIndex: an index that claims the present commit holds exactly its lines.
CurrentIsExact == subject = "index redis" => IndexRedis!CurrentIsExact

\* CodeIndex: a served index holds no line of an earlier repository of the name.
NoForeignLine ==
    /\ subject = "index redis" => IndexRedis!NoForeignLine
    /\ subject = "index memory" => IndexMemory!NoForeignLine

\* CodeIndex: without faults the index reaches the present commit again and again.
Converges == IndexRedisFairness => []<>(subject = "index redis" => IndexRedis!UpToDate)

\* RemoteRunner: a run is executed at most once.
ExecutedOnce == Remote!ExecutedOnce

\* RemoteRunner: success means the job ran with the whole workspace.
SuccessIsReal == Remote!SuccessIsReal

\* RemoteRunner: an undisturbed run ends with the agent's status.
Completes == subject = "remote" => (RemoteFairness => Remote!Completes)

\* RemoteRunner: the jobs of a lost connection end, unless the agent is stuck.
LostJobsEnd ==
    /\ subject = "remote" => (RemoteFairness => Remote!LostJobsEnd)
    /\ subject = "slot" => (OneSlotFairness => OneSlot!LostJobsEnd)

\* RemoteRunner: an agent that stays connected stays online.
StatusSettles == subject = "remote" => (RemoteFairness => Remote!StatusSettles)

\* MirrorSync: a target never goes back to an older state.
NeverGoesBack ==
    [][/\ subject = "mirror" => Mirror!GoesForward
       /\ subject = "mirror targets" => MirrorTargets!GoesForward]_mirrorVars

\* MirrorSync: "queued" and "running" end in an outcome, across a restart.
StatusEnds ==
    subject = "mirror targets" => (MirrorTargetsFairness => MirrorTargets!StatusEnds)

\* MirrorSync: the target gets every push.
MirrorCatchesUp == subject = "mirror" => (MirrorFairness => Mirror!MirrorCatchesUp)

\* WebhookSpool: an event leaves the spool only after it was handled.
NotLost == Spool!NotLost

\* WebhookSpool: an event is handled twice only after a crash or a quarter of an hour.
HandledOnce == Spool!HandledOnce

\* WebhookSpool: every event is handled.
EventHandled == subject = "spool" => (SpoolFairness => Spool!EventHandled)

\* WebhookDelivery: a receiver is not posted to more often than maxAttempts.
AttemptsBounded == Delivery!AttemptsBounded

\* WebhookDelivery: an outcome stays.
OutcomeFinal == Delivery!OutcomeFinal

\* WebhookDelivery: every retry reaches an outcome.
RetryEnds == subject = "delivery" => (DeliveryFairness => Delivery!RetryEnds)

\* ScheduleClaim: only passes that overlap fire a tick twice.
TwiceOnlyOverlapping == Schedule!TwiceOnlyOverlapping

\* ScheduleClaim: no tick falls between two instances.
NoTickSkipped == Schedule!NoTickSkipped

\* ReverseDial: one server at a time, and one more for each stall.
OneDialer == Reverse!OneDialer

\* ReverseDial: the runner is dialled at its present URL again and again.
StaysDialled == subject = "reverse" => (ReverseFairness => Reverse!StaysDialled)

\* Workspace: no container outlives its step.
NoContainerLeft == subject = "steps" => StepsOf!NoContainerLeft

\* Workspace: interleaved saves do not lose the cache.
CacheSurvives == subject = "cache" => CacheOf!CacheSurvives

\* BlobStore: what a row or an upload's grant refers to is there, and whole.
BlobWhole == Blobs!BlobWhole

=============================================================================
