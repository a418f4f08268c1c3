---------------------------- MODULE PipelineRun ----------------------------
(***************************************************************************)
(* The life of a pipeline run: the row of pipeline_runs and every actor    *)
(* that moves it.  Callers (API handlers, the spool dispatcher, the cron   *)
(* scheduler) run Trigger; the delayed runner dispatches rows whose run_at *)
(* has come; workers (goroutines, or asynq worker slots) run executeRun;   *)
(* cancel requests run CancelRun; server start-up reclaims orphans; the    *)
(* hub's offline watcher closes the runs of a runner that went away.       *)
(* A step is what happens between two accesses to state another actor can  *)
(* see: one database statement, one queue call, one registry access.       *)
(* Source: src/backend/internal/pipeline/{pipeline,remote,delayed}.go,     *)
(* internal/store/pipeline.go, internal/runner/hub.go, main.go.            *)
(***************************************************************************)
EXTENDS Naturals, Sequences, FiniteSets

CONSTANTS
    Runs,        \* ids of the rows that may be created
    Instances,   \* server processes that share the database
    Callers,     \* threads that call Trigger
    Workers,     \* threads that call executeRun
    Cancellers,  \* requests that call CancelRun, one call each
    Home,        \* the instance each thread belongs to
    NoRun,       \* "works on no run"
    NoWorker,    \* "no cancel function registered"
    MaxActive,   \* maxActiveRuns
    Redis,       \* TRUE: GITDASH_QUEUE=redis; FALSE: memory (no queue, no hub)
    MaxCrashes   \* bound on the crashes of a behaviour

Threads == Callers \cup Workers \cup Cancellers

ASSUME PipelineRunAssumption ==
    /\ Home \in [Threads -> Instances]
    /\ NoRun \notin Runs
    /\ NoWorker \notin Workers
    /\ IsFiniteSet(Callers)
    /\ MaxActive \in Nat \ {0}
    /\ MaxCrashes \in Nat
    /\ Redis \in BOOLEAN

VARIABLES
    \* the rows
    status,      \* pipeline_runs.status; "none" before the insert
    runAt,       \* run_at against the clock: "none" (empty), "future" or "due"
    runnerName,  \* runner_name is set
    \* the asynq queue (Redis only)
    queued,      \* tasks waiting, by TaskID
    held,        \* TaskIDs of active and of archived tasks
    \* the server processes
    inst,        \* "down", "starting" (before the orphan sweep) or "up"
    registry,    \* runCancels of each instance
    dueList,     \* rows a pass of RunDelayed read and has not dispatched yet
    \* Trigger
    tpc, trun,
    \* executeRun
    wpc, wrun,
    wctx,        \* execCtx.Err(): "live", "cancelled" or "deadline"
    wres,        \* the terminal status the worker is about to report
    \* CancelRun
    cpc, crun,
    csnap,       \* the RunnerName read at the start is not empty
    \* observations
    events,      \* the pipeline events published for each run
    claims,      \* how many times each run was claimed
    notified,    \* runs whose agents were sent job_cancel
    crashes

rowVars    == <<status, runAt, runnerName>>
queueVars  == <<queued, held>>
procVars   == <<inst, registry, dueList>>
callerVars == <<tpc, trun>>
workerVars == <<wpc, wrun, wctx, wres>>
cancelVars == <<cpc, crun, csnap>>
obsVars    == <<events, claims, notified, crashes>>
vars == <<rowVars, queueVars, procVars, callerVars, workerVars, cancelVars, obsVars>>

Open     == {"pending", "running"}
Terminal == {"success", "failed", "cancelled"}
Status   == {"none"} \cup Open \cup Terminal
Actions  == {"queued", "started"} \cup Terminal

Alive(i) == inst[i] # "down"

\* RunningPipelineRunIDs: delayed rows that are not due do not count.
Active == {r \in Runs : status[r] \in Open /\ runAt[r] # "future"}

\* Mutant: the update forgets its WHERE status IN ('pending','running').
FinishAnyRow(r, st) == status' = [status EXCEPT ![r] = st]

\* FinishPipelineRun: takes effect only on a pending or running row.
Finish(r, st) ==
    status' = IF status[r] \in Open THEN [status EXCEPT ![r] = st] ELSE status

Publish(r, action) == events' = [events EXCEPT ![r] = Append(@, action)]

Init ==
    /\ status     = [r \in Runs |-> "none"]
    /\ runAt      = [r \in Runs |-> "none"]
    /\ runnerName = [r \in Runs |-> FALSE]
    /\ queued = {} /\ held = {}
    /\ inst     = [i \in Instances |-> "starting"]
    /\ registry = [i \in Instances |-> [r \in Runs |-> NoWorker]]
    /\ dueList  = [i \in Instances |-> {}]
    /\ tpc  = [c \in Callers |-> "idle"]
    /\ trun = [c \in Callers |-> NoRun]
    /\ wpc  = [w \in Workers |-> "idle"]
    /\ wrun = [w \in Workers |-> NoRun]
    /\ wctx = [w \in Workers |-> "live"]
    /\ wres = [w \in Workers |-> "none"]
    /\ cpc   = [k \in Cancellers |-> "idle"]
    /\ crun  = [k \in Cancellers |-> NoRun]
    /\ csnap = [k \in Cancellers |-> FALSE]
    /\ events = [r \in Runs |-> <<>>]
    /\ claims = [r \in Runs |-> 0]
    /\ notified = {}
    /\ crashes = 0

----------------------------------------------------------------------------
(* dispatchJob.                                                            *)

\* go executeRun: a goroutine of the calling instance.
Spawn(i, r) ==
    \E w \in Workers :
        /\ Home[w] = i /\ wpc[w] = "idle"
        /\ wpc'  = [wpc EXCEPT ![w] = "start"]
        /\ wrun' = [wrun EXCEPT ![w] = r]
        /\ UNCHANGED <<wctx, wres, queueVars>>

\* Enqueue with TaskID: a task of that ID that exists already is a success.
Enqueue(r) ==
    /\ queued' = IF r \in held THEN queued ELSE queued \cup {r}
    /\ UNCHANGED <<held, workerVars>>

Dispatch(i, r) == IF Redis THEN Enqueue(r) ELSE Spawn(i, r)

----------------------------------------------------------------------------
(* Trigger.                                                                *)

\* Mutant: > instead of >= in the comparison with maxActiveRuns.
CheckActiveOffByOne(c) ==
    /\ tpc[c] = "idle" /\ Alive(Home[c])
    /\ Cardinality(Active) <= MaxActive
    /\ tpc' = [tpc EXCEPT ![c] = "checked"]
    /\ UNCHANGED <<rowVars, queueVars, procVars, trun, workerVars, cancelVars, obsVars>>

\* The concurrency check; ErrTooManyRuns leaves the caller where it was.
CheckActive(c) ==
    /\ tpc[c] = "idle" /\ Alive(Home[c])
    /\ Cardinality(Active) < MaxActive
    /\ tpc' = [tpc EXCEPT ![c] = "checked"]
    /\ UNCHANGED <<rowVars, queueVars, procVars, trun, workerVars, cancelVars, obsVars>>

\* ErrNoPipeline or ErrTriggerDisabled.
Decline(c) ==
    /\ tpc[c] = "checked"
    /\ tpc' = [tpc EXCEPT ![c] = "idle"]
    /\ UNCHANGED <<rowVars, queueVars, procVars, trun, workerVars, cancelVars, obsVars>>

\* CreatePipelineRun: kind is "invalid" when the file does not parse,
\* "delay" when opts.Delay > 0, "now" otherwise.
Create(c, r, kind) ==
    /\ tpc[c] = "checked" /\ status[r] = "none"
    /\ status' = [status EXCEPT ![r] = "pending"]
    /\ runAt'  = [runAt EXCEPT ![r] = IF kind = "delay" THEN "future" ELSE "none"]
    /\ tpc'    = [tpc EXCEPT ![c] = IF kind = "invalid" THEN "reject" ELSE "created"]
    /\ trun'   = [trun EXCEPT ![c] = r]
    /\ UNCHANGED <<runnerName, queueVars, procVars, workerVars, cancelVars, obsVars>>

EmitQueued(c) ==
    /\ tpc[c] = "created"
    /\ Publish(trun[c], "queued")
    /\ IF runAt[trun[c]] # "none"
       THEN /\ tpc'  = [tpc EXCEPT ![c] = "idle"]
            /\ trun' = [trun EXCEPT ![c] = NoRun]
       ELSE /\ tpc'  = [tpc EXCEPT ![c] = "dispatch"]
            /\ UNCHANGED trun
    /\ UNCHANGED <<rowVars, queueVars, procVars, workerVars, cancelVars, claims, notified, crashes>>

DispatchNow(c) ==
    /\ tpc[c] = "dispatch"
    /\ Dispatch(Home[c], trun[c])
    /\ tpc'  = [tpc EXCEPT ![c] = "idle"]
    /\ trun' = [trun EXCEPT ![c] = NoRun]
    /\ UNCHANGED <<rowVars, procVars, cancelVars, obsVars>>

\* The queue call fails, or times out after the task was stored.
EnqueueError(c) ==
    /\ Redis /\ tpc[c] = "dispatch"
    /\ Enqueue(trun[c]) \/ UNCHANGED <<queueVars, workerVars>>
    /\ tpc' = [tpc EXCEPT ![c] = "reject"]
    /\ UNCHANGED <<rowVars, procVars, trun, cancelVars, obsVars>>

\* Mutant: the error is returned and the row is left pending.
RejectKeepsRow(c) ==
    /\ tpc[c] = "reject"
    /\ tpc'  = [tpc EXCEPT ![c] = "idle"]
    /\ trun' = [trun EXCEPT ![c] = NoRun]
    /\ UNCHANGED <<rowVars, queueVars, procVars, workerVars, cancelVars, obsVars>>

\* A file that does not parse, or a failed dispatch: the row is failed.
Reject(c) ==
    /\ tpc[c] = "reject"
    /\ Finish(trun[c], "failed")
    /\ tpc'  = [tpc EXCEPT ![c] = "idle"]
    /\ trun' = [trun EXCEPT ![c] = NoRun]
    /\ UNCHANGED <<runAt, runnerName, queueVars, procVars, workerVars, cancelVars, obsVars>>

----------------------------------------------------------------------------
(* RunDelayed: read the due rows, then dispatch them one by one.           *)

ReadDue(i) ==
    /\ Alive(i) /\ dueList[i] = {}
    /\ dueList' = [dueList EXCEPT ![i] =
                     {r \in Runs : status[r] = "pending" /\ runAt[r] = "due"}]
    /\ UNCHANGED <<rowVars, queueVars, inst, registry, callerVars, workerVars, cancelVars, obsVars>>

\* A dispatch error is only logged.
DispatchDue(i, r) ==
    /\ Alive(i) /\ r \in dueList[i]
    /\ \/ Dispatch(i, r)
       \/ Redis /\ UNCHANGED <<queueVars, workerVars>>
    /\ dueList' = [dueList EXCEPT ![i] = @ \ {r}]
    /\ UNCHANGED <<rowVars, inst, registry, callerVars, cancelVars, obsVars>>

----------------------------------------------------------------------------
(* executeRun.                                                             *)

\* An asynq worker slot takes a task; the TaskID stays taken meanwhile.
TakeTask(w, r) ==
    /\ Redis /\ Alive(Home[w])
    /\ wpc[w] = "idle" /\ r \in queued
    /\ queued' = queued \ {r}
    /\ held'   = held \cup {r}
    /\ wpc'  = [wpc EXCEPT ![w] = "start"]
    /\ wrun' = [wrun EXCEPT ![w] = r]
    /\ UNCHANGED <<rowVars, procVars, callerVars, wctx, wres, cancelVars, obsVars>>

\* The thread returns; asynq forgets the task.
Return(w) ==
    /\ wpc'  = [wpc EXCEPT ![w] = "idle"]
    /\ wrun' = [wrun EXCEPT ![w] = NoRun]
    /\ wctx' = [wctx EXCEPT ![w] = "live"]
    /\ wres' = [wres EXCEPT ![w] = "none"]
    /\ held' = held \ {wrun[w]}

\* Mutant: the update forgets its WHERE status = 'pending'.
ClaimAnyRow(w) ==
    /\ wpc[w] = "start"
    /\ status' = [status EXCEPT ![wrun[w]] = "running"]
    /\ claims' = [claims EXCEPT ![wrun[w]] = @ + 1]
    /\ wpc'    = [wpc EXCEPT ![w] = "claimed"]
    /\ UNCHANGED <<runAt, runnerName, queueVars, procVars, callerVars, wrun,
                   wctx, wres, cancelVars, events, notified, crashes>>

\* ClaimPipelineRun succeeds: pending -> running.
Claim(w) ==
    /\ wpc[w] = "start" /\ status[wrun[w]] = "pending"
    /\ status' = [status EXCEPT ![wrun[w]] = "running"]
    /\ claims' = [claims EXCEPT ![wrun[w]] = @ + 1]
    /\ wpc'    = [wpc EXCEPT ![w] = "claimed"]
    /\ UNCHANGED <<runAt, runnerName, queueVars, procVars, callerVars, wrun,
                   wctx, wres, cancelVars, events, notified, crashes>>

\* ClaimPipelineRun fails: the run was started or closed elsewhere.
SkipClaimed(w) ==
    /\ wpc[w] = "start" /\ status[wrun[w]] # "pending"
    /\ Return(w)
    /\ UNCHANGED <<rowVars, queued, procVars, callerVars, cancelVars, obsVars>>

EmitStarted(w) ==
    /\ wpc[w] = "claimed"
    /\ Publish(wrun[w], "started")
    /\ wpc' = [wpc EXCEPT ![w] = "started"]
    /\ UNCHANGED <<rowVars, queueVars, procVars, callerVars, wrun, wctx, wres,
                   cancelVars, claims, notified, crashes>>

\* registerRunCancel: an older registration of the run is cancelled.
Register(w) ==
    LET prev == registry[Home[w]][wrun[w]] IN
    /\ wpc[w] = "started"
    /\ registry' = [registry EXCEPT ![Home[w]][wrun[w]] = w]
    /\ wctx' = IF prev \in Workers /\ wctx[prev] = "live"
               THEN [wctx EXCEPT ![prev] = "cancelled"] ELSE wctx
    /\ wpc' = [wpc EXCEPT ![w] = "ready"]
    /\ UNCHANGED <<rowVars, queueVars, inst, dueList, callerVars, wrun, wres, cancelVars, obsVars>>

\* The log directory or file cannot be created: failed, and no event.
LogFails(w) ==
    /\ wpc[w] = "ready"
    /\ Finish(wrun[w], "failed")
    /\ wpc' = [wpc EXCEPT ![w] = "leave"]
    /\ UNCHANGED <<runAt, runnerName, queueVars, procVars, callerVars, wrun,
                   wctx, wres, cancelVars, obsVars>>

\* Execute is entered: the run executes in this process (runs-on is empty),
\* or no online runner matches.
ExecuteHere(w) ==
    /\ wpc[w] = "ready"
    /\ wpc' = [wpc EXCEPT ![w] = "exec"]
    /\ UNCHANGED <<rowVars, queueVars, procVars, callerVars, wrun, wctx, wres, cancelVars, obsVars>>

\* runs-on: a runner is selected and its name recorded on the row.
SelectRunner(w) ==
    /\ Redis /\ wpc[w] = "ready"
    /\ runnerName' = [runnerName EXCEPT ![wrun[w]] = TRUE]
    /\ wpc' = [wpc EXCEPT ![w] = "selected"]
    /\ UNCHANGED <<status, runAt, queueVars, procVars, callerVars, wrun, wctx,
                   wres, cancelVars, obsVars>>

\* RunRemote registers its session and dispatches the job to the agent.
OpenSession(w) ==
    /\ wpc[w] = "selected"
    /\ wpc' = [wpc EXCEPT ![w] = "session"]
    /\ UNCHANGED <<rowVars, queueVars, procVars, callerVars, wrun, wctx, wres, cancelVars, obsVars>>

Executing == {"exec", "session"}

\* job_timeout expires.
Timeout(w) ==
    /\ wpc[w] \in Executing /\ wctx[w] = "live"
    /\ wctx' = [wctx EXCEPT ![w] = "deadline"]
    /\ UNCHANGED <<rowVars, queueVars, procVars, callerVars, wpc, wrun, wres, cancelVars, obsVars>>

\* Execute returns nil: it may, even when the context ended meanwhile.
ExecuteOk(w) ==
    /\ wpc[w] \in Executing
    /\ wres' = [wres EXCEPT ![w] = "success"]
    /\ wpc'  = [wpc EXCEPT ![w] = "finish"]
    /\ UNCHANGED <<rowVars, queueVars, procVars, callerVars, wrun, wctx, cancelVars, obsVars>>

\* Mutant: an expired job_timeout is reported in a status of its own.
ExecuteErrTimeout(w) ==
    /\ wpc[w] \in Executing \cup {"ready", "selected"}
    /\ wres' = [wres EXCEPT ![w] = IF wctx[w] = "live" THEN "failed" ELSE wctx[w]]
    /\ wpc'  = [wpc EXCEPT ![w] = "finish"]
    /\ UNCHANGED <<rowVars, queueVars, procVars, callerVars, wrun, wctx, cancelVars, obsVars>>

\* Execute (or re-reading the pipeline file before it) returns an error:
\* the context tells a cancelled run from a failed one.
ExecuteErr(w) ==
    /\ wpc[w] \in Executing \cup {"ready", "selected"}
    /\ wres' = [wres EXCEPT ![w] =
                  IF wctx[w] = "cancelled" /\ wpc[w] # "ready" THEN "cancelled" ELSE "failed"]
    /\ wpc'  = [wpc EXCEPT ![w] = "finish"]
    /\ UNCHANGED <<rowVars, queueVars, procVars, callerVars, wrun, wctx, cancelVars, obsVars>>

\* The executor panics: the deferred calls unregister, then fail the row.
Panic(w) ==
    /\ wpc[w] \in Executing
    /\ registry' = [registry EXCEPT ![Home[w]][wrun[w]] = NoWorker]
    /\ wpc' = [wpc EXCEPT ![w] = "panicked"]
    /\ UNCHANGED <<rowVars, queueVars, inst, dueList, callerVars, wrun, wctx, wres,
                   cancelVars, obsVars>>

\* Mutant: the recovered panic is only logged.
RecoverLogs(w) ==
    /\ wpc[w] = "panicked"
    /\ Return(w)
    /\ UNCHANGED <<rowVars, queued, procVars, callerVars, cancelVars, obsVars>>

Recover(w) ==
    /\ wpc[w] = "panicked"
    /\ Finish(wrun[w], "failed")
    /\ Return(w)
    /\ UNCHANGED <<runAt, runnerName, queued, procVars, callerVars, cancelVars, obsVars>>

\* FinishPipelineRun; whether it took effect is ignored.
FinishRun(w) ==
    /\ wpc[w] = "finish"
    /\ Finish(wrun[w], wres[w])
    /\ wpc' = [wpc EXCEPT ![w] = "emit"]
    /\ UNCHANGED <<runAt, runnerName, queueVars, procVars, callerVars, wrun,
                   wctx, wres, cancelVars, obsVars>>

\* The terminal event (and, after a success, AutoMergeForRepo).
EmitResult(w) ==
    /\ wpc[w] = "emit"
    /\ Publish(wrun[w], wres[w])
    /\ wpc' = [wpc EXCEPT ![w] = "leave"]
    /\ UNCHANGED <<rowVars, queueVars, procVars, callerVars, wrun, wctx, wres,
                   cancelVars, claims, notified, crashes>>

\* The deferred unregisterRunCancel and cancel.
Leave(w) ==
    /\ wpc[w] = "leave"
    /\ registry' = [registry EXCEPT ![Home[w]][wrun[w]] = NoWorker]
    /\ Return(w)
    /\ UNCHANGED <<rowVars, queued, inst, dueList, callerVars, cancelVars, obsVars>>

----------------------------------------------------------------------------
(* CancelRun.                                                              *)

CancelRead(k, r) ==
    /\ cpc[k] = "idle" /\ inst[Home[k]] = "up"
    /\ status[r] \in Open
    /\ crun'  = [crun EXCEPT ![k] = r]
    /\ csnap' = [csnap EXCEPT ![k] = runnerName[r]]
    /\ cpc'   = [cpc EXCEPT ![k] = "update"]
    /\ UNCHANGED <<rowVars, queueVars, procVars, callerVars, workerVars, obsVars>>

\* CancelPipelineRun; a row closed since the read is "run already finished".
CancelUpdate(k) ==
    /\ cpc[k] = "update"
    /\ Finish(crun[k], "cancelled")
    /\ cpc' = [cpc EXCEPT ![k] =
                 IF status[crun[k]] \notin Open THEN "refused"
                 ELSE IF csnap[k] THEN "hub" ELSE "local"]
    /\ UNCHANGED <<runAt, runnerName, queueVars, procVars, callerVars, workerVars,
                   crun, csnap, obsVars>>

\* Hub.Cancel: only a session of this instance is found; its agent is told.
CancelHub(k) ==
    /\ cpc[k] = "hub"
    /\ notified' = IF \E w \in Workers : /\ Home[w] = Home[k]
                                         /\ wpc[w] = "session" /\ wrun[w] = crun[k]
                   THEN notified \cup {crun[k]} ELSE notified
    /\ cpc' = [cpc EXCEPT ![k] = "local"]
    /\ UNCHANGED <<rowVars, queueVars, procVars, callerVars, workerVars, crun, csnap,
                   events, claims, crashes>>

\* cancelBuiltinRun: does nothing when no context is registered here.
CancelLocal(k) ==
    LET w == registry[Home[k]][crun[k]] IN
    /\ cpc[k] = "local"
    /\ wctx' = IF w \in Workers /\ wctx[w] = "live"
               THEN [wctx EXCEPT ![w] = "cancelled"] ELSE wctx
    /\ cpc' = [cpc EXCEPT ![k] = "ok"]
    /\ UNCHANGED <<rowVars, queueVars, procVars, callerVars, wpc, wrun, wres, crun, csnap, obsVars>>

----------------------------------------------------------------------------
(* The watchers, the clock, crashes and start-up.                          *)

\* sweepOffline: the runner's last-seen key expired; its sessions stay.
OfflineSweep(i, r) ==
    /\ Alive(i) /\ runnerName[r] /\ status[r] = "running"
    /\ status' = [status EXCEPT ![r] = "failed"]
    /\ UNCHANGED <<runAt, runnerName, queueVars, procVars, callerVars, workerVars,
                   cancelVars, obsVars>>

BecomeDue(r) ==
    /\ runAt[r] = "future"
    /\ runAt' = [runAt EXCEPT ![r] = "due"]
    /\ UNCHANGED <<status, runnerName, queueVars, procVars, callerVars, workerVars,
                   cancelVars, obsVars>>

\* The process ends: its threads vanish, rows and queue stay.  An active
\* task is archived by asynq (MaxRetry 0) and keeps its TaskID.
Crash(i) ==
    /\ Alive(i) /\ crashes < MaxCrashes
    /\ inst' = [inst EXCEPT ![i] = "down"]
    /\ registry' = [registry EXCEPT ![i] = [r \in Runs |-> NoWorker]]
    /\ dueList'  = [dueList EXCEPT ![i] = {}]
    /\ tpc'  = [c \in Callers |-> IF Home[c] = i THEN "idle" ELSE tpc[c]]
    /\ trun' = [c \in Callers |-> IF Home[c] = i THEN NoRun ELSE trun[c]]
    /\ wpc'  = [w \in Workers |-> IF Home[w] = i THEN "idle" ELSE wpc[w]]
    /\ wrun' = [w \in Workers |-> IF Home[w] = i THEN NoRun ELSE wrun[w]]
    /\ wctx' = [w \in Workers |-> IF Home[w] = i THEN "live" ELSE wctx[w]]
    /\ wres' = [w \in Workers |-> IF Home[w] = i THEN "none" ELSE wres[w]]
    /\ cpc'  = [k \in Cancellers |->
                  IF Home[k] = i /\ cpc[k] \in {"update", "hub", "local"}
                  THEN "lost" ELSE cpc[k]]
    /\ crashes' = crashes + 1
    /\ UNCHANGED <<rowVars, queueVars, crun, csnap, events, claims, notified>>

\* The dispatchers, the schedulers and the queue workers start first ...
Boot(i) ==
    /\ inst[i] = "down"
    /\ inst' = [inst EXCEPT ![i] = "starting"]
    /\ UNCHANGED <<rowVars, queueVars, registry, dueList, callerVars, workerVars,
                   cancelVars, obsVars>>

\* Which rows FailStalePipelineRuns closes: the memory cutoff is in the
\* future (every active row), the redis cutoff an hour ago (any of them).
StaleSets == IF Redis THEN SUBSET Active ELSE {Active}

\* ... then FailStalePipelineRuns runs once, then HTTP is served.
OrphanSweep(i) ==
    /\ inst[i] = "starting"
    /\ \E stale \in StaleSets :
         status' = [r \in Runs |-> IF r \in stale THEN "failed" ELSE status[r]]
    /\ inst' = [inst EXCEPT ![i] = "up"]
    /\ UNCHANGED <<runAt, runnerName, queueVars, registry, dueList, callerVars,
                   workerVars, cancelVars, obsVars>>

----------------------------------------------------------------------------

CallerStep(c) ==
    \/ Decline(c) \/ EmitQueued(c) \/ DispatchNow(c) \/ EnqueueError(c) \/ Reject(c)
    \/ \E r \in Runs, kind \in {"now", "delay", "invalid"} : Create(c, r, kind)

\* What a worker thread does on its own once it has a run; a session waits
\* for its agent, so its end is not here.
WorkerStep(w) ==
    \/ Claim(w) \/ SkipClaimed(w) \/ EmitStarted(w) \/ Register(w)
    \/ LogFails(w) \/ ExecuteHere(w) \/ SelectRunner(w) \/ OpenSession(w)
    \/ Recover(w) \/ FinishRun(w) \/ EmitResult(w) \/ Leave(w)

ExecuteStep(w) == Timeout(w) \/ ExecuteOk(w) \/ ExecuteErr(w) \/ Panic(w)

CancelStep(k) ==
    \/ \E r \in Runs : CancelRead(k, r)
    \/ CancelUpdate(k) \/ CancelHub(k) \/ CancelLocal(k)

InstanceStep(i) ==
    \/ ReadDue(i) \/ Crash(i) \/ Boot(i) \/ OrphanSweep(i)
    \/ \E r \in Runs : DispatchDue(i, r) \/ OfflineSweep(i, r)


Next ==
    \/ \E c \in Callers : CheckActive(c) \/ CallerStep(c)
    \/ \E w \in Workers : WorkerStep(w) \/ ExecuteStep(w) \/ \E r \in Runs : TakeTask(w, r)
    \/ \E k \in Cancellers : CancelStep(k)
    \/ \E i \in Instances : InstanceStep(i)
    \/ \E r \in Runs : BecomeDue(r)

Spec == Init /\ [][Next]_vars

\* The threads of a live process run; a local Execute ends, since every step
\* of it has a timeout; the scheduler ticks; a supervisor restarts a process.
\* Users owe nothing: no fairness on CheckActive and CancelRead.
Fairness ==
    /\ \A c \in Callers : WF_vars(CallerStep(c))
    /\ \A w \in Workers : WF_vars(WorkerStep(w))
    /\ \A w \in Workers : WF_vars(wpc[w] = "exec" /\ (ExecuteOk(w) \/ ExecuteErr(w)))
    /\ \A i \in Instances :
         /\ WF_vars(Boot(i)) /\ WF_vars(OrphanSweep(i)) /\ WF_vars(ReadDue(i))
         /\ \A r \in Runs : SF_vars(DispatchDue(i, r))
    /\ \A r \in Runs : WF_vars(BecomeDue(r))

FairSpec == Spec /\ Fairness

----------------------------------------------------------------------------
(* Properties.                                                             *)

CallerPc == {"idle", "checked", "created", "dispatch", "reject"}
Unregistered == {"idle", "start", "claimed", "started", "panicked"}
Registered   == {"ready", "exec", "selected", "session", "finish", "emit", "leave"}
CancelPc == {"idle", "update", "hub", "local", "ok", "refused", "lost"}

\* Every variable keeps the shape its declaration gives it.
TypeOK ==
    /\ status \in [Runs -> Status]
    /\ runAt \in [Runs -> {"none", "future", "due"}]
    /\ runnerName \in [Runs -> BOOLEAN]
    /\ queued \subseteq Runs /\ held \subseteq Runs
    /\ inst \in [Instances -> {"down", "starting", "up"}]
    /\ registry \in [Instances -> [Runs -> Workers \cup {NoWorker}]]
    /\ dueList \in [Instances -> SUBSET Runs]
    /\ tpc \in [Callers -> CallerPc] /\ trun \in [Callers -> Runs \cup {NoRun}]
    /\ \A c \in Callers : tpc[c] \in {"created", "dispatch", "reject"} => trun[c] \in Runs
    /\ wpc \in [Workers -> Unregistered \cup Registered]
    /\ wrun \in [Workers -> Runs \cup {NoRun}]
    /\ \A w \in Workers : wpc[w] # "idle" => wrun[w] \in Runs
    /\ wctx \in [Workers -> {"live", "cancelled", "deadline"}]
    /\ wres \in [Workers -> {"none"} \cup Terminal]
    /\ \A w \in Workers : wpc[w] \in {"finish", "emit"} => wres[w] \in Terminal
    /\ cpc \in [Cancellers -> CancelPc]
    /\ crun \in [Cancellers -> Runs \cup {NoRun}]
    /\ \A k \in Cancellers : cpc[k] # "idle" => crun[k] \in Runs
    /\ csnap \in [Cancellers -> BOOLEAN]
    /\ events \in [Runs -> Seq(Actions)]
    /\ claims \in [Runs -> Nat]
    /\ notified \subseteq Runs
    /\ crashes \in Nat

\* However often a run is dispatched (by Trigger, by each pass of the delayed
\* runner, on each instance, again after a crash), it executes at most once
\* and never on two threads: ClaimPipelineRun.
PastClaim(w) == wpc[w] \notin {"idle", "start"}
ExecutesOnce ==
    /\ \A r \in Runs : claims[r] <= 1
    /\ \A v, w \in Workers : PastClaim(v) /\ PastClaim(w) /\ wrun[v] = wrun[w] => v = w

\* While a thread executes a run, the cancel function under that run's id on
\* that instance is its own (runCancels is keyed by run, and the deferred
\* unregister deletes by run without looking whose entry it deletes).
RegisteredWhileExecuting ==
    \A w \in Workers : wpc[w] \in Registered => registry[Home[w]][wrun[w]] = w

\* Once CancelRun changed the row, the run is cancelled for good, whatever
\* the executor, the sweeps and the dispatchers do later.
CancelSticks ==
    \A k \in Cancellers : cpc[k] \in {"hub", "local", "ok"} => status[crun[k]] = "cancelled"

\* "At most 3 runs of a repository at a time" (maxActiveRuns) is not what the
\* code keeps: the check of Trigger and its insert are not atomic, and delayed
\* runs are not counted.  What it does keep: the runs that start at once exceed
\* the maximum by at most one for each further caller.
Immediate == {r \in Active : runAt[r] = "none"}
Overshoot ==
    Cardinality(Immediate) + Cardinality({c \in Callers : tpc[c] = "checked"})
        <= MaxActive - 1 + Cardinality(Callers)

\* Subscribers see "started" once and one terminal event at most, in that
\* order; an immediate run is announced as "queued" before anything else.
EventOrder ==
    \A r \in Runs : \A m, n \in DOMAIN events[r] :
        m < n => /\ events[r][m] # events[r][n]
                 /\ events[r][m] \in Terminal => events[r][n] = "queued"
                 /\ runAt[r] = "none" => events[r][n] # "queued"

\* An open run that may execute now always has someone left to move it: a
\* Trigger on its way, a queued task, a worker, the delayed runner, or (in
\* memory mode, after a crash) the sweep of the next start.  In redis mode a
\* crash can leave a row to nobody: nothing is promised once one crashed.
Owned(r) ==
    \/ \E c \in Callers : trun[c] = r
    \/ \E w \in Workers : wrun[w] = r
    \/ r \in queued
    \/ status[r] = "pending" /\ runAt[r] # "none"
    \/ ~Redis /\ \E i \in Instances : inst[i] # "up"
    \/ Redis /\ crashes > 0
OpenRunHasOwner == \A r \in Runs : status[r] \in Open => Owned(r)

\* The rows behave as RunLifecycle says.
Lifecycle == INSTANCE RunLifecycle WITH claims <- {r \in Runs : claims[r] > 0}
RefinesLifecycle == Lifecycle!LSpec

\* Every run that is created ends (memory mode: no session waits for an agent).
EveryRunEnds == \A r \in Runs : status[r] \in Open ~> status[r] \in Terminal

----------------------------------------------------------------------------
(* What comments in the code say and the code does not do.                 *)

\* store/pipeline.go: the start-up sweep closes runs nothing executes any more.
SweepClosesOrphansOnly ==
    [][\A i \in Instances : inst[i] = "starting" /\ inst'[i] = "up" =>
         \A w \in Workers : Home[w] = i /\ wpc[w] \in {"exec", "session"} =>
             status'[wrun[w]] = status[wrun[w]]]_vars

\* main.go: auto-merge is re-evaluated (and "success" announced) after a
\* pipeline that succeeded.
SuccessMeansSuccess ==
    \A r \in Runs : \A n \in DOMAIN events[r] : events[r][n] = "success" => status[r] = "success"
=============================================================================
