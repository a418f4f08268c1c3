# gitdash: a verification project

TLA+ models of the parts of gitdash (a git hosting server written in Go,
`src/backend`) whose correctness depends on the order in which concurrent
actors take their steps. Every module names the source files it translates;
`PROJECT.json` maps each definition to its lines, lists the runs, the hazards
and the theorems.

## 1. The system

One Go binary (`src/backend/main.go`) serves HTTP, git over HTTP and SSH, and
runs a set of background loops in the same process. Its state is one SQL
database (`internal/store`), bare git repositories, spool directories, and,
optionally, redis (a task queue and a message bus to runners). Several server
processes may share the database and redis. There is no in-memory state that
is the truth of anything, with four exceptions: locks, cancel registries,
runner sessions and the memory queue. That is where the hard behaviour is: the
database serialises single statements, and nearly every operation is several.

| Component (sources under `src/backend`) | State | Operations | Talks to | What makes it correct |
|---|---|---|---|---|
| **Pipeline runs** `internal/pipeline/{pipeline,delayed,remote}.go`, `internal/store/pipeline.go` | rows `pipeline_runs`; `runCancels` | Trigger, RunDelayed, executeRun, CancelRun, FailStalePipelineRuns | queue, executor, hub, spool, success hook | a run executes once, ends once, ends at all; a cancel is final; subscribers see its events in order |
| **Merging** `internal/api/merge.go`, `internal/store/mergequeue.go`, `internal/gitsvc/{diff,merge}.go` | rows of pull requests, `merge_queue`, refs, `mergeLocks` | executeMerge, tryAutoMerge, processMergeQueue, AutoMergeForRepo | called by requests, reviews and the success hook | merged once; what was judged is what lands; no push lost; queue order; nothing mergeable forgotten |
| **Pull requests and reviews** `internal/api/{pulls,reviews}.go`, `internal/store/pulls.go` | rows, reviews | state, draft, auto-merge, review | merging | a merged pull request stays merged |
| **Executor** `internal/pipeline/executor.go` | containers | Execute | docker, cache, artifacts | ends when its context does |
| **Pipeline definition** `internal/pipeline/{dsl,when,params,graph,pr}.go` | none | Parse, Triggers, When | trigger | pure functions |
| **Cron scheduler** `internal/pipeline/schedule.go` | `pipeline_schedules` | ClaimSchedule | trigger | one trigger for a minute, whatever the number of instances |
| **Runner hub** `internal/runner/*.go` | connections, sessions, busy counts, redis presence | RunRemote, Cancel, HandleWS, reverse dial, offline sweep | agents over websocket, redis pub/sub | a job runs at most once on an agent; a session ends; a cancel reaches the agent |
| **Runner agent** `cmd/gitdash-runner` | jobs in flight | connect, accept, execute, report | hub | runs what it acknowledged, reports once |
| **Runner registration** `internal/store/runner.go` | tokens, runners | ConsumeRunnerToken, CreateRunner | API | a token registers one runner |
| **Queues** `internal/queue` | channel and `pending`; asynq | Enqueue, Start | runs, jobs | an accepted task is handled |
| **Webhook spool** `internal/webhooks`, `internal/gitsvc/events.go` | files, `webhook_deliveries` | WriteSpool, drain, reclaim, HandleJob, processRetries | handlers: Trigger, mail, index | an event is handled at least once, and once if nothing crashes; five attempts |
| **Background jobs** `internal/jobs` | keyed mutex, import and mirror status | enqueue, handle, RequeuePending | queue, git | one job per repository at a time; none stuck |
| **Code search** `internal/codesearch` | index, manifest, dirty set | index, delete, merge, reconcile | jobs | index converges to the repository |
| **Accounts, sessions, tokens, rate limits** `internal/api/*`, `internal/store/*` | rows; in-memory windows | one request each | – | single-row updates, codes used once |
| **Blobs of packages and container images** `internal/store/{packages,registry}.go`, `internal/api/registry.go` | files by digest, upload sessions, rows | storeBlob, CreatePackageFromFile, PATCH and PUT of an upload, pruning | file system | a blob that a row refers to is the content of its digest |
| **Repositories, issues, projects, releases, package formats** | rows, files | one request each | spool, quota | quota is not exceeded |
| **Git storage** `internal/gitsvc` | bare repositories | subprocesses | everything | atomic ref updates (git's own) |
| **Copilot, notifications, SSH, gRPC, updater, backup, CLI, frontend, support packages** | little or none | – | – | not modelled |

Flow of control: a push runs the post-receive hook, which spools an event and
marks the repository's index dirty; the spool dispatcher (`WebhookSpool`) hands
the event to its handlers: they trigger pipelines, enqueue a webhook delivery
(`WebhookDelivery`), a mirror job (`MirrorSync`) and an index job (`CodeIndex`).
The cron scheduler (`ScheduleClaim`) is another source of runs. The queue or a
goroutine runs `executeRun` (`PipelineRun`), which executes the steps here
(`Workspace`) or sends them to a runner (`RemoteRunner`, whose connections
`ReverseDial` may open); its success calls `AutoMergeForRepo`, which runs the
merge gate (`MergeGate`) for every pull request that waits for CI.

The modules meet at these edges and each states what the other side may do:
`MergeGate` has the success hook as `PipelineSucceeds`, `PipelineRun` as the
event `"success"`; `PipelineRun` has a remote session as `OpenSession` and its
outcome as any outcome at any time, which `RemoteRunner` details; a local
`Execute` likewise, which `Workspace` details; `MirrorSync` composes
`KeyedMutex` by INSTANCE, for the lock under which a mirror is pushed. What a
dispatcher hands on more than once (`WebhookSpool`) is for `PipelineRun` another
caller of `Trigger`.

### What is hard here

Everything under `"hazards"` in `PROJECT.json`, at its line. In short: rows
that are read, checked and written in separate statements (maxActiveRuns, the
state of a pull request); work that is dispatched several times on purpose
(delayed runs, merge passes) and must take effect once; a cancel that races
the end of what it cancels; start-up that reclaims what a dead process left
while the new one is already working; a merge queue processed by whoever comes
by; events that are never repeated, so that a condition checked a moment too
early is checked never again; a runner behind a lossy bus.

## 2. Plan

In this order, the most important first:

1. `PipelineRun`, `RunLifecycle`, `PipelineRunProofs` (**done**).
2. `MergeGate`, `MergeGateProofs` (**done**, with crashes; left: the squash
   method, which needs commits that are not sets of changes).
3. `RemoteRunner`, `RemoteRunnerProofs`, `ReverseDial` (**done**).
4. `WebhookSpool`, `WebhookDelivery` (**done**).
5. `KeyedMutex`, `KeyedMutexProofs`, `MirrorSync`, `CodeIndex`, `ScheduleClaim`
   (**done**).
6. `Workspace`, `WorkspaceProofs`, `BlobStore` (**done**).
7. Left: the one-time registration token of a runner, quota (`createMu` is per
   process, so that several servers overshoot), the rate limiter's window, the
   DSL's `when` and job graph as operators against a reference definition.

Every safety property that a passing run checks is the statement of a theorem.

## 3. `PipelineRun`

**State.** The columns `status`, `run_at`, `runner_name` of each row; the asynq
queue as the set `queued` of waiting TaskIDs and the set `held` of TaskIDs that
are taken (active or archived); for each server process whether it is down,
starting or up, its `registry` (`runCancels`) and the due rows its delayed
runner has read; and a program counter for each thread: *callers* run `Trigger`
(API handlers, the spool dispatcher, the cron scheduler), *workers* run
`executeRun` (goroutines in memory mode, asynq slots in redis mode),
*cancellers* run `CancelRun`. `events` records what was published.

**Actions.** A step lies between two accesses to state another actor can see,
so one database statement, one queue call or one registry access is one step:

| Code | Actions |
|---|---|
| `Trigger` | `CheckActive`, `Decline`, `Create`, `EmitQueued`, `DispatchNow`, `EnqueueError`, `Reject` |
| `RunDelayed` | `BecomeDue` (the clock), `ReadDue`, `DispatchDue` |
| `executeRun` | `TakeTask`, `Claim` / `SkipClaimed`, `EmitStarted`, `Register`, `LogFails`, `ExecuteHere`, `SelectRunner`, `OpenSession`, `Timeout`, `ExecuteOk`, `ExecuteErr`, `Panic`, `Recover`, `FinishRun`, `EmitResult`, `Leave` |
| `CancelRun` | `CancelRead`, `CancelUpdate`, `CancelHub`, `CancelLocal` |
| `Hub.sweepOffline` | `OfflineSweep` |
| `main` | `Boot`, `OrphanSweep` |
| the process dies | `Crash` |

**Abstractions.** What a step of a pipeline does is the outcome of `Execute`:
success, an error, a panic, at any time and whatever the context says. The
clock is the state of `run_at` (none, future, due). In redis mode the cutoff of
the start-up sweep (an hour ago) may take any set of active rows, since ages
are not modelled. Database errors are not modelled; a queue call that fails is,
with the task stored or not. Progress, logs and artifacts are left out. A
crash takes every thread of its process.

**Properties.** `ExecutesOnce`, `CancelSticks`, `RegisteredWhileExecuting`,
`EventOrder`, `Overshoot` (what maxActiveRuns really bounds: the check and the
insert are two statements, so each further concurrent caller adds one),
`OpenRunHasOwner` (an open run that could execute always has someone left to
move it), `EveryRunEnds` (liveness), and the refinement of `RunLifecycle`.

**Fairness** (`FairSpec`). Goroutines of a live process run (weak fairness on
each thread's steps); a local `Execute` ends, because every step runs under a
timeout of its own; the delayed runner's ticker fires, and what it has read is
dispatched (strong fairness, since a dispatch in memory mode needs a free
worker of the model, while the code starts a goroutine whenever it likes); run_at
comes; a supervisor restarts a dead process. Nothing is assumed of users, of
crashes, of panics, of cancels or of remote sessions: a session waits for its
agent, and without `job_timeout` nothing in the server ends it. `EveryRunEnds`
is therefore checked in memory mode, where there is no hub.

`RunLifecycle` is the promise other parts rely on: created once, claimed at
most once, closed once, no success without a claim. Several runs may close in
one step, because the start-up sweep is one SQL statement.

## 4. `MergeGate`

**State.** `state`, `draft`, `auto_merge`, `head_sha` of each pull request
towards one branch; the merge queue, as the auto-increment id of the entry of
each pull request (0 for none), so that the order of the queue is the order of
the ids; the latest review of each
reviewer and the commits whose aggregated CI status is success; the refs; the
lock of the branch; and a program counter with its locals for each request
thread. A commit is the set of changes it contains, so ancestry is set
inclusion and a merge is a union: enough to tell what lands, what is lost and
what was judged.

**Actions.** Requests (`MergePull`, `RequestAuto`, `Review`, `RequestState`,
`SetPullDraft`, `ClearAutoMerge`, `DequeuePull`), the success hook
(`PipelineSucceeds`, `AutoMergeForRepo`), pushes and CI (`PushSource`,
`PushTarget`, `PipelineRestarts`), the passes (`TryAutoMerge`, `Enqueue`,
`ListMergeQueue`, `NextEntry`, `NextAuto`, `Drop`) and `executeMerge` step by
step: `Acquire`, `PassGate`, `RecheckHead`, `FFRead`, `FFCheck`, `FFOld` or
`CloneMerge`, `Land`, `MarkPullMerged`, `Notify`. `Crash` ends the process with
requests under way, between the ref and the row if it so happens: the threads
and the lock are gone, rows, queue and refs stay. Nothing at start-up calls
`processMergeQueue` or `AutoMergeForRepo`, so what the threads were to attempt
(`Given`) may be mergeable with no event left to say so: it is added to
`missed`. A git subprocess is taken to die with its server. A database error of
`MarkPullMerged` leaves the same rows and refs.

**Abstractions.** One target branch (the lock, the queue and the rule are per
branch). Method `merge` stands for the methods that work in a clone (`merge`,
`rebase`); `squash` differs once a merge is repeated: after a crash between the
ref and the row it has nothing to commit and fails from then on. It is not
modelled.
CODEOWNERS, a rule changed in flight, deleted branches and a second server
process (whose locks are its own) are left out. An enqueue takes its id and
becomes visible in one step, as under SQLite's single writer; PostgreSQL may
show a lower id after a higher one. A reviewed commit is the head
of the moment.

**Properties.** `AnnouncedOnce` (F-03: marked and announced once, except where
`setPullState` overwrote a merge, which the ghost `undone` counts),
`MergedIsOnTarget`, `QueueOrder`, `NotForgotten` (when all threads are idle, no
auto-merge pull request is left that the gate would pass, unless its condition
changed without an event: the ghost `missed`). These ghosts say precisely which
exceptions the code makes. One of them came out of the proof: a fast-forward
that replaces a push it did not check against (the finding of `merge_overwrite`)
takes changes back from the target, and another pull request whose branch lacked
just those can be fast-forwarded from then on, with no event to say so. `Land`
adds it to `missed` (`FreedBy`). It takes more requests than the runs allow.

## 5. The background services and the execution of a run

Ten modules, each small enough to be read beside its code. `Background` is their
composition: an instance of each, a specification over all of them and the
properties; `MCBackground` gives the constants values and checks it in one run
(section 6). `ServiceProofs` and `BackgroundProofs` hold the theorems about it
(section 7).

### `KeyedMutex`, `MirrorSync` (`internal/jobs`, `internal/queue`)

`KeyedMutex` is the lock per repository: a map to entries with a count of who
holds or waits, the last to leave removing the entry. A section under the map's
own mutex is one action (`Enter`, `Leave`), as are `Acquire` and `Unlock` of an
entry; an entry nobody refers to may be allocated again. Properties:
`Exclusion`, and `NoEntryLeaks` (a key nobody uses keeps no entry), which is
proved and checked by no run.

`MirrorSync` is the push mirror of one repository: pushes through the spool,
sync requests and a new target, the memory queue with its mark and its channel
as two steps, the workers that push under the lock, a restart with
`RequeuePending`. What a target holds is the number of pushes it has seen; the
push reads the repository when it starts and writes the target when it ends.
Properties: `NeverGoesBack` (a target never goes back to an older state, though
two jobs may work at a time), `StatusEnds` (queued and running end in an
outcome, across a restart), `MirrorCatchesUp`. Both liveness properties excuse
`full`: MemoryQueue marks an ID pending before the channel takes it
(`queue.go:75`), so that an Enqueue that meets the mark of another one reports
success, and its job is lost when the other then finds the channel full. With
redis the queue is asynq's: that mode of the mirrors is not modelled. A job of
the old URL that is in flight while the target changes sets "synced" for the new
one; the status is a display and no property is about it.

### `CodeIndex` (`internal/codesearch`, `internal/jobs`, `internal/api/repos.go`)

One repository name, its row, directory and default branch, the hook of each
push (`HookSpool`, then `HookMark`), the task (memory or asynq), the steps of
`Index` (`Resolve`, `ListTree`, `ReadMeta`, `ReadManifest`, `Lock`,
`DeleteDocs`, `IndexFile`, `SaveManifest`, `SetMeta`, `CheckHead`, `Unmark`, `Fail`),
the backfill, `deleteRepo` in its three steps, the re-creation under the same
name, the pruning loop, a crash. A commit is a number, a blob an ID with a
number of lines, since documents are keyed by line: those of a longer old file
survive beyond the end of a shorter new one unless they are deleted first.

Properties: `CurrentIsExact` (a served index that says it holds the commit of
HEAD holds exactly its lines), `NoForeignLine` (and no line of an earlier
repository of the name), `Converges` (a push whose own task was dropped is
indexed all the same).

`CurrentIsExact` is proved (section 7) for one rebuild of the repository at a
time, which asynq's TaskID grants whatever the number of workers, for a name that
is not used again (`NeverRecreated`) and files that do not get back an earlier
content (`NeverBack`). Beyond that the code does not have it:

* A file that is changed back: `index_reverted` shows it. The tree is listed and
  the files are read by branch name, at different moments.
* Several workers: the in-process queue has two (`main.go:494`), and the entry of
  meta.json and the manifest are read before the write lock (`bleve.go:282`), so
  that a rebuild may compute its difference from what another has replaced.
* `clearDirty` comes after a check of HEAD and not with it (`bleve.go:334`): a
  push in between loses its mark. The hook spools the event before it marks, so
  a mark may also come late and stay until the next rebuild.
* A `Forget` may come after the name was taken again; it takes the new
  repository's index with it, which the backfill brings back.

With asynq the task of a push is dropped while one of the repository is active,
and for good after a crash, when the archived task keeps the TaskID.

### `WebhookSpool`, `WebhookDelivery` (`internal/webhooks`, `internal/store/webhooks.go`)

`WebhookSpool`: files that are claimed by a rename, handled and removed by
several nodes, claims that are taken back when the file is older than 15
minutes, crashes. The age of a file is that of the event, since a rename keeps
it. Properties: `NotLost`, `HandledOnce`, `EventHandled`. With two nodes and an
event older than 15 minutes a node may take the claim of a live one back, claim
it, and lose it to the `Remove` of the first, before it has read it: the
comment in `webhooks.go:172` ("保持至少一次语义", keeps at-least-once semantics)
holds with that exception, which the ghost `stolen` names in `NotLost`.

`WebhookDelivery`: one delivery, its tasks (without an ID, so there may be
several), workers, the pass over due retries, the deletion of the webhook,
refused tasks, crashes of either kind of queue. Properties: `AttemptsBounded`
(at most `maxAttempts` posts, and one for each crash that forgot an outcome),
`OutcomeFinal`, `RetryEnds`. The first two hold as long as no worker outlasts the
60 s of a deferred retry and no two nodes look for retries at once: then two
tasks of the delivery are at work, which the ghost `overlaps` counts.

### `ScheduleClaim` (`internal/pipeline/schedule.go`, `internal/store/pipeline.go`)

Several instances read the clock once per pass, look the schedule up, and claim
it by a conditional update. `store/pipeline.go:292` says that only one instance
succeeds; two passes whose clocks differ may both fire a tick.
`TwiceOnlyOverlapping` says exactly when: only passes of which each read before
the other claimed. `NoTickSkipped`: a tick after the registration is fired or
covered by a later one; the registration itself may come late, by an instance
that read an empty row, and swallows the ticks before it.

### `RemoteRunner`, `ReverseDial` (`internal/runner`, `cmd/gitdash-runner`)

`RemoteRunner` has the calls of `RunRemote` (dispatch, await, stream, wait), the
frames in redis, in the send queue and on the wire, the hub's connections and
pumps, the offline mark, and the agent: its read loop, slots, the jobs map, the
workspace it collects. A frame is its type, run and sequence number; an archive
unpacks when every chunk arrived in order. Lost frames (of redis, of an event, of
a cancel), a late ack, a deadline, a lost link and a crash are faults, whose number
an instance bounds.

The read loop is one thread, and it waits in three places: in its read
(`Reading`), for an execution slot (`waiting`, `main.go:362-366`) and for room in
the channel of a job (`handing`, `main.go:387`; 64 chunks in the code, `DataCap`
here). Only the read notices that the link is lost (`Disconnect`), since nothing
else ends the context of the connection. The other two waits may never end, and
then the connection, its jobs and their slots stay:

* for a slot, when every slot is held by a job whose chunks are behind the frame
  that the loop has in hand;
* for a channel, when its job has ended after a cancel: the goroutine that
  `execJob` leaves to empty the channel (`main.go:453-467`) stops with the job's
  context, and the loop's send looks at none.

`Stuck` is these two states, and `LostJobsEnd` says that every lost connection is
left, with all its jobs ended, unless the agent is stuck. The subject `slot` (one
slot, a job that is sent twice, two faults) reaches both; without `Stuck` the
property is violated there, and its second state also with two slots.

Properties: `ExecutedOnce` (a run whose job was sent again is executed once),
`SuccessIsReal` (a success was executed with the whole workspace, although a
full queue drops chunks without a word), `Completes`, `LostJobsEnd`,
`StatusSettles`. What the code does not promise, and no property says:

* A reconnect closes the send channel of the old connection while its pump may
  still send to it: the send panics and ends the process (`PumpClosed`).
* `Completes` needs a slot for every job and no fault, and says nothing of an
  agent that gets stuck.
* An agent that is stuck stays so, in the mode in which it dials. In reverse mode
  the server may open a second connection beside the stuck one (`serveWS`), which
  is not modelled; nor is a restart of the agent.
* A dropped terminal status leaves the session waiting, unless `job_timeout` is
  set. The agent is never told of a deadline.
* The second job of a late ack waits for a workspace that is not sent again, and
  holds its slot until the connection ends, if the read loop gets to notice that.

`ReverseDial`: each instance reconciles a dial loop with the runner's row, and a
redis key without an owner lets one loop dial at a time. `OneDialer`: as many
dial as there are stalls longer than the key lives, plus one. `StaysDialled`:
the runner is dialled at its present URL again and again.

### `Workspace` (`internal/pipeline/executor.go`, `cache.go`)

The steps of a run, each a group of sub-steps with a container each. A context
that ends, by the timeout of a step or a cancel, kills only the docker client
(`KillClient`); `RemoveContainer` then ends the container, or is given up
(`stray`). `NoContainerLeft`: whatever comes next never meets a container of an
earlier step. A process that dies leaves its containers, and the property says
so. The daemon is assumed to start nothing for a client that is gone.

After the steps, `cacheSave` copies the paths to a directory of the run's own,
removes the entry that the runs of a repository share and renames its own into
place; os.Rename of Go does not replace a directory, and RemoveAll works in the
directory it opened. `CacheSurvives`: however saves interleave, once the cache
was saved it is there, and whole, when no run is in between. `cache.go:62` calls
the step atomic ("原子替换"), which it is not in two ways: a restore that
overlaps a save may copy a part of the entry, and a crash between the removal
and the rename leaves a partial entry or none (`torn`) until the next save.

That every step has a timeout is what `PipelineRun` takes for its fairness of a
local `Execute`.

### `BlobStore` (`internal/store/packages.go`, `registry.go`, `internal/api/registry.go`)

Packages and container images share one directory with a file for each digest.
Three ways lead into it: an upload session, whose PATCH and PUT requests append to
a temporary file under the session's mutex and whose PUT hashes it, looks for the
blob and renames; a package in memory, which `storeBlob` writes in place; and a
package in a temporary file, which is renamed. An open file is an inode, so a
request that has opened the temporary file would go on writing to the blob after
the rename, were it not for the mutex; the pruning of sessions an hour old takes
none. `BlobWhole`: what a package row or the grant of an upload refers to is there
and is the content of its digest, with two exceptions, which are the code's:

* `storeBlob` opens with O_TRUNC: a second writer of a content empties the file
  for a moment, although a row refers to it.
* A write that breaks off, because the disk is full or the process dies, leaves a
  part of the content under its digest (`cut`). Every later upload of it finds a
  file of that name (`packages.go:135`, `257`, `registry.go:110`; the comment at
  `packages.go:258` calls it a blob of the same content) and succeeds with it.

Grants have a second source, which is not modelled: `BackfillRegistryBlobAccess`
(`store/registry.go:257-277`) writes, once, when a server starts with an empty table,
the grants of all digests that stored manifests name. It looks at no file, and a
manifest is stored without a look at its blobs, so that `BlobWhole` does not hold
of those.

The instance has no second file system: a rename across two (`os.CreateTemp`
makes the file of an upload in the system's temporary directory) is
`RenameFails`. Blobs are never removed, so the deletion of rows is left out.

## 6. Runs

| Run | Instance | Shows |
|---|---|---|
| `run_memory` | memory mode, 1 server, 2 runs, 2 callers, 2 workers, 1 crash, MaxActive 1 | type invariant, `EventOrder`, `RegisteredWhileExecuting`, `Overshoot` |
| `run_redis` | redis mode, 2 servers, 1 run, 1 caller, 2 workers, 1 canceller, 1 crash | `ExecutesOnce`, `CancelSticks`, `OpenRunHasOwner`, refinement of `RunLifecycle` |
| `run_ends` | memory mode, 1 run, 2 workers, 1 canceller, 1 crash, fairness | `EveryRunEnds` |
| `run_sweep` | memory mode, no crash | violated: `SweepClosesOrphansOnly` |
| `run_success` | memory mode, a cancel | violated: `SuccessMeansSuccess` |
| `merge_direct` | no queue, 1 approval and CI required, 1 push per branch, 4 requests, pushes or crashes | type invariant, `AnnouncedOnce`, `MergedIsOnTarget`, `NotForgotten` |
| `merge_queue` | merge queue, CI required, 4 requests or crashes | `QueueOrder` |
| `merge_judged` | no queue | violated: `LandsWhatWasJudged` |
| `merge_overwrite` | no queue | violated: `NothingOverwritten` |
| `merge_stall` | merge queue, 2 requests | violated: `QueueNotStalled` |
| `background` | the modules of section 5, see below | 15 invariants, 11 action and liveness properties |
| `index_reverted` | one file that changes and changes back, memory queue, no fault | violated: `CurrentIsExact` |

**Bounds, and why they are enough.** Two of everything that competes: two
workers for one run, two instances for one row, two callers at the limit, two
merge threads for one lock, two pull requests for one branch. `MaxActive` 1
makes two callers overshoot. One crash is enough for every window, since a
second one only repeats the recovery of the first. `MaxRequests` bounds the
requests and pushes of a behaviour, and a crash is one of them: four are an
approval, a switch, a merge and a crash that race, or two passes over the queue
with an entry removed and queued again. `MaxPushes` 1 per branch gives a push in
each window. One method of each kind is used: pull request 1 merges in a clone, 2
fast-forwards. Runs, callers and workers of one server, and merge threads, are
interchangeable, so the passing safety runs of `PipelineRun` and `MergeGate` use
symmetry; the runs with liveness properties do not. The servers may stop (every
run ended, no request left), so deadlock is not checked where the configuration
says so.

**Violated runs.** Each states what a comment in the code says and TLC shows a
behaviour of the code that contradicts it; `"findings"` quotes the lines:
runs that have just started are failed by the start-up sweep; a cancelled run
announces success and starts auto-merge; a fast-forward lands a commit the gate
did not judge; a fast-forward overwrites a push; a merge queue stalls behind a
pass that lost a race; the index serves lines of a push that was reverted.

**`background`.** The services of section 5 share no state that their properties
depend on, so one run checks them one after the other: `Background` has an
instance of each of them, the first state picks the `subject`, and the others stand
still. Every property of a component is restated under the subject that runs it.
The values, which `MCBackground` and `Background.cfg` give the constants of `Background`:

| Subject | Instance | Why it is enough |
|---|---|---|
| mutex | 3 threads, 2 keys, 3 entries | a thread that leaves, one that waits and one that comes |
| index redis | 2 files in 3 commits, 1 fault | a file that changes to a shorter one and one that comes and goes; a rebuild that fails between two others |
| index memory | 1 file, 2 repositories, 1 fault | a deletion and a re-creation around a rebuild |
| remote | 1 run, 2 tries, 2 chunks, a channel of 1, 2 connections, 2 slots, 1 fault | a job sent twice, a lost chunk, a full channel, a reconnect |
| slot | the same with 1 slot, 1 connection and 2 faults | a job sent twice holds the only slot while the read loop waits for it, and the link is lost |
| mirror | 1 target, 2 pushes, a channel of 1, another repository's job, 1 fault | a full channel, a restart, two jobs at a time |
| mirror targets | 2 targets, 1 push, 1 request, 1 fault | the target changes while a job is under way |
| spool | 2 events, 2 nodes, 2 starts, 1 crash | a claim that is taken from a live node |
| delivery | 5 attempts, 2 workers, 2 nodes, memory queue, 2 faults, 1 overlap | every attempt used up, with a task lost on the way |
| schedule | 2 instances, 2 ticks, 1 crash | two clocks around a tick |
| reverse | 3 instances, 2 URLs, 1 stall, 1 crash | a stalled loop that deletes its successor's key while a third waits |
| steps | a group of 2 and a plain step, 2 faults | a sub-step that fails while the other runs, a step after it |
| cache | 3 runs, 1 path, 1 fault | two that remove and a third that renames in between |
| blobs | 1 session, 2 requests, 1 package, 2 contents of 1 and 2 chunks, 1 fault | a chunk between the hash and the rename makes one content the other; a package that writes over an upload |

**Fairness of the background services.** `BackgroundSpec` states none. A liveness
property of a component is checked as `subject = "x" => (XFairness => X!Prop)`,
with the fairness of that component's own `Spec`: goroutines, timers and hooks
of a live process run, keys expire, a stalled process wakes, a dead one is
restarted, an agent connects again and its containers end. `WebhookSpool` has
strong fairness on claiming an event: a pass tries every file it listed, so the
file is not passed over for ever although others come first. Nobody has to push,
sync, start, cancel or fail. The guards by `subject` inside the fairness are for
TLC's speed and change nothing in the behaviours they are about.

## 7. Proofs

`PipelineRunProofs` proves, for all values of the constants allowed by
`PipelineRunAssumption`:

* `TypeCorrect`: `Spec => []TypeOK`.
* `RunsExecuteOnce`: `Spec => []ExecutesOnce`. The property is not inductive:
  nothing in it says that a pending row was never claimed. `ClaimInv` adds
  what links rows, threads and counters: a row that was not created or is
  pending has no claim, a claimed row has exactly one, a worker past its claim
  works on a claimed run and is the only one. A claim needs a pending row, so
  it is the first; every other step leaves `claims` alone and never makes a row
  pending again.
* `CancelIsFinal`: a canceller past its update works on a cancelled row, and no
  update touches a terminal row.
* `ExecutingIsRegistered`: with at most one worker past its claim for a run,
  nobody else registers or unregisters under its id.
* `ImplementsLifecycle`: `Spec => RefinesLifecycle`, step by step from the same
  invariant (a success is reported by a worker that claimed).
* `EventsInOrder`: `Spec => []EventOrder`. `DispatchInv` says which thread may
  still hand a row on, and that a row on the clock is with nobody; with it,
  `EventInv` says what a row's events can be at each place of its worker and its
  caller: nothing but `queued` before the claim, nothing terminal before the
  worker that claimed leaves.
* `EveryOpenRunHasOwner`: `Spec => []OpenRunHasOwner`. `OwnerInv` names, for each
  row that waits or runs, the thread, task or sweep that will move it, and says
  that a TaskID is held only by a worker that is at it.
* `ActiveRunsBounded`: `Spec => []Overshoot`, by counting: a caller past the check
  stands for one insert, and the callers are finite (`PipelineRunAssumption`).

`MergeGateProofs` proves, for all values of the constants allowed by
`MergeGateAssumption` (any number of pull requests, threads and reviewers, with
or without a queue):

* `TypeCorrect`: `Spec => []TypeOK`.
* `MergeAnnouncedOnce`: `Spec => []AnnouncedOnce`. It rests on `LockHeld`: who is
  inside `executeMerge` holds the lock of the branch, so at most one thread is
  about to announce. `NotesMatch` counts that announcement once; marking the
  row, which needs an open row, is what allows it.
* `MergedStaysOnTarget`: `Spec => []MergedIsOnTarget`. `Landing` says, while no
  push hit a window of `mergeFastForward`, how far each thread is: the commit
  it resolved is the one whose ancestry it checks, contains the target, and
  then contains the value that the ref update replaces. The lock excludes the
  other merges, and `update-ref` with an old value the later pushes.
* `PassesKeepTheOrder`: `Spec => QueueOrder`. `Ordered` says that what a pass
  listed and was not removed still has its id, that whatever came later has a
  higher one, and that the pull request at hand is ahead of the rest of the
  list; so it is the head of the queue when it lands.

* `NoEventIsMissed`: `Spec => []NotForgotten`. `Attended` says that, without a
  queue, every pull request that is `Wanted` (mergeable, auto-merge on, not
  `missed`) has a thread that `Attempts` it: the hook before it lists, a list with
  the pull request still on it, an attempt that waits for the lock, or a merge
  that has passed every check with what is true now. A step that makes something
  wanted begins an attempt, an attempt that fails shows that its pull request is
  not wanted, and a crash makes `missed` what it takes away. `ListModes` (only a
  thread in a list's loop is in mode `list`) is what leaves no attempt once all
  threads are idle.

The steps of a thread are treated once for what they do to the control of the
threads (`RequestControl`, `PassStepControl`, `MergeStepControl`); the
invariants cite that.

The proofs of `MergeGate` have a case for `Crash` in each invariant: a thread that
is idle is not at work, holds no lock and announces nothing; a row that was not
marked stays open.

`KeyedMutexProofs` proves, for any threads, keys and entries allowed by
`KeyedMutexAssumption`:

* `TypeCorrect`, `MutexExcludes` (`Spec => []Exclusion`) and
  `MutexKeepsNoEntry` (`Spec => []NoEntryLeaks`). A waiting thread knows its
  entry, not its key, so exclusion per key needs that the entry is still the
  key's: `AtItsKey`. That holds because an entry is removed only when `refs` is 0,
  and `RefsCount` says that `refs` counts the threads at the entry (by
  Cardinality, hence the assumption that the threads are finite). `OwnerHolds`
  and `MapIsUsed` complete the induction.

`WorkspaceProofs` proves, for any runs, steps, groups, paths and faults, under the
hypothesis `WorkspaceAssumption` (a conjunct of `BackgroundAssumption`, which TLC
evaluates for the instances that are checked):

* `TypeCorrect`, `ContainersEnd` (`Spec => []NoContainerLeft`). `SubInStep` and
  `AtStep` say where a goroutine of a sub-step may be, given where its run is:
  a container belongs to a client or a clean-up of the present step, and the
  step ends only when all of them have.
* `CacheIsNotLost` (`Spec => []CacheSurvives`). `EntrySaved`: an entry is that of
  a run whose save was committed. `RemoverSees`: who removes the present entry
  has all that is left of it still before it. `PartialRemoved`: an entry that is
  not whole is being removed, unless a run died there. `GoneReplaced`: an entry
  that is gone is about to be replaced, with the same exception.

`ServiceProofs` and `BackgroundProofs` prove theorems of `BackgroundSpec`, for all
values of the constants allowed by `BackgroundAssumption`, which TLC evaluates in
the run `background`. A lemma of each component shows that the other subjects leave
its variables alone, so that its own `Next` is all there is to consider.

`ServiceProofs`:

* `EventsAreNotLost`, `EventsAreHandledOnce` from `SpoolInv`: whoever works on an
  event has its claim, or the event was stolen, and only an old event is; a claim
  about to be removed was handled; an event that was started is not on offer
  again, unless a crash or a theft put it there (`SpoolAssumption`: the name of no
  event is not an event).
* `PostsAreBounded`, `OutcomesAreFinal` from `DeliveryInv`: as long as nothing
  overlapped, one task, one worker or one pass at most is busy with the delivery
  (`OneTask`), a row with an outcome has none of them (`RowRests`), and `PostsCounted`
  relates the posts to the attempts in the row, in the task and at the worker
  (`DeliveryAssumption`: at least one attempt is allowed).
* `DeliveryTypesInvariance`, a lemma for `TypesAreKept`: overlaps or not, the attempts
  that a row counts or a worker is about to record were posted (`AttemptsPosted`), so
  that no task carries more of them than there were posts.
* `BlobsAreWhole`: `BackgroundSpec => []BlobWhole`. `BlobInv` follows the file, not
  the request: one request at a time is inside a session (`OneRequest`), a file
  has its own name or one digest's (`OneName`, `OneDigest`), and once it has a
  digest's nobody appends to it any more; a digest's file is its content, unless
  a package is writing it or a write broke off (`WholeFiles`); what is referred to
  is there (`Referred`).
* `TicksFireOnce`, `NoTickIsSkipped` from `ScheduleInv`: each claim is numbered,
  was due and moved `last_fired` (`ClaimsMade`, `ClaimsInOrder`); a pass about to
  claim has read a base that every claim before its read had moved
  (`PassesRead`); every tick between the registration and `last_fired` is covered
  by a claim (`TicksClaimed`).
  `ScheduleAssumption`: the period is at least 1.
* `OneServerDials` from `ReverseInv`: the loops past the key are at most as many as
  there were stalls, plus one if the key is there and one of them is alive to
  refresh it (`LoopsCounted`, hence the finitely many servers of
  `ReverseAssumption`). The property alone is not inductive: who takes the key
  must know that no stall is needed to excuse the others.

`RemoteRunnerProofs` (of `Behaviour`, the steps without fairness, under the hypothesis
`RemoteAssumption`, which `BackgroundAssumption` has for each of the two agents: at
least one chunk, one try, and room for one chunk in a channel):

* `OneExecution` (`Behaviour => []ExecutedOnce`) and `SuccessOfAJob` (`Behaviour =>
  []SuccessIsReal`) from `RemoteInv`. Neither property says anything of the frames on
  their way, and that is where it is decided. On every connection the chunks of a
  run go out in order and each once (`ChunksInOrder`), they were sent (`ChunksSent`),
  and what the agent has not read comes after all that any of its jobs collected
  (`ChunksAreNew`). So no two jobs of a run share a chunk (`ChunksOnce`), and the
  first of them can be in one job only, while a job runs with all of them
  (`JobsAreWhole`). `SuccessReported`: a success on the wire, in the events of a
  session or returned is that of such a job. That the workspace is streamed once
  comes from `ServerOK`: a call that dispatches again has sent nothing yet.
* `RemoteTypes` (`Behaviour => []TypeOK`).
* `HandsOver` completes the induction: a read loop that waits for a channel has
  the chunk it read at the head of its connection, of the run of the job it looked
  up. A chunk is handed to that job even when the entry names another by then.

`BackgroundProofs`:

* `NoStepLeavesAContainer`, `SavesKeepTheCache`: the behaviours of `Background`
  with these subjects are behaviours of `Workspace`, so the theorems of
  `WorkspaceProofs` apply.
* `TargetsGoForward`: `BackgroundSpec => NeverGoesBack`, an action property. It
  composes: `MirrorInv` contains the invariant of `KeyedMutexProofs` for the
  mirror's lock (its instance there is proved about, not repeated). Who pushes
  holds the lock of the repository (`PushesHoldTheLock`), so there is one push at
  a time and what it has read is no older than what the target holds
  (`PushesAreNewest`). `MirrorAssumption`: finitely many workers, as the lock's
  count needs.
* `RunsExecuteOnce`, `SuccessMeansTheJobRan`: a behaviour of `Background` is one of
  `RemoteRunner` with either of the two agents (`RemoteBehaves`), so the theorems of
  `RemoteRunnerProofs` apply.
* `NoLineOfAnEarlierRepository`, `TheServedCommitIsExact`: the theorems of
  `CodeIndexProofs`, for the behaviours with one of the indexes.
* `TypesAreKept`: `BackgroundSpec => []BackgroundTypes`. The type invariants of
  `Workspace`, `CodeIndex`, `RemoteRunner` and `KeyedMutex` come from their own
  proof modules, the others from the invariants above; `PushesBounded` completes
  `MirrorInv` with the bound of the instance.
* `LockExcludes`: `BackgroundSpec => []Exclusion`, from `KeyedMutexProofs`.

`CodeIndexProofs` (of `SafetySpec`, which is `Spec` without fairness, under the
hypothesis `CodeIndexAssumption`, a conjunct of `BackgroundAssumption`):

* `ServesNoForeignLine` from `LinesOwned`. Ids only grow, so "no line of an
  earlier repository" is "no line below": the index is owned from the repository
  that the entry of meta.json names (`OwnedFrom(meta.id)`), from the one a rebuild
  found there, and, once it has deleted, from the one it was asked for. It needs
  neither the write lock nor one task at a time: a rebuild that keeps documents
  read an entry of its own repository, and no step adds a line of an older one.
* `ServesTheCommit` from `OneAtATime` and `Current`. What a rebuild leaves behind
  is not the tree it listed, since it reads the files later than the tree: each
  file's documents are those of some commit from the listed one up to the head
  (`Follows`). The next rebuild compares trees, and that is enough because a blob
  that is in both trees was in every commit between (`NeverBack`), while a file
  that the tree lacked has no document at all (`NoneOf`). `Rebuilding` carries this
  through the steps of `Index`. Hypotheses: `NeverRecreated` and `NeverBack`
  (CodeIndex), and `OneTask`, asynq or one worker. Each is needed: `index_reverted`
  violates the second one only, and with two ids TLC finds a late `Forget` that
  lets a rebuild save a manifest of lines that were taken away. Crashes, failed
  rebuilds, dropped tasks and any number of concurrent pushes are not excluded.

Only model-checked: every liveness property, which is beyond the prover. Every
invariant and action property of the passing runs is proved; what the other runs
refute is of course not, but for `CurrentIsExact`, whose theorem excludes the
content that comes back of `index_reverted`.

## 8. Not modelled

See `"components"` in `PROJECT.json`: everything with status `not_modelled` or
`partly`, with the reason.

* Request handlers over single rows or files: accounts, sessions, tokens,
  repositories, issues, projects, releases, package formats, notifications, copilot,
  the updater, backup, the command line client, and the generated API
  documentation. They are most of the code by lines, and few of the mapped
  lines are theirs: one statement of the database, or one rename, is atomic, so
  a model would restate it.
* Code whose difficulty is in its data rather than in its order: the pipeline
  DSL, package formats, diffs, HTML, search queries, signatures.
* git, docker, redis and the database are external: a ref update, a container,
  a published frame and a statement are single steps, as the code uses them.
* Small protocols left: the one-time token of a runner's registration
  (`store/runner.go:112-127` reads the row, then deletes it without a look at the
  number of rows), quota across several servers, the rate limiter.
* In the modelled parts: squash merges, CODEOWNERS, host steps without a
  container, artifacts and logs, mirrors with redis, import and language jobs,
  a restart of the agent, the backfill of grants.
  Each is named in its component's note.
