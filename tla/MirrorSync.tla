----------------------------- MODULE MirrorSync -----------------------------
(***************************************************************************)
(* The push mirror of one repository: pushes and sync requests that        *)
(* enqueue a mirror job, the in-process queue that keeps one job per ID,   *)
(* the workers that push under the repository's lock and record a status,  *)
(* a change of the target, and a restart that enqueues again what the      *)
(* status says was under way.                                              *)
(* The channel of the queue is shared with the jobs of other repositories. *)
(* With redis the queue is asynq's, which is not modelled here.            *)
(* Source: src/backend/internal/jobs/jobs.go, internal/queue/queue.go,     *)
(* internal/api/mirror.go, internal/store/mirrors.go, webhooks.go.         *)
(***************************************************************************)
EXTENDS Naturals, Sequences, FiniteSets

CONSTANTS
    Targets,   \* mirror URLs
    Callers,   \* threads that enqueue: request handlers and the dispatcher
    Workers,   \* MemoryQueue.workers
    Locks,     \* entries of the lock map, one for each worker
    Buf,       \* capacity of the channel
    MaxHead,   \* bound on the pushes to the repository
    MaxSyncs,  \* bound on the requests (sync, new target)
    MaxOthers, \* bound on the jobs of other repositories
    MaxFaults  \* bound on failed pushes and restarts

Other == "other"    \* a job of another repository
Repo  == "repo"

VARIABLES
    url,      \* mirrors.url
    status,   \* mirrors.status
    head,     \* pushes to the repository so far
    spool,    \* push events not handled yet
    mirrored, \* how much of the repository each target has
    caller,   \* each caller: [pc, api, url]
    chan,     \* MemoryQueue.ch: the URL of each job, or Other
    pending,  \* MemoryQueue.pending has this repository's mirror job
    worker,   \* each worker: [pc, url, snap]
    map, refs, owner, at, want, kpc, \* Manager.mirrorMu
    full,     \* the channel has been full, or a push has failed
    syncs, others, faults            \* counters for the bounds

Mutex == INSTANCE KeyedMutex WITH Threads <- Workers, Keys <- {Repo}, Entries <- Locks

mutexVars == <<map, refs, owner, at, want, kpc>>
bounds    == <<syncs, others, faults>>
vars == <<url, status, head, spool, mirrored, caller, chan, pending, worker,
          mutexVars, full, bounds>>

NoTarget == "none"
Asleep == [pc |-> "idle", api |-> FALSE, url |-> NoTarget]
Idle   == [pc |-> "idle", url |-> NoTarget, snap |-> 0]

MirrorAssumption ==
    /\ NoTarget \notin Workers \cup {Repo} \cup Locks /\ IsFiniteSet(Workers)
    /\ MaxHead \in Nat
    /\ Buf \in Nat \ {0}

Init ==
    /\ url \in Targets /\ status = ""
    /\ head = 0 /\ spool = 0
    /\ mirrored = [u \in Targets |-> 0]
    /\ caller = [c \in Callers |-> Asleep]
    /\ chan = <<>> /\ pending = FALSE
    /\ worker = [w \in Workers |-> Idle]
    /\ Mutex!Init
    /\ full = FALSE
    /\ syncs = 0 /\ others = 0 /\ faults = 0

----------------------------------------------------------------------------
(* Who enqueues.                                                           *)

At(c, pc)   == caller[c].pc = pc
Go(c, pc)   == caller' = [caller EXCEPT ![c].pc = pc]
Back(c)     == caller' = [caller EXCEPT ![c] = Asleep]

\* git push: the hook leaves an event in the spool.
Push ==
    /\ head < MaxHead
    /\ head' = head + 1 /\ spool' = spool + 1
    /\ UNCHANGED <<url, status, mirrored, caller, chan, pending, worker, mutexVars, full, bounds>>

\* processClaimed reads the mirror's URL and enqueues; the status stays.
PushEvent(c) ==
    /\ At(c, "idle") /\ spool > 0
    /\ spool' = spool - 1
    /\ caller' = [caller EXCEPT ![c] = [pc |-> "enqueue", api |-> FALSE, url |-> url]]
    /\ UNCHANGED <<url, status, head, mirrored, chan, pending, worker, mutexVars, full, bounds>>

\* syncMirror reads the mirror ...
SyncMirror(c) ==
    /\ At(c, "idle") /\ syncs < MaxSyncs
    /\ syncs' = syncs + 1
    /\ caller' = [caller EXCEPT ![c] = [pc |-> "queued", api |-> TRUE, url |-> url]]
    /\ UNCHANGED <<url, status, head, spool, mirrored, chan, pending, worker, mutexVars, full,
                   others, faults>>

\* ... says "queued" ...
SetQueued(c) ==
    /\ At(c, "queued")
    /\ status' = "queued"
    /\ Go(c, "enqueue")
    /\ UNCHANGED <<url, head, spool, mirrored, chan, pending, worker, mutexVars, full, bounds>>

\* ... and enqueues.  Enqueue marks the ID first ...
Enqueue(c) ==
    /\ At(c, "enqueue")
    /\ IF pending THEN Back(c) /\ UNCHANGED pending
       ELSE Go(c, "send") /\ pending' = TRUE
    /\ UNCHANGED <<url, status, head, spool, mirrored, chan, worker, mutexVars, full, bounds>>

\* ... then sends without waiting ...
Send(c) ==
    /\ At(c, "send")
    /\ IF Len(chan) < Buf
       THEN chan' = Append(chan, caller[c].url) /\ Back(c) /\ UNCHANGED full
       ELSE Go(c, "full") /\ full' = TRUE /\ UNCHANGED chan
    /\ UNCHANGED <<url, status, head, spool, mirrored, pending, worker, mutexVars, bounds>>

\* ... and takes the mark back when the channel is full.
Unmark(c) ==
    /\ At(c, "full")
    /\ pending' = FALSE
    /\ IF caller[c].api THEN Go(c, "failed") ELSE Back(c)
    /\ UNCHANGED <<url, status, head, spool, mirrored, chan, worker, mutexVars, full, bounds>>

SetFailed(c) ==
    /\ At(c, "failed")
    /\ status' = "failed"
    /\ Back(c)
    /\ UNCHANGED <<url, head, spool, mirrored, chan, pending, worker, mutexVars, full, bounds>>

\* setMirror writes the new target, then resets the status.
SetMirror(c) ==
    /\ At(c, "idle") /\ syncs < MaxSyncs
    /\ syncs' = syncs + 1
    /\ url' \in Targets \ {url}
    /\ Go(c, "reset")
    /\ UNCHANGED <<status, head, spool, mirrored, chan, pending, worker, mutexVars, full,
                   others, faults>>

ResetStatus(c) ==
    /\ At(c, "reset")
    /\ status' = ""
    /\ Back(c)
    /\ UNCHANGED <<url, head, spool, mirrored, chan, pending, worker, mutexVars, full, bounds>>

\* Somebody enqueues a job of another repository.
OtherJob ==
    /\ others < MaxOthers /\ Len(chan) < Buf
    /\ others' = others + 1
    /\ chan' = Append(chan, Other)
    /\ UNCHANGED <<url, status, head, spool, mirrored, caller, pending, worker, mutexVars, full,
                   syncs, faults>>

----------------------------------------------------------------------------
(* The workers.                                                            *)

On(w, pc)   == worker[w].pc = pc
Then(w, pc) == worker' = [worker EXCEPT ![w].pc = pc]

Take(w) ==
    /\ On(w, "idle") /\ chan # <<>>
    /\ chan' = Tail(chan)
    /\ worker' = IF Head(chan) = Other THEN worker
                 ELSE [worker EXCEPT ![w] = [pc |-> "taken", url |-> Head(chan), snap |-> 0]]
    /\ UNCHANGED <<url, status, head, spool, mirrored, caller, pending, mutexVars, full, bounds>>

\* Mutant: the ID stays marked until somebody enqueues after a restart.
TakeKeepingPending(w) ==
    /\ On(w, "taken")
    /\ Then(w, "lock")
    /\ UNCHANGED <<url, status, head, spool, mirrored, caller, chan, pending, mutexVars, full,
                   bounds>>

\* takePending, before the handler runs.
TakePending(w) ==
    /\ On(w, "taken")
    /\ pending' = FALSE
    /\ Then(w, "lock")
    /\ UNCHANGED <<url, status, head, spool, mirrored, caller, chan, mutexVars, full, bounds>>

Lock(w) ==
    /\ On(w, "lock") /\ Mutex!Enter(w, Repo)
    /\ Then(w, "wait")
    /\ UNCHANGED <<url, status, head, spool, mirrored, caller, chan, pending, full, bounds>>

\* Mutant: the lock is released where it is taken.
AcquireInPassing(w) ==
    /\ On(w, "wait")
    /\ Then(w, "running")
    /\ UNCHANGED <<url, status, head, spool, mirrored, caller, chan, pending, mutexVars, full,
                   bounds>>

Acquire(w) ==
    /\ On(w, "wait") /\ Mutex!Acquire(w)
    /\ Then(w, "running")
    /\ UNCHANGED <<url, status, head, spool, mirrored, caller, chan, pending, full, bounds>>

SetRunning(w) ==
    /\ On(w, "running")
    /\ status' = "running"
    /\ Then(w, "read")
    /\ UNCHANGED <<url, head, spool, mirrored, caller, chan, pending, mutexVars, full, bounds>>

\* git push --mirror lists the refs it sends ...
ReadRefs(w) ==
    /\ On(w, "read")
    /\ worker' = [worker EXCEPT ![w].pc = "push", ![w].snap = head]
    /\ UNCHANGED <<url, status, head, spool, mirrored, caller, chan, pending, mutexVars, full,
                   bounds>>

\* ... and the target takes them.
PushMirror(w) ==
    /\ On(w, "push")
    /\ mirrored' = [mirrored EXCEPT ![worker[w].url] = worker[w].snap]
    /\ Then(w, "synced")
    /\ UNCHANGED <<url, status, head, spool, caller, chan, pending, mutexVars, full, bounds>>

PushFails(w) ==
    /\ On(w, "push") /\ faults < MaxFaults
    /\ faults' = faults + 1
    /\ full' = TRUE
    /\ Then(w, "failed")
    /\ UNCHANGED <<url, status, head, spool, mirrored, caller, chan, pending, mutexVars,
                   syncs, others>>

SetStatus(w) ==
    /\ worker[w].pc \in {"synced", "failed"}
    /\ status' = worker[w].pc
    /\ Then(w, "unlock")
    /\ UNCHANGED <<url, head, spool, mirrored, caller, chan, pending, mutexVars, full, bounds>>

Unlock(w) ==
    /\ On(w, "unlock") /\ Mutex!Unlock(w)
    /\ Then(w, "leave")
    /\ UNCHANGED <<url, status, head, spool, mirrored, caller, chan, pending, full, bounds>>

Leave(w) ==
    /\ On(w, "leave") /\ Mutex!Leave(w)
    /\ worker' = [worker EXCEPT ![w] = Idle]
    /\ UNCHANGED <<url, status, head, spool, mirrored, caller, chan, pending, full, bounds>>

\* Mutant: only what was running is enqueued again.
RestartRunningOnly ==
    /\ faults < MaxFaults
    /\ faults' = faults + 1
    /\ caller' = [c \in Callers |-> Asleep]
    /\ worker' = [w \in Workers |-> Idle]
    /\ map' = [k \in {Repo} |-> "none"]
    /\ refs' = [e \in Locks |-> 0] /\ owner' = [e \in Locks |-> "none"]
    /\ at' = [w \in Workers |-> "none"] /\ want' = [w \in Workers |-> "none"]
    /\ kpc' = [w \in Workers |-> "out"]
    /\ pending' = (status = "running")
    /\ chan' = IF pending' THEN <<url>> ELSE <<>>
    /\ UNCHANGED <<url, status, head, spool, mirrored, full, syncs, others>>

\* The process dies, the queue with it; RequeuePending enqueues the job of a
\* mirror whose status is still queued or running.
Restart ==
    /\ faults < MaxFaults
    /\ faults' = faults + 1
    /\ caller' = [c \in Callers |-> Asleep]
    /\ worker' = [w \in Workers |-> Idle]
    /\ map' = [k \in {Repo} |-> "none"]
    /\ refs' = [e \in Locks |-> 0] /\ owner' = [e \in Locks |-> "none"]
    /\ at' = [w \in Workers |-> "none"] /\ want' = [w \in Workers |-> "none"]
    /\ kpc' = [w \in Workers |-> "out"]
    /\ pending' = (status \in {"queued", "running"})
    /\ chan' = IF pending' THEN <<url>> ELSE <<>>
    /\ UNCHANGED <<url, status, head, spool, mirrored, full, syncs, others>>

----------------------------------------------------------------------------
Caller(c) ==
    \/ PushEvent(c) \/ SetQueued(c) \/ Enqueue(c) \/ Send(c) \/ Unmark(c) \/ SetFailed(c)
    \/ ResetStatus(c)

Worker(w) ==
    \/ Take(w) \/ TakePending(w) \/ Lock(w) \/ Acquire(w) \/ SetRunning(w) \/ ReadRefs(w)
    \/ PushMirror(w) \/ SetStatus(w) \/ Unlock(w) \/ Leave(w)

Next ==
    \/ Push \/ OtherJob
    \/ \E c \in Callers : Caller(c) \/ SyncMirror(c) \/ SetMirror(c)
    \/ \E w \in Workers : Worker(w) \/ PushFails(w)
    \/ Restart

\* Threads run; nobody has to push or to ask for a sync.
Fairness ==
    /\ \A c \in Callers : WF_vars(Caller(c))
    /\ \A w \in Workers : WF_vars(Worker(w))

Spec == Init /\ [][Next]_vars /\ Fairness

----------------------------------------------------------------------------
(* Properties.                                                             *)

Stages == {"idle", "taken", "lock", "wait", "running", "read", "push", "synced",
           "failed", "unlock", "leave"}
Errands == {"idle", "queued", "enqueue", "send", "full", "failed", "reset"}
TypeOK ==
    /\ url \in Targets
    /\ status \in {"", "queued", "running", "synced", "failed"}
    /\ head \in 0 .. MaxHead /\ spool \in 0 .. head
    /\ mirrored \in [Targets -> 0 .. head]
    /\ caller \in [Callers -> [pc : Errands, api : BOOLEAN, url : Targets \cup {NoTarget}]]
    /\ chan \in Seq(Targets \cup {Other}) /\ Len(chan) <= Buf
    /\ pending \in BOOLEAN
    /\ worker \in [Workers -> [pc : Stages, url : Targets \cup {NoTarget}, snap : 0 .. head]]
    /\ Mutex!TypeOK

\* A target never goes back: no push with an older snapshot of the refs lands
\* after one with a newer, because pushes of a repository run one at a time
\* (mirrorMu, jobs.go:476-480).
GoesForward == \A u \in Targets : mirrored'[u] >= mirrored[u]
NeverGoesBack == [][GoesForward]_vars

\* A mirror said to be queued or running reaches an outcome, across a restart,
\* unless an Enqueue met a full channel (syncMirror, RequeuePending).
StatusEnds == (status \in {"queued", "running"}) ~> (full \/ status \notin {"queued", "running"})

\* Every push to the repository reaches the target, unless a push to the mirror
\* failed, the channel was full, the process died or the target changed: an
\* event whose job is dropped as a duplicate is covered by the job it met.
MirrorCatchesUp == []<>(faults > 0 \/ full \/ syncs > 0 \/ mirrored[url] = head)

=============================================================================
