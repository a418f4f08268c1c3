----------------------------- MODULE CodeIndex -----------------------------
(***************************************************************************)
(* The code search index of one repository name: the post-receive hook     *)
(* that marks it dirty, the push event that enqueues a rebuild, the queue  *)
(* that keeps one task per repository, the workers that rebuild the index  *)
(* incrementally, the backfill, and the deletion and re-creation of the    *)
(* repository under the same name.                                         *)
(* A commit is <<id, n>>: the n-th commit of the default branch of the     *)
(* repository with that database id.  A blob is a number (its SHA), 0 for  *)
(* "no such file"; the documents of a file are kept as the blobs some line *)
(* of which is in the index, with the repository they were read from.      *)
(* Source: src/backend/internal/codesearch/{bleve,dirty,manifest}.go,      *)
(* internal/jobs/jobs.go, internal/queue, internal/api/repos.go, main.go.  *)
(***************************************************************************)
EXTENDS Naturals, FiniteSets

CONSTANTS
    Paths,      \* files of the repository
    Tree,       \* Tree[id][n][p]: the blob of p in the n-th commit of repository id
    Size,       \* Size[b]: how many lines blob b has
    Indexers,   \* the queue's worker goroutines
    Pushers,    \* concurrent git processes that push, each with its hook
    Redis,      \* TRUE: asynq, which keeps a TaskID while its task is active
    MaxFaults   \* bound on crashes and failed reads

Ids   == DOMAIN Tree
Blobs == DOMAIN Size
Trees == [Paths -> Blobs \cup {0}]
NoManifest == [p \in {} |-> 0]
NoCommit == <<0, 0>>
NoMeta   == [id |-> 0, sha |-> NoCommit]

CodeIndexAssumption ==
    /\ 1 \in Ids /\ Ids \subseteq Nat \ {0}
    /\ Blobs \subseteq Nat \ {0} /\ Size \in [Blobs -> Nat]
    /\ \A id \in Ids :
         /\ 1 \in DOMAIN Tree[id] /\ DOMAIN Tree[id] \subseteq Nat
         /\ \A n \in DOMAIN Tree[id] : Tree[id][n] \in Trees
    /\ "free" \notin Indexers
    /\ Redis \in BOOLEAN /\ MaxFaults \in Nat

VARIABLES
    row,       \* the id of the repository's row, 0 when there is none
    lastId,    \* the last id given to a row
    disk,      \* the id of the repository in the directory, 0 when there is none
    head,      \* the commit number the default branch points to
    hook,      \* the post-receive hook of each pusher: "idle", "spool" or "mark"
    spool,     \* push events waiting in the spool
    dirty,     \* the file dirty/owner__name exists
    task,      \* the RepoID in the queued task's payload, 0 when none is queued
    held,      \* asynq: the TaskID is kept by an active or an archived task
    docs,      \* docs[p]: the <<repository, blob>> whose lines are in the index
    manifest,  \* the saved manifest, NoManifest when there is none
    meta,      \* the repository's entry of meta.json
    lock,      \* who holds Bleve.write: "free", a worker or a forgetter
    ipc,       \* where each worker is in Index
    job,       \* what each worker knows: see Job
    deleter,   \* deleteRepo: "idle", "disk" or "forget"
    pruner,    \* reconcileCodeIndexLoop: "idle" or "forget"
    faults

repoVars  == <<row, lastId, disk, head>>
hookVars  == <<hook, spool>>
queueVars == <<task, held>>
indexVars == <<docs, manifest, meta>>
vars == <<repoVars, hookVars, dirty, queueVars, indexVars, lock, ipc, job,
          deleter, pruner, faults>>

\* The locals of handle and Index.
NoJob == [id |-> 0, sha |-> NoCommit, want |-> NoManifest,
          prev |-> 0, old |-> NoManifest, todo |-> {}]

Files(m) == {p \in DOMAIN m : m[p] # 0}
HeadTree == Tree[disk][head]
HeadSHA  == IF disk = 0 THEN NoCommit ELSE <<disk, head>>

\* Mutant: Ready forgets to compare the repository id.
ReadyAnyRepo(id) == id # 0 /\ ~dirty /\ meta # NoMeta

\* Ready: the index belongs to this repository and no rebuild is due.
Ready(id) == id # 0 /\ ~dirty /\ meta.id = id

\* Mutant: an index of the repository is never out of date.
NeedsIndexOnce(id) == meta.id # id

\* NeedsIndex: no entry, an entry of another repository, or another commit.
NeedsIndex(id) == meta.id # id \/ disk = 0 \/ meta.sha # HeadSHA

Init ==
    /\ row = 1 /\ lastId = 1 /\ disk = 1 /\ head = 1
    /\ hook = [u \in Pushers |-> "idle"] /\ spool = 0
    /\ dirty = FALSE
    /\ task = 0 /\ held = FALSE
    /\ docs = [p \in Paths |-> {}] /\ manifest = NoManifest /\ meta = NoMeta
    /\ lock = "free"
    /\ ipc = [w \in Indexers |-> "idle"] /\ job = [w \in Indexers |-> NoJob]
    /\ deleter = "idle" /\ pruner = "idle"
    /\ faults = 0

----------------------------------------------------------------------------
(* git push and the post-receive hook: WritePushEvent, then MarkDirty.     *)

\* The ref moves; the hook runs after it.
Push(u) ==
    /\ hook[u] = "idle" /\ disk # 0
    /\ head + 1 \in DOMAIN Tree[disk]
    /\ head' = head + 1
    /\ hook' = [hook EXCEPT ![u] = "spool"]
    /\ UNCHANGED <<row, lastId, disk, spool, dirty, queueVars, indexVars, lock, ipc, job,
                   deleter, pruner, faults>>

HookSpool(u) ==
    /\ hook[u] = "spool"
    /\ spool' = spool + 1
    /\ hook' = [hook EXCEPT ![u] = "mark"]
    /\ UNCHANGED <<repoVars, dirty, queueVars, indexVars, lock, ipc, job,
                   deleter, pruner, faults>>

HookMark(u) ==
    /\ hook[u] = "mark"
    /\ dirty' = TRUE
    /\ hook' = [hook EXCEPT ![u] = "idle"]
    /\ UNCHANGED <<repoVars, spool, queueVars, indexVars, lock, ipc, job,
                   deleter, pruner, faults>>

----------------------------------------------------------------------------
(* The queue.                                                              *)

\* EnqueueCodeIndex: reads the row for the payload's RepoID; the task's ID is
\* the repository's name, so a second task of the name is dropped.
Enqueue ==
    /\ task' = IF row = 0 \/ task # 0 \/ held THEN task ELSE row
    /\ UNCHANGED held

\* codeIndexPushHandler on an event of the spool.
PushEvent ==
    /\ spool > 0
    /\ spool' = spool - 1
    /\ Enqueue
    /\ UNCHANGED <<repoVars, hook, dirty, indexVars, lock, ipc, job,
                   deleter, pruner, faults>>

\* backfillCodeIndex at start-up and every 30 minutes; with asynq the pass is
\* a task and needs a free worker.
Backfill ==
    /\ row # 0 /\ NeedsIndex(row)
    /\ Redis => \E w \in Indexers : ipc[w] = "idle"
    /\ task = 0 /\ ~held
    /\ Enqueue
    /\ UNCHANGED <<repoVars, hookVars, dirty, indexVars, lock, ipc, job,
                   deleter, pruner, faults>>

----------------------------------------------------------------------------
(* handle and Index.                                                       *)

\* The worker is done with its task.
Leave(w) ==
    /\ ipc' = [ipc EXCEPT ![w] = "idle"]
    /\ job' = [job EXCEPT ![w] = NoJob]
    /\ held' = FALSE

\* A worker takes the task; handle drops it when the repository is gone.
Take(w) ==
    /\ ipc[w] = "idle" /\ task # 0
    /\ task' = 0
    /\ IF row = 0
       THEN UNCHANGED <<held, ipc, job>>
       ELSE /\ held' = Redis
            /\ ipc' = [ipc EXCEPT ![w] = "resolve"]
            /\ job' = [job EXCEPT ![w].id = task]
    /\ UNCHANGED <<repoVars, hookVars, dirty, indexVars, lock, deleter, pruner, faults>>

\* resolveIndexRef: the commit the branch points to now.
Resolve(w) ==
    /\ ipc[w] = "resolve"
    /\ IF disk = 0
       THEN Leave(w)
       ELSE /\ ipc' = [ipc EXCEPT ![w] = "tree"]
            /\ job' = [job EXCEPT ![w].sha = HeadSHA]
            /\ UNCHANGED held
    /\ UNCHANGED <<repoVars, hookVars, dirty, task, indexVars, lock, deleter, pruner, faults>>

\* ListTreeFiles lists the branch, not the commit just resolved.
ListTree(w) ==
    /\ ipc[w] = "tree"
    /\ IF disk = 0
       THEN Leave(w)
       ELSE /\ ipc' = [ipc EXCEPT ![w] = "meta"]
            /\ job' = [job EXCEPT ![w].want = HeadTree]
            /\ UNCHANGED held
    /\ UNCHANGED <<repoVars, hookVars, dirty, task, indexVars, lock, deleter, pruner, faults>>

\* The entry of meta.json, read under mu and before the write lock.
ReadMeta(w) ==
    /\ ipc[w] = "meta"
    /\ ipc' = [ipc EXCEPT ![w] = "manifest"]
    /\ job' = [job EXCEPT ![w].prev = meta.id]
    /\ UNCHANGED <<repoVars, hookVars, dirty, queueVars, indexVars, lock, deleter, pruner, faults>>

\* loadManifest, before the write lock.
ReadManifest(w) ==
    /\ ipc[w] = "manifest"
    /\ ipc' = [ipc EXCEPT ![w] = "lock"]
    /\ job' = [job EXCEPT ![w].old = manifest]
    /\ UNCHANGED <<repoVars, hookVars, dirty, queueVars, indexVars, lock, deleter, pruner, faults>>

\* Mutant: the rebuild starts without clearing the entry of meta.json.
LockKeepingMeta(w) ==
    /\ ipc[w] = "lock" /\ lock = "free"
    /\ lock' = w
    /\ ipc' = [ipc EXCEPT ![w] = "delete"]
    /\ UNCHANGED <<repoVars, hookVars, dirty, queueVars, indexVars, job,
                   deleter, pruner, faults>>

\* The write lock, and clearMeta: the index is not ready while it is rebuilt.
Lock(w) ==
    /\ ipc[w] = "lock" /\ lock = "free"
    /\ lock' = w
    /\ meta' = NoMeta
    /\ ipc' = [ipc EXCEPT ![w] = "delete"]
    /\ UNCHANGED <<repoVars, hookVars, dirty, queueVars, docs, manifest, job,
                   deleter, pruner, faults>>

\* No entry, an entry of another repository, or no manifest: a full rebuild.
Full(j) == j.prev # j.id \/ j.old = NoManifest

\* The files whose documents go, and the files that are read again.
Stale(j)   == IF Full(j) THEN Paths ELSE {p \in Files(j.old) : j.want[p] # j.old[p]}
Changed(j) == IF Full(j) THEN Files(j.want)
              ELSE {p \in Files(j.want) : j.old[p] # j.want[p]}

\* deleteRepoDocs or deleteFileDocs.
DeleteDocs(w) ==
    /\ ipc[w] = "delete"
    /\ docs' = [p \in Paths |-> IF p \in Stale(job[w]) THEN {} ELSE docs[p]]
    /\ job' = [job EXCEPT ![w].todo = Changed(job[w])]
    /\ ipc' = [ipc EXCEPT ![w] = "read"]
    /\ UNCHANGED <<repoVars, hookVars, dirty, queueVars, manifest, meta, lock,
                   deleter, pruner, faults>>

\* Documents are keyed by line: those of a longer old file survive beyond the
\* last line of the new one.
Overwrite(old, id, b) == {d \in old : Size[d[2]] > Size[b]} \cup {<<id, b>>}

\* indexFiles reads a file at the branch, whatever it holds by now, and indexes
\* it; a file that is gone is skipped, a repository that is gone is an error.
IndexFile(w) ==
    /\ ipc[w] = "read" /\ job[w].todo # {} /\ disk # 0
    /\ \E p \in job[w].todo :
         /\ job' = [job EXCEPT ![w].todo = @ \ {p}]
         /\ docs' = IF HeadTree[p] = 0 THEN docs
                    ELSE [docs EXCEPT ![p] = Overwrite(@, disk, HeadTree[p])]
    /\ UNCHANGED <<repoVars, hookVars, dirty, queueVars, manifest, meta, lock, ipc,
                   deleter, pruner, faults>>

\* An error return between clearMeta and setMeta: the entry stays cleared.
Fail(w) ==
    /\ ipc[w] \in {"delete", "read"}
    /\ \/ ipc[w] = "read" /\ disk = 0 /\ job[w].todo # {} /\ UNCHANGED faults
       \/ faults < MaxFaults /\ faults' = faults + 1
    /\ lock' = "free"
    /\ Leave(w)
    /\ UNCHANGED <<repoVars, hookVars, dirty, task, indexVars, deleter, pruner>>

SaveManifest(w) ==
    /\ ipc[w] = "read" /\ job[w].todo = {}
    /\ manifest' = job[w].want
    /\ ipc' = [ipc EXCEPT ![w] = "save"]
    /\ UNCHANGED <<repoVars, hookVars, dirty, queueVars, docs, meta, lock, job,
                   deleter, pruner, faults>>

SetMeta(w) ==
    /\ ipc[w] = "save"
    /\ meta' = [id |-> job[w].id, sha |-> job[w].sha]
    /\ ipc' = [ipc EXCEPT ![w] = "check"]
    /\ UNCHANGED <<repoVars, hookVars, dirty, queueVars, docs, manifest, lock, job,
                   deleter, pruner, faults>>

\* Is HEAD still the commit that was indexed?  If not, the mark stays.
CheckHead(w) ==
    /\ ipc[w] = "check"
    /\ IF HeadSHA = job[w].sha
       THEN ipc' = [ipc EXCEPT ![w] = "unmark"] /\ UNCHANGED <<lock, job, held>>
       ELSE Leave(w) /\ lock' = "free"
    /\ UNCHANGED <<repoVars, hookVars, dirty, task, indexVars, deleter, pruner, faults>>

\* clearDirty, some time after the check.
Unmark(w) ==
    /\ ipc[w] = "unmark"
    /\ dirty' = FALSE
    /\ lock' = "free"
    /\ Leave(w)
    /\ UNCHANGED <<repoVars, hookVars, task, indexVars, deleter, pruner, faults>>

----------------------------------------------------------------------------
(* Deletion and re-creation of the repository.                             *)

\* Forget under the write lock: documents, manifest, mark and entry.
Forget ==
    /\ lock = "free"
    /\ docs' = [p \in Paths |-> {}]
    /\ manifest' = NoManifest
    /\ dirty' = FALSE
    /\ meta' = NoMeta

DeleteRow ==
    /\ deleter = "idle" /\ row # 0 /\ disk = row
    /\ row' = 0
    /\ deleter' = "disk"
    /\ UNCHANGED <<lastId, disk, head, hookVars, dirty, queueVars, indexVars, lock, ipc, job,
                   pruner, faults>>

DeleteDisk ==
    /\ deleter = "disk"
    /\ disk' = 0 /\ head' = 0
    /\ deleter' = "forget"
    /\ UNCHANGED <<row, lastId, hookVars, dirty, queueVars, indexVars, lock, ipc, job,
                   pruner, faults>>

DeleteForget ==
    /\ deleter = "forget"
    /\ Forget
    /\ deleter' = "idle"
    /\ UNCHANGED <<repoVars, hookVars, queueVars, lock, ipc, job, pruner, faults>>

\* A new repository takes the name once the old directory is gone.
Recreate ==
    /\ row = 0 /\ disk = 0 /\ lastId + 1 \in Ids
    /\ lastId' = lastId + 1
    /\ row' = lastId' /\ disk' = lastId' /\ head' = 1
    /\ UNCHANGED <<hookVars, dirty, queueVars, indexVars, lock, ipc, job,
                   deleter, pruner, faults>>

\* reconcileCodeIndexLoop: an indexed name without a row is forgotten.
PruneCheck ==
    /\ pruner = "idle" /\ meta # NoMeta /\ row = 0
    /\ pruner' = "forget"
    /\ UNCHANGED <<repoVars, hookVars, dirty, queueVars, indexVars, lock, ipc, job,
                   deleter, faults>>

PruneForget ==
    /\ pruner = "forget"
    /\ Forget
    /\ pruner' = "idle"
    /\ UNCHANGED <<repoVars, hookVars, queueVars, lock, ipc, job, deleter, faults>>

\* The process dies.  Files stay; the memory queue and the threads do not.  With
\* asynq an interrupted task is archived (MaxRetry 0) and keeps its TaskID.
Crash ==
    /\ faults < MaxFaults
    /\ faults' = faults + 1
    /\ task' = IF Redis THEN task ELSE 0
    /\ lock' = "free"
    /\ ipc' = [w \in Indexers |-> "idle"] /\ job' = [w \in Indexers |-> NoJob]
    /\ deleter' = "idle" /\ pruner' = "idle"
    /\ UNCHANGED <<repoVars, hookVars, dirty, held, indexVars>>

----------------------------------------------------------------------------
Index(w) ==
    \/ Resolve(w) \/ ListTree(w) \/ ReadMeta(w) \/ ReadManifest(w) \/ Lock(w)
    \/ DeleteDocs(w) \/ IndexFile(w) \/ Fail(w) \/ SaveManifest(w) \/ SetMeta(w)
    \/ CheckHead(w) \/ Unmark(w)

Hook(u) == HookSpool(u) \/ HookMark(u)
Deletes == DeleteDisk \/ DeleteForget
Prunes  == PruneCheck \/ PruneForget

Next ==
    \/ \E u \in Pushers : Push(u) \/ Hook(u)
    \/ PushEvent \/ Backfill
    \/ \E w \in Indexers : Take(w) \/ Index(w)
    \/ DeleteRow \/ Deletes \/ Prunes
    \/ Recreate
    \/ Crash

\* Threads, timers and the hook keep running; users need not do anything.
Fairness ==
    /\ \A u \in Pushers : WF_vars(Hook(u))
    /\ WF_vars(PushEvent) /\ WF_vars(Backfill)
    /\ \A w \in Indexers : WF_vars(Take(w)) /\ WF_vars(Index(w))
    /\ WF_vars(Deletes) /\ WF_vars(Prunes)

SafetySpec == Init /\ [][Next]_vars
Spec == SafetySpec /\ Fairness

----------------------------------------------------------------------------
(* Properties.                                                             *)

Manifests == Trees \cup {NoManifest}
Shas      == (Ids \cup {0}) \X Nat
Jobs == [id : Ids \cup {0}, sha : Shas, want : Manifests,
         prev : Ids \cup {0}, old : Manifests, todo : SUBSET Paths]
Stages == {"idle", "resolve", "tree", "meta", "manifest", "lock", "delete", "read", "save",
           "check", "unmark"}

\* Every variable keeps the shape its declaration gives it.
TypeOK ==
    /\ row \in Ids \cup {0} /\ lastId \in Ids /\ disk \in Ids \cup {0}
    /\ task \in Ids \cup {0} /\ head \in Nat
    /\ disk # 0 => head \in DOMAIN Tree[disk]
    /\ hook \in [Pushers -> {"idle", "spool", "mark"}] /\ spool \in Nat
    /\ dirty \in BOOLEAN /\ held \in BOOLEAN
    /\ docs \in [Paths -> SUBSET (Ids \X Blobs)]
    /\ manifest \in Manifests /\ meta \in [id : Ids \cup {0}, sha : Shas]
    /\ lock \in Indexers \cup {"free"}
    /\ ipc \in [Indexers -> Stages] /\ job \in [Indexers -> Jobs]
    /\ deleter \in {"idle", "disk", "forget"} /\ pruner \in {"idle", "forget"}
    /\ faults \in Nat

\* What the index should hold for the commit HEAD points to.
Exact == \A p \in Paths :
    docs[p] = IF HeadTree[p] = 0 THEN {} ELSE {<<disk, HeadTree[p]>>}

\* The name is not used again once its repository is deleted; a file that had a
\* blob and has it again had it in between.
NeverRecreated == Ids = {1}
NeverBack == \A id \in Ids, p \in Paths : \A l, m, n \in DOMAIN Tree[id] :
    /\ l <= m /\ m <= n
    /\ Tree[id][l][p] # 0 /\ Tree[id][l][p] = Tree[id][n][p]
    => Tree[id][m][p] = Tree[id][l][p]

\* An index that is served and says it holds the commit of HEAD holds exactly the
\* lines of that commit: the incremental rebuild neither keeps a line of a file that
\* changed or went away nor misses one, whatever pushes, failures and crashes
\* came before (Index, bleve.go:250-339).  It takes one rebuild at a time, which
\* asynq's TaskID grants, NeverRecreated and NeverBack: see the README for what
\* happens else.
CurrentIsExact ==
    row = disk /\ Ready(row) /\ meta.sha = HeadSHA => Exact

\* An index that is served for a repository holds no line of an earlier
\* repository of the same name, whichever of Forget, a stale task and the
\* re-creation came first (Ready and Forget, bleve.go:182-199, 494-514).
NoForeignLine ==
    Ready(row) => \A p \in Paths : \A d \in docs[p] : d[1] = row

\* The index is that of HEAD, or a fault or a deletion excuses it.
UpToDate == faults > 0 \/ row # disk \/ row = 0 \/ (meta.id = row /\ meta.sha = HeadSHA)

\* Unless a task was interrupted, the index reaches the commit of HEAD again
\* and again, even when the push's own task was dropped (backfillCodeIndex,
\* jobs.go:324-345).
Converges == []<>UpToDate

=============================================================================
