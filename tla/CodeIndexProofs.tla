-------------------------- MODULE CodeIndexProofs --------------------------
(***************************************************************************)
(* Theorems about CodeIndex for any number of files, commits, pushers,     *)
(* workers and faults, with asynq and with the in-process queue.  None of  *)
(* them needs the fairness of Spec.                                        *)
(***************************************************************************)
EXTENDS CodeIndex, TLAPS

----------------------------------------------------------------------------
(* The shape of every variable.                                            *)

\* The part of TypeOK about the workers.
JobsOK == ipc \in [Indexers -> Stages] /\ job \in [Indexers -> Jobs]

\* The part about everything else.
RestOK ==
    /\ row \in Ids \cup {0} /\ lastId \in Ids /\ disk \in Ids \cup {0}
    /\ task \in Ids \cup {0} /\ head \in Nat
    /\ disk # 0 => head \in DOMAIN Tree[disk]
    /\ hook \in [Pushers -> {"idle", "spool", "mark"}] /\ spool \in Nat
    /\ dirty \in BOOLEAN /\ held \in BOOLEAN
    /\ docs \in [Paths -> SUBSET (Ids \X Blobs)]
    /\ manifest \in Manifests /\ meta \in [id : Ids \cup {0}, sha : Shas]
    /\ lock \in Indexers \cup {"free"}
    /\ deleter \in {"idle", "disk", "forget"} /\ pruner \in {"idle", "forget"}
    /\ faults \in Nat

LEMMA TypeParts == TypeOK <=> JobsOK /\ RestOK
  BY DEF TypeOK, JobsOK, RestOK

LEMMA Constants ==
  ASSUME CodeIndexAssumption
  PROVE  /\ 1 \in Ids /\ 0 \notin Ids /\ Ids \subseteq Nat
         /\ 0 \notin Blobs /\ Redis \in BOOLEAN
         /\ \A id \in Ids :
              /\ 1 \in DOMAIN Tree[id] /\ DOMAIN Tree[id] \subseteq Nat
              /\ \A n \in DOMAIN Tree[id] : Tree[id][n] \in Trees
         /\ NoManifest \in Manifests /\ NoCommit \in Shas
         /\ NoMeta \in [id : Ids \cup {0}, sha : Shas] /\ NoMeta.id = 0
         /\ NoJob \in Jobs /\ NoJob.id = 0 /\ NoJob.prev = 0
  BY DEF CodeIndexAssumption, Manifests, Shas, Jobs, NoMeta, NoCommit, NoJob

LEMMA InitTypeOK ==
  ASSUME CodeIndexAssumption
  PROVE  Init => TypeOK
<1> SUFFICES ASSUME Init PROVE JobsOK /\ RestOK
  BY TypeParts
<1>1. JobsOK
  BY Constants DEF Init, JobsOK, Stages
<1>2. docs \in [Paths -> SUBSET (Ids \X Blobs)]
  BY DEF Init
<1>3. RestOK
  BY <1>2, Constants DEF Init, RestOK
<1>4. QED BY <1>1, <1>3

\* A file's blob at the head, and what a job says of files.
LEMMA HeadFiles ==
  ASSUME CodeIndexAssumption, TypeOK
  PROVE  /\ HeadSHA \in Shas
         /\ disk # 0 => HeadTree \in Trees /\ \A p \in Paths : HeadTree[p] \in Blobs \cup {0}
         /\ \A j \in Jobs : Changed(j) \subseteq Paths
<1>1. HeadSHA \in Shas
  BY Constants DEF TypeOK, HeadSHA, Shas
<1>2. disk # 0 => HeadTree \in Trees
  BY Constants DEF TypeOK, HeadTree
<1>3. \A m \in Manifests : Files(m) \subseteq Paths
  BY DEF Manifests, Trees, NoManifest, Files
<1>4. QED BY <1>1, <1>2, <1>3 DEF Trees, Changed, Jobs

LEMMA LeaveJobsOK ==
  ASSUME CodeIndexAssumption, TypeOK, NEW w \in Indexers, Leave(w)
  PROVE  JobsOK' /\ held' \in BOOLEAN
  BY Constants DEF TypeOK, JobsOK, Leave, Stages

\* The steps of a worker.
WorkStep(w) == Take(w) \/ Index(w)

LEMMA WorkStepJobsOK ==
  ASSUME CodeIndexAssumption, TypeOK, NEW w \in Indexers, WorkStep(w)
  PROVE  JobsOK' /\ held' \in BOOLEAN
<1> USE DEF JobsOK, Stages
<1>1. CASE Leave(w)
  BY <1>1, LeaveJobsOK
<1>2. CASE ~Leave(w)
  <2>1. ipc' \in [Indexers -> Stages] /\ held' \in BOOLEAN
    BY <1>2, Constants DEF TypeOK, WorkStep, Take, Index, Resolve, ListTree, ReadMeta,
       ReadManifest, Lock, DeleteDocs, IndexFile, Fail, SaveManifest, SetMeta, CheckHead, Unmark,
       queueVars
  <2>2. \/ job' = job
        \/ job' = [job EXCEPT ![w].id = task]
        \/ job' = [job EXCEPT ![w].sha = HeadSHA]
        \/ disk # 0 /\ job' = [job EXCEPT ![w].want = HeadTree]
        \/ job' = [job EXCEPT ![w].prev = meta.id]
        \/ job' = [job EXCEPT ![w].old = manifest]
        \/ job' = [job EXCEPT ![w].todo = Changed(job[w])]
        \/ \E p \in job[w].todo : job' = [job EXCEPT ![w].todo = @ \ {p}]
    BY <1>2 DEF WorkStep, Take, Index, Resolve, ListTree, ReadMeta, ReadManifest, Lock,
       DeleteDocs, IndexFile, Fail, SaveManifest, SetMeta, CheckHead, Unmark
  <2>3. /\ task \in Ids \cup {0} /\ meta.id \in Ids \cup {0} /\ manifest \in Manifests
        /\ HeadSHA \in Shas /\ (disk # 0 => HeadTree \in Manifests)
        /\ job[w] \in Jobs /\ Changed(job[w]) \subseteq Paths
    BY HeadFiles DEF TypeOK, Manifests
  <2>4. job' \in [Indexers -> Jobs]
    BY <2>2, <2>3 DEF TypeOK, Jobs
  <2>5. QED BY <2>1, <2>4
<1>3. QED BY <1>1, <1>2

LEMMA IndexFileDocs ==
  ASSUME CodeIndexAssumption, TypeOK, NEW w \in Indexers, IndexFile(w)
  PROVE  \E p \in job[w].todo :
           /\ p \in Paths /\ disk \in Ids
           /\ job' = [job EXCEPT ![w].todo = @ \ {p}]
           /\ \/ HeadTree[p] = 0 /\ docs' = docs
              \/ /\ HeadTree[p] \in Blobs
                 /\ docs' = [docs EXCEPT ![p] = Overwrite(@, disk, HeadTree[p])]
<1>1. job[w].todo \subseteq Paths /\ disk \in Ids
  BY DEF TypeOK, Jobs, IndexFile
<1>2. QED BY <1>1, HeadFiles, Constants DEF IndexFile

LEMMA WorkStepTypeOK ==
  ASSUME CodeIndexAssumption, TypeOK, NEW w \in Indexers, WorkStep(w)
  PROVE  TypeOK'
<1>1. JobsOK' /\ held' \in BOOLEAN
  BY WorkStepJobsOK
<1>2. UNCHANGED <<repoVars, hookVars, deleter, pruner>> /\ task' \in {task, 0}
  BY DEF WorkStep, Take, Index, Resolve, ListTree, ReadMeta, ReadManifest, Lock,
     DeleteDocs, IndexFile, Fail, SaveManifest, SetMeta, CheckHead, Unmark, queueVars
<1>3. docs' \in [Paths -> SUBSET (Ids \X Blobs)]
  <2>1. CASE DeleteDocs(w)
    BY <2>1 DEF DeleteDocs, TypeOK
  <2>2. CASE IndexFile(w)
    <3>1. PICK p \in Paths :
            \/ docs' = docs
            \/ /\ HeadTree[p] \in Blobs /\ disk \in Ids
               /\ docs' = [docs EXCEPT ![p] = Overwrite(@, disk, HeadTree[p])]
      BY <2>2, IndexFileDocs
    <3>2. \A b \in Blobs : disk \in Ids => Overwrite(docs[p], disk, b) \in SUBSET (Ids \X Blobs)
      BY DEF TypeOK, Overwrite
    <3>3. QED BY <3>1, <3>2 DEF TypeOK
  <2>3. CASE ~DeleteDocs(w) /\ ~IndexFile(w)
    BY <2>3 DEF WorkStep, Take, Index, Resolve, ListTree, ReadMeta, ReadManifest, Lock,
       Fail, SaveManifest, SetMeta, CheckHead, Unmark, indexVars, TypeOK
  <2>4. QED BY <2>1, <2>2, <2>3
<1>4. /\ manifest' \in Manifests /\ meta' \in [id : Ids \cup {0}, sha : Shas]
      /\ lock' \in Indexers \cup {"free"} /\ faults' \in Nat /\ dirty' \in BOOLEAN
  <2>1. /\ manifest' \in {manifest, job[w].want}
        /\ meta' \in {meta, NoMeta, [id |-> job[w].id, sha |-> job[w].sha]}
        /\ lock' \in {lock, w, "free"} /\ faults' \in {faults, faults + 1}
        /\ dirty' \in {dirty, FALSE}
    BY DEF WorkStep, Take, Index, Resolve, ListTree, ReadMeta, ReadManifest, Lock,
       DeleteDocs, IndexFile, Fail, SaveManifest, SetMeta, CheckHead, Unmark, indexVars
  <2>2. job[w] \in Jobs
    BY DEF TypeOK
  <2>3. job[w].want \in Manifests /\ job[w].id \in Ids \cup {0} /\ job[w].sha \in Shas
    BY <2>2 DEF Jobs
  <2>4. [id |-> job[w].id, sha |-> job[w].sha] \in [id : Ids \cup {0}, sha : Shas]
    BY <2>3
  <2>5. meta' \in [id : Ids \cup {0}, sha : Shas] /\ manifest' \in Manifests
    BY <2>1, <2>3, <2>4, Constants DEF TypeOK
  <2>6. lock' \in Indexers \cup {"free"} /\ faults' \in Nat
    BY <2>1 DEF TypeOK
  <2>7. dirty' \in BOOLEAN
    BY <2>1 DEF TypeOK
  <2>8. QED BY <2>5, <2>6, <2>7
<1>5. RestOK'
  BY <1>1, <1>2, <1>3, <1>4, Constants DEF RestOK, TypeOK, repoVars, hookVars
<1>6. QED BY <1>1, <1>5, TypeParts DEF TypeOK, JobsOK, RestOK

\* The steps of everybody else.
OtherStep ==
    \/ \E u \in Pushers : Push(u) \/ Hook(u)
    \/ PushEvent \/ Backfill
    \/ DeleteRow \/ Deletes \/ Prunes \/ Recreate
    \/ Crash

LEMMA NextParts == Next <=> (\E w \in Indexers : WorkStep(w)) \/ OtherStep
  BY DEF Next, WorkStep, OtherStep

LEMMA ForgetTypeOK ==
  ASSUME CodeIndexAssumption, TypeOK, Forget
  PROVE  /\ docs' \in [Paths -> SUBSET (Ids \X Blobs)] /\ dirty' \in BOOLEAN
         /\ manifest' \in Manifests /\ meta' \in [id : Ids \cup {0}, sha : Shas]
  BY Constants DEF Forget

LEMMA OtherStepTypeOK == ASSUME CodeIndexAssumption, TypeOK, OtherStep PROVE TypeOK'
<1> USE Constants DEF repoVars, hookVars, queueVars, indexVars
<1>1. ASSUME NEW u \in Pushers, Push(u) \/ Hook(u) PROVE TypeOK'
  <2>1. hook' \in [Pushers -> {"idle", "spool", "mark"}] /\ spool' \in Nat
    BY <1>1 DEF Push, Hook, HookSpool, HookMark, TypeOK
  <2>2. head' \in Nat /\ (disk' # 0 => head' \in DOMAIN Tree[disk'])
    BY <1>1 DEF Push, Hook, HookSpool, HookMark, TypeOK
  <2>3. QED BY <1>1, <2>1, <2>2 DEF Push, Hook, HookSpool, HookMark, TypeOK
<1>2. CASE PushEvent \/ Backfill
  BY <1>2 DEF PushEvent, Backfill, Enqueue, TypeOK
<1>3. CASE DeleteRow \/ DeleteDisk \/ Recreate
  BY <1>3 DEF DeleteRow, DeleteDisk, Recreate, TypeOK
<1>4. CASE DeleteForget \/ PruneForget
  BY <1>4, ForgetTypeOK DEF DeleteForget, PruneForget, TypeOK
<1>5. CASE PruneCheck
  BY <1>5 DEF PruneCheck, TypeOK
<1>6. CASE Crash
  BY <1>6 DEF Crash, TypeOK, Stages
<1>7. QED BY <1>1, <1>2, <1>3, <1>4, <1>5, <1>6 DEF OtherStep, Deletes, Prunes

LEMMA NextTypeOK ==
  ASSUME CodeIndexAssumption
  PROVE  TypeOK /\ [Next]_vars => TypeOK'
<1> SUFFICES ASSUME TypeOK, [Next]_vars PROVE TypeOK'
  OBVIOUS
<1>1. CASE UNCHANGED vars
  BY <1>1 DEF TypeOK, vars, repoVars, hookVars, queueVars, indexVars
<1>2. QED BY <1>1, NextParts, WorkStepTypeOK, OtherStepTypeOK

\* The repository, the queue, the index and the jobs keep their shape, whatever the
\* number of files, commits, workers and faults.
THEOREM TypeCorrect ==
  ASSUME CodeIndexAssumption
  PROVE  SafetySpec => []TypeOK
  BY InitTypeOK, NextTypeOK, PTL DEF SafetySpec

----------------------------------------------------------------------------
(* Whose lines the index holds.                                            *)

\* Ids only grow, so what is read once a repository exists is its own or that of
\* a later one.
OwnedFrom(i) == \A p \in Paths : \A d \in docs[p] : d[1] >= i

\* The index is owned from the repository that its entry names, and from the one
\* a rebuild found there, until the rebuild has made it the task's.
LinesOwned ==
    /\ row \in {0, lastId} /\ disk \in {0, lastId} /\ task <= lastId
    /\ \A p \in Paths : \A d \in docs[p] : d[1] <= lastId
    /\ meta.id <= lastId /\ OwnedFrom(meta.id)
    /\ \A w \in Indexers :
         /\ job[w].id <= lastId /\ job[w].prev <= lastId
         /\ OwnedFrom(job[w].prev)
         /\ ipc[w] \in {"read", "save"} => OwnedFrom(job[w].id)

LEMMA Numbers ==
  ASSUME CodeIndexAssumption, TypeOK
  PROVE  /\ row \in Nat /\ lastId \in Nat /\ disk \in Nat /\ task \in Nat /\ meta.id \in Nat
         /\ \A p \in Paths : \A d \in docs[p] : d[1] \in Nat
         /\ \A w \in Indexers : job[w].id \in Nat /\ job[w].prev \in Nat
<1>1. Ids \cup {0} \subseteq Nat
  BY Constants
<1>2. \A p \in Paths : \A d \in docs[p] : d[1] \in Ids
  BY DEF TypeOK
<1>3. \A w \in Indexers : job[w] \in Jobs
  BY DEF TypeOK
<1>4. \A w \in Indexers : job[w].id \in Ids \cup {0} /\ job[w].prev \in Ids \cup {0}
  BY <1>3 DEF Jobs
<1>5. QED BY <1>1, <1>2, <1>4 DEF TypeOK

LEMMA LinesOwnedInit ==
  ASSUME CodeIndexAssumption
  PROVE  Init => LinesOwned
  BY Constants DEF Init, LinesOwned, OwnedFrom

\* New lines come from the repository in the directory.
LinesGrow ==
    \A p \in Paths : \A d \in docs'[p] : d \in docs[p] \/ (disk = lastId /\ d[1] = lastId)

LEMMA OwnedStays ==
  ASSUME CodeIndexAssumption, TypeOK, LinesGrow, NEW i \in Nat, i <= lastId, OwnedFrom(i)
  PROVE  OwnedFrom(i)'
  BY Numbers DEF LinesGrow, OwnedFrom

LEMMA WorkStepGrows ==
  ASSUME CodeIndexAssumption, TypeOK, LinesOwned, NEW w \in Indexers, WorkStep(w)
  PROVE  LinesGrow
<1>1. CASE DeleteDocs(w)
  BY <1>1 DEF DeleteDocs, LinesGrow
<1>2. CASE IndexFile(w)
  <2>1. PICK p \in Paths :
          \/ docs' = docs
          \/ docs' = [docs EXCEPT ![p] = Overwrite(@, disk, HeadTree[p])]
    BY <1>2, IndexFileDocs
  <2>2. \A d \in Overwrite(docs[p], disk, HeadTree[p]) : d \in docs[p] \/ d[1] = disk
    BY DEF Overwrite
  <2>3. disk = lastId
    BY <1>2 DEF IndexFile, LinesOwned
  <2>4. QED BY <2>1, <2>2, <2>3 DEF LinesGrow, TypeOK
<1>3. CASE ~DeleteDocs(w) /\ ~IndexFile(w)
  <2>1. docs' = docs
    BY <1>3 DEF WorkStep, Take, Index, Resolve, ListTree, ReadMeta, ReadManifest, Lock, Fail,
       SaveManifest, SetMeta, CheckHead, Unmark, indexVars
  <2>2. QED BY <2>1 DEF LinesGrow
<1>4. QED BY <1>1, <1>2, <1>3

\* The deletion leaves a rebuild only what is of the task's repository on.
LEMMA DeletedOwned ==
  ASSUME CodeIndexAssumption, TypeOK, LinesOwned, NEW w \in Indexers, DeleteDocs(w)
  PROVE  OwnedFrom(job[w].id)'
<1>1. docs' = [p \in Paths |-> IF p \in Stale(job[w]) THEN {} ELSE docs[p]]
  BY DEF DeleteDocs
<1>2. job'[w].id = job[w].id
  BY DEF DeleteDocs, TypeOK, Jobs
<1>3. CASE Full(job[w])
  BY <1>1, <1>2, <1>3 DEF Stale, OwnedFrom
<1>4. CASE ~Full(job[w])
  BY <1>1, <1>2, <1>4 DEF Full, LinesOwned, OwnedFrom
<1>5. QED BY <1>3, <1>4

LEMMA WorkStepOwned ==
  ASSUME CodeIndexAssumption, TypeOK, LinesOwned, NEW w \in Indexers, WorkStep(w)
  PROVE  LinesOwned'
<1>1. LinesGrow
  BY WorkStepGrows
<1>2. UNCHANGED repoVars /\ task' \in {task, 0}
  BY DEF WorkStep, Take, Index, Resolve, ListTree, ReadMeta, ReadManifest, Lock, DeleteDocs,
     IndexFile, Fail, SaveManifest, SetMeta, CheckHead, Unmark, queueVars
<1>3. /\ row' \in {0, lastId'} /\ disk' \in {0, lastId'} /\ task' <= lastId'
      /\ \A p \in Paths : \A d \in docs'[p] : d[1] <= lastId'
  BY <1>1, <1>2, Numbers DEF LinesOwned, LinesGrow, repoVars
<1>4. meta'.id <= lastId' /\ OwnedFrom(meta.id)'
  <2>1. CASE SetMeta(w)
    <3>1. meta'.id = job[w].id /\ ipc[w] = "save" /\ lastId' = lastId
      BY <1>2, <2>1 DEF SetMeta, repoVars
    <3>2. job[w].id <= lastId /\ OwnedFrom(job[w].id) /\ job[w].id \in Nat
      BY <3>1, Numbers DEF LinesOwned
    <3>3. QED BY <1>1, <3>1, <3>2, OwnedStays DEF OwnedFrom
  <2>2. CASE ~SetMeta(w)
    <3>1. meta' \in {meta, NoMeta} /\ lastId' = lastId
      BY <1>2, <2>2 DEF WorkStep, Take, Index, Resolve, ListTree, ReadMeta, ReadManifest, Lock,
         DeleteDocs, IndexFile, Fail, SaveManifest, CheckHead, Unmark, indexVars, repoVars
    <3>2. meta'.id \in {meta.id, 0} /\ meta.id <= lastId /\ OwnedFrom(meta.id) /\ OwnedFrom(0)
      BY <3>1, Numbers, Constants DEF LinesOwned, OwnedFrom
    <3>3. QED BY <1>1, <3>1, <3>2, Numbers, OwnedStays DEF OwnedFrom
  <2>3. QED BY <2>1, <2>2
<1>5. ASSUME NEW v \in Indexers, v # w
      PROVE  /\ job'[v].id <= lastId' /\ job'[v].prev <= lastId'
             /\ OwnedFrom(job[v].prev)'
             /\ ipc'[v] \in {"read", "save"} => OwnedFrom(job[v].id)'
  <2>1. ipc'[v] = ipc[v] /\ job'[v] = job[v]
    BY <1>5 DEF WorkStep, Take, Index, Resolve, ListTree, ReadMeta, ReadManifest, Lock, Leave,
       DeleteDocs, IndexFile, Fail, SaveManifest, SetMeta, CheckHead, Unmark, TypeOK
  <2>2. /\ job[v].id <= lastId /\ job[v].prev <= lastId /\ OwnedFrom(job[v].prev)
        /\ ipc[v] \in {"read", "save"} => OwnedFrom(job[v].id)
    BY DEF LinesOwned
  <2>3. QED BY <1>1, <1>2, <2>1, <2>2, Numbers, OwnedStays DEF repoVars, OwnedFrom
<1>6. /\ job'[w].id <= lastId' /\ job'[w].prev <= lastId'
      /\ OwnedFrom(job[w].prev)'
      /\ ipc'[w] \in {"read", "save"} => OwnedFrom(job[w].id)'
  <2>1. job[w] \in Jobs /\ lastId' = lastId
    BY <1>2 DEF TypeOK, repoVars
  <2>2. job'[w].id \in {job[w].id, 0, task} /\ job'[w].prev \in {job[w].prev, 0, meta.id}
    BY <2>1, Constants DEF WorkStep, Take, Index, Resolve, ListTree, ReadMeta, ReadManifest,
       Lock, Leave, DeleteDocs, IndexFile, Fail, SaveManifest, SetMeta, CheckHead, Unmark,
       TypeOK, Jobs
  <2>3. OwnedFrom(0) /\ OwnedFrom(meta.id) /\ OwnedFrom(job[w].prev)
    BY Numbers DEF LinesOwned, OwnedFrom
  <2>4. job'[w].id <= lastId' /\ job'[w].prev <= lastId' /\ OwnedFrom(job[w].prev)'
    BY <1>1, <2>1, <2>2, <2>3, Numbers, OwnedStays DEF LinesOwned, OwnedFrom
  <2>5. ASSUME ipc'[w] \in {"read", "save"} PROVE OwnedFrom(job[w].id)'
    <3>1. CASE DeleteDocs(w)
      BY <3>1, DeletedOwned
    <3>2. CASE ~DeleteDocs(w)
      <4>1. ipc[w] \in {"read", "save"} /\ job'[w].id = job[w].id
        BY <2>1, <2>5, <3>2 DEF WorkStep, Take, Index, Resolve, ListTree, ReadMeta, ReadManifest,
           Lock, Leave, IndexFile, Fail, SaveManifest, SetMeta, CheckHead, Unmark, TypeOK, Jobs
      <4>2. OwnedFrom(job[w].id) /\ job[w].id <= lastId /\ job[w].id \in Nat
        BY <4>1, Numbers DEF LinesOwned
      <4>3. QED BY <1>1, <4>1, <4>2, OwnedStays DEF OwnedFrom
    <3>3. QED BY <3>1, <3>2
  <2>6. QED BY <2>4, <2>5
<1>7. QED BY <1>3, <1>4, <1>5, <1>6 DEF LinesOwned

LEMMA OtherStepOwned == ASSUME CodeIndexAssumption, TypeOK, LinesOwned, OtherStep PROVE LinesOwned'
<1>1. /\ row' \in {0, lastId'} /\ disk' \in {0, lastId'} /\ lastId' \in {lastId, lastId + 1}
      /\ task' \in {task, row, 0}
  BY DEF OtherStep, Push, Hook, HookSpool, HookMark, PushEvent, Backfill, Enqueue, DeleteRow,
     Deletes, DeleteDisk, DeleteForget, Prunes, PruneCheck, PruneForget, Recreate, Crash,
     LinesOwned, repoVars, queueVars
<1>2. \/ docs' = docs /\ meta' = meta
      \/ docs' = [p \in Paths |-> {}] /\ meta' = NoMeta
  BY DEF OtherStep, Push, Hook, HookSpool, HookMark, PushEvent, Backfill, DeleteRow,
     Deletes, DeleteDisk, DeleteForget, Forget, Prunes, PruneCheck, PruneForget, Recreate, Crash,
     indexVars
<1>3. \/ ipc' = ipc /\ job' = job
      \/ ipc' = [w \in Indexers |-> "idle"] /\ job' = [w \in Indexers |-> NoJob]
  BY DEF OtherStep, Push, Hook, HookSpool, HookMark, PushEvent, Backfill, DeleteRow,
     Deletes, DeleteDisk, DeleteForget, Prunes, PruneCheck, PruneForget, Recreate, Crash
<1>4. task' <= lastId'
  BY <1>1, Numbers DEF LinesOwned
<1>5. \A p \in Paths : \A d \in docs'[p] : d \in docs[p] /\ d[1] <= lastId'
  BY <1>1, <1>2, Numbers DEF LinesOwned
<1>6. \A i \in Nat : OwnedFrom(i) => OwnedFrom(i)'
  BY <1>5 DEF OwnedFrom
<1>7. meta'.id \in {meta.id, 0} /\ OwnedFrom(0)
  BY <1>2, Constants, Numbers DEF OwnedFrom
<1>8. meta'.id <= lastId' /\ OwnedFrom(meta.id)'
  <2>1. \A p \in Paths : \A d \in docs'[p] : d[1] >= meta.id /\ d[1] >= 0
    BY <1>5, Numbers DEF LinesOwned, OwnedFrom
  <2>2. OwnedFrom(meta.id)'
    BY <1>7, <2>1 DEF OwnedFrom
  <2>3. meta'.id <= lastId'
    BY <1>1, <1>7, Numbers DEF LinesOwned
  <2>4. QED BY <2>2, <2>3
<1>9. ASSUME NEW w \in Indexers
      PROVE  /\ job'[w].id <= lastId' /\ job'[w].prev <= lastId'
             /\ OwnedFrom(job[w].prev)'
             /\ ipc'[w] \in {"read", "save"} => OwnedFrom(job[w].id)'
  <2>1. CASE ipc' = ipc /\ job' = job
    BY <1>1, <1>6, <2>1, Numbers DEF LinesOwned, OwnedFrom
  <2>2. CASE ipc'[w] = "idle" /\ job'[w] = NoJob
    BY <1>1, <1>6, <1>7, <2>2, Constants, Numbers DEF OwnedFrom
  <2>3. QED BY <1>3, <2>1, <2>2
<1>10. QED BY <1>1, <1>4, <1>5, <1>8, <1>9 DEF LinesOwned

LEMMA LinesOwnedNext ==
  ASSUME CodeIndexAssumption
  PROVE  TypeOK /\ LinesOwned /\ [Next]_vars => LinesOwned'
<1> SUFFICES ASSUME TypeOK, LinesOwned, [Next]_vars PROVE LinesOwned'
  OBVIOUS
<1>1. CASE UNCHANGED vars
  BY <1>1 DEF LinesOwned, OwnedFrom, vars, repoVars, queueVars, indexVars
<1>2. QED BY <1>1, NextParts, WorkStepOwned, OtherStepOwned

LEMMA LinesOwnedNoForeignLine ==
  ASSUME CodeIndexAssumption
  PROVE  TypeOK /\ LinesOwned => NoForeignLine
  BY Numbers DEF LinesOwned, OwnedFrom, NoForeignLine, Ready

\* A served index holds no line of an earlier repository of the name, for every
\* number of workers, stale tasks, deletions and re-creations, with asynq and with
\* the in-process queue: meta.json names the repository of the task, and a rebuild
\* that keeps documents found that very repository there.
THEOREM ServesNoForeignLine ==
  ASSUME CodeIndexAssumption
  PROVE  SafetySpec => []NoForeignLine
<1> DEFINE Inv == TypeOK /\ LinesOwned
<1>1. Init => Inv
  BY InitTypeOK, LinesOwnedInit
<1>2. Inv /\ [Next]_vars => Inv'
  BY NextTypeOK, LinesOwnedNext
<1>3. Inv => NoForeignLine
  BY LinesOwnedNoForeignLine
<1>4. QED BY <1>1, <1>2, <1>3, PTL DEF SafetySpec

----------------------------------------------------------------------------
(* The served index is exact.                                              *)

\* Asynq keeps the task's ID while the task is active, or there is one worker.
OneTask == Redis \/ \E w : Indexers = {w}
Commits == Tree[1]

\* One task of the repository is active.
OneAtATime ==
    /\ Redis /\ task # 0 => ~held
    /\ Redis => \A w \in Indexers : ipc[w] # "idle" => held
    /\ \A v, w \in Indexers : ipc[v] # "idle" /\ ipc[w] # "idle" => v = w

Lines(b) == IF b = 0 THEN {} ELSE {<<1, b>>}

\* Documents d of file p are those of some commit from l to m.
Between(d, p, l, m) ==
    \E k \in DOMAIN Commits : l <= k /\ k <= m /\ d[p] = Lines(Commits[k][p])

\* A file that commit l has not has no document.
NoneOf(d, l) == \A p \in Paths : Commits[l][p] = 0 => d[p] = {}

\* The documents d are those of the tree man, commit n or a later one up to m, but
\* a file may have been read at a later commit than the tree was listed.
Follows(d, n, man, m) ==
    \E l \in DOMAIN Commits :
        /\ n <= l /\ l <= m /\ man = Commits[l]
        /\ \A p \in Paths : Between(d, p, l, m)
        /\ NoneOf(d, l)

\* The job listed commit m, at or after the one it resolved.
Listed(j, m, h) ==
    /\ m <= h /\ j.want = Commits[m]
    /\ \E n \in DOMAIN Commits : j.sha = <<1, n>> /\ n <= m

\* While files are read: those to come have no document, the others have those of
\* the listed commit m or of a later one.
Reading(d, j, m, h) ==
    /\ \A p \in Paths : IF p \in j.todo THEN d[p] = {} ELSE Between(d, p, m, h)
    /\ NoneOf(d, m)

\* What is true of the one rebuild, from the resolution of the branch to the save.
Rebuilding(w) ==
    /\ ipc[w] # "idle" => job[w].id = 1
    /\ ipc[w] = "tree" =>
         \E n \in DOMAIN Commits : job[w].sha = <<1, n>> /\ n <= head
    /\ ipc[w] \in {"meta", "manifest", "lock"} =>
         \E m \in DOMAIN Commits :
           /\ Listed(job[w], m, head)
           /\ meta.id = 1 => Follows(docs, 0, manifest, m)
    /\ ipc[w] \in {"manifest", "lock"} => job[w].prev = meta.id
    /\ ipc[w] = "lock" => job[w].old = manifest
    /\ ipc[w] \in {"delete", "read", "save"} => meta = NoMeta
    /\ ipc[w] = "delete" =>
         \E m \in DOMAIN Commits :
           /\ Listed(job[w], m, head)
           /\ Full(job[w]) \/ Follows(docs, 0, job[w].old, m)
    /\ ipc[w] \in {"read", "save"} =>
         \E m \in DOMAIN Commits :
           /\ Listed(job[w], m, head) /\ Reading(docs, job[w], m, head)
           /\ job[w].todo \subseteq Files(job[w].want)
           /\ ipc[w] = "save" => manifest = Commits[m] /\ job[w].todo = {}

\* While the repository exists: nothing forgets its index, and the entry, the
\* manifest and the documents agree.
Current ==
    row = 1 =>
        /\ disk = 1 /\ deleter = "idle" /\ pruner = "idle"
        /\ meta.id = 1 =>
             \E n \in DOMAIN Commits : meta.sha = <<1, n>> /\ Follows(docs, n, manifest, head)
        /\ \A w \in Indexers : Rebuilding(w)

LEMMA OneAtATimeInit ==
  ASSUME CodeIndexAssumption
  PROVE  OneTask /\ Init => OneAtATime
  BY DEF Init, OneAtATime, OneTask

LEMMA OneAtATimeNext ==
  ASSUME CodeIndexAssumption
  PROVE  OneTask /\ TypeOK /\ OneAtATime /\ [Next]_vars => OneAtATime'
<1> SUFFICES ASSUME OneTask, TypeOK, OneAtATime, [Next]_vars PROVE OneAtATime'
  OBVIOUS
<1>1. ASSUME NEW w \in Indexers, Take(w) PROVE OneAtATime'
  <2>1. CASE row = 0
    BY <1>1, <2>1 DEF Take, OneAtATime
  <2>2. CASE row # 0
    <3>1. /\ ipc[w] = "idle" /\ task # 0 /\ task' = 0 /\ held' = Redis
          /\ ipc' = [ipc EXCEPT ![w] = "resolve"]
      BY <1>1, <2>2 DEF Take
    <3>2. \A v \in Indexers : v # w => ipc[v] = "idle"
      BY <3>1 DEF OneAtATime, OneTask
    <3>3. \A v \in Indexers : v # w => ipc'[v] = "idle"
      BY <3>1, <3>2 DEF TypeOK
    <3>4. QED BY <3>1, <3>3 DEF OneAtATime
  <2>3. QED BY <2>1, <2>2
<1>2. ASSUME NEW w \in Indexers, Index(w) PROVE OneAtATime'
  <2>1. ipc[w] # "idle" /\ task' = task
    BY <1>2 DEF Index, Resolve, ListTree, ReadMeta, ReadManifest, Lock,
       DeleteDocs, IndexFile, Fail, SaveManifest, SetMeta, CheckHead, Unmark, queueVars
  <2>2. /\ \A v \in Indexers : v # w => ipc[v] = "idle" /\ ipc'[v] = "idle"
        /\ held' = held \/ (held' = FALSE /\ ipc'[w] = "idle")
    BY <1>2, <2>1 DEF Index, Resolve, ListTree, ReadMeta, ReadManifest, Lock, Leave,
       DeleteDocs, IndexFile, Fail, SaveManifest, SetMeta, CheckHead, Unmark, queueVars,
       OneAtATime, TypeOK
  <2>3. QED BY <2>1, <2>2 DEF OneAtATime
<1>3. CASE OtherStep
  <2>1. held' = held /\ (ipc' = ipc \/ ipc' = [w \in Indexers |-> "idle"])
    BY <1>3 DEF OtherStep, Push, Hook, HookSpool, HookMark, PushEvent, Backfill, Enqueue,
       DeleteRow, Deletes, DeleteDisk, DeleteForget, Prunes, PruneCheck, PruneForget, Recreate,
       Crash, queueVars
  <2>2. task' \in {task, 0} \/ ~held
    BY <1>3 DEF OtherStep, Push, Hook, HookSpool, HookMark, PushEvent, Backfill, Enqueue,
       DeleteRow, Deletes, DeleteDisk, DeleteForget, Prunes, PruneCheck, PruneForget, Recreate,
       Crash, queueVars
  <2>3. QED BY <2>1, <2>2 DEF OneAtATime
<1>4. CASE UNCHANGED vars
  BY <1>4 DEF OneAtATime, vars, queueVars
<1>5. QED BY <1>1, <1>2, <1>3, <1>4, NextParts DEF WorkStep

\* Where the head and the commits are numbers.
LEMMA CommitNumbers ==
  ASSUME CodeIndexAssumption, TypeOK, NeverRecreated
  PROVE  /\ DOMAIN Commits \subseteq Nat /\ 1 \in DOMAIN Commits
         /\ \A m \in DOMAIN Commits : Commits[m] \in Trees
         /\ \A m \in DOMAIN Commits : Commits[m] # NoManifest \/ Paths = {}
         /\ disk = 1 => head \in DOMAIN Commits /\ HeadTree = Commits[head]
                        /\ HeadSHA = <<1, head>>
         /\ row \in {0, 1} /\ task \in {0, 1} /\ meta.id \in {0, 1} /\ lastId = 1
<1>1. 1 \in Ids
  BY Constants
<1>2. QED BY <1>1, Constants DEF TypeOK, NeverRecreated, Commits, HeadTree, HeadSHA, Trees,
  NoManifest

\* Documents of a range of commits are those of a wider one.
LEMMA FollowsOn ==
  ASSUME NEW d, NEW man, NEW n \in Nat, NEW m \in Nat, NEW i \in Nat, NEW h \in Nat,
         DOMAIN Commits \subseteq Nat, i <= n, m <= h, Follows(d, n, man, m)
  PROVE  Follows(d, i, man, h)
<1>1. PICK l \in DOMAIN Commits :
        /\ n <= l /\ l <= m /\ man = Commits[l]
        /\ \A p \in Paths : Between(d, p, l, m)
        /\ NoneOf(d, l)
  BY DEF Follows
<1>2. \A p \in Paths : Between(d, p, l, h)
  BY <1>1 DEF Between
<1>3. i <= l /\ l <= h
  BY <1>1
<1>4. QED BY <1>1, <1>2, <1>3 DEF Follows

\* The head moves on.
LEMMA ListedOn ==
  ASSUME NEW j, NEW m \in Nat, NEW h \in Nat, NEW g \in Nat, h <= g, Listed(j, m, h)
  PROVE  Listed(j, m, g)
  BY DEF Listed

LEMMA ReadingOn ==
  ASSUME NEW d, NEW j, NEW m \in Nat, NEW h \in Nat, NEW g \in Nat, h <= g,
         DOMAIN Commits \subseteq Nat, Reading(d, j, m, h)
  PROVE  Reading(d, j, m, g)
<1>1. \A p \in Paths : Between(d, p, m, h) => Between(d, p, m, g)
  BY DEF Between
<1>2. QED BY <1>1 DEF Reading

LEMMA CurrentInit ==
  ASSUME CodeIndexAssumption
  PROVE  NeverRecreated /\ Init => Current
  BY Constants DEF Init, Current, Rebuilding

\* Without a re-creation a name that has its row has had it all along.
LEMMA RowStays ==
  ASSUME CodeIndexAssumption, TypeOK, NeverRecreated, [Next]_vars, row' = 1
  PROVE  row = 1
<1>1. lastId = 1 /\ lastId + 1 \notin Ids
  BY DEF TypeOK, NeverRecreated
<1>2. QED BY <1>1, NextParts DEF WorkStep, Take, Index, Resolve, ListTree, ReadMeta, ReadManifest,
  Lock, DeleteDocs, IndexFile, Fail, SaveManifest, SetMeta, CheckHead, Unmark, OtherStep, Push,
  Hook, HookSpool, HookMark, PushEvent, Backfill, DeleteRow, Deletes, DeleteDisk, DeleteForget,
  Prunes, PruneCheck, PruneForget, Recreate, Crash, repoVars, vars

\* A step that touches no index and no job, and moves the head on at most.
LEMMA QuietStep ==
  ASSUME CodeIndexAssumption, TypeOK, TypeOK', NeverRecreated, Current, row = 1, head <= head',
         UNCHANGED <<docs, manifest, meta, ipc, job, disk, deleter, pruner>>
  PROVE  Current'
<1>1. DOMAIN Commits \subseteq Nat /\ head \in Nat /\ head' \in Nat /\ disk = 1
  BY CommitNumbers DEF TypeOK, Current
<1>2. meta'.id = 1 => \E n \in DOMAIN Commits :
                         meta'.sha = <<1, n>> /\ Follows(docs', n, manifest', head')
  BY <1>1, FollowsOn DEF Current
<1>3. ASSUME NEW w \in Indexers PROVE Rebuilding(w)'
  <2>1. Rebuilding(w)
    BY DEF Current
  <2>2. \A m \in DOMAIN Commits : Listed(job[w], m, head) => Listed(job[w], m, head')
    BY <1>1, ListedOn
  <2>3. \A m \in DOMAIN Commits : Reading(docs, job[w], m, head) => Reading(docs, job[w], m, head')
    BY <1>1, ReadingOn
  <2>4. \A n \in DOMAIN Commits : n <= head => n <= head'
    BY <1>1
  <2>5. QED BY <2>1, <2>2, <2>3, <2>4 DEF Rebuilding
<1>4. QED BY <1>1, <1>2, <1>3 DEF Current

LEMMA OtherStepCurrent ==
  ASSUME CodeIndexAssumption, TypeOK, TypeOK', NeverRecreated, Current, OtherStep, row = 1, row' = 1
  PROVE  Current'
<1>1. disk = 1 /\ deleter = "idle" /\ pruner = "idle" /\ task \in {0, 1}
  BY CommitNumbers DEF Current
<1>2. CASE Crash
  <2>1. /\ UNCHANGED <<docs, manifest, meta, disk, head>>
        /\ deleter' = "idle" /\ pruner' = "idle"
        /\ ipc' = [w \in Indexers |-> "idle"]
    BY <1>2 DEF Crash, repoVars, indexVars
  <2>2. \A w \in Indexers : Rebuilding(w)'
    BY <2>1 DEF Rebuilding
  <2>3. QED BY <1>1, <2>1, <2>2 DEF Current
<1>3. CASE ~Crash
  <2>1. UNCHANGED <<docs, manifest, meta, ipc, job, disk, deleter, pruner>>
    BY <1>1, <1>3 DEF OtherStep, Push, Hook, HookSpool, HookMark, PushEvent, Backfill,
       DeleteRow, Deletes, DeleteDisk, DeleteForget, Prunes, PruneCheck, PruneForget,
       Recreate, repoVars, indexVars
  <2>2. head' \in {head, head + 1}
    BY <1>1, <1>3 DEF OtherStep, Push, Hook, HookSpool, HookMark, PushEvent, Backfill,
       DeleteRow, Deletes, DeleteDisk, DeleteForget, Prunes, PruneCheck, PruneForget,
       Recreate, repoVars
  <2>3. head <= head'
    BY <2>2 DEF TypeOK
  <2>4. QED BY <2>1, <2>3, QuietStep
<1>4. QED BY <1>2, <1>3

\* The rebuild starts from what the saved manifest says, or from nothing.
LEMMA DeleteStarts ==
  ASSUME CodeIndexAssumption,
         TypeOK, NeverRecreated, NeverBack, NEW d, NEW j \in Jobs, NEW m \in DOMAIN Commits,
         NEW h \in Nat, m <= h, j.want = Commits[m],
         Full(j) \/ Follows(d, 0, j.old, m),
         NEW e, e = [p \in Paths |-> IF p \in Stale(j) THEN {} ELSE d[p]]
  PROVE  /\ \A p \in Paths : IF p \in Changed(j) THEN e[p] = {} ELSE Between(e, p, m, h)
         /\ NoneOf(e, m) /\ Changed(j) \subseteq Files(j.want)
<1>1. DOMAIN Commits \subseteq Nat /\ \A n \in DOMAIN Commits : Commits[n] \in Trees
  BY CommitNumbers
<1>2. Changed(j) \subseteq Files(j.want)
  BY DEF Changed
<1>3. \A p \in Paths : p \in Files(j.want) <=> Commits[m][p] # 0
  BY <1>1 DEF Files, Trees
<1>4. m \in Nat /\ m <= m
  BY <1>1
<1>5. CASE Full(j)
  <2>1. \A p \in Paths : e[p] = {}
    BY <1>5 DEF Stale
  <2>2. ASSUME NEW p \in Paths, p \notin Changed(j) PROVE Between(e, p, m, h)
    <3>1. Commits[m][p] = 0
      BY <1>3, <1>5, <2>2 DEF Changed
    <3>2. QED BY <1>4, <2>1, <3>1 DEF Between, Lines
  <2>3. QED BY <1>2, <2>1, <2>2 DEF NoneOf
<1>6. CASE ~Full(j)
  <2>1. PICK l \in DOMAIN Commits :
          /\ l <= m /\ j.old = Commits[l]
          /\ \A p \in Paths : Between(d, p, l, m)
          /\ NoneOf(d, l)
    BY <1>6 DEF Follows
  <2>2. \A p \in Paths : p \in Files(j.old) <=> Commits[l][p] # 0
    BY <1>1, <2>1 DEF Files, Trees
  <2>3. ASSUME NEW p \in Paths, p \in Changed(j) PROVE e[p] = {}
    <3>1. CASE Commits[l][p] = 0
      BY <2>1, <3>1 DEF NoneOf
    <3>2. CASE Commits[l][p] # 0
      BY <1>6, <2>2, <2>3, <3>2 DEF Changed, Stale
    <3>3. QED BY <3>1, <3>2
  <2>4. ASSUME NEW p \in Paths, p \notin Changed(j) PROVE Between(e, p, m, h)
    <3>1. CASE Commits[m][p] = 0
      <4>1. e[p] = {}
        BY <1>6, <2>1, <2>2, <3>1 DEF Stale, NoneOf
      <4>2. QED BY <1>4, <3>1, <4>1 DEF Between, Lines
    <3>2. CASE Commits[m][p] # 0
      <4>1. Commits[l][p] = Commits[m][p] /\ e[p] = d[p]
        BY <1>3, <1>6, <2>1, <2>2, <2>4, <3>2 DEF Changed, Stale
      <4>2. PICK k \in DOMAIN Commits : l <= k /\ k <= m /\ d[p] = Lines(Commits[k][p])
        BY <2>1 DEF Between
      <4>3. Commits[k][p] = Commits[m][p]
        BY <3>2, <4>1, <4>2, Constants DEF NeverBack, Commits
      <4>4. QED BY <1>4, <4>1, <4>2, <4>3 DEF Between
    <3>3. QED BY <3>1, <3>2
  <2>5. ASSUME NEW p \in Paths, Commits[m][p] = 0 PROVE e[p] = {}
    <3>1. p \notin Changed(j)
      BY <1>2, <1>3, <2>5
    <3>2. QED BY <1>6, <2>1, <2>2, <2>5 DEF Stale, NoneOf
  <2>6. QED BY <1>2, <2>3, <2>4, <2>5 DEF NoneOf
<1>7. QED BY <1>5, <1>6

\* A file that is read has the documents of the head, or none if it is gone.
LEMMA FileIsRead ==
  ASSUME CodeIndexAssumption,
         TypeOK, NeverRecreated, NEW w \in Indexers, NEW m \in DOMAIN Commits, disk = 1,
         Reading(docs, job[w], m, head), m <= head, job[w].want = Commits[m],
         job[w].todo \subseteq Files(job[w].want), IndexFile(w)
  PROVE  Reading(docs', job'[w], m, head) /\ job'[w].todo \subseteq job[w].todo
<1>1. PICK q \in job[w].todo :
        /\ q \in Paths
        /\ job' = [job EXCEPT ![w].todo = @ \ {q}]
        /\ \/ HeadTree[q] = 0 /\ docs' = docs
           \/ HeadTree[q] \in Blobs /\ docs' = [docs EXCEPT ![q] = Overwrite(@, disk, HeadTree[q])]
  BY IndexFileDocs
<1>2. /\ HeadTree = Commits[head] /\ head \in DOMAIN Commits /\ DOMAIN Commits \subseteq Nat
      /\ head <= head /\ job'[w].todo = job[w].todo \ {q} /\ Commits[m] \in Trees
  BY <1>1, CommitNumbers DEF TypeOK, Jobs
<1>3. docs[q] = {} /\ Commits[m][q] # 0
  BY <1>1, <1>2 DEF Reading, Files, Trees
<1>4. \A p \in Paths : p # q => docs'[p] = docs[p]
  BY <1>1 DEF TypeOK
<1>5. docs'[q] = Lines(Commits[head][q])
  BY <1>1, <1>2, <1>3, Constants DEF TypeOK, Lines, Overwrite
<1>6. Between(docs', q, m, head)
  BY <1>2, <1>5 DEF Between
<1>7. \A p \in Paths : p # q /\ Between(docs, p, m, head) => Between(docs', p, m, head)
  BY <1>4 DEF Between
<1>8. \A p \in Paths : IF p \in job'[w].todo THEN docs'[p] = {} ELSE Between(docs', p, m, head)
  BY <1>2, <1>4, <1>6, <1>7 DEF Reading
<1>9. NoneOf(docs', m)
  BY <1>3, <1>4 DEF Reading, NoneOf
<1>10. QED BY <1>2, <1>8, <1>9 DEF Reading

\* The worker's own steps.
LEMMA OwnRebuilding ==
  ASSUME CodeIndexAssumption,
         TypeOK, TypeOK', NeverRecreated, NeverBack, Current, NEW w \in Indexers, WorkStep(w),
         row = 1
  PROVE  Rebuilding(w)'
<1>1. /\ disk = 1 /\ Rebuilding(w) /\ UNCHANGED repoVars
      /\ meta.id = 1 => \E n \in DOMAIN Commits : Follows(docs, n, manifest, head)
  BY DEF Current, WorkStep, Take, Index, Resolve, ListTree, ReadMeta, ReadManifest, Lock,
     DeleteDocs, IndexFile, Fail, SaveManifest, SetMeta, CheckHead, Unmark
<1>2. /\ DOMAIN Commits \subseteq Nat /\ head \in DOMAIN Commits /\ HeadTree = Commits[head]
      /\ HeadSHA = <<1, head>> /\ task \in {0, 1} /\ meta.id \in {0, 1} /\ head' = head
      /\ head <= head
  BY <1>1, CommitNumbers DEF repoVars
<1>3. job[w] \in Jobs /\ job \in [Indexers -> Jobs] /\ ipc \in [Indexers -> Stages]
  BY DEF TypeOK
<1>4. CASE Take(w)
  BY <1>2, <1>3, <1>4 DEF Take, Rebuilding, Jobs
<1>5. CASE ipc'[w] = "idle"
  BY <1>5 DEF Rebuilding
<1>6. CASE Resolve(w) /\ ipc'[w] # "idle"
  <2>1. ipc'[w] = "tree" /\ job'[w].id = 1 /\ job'[w].sha = <<1, head>>
    BY <1>1, <1>2, <1>3, <1>6 DEF Resolve, Rebuilding, Jobs
  <2>2. QED BY <1>2, <2>1 DEF Rebuilding
<1>7. CASE ListTree(w) /\ ipc'[w] # "idle"
  <2>1. /\ ipc'[w] = "meta" /\ job'[w].id = 1 /\ job'[w].sha = job[w].sha
        /\ job'[w].want = Commits[head] /\ UNCHANGED <<docs, manifest, meta>>
        /\ \E n \in DOMAIN Commits : job[w].sha = <<1, n>> /\ n <= head
    BY <1>1, <1>2, <1>3, <1>7 DEF ListTree, Rebuilding, Jobs, indexVars
  <2>2. Listed(job'[w], head, head)
    BY <1>2, <2>1 DEF Listed
  <2>3. meta.id = 1 => Follows(docs, 0, manifest, head)
    BY <1>1, <1>2, FollowsOn
  <2>4. QED BY <1>2, <2>1, <2>2, <2>3 DEF Rebuilding
<1>8. CASE ReadMeta(w)
  <2>1. /\ ipc'[w] = "manifest" /\ job'[w].id = 1 /\ job'[w].sha = job[w].sha
        /\ job'[w].want = job[w].want /\ job'[w].prev = meta.id
        /\ UNCHANGED <<docs, manifest, meta>> /\ ipc[w] = "meta"
    BY <1>1, <1>3, <1>8 DEF ReadMeta, Rebuilding, Jobs, indexVars
  <2>2. QED BY <1>1, <1>2, <2>1 DEF Rebuilding, Listed
<1>9. CASE ReadManifest(w)
  <2>1. /\ ipc'[w] = "lock" /\ job'[w].id = 1 /\ job'[w].sha = job[w].sha
        /\ job'[w].want = job[w].want /\ job'[w].prev = job[w].prev /\ job'[w].old = manifest
        /\ UNCHANGED <<docs, manifest, meta>> /\ ipc[w] = "manifest"
    BY <1>1, <1>3, <1>9 DEF ReadManifest, Rebuilding, Jobs, indexVars
  <2>2. QED BY <1>1, <1>2, <2>1 DEF Rebuilding, Listed
<1>10. CASE Lock(w)
  <2>1. /\ ipc'[w] = "delete" /\ job' = job /\ docs' = docs /\ meta' = NoMeta
        /\ ipc[w] = "lock"
    BY <1>3, <1>10 DEF Lock
  <2>2. PICK m \in DOMAIN Commits :
          /\ Listed(job[w], m, head)
          /\ meta.id = 1 => Follows(docs, 0, job[w].old, m)
    BY <1>1, <2>1 DEF Rebuilding
  <2>3. Full(job[w]) \/ Follows(docs, 0, job[w].old, m)
    BY <1>1, <2>1, <2>2 DEF Rebuilding, Full
  <2>4. QED BY <1>1, <1>2, <2>1, <2>2, <2>3 DEF Rebuilding
<1>11. CASE DeleteDocs(w)
  <2>1. /\ ipc'[w] = "read" /\ job'[w].id = job[w].id /\ job'[w].sha = job[w].sha
        /\ job'[w].want = job[w].want /\ job'[w].todo = Changed(job[w])
        /\ docs' = [p \in Paths |-> IF p \in Stale(job[w]) THEN {} ELSE docs[p]]
        /\ meta' = meta /\ ipc[w] = "delete"
    BY <1>3, <1>11 DEF DeleteDocs, Jobs
  <2>2. PICK m \in DOMAIN Commits :
          /\ Listed(job[w], m, head)
          /\ Full(job[w]) \/ Follows(docs, 0, job[w].old, m)
    BY <1>1, <2>1 DEF Rebuilding
  <2>3. m <= head /\ job[w].want = Commits[m] /\ head \in Nat
    BY <1>2, <2>2 DEF Listed
  <2>4. /\ \A p \in Paths : IF p \in Changed(job[w]) THEN docs'[p] = {}
                            ELSE Between(docs', p, m, head)
        /\ NoneOf(docs', m) /\ Changed(job[w]) \subseteq Files(job[w].want)
    BY <1>3, <2>1, <2>2, <2>3, DeleteStarts
  <2>5. Reading(docs', job'[w], m, head)
    BY <2>1, <2>4 DEF Reading
  <2>6. Listed(job'[w], m, head)
    BY <2>1, <2>2 DEF Listed
  <2>7. QED BY <1>1, <1>2, <2>1, <2>4, <2>5, <2>6 DEF Rebuilding
<1>12. CASE IndexFile(w)
  <2>1. /\ ipc'[w] = "read" /\ ipc[w] = "read" /\ meta' = meta
    BY <1>12 DEF IndexFile
  <2>2. PICK m \in DOMAIN Commits :
          /\ Listed(job[w], m, head) /\ Reading(docs, job[w], m, head)
          /\ job[w].todo \subseteq Files(job[w].want)
    BY <1>1, <2>1 DEF Rebuilding
  <2>3. m <= head /\ job[w].want = Commits[m]
    BY <2>2 DEF Listed
  <2>4. Reading(docs', job'[w], m, head) /\ job'[w].todo \subseteq job[w].todo
    BY <1>1, <1>12, <2>2, <2>3, FileIsRead
  <2>5. job'[w].id = job[w].id /\ job'[w].sha = job[w].sha /\ job'[w].want = job[w].want
    BY <1>3, <1>12 DEF IndexFile, Jobs
  <2>6. Listed(job'[w], m, head)
    BY <2>2, <2>5 DEF Listed
  <2>7. QED BY <1>1, <1>2, <2>1, <2>2, <2>4, <2>5, <2>6 DEF Rebuilding
<1>13. CASE SaveManifest(w)
  <2>1. /\ ipc'[w] = "save" /\ ipc[w] = "read" /\ meta' = meta /\ docs' = docs /\ job' = job
        /\ manifest' = job[w].want /\ job[w].todo = {}
    BY <1>3, <1>13 DEF SaveManifest
  <2>2. QED BY <1>1, <1>2, <2>1 DEF Rebuilding, Listed
<1>14. CASE SetMeta(w) \/ (CheckHead(w) /\ ipc'[w] # "idle")
  <2>1. ipc'[w] \in {"check", "unmark"} /\ job' = job /\ ipc[w] # "idle"
    BY <1>3, <1>14 DEF SetMeta, CheckHead, Leave
  <2>2. QED BY <1>1, <2>1 DEF Rebuilding
<1>15. Fail(w) \/ Unmark(w) => ipc'[w] = "idle"
  BY <1>3 DEF Fail, Unmark, Leave
<1>16. QED BY <1>4, <1>5, <1>6, <1>7, <1>8, <1>9, <1>10, <1>11, <1>12, <1>13, <1>14, <1>15
       DEF WorkStep, Index

LEMMA WorkStepCurrent ==
  ASSUME CodeIndexAssumption,
         TypeOK, TypeOK', NeverRecreated, NeverBack, OneAtATime, OneTask, Current,
         NEW w \in Indexers, WorkStep(w), row = 1
  PROVE  Current'
<1>1. UNCHANGED <<disk, head, deleter, pruner>>
  BY DEF WorkStep, Take, Index, Resolve, ListTree, ReadMeta, ReadManifest, Lock,
     DeleteDocs, IndexFile, Fail, SaveManifest, SetMeta, CheckHead, Unmark, repoVars
<1>2. disk = 1 /\ DOMAIN Commits \subseteq Nat /\ head \in DOMAIN Commits
  BY CommitNumbers DEF Current
<1>3. meta'.id = 1 =>
        \E n \in DOMAIN Commits : meta'.sha = <<1, n>> /\ Follows(docs', n, manifest', head)
  <2>1. CASE SetMeta(w)
    <3>1. /\ ipc[w] = "save" /\ docs' = docs /\ manifest' = manifest /\ meta'.sha = job[w].sha
      BY <2>1 DEF SetMeta
    <3>2. PICK m \in DOMAIN Commits :
            /\ Listed(job[w], m, head) /\ Reading(docs, job[w], m, head)
            /\ manifest = Commits[m] /\ job[w].todo = {}
      BY <3>1 DEF Current, Rebuilding
    <3>3. PICK n \in DOMAIN Commits : job[w].sha = <<1, n>> /\ n <= m /\ m <= head
      BY <3>2 DEF Listed
    <3>4. Follows(docs, n, manifest, head)
      BY <3>2, <3>3 DEF Follows, Reading
    <3>5. QED BY <3>1, <3>3, <3>4
  <2>2. CASE ~SetMeta(w)
    <3>1. \/ meta' = NoMeta
          \/ UNCHANGED indexVars
          \/ meta' = meta /\ ipc[w] \in {"delete", "read"}
      BY <2>2 DEF WorkStep, Take, Index, Resolve, ListTree, ReadMeta, ReadManifest, Lock,
         DeleteDocs, IndexFile, Fail, SaveManifest, CheckHead, Unmark
    <3>2. ipc[w] \in {"delete", "read"} => meta = NoMeta
      BY DEF Current, Rebuilding
    <3>3. QED BY <3>1, <3>2, Constants DEF Current, indexVars
  <2>3. QED BY <2>1, <2>2
<1>4. ASSUME NEW v \in Indexers, v # w PROVE Rebuilding(v)'
  <2>1. ipc'[v] = ipc[v]
    BY <1>4 DEF WorkStep, Take, Index, Resolve, ListTree, ReadMeta, ReadManifest, Lock, Leave,
       DeleteDocs, IndexFile, Fail, SaveManifest, SetMeta, CheckHead, Unmark, TypeOK
  <2>2. ipc[w] = "idle" => Take(w)
    BY DEF WorkStep, Index, Resolve, ListTree, ReadMeta, ReadManifest, Lock,
       DeleteDocs, IndexFile, Fail, SaveManifest, SetMeta, CheckHead, Unmark
  <2>3. ipc[v] = "idle"
    BY <1>4, <2>2 DEF OneAtATime, OneTask, Take
  <2>4. QED BY <2>1, <2>3 DEF Rebuilding
<1>5. QED BY <1>1, <1>2, <1>3, <1>4, OwnRebuilding DEF Current

LEMMA CurrentNext ==
  ASSUME CodeIndexAssumption
  PROVE  NeverRecreated /\ NeverBack /\ OneTask /\ TypeOK /\ OneAtATime /\ Current /\ [Next]_vars
           => Current'
<1> SUFFICES ASSUME NeverRecreated, NeverBack, OneTask, TypeOK, OneAtATime, Current,
                    [Next]_vars, row' = 1
             PROVE  Current'
  BY DEF Current
<1>1. row = 1 /\ TypeOK'
  BY RowStays, NextTypeOK
<1>2. CASE UNCHANGED vars
  BY <1>1, <1>2, QuietStep DEF vars, repoVars, indexVars, TypeOK
<1>3. QED BY <1>1, <1>2, NextParts, WorkStepCurrent, OtherStepCurrent

LEMMA CurrentExact ==
  ASSUME CodeIndexAssumption, TypeOK, NeverRecreated, Current
  PROVE  CurrentIsExact
<1> SUFFICES ASSUME row = disk, Ready(row), meta.sha = HeadSHA PROVE Exact
  BY DEF CurrentIsExact
<1>1. row = 1 /\ disk = 1 /\ meta.id = 1
  BY CommitNumbers DEF Ready
<1>2. /\ HeadSHA = <<1, head>> /\ HeadTree = Commits[head] /\ DOMAIN Commits \subseteq Nat
      /\ head \in DOMAIN Commits
  BY <1>1, CommitNumbers
<1>3. Follows(docs, head, manifest, head)
  BY <1>1, <1>2 DEF Current
<1>4. \A p \in Paths : docs[p] = Lines(Commits[head][p])
  BY <1>2, <1>3 DEF Follows, Between
<1>5. QED BY <1>1, <1>2, <1>4 DEF Exact, Lines

\* A served index that names the commit of HEAD holds exactly the lines of that
\* commit, for any number of files, commits, pushers, failures and crashes, and
\* with asynq any number of workers: as long as the name is not used again, one
\* task of it runs at a time and no file returns to a blob it had.
THEOREM ServesTheCommit ==
  ASSUME CodeIndexAssumption
  PROVE  NeverRecreated /\ NeverBack /\ OneTask => (SafetySpec => []CurrentIsExact)
<1> SUFFICES ASSUME NeverRecreated, NeverBack, OneTask PROVE SafetySpec => []CurrentIsExact
  OBVIOUS
<1> DEFINE Inv == TypeOK /\ OneAtATime /\ Current
<1>1. Init => Inv
  BY InitTypeOK, OneAtATimeInit, CurrentInit
<1>2. Inv /\ [Next]_vars => Inv'
  BY NextTypeOK, OneAtATimeNext, CurrentNext
<1>3. Inv => CurrentIsExact
  BY CurrentExact
<1>4. QED BY <1>1, <1>2, <1>3, PTL DEF SafetySpec

=============================================================================
