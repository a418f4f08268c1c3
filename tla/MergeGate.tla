------------------------------ MODULE MergeGate ------------------------------
(***************************************************************************)
(* Merging the pull requests of one target branch: the rows of the pull    *)
(* requests, the reviews and CI results the gate reads, the merge queue,   *)
(* the branch refs, and the threads of one server that run mergePull,      *)
(* setPullAutoMerge, createReview, setPullState and the success hook of a  *)
(* pipeline (AutoMergeForRepo).  A step lies between two accesses to the   *)
(* database, to the lock of the branch or to a ref.                        *)
(* A commit is the set of changes it contains, so "is an ancestor of" is   *)
(* "is a subset of"; a merge commit adds no change of its own.             *)
(* Source: src/backend/internal/api/{merge,pulls,reviews}.go,              *)
(* internal/store/{pulls,mergequeue}.go, internal/gitsvc/{diff,merge}.go.  *)
(***************************************************************************)
EXTENDS Naturals, FiniteSets

CONSTANTS
    Pulls,        \* numbers of the pull requests, all towards one branch
    Threads,      \* goroutines of the server, one request at a time
    Reviewers,    \* users who review, the author among them or not
    Author,       \* the author of the pull requests
    NoThread,     \* "the lock is free"
    Method,       \* the merge method asked for each pull request
    MinApprovals, \* of the protection rule of the target branch, and so:
    RequireCI,
    MergeQueue,
    MaxPushes,    \* bound on the pushes to each branch
    MaxRequests   \* bound on the requests, pushes and crashes of a behaviour

ASSUME MergeGateAssumption ==
    /\ Pulls \subseteq Nat \ {0}
    /\ NoThread \notin Threads
    /\ Method \in [Pulls -> {"fast-forward", "merge"}]
    /\ MinApprovals \in Nat /\ RequireCI \in BOOLEAN /\ MergeQueue \in BOOLEAN
    /\ MaxPushes \in Nat /\ MaxRequests \in Nat

NoPull  == 0   \* also names the changes pushed directly to the target
Changes == (Pulls \cup {NoPull}) \X (0..MaxPushes)
Commits == SUBSET Changes

VARIABLES
    \* the rows
    state, draft, autoMerge, headSHA,
    queue,       \* the id of the entry of each pull request in merge_queue, or 0
    lastId,      \* the auto-increment of merge_queue
    \* what the gate reads; reviews and pipelines may be there at the start
    reviews,     \* the latest review of each reviewer: what it says, of what
    green,       \* commits whose aggregated pipeline status is success
    \* the refs
    tip, target,
    \* the threads
    lock,        \* mergeLocks of the target branch
    pc,
    pr,          \* the pull request at hand
    todo,        \* the rest of the list being processed: ranks, or 0
    mode,        \* executeMerge is called "alone", for a "list" or the "queue"
    more,        \* processMergeQueue follows
    want,        \* setPullState: the state to write
    head,        \* the head the gate judged
    new, old,    \* the commit to land, the target it is to replace
    \* observations
    landed,      \* landings: pull request, judged head, commit landed
    notices,     \* "merged" notifications of each pull request
    undone,      \* how often setPullState overwrote a merged row
    listed,      \* entries in the queue ever since the thread listed it
    missed,      \* pull requests that turned mergeable with no event saying so
    raced,       \* a push hit one of the windows of mergeFastForward
    requests

rowVars  == <<state, draft, autoMerge, headSHA>>
gateVars == <<reviews, green>>
refVars  == <<tip, target>>
listVars == <<queue, lastId, listed>>
workVars == <<pr, todo, mode, more, want>>
opVars   == <<head, new, old>>
noteVars == <<notices, undone>>
obsVars  == <<landed, missed, raced>>
vars == <<rowVars, listVars, gateVars, refVars, lock, pc, workVars, opVars,
          noteVars, obsVars, requests>>

\* A list of pull requests gives each of its members its rank, the others 0.
Empty == [p \in Pulls |-> 0]
Members(list) == {p \in Pulls : list[p] # 0}
First(list) ==
    CHOOSE p \in Members(list) : \A q \in Members(list) : list[p] <= list[q]

Init ==
    /\ state = [p \in Pulls |-> "open"]
    /\ draft = [p \in Pulls |-> FALSE]
    /\ autoMerge = [p \in Pulls |-> FALSE]
    /\ headSHA = [p \in Pulls |-> {<<p, 0>>}]
    /\ queue = Empty /\ lastId = 0 /\ listed = [t \in Threads |-> {}]
    /\ \E approved \in SUBSET (IF MinApprovals = 0 THEN {} ELSE Pulls) :
         reviews = [p \in Pulls |-> [v \in Reviewers |->
             IF p \in approved THEN [says |-> "approve", at |-> {<<p, 0>>}]
             ELSE [says |-> "none", at |-> {}]]]
    /\ green \in IF RequireCI THEN SUBSET {{<<p, 0>>} : p \in Pulls} ELSE {{}}
    /\ tip = [p \in Pulls |-> {<<p, 0>>}]
    /\ target = {}
    /\ lock = NoThread
    /\ pc   = [t \in Threads |-> "idle"]
    /\ pr   = [t \in Threads |-> NoPull]
    /\ todo = [t \in Threads |-> Empty]
    /\ mode = [t \in Threads |-> "alone"]
    /\ more = [t \in Threads |-> FALSE]
    /\ want = [t \in Threads |-> "open"]
    /\ head = [t \in Threads |-> {}]
    /\ new  = [t \in Threads |-> {}]
    /\ old  = [t \in Threads |-> {}]
    /\ landed = {} /\ missed = {} /\ raced = FALSE
    /\ notices = [p \in Pulls |-> 0]
    /\ undone  = [p \in Pulls |-> 0]
    /\ requests = 0

----------------------------------------------------------------------------
(* How a thread goes on.                                                   *)

Goto(t, step) == pc' = [pc EXCEPT ![t] = step]

Count == requests < MaxRequests /\ requests' = requests + 1

\* A request arrives; its thread works on p.
Begin(t, p, step) ==
    /\ Count
    /\ pc[t] = "idle"
    /\ pr' = [pr EXCEPT ![t] = p]
    /\ Goto(t, step)

\* The request is served, or processMergeQueue is still to be called.
Leave(t) ==
    /\ Goto(t, IF more[t] THEN "list" ELSE "idle")
    /\ more' = [more EXCEPT ![t] = FALSE]
    /\ pr'   = [pr EXCEPT ![t] = NoPull]
    /\ todo' = [todo EXCEPT ![t] = Empty]
    /\ mode' = [mode EXCEPT ![t] = "alone"]
    /\ head' = [head EXCEPT ![t] = {}]
    /\ new'  = [new EXCEPT ![t] = {}]
    /\ old'  = [old EXCEPT ![t] = {}]
    /\ UNCHANGED want

\* Mutant: the pass goes on behind a head that is not mergeable.
ResumeAnyway(t, merged) ==
    \/ mode[t] = "alone" /\ Leave(t)
    \/ mode[t] = "list" /\ Goto(t, "next") /\ UNCHANGED <<workVars, opVars>>
    \/ /\ mode[t] = "queue" /\ Goto(t, IF merged THEN "drop" ELSE "next")
       /\ UNCHANGED <<workVars, opVars>>

\* What follows an executeMerge that returned, with success or not.
Resume(t, merged) ==
    \/ /\ mode[t] = "alone" \/ (mode[t] = "queue" /\ ~merged)
       /\ Leave(t)
    \/ /\ mode[t] = "list"
       /\ Goto(t, "next") /\ UNCHANGED <<workVars, opVars>>
    \/ /\ mode[t] = "queue" /\ merged
       /\ Goto(t, "drop") /\ UNCHANGED <<workVars, opVars>>

----------------------------------------------------------------------------
(* The requests.                                                           *)

\* mergePull.  A pull request that is not open, or a draft without a queue,
\* is refused and nothing changes.
MergePull(t, p) ==
    /\ state[p] = "open" /\ (MergeQueue \/ ~draft[p])
    /\ Begin(t, p, IF MergeQueue THEN "enqueue" ELSE "lock")
    /\ UNCHANGED <<rowVars, listVars, gateVars, refVars, lock, todo, mode, more,
                   want, opVars, noteVars, obsVars>>

\* EnqueueMerge: an entry of the same pull request keeps its place.
Enqueue(t) ==
    /\ pc[t] = "enqueue"
    /\ IF queue[pr[t]] # 0
       THEN UNCHANGED <<queue, lastId>>
       ELSE lastId' = lastId + 1 /\ queue' = [queue EXCEPT ![pr[t]] = lastId']
    /\ Goto(t, "list")
    /\ UNCHANGED <<rowVars, listed, gateVars, refVars, lock, workVars, opVars,
                   noteVars, obsVars, requests>>

\* setPullAutoMerge: the row is read, then written, then one attempt is made.
RequestAuto(t, p) ==
    /\ state[p] = "open"
    /\ Begin(t, p, "setauto")
    /\ UNCHANGED <<rowVars, listVars, gateVars, refVars, lock, todo, mode, more,
                   want, opVars, noteVars, obsVars>>

SetPullAutoMerge(t) ==
    /\ pc[t] = "setauto"
    /\ autoMerge' = [autoMerge EXCEPT ![pr[t]] = TRUE]
    /\ Goto(t, "try")
    /\ UNCHANGED <<state, draft, headSHA, listVars, gateVars, refVars, lock,
                   workVars, opVars, noteVars, obsVars, requests>>

\* Mutant: a review is stored and only the queue is processed.
ReviewOnly(t, p, v, says) ==
    /\ Begin(t, p, "list")
    /\ reviews' = [reviews EXCEPT ![p][v] =
          [says |-> says, at |-> IF state[p] = "open" THEN tip[p] ELSE headSHA[p]]]
    /\ missed' = missed \ {p}
    /\ UNCHANGED <<rowVars, listVars, green, refVars, lock, todo, mode, more, want,
                   opVars, noteVars, landed, raced>>

\* createReview: the commit reviewed is the head of the moment (one named by
\* the client is not modelled); an attempt follows, then the queue.
Review(t, p, v, says) ==
    /\ Begin(t, p, "try")
    /\ reviews' = [reviews EXCEPT ![p][v] =
          [says |-> says, at |-> IF state[p] = "open" THEN tip[p] ELSE headSHA[p]]]
    /\ more' = [more EXCEPT ![t] = TRUE]
    /\ missed' = missed \ {p}
    /\ UNCHANGED <<rowVars, listVars, green, refVars, lock, todo,
                   mode, want, opVars, noteVars, landed, raced>>

\* The last run of a head succeeds, and the success hook is called ...
PipelineSucceeds(t, p) ==
    /\ RequireCI /\ tip[p] \notin green
    /\ Begin(t, NoPull, "hook")
    /\ green' = green \cup {tip[p]}
    /\ missed' = {}
    /\ UNCHANGED <<rowVars, listVars, reviews, refVars, lock, todo,
                   mode, more, want, opVars, noteVars, landed, raced>>

\* ... which lists the open pull requests with auto-merge by number; of these, executeMerge
\* refuses the ones it was handed as drafts.
AutoMergeForRepo(t) ==
    /\ pc[t] = "hook"
    /\ todo' = [todo EXCEPT ![t] =
          [p \in Pulls |-> IF state[p] = "open" /\ autoMerge[p] /\ ~draft[p] THEN p ELSE 0]]
    /\ mode' = [mode EXCEPT ![t] = "list"]
    /\ more' = [more EXCEPT ![t] = MergeQueue]
    /\ Goto(t, "next")
    /\ UNCHANGED <<rowVars, listVars, gateVars, refVars, lock, pr, want, opVars,
                   noteVars, obsVars, requests>>

\* Mutant: the state asked for is not validated.
RequestAnyState(t, p, s) ==
    /\ state[p] # "merged"
    /\ Begin(t, p, "setstate")
    /\ want' = [want EXCEPT ![t] = IF s = "closed" THEN "reopened" ELSE s]
    /\ UNCHANGED <<rowVars, listVars, gateVars, refVars, lock, todo, mode, more,
                   opVars, noteVars, obsVars>>

\* setPullState reads the row, refuses a merged one, and writes it later.
RequestState(t, p, s) ==
    /\ state[p] # "merged"
    /\ Begin(t, p, "setstate")
    /\ want' = [want EXCEPT ![t] = s]
    /\ UNCHANGED <<rowVars, listVars, gateVars, refVars, lock, todo, mode, more,
                   opVars, noteVars, obsVars>>

\* The write does not look at the state it replaces.
SetPullState(t) ==
    LET p == pr[t] IN
    /\ pc[t] = "setstate"
    /\ state' = [state EXCEPT ![p] = want[t]]
    /\ undone' = IF state[p] = "merged" THEN [undone EXCEPT ![p] = @ + 1] ELSE undone
    /\ missed' = Pulls
    /\ Leave(t)
    /\ UNCHANGED <<draft, autoMerge, headSHA, listVars, gateVars, refVars, lock,
                   notices, landed, raced, requests>>

\* setPullDraft, setPullAutoMerge(false), dequeuePull: no attempt follows.
SetPullDraft(p) ==
    /\ Count
    /\ state[p] = "open"
    /\ draft' = [draft EXCEPT ![p] = ~@]
    /\ missed' = missed \cup {p}
    /\ UNCHANGED <<state, autoMerge, headSHA, listVars, gateVars, refVars, lock, pc,
                   workVars, opVars, noteVars, landed, raced>>

ClearAutoMerge(p) ==
    /\ Count
    /\ state[p] = "open" /\ autoMerge[p]
    /\ autoMerge' = [autoMerge EXCEPT ![p] = FALSE]
    /\ UNCHANGED <<state, draft, headSHA, listVars, gateVars, refVars, lock, pc,
                   workVars, opVars, noteVars, obsVars>>

RemoveMergeEntry(p) ==
    /\ queue'  = [queue EXCEPT ![p] = 0]
    /\ listed' = [t \in Threads |-> listed[t] \ {p}]
    /\ UNCHANGED lastId

DequeuePull(p) ==
    /\ Count
    /\ queue[p] # 0
    /\ RemoveMergeEntry(p)
    /\ missed' = Pulls
    /\ UNCHANGED <<rowVars, gateVars, refVars, lock, pc, workVars, opVars,
                   noteVars, landed, raced>>

----------------------------------------------------------------------------
(* Pushes and pipelines.                                                   *)

Pushed(S, p) == Cardinality({n \in 0..MaxPushes : <<p, n>> \in S})

\* The author pushes a commit, having merged the target into the branch or not.
PushSource(p) ==
    /\ Count
    /\ Pushed(tip[p], p) <= MaxPushes
    /\ \E upto \in {{}, target} :
         tip' = [tip EXCEPT ![p] = @ \cup {<<p, Pushed(@, p)>>} \cup upto]
    /\ missed' = missed \cup {p}
    /\ raced' = (raced \/ \E t \in Threads : pc[t] = "ffcheck" /\ pr[t] = p)
    /\ UNCHANGED <<rowVars, listVars, gateVars, target, lock, pc, workVars, opVars,
                   noteVars, landed>>

PushTarget ==
    /\ Count
    /\ Pushed(target, NoPull) < MaxPushes
    /\ target' = target \cup {<<NoPull, Pushed(target, NoPull)>>}
    /\ raced' = (raced \/ \E t \in Threads : pc[t] = "ffold")
    /\ UNCHANGED <<rowVars, listVars, gateVars, tip, lock, pc, workVars, opVars,
                   noteVars, landed, missed>>

\* A pipeline is started again, or fails: the head is not green any more.
PipelineRestarts(c) ==
    /\ Count
    /\ c \in green /\ green' = green \ {c}
    /\ UNCHANGED <<rowVars, listVars, reviews, refVars, lock, pc,
                   workVars, opVars, noteVars, obsVars>>

----------------------------------------------------------------------------
(* tryAutoMerge and processMergeQueue.                                     *)

\* Not open, no auto-merge, or a draft without a queue: nothing to attempt.
TryAutoMerge(t) ==
    LET p == pr[t]
        attempt == state[p] = "open" /\ autoMerge[p] /\ (MergeQueue \/ ~draft[p])
    IN
    /\ pc[t] = "try"
    /\ \/ attempt /\ Goto(t, IF MergeQueue THEN "enqueue" ELSE "lock")
          /\ UNCHANGED <<workVars, opVars>>
       \/ ~attempt /\ Leave(t)
    /\ UNCHANGED <<rowVars, listVars, gateVars, refVars, lock, noteVars, obsVars, requests>>

ListMergeQueue(t) ==
    /\ pc[t] = "list"
    /\ todo'   = [todo EXCEPT ![t] = queue]
    /\ listed' = [listed EXCEPT ![t] = Members(queue)]
    /\ mode'   = [mode EXCEPT ![t] = "queue"]
    /\ Goto(t, "next")
    /\ UNCHANGED <<rowVars, queue, lastId, gateVars, refVars, lock, pr, more, want, opVars,
                   noteVars, obsVars, requests>>

TakeNext(t, step) ==
    /\ Goto(t, step)
    /\ pr'   = [pr EXCEPT ![t] = First(todo[t])]
    /\ todo' = [todo EXCEPT ![t][First(todo[t])] = 0]
    /\ UNCHANGED <<mode, more, want, opVars>>

\* The next entry is read: a closed or merged one is removed, a draft ends
\* the pass, an open one is merged.
NextEntry(t) ==
    /\ pc[t] = "next" /\ mode[t] = "queue"
    /\ IF todo[t] = Empty \/ (state[First(todo[t])] = "open" /\ draft[First(todo[t])])
       THEN Leave(t)
       ELSE TakeNext(t, IF state[First(todo[t])] = "open" THEN "lock" ELSE "drop")
    /\ UNCHANGED <<rowVars, listVars, gateVars, refVars, lock, noteVars, obsVars, requests>>

\* The next pull request of autoMergeForRepo, as it was when it was listed.
NextAuto(t) ==
    /\ pc[t] = "next" /\ mode[t] = "list"
    /\ IF todo[t] = Empty THEN Leave(t) ELSE TakeNext(t, "lock")
    /\ UNCHANGED <<rowVars, listVars, gateVars, refVars, lock, noteVars, obsVars, requests>>

Drop(t) ==
    /\ pc[t] = "drop"
    /\ RemoveMergeEntry(pr[t])
    /\ Goto(t, "next")
    /\ UNCHANGED <<rowVars, gateVars, refVars, lock, workVars, opVars, noteVars,
                   obsVars, requests>>

----------------------------------------------------------------------------
(* executeMerge: lock, gate, recheck, land, mark, notify, unlock.          *)

\* Mutant: the lock is not taken.
AcquireNothing(t) ==
    /\ pc[t] = "lock"
    /\ lock' = t
    /\ head' = [head EXCEPT ![t] = tip[pr[t]]]
    /\ Goto(t, "gate")
    /\ UNCHANGED <<rowVars, listVars, gateVars, refVars, workVars, new, old,
                   noteVars, obsVars, requests>>

\* The lock is taken and the head of the source branch read.
Acquire(t) ==
    /\ pc[t] = "lock" /\ lock = NoThread
    /\ lock' = t
    /\ head' = [head EXCEPT ![t] = tip[pr[t]]]
    /\ Goto(t, "gate")
    /\ UNCHANGED <<rowVars, listVars, gateVars, refVars, workVars, new, old,
                   noteVars, obsVars, requests>>

Return(t, merged) == lock' = NoThread /\ Resume(t, merged)

\* mergeGateError for the commit h, beyond the state of the row: a successful
\* run of h, and of the latest reviews of h by others enough approvals and no
\* request for changes.
Verdicts(p, h, says) ==
    {v \in Reviewers \ {Author} : reviews[p][v] = [says |-> says, at |-> h]}
GateOpen(p, h) ==
    /\ RequireCI => h \in green
    /\ Verdicts(p, h, "request_changes") = {}
    /\ Cardinality(Verdicts(p, h, "approve")) >= MinApprovals

PassGate(t) ==
    /\ pc[t] = "gate"
    /\ IF GateOpen(pr[t], head[t])
       THEN Goto(t, "recheck") /\ UNCHANGED <<lock, workVars, opVars>>
       ELSE Return(t, FALSE)
    /\ UNCHANGED <<rowVars, listVars, gateVars, refVars, noteVars, obsVars, requests>>

\* F-04: the head of the source branch is compared once more.
RecheckHead(t) ==
    /\ pc[t] = "recheck"
    /\ IF tip[pr[t]] = head[t]
       THEN /\ Goto(t, IF Method[pr[t]] = "merge" THEN "clone" ELSE "ffread")
            /\ UNCHANGED <<lock, workVars, opVars>>
       ELSE Return(t, FALSE)
    /\ UNCHANGED <<rowVars, listVars, gateVars, refVars, noteVars, obsVars, requests>>

\* mergeFastForward: the source is resolved ...
FFRead(t) ==
    /\ pc[t] = "ffread"
    /\ new' = [new EXCEPT ![t] = tip[pr[t]]]
    /\ Goto(t, "ffcheck")
    /\ UNCHANGED <<rowVars, listVars, gateVars, refVars, lock, workVars, head, old,
                   noteVars, obsVars, requests>>

\* ... ancestry is decided on the branch names, resolved again ...
FFCheck(t) ==
    /\ pc[t] = "ffcheck"
    /\ IF target \subseteq tip[pr[t]]
       THEN Goto(t, "ffold") /\ UNCHANGED <<lock, workVars, opVars>>
       ELSE Return(t, FALSE)
    /\ UNCHANGED <<rowVars, listVars, gateVars, refVars, noteVars, obsVars, requests>>

\* ... the value to replace is read after that ...
FFOld(t) ==
    /\ pc[t] = "ffold"
    /\ old' = [old EXCEPT ![t] = target]
    /\ Goto(t, "land")
    /\ UNCHANGED <<rowVars, listVars, gateVars, refVars, lock, workVars, head, new,
                   noteVars, obsVars, requests>>

\* mergeNonFF and mergeRebase work in a clone; they may meet a conflict.
CloneMerge(t) ==
    /\ pc[t] = "clone"
    /\ \/ /\ old' = [old EXCEPT ![t] = target]
          /\ new' = [new EXCEPT ![t] = target \cup tip[pr[t]]]
          /\ Goto(t, "land")
          /\ UNCHANGED <<lock, workVars, head, missed>>
       \/ /\ Return(t, FALSE)
          /\ missed' = missed \cup {pr[t]}
    /\ UNCHANGED <<rowVars, listVars, gateVars, refVars, noteVars, landed, raced, requests>>

\* The pull requests that can be fast-forwarded to the target once it is c, and
\* could not before: there are some only if c takes back what a push brought.
FreedBy(c) == {p \in Pulls : c \subseteq tip[p] /\ ~(target \subseteq tip[p])}

\* update-ref with the old value, or a push without force: only if the target
\* still is what was read.
Land(t) ==
    /\ pc[t] = "land"
    /\ IF target = old[t]
       THEN /\ target' = new[t]
            /\ landed' = landed \cup {[pull |-> pr[t], judged |-> head[t], commit |-> new[t]]}
            /\ missed' = missed \cup FreedBy(new[t])
            /\ Goto(t, "mark") /\ UNCHANGED <<lock, workVars, opVars>>
       ELSE /\ Return(t, FALSE)
            /\ missed' = missed \cup {pr[t]}
            /\ UNCHANGED <<target, landed>>
    /\ UNCHANGED <<rowVars, listVars, gateVars, tip, noteVars, raced, requests>>

\* Mutant: the update forgets its WHERE state = 'open'.
MarkAnyRow(t) ==
    LET p == pr[t] IN
    /\ pc[t] = "mark"
    /\ state'     = [state EXCEPT ![p] = "merged"]
    /\ headSHA'   = [headSHA EXCEPT ![p] = new[t]]
    /\ autoMerge' = [autoMerge EXCEPT ![p] = FALSE]
    /\ Goto(t, "notify") /\ UNCHANGED <<lock, workVars, opVars>>
    /\ UNCHANGED <<draft, listVars, gateVars, refVars, noteVars, obsVars, requests>>

\* MarkPullMerged; a row that is no longer open ends the merge without a word.
MarkPullMerged(t) ==
    LET p == pr[t] IN
    /\ pc[t] = "mark"
    /\ IF state[p] = "open"
       THEN /\ state'     = [state EXCEPT ![p] = "merged"]
            /\ headSHA'   = [headSHA EXCEPT ![p] = new[t]]
            /\ autoMerge' = [autoMerge EXCEPT ![p] = FALSE]
            /\ Goto(t, "notify") /\ UNCHANGED <<lock, workVars, opVars>>
       ELSE Return(t, FALSE) /\ UNCHANGED <<state, headSHA, autoMerge>>
    /\ UNCHANGED <<draft, listVars, gateVars, refVars, noteVars, obsVars, requests>>

Notify(t) ==
    /\ pc[t] = "notify"
    /\ notices' = [notices EXCEPT ![pr[t]] = @ + 1]
    /\ Return(t, TRUE)
    /\ UNCHANGED <<rowVars, listVars, gateVars, refVars, undone, obsVars, requests>>

----------------------------------------------------------------------------
(* The process dies and is started again.                                  *)

\* What a thread was to attempt, and nobody will.
Given(p) ==
    \E t \in Threads :
        pr[t] = p \/ todo[t][p] # 0 \/ more[t] \/ pc[t] \in {"hook", "list"}

\* The threads and the lock are gone, be it between the ref and the row; rows,
\* queue and refs stay, and nothing at start-up takes them up.
Crash ==
    /\ Count
    /\ \E t \in Threads : pc[t] # "idle"
    /\ lock' = NoThread
    /\ pc'   = [t \in Threads |-> "idle"]
    /\ pr'   = [t \in Threads |-> NoPull]
    /\ todo' = [t \in Threads |-> Empty]
    /\ mode' = [t \in Threads |-> "alone"]
    /\ more' = [t \in Threads |-> FALSE]
    /\ want' = [t \in Threads |-> "open"]
    /\ head' = [t \in Threads |-> {}]
    /\ new'  = [t \in Threads |-> {}]
    /\ old'  = [t \in Threads |-> {}]
    /\ listed' = [t \in Threads |-> {}]
    /\ missed' = missed \cup {p \in Pulls : Given(p)}
    /\ UNCHANGED <<rowVars, queue, lastId, gateVars, refVars, noteVars, landed, raced>>

----------------------------------------------------------------------------

Request(t) ==
    \E p \in Pulls :
         \/ MergePull(t, p) \/ RequestAuto(t, p) \/ PipelineSucceeds(t, p)
         \/ \E s \in {"open", "closed"} : RequestState(t, p, s)
         \/ \E v \in Reviewers, says \in {"approve", "request_changes"} : Review(t, p, v, says)

ThreadStep(t) ==
    \/ Enqueue(t) \/ SetPullAutoMerge(t) \/ AutoMergeForRepo(t) \/ SetPullState(t)
    \/ TryAutoMerge(t) \/ ListMergeQueue(t) \/ NextEntry(t) \/ NextAuto(t) \/ Drop(t)
    \/ Acquire(t) \/ PassGate(t) \/ RecheckHead(t) \/ CloneMerge(t)
    \/ FFRead(t) \/ FFCheck(t) \/ FFOld(t) \/ Land(t) \/ MarkPullMerged(t) \/ Notify(t)

Next ==
    \/ \E t \in Threads : Request(t) \/ ThreadStep(t)
    \/ \E p \in Pulls : SetPullDraft(p) \/ ClearAutoMerge(p) \/ DequeuePull(p) \/ PushSource(p)
    \/ PushTarget
    \/ \E c \in green : PipelineRestarts(c)
    \/ Crash

Spec == Init /\ [][Next]_vars

----------------------------------------------------------------------------
(* Properties.                                                             *)

Steps == {"idle", "setauto", "enqueue", "hook", "setstate", "try", "list", "next", "drop",
          "lock", "gate", "recheck", "ffread", "ffcheck", "ffold", "clone", "land", "mark",
          "notify"}
Locked == {"gate", "recheck", "ffread", "ffcheck", "ffold", "clone", "land", "mark", "notify"}
AtWork == Locked \cup {"setauto", "enqueue", "setstate", "try", "drop", "lock"}

\* Every variable keeps the shape its declaration gives it.
TypeOK ==
    /\ state \in [Pulls -> {"open", "closed", "merged"}]
    /\ draft \in [Pulls -> BOOLEAN] /\ autoMerge \in [Pulls -> BOOLEAN]
    /\ headSHA \in [Pulls -> Commits]
    /\ queue \in [Pulls -> Nat] /\ lastId \in Nat
    /\ listed \in [Threads -> SUBSET Pulls]
    /\ reviews \in [Pulls -> [Reviewers ->
          [says : {"none", "approve", "request_changes"}, at : Commits]]]
    /\ green \subseteq Commits
    /\ tip \in [Pulls -> Commits] /\ target \in Commits
    /\ lock \in Threads \cup {NoThread}
    /\ pc \in [Threads -> Steps]
    /\ pr \in [Threads -> Pulls \cup {NoPull}]
    /\ \A t \in Threads : pc[t] \in AtWork => pr[t] \in Pulls
    /\ todo \in [Threads -> [Pulls -> Nat]]
    /\ mode \in [Threads -> {"alone", "list", "queue"}]
    /\ more \in [Threads -> BOOLEAN]
    /\ want \in [Threads -> {"open", "closed"}]
    /\ head \in [Threads -> Commits]
    /\ new \in [Threads -> Commits] /\ old \in [Threads -> Commits]
    /\ landed \subseteq [pull : Pulls, judged : Commits, commit : Commits]
    /\ missed \subseteq Pulls /\ raced \in BOOLEAN
    /\ notices \in [Pulls -> Nat] /\ undone \in [Pulls -> Nat]
    /\ requests \in Nat

\* F-03: two requests, or a request and an event, that merge the same pull
\* request announce it once; again only after setPullState overwrote "merged".
AnnouncedOnce ==
    \A p \in Pulls :
        notices[p] + Cardinality({t \in Threads : pc[t] = "notify" /\ pr[t] = p})
            <= undone[p] + (IF state[p] = "merged" THEN 1 ELSE 0)

\* What a merged row records as its head is on the target branch, whatever
\* other merges and direct pushes do; it is lost only if a push hit one of the
\* two windows of mergeFastForward.
MergedIsOnTarget ==
    raced \/ \A p \in Pulls : state[p] = "merged" => headSHA[p] \subseteq target

\* A pass over the merge queue never lands a pull request ahead of one queued
\* before it, however many passes run and whatever is enqueued or removed.
QueueOrder ==
    [][\A t \in Threads :
         pc[t] = "land" /\ pc'[t] = "mark" /\ mode[t] = "queue" /\ pr[t] \in listed[t]
             => First(queue) = pr[t]]_vars

\* Once every request is served, no open pull request with auto-merge on is
\* left that the gate would let through: the approval, the pipeline and the
\* switch that race each other do not all miss it.  What no event announces (a
\* draft made ready, a reopened row, a push, a conflict, a fast-forward that
\* takes a push back) does leave one behind: those are "missed".
Quiet == \A t \in Threads : pc[t] = "idle"
Mergeable(p) ==
    /\ state[p] = "open" /\ ~draft[p] /\ GateOpen(p, tip[p])
    /\ Method[p] = "merge" \/ target \subseteq tip[p]
NotForgotten ==
    Quiet /\ ~MergeQueue => \A p \in Pulls \ missed : autoMerge[p] => ~Mergeable(p)

----------------------------------------------------------------------------
(* What comments in the code say and the code does not do.                 *)

\* merge.go: no commit lands that never passed review and CI.
LandsWhatWasJudged ==
    \A l \in landed : Method[l.pull] = "fast-forward" => l.commit = l.judged

\* diff.go: a concurrent push or merge is not silently overwritten.
NothingOverwritten == [][target \subseteq target']_vars

\* merge.go: a pass over the queue stops only where the head is not mergeable,
\* until the next event.  (A pass that finds its head merged by another pass
\* stops, too.)
QueueNotStalled ==
    Quiet /\ MergeQueue /\ queue # Empty /\ First(queue) \notin missed => ~Mergeable(First(queue))

=============================================================================
