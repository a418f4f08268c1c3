-------------------------- MODULE WebhookDelivery --------------------------
(***************************************************************************)
(* One delivery of one webhook: the task the dispatcher enqueued, the      *)
(* workers that post it and record the outcome, the pass that enqueues     *)
(* retries that are due, and the deletion of the webhook.  Tasks carry no  *)
(* ID: nothing keeps the queue from holding two of the same delivery.      *)
(* next_retry is "later" or "due"; time passes at any moment, so a worker  *)
(* may be slower than any delay.                                           *)
(* Source: src/backend/internal/webhooks/webhooks.go,                      *)
(* internal/store/webhooks.go, internal/jobs/jobs.go.                      *)
(***************************************************************************)
EXTENDS Naturals

CONSTANTS
    Workers,     \* workers of the queue
    Nodes,       \* nodes whose dispatchers look for due retries
    MaxAttempts, \* maxAttempts
    MaxPosts,    \* bound on the posts of a behaviour
    MaxOverlaps, \* bound on the overlaps: see the variable
    Redis,       \* TRUE: the queue survives a crash
    MaxFaults    \* bound on crashes and refused tasks

VARIABLES
    hook,    \* the webhook exists
    row,     \* its webhook_deliveries row: [status, attempts, next]
    tasks,   \* tasks[a]: how many queued tasks say a attempts were made
    worker,  \* each worker: [pc, attempts, ok]
    node,    \* each pass over the due retries: [pc, attempts]
    posts,   \* HTTP posts made
    overlaps, \* how often a task outlasted the delay, or two passes met
    faults

vars == <<hook, row, tasks, worker, node, posts, overlaps, faults>>

\* At least one attempt is made.
DeliveryAssumption == MaxAttempts \in Nat \ {0} /\ MaxPosts \in Nat

NoRow == [status |-> "none", attempts |-> 0, next |-> "none"]
Idle  == [pc |-> "idle", attempts |-> 0, ok |-> FALSE]
Tries == 0 .. MaxPosts + 1

\* A task of the delivery is queued, at work or about to be queued.
Busy ==
    \/ \E a \in Tries : tasks[a] > 0
    \/ \E w \in Workers : worker[w].pc # "idle"
    \/ \E n \in Nodes : node[n].pc # "idle"

\* The dispatcher has enqueued the first task: no row, no attempts.
Init ==
    /\ hook = TRUE /\ row = NoRow
    /\ tasks = [a \in Tries |-> IF a = 0 THEN 1 ELSE 0]
    /\ worker = [w \in Workers |-> Idle]
    /\ node = [n \in Nodes |-> [pc |-> "idle", attempts |-> 0]]
    /\ posts = 0 /\ overlaps = 0 /\ faults = 0

----------------------------------------------------------------------------
(* The worker: HandleJob and deliverAndRecord.                             *)

\* UpdateDelivery: whatever the row says, if there is one.
UpdateDelivery(status, next) ==
    row' = IF row = NoRow THEN row
           ELSE [status |-> status, attempts |-> row.attempts + 1, next |-> next]

\* A worker takes a task; without the webhook a retry fails for good.
Take(w) ==
    /\ worker[w].pc = "idle"
    /\ \E a \in Tries :
         /\ tasks[a] > 0
         /\ tasks' = [tasks EXCEPT ![a] = @ - 1]
         /\ IF hook
            THEN /\ worker' = [worker EXCEPT ![w] = [pc |-> "post", attempts |-> a, ok |-> FALSE]]
                 /\ UNCHANGED row
            ELSE /\ IF a > 0 THEN UpdateDelivery("failed", "none") ELSE UNCHANGED row
                 /\ UNCHANGED worker
    /\ UNCHANGED <<hook, node, posts, overlaps, faults>>

Post(w) ==
    /\ worker[w].pc = "post" /\ posts < MaxPosts
    /\ posts' = posts + 1
    /\ \E ok \in BOOLEAN : worker' = [worker EXCEPT ![w].pc = "record", ![w].ok = ok]
    /\ UNCHANGED <<hook, row, tasks, node, overlaps, faults>>

\* Mutant: the attempt just made is not counted.
GiveUpLate(a) == (IF a < 1 THEN 1 ELSE a) >= MaxAttempts

\* backoff: attempts made before, at least one, and the one just made.
GiveUp(a) == (IF a < 1 THEN 1 ELSE a) + 1 >= MaxAttempts

\* The first task makes the row, a retry updates it.
Record(w) ==
    /\ worker[w].pc = "record"
    /\ LET a == worker[w].attempts
           status == IF worker[w].ok THEN "success" ELSE IF GiveUp(a) THEN "failed" ELSE "retry"
           next == IF status = "retry" THEN "later" ELSE "none"
       IN IF a = 0 THEN row' = [status |-> status, attempts |-> 1, next |-> next]
          ELSE UpdateDelivery(status, next)
    /\ worker' = [worker EXCEPT ![w] = Idle]
    /\ UNCHANGED <<hook, tasks, node, posts, overlaps, faults>>

----------------------------------------------------------------------------
(* processRetries.                                                         *)

\* Two tasks of the delivery may be around from now on.
OverlapIf(overlap) ==
    /\ overlap => overlaps < MaxOverlaps
    /\ overlaps' = overlaps + (IF overlap THEN 1 ELSE 0)

\* Time passes next_retry, maybe before the task it was deferred for is done.
Due ==
    /\ row.status = "retry" /\ row.next = "later"
    /\ row' = [row EXCEPT !.next = "due"]
    /\ OverlapIf(Busy)
    /\ UNCHANGED <<hook, tasks, worker, node, posts, faults>>

\* DueRetries, maybe before the pass of another node has deferred the delivery;
\* without the webhook the delivery fails for good.
ReadDue(n) ==
    /\ node[n].pc = "idle" /\ row.status = "retry" /\ row.next = "due"
    /\ IF hook
       THEN /\ node' = [node EXCEPT ![n] = [pc |-> "defer", attempts |-> row.attempts]]
            /\ OverlapIf(\E m \in Nodes : node[m].pc = "defer")
            /\ UNCHANGED row
       ELSE UpdateDelivery("failed", "none") /\ UNCHANGED <<node, overlaps>>
    /\ UNCHANGED <<hook, tasks, worker, posts, faults>>

\* Mutant: the delivery stays due while its task is queued.
DeferNothing(n) ==
    /\ node[n].pc = "defer"
    /\ node' = [node EXCEPT ![n].pc = "enqueue"]
    /\ UNCHANGED <<hook, row, tasks, worker, posts, overlaps, faults>>

\* Mutant: the delivery is taken off the list for good.
DeferForGood(n) ==
    /\ node[n].pc = "defer"
    /\ row' = IF row = NoRow THEN row ELSE [row EXCEPT !.next = "none"]
    /\ node' = [node EXCEPT ![n].pc = "enqueue"]
    /\ UNCHANGED <<hook, tasks, worker, posts, overlaps, faults>>

\* DeferDelivery: later, whatever became of the row since.
Defer(n) ==
    /\ node[n].pc = "defer"
    /\ row' = IF row = NoRow THEN row ELSE [row EXCEPT !.next = "later"]
    /\ node' = [node EXCEPT ![n].pc = "enqueue"]
    /\ UNCHANGED <<hook, tasks, worker, posts, overlaps, faults>>

\* A queue that refuses the task is only logged.
Enqueue(n) ==
    /\ node[n].pc = "enqueue"
    /\ \/ tasks' = [tasks EXCEPT ![node[n].attempts] = @ + 1] /\ UNCHANGED faults
       \/ faults < MaxFaults /\ faults' = faults + 1 /\ UNCHANGED tasks
    /\ node' = [node EXCEPT ![n] = [pc |-> "idle", attempts |-> 0]]
    /\ UNCHANGED <<hook, row, worker, posts, overlaps>>

----------------------------------------------------------------------------
\* DeleteWebhook: the hook and its deliveries.
DeleteWebhook ==
    /\ hook
    /\ hook' = FALSE /\ row' = NoRow
    /\ UNCHANGED <<tasks, worker, node, posts, overlaps, faults>>

\* The processes die; what was being done is forgotten.
Crash ==
    /\ faults < MaxFaults
    /\ faults' = faults + 1
    /\ worker' = [w \in Workers |-> Idle]
    /\ node' = [n \in Nodes |-> [pc |-> "idle", attempts |-> 0]]
    /\ tasks' = IF Redis THEN tasks ELSE [a \in Tries |-> 0]
    /\ UNCHANGED <<hook, row, posts, overlaps>>

Worker(w) == Take(w) \/ Post(w) \/ Record(w)
Pass(n)   == ReadDue(n) \/ Defer(n) \/ Enqueue(n)

Next ==
    \/ \E w \in Workers : Worker(w)
    \/ \E n \in Nodes : Pass(n)
    \/ Due \/ DeleteWebhook \/ Crash

\* Time passes, dispatchers tick, workers run.
Fairness ==
    /\ WF_vars(Due)
    /\ \A w \in Workers : WF_vars(Worker(w))
    /\ \A n \in Nodes : WF_vars(Pass(n))

Spec == Init /\ [][Next]_vars /\ Fairness

----------------------------------------------------------------------------
(* Properties.                                                             *)

TypeOK ==
    /\ row \in [status : {"none", "retry", "success", "failed"}, attempts : Nat,
                next : {"none", "later", "due"}]
    /\ tasks \in [Tries -> Nat]
    /\ worker \in [Workers -> [pc : {"idle", "post", "record"}, attempts : Tries, ok : BOOLEAN]]
    /\ node \in [Nodes -> [pc : {"idle", "defer", "enqueue"}, attempts : Tries]]
    /\ hook \in BOOLEAN /\ {posts, overlaps, faults} \subseteq Nat

\* A receiver is posted to at most maxAttempts times, plus once for each crash
\* that forgot an outcome, unless a worker outlasted the delay or the passes of
\* two nodes met (backoff and the attempts a task carries, webhooks.go:345-388).
AttemptsBounded == overlaps = 0 => posts <= MaxAttempts + faults

\* The outcome of a delivery is final: a success is not turned into a failure or
\* a retry, unless a worker outlasted the delay or the passes of two nodes met:
\* deferring the delivery before its task is enqueued keeps the next pass off it
\* (processRetries, webhooks.go:391-420).
OutcomeFinal ==
    [][row.status \in {"success", "failed"} /\ overlaps' = 0 => row'.status \in {row.status, "none"}]_vars

\* A delivery to be retried reaches an outcome, across crashes, refused tasks,
\* tasks that overlap and the deletion of the webhook.
RetryEnds == (row.status = "retry") ~> (row.status # "retry" \/ posts = MaxPosts)

=============================================================================
